# RHOBS configuration: TLA+ models, checks and proofs

This directory verifies the RHOBS configuration repository: the generators of
RBAC, SLOs, Observatorium manifests and thanos-operator bundles, the build
around them, the CI scripts that deploy and test what was generated, the
integration-test tool that decides whether a deployment is up, and what the
generated files do once they are on a cluster. It holds TLA+ modules, the TLC configurations
that check them on small instances, and proofs that TLAPS checks for every
value of the constants. `PROJECT.json` lists components, runs, the source lines
each definition stands for, hazards, findings and theorems.

To run a check or a proof: `tlc -config wl_rollout.cfg MCWorkloadCheck`,
`tlapm WorkloadCheck_proofs.tla`.

## 1. The system and its parts

| Part | State | Operations | Hard behaviour |
|---|---|---|---|
| Integration test, workloads (`framework/pkg/deployment`, `statefulset`, `pod`) | map of listed objects by namespace, error lists | list, validate, poll status, poll pods, read logs | the cluster changes between any two requests; a status is late; comparison with an older List response |
| Integration test, services (`framework/pkg/service`) | map of listed services, error list, the poll's clock | list, validate, poll with retry, one Endpoints request per port | late endpoints, lost requests, deadline against interval |
| Integration test, main (`framework/cmd/rhobs-test`) | `errList` | the three checks in order, exit | one check fails, the next ones go on |
| RBAC generation (`configuration/observatorium/rbac.go`) | `mappedRoleNames`, `Roles`, `RoleBindings` | `attachBinding`, the admin binding, `gen.Add` | names made by concatenation; panics half way |
| Metrics and API manifests (`services_go`) | `storesRegister`, `queryRuleURL`, `queryAdhocURL`, the set of files | one `make...` method per component | each method relies on what the earlier ones registered; addresses are strings at both ends |
| Store sharding (`store-auto-shard-relabel-configMap.sh`, `makeStore`) | one relabelling file per pod | init container at every pod start | reads a live count once, at a moment nobody chose |
| SLOs and rules (`configuration/observatorium/slo.go`) | tables by environment, the files added so far | `GenSLO`, `envSLOs`, `makePrometheusRule` | lookups of environments a table lacks; labels pruned after the fact; names that clash panic |
| thanos-operator bundles (`magefiles/operator.go`, `cr.go`, `template.go`, `lib.go`) | tables of values, lists of objects | one mage target per file | objects tied together by names and labels across files; applied in any order; positions counted by hand |
| gateway, cache, alertmanager, secrets, monitors, rules (`magefiles`) | one version table | mage targets, two of them run by hand | a release changes labels of running workloads; rules read each other |
| Build (`mimic.go`, `Makefile`, `.circleci/config.yml`) | the working copy, times of files, the commit | `make manifests prometheusrules`, commit, the build job | deferred writes after a panic; missing prerequisites; `git diff` sees only tracked files |
| CI script (`tests/ci/ci_test.sh`) | the cluster, exit code, artifacts | deploy, tests, gather | errexit and its exceptions; pods change while they are gathered |
| jsonnet services, dashboards, alerts, `resources/` | none | evaluation by jsonnet, data | none of its own |

How they interact: `mimic.go` runs the generators in one process (SLOs, RBAC,
services), each adding files to one generator; the Makefile runs it and makes
the jsonnet templates of its output; the build job of CI does the same again
and compares. The manifests of a deployment are applied by hand or by the tests
job of CI; the store pods of those manifests run the sharding script; the
integration-test tool then looks at the result through the Kubernetes API. The
mage targets are a second family of generators, whose bundles the
thanos-operator turns into workloads; the gateway takes its RBAC file from the
RBAC generator.

What makes each part correct:

* the tool: exit code 0 vouches for everything it has seen, what passed was
  really up, nothing that was up is reported, a recovery within the timeout is
  seen, and the tool ends;
* RBAC: an account is granted what its row asks for, no more and no less,
  whatever other rows there are;
* manifests: the read path reaches every store, every address names a
  generated service or one that is known to be somebody else's, each tenant has
  one hashring, and its limit;
* sharding: each block is kept by exactly one store;
* SLOs: each objective has its file, each alert can be routed and tells the
  instance it is about;
* bundles: whatever an object refers to exists in the end, services find the
  pods behind them through every release, and everything is accepted in the
  end whatever the order it is applied in;
* stores and ingesters: a sample can be queried at every age;
* build: what CI passes is what its sources generate;
* CI script: a green job has seen every rollout, a failure is never lost, and
  what it leaves behind is complete.

## 2. Modules

| Module | Models | Correspondence |
|---|---|---|
| `Cluster` | Kubernetes as the tool observes it: specs with generation and template revision, pods, the status the controllers publish late | external; one action per kind of change; the histories `rolled` and `disturbed` remember completed rollouts and unsettled moments |
| `Inspection` | the abstract promise of a check package: find, judge each, pass only if all were judged and none failed | the property `KeepsPromise` of both detailed modules |
| `WorkloadCheck` | `CheckDeployments` and `CheckStatefulSets` with `GetPodStatus` | `kind` selects the package; one action per API request: `ListNamespace`, `PollStatus`, `PollPods`, `ReadLogs`; `badStatus` and `badPods` are the two error lists |
| `ServiceCheck` | `CheckServices` | `GetService` and `GetEndpoints` are the requests of one round, `elapsed` the context's clock (in intervals: the time of the requests is not counted), `GiveUp` the deadline; the history `lastDark` is the clock when the service at work was last without an address |
| `RhobsTest` | `main`: instances of the two modules above on one stack frame, over one cluster | `Returns` collects the error and calls the next package |
| `Rbac` | `GenerateRBAC` for any table; the operator `GenerateRBAC` is the table of the source | `AttachBinding` (with the roles it reserves before it panics), `DuplicateName`, `AppendAdmin`, `WriteFile`; `Grants` is the API's reading of the file |
| `Manifests` | `ObservatoriumMetrics.Manifests` and `ObservatoriumAPI.Manifests` | one action per `make...` call, in the order of `Steps`; `services` and `refs` are the services and addresses in the files, those of the jaeger-agent sidecars and of the router's limits included |
| `StoreSharding` | the init script in the life of a store StatefulSet | `RunScript`; `CreatePod`, `RemovePod`, `Scale`, `PublishStatus` are Kubernetes |
| `SLOs` | `GenSLO` on the tables and rows of the source, with the alerts pyrra makes of an objective | `AddObjective` and `AddRules` are the two `Add`s of `envSLOs`; `Pruned`, `Renamed`, `Demoted` the loops of `makePrometheusRule` |
| `Bundles` | every object of the `Stage` and `Local` targets: kind, name, references (mounts, accounts, bindings, and services dialled by their pods or named in their secrets), selector, labels, ports, table entries read | constant operators, one per builder, with the builders' names |
| `Rollout` | the bundles on a cluster: releases, the two targets run by hand, files applied in any order, pods rolled, the operator | `Release` edits `StageVersions`, `Mage` runs a target; the rest is Kubernetes, which refuses what is in the local namespace until it exists |
| `Retention` | one sample between the ingesters of `receiveCR` and the stores of `storeCR` | `IngesterRetention` and `WindowOf` are the source's durations; upload, loading and dropping are Thanos |
| `RuleGroup` | the telemeter rules as a ruler evaluates them | `rules` is the list of the source, as the records each rule reads |
| `Generation` | a maintainer's working copy, make, `mimic.go`, the commit and the build job | `Mimic` is `main` with its deferred write, which a panicking generator leaves any part of its files to; `PrometheusRules`, `Manifests`, `Build` are the targets and the job |
| `CiScript` | `ci_test.sh` under errexit | `todo` is the list of commands left; one action per command or pair of commands that fail alike |
| `MC*` | values of the constants for TLC; `MCStage` (`Rollout`, `Retention`, `RuleGroup`) and `MCPipeline` (`Rbac`, `SLOs`, `Generation`, `CiScript`) put parts side by side | a behaviour is of one part, so the states of the parts add up |
| `WorkloadCheck_proofs`, `ServiceCheck_proofs`, `RhobsTest_proofs` | the theorems about the tool | section 4 |
| `Manifests_proofs`, `StoreSharding_proofs`, `SLOs_proofs` | those about the manifests, the sharding script and the SLO generator | |
| `Stage_proofs`, `Pipeline_proofs` | those about the bundles and their rollout and the other parts of `MCStage` and `MCPipeline`, and about the two compositions | |

`RhobsTest` composes `WorkloadCheck`, `ServiceCheck` and `Cluster` by INSTANCE;
`WorkloadCheck` and `ServiceCheck` extend `Cluster` and implement `Inspection`.
`Rollout` extends `Bundles` and composes all targets with the cluster they are
applied to.

Abstractions. Objects are model values, a status keeps the counts and the
generation the code compares, a pod is Unfit, Running or Ready. RetryOnConflict
repeats only conflicts, which a Get never returns, so it is not a loop here.
The branches `ErrNoNamespace` and `ErrNamespaceEmpty` cannot be reached:
`strings.Split` never returns an empty list, and a listing that stored nothing
never reaches the validation. A hyphenated name is the sequence of its segments. In `Manifests` a
service is its name and namespace, an identifier stands for a UUID, and hooks,
resources and container literals but for the addresses they dial are left out. The hash of a block is a number.
A selector of an SLO is the function of its equality matchers, the name of an
SLO the sequence of its segments, and what is formatted with the name of an
instance a record of the text and the instance; which metric is counted as an
error is left out. The order of objects within a template file
(`OperatorCR` sorts them) is left out, as a cluster applies them as a set. In
`Generation` a file is the numbers of the edits it was made of, and its name
the directory it is in with what tells it from its neighbours there.

Operators whose comment says "Mutant" state a plausible bug in the operator
below them. The checks put them in its place to see that a property notices;
no specification uses them.

## 3. Runs

| Run | Question and result | Bounds and why they are enough |
|---|---|---|
| `wl_rollout` | Does what passes its status check deserve it, is a sound workload ever reported? Holds: `PassedWasRolledOut`, `NoFalseAlarm` | one workload of either kind, two pod names (permuted: symmetry is sound, no pod name is special), two generations, no or two replicas: enough for an edit, a rolling update with old and new pods, and a late status between List, Get and logs; `rolled` remembers only numbers of pods that a spec can ask for |
| `wl_namespaces` | Does the package keep `Inspection`'s promise? Holds, weakened by `maySkip` for deployments | two workloads, a namespace list with an empty and a repeated item, interval zero, below and at the timeout (there the timeout may come first, as it always does with a longer interval), failing requests; one pod each |
| `dep_no_retry` | Is a workload retried until the timeout, as the flags say? **Violated** (finding) | one workload |
| `svc_check` | Did what passes have a pod, is a service reported that was never dark, or one that had recovered in time? Does the package keep `Inspection`'s promise? `PassedWasServed`, `NoFalseAlarm`, `RecoveryIsSeen`, `KeepsPromise` hold | two services in two namespaces over one workload: one with a port equal to its target port, one without; up to three rounds of the poll |
| `tool_verdict` | What does exit code 0 vouch for, is exit code 1 deserved, and does the tool end? `ExitZeroVouches`, `ExitOneIsDeserved`, `Terminates` hold under `FairSpec` | one deployment, one statefulset, one service, one namespace, all of them changing during the run; requests do not fail here (they do in `wl_namespaces`) |
| `tool_masked` | Does exit code 0 mean that every workload it has seen was up at some moment, when each namespace it was given has one? **Violated** (finding): a listed deployment that never had its pod | two namespaces, one with a deployment and one with a statefulset, no services |
| `store_sharding` | When is each block kept exactly once, when is none lost? Holds | up to four replicas; hashes 0 to 11 cover every combination of residues modulo 1 to 4 |
| `manifests` | Read path, addresses, write path. Hold: `AddressesExist` names the two addresses no file answers, `WritePathSound` says for which tenants the API knows an ID | all orders of all subsets of the three instances, four tenants in all configurations, the API in the metrics' namespace or in none |
| `manifests_grpc` | Are the registered stores reached on gRPC ports? **Violated** (finding) | the same |
| `stage` | The bundles through releases and rollouts, a sample through its stores, the rounds of the rules: `OnlyTheCacheGoesDark`, `NothingElseDangles`, `EverythingIsScraped`, `NothingIsMissing`, `RolloutCompletes`, `UploadedInTimeIsServed`, `OneRoundBehindAtMost` hold | two releases of each of the two images, enough for a rendered, an applied and a running one to differ; ages on both sides of each window's edge; ten rounds, of which one or two in a row may be missed |
| `tiers_named` | Does a store hold the ages of its name? **Violated** (finding) | five ages, ten days among them; an upload and a drop by the ingester come before the violation |
| `pipeline` | RBAC: is each account granted what its row asks for, is the source's table accepted? SLOs: files, routing, labels. Build: is what passes current, is what was made current? CI script: `GreenMeansRolledOut`, `NoFailureIsLost`, `UndisturbedGatheringIsComplete`, `TestsJobEnds`. All hold | the source's 21 rows with any of 180 more rows before or after them, and all tables of up to two rows over names that differ by an environment suffix; the whole SLO table; three edits, enough for one to break, one to change and one to mend, over two objectives; two namespaces with three workloads |

`CHECK_DEADLOCK FALSE` stands only in the runs of programs that end
(generators, scripts, a sample's last age, the last round within the bound). The tool's modules have an explicit `Exited` step, and the store never
stops.

Each property was written against a hazard of `PROJECT.json`. Some deserve a
word. `PassedWasRolledOut` says that trust in a status that was read late and
compared with a spec read early is justified: a rollout of that generation or
a later one was complete at some moment of the run or at its start. For a
statefulset it says nothing of readiness, as `checkStatefulSetStatus` compares
no ready replicas; pods that run without being ready pass. `GrantsAsAsked`
carries the condition that no row opts out of the naming check with a
misnamed account: with one, two rows may name the same account. And
`FirstInstallServesAll` holds because the script reads the pods created so
far: the first pod reads 1 and keeps all blocks. It is a property of coverage,
not of balance: after an installation of n stores their moduli are 1 to n.

`GreenIsCurrent` is about three memories that drift apart: the sources, the
maintainer's files and the commit. What it allows is what `git diff` cannot see:
files of retired objectives (`resources/observability/prometheusrules/pyrra`
holds many), files never added, and rules that a failed `make prometheusrules`
removed before somebody committed. It speaks of the files of `mimic.go` and of
one template; the mage bundles and `observatorium-tenants-template.yaml` are
tracked too, but the job never builds them again, so they may be stale on green.
`RecoveryIsSeen` is what the timeout of the service check is worth: a service
that is reported was without an address so late that no round was sure to
follow. `NothingElseDangles` lists what is referred to and comes from nowhere;
in the local environment that includes the object store: the secrets name
`minio` in `observatorium-minio`, where `tests/deploy` does not put it.
`OnlyTheCacheGoesDark` states which
service survives a release and which does not: the version is among the labels
of the cache's selector, which a StatefulSet never changes, while the gateway
keeps a copy without it. `UploadedInTimeIsServed` holds although two windows
are swapped: the window of the store named for the oldest tier reaches down to
now, and that of the store named for the youngest has no end.

### Fairness

`RhobsTest!FairSpec` assumes it only for the step of the tool: `main` is one
goroutine, each request and each wait returns. Nothing is assumed of the
cluster, which may stop or change for ever. The deadline is what ends the
service poll: `elapsed` grows at each round, and when one more interval does
not fit only `GiveUp` is left.

`StageSpec` assumes weak fairness of the cluster's moves taken together
(applying, rolling, reconciling): files are applied again by the deployment
pipeline and controllers run for ever, and each of these steps is progress.
Nobody is assumed to release an image, to run a mage target or to make what no
target generates, so `RolloutCompletes` says what follows once the last is
there for good. `PipelineSpec` assumes weak fairness of the script's next step
only: each `oc` call returns, each `oc wait` and `oc rollout status` has a
timeout. Pods may change for ever.

## 4. Proofs

| Theorem | Property | Inductive invariant |
|---|---|---|
| `WorkloadCheck_proofs!TypeCorrect` | `TypeOK` | with `CurInv`: while an item is checked there is one |
| `WorkloadCheck_proofs!RolloutIsReal` | `PassedWasRolledOut` | `RolloutInv` |
| `WorkloadCheck_proofs!AlarmsAreReal` | `NoFalseAlarm` | `AlarmInv` |
| `WorkloadCheck_proofs!WorkloadsKeepThePromise` | `KeepsPromise` (refinement of `Inspection`) | `LoopInv` |
| `ServiceCheck_proofs!TypeCorrect` | `TypeOK` | with `CurInv` and `ServicesInv` |
| `ServiceCheck_proofs!ServiceIsReal` | `PassedWasServed` | `ServicesInv` |
| `ServiceCheck_proofs!AlarmsAreReal` | `NoFalseAlarm` | `DarkInv`, `AlarmInv` |
| `ServiceCheck_proofs!RecoveriesAreSeen` | `RecoveryIsSeen` | `RoundInv` with `DarkInv` |
| `ServiceCheck_proofs!ServicesKeepThePromise` | `KeepsPromise` (refinement of `Inspection`) | `LoopInv` |
| `RhobsTest_proofs!ToolInvariant`, `TypeCorrect` | `TypeOK` | `ToolInv` |
| `RhobsTest_proofs!ExitCodeVouches` | `ExitZeroVouches` | `ToolInv` |
| `RhobsTest_proofs!AlarmsOfTheToolAreReal` | `ExitOneIsDeserved` | `BlameInv` with `ToolInv` |
| `RhobsTest_proofs!EveryStepIsProgress` | all of `Terminates` but fairness: no step of the tool can be repeated for ever | `ToolInv` with `ExamineInv`, variant `Left` |
| `Pipeline_proofs!RbacInvariant`, `AccountsGetWhatTheirRowAsks` | `GrantsAsAsked` | `RbacInv` |
| `Pipeline_proofs!TheSourceIsAccepted` | `SourceTableIsAccepted` | `PanicInv` with `RbacInv` |
| `Pipeline_proofs!GenerationInvariant`, `PassedIsCurrent`, `BothMadeIsCurrent`, `GenerationTypes` | `GreenIsCurrent`, `MadeIsCurrent` | `GenInv` |
| `Pipeline_proofs!ScriptInvariant`, `FailuresAreKept`, `GreenHasSeenAll` | `NoFailureIsLost`, `GreenMeansRolledOut` | `ScriptInv` |
| `Pipeline_proofs!GatherInvariant`, `GatheringIsComplete` | `UndisturbedGatheringIsComplete` | `GatherInv` |
| `Pipeline_proofs!EveryCommandIsProgress` | all of `TestsJobEnds` but fairness | `ScriptInv`, variant `JobLeft` |
| `Pipeline_proofs!ScriptTypeInvariant`, `PipelineTypes` | `PipelineTypeOK` | with `NamedInv` |
| `SLOs_proofs!SLOInvariant`, `ObjectivesHaveFiles` | `EveryObjectiveHasItsFile` | `SLOInv` |
| `SLOs_proofs!AlertsAreRouted` | `EveryAlertIsRouted` | `SLOInv` |
| `SLOs_proofs!AlertsAreToldApart` | `AlertsTellInstancesApart` | `SLOInv` |
| `Pipeline_proofs!PartsOfThePipeline`, `PipelineIsSound` | the state properties above, from `RbacInvariant` on, of the whole | each step is a step of every part or leaves it alone |
| `Manifests_proofs!CallsInvariant`, `TypeCorrect` | `TypeOK` | `ManifestsInv` |
| `Manifests_proofs!ReadsSeeEverything` | `ReadPathComplete` | `ManifestsInv` |
| `Manifests_proofs!NothingDialledIsMissing` | `AddressesExist` | `ManifestsInv` |
| `Manifests_proofs!WritesReachOnePlace` | `WritePathSound` | `ManifestsInv` |
| `StoreSharding_proofs!ShardingInvariant`, `TypeCorrect` | `TypeOK` | `ShardInv` |
| `StoreSharding_proofs!FreshStoresShareOut`, `InstallationServesAll` | `FreshStoresPartition`, `FirstInstallServesAll` | `ShardInv` |
| `Stage_proofs!RolloutInvariant`, `OnlyTheCacheLosesItsPods` | `OnlyTheCacheGoesDark` | `RolloutInv` |
| `Stage_proofs!EveryEntryIsThere` | `NothingIsMissing` | `RolloutInv` |
| `Stage_proofs!NothingDangles` | `NothingElseDangles` | `RolloutInv` |
| `Stage_proofs!MonitorsScrape` | `EverythingIsScraped` | `RolloutInv` |
| `Stage_proofs!AtRestAsRendered` | the safety half of `RolloutCompletes`: a cluster at rest, with nothing left to be made by hand, is as rendered | `RolloutInv` |
| `Stage_proofs!EveryMoveIsProgress` | no move of the cluster can be made for ever, whatever the number of releases | `RolloutInv`, variant `MovesLeft` |
| `Stage_proofs!LifeInvariant`, `SamplesAreServed` | `UploadedInTimeIsServed` | `LifeInv` |
| `Stage_proofs!GroupInvariant`, `NoneIsFurtherBehind` | `OneRoundBehindAtMost` | `GroupInv` |
| `Stage_proofs!PartsOfTheStage`, `StageTypes`, `StageIsSound` | `StageTypeOK` and the six above, of the whole | as for the pipeline |

They assume only the named assumptions of the modules (`ClusterAssumption`,
`CheckAssumption`, `ServiceAssumption`, `ToolAssumption`, `TablesAssumption`,
`ConfigsAssumption`, `ShardingAssumption`, `ReleasesAssumption`,
`RetentionAssumption`, `LookbackAssumption`, `GenerationAssumption`), which TLC
evaluates on each run. `ConfigsAssumption` gives the types of a configuration,
and the others named last say no more than that bounds are numbers:
`LookbackAssumption` asks besides for a lookback of at least five minutes, the
default of the rulers, and of no more than two rounds of the rules: with more
a query would see over a round that was missed.
`ScriptAssumption` of `CiScript` is a hypothesis of its theorems; `MCPipeline`
assumes it of the instance it runs, so TLC evaluates that one too.
`FiniteCluster`, that there are finitely many workloads, services and ports, is
a hypothesis of `EveryStepIsProgress` alone.

* **RolloutIsReal.** `PassedWasRolledOut` relates what the tool saw to what
  the cluster was; the step that makes it true happens in the controller, long
  before the tool looks. `StatusRolled` bridges the gap: whatever complete
  status (at a number of pods a spec can ask for) is published belongs to a
  rollout that `rolled` remembers. It is kept
  because publishing reads the pods of the same moment and `rolled` never
  forgets. `WorkInv` says that only listed items are judged.
* **AlarmsAreReal** (workloads). A workload never disturbed is settled now
  (`SettledInv`), the listed spec is its spec (`SnapInv`) and the pods whose
  logs are being read are there (`LogsInv`), so both polls pass at any moment.
* **ServiceCheck.** Addresses are published of ready pods only and `served`
  never forgets (`ServicesInv`), so what passes was served. For the alarms, a
  service that never was dark has an address at every moment (`DarkInv`), and
  while it is examined its first round has time left or has not yet reached
  the matching port (`AlarmInv`): it cannot end without a match. `RoundInv`
  says as much of every round: either the service was without an address since
  the clock last moved, or the round has yet to reach a port that matches. So a
  round that is over without a match leaves `lastDark` at the clock's present
  value, from which `GiveUp` has no room for another interval.
* **KeepsPromise.** `LoopInv` says that a listed item of a namespace already
  passed is examined, at work or still to do, and that the package returns nil
  only with an empty error list. With it each step of a package is Find,
  Judge, Conclude, Abort or Skip of `Inspection`, or a stutter.
* **The whole tool.** The lemmas of the packages are taken as INSTANCEs on
  `main`'s one stack frame: their steps are shown to be those of the instances
  in `RhobsTest`, so the package invariants hold while a package runs
  (`FrameInv`) and the facts about the cluster throughout (`EnvInv`).
  `KindInv` keeps what each package judged apart, and `VerdictInv` says that
  an object given up by a package that has returned is an error in `errList`.
  `BlameInv` is the converse: whatever makes an error, in the package that runs
  or in `errList`, is laid to something seen that was not in order, for which
  the alarms of the packages are taken over.
* **EveryStepIsProgress.** What is left to do is a tuple compared from the
  left: packages to call, stages of the package, namespaces of its loop, items
  of the namespace, looks at the item (of a service, the time left for them)
  and requests of the look. The order is well founded (proved, with the
  library's theorem on lexicographic products), each step of the tool lowers
  the tuple and no step of the cluster touches it. `ExamineInv` is what makes
  the polls of a service end: they are never begun with an interval of zero.
  Beyond the assumptions it asks for finitely many workloads, services and
  ports (`FiniteCluster`).
* **AccountsGetWhatTheirRowAsks.** Bindings come from rows or the admin
  (`BindingsInv`, `AllBoundInv`), roles from reserved keys (`RolesInv`,
  `ReservedInv`), names are distinct and follow the convention
  (`CheckedInv`); then `SubjectDeterminesName` makes an account's name belong
  to one row, and `RoleNameInjective` a role's name to one key.
* **Sharding.** `FreshInv` says that a fresh pod holds the modulus asked for,
  which with ordinals 0 to n-1 is a partition of the residues. `InstallInv`
  says that as pods are created in order the published count is at most one
  until the first pod runs.
* **SamplesAreServed.** `LifeInv`: an ingester drops a sample only past its
  retention, nothing is loaded before it was uploaded, and a store that has
  not loaded the block of a sample in its window is not late (`NotYetDue`).
  The rest is arithmetic: per hashring, at each age some window has been
  entered more than the loading time ago, or the ingester still has the sample.
* **The tests job.** What the job has not seen yet is accounted for by the
  commands it has left (`AppliedInv`, `SeenInv`), and the restart of the API is
  always followed by a check of it (`Rechecked`), so an empty list means that
  all was seen. A failed run has nothing but the gathering and its exit left
  (`FailInv`). While nothing comes in the way, each pod there was is gathered
  or some command left leads to it, and the one exit is the last command
  (`GatherInv`). `NamedInv`, that the gathering speaks of applied workloads
  only, is what the types of the script need beyond that.
* **EveryCommandIsProgress.** A command of `ci_test.sh` is replaced by commands
  of lower levels only (the statefulsets of a namespace by its deployments,
  these by checks; pods by descriptions, these by containers, these by logs),
  and gathering begins once, as no command of it leads back (`GatheringHead`).
  So the calls of the script left, whether it may still have to gather, and
  the number of commands of each level fall from the left with each step,
  whatever the pods do.
* **Manifests.** The calls are made in a fixed order, and what one leaves is
  what a later one reads. `ManifestsInv` says after how many calls each
  register, service, hashring and address is there: the stores registered are
  those of the instances generated so far (`Endpoints`, `InstancesInv`), the
  hashrings and limits are complete once the router is made (`RouterInv`), the
  queries have their lists and URLs once they are (`QueryInv`), and whatever is
  dialled is one of `Targets` (`RefsInv`). `ReadsSeeEverything` follows because
  the queries come after all instances; moved before, they would miss stores.
  The theorems hold of any list of instances, one that repeats an instance
  included, of any tenants and any two namespaces.
* **TheSourceIsAccepted.** A panic is the doing of the row it came at
  (`PanicInv`): its name is taken or breaks the convention. The names of the
  21 rows of the source are pairwise different, none is the admin's and none
  ends in an environment, so there is no such row.
* **Generation.** `FilesInv` holds what is in the working copy and the commit
  to the names that the generators and `make` write. `CurrentInv` is the
  make-file's contract: unless its prerequisite was edited since, a file is
  what the sources of now generate, and a target that has run and was not
  outdated has left its files so. `JudgedInv` says what a build that has
  passed found. `GreenIsCurrent` then compares what was regenerated with what
  was committed; every exception it allows is named in it.
* **Rollout.** `RolloutInv` says that whatever is live is `Known`, an object
  that some release renders in this environment or that the operator makes
  of one, that there is one object of a kind and name, that pods carry the
  labels their workload's selector asks for whichever release they are of
  (`FixedPods`), and that the cache's pods are those of the StatefulSet that
  is live (`CachePods`). Nothing bounds how many releases are on the
  cluster at once. What is at rest is a question about `Settled`: were an
  object of the bundles not live, its file could still be applied, so each is
  live, or stuck behind the cache's selector (the local namespace comes first,
  in the operator's file), and what the operator makes of
  it is live too; the references are then compared kind by kind.
* **EveryMoveIsProgress.** No two files name the same object, of whatever
  releases they are, so applying one never takes away what another brought.
  An object still to be applied weighs nine, a workload whose pods have not
  started and one whose old pods are not gone weigh one each: four workloads
  have eight such steps between them, so even an object that unsettled all
  would bring more than it cost. Their sum `MovesLeft` is a natural number, since only finitely
  many objects are rendered, and each move of the cluster lowers it while it
  leaves alone what only the maintainers change. A cluster that is not at rest
  has, by the definition of `Settled`, a move to make, and one that is at rest
  is as rendered (`AtRestAsRendered`); from these three facts to
  `RolloutCompletes` is the temporal argument under weak fairness only.
* **The SLOs.** The loops of `makePrometheusRule` are followed through for any
  objective of the form the tables have (`Sound`): what pyrra makes of it
  keeps the matchers of its selector through pruning, renaming and demoting.
  `SLOInv` says exactly which objectives and files there are after so many
  `Add`s. The names of the rows differ in a segment, so no name is ever taken
  and nothing panics on the way; only the rule-query row has a selector that
  matches no instance, which is the exception the property names.
* **NoneIsFurtherBehind.** `GroupInv`: before the next rule of a round, what
  the earlier rules recorded is of this round and what the later ones did is
  of the round before, or too old to be seen after a gap. Only the rule of
  `Subscribed` reads records that come after it.
* **The compositions.** A step of `MCStage` or `MCPipeline` is a step of one
  part and leaves the others as they were, so it is a step or a stutter of
  each, and a behaviour of the whole is one of each part
  (`PartsOfTheStage`, `PartsOfThePipeline`). Fairness only takes behaviours
  away. What was proved of the parts is therefore proved of the specification
  that TLC runs.

Not proved, only model-checked:

* `Terminates`, `RolloutCompletes` and `TestsJobEnds`: liveness under fairness
  and ENABLED are out of this prover's reach. That no move can be made for
  ever is proved for all three (`EveryStepIsProgress`, `EveryMoveIsProgress`,
  `EveryCommandIsProgress`), and for the rollout also what holds when no move
  is left (`AtRestAsRendered`). That a move is possible as long as the end is
  not reached, and that fairness then takes it, is what TLC checks.

No module here needs induction over data or RECURSIVE operators. The four
properties of the runs that find a violation are refuted by TLC's
counterexamples.

## 5. Findings

1. `deployment.go:131`, `statefulset.go:133`: the poll returns its error, which
   ends it at the first unhealthy look, although the flags speak of a timeout
   "for retry" (`main.go:44-45`). `service.go:129` does retry. Run
   `dep_no_retry`.
2. `deployment.go:53,70,163`: one namespace without deployments ends the whole
   deployment check with success; `service.go:53,70,149` does the same for
   services; `statefulset.go:69` does not. Run `tool_masked`.
3. `metrics.go:281`: the ruler registers `http://...:10902` as a Store API
   endpoint of the queries. Run `manifests_grpc`.
4. `cr.go:225`: the store named for the samples up to two weeks has the window of
   those beyond: a sample of ten days that only stores have is not in it. Run
   `tiers_named`. (Read in the code, not shown by the run: the store named for
   90 days and more, `cr.go:351`, reaches down to now.)

Observed while modelling, without a run of their own because the other side is
not in this repository or no text promises otherwise.

Manifests:

* the API (`api.go:83`) and `makeUp` (`api.go:253`) dial the query frontend on
  port 9090, and the rulers dial the rules objstore on 10902
  (`metrics.go:263`), ports that the generated services do not list;
* `makeUp` ignores its `endpoint` argument: both probes query the frontend;
* the bucket cache is configured with the index cache's address
  (`metrics.go:960`), so the bucket-cache memcached is never used;
* `postProcessServiceMonitor` is called twice for each query
  (`metrics.go:536,540`);
* `makeObsTenants` (`rhobs.go:383`) reads the default instance's table only:
  tenants `rhel` and `telemeter` would have an empty identifier in the API, and
  `rhel`, which stage limits and routes through the API, no limit there
  (`WritePathSound` states it);
* the comment of `metrics.go:994` speaks of the number of replicas; the script
  reads `.status.replicas`, the pods created so far, and its log line prints
  the StatefulSet's name as the number of replicas.

Integration test:

* workloads that ask for no pods always fail the pod check (`pod.go:79`);
* a service is recognised only if some port's number is its target port's
  (`service.go:96`).

Bundles:

* the cache's selector contains the version (`cache.go:185`);
* the account of the gateway is generated by no target (`gateway.go:116`), and
  its monitor names a port that its service lacks (`gateway.go:653`);
* the ruler dials port 9093 of the headless service whose peers are dialled on
  9094 (`cr.go:753`, `alertmanager.go:133`), and the local targets make no
  alertmanager;
* the definitions (`operator.go:24`) and the operator (`template.go:44`) are
  pinned separately;
* the gateway contains a copy of the RBAC file, so an edit of `rbac.go`
  reaches it only when its mage target is run again;
* `getAndRemoveObject` breaks at the first object, so its panic for a second
  one is never reached (`lib.go:126`).

SLOs and build:

* pruning `le` makes two alerts for absent metrics of a latency objective one;
  the selector of the rule-query availability objective names no instance
  (`slo.go:326-327`), so telemeter and mst raise the same alert;
* rows for 10M samples describe 100M (`slo.go:449,485`), and rows for 100M
  query the 1M probe (`slo.go:462-463,498-499`);
* rules of retired objectives stay in the directory of the generated files;
* rules deleted by a failed `make prometheusrules` can be committed;
* `telemeter.libsonnet` is not among the prerequisites of its template
  (`Makefile:146`);
* `oc process -f --param-file=...` lacks the template's name
  (`ci_test.sh:82`), and the namespaces `observatorium-mst` and
  `observatorium-logs` are never awaited by a function of the script.

## 6. Not modelled, and why

Log output and log scanning (the lines are printed, never judged), client
construction, container and resource literals. The buffering readers and
regular-expression replacements of `encoders.go` and `helpers.go` are
conversions of text about which no property here speaks. The other scripts
(`launch.sh`, `runtest.sh`, `synchronize.sh`) are straight lines of commands.
Jsonnet sources, dashboards and generated YAML are data. The libraries that
turn options into objects (kubegen, the thanos-operator types, pyrra) are taken
as they are used; the expressions of the SLOs, the flags of memcached and the
download of the definitions are left out.

## 7. Plan

What was planned is done except for `Encoders`, dropped for the reason in
section 6. What would add most from here:

1. An abstract specification of the generator of manifests, of which
   `ReadPathComplete` and `WritePathSound` are consequences.
2. The encoders, should a property come to speak of their text.
