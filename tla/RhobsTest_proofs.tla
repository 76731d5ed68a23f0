-------------------------- MODULE RhobsTest_proofs --------------------------
(***************************************************************************)
(* Proofs about the whole tool, for any cluster, any services and any      *)
(* flags: what exit code 0 vouches for, that exit code 1 is deserved, and  *)
(* that each step brings the tool nearer to its exit.  The lemmas about    *)
(* the packages are those of their own proof modules, taken as instances   *)
(* on main's stack frame.                                                  *)
(***************************************************************************)
EXTENDS RhobsTest, FiniteSetTheorems, WellFoundedInduction, TLAPS

WlP  == INSTANCE WorkloadCheck_proofs WITH kind <- phase
SvcP == INSTANCE ServiceCheck_proofs WITH lastDark <- -1

-----------------------------------------------------------------------------
(* The packages that main calls are the packages of the proofs. *)

\* What the lemmas assume of the constants.
LEMMA Assumptions ==
    /\ WlP!ClusterAssumption /\ WlP!CheckAssumption
    /\ SvcP!ClusterAssumption /\ SvcP!ServiceAssumption
  BY ClusterAssumption, ToolAssumption
     DEF ClusterAssumption, ToolAssumption, WlP!ClusterAssumption, WlP!CheckAssumption,
         SvcP!ClusterAssumption, SvcP!ServiceAssumption, IsFiniteSet,
         WlP!IsFiniteSet, SvcP!IsFiniteSet

\* The steps of the workload packages.
LEMMA WorkloadSteps == Wl!CheckNext => WlP!CheckNext
  BY DEF
    Wl!CheckNext, Wl!ListFails, Wl!ListNamespace, Wl!StoreDone, Wl!Validate,
    Wl!NextNamespace, Wl!NextItem, Wl!Conclude, Wl!PollStatus, Wl!PollPods,
    Wl!ReadLogs, Wl!LogsDone, Wl!Return, Wl!ItemDone, Wl!Live, Wl!Exists, Wl!InNs,
    Wl!EmptyNamespaceEnds, Wl!Spec0, Wl!Listed, Wl!ErrorFound, Wl!PollTicks,
    Wl!PollExpires, Wl!Healthy, Wl!Complete, Wl!DeploymentComplete,
    Wl!StatefulSetComplete, Wl!PodListHealthy, Wl!Nobody,
    WlP!CheckNext, WlP!ListFails, WlP!ListNamespace, WlP!StoreDone, WlP!Validate,
    WlP!NextNamespace, WlP!NextItem, WlP!Conclude, WlP!PollStatus, WlP!PollPods,
    WlP!ReadLogs, WlP!LogsDone, WlP!Return, WlP!ItemDone, WlP!Live, WlP!Exists,
    WlP!InNs, WlP!EmptyNamespaceEnds, WlP!Spec0, WlP!Listed, WlP!ErrorFound,
    WlP!PollTicks, WlP!PollExpires, WlP!Healthy, WlP!Complete,
    WlP!DeploymentComplete, WlP!StatefulSetComplete, WlP!PodListHealthy, WlP!Nobody

\* The steps of the service package.
LEMMA ServiceSteps == Svc!CheckNext => SvcP!CheckNext
  BY DEF
    Svc!CheckNext, Svc!ListFails, Svc!ListNamespace, Svc!StoreDone, Svc!Validate,
    Svc!NextNamespace, Svc!NextItem, Svc!Conclude, Svc!GetService, Svc!GetEndpoints,
    Svc!NoPortMatches, Svc!GiveUp, Svc!Return, Svc!ItemDone, Svc!PollTicks,
    Svc!PollExpires, Svc!Waited, Svc!Matches, Svc!EndpointPorts, Svc!Nobody,
    SvcP!CheckNext, SvcP!ListFails, SvcP!ListNamespace, SvcP!StoreDone,
    SvcP!Validate, SvcP!NextNamespace, SvcP!NextItem, SvcP!Conclude,
    SvcP!GetService, SvcP!GetEndpoints, SvcP!NoPortMatches, SvcP!GiveUp,
    SvcP!Return, SvcP!ItemDone, SvcP!PollTicks, SvcP!PollExpires, SvcP!Waited,
    SvcP!Matches, SvcP!EndpointPorts, SvcP!Nobody

\* The steps of the cluster.
LEMMA ClusterSteps ==
    Svc!ClusterNext => WlP!ClusterNext /\ SvcP!ClusterNext
  BY DEF
    Svc!ClusterNext, Svc!EditSpec, Svc!DeleteWorkload, Svc!CreatePod, Svc!DeletePod,
    Svc!MovePod, Svc!SyncStatus, Svc!Remember, Svc!RolledNow, Svc!Settled,
    Svc!Published, Svc!Live, Svc!Exists, Svc!OfRev, Svc!ReadyPods, Svc!NoPod,
    Svc!Spec0, Svc!Cardinality,
    WlP!ClusterNext, WlP!EditSpec, WlP!DeleteWorkload, WlP!CreatePod, WlP!DeletePod,
    WlP!MovePod, WlP!SyncStatus, WlP!Remember, WlP!RolledNow, WlP!Settled,
    WlP!Published, WlP!Live, WlP!Exists, WlP!OfRev, WlP!ReadyPods, WlP!NoPod,
    WlP!Spec0, WlP!Cardinality,
    SvcP!ClusterNext, SvcP!EditSpec, SvcP!DeleteWorkload, SvcP!CreatePod,
    SvcP!DeletePod, SvcP!MovePod, SvcP!SyncStatus, SvcP!Remember, SvcP!RolledNow,
    SvcP!Settled, SvcP!Published, SvcP!Live, SvcP!Exists, SvcP!OfRev,
    SvcP!ReadyPods, SvcP!NoPod, SvcP!Spec0, SvcP!Cardinality

\* The steps of the cluster and the services, as each package knows them.
LEMMA EnvironmentSteps ==
    ASSUME Svc!EnvironmentNext
    PROVE  /\ SvcP!EnvironmentNext
           /\ WlP!ClusterNext \/ UNCHANGED clusterVars
  BY ClusterSteps
     DEF Svc!EnvironmentNext, Svc!PublishEndpoints, Svc!DeleteService, Svc!Watch,
         Svc!ReadyPods, Svc!Live, Svc!clusterVars, clusterVars,
         SvcP!EnvironmentNext, SvcP!PublishEndpoints, SvcP!DeleteService,
         SvcP!Watch, SvcP!ReadyPods, SvcP!Live, SvcP!clusterVars

\* A run starts as the packages think.
LEMMA FirstState ==
    ASSUME Init
    PROVE  WlP!ClusterInit /\ WlP!CheckInit /\ SvcP!ServiceInit
  BY DEF Init, ClusterInit, Svc!ServiceInit, Wl!CheckInit,
         Live, RolledNow, Exists, OfRev, ReadyPods, Settled, Published, Spec0, NoPod,
         FreshStatus, Cardinality,
         Svc!ReadyPods, Svc!Live, Wl!Spec0, Wl!Nobody,
         WlP!ClusterInit, WlP!CheckInit, WlP!Live, WlP!RolledNow, WlP!Exists,
         WlP!OfRev, WlP!ReadyPods, WlP!Settled, WlP!Published, WlP!Spec0,
         WlP!NoPod, WlP!FreshStatus, WlP!Cardinality, WlP!Nobody,
         SvcP!ServiceInit, SvcP!ReadyPods, SvcP!Live

-----------------------------------------------------------------------------
(* The invariant of a run. *)

\* The cluster and the services, whichever package looks at them.
EnvInv == WlP!ClusterTypeOK /\ WlP!StatusRolled /\ SvcP!ServicesInv

\* The frame holds what the invariants of the package called say, and nothing
\* of the packages that are not.
InWorkloads ==
    WlP!RolloutInv /\ WlP!LoopInv /\ badSvcs = {}
InServices ==
    /\ SvcP!RunTypeOK /\ SvcP!CurInv /\ SvcP!PassedWasServed /\ SvcP!LoopInv
    /\ badStatus = {} /\ badPods = {}
FrameInv ==
    /\ flags \in Flags
    /\ phase \in {"deployment", "statefulset"} => InWorkloads
    /\ phase = "service" => InServices

\* What was listed as a deployment is never listed as a statefulset.
KindInv ==
    /\ asDeployment \subseteq Workload
    /\ \A w \in asDeployment : spec[w].kind # "statefulset"
    /\ phase = "deployment" =>
         /\ seen = {} /\ asDeployment = {}
         /\ \A w \in WlP!Listed : spec[w].kind # "statefulset"
    /\ phase = "statefulset" => asDeployment \cap WlP!Listed = {}

\* What main remembers of the packages that have returned.
VerdictInv ==
    /\ phase \in {"deployment", "statefulset", "service"}
    /\ errList \subseteq {"deployment", "statefulset", "service"}
    /\ exit \in {"none", "0", "1"} /\ (exit = "0" => errList = {})
    /\ seen \subseteq Workload \cup Service
    /\ passed \subseteq seen /\ skipped \subseteq seen
    /\ errList = {} => seen \subseteq passed \cup skipped
    /\ \A w \in skipped \cap Workload : w \in asDeployment
    /\ \A w \in passed \cap Workload : \E r \in rolled[w] :
          w \in asDeployment => r.ready
    /\ passed \cap Service \subseteq served

ToolInv == EnvInv /\ FrameInv /\ KindInv /\ VerdictInv

\* The run starts on a frame of its own.
LEMMA ToolInit == Init => ToolInv
<1> SUFFICES ASSUME Init PROVE ToolInv
  OBVIOUS
<1>1. WlP!ClusterInit /\ WlP!CheckInit /\ SvcP!ServiceInit
  BY FirstState
<1>2. EnvInv
  BY <1>1, Assumptions, WlP!ClusterInitType, WlP!InitRolled, SvcP!ServicesInit DEF EnvInv
<1>3. InWorkloads /\ flags \in Flags
  BY <1>1, <1>2, Assumptions, WlP!FrameRolled, WlP!LoopInit
     DEF EnvInv, InWorkloads, Init, WlP!CheckInit
<1>4. WlP!Listed = {}
  BY <1>1 DEF WlP!CheckInit, WlP!Listed, WlP!Spec0
<1> QED
  BY <1>2, <1>3, <1>4 DEF Init, ToolInv, FrameInv, KindInv, VerdictInv

\* The packages leave main's memory and the cluster alone.
LEMMA RunningStep ==
    ASSUME ToolInv, Running, UNCHANGED mainVars, UNCHANGED envVars
    PROVE  ToolInv'
<1> USE DEF ToolInv
<1>1. VerdictInv'
  BY DEF VerdictInv, mainVars, envVars, clusterVars
<1>2. SvcP!ServicesInv'
  BY DEF EnvInv, envVars, SvcP!ServicesInv
<1>3. CASE phase # "service"
  <2>1. phase \in {"deployment", "statefulset"} /\ WlP!CheckNext /\ UNCHANGED serviceVars
    BY <1>3, WorkloadSteps DEF Running, VerdictInv
  <2>2. WlP!CheckNext /\ UNCHANGED WlP!clusterVars
    BY <2>1 DEF envVars, clusterVars, WlP!clusterVars
  <2>3. [WlP!Next]_(WlP!vars)
    BY <2>2 DEF WlP!Next
  <2>4. WlP!RolloutInv /\ WlP!LoopInv /\ badSvcs' = {}
    BY <2>1 DEF FrameInv, InWorkloads, serviceVars
  <2>5. WlP!RolloutInv' /\ WlP!LoopInv'
    BY <2>3, <2>4, Assumptions, WlP!RolloutStep, WlP!LoopStep DEF WlP!RolloutInv
  <2>6. EnvInv' /\ flags' \in Flags
    BY <1>2, <2>5 DEF EnvInv, WlP!RolloutInv, WlP!TypeOK, WlP!CheckTypeOK
  <2>7. \A w \in WlP!Listed' : w \in WlP!Listed \/ spec[w].kind = phase
    BY <2>1, Assumptions, WlP!ListedKind
  <2>8. KindInv'
    BY <1>3, <2>1, <2>7 DEF KindInv, mainVars, envVars, clusterVars
  <2> QED
    BY <1>1, <1>3, <2>1, <2>4, <2>5, <2>6, <2>8 DEF FrameInv, InWorkloads, mainVars
<1>4. CASE phase = "service"
  <2>1. SvcP!CheckNext /\ UNCHANGED workloadVars
    BY <1>4, ServiceSteps DEF Running
  <2>2. [SvcP!Next]_(SvcP!vars)
    BY <2>1 DEF envVars, clusterVars, SvcP!Next, SvcP!clusterVars, SvcP!svcVars
  <2>3. InServices /\ SvcP!ServicesInv
    BY <1>4 DEF FrameInv, EnvInv
  <2>4. SvcP!RunTypeOK' /\ SvcP!CurInv'
    BY <2>2, <2>3, Assumptions, SvcP!TypeStep DEF InServices
  <2>5. SvcP!PassedWasServed' /\ SvcP!LoopInv'
    BY <2>2, <2>3, Assumptions, SvcP!ServedStep, SvcP!LoopStep DEF InServices
  <2>6. WlP!ClusterTypeOK' /\ WlP!StatusRolled' /\ flags' \in Flags
    BY <2>4 DEF EnvInv, envVars, clusterVars, WlP!ClusterTypeOK, WlP!StatusRolled,
                SvcP!RunTypeOK
  <2>7. KindInv'
    BY <1>4 DEF KindInv, mainVars, envVars, clusterVars
  <2> QED
    BY <1>1, <1>2, <1>4, <2>1, <2>3, <2>4, <2>5, <2>6, <2>7
       DEF EnvInv, FrameInv, InServices, mainVars, workloadVars
<1> QED
  BY <1>3, <1>4

\* The cluster moves under any of the packages and forgets no rollout.
LEMMA EnvironmentStep ==
    ASSUME ToolInv, Svc!EnvironmentNext, UNCHANGED <<flags, frameVars, mainVars>>
    PROVE  ToolInv'
<1> USE DEF ToolInv
<1>1. SvcP!EnvironmentNext /\ (WlP!ClusterNext \/ UNCHANGED clusterVars)
  BY EnvironmentSteps
<1>2. SvcP!ServicesInv' /\ served \subseteq served'
  BY <1>1, Assumptions, SvcP!ServicesStep DEF EnvInv
<1>3. /\ WlP!ClusterTypeOK' /\ WlP!StatusRolled'
      /\ \A w \in Workload : /\ rolled[w] \subseteq rolled'[w]
                              /\ spec'[w].kind \in {spec[w].kind, "none"}
  <2>1. CASE WlP!ClusterNext
    BY <2>1, Assumptions, WlP!ClusterStepType, WlP!ClusterStepRolled, WlP!KindStays
       DEF EnvInv
  <2>2. CASE UNCHANGED clusterVars
    BY <2>2 DEF EnvInv, clusterVars, WlP!ClusterTypeOK, WlP!StatusRolled
  <2> QED
    BY <1>1, <2>1, <2>2
<1>4. VerdictInv'
  BY <1>2, <1>3 DEF VerdictInv, mainVars
<1>5. KindInv'
  <2>1. WlP!Listed' = WlP!Listed /\ WlP!Listed \subseteq Workload
    BY DEF frameVars, WlP!Listed
  <2> QED
    BY <1>3, <2>1 DEF KindInv, mainVars
<1>6. ASSUME phase # "service" PROVE InWorkloads'
  <2>1. WlP!RolloutInv /\ WlP!LoopInv /\ badSvcs' = {}
    BY <1>6 DEF FrameInv, InWorkloads, VerdictInv, frameVars
  <2>2. UNCHANGED WlP!checkVars
    BY DEF frameVars, mainVars, WlP!checkVars
  <2>3. [WlP!Next]_(WlP!vars)
    BY <1>1, <2>2 DEF WlP!Next, WlP!vars, WlP!clusterVars, clusterVars
  <2> QED
    BY <2>1, <2>3, Assumptions, WlP!RolloutStep, WlP!LoopStep
       DEF InWorkloads, WlP!RolloutInv
<1>7. ASSUME phase = "service" PROVE InServices'
  <2>1. InServices /\ SvcP!ServicesInv
    BY <1>7 DEF FrameInv, EnvInv
  <2>2. [SvcP!Next]_(SvcP!vars)
    BY <1>1 DEF frameVars, SvcP!Next, SvcP!checkVars
  <2>3. SvcP!RunTypeOK' /\ SvcP!CurInv'
    BY <2>1, <2>2, Assumptions, SvcP!TypeStep DEF InServices
  <2>4. SvcP!PassedWasServed' /\ SvcP!LoopInv'
    BY <2>1, <2>2, Assumptions, SvcP!ServedStep, SvcP!LoopStep DEF InServices
  <2> QED
    BY <2>1, <2>3, <2>4 DEF InServices, frameVars
<1> QED
  BY <1>2, <1>3, <1>4, <1>5, <1>6, <1>7 DEF EnvInv, FrameInv, mainVars

\* On a fresh frame the invariants of the packages hold.
LEMMA FreshWorkloadFrame ==
    (WlP!CheckInit /\ EnvInv)' => (WlP!RolloutInv /\ WlP!LoopInv)'
<1>1. WlP!CheckInit /\ EnvInv => WlP!RolloutInv /\ WlP!LoopInv
  BY Assumptions, WlP!FrameRolled, WlP!LoopInit DEF EnvInv
<1> QED
  BY <1>1, PTL

\* A service check begins with the invariant of its package.
LEMMA FreshServiceFrame ==
    (SvcP!CheckInit /\ EnvInv)'
        => (SvcP!RunTypeOK /\ SvcP!CurInv /\ SvcP!PassedWasServed /\ SvcP!LoopInv)'
<1>1. SvcP!CheckInit => SvcP!PassedWasServed
  BY DEF SvcP!CheckInit, SvcP!PassedWasServed, SvcP!Passed
<1>2. SvcP!CheckInit /\ EnvInv
        => SvcP!RunTypeOK /\ SvcP!CurInv /\ SvcP!PassedWasServed /\ SvcP!LoopInv
  BY <1>1, Assumptions, SvcP!FrameType, SvcP!LoopInit DEF EnvInv
<1> QED
  BY <1>2, PTL

\* What a workload package has passed was rolled out, and what it has not was
\* skipped or is an error.
LEMMA WorkloadsReturn ==
    ASSUME ToolInv, phase \in {"deployment", "statefulset"}, pc = "done"
    PROVE  /\ ListedNow = WlP!Listed /\ ListedNow \subseteq Workload
           /\ PassedNow \subseteq ListedNow /\ examined \subseteq ListedNow
           /\ \A w \in PassedNow : \E r \in rolled[w] :
                  phase = "deployment" => r.ready
           /\ result = "nil" => PassedNow = examined
           /\ result = "nil" /\ phase = "statefulset" => examined = ListedNow
<1>1. InWorkloads
  BY DEF ToolInv, FrameInv
<1>2. ListedNow = WlP!Listed /\ ListedNow \subseteq Workload
  BY DEF ListedNow, WlP!Listed
<1>3. examined \subseteq WlP!Listed
  BY <1>1 DEF InWorkloads, WlP!LoopInv
<1>4. PassedNow = examined \ WlP!Bad /\ PassedNow \subseteq WlP!StatusPassed
  BY <1>1 DEF InWorkloads, PassedNow, WlP!Bad, WlP!StatusPassed
<1>5. \A w \in PassedNow : \E r \in rolled[w] : phase = "deployment" => r.ready
  BY <1>1, <1>4 DEF InWorkloads, WlP!RolloutInv, WlP!PassedWasRolledOut
<1> QED
  BY <1>1, <1>2, <1>3, <1>4, <1>5 DEF InWorkloads, WlP!LoopInv

\* What the service package has passed was served.
LEMMA ServicesReturn ==
    ASSUME ToolInv, phase = "service", pc = "done"
    PROVE  /\ ListedNow \subseteq Service
           /\ PassedNow \subseteq ListedNow
           /\ PassedNow \subseteq served
           /\ result = "nil" => PassedNow = examined
  BY DEF ToolInv, FrameInv, InServices, ListedNow, PassedNow, SvcP!RunTypeOK,
         SvcP!PassedWasServed, SvcP!Passed, SvcP!LoopInv

\* A package returns, and the next one is called on a fresh frame.
LEMMA ReturnsStep ==
    ASSUME ToolInv, Returns, UNCHANGED flags, UNCHANGED envVars
    PROVE  ToolInv'
<1>1. EnvInv' /\ flags' \in Flags
  BY DEF ToolInv, EnvInv, FrameInv, envVars, clusterVars, WlP!ClusterTypeOK,
         WlP!StatusRolled, SvcP!ServicesInv
<1>2. /\ pc = "done" /\ exit = "none"
      /\ errList' = errList \cup ErrorOf(phase)
      /\ seen' = seen \cup ListedNow /\ passed' = passed \cup PassedNow
      /\ asDeployment' = IF phase = "deployment" THEN ListedNow ELSE asDeployment
      /\ skipped' = skipped \cup (IF result = "nil" THEN ListedNow \ examined ELSE {})
  BY DEF Returns
<1>3. ErrorOf(phase) = {} => result = "nil"
  BY DEF ErrorOf
<1>4. UNCHANGED <<spec, rolled, served>>
  BY DEF envVars, clusterVars
<1>5. CASE phase \in {"deployment", "statefulset"}
  <2>1. /\ phase' = IF phase = "deployment" THEN "statefulset" ELSE "service"
        /\ NewFrame /\ exit' = exit
    BY <1>5 DEF Returns
  <2>2. FrameInv'
    <3>1. phase' = "statefulset" => WlP!CheckInit'
      BY <1>1, <2>1 DEF NewFrame, Spec0, WlP!CheckInit, WlP!Spec0, WlP!Nobody
    <3>2. phase' = "service" => SvcP!CheckInit'
      BY <1>1, <2>1 DEF NewFrame, SvcP!CheckInit, SvcP!Nobody
    <3>3. badStatus' = {} /\ badPods' = {} /\ badSvcs' = {}
      BY <2>1 DEF NewFrame
    <3>4. phase' = "statefulset" => InWorkloads'
      BY <1>1, <3>1, <3>3, FreshWorkloadFrame DEF InWorkloads
    <3>5. phase' = "service" => InServices'
      BY <1>1, <3>2, <3>3, FreshServiceFrame DEF InServices
    <3> QED
      BY <1>1, <2>1, <3>4, <3>5 DEF FrameInv
  <2>3. KindInv'
    <3>1. WlP!Listed' = {}
      BY <2>1 DEF NewFrame, Spec0, WlP!Listed
    <3>2. \A w \in asDeployment' : w \in Workload /\ spec[w].kind # "statefulset"
      BY <1>2, <1>5, WorkloadsReturn DEF ToolInv, KindInv
    <3> QED
      BY <1>4, <2>1, <3>1, <3>2 DEF KindInv
  <2>4. VerdictInv'
    <3> USE DEF ToolInv, VerdictInv, KindInv
    <3>1. \A w \in skipped' \cap Workload : w \in asDeployment'
      BY <1>2, <1>5, WorkloadsReturn
    <3>2. \A w \in passed' \cap Workload : \E r \in rolled[w] :
            w \in asDeployment' => r.ready
      <4>1. CASE phase = "deployment"
        BY <1>2, <4>1, WorkloadsReturn
      <4>2. CASE phase = "statefulset"
        BY <1>2, <4>2, WorkloadsReturn
      <4> QED
        BY <1>5, <4>1, <4>2
    <3>3. passed' \cap Service \subseteq served
      BY <1>2, <1>5, WorkloadsReturn, ToolAssumption DEF ToolAssumption
    <3>4. errList' = {} => seen' \subseteq passed' \cup skipped'
      BY <1>2, <1>3, <1>5, WorkloadsReturn
    <3>5. /\ seen' \subseteq Workload \cup Service
          /\ passed' \subseteq seen' /\ skipped' \subseteq seen'
      BY <1>2, <1>5, WorkloadsReturn
    <3> QED
      BY <1>2, <1>4, <1>5, <2>1, <3>1, <3>2, <3>3, <3>4, <3>5 DEF ErrorOf
  <2> QED
    BY <1>1, <2>2, <2>3, <2>4 DEF ToolInv
<1>6. CASE phase = "service"
  <2>1. /\ exit' = (IF errList' = {} THEN "0" ELSE "1")
        /\ UNCHANGED <<phase, frameVars>>
    BY <1>6 DEF Returns
  <2>2. FrameInv'
    <3>1. InServices
      BY <1>6 DEF ToolInv, FrameInv
    <3>2. InServices'
      BY <1>4, <2>1, <3>1
         DEF InServices, envVars, frameVars, SvcP!RunTypeOK, SvcP!CurInv, SvcP!LoopInv,
             SvcP!AtWork, SvcP!PassedWasServed, SvcP!Passed
    <3> QED
      BY <1>1, <1>6, <2>1, <3>2 DEF FrameInv
  <2>3. KindInv'
    BY <1>2, <1>4, <1>6, <2>1 DEF ToolInv, KindInv
  <2>4. VerdictInv'
    <3> USE DEF ToolInv, VerdictInv
    <3>1. /\ \A w \in skipped' \cap Workload : w \in asDeployment'
          /\ \A w \in passed' \cap Workload : \E r \in rolled[w] :
                w \in asDeployment' => r.ready
      BY <1>2, <1>6, ServicesReturn, ToolAssumption DEF ToolAssumption
    <3>2. passed' \cap Service \subseteq served
      BY <1>2, <1>6, ServicesReturn
    <3>3. errList' = {} => seen' \subseteq passed' \cup skipped'
      BY <1>2, <1>3, <1>6, ServicesReturn
    <3>4. /\ seen' \subseteq Workload \cup Service
          /\ passed' \subseteq seen' /\ skipped' \subseteq seen'
      BY <1>2, <1>6, ServicesReturn
    <3> QED
      BY <1>2, <1>4, <1>6, <2>1, <3>1, <3>2, <3>3, <3>4 DEF ErrorOf
  <2> QED
    BY <1>1, <2>2, <2>3, <2>4 DEF ToolInv
<1> QED
  BY <1>5, <1>6 DEF ToolInv, VerdictInv

-----------------------------------------------------------------------------
(* The theorems. *)

\* The invariant of a run: each package's own, on main's frame, and what main
\* remembers of those that have returned.
THEOREM ToolInvariant == Spec => []ToolInv
<1>1. ToolInv /\ [Next]_vars => ToolInv'
  <2> SUFFICES ASSUME ToolInv, [Next]_vars PROVE ToolInv'
    OBVIOUS
  <2>1. CASE Running /\ UNCHANGED mainVars /\ UNCHANGED envVars
    BY <2>1, RunningStep
  <2>2. CASE Returns /\ UNCHANGED flags /\ UNCHANGED envVars
    BY <2>2, ReturnsStep
  <2>3. CASE Svc!EnvironmentNext /\ UNCHANGED <<flags, frameVars, mainVars>>
    BY <2>3, EnvironmentStep
  <2>4. CASE UNCHANGED vars
    <3> USE <2>4 DEF vars, envVars, clusterVars, frameVars, mainVars, ToolInv
    <3>1. EnvInv' /\ VerdictInv'
      BY DEF EnvInv, VerdictInv, WlP!ClusterTypeOK, WlP!StatusRolled, SvcP!ServicesInv
    <3>2. KindInv'
      BY DEF KindInv, WlP!Listed
    <3>3. ASSUME phase # "service" PROVE InWorkloads'
      <4>1. WlP!RolloutInv /\ WlP!LoopInv /\ badSvcs' = {}
        BY <3>3 DEF FrameInv, InWorkloads, VerdictInv
      <4>2. [WlP!Next]_(WlP!vars)
        BY DEF WlP!vars, WlP!clusterVars, WlP!checkVars
      <4> QED
        BY <4>1, <4>2, Assumptions, WlP!RolloutStep, WlP!LoopStep
           DEF InWorkloads, WlP!RolloutInv
    <3>4. phase = "service" => InServices'
      BY DEF FrameInv, InServices, SvcP!RunTypeOK, SvcP!CurInv, SvcP!LoopInv, SvcP!AtWork,
             SvcP!PassedWasServed, SvcP!Passed
    <3> QED
      BY <3>1, <3>2, <3>3, <3>4 DEF FrameInv
  <2> QED
    BY <2>1, <2>2, <2>3, <2>4 DEF Next, Main, Exited
<1> QED
  BY <1>1, ToolInit, PTL DEF Spec

\* TypeOK: main's memory, and on its frame the called package's.
THEOREM TypeCorrect == Spec => []TypeOK
<1>1. ToolInv => TypeOK
  <2> SUFFICES ASSUME ToolInv PROVE TypeOK
    OBVIOUS
  <2>1. phase \in {"deployment", "statefulset"} => Wl!CheckTypeOK
    BY DEF ToolInv, FrameInv, InWorkloads, WlP!RolloutInv, WlP!TypeOK, WlP!CheckTypeOK,
           WlP!SpecType, WlP!Errors, WlP!Nobody, Wl!CheckTypeOK, Wl!SpecType,
           Wl!Errors, Wl!Nobody
  <2>2. phase = "service" => Svc!RunTypeOK
    BY DEF ToolInv, FrameInv, InServices, SvcP!RunTypeOK, SvcP!Nobody, Svc!RunTypeOK, Svc!Nobody
  <2>3. {Phases[i] : i \in 1..3} = {"deployment", "statefulset", "service"}
    BY DEF Phases
  <2> QED
    BY <2>1, <2>2, <2>3 DEF ToolInv, VerdictInv, TypeOK
<1> QED
  BY <1>1, ToolInvariant, PTL

\* ExitZeroVouches: although the checks are made one after the other while the
\* cluster changes, what exit code 0 has passed was up at some moment, and what
\* it has seen it has passed, but for listings that an empty namespace ended.
THEOREM ExitCodeVouches == Spec => []ExitZeroVouches
<1>1. ToolInv => ExitZeroVouches
  BY DEF ToolInv, VerdictInv, ExitZeroVouches
<1> QED
  BY <1>1, ToolInvariant, PTL

-----------------------------------------------------------------------------
(* No false alarm of the whole tool. *)

\* Requests succeed and the flags leave room for a check.
Quiet == ~ApiMayFail /\ 0 < flags.interval /\ flags.interval < flags.timeout

\* Something the run has seen was not in order.
Culprit ==
    \/ \E w \in seen \cap Workload : w \in disturbed \/ spec[w].replicas = 0
    \/ \E v \in seen \cap Service : v \in dark \/ \A p \in Ports[v] : p.target # p.port

\* Each package knows the faults of what it reports, and returns an error for
\* nothing else; main has errors of packages only that have returned one.
BlameInv ==
    /\ WlP!SettledInv /\ SvcP!DarkInv
    /\ phase # "service" => WlP!AlarmInv
    /\ phase = "service" => SvcP!AlarmInv
    /\ Quiet /\ result \notin {"running", "nil"} => badStatus \cup badPods \cup badSvcs # {}
    /\ Quiet /\ errList # {} => Culprit
    /\ exit = "1" => errList # {}

\* Nothing is reported yet.
LEMMA BlameInit == Init => BlameInv
<1> SUFFICES ASSUME Init PROVE BlameInv
  OBVIOUS
<1>1. WlP!ClusterInit /\ WlP!CheckInit /\ SvcP!ServiceInit
  BY FirstState
<1>2. WlP!SettledInv /\ WlP!AlarmInv
  <2>1. WlP!SettledInv
    BY <1>1 DEF WlP!ClusterInit, WlP!SettledInv
  <2> QED
    BY <1>1, <2>1, Assumptions, WlP!ClusterInitType, WlP!AlarmInit
<1>3. SvcP!DarkInv
  BY <1>1 DEF SvcP!ServiceInit, SvcP!DarkInv
<1> QED
  BY <1>1, <1>2, <1>3 DEF Init, BlameInv, WlP!CheckInit

\* A step of the package at work: its errors are those of its items, or of a
\* request or a flag that is at fault.
LEMMA BlameRunning ==
    ASSUME ToolInv, BlameInv, Running, UNCHANGED mainVars, UNCHANGED envVars
    PROVE  BlameInv'
<1>1. /\ UNCHANGED <<phase, exit, errList, seen>>
      /\ UNCHANGED <<spec, disturbed, dark, svcs, addrs>>
  BY DEF mainVars, envVars, clusterVars
<1>2. WlP!SettledInv'
  BY Assumptions, WlP!StillSettled DEF BlameInv, envVars, clusterVars, WlP!clusterVars
<1>3. SvcP!DarkInv'
  BY <1>1 DEF BlameInv, SvcP!DarkInv
<1>4. Culprit' = Culprit
  BY <1>1 DEF Culprit
<1>5. CASE phase # "service"
  <2>1. WlP!CheckNext /\ UNCHANGED serviceVars
    BY <1>5, WorkloadSteps DEF Running
  <2>2. WlP!AlarmInv'
    <3>1. [WlP!Next]_(WlP!vars)
      BY <2>1 DEF WlP!Next, envVars, clusterVars, WlP!clusterVars
    <3> QED
      BY <1>5, <3>1, Assumptions, WlP!AlarmStep DEF BlameInv
  <2>3. flags' = flags
    BY <2>1 DEF WlP!CheckNext, WlP!ListFails, WlP!ListNamespace, WlP!StoreDone,
       WlP!Validate, WlP!NextNamespace, WlP!NextItem, WlP!Conclude, WlP!PollStatus,
       WlP!PollPods, WlP!ReadLogs, WlP!LogsDone
  <2>4. /\ flags.interval \in Nat /\ flags.timeout \in Nat
        /\ result \in {"running", "nil"} \/ pc = "done"
    BY <1>5, ToolAssumption
       DEF ToolAssumption, ToolInv, FrameInv, InWorkloads, VerdictInv, WlP!LoopInv
  <2>5. \/ result' = result /\ badStatus \subseteq badStatus' /\ badPods \subseteq badPods'
        \/ result' = "nil"
        \/ result' = "ErrListing" /\ ApiMayFail
        \/ result' = "ErrInvalidInterval" /\ (flags.interval = 0 \/ flags.timeout = 0)
        \/ result' = "ErrFailed" /\ badStatus' \cup badPods' # {}
    BY <2>1 DEF WlP!CheckNext, WlP!ListFails, WlP!ListNamespace, WlP!StoreDone,
       WlP!Validate, WlP!NextNamespace, WlP!NextItem, WlP!Conclude, WlP!PollStatus,
       WlP!PollPods, WlP!ReadLogs, WlP!LogsDone, WlP!ItemDone, WlP!Return, WlP!ErrorFound
  <2>6. badSvcs' = badSvcs
    BY <2>1 DEF serviceVars
  <2> QED
    BY <1>1, <1>2, <1>3, <1>4, <1>5, <2>2, <2>3, <2>4, <2>5, <2>6 DEF BlameInv, Quiet
<1>6. CASE phase = "service"
  <2>1. SvcP!CheckNext /\ UNCHANGED workloadVars
    BY <1>6, ServiceSteps DEF Running
  <2>2. SvcP!AlarmInv'
    <3>1. [SvcP!Next]_(SvcP!vars)
      BY <2>1 DEF envVars, clusterVars, SvcP!Next, SvcP!clusterVars, SvcP!svcVars
    <3> QED
      BY <1>6, <3>1, Assumptions, SvcP!AlarmStep
         DEF BlameInv, ToolInv, EnvInv, FrameInv, InServices
  <2>3. flags' = flags
    BY <2>1 DEF SvcP!CheckNext, SvcP!ListFails, SvcP!ListNamespace, SvcP!StoreDone,
       SvcP!Validate, SvcP!NextNamespace, SvcP!NextItem, SvcP!Conclude,
       SvcP!GetService, SvcP!GetEndpoints, SvcP!NoPortMatches, SvcP!GiveUp
  <2>4. flags.interval \in Nat /\ flags.timeout \in Nat
    BY ToolAssumption DEF ToolAssumption, ToolInv, FrameInv
  <2>5. \/ result' = result /\ badSvcs \subseteq badSvcs'
        \/ result' = "nil"
        \/ result' = "ErrListing" /\ ApiMayFail
        \/ result' = "ErrInvalidInterval" /\ (flags.interval = 0 \/ flags.timeout = 0)
        \/ result' = "ErrFailed" /\ badSvcs' # {}
    BY <2>1 DEF SvcP!CheckNext, SvcP!ListFails, SvcP!ListNamespace, SvcP!StoreDone,
       SvcP!Validate, SvcP!NextNamespace, SvcP!NextItem, SvcP!Conclude,
       SvcP!GetService, SvcP!GetEndpoints, SvcP!NoPortMatches, SvcP!GiveUp,
       SvcP!ItemDone, SvcP!Return
  <2>6. UNCHANGED <<badStatus, badPods>>
    BY <2>1 DEF workloadVars
  <2> QED
    BY <1>1, <1>2, <1>3, <1>4, <1>6, <2>2, <2>3, <2>4, <2>5, <2>6 DEF BlameInv, Quiet
<1> QED
  BY <1>5, <1>6

\* A workload check begins with nothing to blame.
LEMMA FreshAlarm ==
    (WlP!CheckInit /\ WlP!ClusterTypeOK /\ WlP!SettledInv)' => WlP!AlarmInv'
<1>1. WlP!CheckInit /\ WlP!ClusterTypeOK /\ WlP!SettledInv => WlP!AlarmInv
  BY Assumptions, WlP!AlarmInit
<1> QED
  BY <1>1, PTL

\* A package returns an error: one of the items it listed is to blame.
LEMMA BlameReturns ==
    ASSUME ToolInv, ToolInv', BlameInv, Returns, UNCHANGED flags, UNCHANGED envVars
    PROVE  BlameInv'
<1>1. /\ pc = "done" /\ errList' = errList \cup ErrorOf(phase)
      /\ seen' = seen \cup ListedNow
      /\ UNCHANGED <<spec, disturbed, dark, svcs, addrs, flags>>
  BY DEF Returns, envVars, clusterVars
<1>2. WlP!SettledInv'
  BY Assumptions, WlP!StillSettled DEF BlameInv, envVars, clusterVars, WlP!clusterVars
<1>3. SvcP!DarkInv'
  BY <1>1 DEF BlameInv, SvcP!DarkInv
<1>4. ASSUME Quiet, errList' # {} PROVE Culprit'
  <2>1. CASE errList # {}
    BY <1>1, <1>4, <2>1 DEF BlameInv, Culprit
  <2>2. CASE result # "nil" /\ phase # "service"
    <3>1. InWorkloads /\ WlP!AlarmInv /\ result # "running"
      BY <1>1, <2>2 DEF ToolInv, FrameInv, VerdictInv, BlameInv, InWorkloads, WlP!LoopInv
    <3>2. PICK w \in badStatus \cup badPods : TRUE
      BY <1>4, <2>2, <3>1 DEF BlameInv, InWorkloads
    <3>3. w \in WlP!Listed /\ ListedNow = WlP!Listed /\ w \in Workload
      BY <1>1, <2>2, <3>1, <3>2
         DEF InWorkloads, WlP!LoopInv, WlP!Bad, WlP!AtWork, WlP!Listed, ListedNow
    <3>4. w \in disturbed \/ spec[w].replicas = 0
      <4>1. w \in disturbed \/ snap[w].replicas = 0
        BY <1>4, <3>1, <3>2 DEF WlP!AlarmInv, WlP!NoFalseAlarm, Quiet
      <4> QED
        BY <3>1, <3>3, <4>1 DEF WlP!AlarmInv, WlP!SnapInv
    <3> QED
      BY <1>1, <3>3, <3>4 DEF Culprit
  <2>3. CASE result # "nil" /\ phase = "service"
    <3>1. InServices /\ SvcP!AlarmInv /\ result # "running"
      BY <1>1, <2>3 DEF ToolInv, FrameInv, BlameInv, InServices, SvcP!LoopInv
    <3>2. PICK v \in badSvcs : TRUE
      BY <1>4, <2>3, <3>1 DEF BlameInv, InServices
    <3>3. v \in Service /\ v \in ListedNow
      BY <2>3, <3>1, <3>2 DEF InServices, SvcP!LoopInv, SvcP!RunTypeOK, ListedNow
    <3>4. v \in dark \/ \A p \in Ports[v] : p.target # p.port
      BY <1>4, <3>1, <3>2 DEF SvcP!AlarmInv, SvcP!Roomy, SvcP!Sound, Quiet
    <3> QED
      BY <1>1, <3>3, <3>4 DEF Culprit
  <2> QED
    BY <1>1, <1>4, <2>1, <2>2, <2>3 DEF ErrorOf
<1>5. CASE phase # "service"
  <2>1. /\ phase' = IF phase = "deployment" THEN "statefulset" ELSE "service"
        /\ NewFrame /\ exit' = exit
    BY <1>5 DEF Returns
  <2>2. phase' # "service" => WlP!AlarmInv'
    <3>1. WlP!ClusterTypeOK' /\ flags' \in Flags
      BY DEF ToolInv, EnvInv, FrameInv
    <3> QED
      BY <1>2, <2>1, <3>1, FreshAlarm DEF NewFrame, Spec0, WlP!CheckInit, WlP!Spec0, WlP!Nobody
  <2>3. SvcP!AlarmInv'
    BY <2>1 DEF NewFrame, SvcP!AlarmInv
  <2>4. result' = "running"
    BY <2>1 DEF NewFrame
  <2>5. exit' = "1" => errList' # {}
    BY <1>1, <2>1 DEF BlameInv
  <2> QED
    BY <1>1, <1>2, <1>3, <1>4, <2>2, <2>3, <2>4, <2>5 DEF BlameInv, Quiet
<1>6. CASE phase = "service"
  <2>1. /\ exit' = (IF errList' = {} THEN "0" ELSE "1")
        /\ UNCHANGED <<phase, frameVars>>
    BY <1>6 DEF Returns
  <2>2. SvcP!AlarmInv'
    BY <1>1, <1>6, <2>1
       DEF BlameInv, frameVars, SvcP!AlarmInv, SvcP!Roomy, SvcP!Sound
  <2>3. UNCHANGED <<result, badStatus, badPods, badSvcs>>
    BY <2>1 DEF frameVars
  <2> QED
    BY <1>1, <1>2, <1>3, <1>4, <1>6, <2>1, <2>2, <2>3 DEF BlameInv, Quiet
<1> QED
  BY <1>5, <1>6

\* The cluster moves: what was at fault stays so in the histories.
LEMMA BlameEnvironment ==
    ASSUME ToolInv, BlameInv, Svc!EnvironmentNext, UNCHANGED <<flags, frameVars, mainVars>>
    PROVE  BlameInv'
<1>1. SvcP!EnvironmentNext /\ (WlP!ClusterNext \/ UNCHANGED clusterVars)
  BY EnvironmentSteps
<1>2. /\ UNCHANGED <<phase, exit, errList, seen, flags, result>>
      /\ UNCHANGED <<badStatus, badPods, badSvcs>>
  BY DEF mainVars, frameVars
<1>3. SvcP!DarkInv' /\ dark \subseteq dark'
  BY <1>1, Assumptions, SvcP!DarkEnvironmentStep DEF BlameInv, ToolInv, EnvInv
<1>4. /\ WlP!SettledInv' /\ disturbed \subseteq disturbed'
      /\ \A w \in Workload \ disturbed' : spec'[w] = spec[w]
  <2>1. CASE WlP!ClusterNext
    BY <2>1, Assumptions, WlP!ClusterStepQuiet DEF BlameInv, ToolInv, EnvInv
  <2>2. CASE UNCHANGED clusterVars
    <3>1. WlP!SettledInv'
      BY <2>2, Assumptions, WlP!StillSettled DEF BlameInv, clusterVars, WlP!clusterVars
    <3> QED
      BY <2>2, <3>1 DEF clusterVars
  <2> QED
    BY <1>1, <2>1, <2>2
<1>5. Culprit => Culprit'
  BY <1>2, <1>3, <1>4 DEF Culprit
<1>6. phase # "service" => WlP!AlarmInv'
  <2>1. [WlP!Next]_(WlP!vars)
    BY <1>1 DEF WlP!Next, WlP!vars, WlP!clusterVars, WlP!checkVars, clusterVars,
                frameVars, mainVars
  <2> QED
    BY <2>1, Assumptions, WlP!AlarmStep DEF BlameInv
<1>7. phase = "service" => SvcP!AlarmInv'
  <2>1. [SvcP!Next]_(SvcP!vars)
    BY <1>1 DEF frameVars, SvcP!Next, SvcP!checkVars
  <2> QED
    BY <2>1, Assumptions, SvcP!AlarmStep DEF BlameInv, ToolInv, EnvInv, FrameInv, InServices
<1> QED
  BY <1>2, <1>3, <1>4, <1>5, <1>6, <1>7 DEF BlameInv, Quiet

\* Nothing moves.
LEMMA BlameStutters ==
    ASSUME ToolInv, BlameInv, UNCHANGED vars PROVE BlameInv'
<1> USE DEF vars, envVars, clusterVars, frameVars, mainVars
<1>1. WlP!SettledInv'
  BY Assumptions, WlP!StillSettled DEF BlameInv, WlP!clusterVars
<1>2. SvcP!DarkInv' /\ Culprit' = Culprit
  BY DEF BlameInv, SvcP!DarkInv, Culprit
<1>3. phase # "service" => WlP!AlarmInv'
  <2>1. [WlP!Next]_(WlP!vars)
    BY DEF WlP!vars, WlP!clusterVars, WlP!checkVars
  <2> QED
    BY <2>1, Assumptions, WlP!AlarmStep DEF BlameInv
<1>4. phase = "service" => SvcP!AlarmInv'
  BY DEF BlameInv, SvcP!AlarmInv, SvcP!Roomy, SvcP!Sound
<1> QED
  BY <1>1, <1>2, <1>3, <1>4 DEF BlameInv, Quiet

\* ExitOneIsDeserved: through three checks made one after the other, main turns
\* into exit code 1 only errors of the packages, and each of those, with requests
\* that succeed and room for a check, has an object that was not in order.
THEOREM AlarmsOfTheToolAreReal == Spec => []ExitOneIsDeserved
<1>1. ToolInv /\ ToolInv' /\ BlameInv /\ [Next]_vars => BlameInv'
  BY BlameRunning, BlameReturns, BlameEnvironment, BlameStutters DEF Next, Main, Exited
<1>2. BlameInv => ExitOneIsDeserved
  BY DEF BlameInv, ExitOneIsDeserved, Quiet, Culprit
<1> QED
  BY <1>1, <1>2, BlameInit, ToolInvariant, PTL DEF Spec

-----------------------------------------------------------------------------
(* The tool comes to an end. *)

\* What is left to do, in the order in which it counts: packages to call,
\* stages of the package called, namespaces of the loop, items of the namespace,
\* looks at the item (of a service, time left for them) and requests of the look.
CallsLeft ==
    CASE phase = "deployment" -> 3
      [] phase = "statefulset" -> 2
      [] OTHER -> IF exit = "none" THEN 1 ELSE 0
StagesLeft ==
    CASE pc = "store" -> 3
      [] pc = "validate" -> 2
      [] pc = "done" -> 0
      [] OTHER -> 1
NamespacesLeft == Len(NsList) + 1 - nsIdx
ItemsLeft == Cardinality(todo)
LooksLeft ==
    CASE pc = "status" -> 3
      [] pc = "pods" -> 2
      [] pc = "logs" -> 1
      [] pc \in {"get", "endpoints"} -> 1 + flags.timeout - elapsed
      [] OTHER -> 0
RequestsLeft ==
    CASE pc = "logs" -> Cardinality(podList)
      [] pc = "endpoints" -> 1 + Cardinality(ports)
      [] OTHER -> 0

Left == <<CallsLeft, StagesLeft, NamespacesLeft, ItemsLeft, LooksLeft, RequestsLeft>>

Ranks == [1..6 -> Nat]
Lower == LexProductOrdering(OpToRel(<, Nat), Nat, 6)

\* Nothing is lowered for ever.
LEMMA LowerIsWellFounded == IsWellFoundedOn(Lower, Ranks)
BY NatLessThanWellFounded, WFLexProductOrdering DEF Lower, Ranks

LEMMA IsLower ==
    ASSUME NEW a \in Ranks, NEW b \in Ranks, NEW j \in 1..6,
           \A i \in 1..(j - 1) : a[i] = b[i], a[j] < b[j]
    PROVE  <<a, b>> \in Lower
<1>1. a[j] \in Nat /\ b[j] \in Nat
  BY DEF Ranks
<1>2. <<a[j], b[j]>> \in OpToRel(<, Nat)
  BY <1>1 DEF OpToRel
<1> QED
  BY <1>2 DEF Lower, LexProductOrdering, Ranks

\* The ranks are compared from the left.
LEMMA Falls ==
    ASSUME Left \in Ranks, Left' \in Ranks,
           \/ CallsLeft' < CallsLeft
           \/ CallsLeft' = CallsLeft
              /\ \/ StagesLeft' < StagesLeft
                 \/ StagesLeft' = StagesLeft
                    /\ \/ NamespacesLeft' < NamespacesLeft
                       \/ NamespacesLeft' = NamespacesLeft
                          /\ \/ ItemsLeft' < ItemsLeft
                             \/ ItemsLeft' = ItemsLeft
                                /\ \/ LooksLeft' < LooksLeft
                                   \/ LooksLeft' = LooksLeft
                                      /\ RequestsLeft' < RequestsLeft
    PROVE  <<Left', Left>> \in Lower
<1> DEFINE Same(n) == \A i \in 1..(n - 1) : Left'[i] = Left[i]
<1>1. /\ Left[1] = CallsLeft /\ Left[2] = StagesLeft /\ Left[3] = NamespacesLeft
      /\ Left[4] = ItemsLeft /\ Left[5] = LooksLeft /\ Left[6] = RequestsLeft
  BY DEF Left
<1>2. /\ Left'[1] = CallsLeft' /\ Left'[2] = StagesLeft' /\ Left'[3] = NamespacesLeft'
      /\ Left'[4] = ItemsLeft' /\ Left'[5] = LooksLeft' /\ Left'[6] = RequestsLeft'
  BY DEF Left
<1>3. ASSUME NEW n \in 1..6, Same(n), Left'[n] < Left[n]
      PROVE  <<Left', Left>> \in Lower
  BY <1>3, IsLower
<1>4. CASE CallsLeft' < CallsLeft
  <2>1. Same(1) /\ Left'[1] < Left[1]
    BY <1>1, <1>2, <1>4
  <2> QED
    BY <2>1, <1>3
<1>5. CASE CallsLeft' = CallsLeft /\ StagesLeft' < StagesLeft
  <2>1. Same(2) /\ Left'[2] < Left[2]
    BY <1>1, <1>2, <1>5
  <2> QED
    BY <2>1, <1>3
<1>6. CASE CallsLeft' = CallsLeft /\ StagesLeft' = StagesLeft /\ NamespacesLeft' < NamespacesLeft
  <2>1. Same(3) /\ Left'[3] < Left[3]
    BY <1>1, <1>2, <1>6
  <2> QED
    BY <2>1, <1>3
<1>7. CASE /\ CallsLeft' = CallsLeft /\ StagesLeft' = StagesLeft
           /\ NamespacesLeft' = NamespacesLeft /\ ItemsLeft' < ItemsLeft
  <2>1. Same(4) /\ Left'[4] < Left[4]
    BY <1>1, <1>2, <1>7
  <2> QED
    BY <2>1, <1>3
<1>8. CASE /\ CallsLeft' = CallsLeft /\ StagesLeft' = StagesLeft
           /\ NamespacesLeft' = NamespacesLeft /\ ItemsLeft' = ItemsLeft
           /\ LooksLeft' < LooksLeft
  <2>1. Same(5) /\ Left'[5] < Left[5]
    BY <1>1, <1>2, <1>8
  <2> QED
    BY <2>1, <1>3
<1>9. CASE /\ CallsLeft' = CallsLeft /\ StagesLeft' = StagesLeft
           /\ NamespacesLeft' = NamespacesLeft /\ ItemsLeft' = ItemsLeft
           /\ LooksLeft' = LooksLeft /\ RequestsLeft' < RequestsLeft
  <2>1. Same(6) /\ Left'[6] < Left[6]
    BY <1>1, <1>2, <1>9
  <2> QED
    BY <2>1, <1>3
<1> QED
  BY <1>4, <1>5, <1>6, <1>7, <1>8, <1>9

\* What a run lists is finite, and so is what a service offers.
FiniteCluster ==
    /\ IsFiniteSet(Workload) /\ IsFiniteSet(Service)
    /\ \A s \in Service : IsFiniteSet(Ports[s])

\* A service is examined with an interval to wait only (service.go:118-123).
IntervalInv == phase = "service" /\ pc \in {"next", "get", "endpoints"} => flags.interval > 0

PortsInv == ports = {} \/ \E s \in Service : ports \subseteq Ports[s]

LEMMA LeftIsRank ==
    ASSUME TypeOK, FiniteCluster, flags \in Flags, PortsInv
    PROVE  Left \in Ranks
<1>1. CallsLeft \in Nat /\ StagesLeft \in Nat
  BY DEF CallsLeft, StagesLeft
<1>2. NsList \in Seq(STRING) /\ flags.interval \in Nat /\ flags.timeout \in Nat
  BY ToolAssumption DEF ToolAssumption
<1>3. phase # "service" => phase \in {"deployment", "statefulset"}
  BY DEF TypeOK, Phases
<1>4. NamespacesLeft \in Nat
  <2>1. nsIdx \in 1..(Len(NsList) + 1)
    BY <1>3 DEF TypeOK, Wl!CheckTypeOK, Svc!RunTypeOK
  <2> QED
    BY <1>2, <2>1 DEF NamespacesLeft
<1>5. ItemsLeft \in Nat
  <2>1. todo \subseteq Workload \/ todo \subseteq Service
    BY <1>3 DEF TypeOK, Wl!CheckTypeOK, Svc!RunTypeOK
  <2> QED
    BY <2>1, FS_Subset, FS_CardinalityType DEF FiniteCluster, ItemsLeft
<1>6. LooksLeft \in Nat
  <2>1. pc \in {"get", "endpoints"} => elapsed \in 0..flags.timeout
    BY <1>3 DEF TypeOK, Wl!CheckTypeOK, Svc!RunTypeOK
  <2> QED
    BY <1>2, <2>1 DEF LooksLeft
<1>7. RequestsLeft \in Nat
  <2>1. pc = "logs" => podList \subseteq Slot
    BY <1>3 DEF TypeOK, Wl!CheckTypeOK, Svc!RunTypeOK
  <2>2. pc = "logs" => Cardinality(podList) \in Nat
    BY <2>1, FS_Subset, FS_CardinalityType, ClusterAssumption DEF ClusterAssumption
  <2>3. IsFiniteSet(ports)
    BY FS_Subset, FS_EmptySet DEF PortsInv, FiniteCluster
  <2>4. Cardinality(ports) \in Nat
    BY <2>3, FS_CardinalityType
  <2> QED
    BY <2>2, <2>4 DEF RequestsLeft
<1> QED
  BY <1>1, <1>4, <1>5, <1>6, <1>7 DEF Left, Ranks

\* A set that loses an element.
LEMMA FewerLeft ==
    ASSUME NEW S, IsFiniteSet(S), NEW x \in S
    PROVE  /\ Cardinality(S) \in Nat /\ Cardinality(S \ {x}) \in Nat
           /\ Cardinality(S \ {x}) < Cardinality(S)
<1>1. Cardinality(S) \in Nat /\ Cardinality(S \ {x}) = Cardinality(S) - 1
  BY FS_RemoveElement, FS_CardinalityType
<1>2. Cardinality(S \ {x}) \in Nat
  BY FS_RemoveElement, FS_CardinalityType
<1> QED
  BY <1>1, <1>2

\* Each step of a workload package.
LEMMA WorkloadsProgress ==
    ASSUME TypeOK, FiniteCluster, phase # "service", Wl!CheckNext, UNCHANGED mainVars,
           Left \in Ranks, Left' \in Ranks
    PROVE  <<Left', Left>> \in Lower
<1>1. /\ phase \in {"deployment", "statefulset"} /\ Wl!CheckTypeOK
      /\ phase' = phase /\ exit' = exit
  BY DEF TypeOK, Phases, mainVars
<1>2. CallsLeft' = CallsLeft
  BY <1>1 DEF CallsLeft
<1>3. nsIdx \in Nat /\ Len(NsList) \in Nat
  BY <1>1, ToolAssumption DEF Wl!CheckTypeOK, ToolAssumption
<1>4. IsFiniteSet(todo) /\ IsFiniteSet(podList)
  BY <1>1, FS_Subset, ClusterAssumption DEF Wl!CheckTypeOK, FiniteCluster, ClusterAssumption
<1>5. CASE Wl!ListFails
  <2>1. pc = "store" /\ pc' = "done"
    BY <1>5 DEF Wl!ListFails, Wl!Return
  <2> QED
    BY <1>2, <2>1, Falls DEF StagesLeft
<1>6. CASE Wl!ListNamespace
  <2>1. pc = "store" /\ (pc' = "done" \/ (nsIdx' = nsIdx + 1 /\ pc' = pc))
    BY <1>6 DEF Wl!ListNamespace, Wl!Return
  <2> QED
    BY <1>2, <1>3, <2>1, Falls DEF StagesLeft, NamespacesLeft
<1>7. CASE Wl!StoreDone
  BY <1>2, <1>7, Falls DEF Wl!StoreDone, Wl!Return, StagesLeft
<1>8. CASE Wl!Validate
  BY <1>2, <1>8, Falls DEF Wl!Validate, Wl!Return, StagesLeft
<1>9. CASE Wl!NextNamespace
  BY <1>2, <1>3, <1>9, Falls DEF Wl!NextNamespace, StagesLeft, NamespacesLeft
<1>10. CASE Wl!NextItem
  <2>1. PICK w \in todo : todo' = todo \ {w}
    BY <1>10 DEF Wl!NextItem
  <2>2. ItemsLeft' < ItemsLeft
    BY <1>4, <2>1, FewerLeft DEF ItemsLeft
  <2> QED
    BY <1>2, <1>10, <2>2, Falls DEF Wl!NextItem, StagesLeft, NamespacesLeft
<1>11. CASE Wl!Conclude
  BY <1>2, <1>11, Falls DEF Wl!Conclude, Wl!Return, StagesLeft
<1>12. CASE Wl!PollStatus
  BY <1>2, <1>12, Falls
     DEF Wl!PollStatus, StagesLeft, NamespacesLeft, ItemsLeft, LooksLeft
<1>13. CASE Wl!PollPods
  BY <1>2, <1>13, Falls
     DEF Wl!PollPods, Wl!ItemDone, StagesLeft, NamespacesLeft, ItemsLeft, LooksLeft
<1>14. CASE Wl!ReadLogs
  <2>1. CASE pc' = "next"
    BY <1>2, <1>14, <2>1, Falls
       DEF Wl!ReadLogs, StagesLeft, NamespacesLeft, ItemsLeft, LooksLeft
  <2>2. CASE pc' # "next"
    <3>1. PICK s \in podList : podList' = podList \ {s} /\ pc' = pc
      BY <1>14, <2>2 DEF Wl!ReadLogs, Wl!ItemDone
    <3>2. RequestsLeft' < RequestsLeft
      BY <1>4, <1>14, <3>1, FewerLeft DEF Wl!ReadLogs, RequestsLeft
    <3>3. pc = "logs" /\ pc' = "logs" /\ nsIdx' = nsIdx /\ todo' = todo
      BY <1>14, <3>1 DEF Wl!ReadLogs
    <3> QED
      BY <1>2, <3>2, <3>3, Falls DEF StagesLeft, NamespacesLeft, ItemsLeft, LooksLeft
  <2> QED
    BY <2>1, <2>2
<1>15. CASE Wl!LogsDone
  BY <1>2, <1>15, Falls
     DEF Wl!LogsDone, Wl!ItemDone, StagesLeft, NamespacesLeft, ItemsLeft, LooksLeft
<1> QED
  BY <1>5, <1>6, <1>7, <1>8, <1>9, <1>10, <1>11, <1>12, <1>13, <1>14, <1>15
     DEF Wl!CheckNext

\* Each step of the service package.
LEMMA ServicesProgress ==
    ASSUME TypeOK, FiniteCluster, flags \in Flags, PortsInv, IntervalInv,
           phase = "service", Svc!CheckNext, UNCHANGED mainVars,
           Left \in Ranks, Left' \in Ranks
    PROVE  <<Left', Left>> \in Lower
<1>1. Svc!RunTypeOK /\ phase' = phase /\ exit' = exit /\ flags' = flags
  BY DEF TypeOK, mainVars, Svc!CheckNext, Svc!ListFails, Svc!ListNamespace, Svc!StoreDone,
         Svc!Validate, Svc!NextNamespace, Svc!NextItem, Svc!Conclude, Svc!GetService,
         Svc!GetEndpoints, Svc!NoPortMatches, Svc!GiveUp
<1>2. CallsLeft' = CallsLeft
  BY <1>1 DEF CallsLeft
<1>3. /\ nsIdx \in Nat /\ Len(NsList) \in Nat /\ elapsed \in Nat
      /\ flags.interval \in Nat /\ flags.timeout \in Nat /\ elapsed <= flags.timeout
  BY <1>1, ToolAssumption DEF Svc!RunTypeOK, ToolAssumption
<1>4. IsFiniteSet(todo) /\ IsFiniteSet(ports)
  BY <1>1, FS_Subset, FS_EmptySet DEF Svc!RunTypeOK, FiniteCluster, PortsInv
<1>5. CASE Svc!ListFails
  <2>1. pc = "store" /\ pc' = "done"
    BY <1>5 DEF Svc!ListFails, Svc!Return
  <2> QED
    BY <1>2, <2>1, Falls DEF StagesLeft
<1>6. CASE Svc!ListNamespace
  <2>1. pc = "store" /\ (pc' = "done" \/ (nsIdx' = nsIdx + 1 /\ pc' = pc))
    BY <1>6 DEF Svc!ListNamespace, Svc!Return
  <2> QED
    BY <1>2, <1>3, <2>1, Falls DEF StagesLeft, NamespacesLeft
<1>7. CASE Svc!StoreDone
  BY <1>2, <1>7, Falls DEF Svc!StoreDone, Svc!Return, StagesLeft
<1>8. CASE Svc!Validate
  BY <1>2, <1>8, Falls DEF Svc!Validate, Svc!Return, StagesLeft
<1>9. CASE Svc!NextNamespace
  BY <1>2, <1>3, <1>9, Falls DEF Svc!NextNamespace, StagesLeft, NamespacesLeft
<1>10. CASE Svc!NextItem
  <2>1. PICK s \in todo : todo' = todo \ {s}
    BY <1>10 DEF Svc!NextItem
  <2>2. ItemsLeft' < ItemsLeft
    BY <1>4, <2>1, FewerLeft DEF ItemsLeft
  <2> QED
    BY <1>2, <1>10, <2>2, Falls DEF Svc!NextItem, StagesLeft, NamespacesLeft
<1>11. CASE Svc!Conclude
  BY <1>2, <1>11, Falls DEF Svc!Conclude, Svc!Return, StagesLeft
<1>12. CASE Svc!GetService
  <2>1. /\ pc = "get" /\ pc' \in {"get", "endpoints"} /\ nsIdx' = nsIdx /\ todo' = todo
        /\ elapsed' = elapsed + flags.interval
    BY <1>12 DEF Svc!GetService, Svc!Waited
  <2>2. LooksLeft' < LooksLeft
    BY <1>1, <1>3, <2>1 DEF IntervalInv, LooksLeft
  <2> QED
    BY <1>2, <2>1, <2>2, Falls DEF StagesLeft, NamespacesLeft, ItemsLeft
<1>13. CASE Svc!GetEndpoints
  <2>1. /\ pc = "endpoints" /\ nsIdx' = nsIdx /\ todo' = todo /\ elapsed' = elapsed
        /\ pc' \in {"next", "get", "endpoints"}
    BY <1>13 DEF Svc!GetEndpoints, Svc!ItemDone
  <2>2. StagesLeft' = StagesLeft /\ NamespacesLeft' = NamespacesLeft /\ ItemsLeft' = ItemsLeft
    BY <2>1 DEF StagesLeft, NamespacesLeft, ItemsLeft
  <2>3. CASE pc' = "next"
    BY <1>2, <1>3, <2>1, <2>2, <2>3, Falls DEF LooksLeft
  <2>4. CASE pc' # "next"
    <3>1. LooksLeft' = LooksLeft
      BY <1>1, <2>1, <2>4 DEF LooksLeft
    <3>2. Cardinality(ports) \in Nat
      BY <1>4, FS_CardinalityType
    <3>3. CASE pc' = "get"
      BY <1>2, <2>1, <2>2, <3>1, <3>2, <3>3, Falls DEF RequestsLeft
    <3>4. CASE pc' = "endpoints"
      <4>1. PICK p \in ports : ports' = ports \ {p}
        BY <1>13, <2>1, <3>4 DEF Svc!GetEndpoints, Svc!ItemDone
      <4>2. RequestsLeft' < RequestsLeft
        BY <1>4, <2>1, <3>4, <4>1, FewerLeft DEF RequestsLeft
      <4> QED
        BY <1>2, <2>2, <3>1, <4>2, Falls
    <3> QED
      BY <2>1, <2>4, <3>3, <3>4
  <2> QED
    BY <2>3, <2>4
<1>14. CASE Svc!NoPortMatches
  <2>1. Cardinality(ports) \in Nat
    BY <1>4, FS_CardinalityType
  <2> QED
    BY <1>1, <1>2, <1>14, <2>1, Falls
       DEF Svc!NoPortMatches, StagesLeft, NamespacesLeft, ItemsLeft, LooksLeft, RequestsLeft
<1>15. CASE Svc!GiveUp
  BY <1>2, <1>3, <1>15, Falls
     DEF Svc!GiveUp, Svc!ItemDone, StagesLeft, NamespacesLeft, ItemsLeft, LooksLeft
<1> QED
  BY <1>5, <1>6, <1>7, <1>8, <1>9, <1>10, <1>11, <1>12, <1>13, <1>14, <1>15
     DEF Svc!CheckNext

\* main calls the next package, or exits.
LEMMA MainProgress ==
    ASSUME Returns, Left \in Ranks, Left' \in Ranks
    PROVE  <<Left', Left>> \in Lower
<1>1. CallsLeft' < CallsLeft
  BY DEF Returns, CallsLeft
<1> QED
  BY <1>1, Falls

\* What the ranks need to know of a service under examination.
ExamineInv == flags \in Flags /\ PortsInv /\ IntervalInv

LEMMA ExamineStep ==
    ASSUME TypeOK, ExamineInv, [Next]_vars
    PROVE  ExamineInv'
<1> USE DEF ExamineInv
<1>1. CASE UNCHANGED <<flags, frameVars, mainVars>>
  BY <1>1 DEF PortsInv, IntervalInv, frameVars, mainVars
<1>2. CASE phase # "service" /\ Wl!CheckNext /\ UNCHANGED serviceVars /\ UNCHANGED mainVars
  <2>1. flags' = flags /\ phase' = phase /\ ports' = ports
    BY <1>2
       DEF serviceVars, mainVars, Wl!CheckNext, Wl!ListFails, Wl!ListNamespace,
           Wl!StoreDone, Wl!Validate, Wl!NextNamespace, Wl!NextItem, Wl!Conclude,
           Wl!PollStatus, Wl!PollPods, Wl!ReadLogs, Wl!LogsDone
  <2> QED
    BY <1>2, <2>1 DEF PortsInv, IntervalInv
<1>3. CASE phase = "service" /\ Svc!CheckNext /\ UNCHANGED mainVars
  <2>1. flags' = flags /\ phase' = phase
    BY <1>3
       DEF mainVars, Svc!CheckNext, Svc!ListFails, Svc!ListNamespace, Svc!StoreDone,
           Svc!Validate, Svc!NextNamespace, Svc!NextItem, Svc!Conclude, Svc!GetService,
           Svc!GetEndpoints, Svc!NoPortMatches, Svc!GiveUp
  <2>2. PortsInv'
    <3>1. CASE Svc!GetService
      <4>1. ports' = ports \/ (cur \in svcs /\ ports' = Ports[cur])
        BY <3>1 DEF Svc!GetService
      <4> QED
        BY <1>3, <4>1 DEF PortsInv, TypeOK, Svc!RunTypeOK
    <3>2. CASE Svc!GetEndpoints
      <4>1. ports' \subseteq ports
        BY <3>2 DEF Svc!GetEndpoints
      <4> QED
        BY <4>1 DEF PortsInv
    <3>3. CASE ports' = ports
      BY <3>3 DEF PortsInv
    <3> QED
      BY <1>3, <3>1, <3>2, <3>3
         DEF Svc!CheckNext, Svc!ListFails, Svc!ListNamespace, Svc!StoreDone,
             Svc!Validate, Svc!NextNamespace, Svc!NextItem, Svc!Conclude,
             Svc!NoPortMatches, Svc!GiveUp
  <2>3. IntervalInv'
    <3>1. CASE Svc!Validate
      <4>1. flags.interval \in Nat
        BY ToolAssumption DEF ToolAssumption
      <4>2. pc' \in {"next", "get", "endpoints"} => flags.interval # 0
        BY <3>1 DEF Svc!Validate, Svc!Return
      <4> QED
        BY <2>1, <4>1, <4>2 DEF IntervalInv
    <3>2. CASE ~ Svc!Validate
      <4>1. pc' \in {"next", "get", "endpoints"} => pc \in {"next", "get", "endpoints"}
        BY <1>3, <3>2
           DEF Svc!CheckNext, Svc!ListFails, Svc!ListNamespace, Svc!StoreDone,
               Svc!NextNamespace, Svc!NextItem, Svc!Conclude, Svc!GetService,
               Svc!GetEndpoints, Svc!NoPortMatches, Svc!GiveUp, Svc!Return, Svc!ItemDone
      <4> QED
        BY <2>1, <4>1 DEF IntervalInv
    <3> QED
      BY <3>1, <3>2
  <2> QED
    BY <2>1, <2>2, <2>3
<1>4. CASE Returns /\ UNCHANGED flags
  <2>1. ports' = {} \/ ports' = ports
    BY <1>4 DEF Returns, NewFrame, frameVars
  <2>2. pc' \in {"store", "done"}
    BY <1>4 DEF Returns, NewFrame, frameVars
  <2> QED
    BY <1>4, <2>1, <2>2 DEF PortsInv, IntervalInv
<1> QED
  BY <1>1, <1>2, <1>3, <1>4 DEF Next, Main, Running, Exited, vars

\* Whatever the cluster does meanwhile, each step of the tool brings it nearer
\* to its exit, in an order in which nothing falls for ever: the polls by the
\* interval they wait, the loops by an item or a namespace (deployment.go:42-65,
\* service.go:117-150, main.go:75-93).
THEOREM EveryStepIsProgress ==
    ASSUME FiniteCluster
    PROVE  /\ IsWellFoundedOn(Lower, Ranks)
           /\ Spec => /\ [](Left \in Ranks)
                      /\ [][Main /\ UNCHANGED envVars => <<Left', Left>> \in Lower]_vars
                      /\ [][~ (Main /\ UNCHANGED envVars) => Left' = Left]_vars
<1>1. Init => ExamineInv
  BY DEF Init, Wl!CheckInit, ExamineInv, PortsInv, IntervalInv
<1>2. TypeOK /\ ExamineInv => Left \in Ranks
  BY LeftIsRank DEF ExamineInv
<1>3. TypeOK /\ ExamineInv /\ [Next]_vars => ExamineInv'
  BY ExamineStep
<1>4. TypeOK /\ TypeOK' /\ ExamineInv /\ ExamineInv' /\ [Next]_vars =>
        [Main /\ UNCHANGED envVars => <<Left', Left>> \in Lower]_vars
  <2> SUFFICES ASSUME TypeOK, ExamineInv, Left' \in Ranks, Main, UNCHANGED envVars
               PROVE  <<Left', Left>> \in Lower
    <3>1. (TypeOK /\ ExamineInv => Left \in Ranks)'
      BY <1>2, PTL
    <3> QED
      BY <3>1
  <2>1. Left \in Ranks
    BY <1>2
  <2>2. CASE Returns
    BY <2>1, <2>2, MainProgress
  <2>3. CASE Running /\ UNCHANGED mainVars
    <3>1. CASE phase # "service" /\ Wl!CheckNext
      BY <2>1, <2>3, <3>1, WorkloadsProgress
    <3>2. CASE phase = "service" /\ Svc!CheckNext
      BY <2>1, <2>3, <3>2, ServicesProgress DEF ExamineInv
    <3> QED
      BY <2>3, <3>1, <3>2 DEF Running
  <2> QED
    BY <2>2, <2>3 DEF Main
<1>5. [Next]_vars => [~ (Main /\ UNCHANGED envVars) => Left' = Left]_vars
  <2> SUFFICES ASSUME [Next]_vars, ~ (Main /\ UNCHANGED envVars) PROVE Left' = Left
    OBVIOUS
  <2>1. UNCHANGED <<flags, frameVars, mainVars>>
    BY DEF Next, Exited, vars
  <2>2. UNCHANGED <<phase, exit, pc, nsIdx, todo, flags, elapsed, podList, ports>>
    BY <2>1 DEF frameVars, mainVars
  <2> QED
    BY <2>2 DEF Left, CallsLeft, StagesLeft, NamespacesLeft, ItemsLeft, LooksLeft, RequestsLeft
<1>6. Spec => [](TypeOK /\ ExamineInv)
  BY <1>1, <1>3, TypeCorrect, PTL DEF Spec
<1>7. Spec => /\ [](Left \in Ranks)
              /\ [][Main /\ UNCHANGED envVars => <<Left', Left>> \in Lower]_vars
              /\ [][~ (Main /\ UNCHANGED envVars) => Left' = Left]_vars
  BY <1>2, <1>4, <1>5, <1>6, PTL DEF Spec
<1> QED
  BY <1>7, LowerIsWellFounded

=============================================================================
