------------------------------ MODULE CiScript ------------------------------
(***************************************************************************)
(* tests/ci/ci_test.sh, as the tests job of CI runs it: once with deploy   *)
(* and, when that has exited with 0, once with tests.  The script runs     *)
(* under set -euo pipefail: a command that fails ends it, but for the ones *)
(* whose status nobody looks at, which are the first of two in a command   *)
(* substitution, one in the words of a for loop, and one before || true.   *)
(*                                                                         *)
(* What is left of a run is a list of commands; a loop or a function whose *)
(* words are known only at run time is unrolled when it is reached.  The   *)
(* commands of a function that only apply files are one command here: the  *)
(* first of them to fail ends the script whichever it is.                  *)
(***************************************************************************)
EXTENDS Integers, Sequences, SequencesExt

CONSTANTS
    NS,         \* the namespaces, a sequence
    Apps,       \* the namespaces ci.deploy fills, in order
    Sts,        \* the statefulsets of each namespace
    Dep,        \* its deployments
    API         \* the deployment that is restarted

VARIABLES
    task,       \* "deploy" or "tests"
    todo,       \* the commands still to run
    code,       \* the exit code of the job, or NoCode
    failed,     \* whether a command failed that should fail the job
    exists,     \* the namespaces that exist
    pod,        \* the state of the pod of each applied workload
    seen,       \* the workloads seen rolled out since they were last restarted
    unlisted,   \* the namespaces whose statefulsets could not be listed
    jobSeen,    \* whether the metrics job was seen complete
    expected,   \* the pods there were when the gathering began
    gathered,   \* the pods whose logs were gathered
    disturbed   \* whether anything came in the way of the gathering

scriptVars == <<task, todo, code, failed, exists, pod, seen, unlisted, jobSeen,
                expected, gathered, disturbed>>
clusterState == <<exists, pod>>
gatherState  == <<expected, gathered, disturbed>>
verdictState == <<seen, unlisted, jobSeen>>

-----------------------------------------------------------------------------
NoCode == -1

Cmd(op, arg) == [op |-> op, arg |-> arg]
Each(op, S)  == LET s == SetToSeq(S) IN [i \in DOMAIN s |-> Cmd(op, s[i])]
Over(op, s)  == [i \in DOMAIN s |-> Cmd(op, s[i])]

Workloads == UNION {Sts[n] \cup Dep[n] : n \in Range(NS)}
Of(n)     == Sts[n] \cup Dep[n]
Applied   == DOMAIN pod

(* What the script and its environment files agree on: lists of namespaces, *)
(* finitely many workloads, and the API among them (ci_test.sh:6, 98).      *)
ScriptAssumption ==
    /\ NS \in Seq(Range(NS)) /\ Apps \in Seq(Range(Apps))
    /\ Range(Apps) \subseteq Range(NS)
    /\ \A n \in Range(NS) : IsFiniteSet(Of(n))
    /\ API \in Workloads

ci_deploy == <<Cmd("prereq", "")>> \o Over("ns", NS) \o Over("active", Apps)

run_test ==
    Over("statefulsets", NS)
        \o <<Cmd("tenant", ""), Cmd("restart", API), Cmd("check_status", API),
             Cmd("up_metrics", ""), Cmd("wait_job", "")>>

must_gather == Over("pods", NS) \o <<Cmd("nodes", "")>>

-----------------------------------------------------------------------------
ScriptInit ==
    /\ task = "deploy" /\ todo = ci_deploy /\ code = NoCode /\ failed = FALSE
    /\ exists = {} /\ pod = [w \in {} |-> "absent"]
    /\ seen = {} /\ unlisted = {} /\ jobSeen = FALSE
    /\ expected = {} /\ gathered = {} /\ disturbed = FALSE

Runs(op) == todo # << >> /\ Head(todo).op = op
Arg      == Head(todo).arg
Gathering == todo # << >> /\ Last(todo).op = "exit"

(* The command is done and gives way to others.                             *)
Then(cmds) == todo' = cmds \o Tail(todo) /\ UNCHANGED <<task, code>>
Go == Then(<< >>)

(* errexit.                                                                 *)
Errexit ==
    /\ todo' = << >> /\ code' = 1 /\ failed' = TRUE
    /\ disturbed' = (disturbed \/ Gathering)
    /\ UNCHANGED <<task, clusterState, verdictState, expected, gathered>>

(* Commands without a word of the cluster in them: they succeed or end it.  *)
Plain ==
    \E op \in {"prereq", "tenant", "up_metrics", "nodes"} :
        /\ Runs(op)
        /\ \/ Go /\ UNCHANGED <<failed, clusterState, verdictState, gatherState>>
           \/ Errexit

CreateNamespace ==
    /\ Runs("ns")
    /\ exists' \in {exists, exists \cup {Arg}}
    /\ Go
    /\ UNCHANGED <<failed, pod, verdictState, gatherState>>

(* The function of a namespace: it waits, then applies its files.           *)
WaitActive ==
    /\ Runs("active")
    /\ \/ Arg \in exists /\ Then(<<Cmd("apply", Arg)>>)
          /\ UNCHANGED <<failed, clusterState, verdictState, gatherState>>
       \/ Errexit

Apply ==
    /\ Runs("apply")
    /\ \/ /\ pod' = [w \in Applied \cup Of(Arg) |-> IF w \in Applied THEN pod[w] ELSE "absent"]
          /\ Go
          /\ UNCHANGED <<failed, exists, verdictState, gatherState>>
       \/ Errexit

(* ./ci_test.sh tests                                                       *)
StartTests ==
    /\ task = "deploy" /\ todo = << >> /\ code = NoCode
    /\ task' = "tests" /\ todo' = run_test
    /\ UNCHANGED <<code, failed, clusterState, verdictState, gatherState>>

(* resources=$(oc get statefulsets; oc get deployments)                     *)
ListStatefulSets ==
    /\ Runs("statefulsets")
    /\ \/ /\ Then(<<Cmd("deployments", [ns |-> Arg, found |-> Sts[Arg] \cap Applied])>>)
          /\ UNCHANGED unlisted
       \/ /\ Then(<<Cmd("deployments", [ns |-> Arg, found |-> {}])>>)
          /\ unlisted' = unlisted \cup {Arg}
    /\ UNCHANGED <<failed, clusterState, seen, jobSeen, gatherState>>

(* Mutant: a failed listing of deployments does not end the script either.  *)
ListDeploymentsOrNone ==
    /\ Runs("deployments")
    /\ \E found \in {Dep[Arg.ns] \cap Applied, {}} :
          Then(Each("check_status", Arg.found) \o Each("check_status", found))
    /\ UNCHANGED <<failed, clusterState, verdictState, gatherState>>
ListDeployments ==
    /\ Runs("deployments")
    /\ \/ /\ Then(Each("check_status", Arg.found)
                    \o Each("check_status", Dep[Arg.ns] \cap Applied))
          /\ UNCHANGED <<failed, clusterState, verdictState, gatherState>>
       \/ Errexit

(* || { must_gather; exit 1; }                                              *)
(* Mutant: without the exit.                                                *)
OtherwiseGatherOnly ==
    /\ todo' = must_gather \o Tail(todo) /\ failed' = TRUE /\ disturbed' = TRUE
    /\ UNCHANGED <<task, code, clusterState, verdictState, expected, gathered>>
(* Mutant: retried instead.                                                 *)
OtherwiseRetry == UNCHANGED scriptVars
OtherwiseGather ==
    /\ todo' = must_gather \o <<Cmd("exit", 1)>> /\ failed' = TRUE
    /\ expected' = {w \in Applied : pod[w] # "absent"}
    /\ disturbed' = \E w \in Applied : pod[w] = "waiting"
    /\ UNCHANGED <<task, code, clusterState, verdictState, gathered>>

CheckStatus ==
    /\ Runs("check_status")
    /\ \/ /\ Arg \in Applied /\ pod[Arg] = "up"
          /\ seen' = seen \cup {Arg}
          /\ Go
          /\ UNCHANGED <<failed, clusterState, unlisted, jobSeen, gatherState>>
       \/ OtherwiseGather

Restart ==
    /\ Runs("restart")
    /\ \/ /\ pod' = [w \in Applied |-> IF w = Arg THEN "absent" ELSE pod[w]]
          /\ seen' = seen \ {Arg}
          /\ Go
          /\ UNCHANGED <<failed, exists, unlisted, jobSeen, gatherState>>
       \/ Errexit

WaitJob ==
    /\ Runs("wait_job")
    /\ \/ /\ jobSeen' = TRUE
          /\ Go
          /\ UNCHANGED <<failed, clusterState, seen, unlisted, gatherState>>
       \/ OtherwiseGather

Finish ==
    /\ task = "tests" /\ todo = << >> /\ code = NoCode
    /\ code' = 0
    /\ UNCHANGED <<task, todo, failed, clusterState, verdictState, gatherState>>

Exit ==
    /\ Runs("exit")
    /\ todo' = << >> /\ code' = Arg
    /\ UNCHANGED <<task, failed, clusterState, verdictState, gatherState>>

-----------------------------------------------------------------------------
(* must_gather.  A failed listing leaves nothing to gather in its place.    *)

(* Mutant: the yaml and the logs are not read.                              *)
GatherPodsNamesOnly ==
    /\ Runs("pods")
    /\ Go
    /\ UNCHANGED <<failed, clusterState, verdictState, gatherState>>
GatherPods ==
    /\ Runs("pods")
    /\ \/ /\ Then(Each("describe", {w \in Of(Arg) \cap Applied : pod[w] # "absent"}))
          /\ UNCHANGED disturbed
       \/ Go /\ disturbed' = TRUE
    /\ UNCHANGED <<failed, clusterState, verdictState, expected, gathered>>

(* The description and the yaml, then the names of the containers.          *)
Describe ==
    /\ Runs("describe")
    /\ \/ /\ pod[Arg] # "absent"
          /\ Then(<<Cmd("containers", Arg)>>)
          /\ UNCHANGED <<failed, clusterState, verdictState, gatherState>>
       \/ Errexit

(* The listings of the init containers and of the containers, one here: if  *)
(* either fails, its loop has nothing to go through, and logs are missing.  *)
Containers ==
    /\ Runs("containers")
    /\ \/ /\ pod[Arg] # "absent" /\ Then(<<Cmd("logs", Arg)>>)
          /\ UNCHANGED disturbed
       \/ Go /\ disturbed' = TRUE
    /\ UNCHANGED <<failed, clusterState, verdictState, expected, gathered>>

(* The logs of a container that has not started cannot be read.             *)
Logs ==
    /\ Runs("logs")
    /\ \/ /\ pod[Arg] \in {"running", "up"}
          /\ gathered' = gathered \cup {Arg}
          /\ Go
          /\ UNCHANGED <<failed, clusterState, verdictState, expected, disturbed>>
       \/ Errexit

-----------------------------------------------------------------------------
(* The pods of a workload come up, fail, are replaced.  Nothing looks at    *)
(* them before the tests.                                                   *)
PodMoves ==
    /\ task = "tests" /\ code = NoCode
    /\ \E w \in Applied : \E s \in {"absent", "waiting", "running", "up"} \ {pod[w]} :
          pod' = [pod EXCEPT ![w] = s]
    /\ disturbed' = (disturbed \/ Gathering)
    /\ UNCHANGED <<task, todo, code, failed, exists, verdictState, expected, gathered>>

ScriptStep ==
    \/ Plain \/ CreateNamespace \/ WaitActive \/ Apply \/ StartTests
    \/ ListStatefulSets \/ ListDeployments \/ CheckStatus \/ Restart \/ WaitJob
    \/ Finish \/ Exit
    \/ GatherPods \/ Describe \/ Containers \/ Logs

ScriptNext == ScriptStep \/ PodMoves

ScriptSpec == ScriptInit /\ [][ScriptNext]_scriptVars /\ WF_scriptVars(ScriptStep)

-----------------------------------------------------------------------------
ScriptTypeOK ==
    /\ task \in {"deploy", "tests"} /\ code \in {NoCode, 0, 1}
    /\ exists \subseteq Range(NS) /\ unlisted \subseteq Range(NS)
    /\ Applied \subseteq Workloads
    /\ \A w \in Applied : pod[w] \in {"absent", "waiting", "running", "up"}
    /\ seen \subseteq Applied /\ gathered \subseteq Applied /\ expected \subseteq Applied

(* A green job has applied everything and has seen every workload roll out, *)
(* the API after its restart too, and the metrics job complete.  The one    *)
(* hole is a statefulset of a namespace whose listing failed, which nobody  *)
(* notices (ci_test.sh:88-91).                                              *)
GreenMeansRolledOut ==
    code = 0 =>
        /\ jobSeen /\ API \in seen
        /\ \A n \in Range(Apps) : n \in exists /\ Of(n) \subseteq Applied
        /\ \A n \in Range(NS) : \A w \in Of(n) \cap Applied :
              w \in seen \/ (w \in Sts[n] /\ n \in unlisted)

(* A failed rollout, job or command is never forgotten, however the         *)
(* gathering that follows it ends (ci_test.sh:10-13, 103-105).              *)
NoFailureIsLost == code = 0 => ~ failed

(* What a failed job leaves behind is complete unless something came in the *)
(* way: a request that failed, a pod that changed, or a container that had  *)
(* not started, whose logs end the script (ci_test.sh:108-134 under the     *)
(* errexit of line 3).                                                      *)
UndisturbedGatheringIsComplete ==
    code = 1 /\ ~ disturbed => expected \subseteq gathered

(* The job ends: every wait has a timeout and every loop a list.            *)
JobEnds == <>(code # NoCode)
=============================================================================
