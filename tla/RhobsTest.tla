----------------------------- MODULE RhobsTest -----------------------------
(***************************************************************************)
(* cmd/rhobs-test: main checks deployments, then statefulsets, then        *)
(* services, in one goroutine, collects their errors and exits.  The three *)
(* packages run on the stack frame below one after the other, as           *)
(* instances of WorkloadCheck and ServiceCheck over one cluster.           *)
(***************************************************************************)
EXTENDS Cluster, Sequences

CONSTANTS NsOf, Service, SvcNsOf, Ports, Backs, NsList, Flags, ApiMayFail

\* The constants of the packages; workloads and services are different objects.
ASSUME ToolAssumption ==
    /\ NsList \in Seq(STRING) /\ NsList # <<>>
    /\ Flags \subseteq [interval : Nat, timeout : Nat]
    /\ ApiMayFail \in BOOLEAN
    /\ Backs \in [Service -> Workload]
    /\ Workload \cap Service = {}

VARIABLES
    svcs, addrs, served, dark,              \* services and their endpoints
    flags, pc, nsIdx, stored, todo, cur,    \* the frame of the called package
    examined, result,
    snap, podList, badStatus, badPods,      \* of the workload packages only
    listed, ports, elapsed, badSvcs,        \* of the service package only
    phase,                                  \* which package main has called
    errList,                                \* the phases that returned an error
    exit,                                   \* the exit code, or "none"
    seen, passed, skipped,                  \* history: objects listed, passed,
                                            \* and listed but then left unchecked
    asDeployment                            \* history: those that are deployments

envVars   == <<clusterVars, svcs, addrs, served, dark>>
frameVars == <<pc, nsIdx, stored, todo, cur, examined, result, snap, podList,
               badStatus, badPods, listed, ports, elapsed, badSvcs>>
mainVars  == <<phase, errList, exit, seen, passed, skipped, asDeployment>>
vars == <<envVars, flags, frameVars, mainVars>>

Wl  == INSTANCE WorkloadCheck WITH kind <- phase
Svc == INSTANCE ServiceCheck WITH lastDark <- -1    \* a history main has no use for

Phases == <<"deployment", "statefulset", "service">>
workloadVars == <<snap, podList, badStatus, badPods>>
serviceVars  == <<listed, ports, elapsed, badSvcs>>

TypeOK ==
    /\ phase \in {Phases[i] : i \in 1..3}
    /\ errList \subseteq {Phases[i] : i \in 1..3}
    /\ exit \in {"none", "0", "1"}
    /\ phase \in {"deployment", "statefulset"} => Wl!CheckTypeOK
    /\ phase = "service" => Svc!RunTypeOK
    /\ seen \subseteq Workload \cup Service
    /\ passed \subseteq seen /\ skipped \subseteq seen

-----------------------------------------------------------------------------
Init ==
    /\ ClusterInit /\ Svc!ServiceInit
    /\ phase = "deployment" /\ Wl!CheckInit
    /\ listed = {} /\ ports = {} /\ elapsed = 0 /\ badSvcs = {}
    /\ errList = {} /\ exit = "none"
    /\ seen = {} /\ passed = {} /\ skipped = {}
    /\ asDeployment = {}

Running ==
    \/ phase # "service" /\ Wl!CheckNext /\ UNCHANGED serviceVars
    \/ phase = "service" /\ Svc!CheckNext /\ UNCHANGED workloadVars

\* A package returns: its error goes to errList, which stops nothing.  Mutant:
\* only the last one counts; a package that found nothing returns its
\* ErrNoDeployment (ErrNoService) instead of skipping on it.
ErrorOfLast(p) == IF p # "service" \/ result = "nil" THEN {} ELSE {p}
ErrorOfEmpty(p) == IF result = "nil" /\ stored # {} THEN {} ELSE {p}
ErrorOf(p) == IF result = "nil" THEN {} ELSE {p}

\* The frame of the next call is a fresh one; flags are the flags of the run.
\* Mutant: what one call has examined is still there in the next.
NewFrameKeepsExamined ==
    /\ pc' = "store" /\ nsIdx' = 1 /\ stored' = {} /\ todo' = {}
    /\ cur' = "nobody" /\ examined' = examined /\ result' = "running"
    /\ snap' = [w \in Workload |-> Spec0]
    /\ podList' = {} /\ badStatus' = {} /\ badPods' = {}
    /\ listed' = {} /\ ports' = {} /\ elapsed' = 0 /\ badSvcs' = {}

NewFrame ==
    /\ pc' = "store" /\ nsIdx' = 1 /\ stored' = {} /\ todo' = {}
    /\ cur' = "nobody" /\ examined' = {} /\ result' = "running"
    /\ snap' = [w \in Workload |-> Spec0]
    /\ podList' = {} /\ badStatus' = {} /\ badPods' = {}
    /\ listed' = {} /\ ports' = {} /\ elapsed' = 0 /\ badSvcs' = {}

ListedNow == IF phase = "service" THEN listed
                                  ELSE {w \in Workload : snap[w].gen > 0}
PassedNow == examined \ (badStatus \cup badPods \cup badSvcs)

Returns ==
    /\ pc = "done" /\ exit = "none"
    /\ errList' = errList \cup ErrorOf(phase)
    /\ seen' = seen \cup ListedNow
    /\ passed' = passed \cup PassedNow
    /\ asDeployment' = IF phase = "deployment" THEN ListedNow ELSE asDeployment
    /\ skipped' = skipped \cup (IF result = "nil" THEN ListedNow \ examined ELSE {})
    /\ \/ /\ phase = "deployment"  /\ phase' = "statefulset" /\ NewFrame
          /\ UNCHANGED exit
       \/ /\ phase = "statefulset" /\ phase' = "service" /\ NewFrame
          /\ UNCHANGED exit
       \/ /\ phase = "service" /\ exit' = IF errList' = {} THEN "0" ELSE "1"
          /\ UNCHANGED <<phase, frameVars>>

Main == \/ Running /\ UNCHANGED mainVars
        \/ Returns /\ UNCHANGED flags

Exited == exit # "none" /\ UNCHANGED vars

Next == \/ Main /\ UNCHANGED envVars
        \/ Svc!EnvironmentNext /\ UNCHANGED <<flags, frameVars, mainVars>>
        \/ Exited

Spec == Init /\ [][Next]_vars

\* main is a single goroutine that is never blocked for good.
FairSpec == Spec /\ WF_vars(Main /\ UNCHANGED envVars)

-----------------------------------------------------------------------------
\* Exit code 0 vouches for what the run has seen, though the checks are made one
\* after the other while the cluster changes (main.go:75-93): each object passed
\* its check, or an empty namespace ended the listing of its kind, which cannot
\* happen to a statefulset; and what passed was really up at some moment.
ExitZeroVouches ==
    exit = "0" =>
        /\ seen = passed \cup skipped
        /\ \A w \in skipped \cap Workload : w \in asDeployment
        /\ \A w \in passed \cap Workload : \E r \in rolled[w] :
              w \in asDeployment => r.ready
        /\ passed \cap Service \subseteq served

\* What the README promises of the tool ("flag them in case of any failures"):
\* when it has found something in every namespace it was given, exit code 0 is
\* never reached past a workload that it has listed, that asks for pods and that
\* was not completely up at any moment of the run.
ExitZeroMeansSeenUp ==
    exit = "0" /\ (\A i \in DOMAIN NsList : \E w \in seen \cap Workload : NsOf[w] = NsList[i])
        => \A w \in seen \cap Workload :
              spec[w].replicas > 0 => \E r \in rolled[w] : r.ready /\ r.n > 0

\* Nor is exit code 1 a false alarm of the whole tool, of three checks made one
\* after the other over a cluster that changes: with requests that succeed and
\* flags that leave room for a check, something the run has seen was not in order.
\* A workload was not settled at some moment or asks for no pods at all, which
\* checkPodStatus rejects (pod.go:79); a service was without an address at some
\* moment or has no port of the kind that checkServiceStatus recognises.  Kinds
\* and namespaces without objects alone never make it 1.
ExitOneIsDeserved ==
    exit = "1" /\ ~ApiMayFail /\ 0 < flags.interval /\ flags.interval < flags.timeout =>
        \/ \E w \in seen \cap Workload : w \in disturbed \/ spec[w].replicas = 0
        \/ \E v \in seen \cap Service :
              v \in dark \/ \A p \in Ports[v] : p.target # p.port

\* The verdict is reached whatever happens in the cluster.
Terminates == <>(exit # "none")
=============================================================================
