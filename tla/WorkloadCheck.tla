--------------------------- MODULE WorkloadCheck ---------------------------
(***************************************************************************)
(* CheckDeployments and CheckStatefulSets of the integration-test          *)
(* framework, with the pod check both call, over a live cluster.  The two  *)
(* packages are the same program up to the operators below that test kind: *)
(* each request to the API server is one action, and the cluster moves in  *)
(* between.                                                                *)
(***************************************************************************)
EXTENDS Cluster, Sequences

CONSTANTS
    NsOf,          \* the namespace of each workload
    NsList,        \* the -namespaces flag, split at commas
    Flags,         \* the values of the -interval and -timeout flags
    ApiMayFail     \* whether a request may fail for a reason of its own

\* strings.Split never returns an empty list (cmd/rhobs-test/main.go:67), so
\* ErrNoNamespace and ErrNamespaceEmpty cannot occur; its items may be "".
ASSUME CheckAssumption ==
    /\ NsList \in Seq(STRING) /\ NsList # <<>>
    /\ Flags \subseteq [interval : Nat, timeout : Nat]
    /\ ApiMayFail \in BOOLEAN

VARIABLES
    kind,       \* the package at work: "deployment" or "statefulset"
    flags,      \* the flags of this run
    pc,         \* where the package's code is
    nsIdx,      \* the position of the namespace loop
    snap,       \* the spec each listed workload had in the List response
    stored,     \* the keys of deploymentsByNamespace
    todo,       \* the items of the current namespace still to check
    cur,        \* the item being checked
    podList,    \* the pods of the List response whose logs are still to read
    examined,   \* the items the loop is done with
    badStatus,  \* the items with an error in depErrList (stsErrorList)
    badPods,    \* the items with an error in podErrList
    result      \* what the package returns

checkVars == <<kind, flags, pc, nsIdx, snap, stored, todo, cur, podList,
               examined, badStatus, badPods, result>>
vars == <<clusterVars, checkVars>>

Nobody == "nobody"
Errors == {"ErrListing", "ErrInvalidInterval", "ErrFailed"}

CheckTypeOK ==
    /\ kind \in {"deployment", "statefulset"}
    /\ flags \in Flags
    /\ pc \in {"store", "validate", "next", "status", "pods", "logs", "done"}
    /\ nsIdx \in 1..(Len(NsList) + 1)
    /\ snap \in [Workload -> SpecType]
    /\ stored \subseteq {NsList[i] : i \in 1..Len(NsList)}
    /\ todo \subseteq Workload
    /\ cur \in Workload \cup {Nobody}
    /\ podList \subseteq Slot
    /\ examined \subseteq Workload
    /\ badStatus \subseteq Workload
    /\ badPods \subseteq Workload
    /\ result \in {"running", "nil"} \cup Errors

\* The type invariant of a run: the cluster's part and the framework's part.
TypeOK == ClusterTypeOK /\ CheckTypeOK

-----------------------------------------------------------------------------
InNs(ns)   == {w \in Workload : NsOf[w] = ns}
Listed     == {w \in Workload : snap[w].gen > 0}

\* The four comparisons of a status with the item of the List response.
\* Mutants: the generation is not compared; it must have been passed.
DeploymentCompleteAnyGen(st, item) ==
    st.updated = item.replicas /\ st.replicas = item.replicas
        /\ st.available = item.replicas
DeploymentComplete(st, item) ==
    /\ st.updated = item.replicas
    /\ st.replicas = item.replicas
    /\ st.available = item.replicas
    /\ st.obs >= item.gen

StatefulSetCompleteLater(st, item) ==
    st.updated = item.replicas /\ st.replicas = item.replicas
        /\ st.current = item.replicas /\ st.obs > item.gen
StatefulSetComplete(st, item) ==
    /\ st.updated = item.replicas
    /\ st.replicas = item.replicas
    /\ st.current = item.replicas
    /\ st.obs >= item.gen

Complete(st, item) ==
    IF kind = "deployment" THEN DeploymentComplete(st, item)
                           ELSE StatefulSetComplete(st, item)

\* PollUntilContextTimeout waits one interval before each condition and stops
\* when the context of the timeout is done; at equality either may come first.
PollTicks   == flags.interval <= flags.timeout
PollExpires == flags.interval >= flags.timeout

Return(r) ==
    /\ result' = r /\ pc' = "done"

-----------------------------------------------------------------------------
CheckInit ==
    /\ kind \in {"deployment", "statefulset"}
    /\ flags \in Flags
    /\ pc = "store" /\ nsIdx = 1
    /\ snap = [w \in Workload |-> Spec0]
    /\ stored = {} /\ todo = {} /\ cur = Nobody /\ podList = {}
    /\ examined = {} /\ badStatus = {} /\ badPods = {}
    /\ result = "running"

\* One round of the loop of storeDeploymentsByNamespace: a failing List ends
\* the listing.
ListFails ==
    /\ pc = "store" /\ nsIdx <= Len(NsList) /\ NsList[nsIdx] # ""
    /\ ApiMayFail
    /\ Return("ErrListing")
    /\ UNCHANGED <<kind, flags, nsIdx, snap, stored, todo, cur, podList, examined,
                   badStatus, badPods>>

\* A namespace without items ends the listing of deployments with the
\* ErrNoDeployment that CheckDeployments skips on; storeStatefulSetsByNamespace
\* goes on to the next namespace.  Mutant: it does not.
EmptyNamespaceEndsAlways == TRUE
EmptyNamespaceEnds == kind = "deployment"

ListNamespace ==
    /\ pc = "store" /\ nsIdx <= Len(NsList)
    /\ LET ns == NsList[nsIdx]
           there == {w \in InNs(ns) : Exists(w) /\ spec[w].kind = kind}
       IN  IF ns # "" /\ there = {} /\ EmptyNamespaceEnds
           THEN /\ Return("nil")
                /\ UNCHANGED <<nsIdx, snap, stored>>
           ELSE /\ nsIdx' = nsIdx + 1
                /\ IF ns # "" /\ there # {}
                   THEN /\ snap' = [w \in Workload |->
                                      IF w \in there THEN spec[w]
                                      ELSE IF NsOf[w] = ns THEN Spec0 ELSE snap[w]]
                        /\ stored' = stored \cup {ns}
                   ELSE UNCHANGED <<snap, stored>>
                /\ UNCHANGED <<pc, result>>
    /\ UNCHANGED <<kind, flags, todo, cur, podList, examined, badStatus, badPods>>

StoreDone ==
    /\ pc = "store" /\ nsIdx > Len(NsList)
    /\ IF stored = {} THEN Return("nil")
                      ELSE pc' = "validate" /\ UNCHANGED result
    /\ UNCHANGED <<kind, flags, nsIdx, snap, stored, todo, cur, podList, examined,
                   badStatus, badPods>>

\* The guards of validateDeploymentsByNamespace.
Validate ==
    /\ pc = "validate"
    /\ IF flags.interval = 0 \/ flags.timeout = 0
       THEN Return("ErrInvalidInterval") /\ UNCHANGED nsIdx
       ELSE pc' = "next" /\ nsIdx' = 1 /\ UNCHANGED result
    /\ UNCHANGED <<kind, flags, snap, stored, todo, cur, podList, examined,
                   badStatus, badPods>>

\* The two nested loops, and what follows them.  Mutant: the inner loop moves the
\* index of the outer one.
NextNamespace ==
    /\ pc = "next" /\ todo = {} /\ nsIdx <= Len(NsList)
    /\ todo' = InNs(NsList[nsIdx]) \cap Listed
    /\ nsIdx' = nsIdx + 1
    /\ UNCHANGED <<kind, flags, pc, snap, stored, cur, podList, examined,
                   badStatus, badPods, result>>

NextItemAdvances ==
    /\ pc = "next"
    /\ \E w \in todo : cur' = w /\ todo' = todo \ {w}
    /\ pc' = "status" /\ nsIdx' = nsIdx + 1
    /\ UNCHANGED <<kind, flags, snap, stored, podList, examined, badStatus,
                   badPods, result>>

NextItem ==
    /\ pc = "next"
    /\ \E w \in todo : cur' = w /\ todo' = todo \ {w}
    /\ pc' = "status"
    /\ UNCHANGED <<kind, flags, nsIdx, snap, stored, podList, examined, badStatus,
                   badPods, result>>

ErrorFound == badStatus # {} \/ badPods # {}

Conclude ==
    /\ pc = "next" /\ todo = {} /\ nsIdx > Len(NsList)
    /\ Return(IF ErrorFound THEN "ErrFailed" ELSE "nil")
    /\ UNCHANGED <<kind, flags, nsIdx, snap, stored, todo, cur, podList, examined,
                   badStatus, badPods>>

\* The first poll.  Its condition returns the error of the check with false,
\* which ends the poll: the check is made once.  RetryOnConflict repeats only
\* conflicts, and a Get returns none.
Healthy(w) == Exists(w) /\ Complete(status[w], snap[w])

PollStatus ==
    /\ pc = "status"
    /\ \/ /\ PollTicks /\ Healthy(cur)
          /\ UNCHANGED badStatus
       \/ /\ \/ PollTicks /\ (~Healthy(cur) \/ ApiMayFail)
             \/ PollExpires
          /\ badStatus' = badStatus \cup {cur}
    /\ pc' = "pods"
    /\ UNCHANGED <<kind, flags, nsIdx, snap, stored, todo, cur, podList, examined,
                   badPods, result>>

\* The second poll, around GetPodStatus: checkPodStatus judges the pods of the
\* List response, and then the logs of each of them are read.
ItemDone ==
    /\ pc' = "next" /\ examined' = examined \cup {cur} /\ cur' = Nobody

PodListHealthy(w) ==
    /\ Live(w) # {}
    /\ \A s \in Live(w) : pods[w][s].st \in {"Running", "Ready"}

PollPods ==
    /\ pc = "pods"
    /\ \/ /\ PollTicks /\ PodListHealthy(cur)
          /\ podList' = Live(cur) /\ pc' = "logs"
          /\ UNCHANGED <<badPods, examined, cur>>
       \/ /\ \/ PollTicks /\ (~PodListHealthy(cur) \/ ApiMayFail)
             \/ PollExpires
          /\ badPods' = badPods \cup {cur}
          /\ ItemDone
          /\ UNCHANGED podList
    /\ UNCHANGED <<kind, flags, nsIdx, snap, stored, todo, badStatus, result>>

\* getPodLogs: a pod that is gone by now has no logs to read.
ReadLogs ==
    /\ pc = "logs" /\ podList # {}
    /\ \E s \in podList :
         \/ /\ pods[cur][s].st # "none"
            /\ podList' = podList \ {s}
            /\ UNCHANGED <<pc, cur, examined, badPods>>
         \/ /\ pods[cur][s].st = "none" \/ ApiMayFail
            /\ podList' = {} /\ badPods' = badPods \cup {cur}
            /\ ItemDone
    /\ UNCHANGED <<kind, flags, nsIdx, snap, stored, todo, badStatus, result>>

LogsDone ==
    /\ pc = "logs" /\ podList = {}
    /\ ItemDone
    /\ UNCHANGED <<kind, flags, nsIdx, snap, stored, todo, podList, badStatus,
                   badPods, result>>

CheckNext ==
    \/ ListFails \/ ListNamespace \/ StoreDone
    \/ Validate \/ NextNamespace \/ NextItem \/ Conclude
    \/ PollStatus \/ PollPods \/ ReadLogs \/ LogsDone

-----------------------------------------------------------------------------
Init == ClusterInit /\ CheckInit

\* The function has returned; its caller is another module's subject.
Exited == pc = "done" /\ UNCHANGED vars

Next == \/ CheckNext /\ UNCHANGED clusterVars
        \/ ClusterNext /\ UNCHANGED checkVars
        \/ Exited

Spec == Init /\ [][Next]_vars
\* The package is called from main and never yields: it always takes its next
\* step.  Nothing is assumed of the cluster.
FairSpec == Spec /\ WF_vars(CheckNext /\ UNCHANGED clusterVars)

-----------------------------------------------------------------------------
\* The items whose status poll, and whose pod poll, ended without an error.
StatusPassed == (examined \cup IF pc \in {"pods", "logs"} THEN {cur} ELSE {})
                    \ badStatus
Bad    == badStatus \cup badPods
Passed == examined \ Bad

\* A status is trusted only if it speaks of the listed spec or a newer one
\* (checkDeploymentStatus, checkStatefulSetStatus): whatever was edited,
\* scaled, evicted or published late during the run, an item that passed did
\* complete a rollout at the listed number of pods, of the listed generation
\* or a later one, and a deployment did so with every pod ready.
PassedWasRolledOut ==
    \A w \in StatusPassed : \E r \in rolled[w] :
        /\ r.gen >= snap[w].gen /\ r.n = snap[w].replicas
        /\ kind = "deployment" => r.ready

\* The promise of the package to main: it judges all it lists and returns nil
\* only if nothing had an error; CheckDeployments also at an empty namespace.
Promise == INSTANCE Inspection WITH
    Item <- Workload, maySkip <- kind = "deployment",
    scope <- Listed, judged <- examined, failed <- examined \cap Bad,
    verdict <- CASE result = "running" -> "none"
                 [] result = "nil"     -> "pass"
                 [] OTHER              -> "fail"

KeepsPromise == Promise!Spec

\* No false alarm: an item whose rollout was complete, and whose status said
\* so, during the whole run, is not reported, unless it asks for no pods at
\* all (checkPodStatus wants one), a request failed, or the timeout leaves no
\* room for a check (validateDeploymentsByNamespace).
NoFalseAlarm ==
    ~ApiMayFail /\ flags.interval < flags.timeout =>
        /\ badStatus \subseteq disturbed
        /\ \A w \in badPods : w \in disturbed \/ snap[w].replicas = 0

\* What the flags promise ("Timeout for retry", main.go:45): a workload is
\* reported unhealthy only when no further check fits in the timeout.
GivenUpOnlyAtTimeout ==
    [][badStatus' # badStatus /\ Exists(cur) => 2 * flags.interval > flags.timeout]_vars

=============================================================================
