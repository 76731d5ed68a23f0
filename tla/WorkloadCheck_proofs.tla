------------------------ MODULE WorkloadCheck_proofs ------------------------
(***************************************************************************)
(* Proofs about WorkloadCheck, for any cluster, any list of namespaces and *)
(* any flags: its types, what passed, what is reported, and that it keeps  *)
(* the promise of Inspection.                                              *)
(***************************************************************************)
EXTENDS WorkloadCheck, FiniteSetTheorems, TLAPS

-----------------------------------------------------------------------------
(* The pods of a workload. *)

\* There are finitely many pods, whatever is asked of them.
LEMMA PodSets ==
    \A S \in SUBSET Slot : IsFiniteSet(S) /\ Cardinality(S) \in Nat
  BY FS_Subset, FS_CardinalityType, ClusterAssumption DEF ClusterAssumption

\* A set of pods as numerous as all pods is all of them.
LEMMA CountsAll ==
    ASSUME NEW S, NEW T, IsFiniteSet(T), S \subseteq T,
           Cardinality(S) = Cardinality(T)
    PROVE  S = T
  BY FS_Subset

\* What the controller publishes is a status.
LEMMA PublishedType ==
    ASSUME ClusterTypeOK, NEW w \in Workload
    PROVE  Published(w) \in StatusType
<1>1. spec[w] \in SpecType /\ status[w] \in StatusType
  BY DEF ClusterTypeOK
<1> DEFINE up  == OfRev(w, spec[w].rev)
           all == /\ up = Live(w) /\ ReadyPods(w) = Live(w)
                  /\ Cardinality(up) = spec[w].replicas
           cr  == IF spec[w].kind = "statefulset" /\ all THEN spec[w].rev
                                                        ELSE status[w].currentRev
<1>2. spec[w].gen \in Nat /\ spec[w].rev \in Nat /\ status[w].currentRev \in Nat
  BY <1>1 DEF SpecType, StatusType
<1>3. cr \in Nat
  BY <1>2
<1>4. /\ Cardinality(up) \in Nat /\ Cardinality(Live(w)) \in Nat
      /\ Cardinality(ReadyPods(w)) \in Nat /\ Cardinality(OfRev(w, cr)) \in Nat
  BY PodSets DEF OfRev, Live, ReadyPods
<1>5. Published(w) = [obs |-> spec[w].gen, replicas |-> Cardinality(Live(w)),
         updated |-> Cardinality(up), available |-> Cardinality(ReadyPods(w)),
         current |-> IF spec[w].kind = "statefulset"
                     THEN Cardinality(OfRev(w, cr)) ELSE 0,
         currentRev |-> cr]
  BY DEF Published
<1> HIDE DEF up, cr
<1> QED
  BY <1>2, <1>3, <1>4, <1>5 DEF StatusType

\* The rollouts remembered at a step are rollouts.
LEMMA RolledNowType ==
    ASSUME spec \in [Workload -> SpecType], NEW w \in Workload
    PROVE  RolledNow(w) \subseteq [gen : Nat, n : Nat, ready : BOOLEAN]
<1>1. spec[w].gen \in Nat
  BY DEF SpecType
<1>2. Cardinality(Live(w)) \in Nat
  BY PodSets DEF Live
<1>3. [gen |-> spec[w].gen, n |-> Cardinality(Live(w)),
       ready |-> ReadyPods(w) = Live(w)] \in [gen : Nat, n : Nat, ready : BOOLEAN]
  BY <1>1, <1>2
<1> QED
  BY <1>3 DEF RolledNow

\* The history variables keep their types at a step of the cluster.
LEMMA RememberType ==
    ASSUME ClusterTypeOK, spec' \in [Workload -> SpecType],
           NEW w \in Workload, Remember(w)
    PROVE  /\ rolled' \in [Workload -> SUBSET [gen : Nat, n : Nat, ready : BOOLEAN]]
           /\ disturbed' \subseteq Workload
           /\ \A v \in Workload : rolled[v] \subseteq rolled'[v]
           /\ RolledNow(w)' \subseteq rolled'[w]
<1>1. spec'[w].gen \in Nat
  BY DEF SpecType
<1>2. Cardinality(Live(w)') \in Nat
  BY PodSets DEF Live
<1>3. RolledNow(w)' \subseteq [gen : Nat, n : Nat, ready : BOOLEAN]
  <2>1. [gen |-> spec'[w].gen, n |-> Cardinality(Live(w)'),
         ready |-> ReadyPods(w)' = Live(w)'] \in [gen : Nat, n : Nat, ready : BOOLEAN]
    BY <1>1, <1>2
  <2> QED
    BY <2>1 DEF RolledNow
<1>4. rolled' = [rolled EXCEPT ![w] = @ \cup RolledNow(w)']
  BY DEF Remember
<1>5. disturbed' \subseteq Workload
  BY DEF Remember, ClusterTypeOK
<1> QED
  BY <1>3, <1>4, <1>5 DEF ClusterTypeOK

-----------------------------------------------------------------------------
(* The types. *)

\* The cluster starts well typed.
LEMMA ClusterInitType == ClusterInit => ClusterTypeOK
<1> SUFFICES ASSUME ClusterInit PROVE ClusterTypeOK
  OBVIOUS
<1>1. spec \in [Workload -> SpecType]
  <2>1. PICK k \in Mix, n \in [Workload -> Replicas], there \in SUBSET Workload :
          spec = [w \in Workload |->
                    IF w \in there
                    THEN [kind |-> k[w], gen |-> 1, rev |-> 1, replicas |-> n[w]]
                    ELSE Spec0]
    BY DEF ClusterInit
  <2>2. \A w \in Workload : k[w] \in {"deployment", "statefulset"} /\ n[w] \in Nat
    BY ClusterAssumption DEF ClusterAssumption
  <2> QED
    BY <2>1, <2>2 DEF SpecType, Spec0
<1>2. pods \in [Workload -> [Slot -> PodType]]
  <2>1. {NoPod, [rev |-> 1, st |-> "Ready"]} \subseteq PodType
    BY DEF NoPod, PodType, PodState
  <2> QED
    BY <2>1 DEF ClusterInit
<1>3. \A w \in Workload : Cardinality(Live(w)) \in Nat
  BY PodSets DEF Live
<1>4. status \in [Workload -> StatusType]
  BY <1>3 DEF ClusterInit, StatusType, FreshStatus
<1>5. rolled \in [Workload -> SUBSET [gen : Nat, n : Nat, ready : BOOLEAN]]
  BY <1>1, RolledNowType DEF ClusterInit
<1>6. disturbed \subseteq Workload
  BY DEF ClusterInit
<1> QED
  BY <1>1, <1>2, <1>4, <1>5, <1>6 DEF ClusterTypeOK

\* Each step of the cluster keeps the cluster well typed.
LEMMA ClusterStepType ==
    ASSUME ClusterTypeOK, ClusterNext PROVE ClusterTypeOK'
<1>1. PICK w \in Workload :
        \/ EditSpec(w) \/ DeleteWorkload(w) \/ SyncStatus(w)
        \/ \E s \in Slot : CreatePod(w, s) \/ DeletePod(w, s) \/ MovePod(w, s)
  BY DEF ClusterNext
<1>2. Remember(w)
  BY <1>1 DEF EditSpec, DeleteWorkload, SyncStatus, CreatePod, DeletePod, MovePod
<1>3. spec[w] \in SpecType
  BY DEF ClusterTypeOK
<1>4. spec' \in [Workload -> SpecType]
  <2>1. CASE EditSpec(w)
    <3>1. PICK n \in Replicas, r \in {spec[w].rev, spec[w].gen + 1} :
            spec' = [spec EXCEPT ![w] = [kind |-> @.kind, gen |-> @.gen + 1,
                                         rev |-> r, replicas |-> n]]
      BY <2>1 DEF EditSpec
    <3>2. [kind |-> spec[w].kind, gen |-> spec[w].gen + 1, rev |-> r,
           replicas |-> n] \in SpecType
      BY <1>3, ClusterAssumption DEF SpecType, ClusterAssumption
    <3> QED
      BY <3>1, <3>2 DEF ClusterTypeOK
  <2>2. CASE DeleteWorkload(w)
    BY <2>2 DEF DeleteWorkload, ClusterTypeOK, Spec0, SpecType
  <2>3. CASE UNCHANGED spec
    BY <2>3 DEF ClusterTypeOK
  <2> QED
    BY <1>1, <2>1, <2>2, <2>3 DEF SyncStatus, CreatePod, DeletePod, MovePod
<1>5. pods' \in [Workload -> [Slot -> PodType]]
  <2>1. CASE DeleteWorkload(w)
    BY <2>1 DEF DeleteWorkload, ClusterTypeOK, NoPod, PodType, PodState
  <2>2. ASSUME NEW s \in Slot, CreatePod(w, s) PROVE pods' \in [Workload -> [Slot -> PodType]]
    BY <2>2, <1>3 DEF CreatePod, ClusterTypeOK, PodType, PodState, SpecType
  <2>3. ASSUME NEW s \in Slot, DeletePod(w, s) PROVE pods' \in [Workload -> [Slot -> PodType]]
    BY <2>3 DEF DeletePod, ClusterTypeOK, NoPod, PodType, PodState
  <2>4. ASSUME NEW s \in Slot, MovePod(w, s) PROVE pods' \in [Workload -> [Slot -> PodType]]
    BY <2>4 DEF MovePod, ClusterTypeOK, PodType, PodState
  <2>5. CASE UNCHANGED pods
    BY <2>5 DEF ClusterTypeOK
  <2> QED
    BY <1>1, <2>1, <2>2, <2>3, <2>4, <2>5 DEF EditSpec, SyncStatus
<1>6. status' \in [Workload -> StatusType]
  <2>1. CASE SyncStatus(w)
    BY <2>1, PublishedType DEF SyncStatus, ClusterTypeOK
  <2>2. CASE UNCHANGED status
    BY <2>2 DEF ClusterTypeOK
  <2> QED
    BY <1>1, <2>1, <2>2 DEF EditSpec, DeleteWorkload, CreatePod, DeletePod, MovePod
<1> QED
  BY <1>2, <1>4, <1>5, <1>6, RememberType DEF ClusterTypeOK

\* The framework's types need to know that there is an item at work while one
\* is checked.
CurInv == pc \in {"status", "pods", "logs"} => cur \in Workload

\* The framework starts well typed.
LEMMA CheckInitType == CheckInit => CheckTypeOK /\ CurInv
<1>1. Len(NsList) \in Nat
  BY CheckAssumption DEF CheckAssumption
<1>2. Spec0 \in SpecType
  BY DEF Spec0, SpecType
<1> QED
  BY <1>1, <1>2 DEF CheckInit, CheckTypeOK, CurInv

\* Each step of the framework keeps the framework well typed.
LEMMA CheckStepType ==
    ASSUME TypeOK, CurInv, CheckNext PROVE CheckTypeOK' /\ CurInv'
<1>1. Len(NsList) \in Nat /\ nsIdx \in Nat /\ nsIdx >= 1
  BY CheckAssumption DEF CheckAssumption, TypeOK, CheckTypeOK
<1>2. \A w \in Workload : spec[w] \in SpecType /\ Spec0 \in SpecType
  BY DEF TypeOK, ClusterTypeOK, Spec0, SpecType
<1>3. CASE ListFails
  BY <1>3 DEF ListFails, Return, Errors, TypeOK, CheckTypeOK, CurInv
<1>4. CASE ListNamespace
  <2> DEFINE ns == NsList[nsIdx]
             there == {w \in InNs(ns) : Exists(w) /\ spec[w].kind = kind}
  <2>1. /\ pc = "store" /\ nsIdx <= Len(NsList)
        /\ \/ pc' = "done" /\ result' = "nil" /\ UNCHANGED <<nsIdx, snap, stored>>
           \/ /\ nsIdx' = nsIdx + 1 /\ UNCHANGED <<pc, result>>
              /\ \/ /\ snap' = [w \in Workload |->
                                   IF w \in there THEN spec[w]
                                   ELSE IF NsOf[w] = ns THEN Spec0 ELSE snap[w]]
                    /\ stored' = stored \cup {ns}
                 \/ UNCHANGED <<snap, stored>>
        /\ UNCHANGED <<kind, flags, todo, cur, podList, examined, badStatus, badPods>>
    BY <1>4 DEF ListNamespace, Return
  <2>2. ns \in {NsList[i] : i \in 1..Len(NsList)}
    BY <1>1, <2>1
  <2> HIDE DEF ns, there
  <2>3. snap' \in [Workload -> SpecType]
    BY <1>2, <2>1 DEF TypeOK, CheckTypeOK
  <2>4. stored' \subseteq {NsList[i] : i \in 1..Len(NsList)}
    BY <2>1, <2>2 DEF TypeOK, CheckTypeOK
  <2>5. nsIdx' \in 1..(Len(NsList) + 1)
    BY <1>1, <2>1
  <2> QED
    BY <2>1, <2>3, <2>4, <2>5 DEF TypeOK, CheckTypeOK, CurInv
<1>5. CASE StoreDone
  BY <1>5 DEF StoreDone, Return, TypeOK, CheckTypeOK, CurInv
<1>6. CASE Validate
  BY <1>1, <1>6 DEF Validate, Return, Errors, TypeOK, CheckTypeOK, CurInv
<1>7. CASE NextNamespace
  BY <1>1, <1>7 DEF NextNamespace, InNs, TypeOK, CheckTypeOK, CurInv
<1>8. CASE NextItem
  BY <1>8 DEF NextItem, TypeOK, CheckTypeOK, CurInv
<1>9. CASE Conclude
  BY <1>9 DEF Conclude, Return, Errors, TypeOK, CheckTypeOK, CurInv
<1>10. CASE PollStatus
  BY <1>10 DEF PollStatus, TypeOK, CheckTypeOK, CurInv
<1>11. CASE PollPods
  BY <1>11 DEF PollPods, ItemDone, Live, TypeOK, CheckTypeOK, CurInv
<1>12. CASE ReadLogs
  BY <1>12 DEF ReadLogs, ItemDone, TypeOK, CheckTypeOK, CurInv
<1>13. CASE LogsDone
  BY <1>13 DEF LogsDone, ItemDone, TypeOK, CheckTypeOK, CurInv
<1> QED
  BY <1>3, <1>4, <1>5, <1>6, <1>7, <1>8, <1>9, <1>10, <1>11, <1>12, <1>13
  DEF CheckNext

\* Every state of every run is well typed: no step of the cluster or of the
\* framework, in any order, leaves a variable outside its type.
THEOREM TypeCorrect == Spec => []TypeOK
<1>1. Init => TypeOK /\ CurInv
  BY ClusterInitType, CheckInitType DEF Init, TypeOK
<1>2. TypeOK /\ CurInv /\ [Next]_vars => (TypeOK /\ CurInv)'
  <2> SUFFICES ASSUME TypeOK, CurInv, [Next]_vars PROVE (TypeOK /\ CurInv)'
    OBVIOUS
  <2>1. CASE CheckNext /\ UNCHANGED clusterVars
    BY <2>1, CheckStepType DEF TypeOK, ClusterTypeOK, clusterVars
  <2>2. CASE ClusterNext /\ UNCHANGED checkVars
    BY <2>2, ClusterStepType DEF TypeOK, CheckTypeOK, CurInv, checkVars
  <2>3. CASE UNCHANGED vars
    BY <2>3 DEF vars, clusterVars, checkVars, TypeOK, ClusterTypeOK,
                CheckTypeOK, CurInv
  <2> QED
    BY <2>1, <2>2, <2>3 DEF Next, Exited
<1> QED
  BY <1>1, <1>2, PTL DEF Spec

-----------------------------------------------------------------------------
(* What passed was rolled out. *)

\* A published status with no pod of an older template, at a number of pods that
\* a spec can ask for, tells of a rollout that is remembered.
StatusRolled ==
    \A w \in Workload :
        /\ status[w].obs > 0 /\ status[w].updated = status[w].replicas
        /\ status[w].replicas \in Replicas \cup {0}
        =>
            \E r \in rolled[w] :
                /\ r.gen = status[w].obs /\ r.n = status[w].replicas
                /\ status[w].available = status[w].replicas => r.ready

\* The items of the work list are listed, and the list is complete before the
\* work begins.
WorkInv ==
    /\ pc \in {"store", "validate"} => examined = {} /\ todo = {}
    /\ todo \subseteq Listed
    /\ pc \in {"status", "pods", "logs"} => cur \in Listed

RolloutInv == TypeOK /\ CurInv /\ StatusRolled /\ WorkInv /\ PassedWasRolledOut

\* A status just published without old pods is true of the pods.
LEMMA PublishedRolled ==
    ASSUME NEW w \in Workload, Exists(w),
           Published(w).updated = Published(w).replicas,
           Published(w).replicas \in Replicas \cup {0}
    PROVE  \E r \in RolledNow(w) :
              /\ r.gen = Published(w).obs /\ r.n = Published(w).replicas
              /\ Published(w).available = Published(w).replicas => r.ready
<1> DEFINE r == [gen |-> spec[w].gen, n |-> Cardinality(Live(w)),
                 ready |-> ReadyPods(w) = Live(w)]
<1>1. /\ Published(w).obs = spec[w].gen
      /\ Published(w).replicas = Cardinality(Live(w))
      /\ Published(w).updated = Cardinality(OfRev(w, spec[w].rev))
      /\ Published(w).available = Cardinality(ReadyPods(w))
  BY DEF Published
<1>2. /\ IsFiniteSet(Live(w))
      /\ OfRev(w, spec[w].rev) \subseteq Live(w) /\ ReadyPods(w) \subseteq Live(w)
  BY PodSets DEF Live, OfRev, ReadyPods
<1>3. OfRev(w, spec[w].rev) = Live(w)
  BY <1>1, <1>2, CountsAll
<1>4. Published(w).available = Published(w).replicas => ReadyPods(w) = Live(w)
  BY <1>1, <1>2, CountsAll
<1>5. r \in RolledNow(w)
  BY <1>1, <1>3 DEF RolledNow
<1> QED
  BY <1>1, <1>4, <1>5

\* A status found at the start is true of the pods.
LEMMA InitRolled == ClusterInit => StatusRolled
<1> SUFFICES ASSUME ClusterInit, NEW w \in Workload,
                    status[w].obs > 0, status[w].updated = status[w].replicas,
                    status[w].replicas \in Replicas \cup {0}
             PROVE  \E r \in rolled[w] :
                       /\ r.gen = status[w].obs /\ r.n = status[w].replicas
                       /\ status[w].available = status[w].replicas => r.ready
  BY DEF StatusRolled
<1> DEFINE n == Cardinality(Live(w))
<1>1. status[w] = IF n = 0 THEN FreshStatus
             ELSE [obs |-> 1, replicas |-> n, updated |-> n, available |-> n,
                   current |-> IF spec[w].kind = "statefulset" THEN n ELSE 0,
                   currentRev |-> 1]
  BY DEF ClusterInit
<1>2. n # 0 /\ status[w].obs = 1 /\ status[w].replicas = n
  BY <1>1 DEF FreshStatus
<1>3. spec[w].gen = 1 /\ spec[w].rev = 1
  <2>1. spec[w].replicas # 0
    BY <1>2 DEF ClusterInit
  <2> QED
    BY <2>1 DEF ClusterInit, Spec0
<1>4. \A s \in Slot : pods[w][s] = NoPod \/ pods[w][s] = [rev |-> 1, st |-> "Ready"]
  BY DEF ClusterInit
<1>5. OfRev(w, 1) = Live(w) /\ ReadyPods(w) = Live(w)
  BY <1>4 DEF OfRev, Live, ReadyPods, NoPod
<1> DEFINE r == [gen |-> spec[w].gen, n |-> n, ready |-> ReadyPods(w) = Live(w)]
<1>6. r \in RolledNow(w)
  BY <1>2, <1>3, <1>5 DEF RolledNow, Exists
<1>7. r.gen = 1 /\ r.n = n /\ r.ready
  BY <1>3, <1>5
<1>8. rolled[w] = RolledNow(w)
  BY DEF ClusterInit
<1> QED
  BY <1>2, <1>6, <1>7, <1>8

\* No step of the cluster forgets a rollout, and none publishes a false one.
LEMMA ClusterStepRolled ==
    ASSUME ClusterTypeOK, StatusRolled, ClusterNext
    PROVE  StatusRolled' /\ \A v \in Workload : rolled[v] \subseteq rolled'[v]
<1>1. PICK w \in Workload :
        \/ EditSpec(w) \/ DeleteWorkload(w) \/ SyncStatus(w)
        \/ \E s \in Slot : CreatePod(w, s) \/ DeletePod(w, s) \/ MovePod(w, s)
  BY DEF ClusterNext
<1>2. Remember(w)
  BY <1>1 DEF EditSpec, DeleteWorkload, SyncStatus, CreatePod, DeletePod, MovePod
<1>3. spec' \in [Workload -> SpecType]
  BY ClusterStepType DEF ClusterTypeOK
<1>4. RolledNow(w)' \subseteq rolled'[w] /\ \A v \in Workload : rolled[v] \subseteq rolled'[v]
  BY <1>2, <1>3, RememberType
<1>5. ASSUME NEW v \in Workload,
             status'[v].obs > 0, status'[v].updated = status'[v].replicas,
             status'[v].replicas \in Replicas \cup {0}
      PROVE  \E r \in rolled'[v] :
                /\ r.gen = status'[v].obs /\ r.n = status'[v].replicas
                /\ status'[v].available = status'[v].replicas => r.ready
  <2>1. CASE v = w /\ SyncStatus(w)
    <3>1. status'[w] = Published(w) /\ Exists(w) /\ UNCHANGED <<spec, pods>>
      BY <2>1 DEF SyncStatus, ClusterTypeOK
    <3>2. RolledNow(w)' = RolledNow(w)
      BY <3>1 DEF RolledNow, Exists, OfRev, Live, ReadyPods
    <3> QED
      BY <1>4, <1>5, <2>1, <3>1, <3>2, PublishedRolled
  <2>2. CASE status'[v] = status[v]
    BY <1>4, <1>5, <2>2 DEF StatusRolled
  <2> QED
    BY <1>1, <2>1, <2>2
    DEF EditSpec, DeleteWorkload, SyncStatus, CreatePod, DeletePod, MovePod, ClusterTypeOK
<1> QED
  BY <1>4, <1>5 DEF StatusRolled

\* The framework's steps: what is judged, and by what.
LEMMA CheckStepWork ==
    ASSUME TypeOK, CurInv, WorkInv, CheckNext, UNCHANGED clusterVars
    PROVE  /\ WorkInv'
           /\ UNCHANGED kind
           /\ \/ examined' = {} /\ pc' \notin {"pods", "logs"}
              \/ /\ UNCHANGED snap /\ badStatus \subseteq badStatus'
                 /\ \/ StatusPassed' \subseteq StatusPassed
                    \/ /\ StatusPassed' \subseteq StatusPassed \cup {cur}
                       /\ cur \in Listed /\ Healthy(cur)
<1> USE DEF WorkInv, StatusPassed
<1>1. CASE ListFails
  BY <1>1 DEF ListFails, Return, Listed
<1>2. CASE ListNamespace
  BY <1>2 DEF ListNamespace, Return, Listed
<1>3. CASE StoreDone
  BY <1>3 DEF StoreDone, Return, Listed
<1>4. CASE Validate
  BY <1>4 DEF Validate, Return, Listed
<1>5. CASE NextNamespace
  BY <1>5 DEF NextNamespace, Listed
<1>6. CASE NextItem
  BY <1>6 DEF NextItem, Listed
<1>7. CASE Conclude
  BY <1>7 DEF Conclude, Return, Listed
<1>8. CASE PollStatus
  BY <1>8 DEF PollStatus, Listed
<1>9. CASE PollPods
  BY <1>9 DEF PollPods, ItemDone, Listed
<1>10. CASE ReadLogs
  BY <1>10 DEF ReadLogs, ItemDone, Listed
<1>11. CASE LogsDone
  BY <1>11 DEF LogsDone, ItemDone, Listed
<1> QED
  BY <1>1, <1>2, <1>3, <1>4, <1>5, <1>6, <1>7, <1>8, <1>9, <1>10, <1>11
  DEF CheckNext

\* An item with a complete status has a remembered rollout of its generation.
LEMMA HealthyRolled ==
    ASSUME TypeOK, StatusRolled, NEW w \in Listed, Healthy(w)
    PROVE  \E r \in rolled[w] :
              /\ r.gen >= snap[w].gen /\ r.n = snap[w].replicas
              /\ kind = "deployment" => r.ready
<1>1. w \in Workload /\ snap[w].gen > 0 /\ snap[w].gen \in Nat /\ status[w].obs \in Nat
  BY DEF Listed, TypeOK, ClusterTypeOK, CheckTypeOK, SpecType, StatusType
<1>2. /\ status[w].updated = snap[w].replicas /\ status[w].replicas = snap[w].replicas
      /\ status[w].obs >= snap[w].gen
      /\ kind = "deployment" => status[w].available = snap[w].replicas
  BY DEF Healthy, Complete, DeploymentComplete, StatefulSetComplete
<1>3. snap[w].replicas \in Replicas \cup {0}
  BY <1>1 DEF TypeOK, CheckTypeOK, SpecType
<1>4. PICK r \in rolled[w] :
        /\ r.gen = status[w].obs /\ r.n = status[w].replicas
        /\ status[w].available = status[w].replicas => r.ready
  BY <1>1, <1>2, <1>3 DEF StatusRolled
<1> QED
  BY <1>2, <1>4

\* A package starts with nothing judged, whatever the cluster has gone through.
LEMMA FrameRolled == CheckInit /\ ClusterTypeOK /\ StatusRolled => RolloutInv
  BY CheckInitType DEF CheckInit, RolloutInv, TypeOK, WorkInv, PassedWasRolledOut,
                       StatusPassed

\* PassedWasRolledOut is inductive together with StatusRolled, as what the
\* framework trusts is a status it did not see being made, and WorkInv.
LEMMA RolloutStep ==
    ASSUME RolloutInv, [Next]_vars PROVE RolloutInv'
<1> USE DEF RolloutInv
<1>1. CASE CheckNext /\ UNCHANGED clusterVars
  <2>1. TypeOK' /\ CurInv'
    BY <1>1, CheckStepType DEF TypeOK, ClusterTypeOK, clusterVars
  <2>2. StatusRolled'
    BY <1>1 DEF StatusRolled, clusterVars
  <2>3. PassedWasRolledOut'
    <3>1. CASE examined' = {} /\ pc' \notin {"pods", "logs"}
      BY <3>1 DEF PassedWasRolledOut, StatusPassed
    <3>2. CASE UNCHANGED snap /\ StatusPassed' \subseteq StatusPassed
      BY <3>2, <1>1, CheckStepWork DEF PassedWasRolledOut, clusterVars
    <3>3. CASE /\ UNCHANGED snap /\ StatusPassed' \subseteq StatusPassed \cup {cur}
               /\ cur \in Listed /\ Healthy(cur)
      BY <3>3, <1>1, CheckStepWork, HealthyRolled DEF PassedWasRolledOut, clusterVars
    <3> QED
      BY <1>1, <3>1, <3>2, <3>3, CheckStepWork
  <2> QED
    BY <1>1, <2>1, <2>2, <2>3, CheckStepWork
<1>2. CASE ClusterNext /\ UNCHANGED checkVars
  <2>1. TypeOK' /\ CurInv'
    BY <1>2, ClusterStepType DEF TypeOK, CheckTypeOK, CurInv, checkVars
  <2>2. StatusRolled' /\ \A v \in Workload : rolled[v] \subseteq rolled'[v]
    BY <1>2, ClusterStepRolled DEF TypeOK
  <2>3. WorkInv'
    BY <1>2 DEF WorkInv, Listed, checkVars
  <2>4. StatusPassed' = StatusPassed /\ StatusPassed \subseteq Workload
    BY <1>2 DEF StatusPassed, checkVars, TypeOK, CheckTypeOK, CurInv
  <2>5. PassedWasRolledOut'
    BY <1>2, <2>2, <2>4 DEF PassedWasRolledOut, checkVars
  <2> QED
    BY <2>1, <2>2, <2>3, <2>5
<1>3. CASE UNCHANGED vars
  BY <1>3 DEF vars, clusterVars, checkVars, TypeOK, ClusterTypeOK, CheckTypeOK,
              CurInv, StatusRolled, WorkInv, Listed, PassedWasRolledOut, StatusPassed
<1> QED
  BY <1>1, <1>2, <1>3 DEF Next, Exited

\* PassedWasRolledOut: whatever is edited, evicted or published late, what
\* passes checkDeploymentStatus or checkStatefulSetStatus had completed a rollout.
THEOREM RolloutIsReal == Spec => []PassedWasRolledOut
<1>1. RolloutInv /\ [Next]_vars => RolloutInv'
  BY RolloutStep
<1>2. RolloutInv => PassedWasRolledOut
  BY DEF RolloutInv
<1>3. Init => RolloutInv
  BY ClusterInitType, InitRolled, FrameRolled DEF Init
<1> QED
  BY <1>1, <1>2, <1>3, PTL DEF Spec

-----------------------------------------------------------------------------
(* What was in order all the time is not reported. *)

SettledInv == \A w \in Workload \ disturbed : Settled(w)

\* The List response is still true of the items nobody has disturbed.
SnapInv ==
    \A w \in Listed : snap[w].kind = kind /\ (w \notin disturbed => snap[w] = spec[w])

\* The pods whose logs are still to be read are there.
LogsInv == pc = "logs" /\ cur \notin disturbed => podList \subseteq Live(cur)

NothingBadYet == pc \in {"store", "validate"} => badStatus = {} /\ badPods = {}

AlarmInv ==
    TypeOK /\ CurInv /\ WorkInv /\ SettledInv /\ SnapInv /\ LogsInv /\ NothingBadYet
        /\ NoFalseAlarm

\* A settled workload stays so only if its spec and its pods stay.
LEMMA ClusterStepQuiet ==
    ASSUME ClusterTypeOK, SettledInv, ClusterNext
    PROVE  /\ SettledInv' /\ disturbed \subseteq disturbed'
           /\ \A v \in Workload \ disturbed' :
                  spec'[v] = spec[v] /\ Live(v) \subseteq Live(v)'
<1>1. PICK w \in Workload :
        \/ EditSpec(w) \/ DeleteWorkload(w) \/ SyncStatus(w)
        \/ \E s \in Slot : CreatePod(w, s) \/ DeletePod(w, s) \/ MovePod(w, s)
  BY DEF ClusterNext
<1>2. Remember(w)
  BY <1>1 DEF EditSpec, DeleteWorkload, SyncStatus, CreatePod, DeletePod, MovePod
<1>3. disturbed \subseteq disturbed' /\ (w \notin disturbed' => Settled(w)')
  BY <1>2 DEF Remember
<1>4. ASSUME NEW v \in Workload, v # w
      PROVE  spec'[v] = spec[v] /\ pods'[v] = pods[v] /\ status'[v] = status[v]
  BY <1>1, <1>4
  DEF EditSpec, DeleteWorkload, SyncStatus, CreatePod, DeletePod, MovePod, ClusterTypeOK
<1>5. ASSUME NEW v \in Workload \ disturbed', v # w
      PROVE  Settled(v)' /\ spec'[v] = spec[v] /\ Live(v) \subseteq Live(v)'
  <2>1. Live(v)' = Live(v) /\ ReadyPods(v)' = ReadyPods(v)
        /\ \A r : OfRev(v, r)' = OfRev(v, r)
    BY <1>4, <1>5 DEF Live, ReadyPods, OfRev
  <2>2. Published(v)' = Published(v)
    BY <1>4, <1>5, <2>1 DEF Published, OfRev, Live
  <2>3. Settled(v)
    BY <1>3, <1>5 DEF SettledInv
  <2> QED
    BY <1>4, <1>5, <2>1, <2>2, <2>3 DEF Settled, Exists, OfRev, Live
<1>6. ASSUME w \notin disturbed'
      PROVE  spec'[w] = spec[w] /\ Live(w) \subseteq Live(w)'
  <2>1. Settled(w) /\ Settled(w)'
    BY <1>3, <1>6 DEF SettledInv
  <2>2. spec[w].gen \in Nat
    BY DEF ClusterTypeOK, SpecType
  <2>3. status[w].obs = spec[w].gen /\ status'[w].obs = spec'[w].gen
    BY <2>1 DEF Settled, Published
  <2>4. CASE EditSpec(w)
    <3>1. spec'[w].gen = spec[w].gen + 1 /\ status' = status
      BY <2>4 DEF EditSpec, ClusterTypeOK
    <3> QED
      BY <2>2, <2>3, <3>1
  <2>5. CASE DeleteWorkload(w)
    <3>1. spec'[w].gen = 0
      BY <2>5 DEF DeleteWorkload, Spec0, ClusterTypeOK
    <3> QED
      BY <2>1, <3>1 DEF Settled, Exists
  <2>6. CASE SyncStatus(w)
    BY <2>6 DEF SyncStatus, Live
  <2>7. ASSUME NEW s \in Slot, CreatePod(w, s) PROVE spec'[w] = spec[w] /\ Live(w) \subseteq Live(w)'
    BY <2>7 DEF CreatePod, Live, NoPod, ClusterTypeOK
  <2>8. ASSUME NEW s \in Slot, DeletePod(w, s) PROVE FALSE
    <3>1. spec' = spec /\ s \in Live(w) /\ Live(w)' = Live(w) \ {s}
      BY <2>8 DEF DeletePod, Live, NoPod, ClusterTypeOK
    <3>2. IsFiniteSet(Live(w))
      BY PodSets DEF Live
    <3>3. Cardinality(Live(w)') = Cardinality(Live(w)) - 1
      BY <3>1, <3>2, FS_RemoveElement
    <3>4. Cardinality(Live(w)') = Cardinality(Live(w)) /\ Cardinality(Live(w)) \in Nat
      BY <2>1, <3>1, <3>2, FS_CardinalityType DEF Settled
    <3> QED
      BY <3>3, <3>4
  <2>9. ASSUME NEW s \in Slot, MovePod(w, s) PROVE spec'[w] = spec[w] /\ Live(w) \subseteq Live(w)'
    BY <2>9 DEF MovePod, Live, ClusterTypeOK
  <2> QED
    BY <1>1, <2>4, <2>5, <2>6, <2>7, <2>8, <2>9
<1> QED
  BY <1>3, <1>5, <1>6 DEF SettledInv

\* A settled item passes both polls, unless it asks for no pods.
LEMMA SettledHealthy ==
    ASSUME TypeOK, NEW w \in Listed, Settled(w), snap[w] = spec[w], snap[w].kind = kind
    PROVE  Healthy(w) /\ (snap[w].replicas # 0 => PodListHealthy(w))
<1>1. /\ w \in Workload /\ kind \in {"deployment", "statefulset"}
      /\ spec[w].gen \in Nat
  BY DEF Listed, TypeOK, CheckTypeOK, ClusterTypeOK, SpecType
<1> DEFINE up == OfRev(w, spec[w].rev)
<1>2. /\ up = Live(w) /\ ReadyPods(w) = Live(w)
      /\ Cardinality(Live(w)) = spec[w].replicas /\ status[w] = Published(w)
  BY DEF Settled
<1>3. /\ status[w].obs = spec[w].gen /\ status[w].replicas = spec[w].replicas
      /\ status[w].updated = spec[w].replicas /\ status[w].available = spec[w].replicas
  BY <1>2 DEF Published
<1>4. spec[w].kind = "statefulset" => status[w].current = spec[w].replicas
  BY <1>2 DEF Published
<1>5. Healthy(w)
  BY <1>1, <1>3, <1>4
  DEF Settled, Healthy, Complete, DeploymentComplete, StatefulSetComplete
<1>6. snap[w].replicas # 0 => Live(w) # {}
  BY <1>2, FS_EmptySet
<1>7. \A s \in Live(w) : pods[w][s].st = "Ready"
  BY <1>2 DEF ReadyPods
<1> QED
  BY <1>5, <1>6, <1>7 DEF PodListHealthy

\* Settledness is a matter of the cluster.
LEMMA StillSettled ==
    ASSUME SettledInv, UNCHANGED clusterVars PROVE SettledInv'
<1> SUFFICES ASSUME NEW w \in Workload \ disturbed' PROVE Settled(w)'
  BY DEF SettledInv
<1>1. /\ UNCHANGED <<spec, pods, status, disturbed>>
  BY DEF clusterVars
<1>2. Live(w)' = Live(w) /\ ReadyPods(w)' = ReadyPods(w)
      /\ \A r : OfRev(w, r)' = OfRev(w, r)
  BY <1>1 DEF Live, ReadyPods, OfRev
<1>3. Published(w)' = Published(w)
  BY <1>1, <1>2 DEF Published, OfRev, Live
<1>4. Settled(w)
  BY <1>1 DEF SettledInv
<1> QED
  BY <1>1, <1>2, <1>3, <1>4 DEF Settled, Exists, OfRev, Live

\* What one round of the listing does to the snapshot.
LEMMA ListedAsSeen ==
    ASSUME TypeOK, ListNamespace, NEW w \in Workload
    PROVE  snap'[w] \in {snap[w], Spec0}
             \/ (snap'[w] = spec[w] /\ spec[w].kind = kind)
<1> DEFINE ns == NsList[nsIdx]
           there == {v \in InNs(ns) : Exists(v) /\ spec[v].kind = kind}
<1>1. \/ UNCHANGED snap
      \/ snap' = [v \in Workload |->
                     IF v \in there THEN spec[v]
                     ELSE IF NsOf[v] = ns THEN Spec0 ELSE snap[v]]
  BY DEF ListNamespace
<1>2. w \in there => spec[w].kind = kind
  OBVIOUS
<1> QED
  BY <1>1, <1>2

\* A step of the framework alone does not make its knowledge stale.
LEMMA CheckStepQuiet ==
    ASSUME AlarmInv, CheckNext, UNCHANGED clusterVars
    PROVE  SnapInv' /\ LogsInv' /\ NothingBadYet'
<1>1. UNCHANGED <<kind, flags>>
  BY DEF CheckNext, ListFails, ListNamespace, StoreDone, Validate, NextNamespace,
         NextItem, Conclude, PollStatus, PollPods, ReadLogs, LogsDone
<1>2. SnapInv'
  <2>1. CASE ListNamespace
    <3>1. \A w \in Workload :
            snap'[w] \in {snap[w], Spec0} \/ (snap'[w] = spec[w] /\ spec[w].kind = kind)
      BY <2>1, ListedAsSeen DEF AlarmInv
    <3> QED
      BY <1>1, <3>1 DEF AlarmInv, SnapInv, Listed, clusterVars, Spec0
  <2>2. CASE UNCHANGED snap
    BY <1>1, <2>2 DEF AlarmInv, SnapInv, Listed, clusterVars
  <2> QED
    BY <2>1, <2>2
    DEF CheckNext, ListFails, StoreDone, Validate, NextNamespace,
        NextItem, Conclude, PollStatus, PollPods, ReadLogs, LogsDone
<1>3. LogsInv'
  <2>1. CASE pc' = "logs"
    <3>1. UNCHANGED cur /\ (podList' = Live(cur) \/ (pc = "logs" /\ podList' \subseteq podList))
      BY <2>1 DEF CheckNext, ListFails, ListNamespace, StoreDone, Validate, NextNamespace,
         NextItem, Conclude, PollStatus, PollPods, ReadLogs, LogsDone, ItemDone, Return
    <3> QED
      BY <3>1 DEF AlarmInv, LogsInv, Live, clusterVars
  <2> QED
    BY <2>1 DEF LogsInv
<1>4. NothingBadYet'
  BY DEF AlarmInv, NothingBadYet, CheckNext, ListFails, ListNamespace, StoreDone, Validate,
         NextNamespace, NextItem, Conclude, PollStatus, PollPods, ReadLogs, LogsDone,
         ItemDone, Return
<1> QED
  BY <1>2, <1>3, <1>4

\* The polls report nothing settled.
LEMMA CheckStepAlarm ==
    ASSUME AlarmInv, CheckNext, UNCHANGED clusterVars
    PROVE  NoFalseAlarm'
<1> SUFFICES ASSUME ~ApiMayFail, flags'.interval < flags'.timeout
             PROVE  /\ badStatus' \subseteq disturbed
                    /\ \A w \in badPods' : w \in disturbed \/ snap'[w].replicas = 0
  BY DEF NoFalseAlarm, clusterVars
<1>1. flags' = flags
  BY DEF CheckNext, ListFails, ListNamespace, StoreDone, Validate, NextNamespace,
         NextItem, Conclude, PollStatus, PollPods, ReadLogs, LogsDone
<1>2. ~PollExpires
  <2>1. flags.interval \in Nat /\ flags.timeout \in Nat
    BY CheckAssumption DEF CheckAssumption, AlarmInv, TypeOK, CheckTypeOK
  <2> QED
    BY <1>1, <2>1 DEF PollExpires
<1>3. /\ badStatus \subseteq disturbed
      /\ \A w \in badPods : w \in disturbed \/ snap[w].replicas = 0
  BY <1>1 DEF AlarmInv, NoFalseAlarm
<1>4. ASSUME pc \in {"status", "pods", "logs"}, cur \notin disturbed
      PROVE  /\ Healthy(cur) /\ (snap[cur].replicas # 0 => PodListHealthy(cur))
  <2>1. cur \in Listed /\ cur \in Workload
    BY <1>4 DEF AlarmInv, WorkInv, CurInv
  <2> QED
    BY <1>4, <2>1, SettledHealthy DEF AlarmInv, SettledInv, SnapInv
<1>5. CASE ListNamespace
  BY <1>5 DEF ListNamespace, AlarmInv, NothingBadYet
<1>6. CASE PollStatus
  BY <1>2, <1>3, <1>4, <1>6 DEF PollStatus
<1>7. CASE PollPods
  BY <1>2, <1>3, <1>4, <1>7 DEF PollPods, ItemDone
<1>8. CASE ReadLogs
  <2>1. PICK s \in podList :
          \/ badPods' = badPods
          \/ pods[cur][s].st = "none" /\ badPods' = badPods \cup {cur}
    BY <1>8 DEF ReadLogs, ItemDone
  <2>2. pods[cur][s].st = "none" => cur \in disturbed
    BY <1>8 DEF ReadLogs, AlarmInv, LogsInv, Live
  <2> QED
    BY <1>3, <1>8, <2>1, <2>2 DEF ReadLogs
<1>9. CASE UNCHANGED <<badStatus, badPods, snap>>
  BY <1>3, <1>9
<1> QED
  BY <1>5, <1>6, <1>7, <1>8, <1>9
  DEF CheckNext, ListFails, StoreDone, Validate, NextNamespace, NextItem, Conclude, LogsDone

\* A check begins with nothing reported, and nothing that it knows is stale.
LEMMA AlarmInit ==
    ASSUME CheckInit, ClusterTypeOK, SettledInv PROVE AlarmInv
<1>1. WorkInv /\ SnapInv /\ LogsInv /\ NothingBadYet /\ NoFalseAlarm
  BY DEF CheckInit, WorkInv, SnapInv, LogsInv, NothingBadYet, NoFalseAlarm,
         Listed, Spec0
<1> QED
  BY <1>1, CheckInitType DEF AlarmInv, TypeOK

LEMMA AlarmStep ==
    ASSUME AlarmInv, [Next]_vars PROVE AlarmInv'
<1>1. CASE CheckNext /\ UNCHANGED clusterVars
  <2>1. TypeOK' /\ CurInv' /\ WorkInv'
    BY <1>1, CheckStepType, CheckStepWork
    DEF AlarmInv, TypeOK, ClusterTypeOK, clusterVars
  <2>2. SettledInv'
    BY <1>1, StillSettled DEF AlarmInv
  <2> QED
    BY <1>1, <2>1, <2>2, CheckStepQuiet, CheckStepAlarm DEF AlarmInv
<1>2. CASE ClusterNext /\ UNCHANGED checkVars
  <2>1. TypeOK' /\ CurInv'
    BY <1>2, ClusterStepType DEF AlarmInv, TypeOK, CheckTypeOK, CurInv, checkVars
  <2>2. /\ SettledInv' /\ disturbed \subseteq disturbed'
        /\ \A v \in Workload \ disturbed' :
               spec'[v] = spec[v] /\ Live(v) \subseteq Live(v)'
    BY <1>2, ClusterStepQuiet DEF AlarmInv, TypeOK
  <2>3. WorkInv' /\ NothingBadYet'
    BY <1>2 DEF AlarmInv, WorkInv, NothingBadYet, Listed, checkVars
  <2>4. SnapInv'
    BY <1>2, <2>2 DEF AlarmInv, SnapInv, Listed, checkVars
  <2>5. LogsInv'
    BY <1>2, <2>2 DEF AlarmInv, LogsInv, CurInv, checkVars
  <2>6. NoFalseAlarm'
    BY <1>2, <2>2 DEF AlarmInv, NoFalseAlarm, checkVars
  <2> QED
    BY <2>1, <2>2, <2>3, <2>4, <2>5, <2>6 DEF AlarmInv
<1>3. CASE UNCHANGED vars
  <2>1. SettledInv'
    BY <1>3, StillSettled DEF AlarmInv, vars
  <2>2. TypeOK' /\ CurInv' /\ WorkInv'
    BY <1>3 DEF vars, clusterVars, checkVars, AlarmInv, TypeOK, ClusterTypeOK,
                CheckTypeOK, CurInv, WorkInv, Listed
  <2>3. SnapInv' /\ LogsInv' /\ NothingBadYet' /\ NoFalseAlarm'
    BY <1>3 DEF vars, clusterVars, checkVars, AlarmInv, SnapInv, Listed, LogsInv, Live,
                NothingBadYet, NoFalseAlarm
  <2> QED
    BY <2>1, <2>2, <2>3 DEF AlarmInv
<1> QED
  BY <1>1, <1>2, <1>3 DEF Next, Exited

\* The framework raises no false alarm, whatever it lists and whenever: what was
\* settled when it was listed and has been so ever since passes both polls.
THEOREM AlarmsAreReal == Spec => []NoFalseAlarm
<1>1. Init => AlarmInv
  <2>1. ClusterInit => SettledInv
    BY DEF ClusterInit, SettledInv
  <2> QED
    BY <2>1, ClusterInitType, AlarmInit DEF Init
<1>2. AlarmInv /\ [Next]_vars => AlarmInv'
  BY AlarmStep
<1>3. AlarmInv => NoFalseAlarm
  BY DEF AlarmInv
<1> QED
  BY <1>1, <1>2, <1>3, PTL DEF Spec

-----------------------------------------------------------------------------
(* CheckDeployments and CheckStatefulSets implement Inspection, for any     *)
(* workloads, any list of namespaces and any flags.                         *)

\* The item at work, which is neither examined nor to do.
AtWork == IF pc \in {"status", "pods", "logs"} THEN {cur} ELSE {}

\* The map by namespace keeps all that was listed, and the loops lose nothing of
\* it: before them nothing is judged, and within them each listed item of a
\* namespace passed is examined, at work or to do.  What ends well had no error.
LoopInv ==
    /\ result = "running" <=> pc # "done"
    /\ pc \in {"store", "validate"} =>
         examined = {} /\ badStatus = {} /\ badPods = {} /\ todo = {}
    /\ todo \cup examined \cup AtWork \subseteq Listed
    /\ Bad \subseteq examined \cup AtWork
    /\ \A w \in Listed : NsOf[w] \in stored
    /\ pc \in {"next", "status", "pods", "logs"} =>
         \A w \in Listed : \A i \in 1..Len(NsList) :
             i < nsIdx /\ NsOf[w] = NsList[i] => w \in examined \cup todo \cup AtWork
    /\ result = "nil" => /\ Bad = {}
                         /\ kind = "statefulset" => examined = Listed

\* Nothing is listed at first.
LEMMA LoopInit == CheckInit => LoopInv
  BY DEF CheckInit, LoopInv, AtWork, Listed, Spec0, Bad

\* What is listed anew is of the kind asked for.
LEMMA ListedKind ==
    ASSUME CheckNext
    PROVE  \A w \in Listed' : w \in Listed \/ spec[w].kind = kind
<1>1. CASE ListNamespace
  <2> DEFINE ns == NsList[nsIdx]
             there == {w \in InNs(ns) : Exists(w) /\ spec[w].kind = kind}
  <2>1. \/ UNCHANGED snap
        \/ snap' = [w \in Workload |->
                       IF w \in there THEN spec[w]
                       ELSE IF NsOf[w] = ns THEN Spec0 ELSE snap[w]]
    BY <1>1 DEF ListNamespace
  <2> QED
    BY <2>1 DEF Listed, Spec0
<1>2. CASE ~ListNamespace
  <2>1. UNCHANGED snap
    BY <1>2 DEF CheckNext, ListFails, StoreDone, Validate, NextNamespace, NextItem,
                Conclude, PollStatus, PollPods, ReadLogs, LogsDone
  <2> QED
    BY <2>1 DEF Listed
<1> QED
  BY <1>1, <1>2

\* A workload keeps its kind while it exists, and comes back with no other.
LEMMA KindStays ==
    ASSUME ClusterTypeOK, ClusterNext, NEW w \in Workload
    PROVE  spec'[w].kind \in {spec[w].kind, "none"}
  BY DEF ClusterNext, ClusterTypeOK, EditSpec, DeleteWorkload, SyncStatus, CreatePod,
         DeletePod, MovePod, Spec0

\* When the loops are through, every listed item has been examined.
LEMMA LoopsAreThrough ==
    ASSUME TypeOK, LoopInv, pc = "next", todo = {}, nsIdx > Len(NsList)
    PROVE  examined = Listed
<1>1. Len(NsList) \in Nat /\ nsIdx \in Nat
  BY CheckAssumption DEF CheckAssumption, TypeOK, CheckTypeOK
<1>2. \A w \in Listed : \E i \in 1..Len(NsList) : i < nsIdx /\ NsOf[w] = NsList[i]
  BY <1>1 DEF LoopInv, TypeOK, CheckTypeOK
<1> QED
  BY <1>2 DEF LoopInv, AtWork

\* Each step of the loops takes one thing from where it was to where it goes.
LEMMA LoopStep ==
    ASSUME TypeOK, CurInv, LoopInv, [Next]_vars PROVE LoopInv'
<1>1. Len(NsList) \in Nat /\ nsIdx \in Nat /\ nsIdx >= 1
  BY CheckAssumption DEF CheckAssumption, TypeOK, CheckTypeOK
<1>2. CASE CheckNext
  <2>1. CASE ListFails
    BY <2>1 DEF ListFails, Return, LoopInv, AtWork, Listed, Bad
  <2>2. CASE ListNamespace
    <3> DEFINE ns == NsList[nsIdx]
               there == {w \in InNs(ns) : Exists(w) /\ spec[w].kind = kind}
    <3>1. /\ pc = "store" /\ nsIdx <= Len(NsList)
          /\ \/ /\ pc' = "done" /\ result' = "nil" /\ UNCHANGED <<snap, stored>>
                /\ kind = "deployment"
             \/ UNCHANGED <<pc, result, snap, stored>>
             \/ /\ UNCHANGED <<pc, result>>
                /\ snap' = [w \in Workload |->
                               IF w \in there THEN spec[w]
                               ELSE IF NsOf[w] = ns THEN Spec0 ELSE snap[w]]
                /\ stored' = stored \cup {ns}
          /\ UNCHANGED <<kind, todo, cur, examined, badStatus, badPods>>
      BY <2>2 DEF ListNamespace, EmptyNamespaceEnds, Return
    <3>2. \A w \in there : NsOf[w] = ns
      BY DEF InNs
    <3> HIDE DEF ns, there
    <3>3. \A w \in Listed' : NsOf[w] \in stored'
      BY <3>1, <3>2 DEF LoopInv, Listed, Spec0
    <3> QED
      BY <3>1, <3>3 DEF LoopInv, AtWork, Bad, Listed
  <2>3. CASE StoreDone
    BY <2>3 DEF StoreDone, Return, LoopInv, AtWork, Listed, Bad
  <2>4. CASE Validate
    BY <2>4 DEF Validate, Return, LoopInv, AtWork, Listed, Bad
  <2>5. CASE NextNamespace
    <3>1. Listed' = Listed
      BY <2>5 DEF NextNamespace, Listed
    <3>2. \A w \in Listed : \A i \in 1..Len(NsList) :
            i < nsIdx + 1 /\ NsOf[w] = NsList[i] => w \in examined \cup todo'
      BY <1>1, <2>5 DEF NextNamespace, LoopInv, AtWork, InNs, Listed
    <3> QED
      BY <2>5, <3>1, <3>2 DEF NextNamespace, LoopInv, AtWork, Bad
  <2>6. CASE NextItem
    BY <2>6 DEF NextItem, LoopInv, AtWork, Listed, Bad
  <2>7. CASE Conclude
    <3>1. examined = Listed
      BY <2>7, LoopsAreThrough DEF Conclude
    <3> QED
      BY <2>7, <3>1 DEF Conclude, Return, ErrorFound, LoopInv, AtWork, Listed, Bad
  <2>8. CASE PollStatus
    BY <2>8 DEF PollStatus, LoopInv, AtWork, Listed, Bad
  <2>9. CASE PollPods
    BY <2>9 DEF PollPods, ItemDone, LoopInv, AtWork, Listed, Bad
  <2>10. CASE ReadLogs
    BY <2>10 DEF ReadLogs, ItemDone, LoopInv, AtWork, Listed, Bad
  <2>11. CASE LogsDone
    BY <2>11 DEF LogsDone, ItemDone, LoopInv, AtWork, Listed, Bad
  <2> QED
    BY <1>2, <2>1, <2>2, <2>3, <2>4, <2>5, <2>6, <2>7, <2>8, <2>9, <2>10, <2>11
       DEF CheckNext
<1>3. CASE UNCHANGED checkVars
  BY <1>3 DEF checkVars, LoopInv, AtWork, Listed, Bad
<1> QED
  BY <1>2, <1>3 DEF Next, Exited, vars

\* Each step of the package is a step of Inspection, or none.
LEMMA PromiseStep ==
    ASSUME TypeOK, CurInv, LoopInv, [Next]_vars
    PROVE  [Promise!Next]_(Promise!vars)
<1> USE DEF Promise!vars
<1>0. Listed \subseteq Workload /\ Listed' \subseteq Workload
  BY DEF Listed
<1>1. CASE CheckNext
  <2>1. CASE ListFails
    <3>1. /\ result = "running" /\ result' = "ErrListing" /\ examined = {}
          /\ UNCHANGED <<kind, snap, examined, badStatus, badPods>>
      BY <2>1 DEF ListFails, Return, LoopInv
    <3> QED
      BY <3>1 DEF Listed, Bad, Promise!Next, Promise!Abort
  <2>2. CASE ListNamespace
    <3>1. /\ result = "running" /\ examined = {}
          /\ UNCHANGED <<kind, examined, badStatus, badPods>>
          /\ \/ kind = "deployment" /\ result' = "nil" /\ UNCHANGED snap
             \/ UNCHANGED result
      BY <2>2 DEF ListNamespace, EmptyNamespaceEnds, Return, LoopInv
    <3> QED
      BY <1>0, <3>1 DEF Listed, Bad, Promise!Next, Promise!Skip, Promise!Find
  <2>3. CASE StoreDone
    <3>1. /\ result = "running" /\ examined = {}
          /\ UNCHANGED <<kind, snap, examined, badStatus, badPods>>
          /\ \/ stored = {} /\ result' = "nil"
             \/ UNCHANGED result
      BY <2>3 DEF StoreDone, Return, LoopInv
    <3>2. stored = {} => Listed = {}
      BY DEF LoopInv
    <3> QED
      BY <3>1, <3>2 DEF Listed, Bad, Promise!Next, Promise!Conclude
  <2>4. CASE Validate
    <3>1. /\ result = "running" /\ examined = {}
          /\ UNCHANGED <<kind, snap, examined, badStatus, badPods>>
          /\ \/ result' = "ErrInvalidInterval"
             \/ UNCHANGED result
      BY <2>4 DEF Validate, Return, LoopInv
    <3> QED
      BY <3>1 DEF Listed, Bad, Promise!Next, Promise!Abort
  <2>5. CASE NextNamespace \/ NextItem
    BY <2>5 DEF NextNamespace, NextItem, Listed, Bad
  <2>6. CASE Conclude
    <3>1. examined = Listed
      BY <2>6, LoopsAreThrough DEF Conclude
    <3>2. /\ result = "running" /\ UNCHANGED <<kind, snap, examined, badStatus, badPods>>
          /\ result' = IF ErrorFound THEN "ErrFailed" ELSE "nil"
      BY <2>6 DEF Conclude, Return, LoopInv
    <3>3. ErrorFound <=> examined \cap Bad # {}
      BY <2>6 DEF Conclude, ErrorFound, Bad, LoopInv, AtWork
    <3> QED
      BY <3>1, <3>2, <3>3 DEF Listed, Bad, Promise!Next, Promise!Conclude
  <2>7. CASE PollStatus \/ PollPods \/ ReadLogs \/ LogsDone
    <3>1. /\ cur \in Workload /\ cur \in Listed /\ result = "running"
          /\ UNCHANGED <<kind, snap, result>>
      BY <2>7 DEF PollStatus, PollPods, ReadLogs, LogsDone, LoopInv, AtWork, CurInv
    <3>2. /\ examined' \in {examined, examined \cup {cur}}
          /\ badStatus' \in {badStatus, badStatus \cup {cur}}
          /\ badPods' \in {badPods, badPods \cup {cur}}
      BY <2>7 DEF PollStatus, PollPods, ReadLogs, LogsDone, ItemDone
    <3>3. Bad \subseteq examined \cup {cur}
      BY <2>7 DEF PollStatus, PollPods, ReadLogs, LogsDone, LoopInv, AtWork
    <3>4. (examined \cap Bad)' \in {examined \cap Bad, (examined \cap Bad) \cup {cur}}
      BY <3>2, <3>3 DEF Bad
    <3>5. CASE examined' = examined /\ cur \notin examined
      BY <3>1, <3>2, <3>5 DEF Bad, Listed
    <3>6. CASE examined' = examined \cup {cur}
      BY <3>1, <3>4, <3>6 DEF Listed, Promise!Next, Promise!Judge
    <3> QED
      BY <3>2, <3>5, <3>6
  <2> QED
    BY <1>1, <2>1, <2>2, <2>3, <2>4, <2>5, <2>6, <2>7 DEF CheckNext
<1>2. CASE UNCHANGED checkVars
  BY <1>2 DEF checkVars, Listed, Bad
<1> QED
  BY <1>1, <1>2 DEF Next, Exited, vars

\* KeepsPromise: the package judges all it lists and returns nil only if nothing
\* had an error; CheckDeployments also at a namespace without deployments.
THEOREM WorkloadsKeepThePromise == Spec => KeepsPromise
<1> DEFINE IInv == TypeOK /\ CurInv /\ LoopInv
<1>1. Init => IInv /\ Promise!Init
  <2>1. CheckInit => Listed = {} /\ examined = {} /\ result = "running"
    BY DEF CheckInit, Listed, Spec0
  <2> QED
    BY <2>1, ClusterInitType, CheckInitType, LoopInit DEF Init, TypeOK, Promise!Init
<1>2. IInv /\ [Next]_vars => IInv'
  <2> SUFFICES ASSUME IInv, [Next]_vars PROVE IInv'
    OBVIOUS
  <2>1. LoopInv'
    BY LoopStep
  <2>2. CASE CheckNext /\ UNCHANGED clusterVars
    BY <2>1, <2>2, CheckStepType DEF TypeOK, ClusterTypeOK, clusterVars
  <2>3. CASE ClusterNext /\ UNCHANGED checkVars
    BY <2>1, <2>3, ClusterStepType DEF TypeOK, CheckTypeOK, CurInv, checkVars
  <2>4. CASE UNCHANGED vars
    BY <2>1, <2>4 DEF vars, clusterVars, checkVars, TypeOK, ClusterTypeOK, CheckTypeOK, CurInv
  <2> QED
    BY <2>2, <2>3, <2>4 DEF Next, Exited
<1>3. IInv /\ [Next]_vars => [Promise!Next]_(Promise!vars)
  BY PromiseStep
<1> QED
  BY <1>1, <1>2, <1>3, PTL DEF Spec, KeepsPromise, Promise!Spec

=============================================================================
