------------------------------ MODULE Cluster ------------------------------
(***************************************************************************)
(* The part of a Kubernetes cluster that tests/integration_tests/framework *)
(* observes: the specs of deployments and statefulsets, their pods, and    *)
(* the status their controllers publish.  Kubernetes is not in this        *)
(* repository; it is modelled from the fields the framework reads (see     *)
(* checkDeploymentStatus, checkStatefulSetStatus and checkPodHealth) and   *)
(* moves independently of the framework, between any two of its requests.  *)
(***************************************************************************)
EXTENDS Integers, FiniteSets

CONSTANTS
    Workload,      \* the deployments and statefulsets of the cluster
    Mix,           \* which of the two each of them is: the cases considered
    Slot,          \* pod names a workload can use
    MaxGen,        \* bound on the edits of a workload's spec
    Replicas       \* the replicas a spec may ask for

ASSUME ClusterAssumption ==
    /\ Mix \subseteq [Workload -> {"deployment", "statefulset"}]
    /\ IsFiniteSet(Slot)
    /\ MaxGen \in Nat \ {0}
    /\ Replicas \subseteq Nat

VARIABLES
    spec,       \* .gen = 0: the object does not exist
    pods,       \* the pods each workload owns, by name
    status,     \* the status subresource, written by the controller only
    rolled,     \* history: the rollouts that were complete at some moment
    disturbed   \* history: the workloads that were not settled at some moment

clusterVars == <<spec, pods, status, rolled, disturbed>>

-----------------------------------------------------------------------------
\* What the framework tells apart: a pod it rejects ("Unfit": in any phase but
\* Running, or with a container that has restarted, waits and was terminated),
\* and one it takes, which is ready or not.
Spec0   == [kind |-> "none", gen |-> 0, rev |-> 0, replicas |-> 0]
NoPod   == [rev |-> 0, st |-> "none"]
PodState == {"none", "Unfit", "Running", "Ready"}

SpecType   == [kind : {"none", "deployment", "statefulset"},
               gen : Nat, rev : Nat, replicas : Replicas \cup {0}]
PodType    == [rev : Nat, st : PodState]
StatusType == [obs : Nat, replicas : Nat, updated : Nat, available : Nat,
               current : Nat, currentRev : Nat]

ClusterTypeOK ==
    /\ spec \in [Workload -> SpecType]
    /\ pods \in [Workload -> [Slot -> PodType]]
    /\ status \in [Workload -> StatusType]
    /\ rolled \in [Workload -> SUBSET [gen : Nat, n : Nat, ready : BOOLEAN]]
    /\ disturbed \subseteq Workload

Exists(w)  == spec[w].gen > 0
Live(w)    == {s \in Slot : pods[w][s].st # "none"}
OfRev(w,r) == {s \in Live(w) : pods[w][s].rev = r}
ReadyPods(w) == {s \in Live(w) : pods[w][s].st = "Ready"}

\* The pods of w are all of its current template: the rollout of spec[w].gen
\* is complete at this number of pods (and they may or may not be ready).
\* Numbers no spec can ask for are not worth remembering.
RolledNow(w) ==
    {r \in {[gen |-> spec[w].gen, n |-> Cardinality(Live(w)),
             ready |-> ReadyPods(w) = Live(w)]} :
        /\ Exists(w) /\ OfRev(w, spec[w].rev) = Live(w)
        /\ Cardinality(Live(w)) \in Replicas \cup {0}}

\* What the controller writes: counts of the pods it sees, and for a
\* statefulset the revision that counts as current, which moves to the update
\* revision when the rolling update is complete (a deployment has no such
\* fields; they keep their first value).
Published(w) ==
    LET up  == OfRev(w, spec[w].rev)
        all == /\ up = Live(w) /\ ReadyPods(w) = Live(w)
               /\ Cardinality(up) = spec[w].replicas
        cr  == IF spec[w].kind = "statefulset" /\ all THEN spec[w].rev
                                                   ELSE status[w].currentRev
    IN  [obs |-> spec[w].gen, replicas |-> Cardinality(Live(w)),
         updated |-> Cardinality(up), available |-> Cardinality(ReadyPods(w)),
         current |-> IF spec[w].kind = "statefulset"
                     THEN Cardinality(OfRev(w, cr)) ELSE 0,
         currentRev |-> cr]

\* Nothing is left to do for w: every pod runs the newest template and is
\* ready, there are as many as asked for, and the status says so.
Settled(w) ==
    /\ Exists(w)
    /\ OfRev(w, spec[w].rev) = Live(w)
    /\ ReadyPods(w) = Live(w)
    /\ Cardinality(Live(w)) = spec[w].replicas
    /\ status[w] = Published(w)

Remember(w) ==
    /\ rolled' = [rolled EXCEPT ![w] = @ \cup RolledNow(w)']
    /\ disturbed' = IF Settled(w)' THEN disturbed ELSE disturbed \cup {w}

-----------------------------------------------------------------------------
\* A workload is absent, just applied, or rolled out by the time a run starts.
FreshStatus == [obs |-> 0, replicas |-> 0, updated |-> 0, available |-> 0,
                current |-> 0, currentRev |-> 1]

ClusterInit ==
    /\ \E k \in Mix, n \in [Workload -> Replicas], there \in SUBSET Workload :
          spec = [w \in Workload |->
                    IF w \in there
                    THEN [kind |-> k[w], gen |-> 1, rev |-> 1, replicas |-> n[w]]
                    ELSE Spec0]
    /\ pods \in [Workload -> [Slot -> {NoPod, [rev |-> 1, st |-> "Ready"]}]]
    /\ \A w \in Workload : Cardinality(Live(w)) \in {0, spec[w].replicas}
    /\ status = [w \in Workload |->
         LET n == Cardinality(Live(w))
         IN  IF n = 0 THEN FreshStatus
             ELSE [obs |-> 1, replicas |-> n, updated |-> n, available |-> n,
                   current |-> IF spec[w].kind = "statefulset" THEN n ELSE 0,
                   currentRev |-> 1]]
    /\ rolled = [w \in Workload |-> RolledNow(w)]
    /\ disturbed = {w \in Workload : ~Settled(w)}

\* kubectl apply, scale or edit: every change of the spec bumps the generation,
\* only one of the template changes the revision of the pods.
EditSpec(w) ==
    /\ Exists(w) /\ spec[w].gen < MaxGen
    /\ \E n \in Replicas, r \in {spec[w].rev, spec[w].gen + 1} :
          spec' = [spec EXCEPT ![w] =
                     [kind |-> @.kind, gen |-> @.gen + 1, rev |-> r,
                      replicas |-> n]]
    /\ UNCHANGED <<pods, status>>
    /\ Remember(w)

DeleteWorkload(w) ==
    /\ Exists(w)
    /\ spec' = [spec EXCEPT ![w] = Spec0]
    /\ pods' = [pods EXCEPT ![w] = [s \in Slot |-> NoPod]]
    /\ UNCHANGED status
    /\ Remember(w)

CreatePod(w, s) ==
    /\ Exists(w) /\ pods[w][s] = NoPod
    /\ Cardinality(OfRev(w, spec[w].rev)) < spec[w].replicas
    /\ pods' = [pods EXCEPT ![w][s] = [rev |-> spec[w].rev, st |-> "Unfit"]]
    /\ UNCHANGED <<spec, status>>
    /\ Remember(w)

\* Rolling update, scale-down, eviction or node loss.
DeletePod(w, s) ==
    /\ pods[w][s].st # "none"
    /\ pods' = [pods EXCEPT ![w][s] = NoPod]
    /\ UNCHANGED <<spec, status>>
    /\ Remember(w)

MovePod(w, s) ==
    /\ \E m \in {<<"Unfit", "Running">>, <<"Running", "Ready">>,
                 <<"Ready", "Running">>, <<"Running", "Unfit">>} :
          /\ pods[w][s].st = m[1]
          /\ pods' = [pods EXCEPT ![w][s] = [rev |-> @.rev, st |-> m[2]]]
    /\ UNCHANGED <<spec, status>>
    /\ Remember(w)

SyncStatus(w) ==
    /\ Exists(w)
    /\ status' = [status EXCEPT ![w] = Published(w)]
    /\ UNCHANGED <<spec, pods>>
    /\ Remember(w)

ClusterNext ==
    \E w \in Workload :
        \/ EditSpec(w) \/ DeleteWorkload(w) \/ SyncStatus(w)
        \/ \E s \in Slot : CreatePod(w, s) \/ DeletePod(w, s) \/ MovePod(w, s)
=============================================================================
