------------------------ MODULE StoreSharding_proofs ------------------------
(***************************************************************************)
(* Proofs about StoreSharding, for every bound on the replicas and every   *)
(* set of block hashes.                                                    *)
(***************************************************************************)
EXTENDS StoreSharding, FiniteSetTheorems, TLAPS

\* What the history of a pod says of its configuration.
FreshInv ==
    \A o \in fresh :
        /\ phase[o] \notin {"absent", "init"}
        /\ modulus[o] = replicas
        /\ replicas > 0 => phase[o] = "running"

\* Until something is disturbed the pods run in order, and the first of them
\* read the replica count when it was alone.
InstallInv ==
    past # "disturbed" =>
        /\ \A o \in Created : o = 0 \/ phase[0] = "running"
        /\ 0 \in Ordinal /\ phase[0] # "running" => status \leq 1
        /\ 0 \in Ordinal /\ phase[0] = "running" => modulus[0] = 1

ShardInv == TypeOK /\ FreshInv /\ InstallInv

\* There are at most MaxReplicas pods (PublishStatus counts them).
LEMMA CreatedBounded ==
    ASSUME TypeOK
    PROVE  Cardinality(Created) \in 0..MaxReplicas
<1>1. IsFiniteSet(Ordinal) /\ Cardinality(Ordinal) = MaxReplicas
  <2>1. CASE MaxReplicas = 0
    <3>1. Ordinal = {}
      BY <2>1 DEF Ordinal
    <3> QED
      BY <3>1, <2>1, FS_EmptySet
  <2>2. CASE MaxReplicas > 0
    BY <2>2, ShardingAssumption, FS_Interval DEF Ordinal
  <2> QED
    BY <2>1, <2>2, ShardingAssumption
<1>2. IsFiniteSet(Created) /\ Cardinality(Created) \leq MaxReplicas
  BY <1>1, FS_Subset DEF Created
<1>3. Cardinality(Created) \in Nat
  BY <1>2, FS_CardinalityType
<1> QED
  BY <1>2, <1>3, ShardingAssumption

\* A set whose only possible member is the first pod counts at most one.
LEMMA AloneCountsOne ==
    ASSUME Created \subseteq {0}
    PROVE  Cardinality(Created) \leq 1
<1>1. CASE Created = {}
  BY <1>1, FS_EmptySet
<1>2. CASE Created = {0}
  BY <1>2, FS_Singleton
<1> QED
  BY <1>1, <1>2

\* A store without pods satisfies the invariant.
LEMMA InitEstablishes == Init => ShardInv
  BY ShardingAssumption
  DEF Init, ShardInv, TypeOK, FreshInv, InstallInv, Created, Ordinal, Phase

\* Each step keeps the types; the published count is bounded by the ordinals.
LEMMA NextKeepsType == TypeOK /\ [Next]_vars => TypeOK'
<1> SUFFICES ASSUME TypeOK, [Next]_vars
             PROVE  TypeOK'
  OBVIOUS
<1> USE ShardingAssumption
<1>1. ASSUME NEW n \in 0..MaxReplicas, Scale(n)
      PROVE  TypeOK'
  BY <1>1 DEF Scale, TypeOK
<1>2. ASSUME NEW o \in Ordinal, CreatePod(o)
      PROVE  TypeOK'
  BY <1>2 DEF CreatePod, TypeOK, Phase
<1>3. ASSUME NEW o \in Ordinal, RemovePod(o)
      PROVE  TypeOK'
  BY <1>3 DEF RemovePod, TypeOK, Phase
<1>4. ASSUME NEW o \in Ordinal, RunScript(o)
      PROVE  TypeOK'
  BY <1>4 DEF RunScript, ReplicasRead, TypeOK, Phase
<1>5. ASSUME PublishStatus
      PROVE  TypeOK'
  BY <1>5, CreatedBounded DEF PublishStatus, TypeOK
<1>6. CASE UNCHANGED vars
  BY <1>6 DEF vars, TypeOK
<1> QED
  BY <1>1, <1>2, <1>3, <1>4, <1>5, <1>6 DEF Next

\* A fresh pod read the replicas asked for, until they are changed.
LEMMA NextKeepsFresh == TypeOK /\ FreshInv /\ [Next]_vars => FreshInv'
<1> SUFFICES ASSUME TypeOK, FreshInv, [Next]_vars
             PROVE  FreshInv'
  OBVIOUS
<1>1. ASSUME NEW n \in 0..MaxReplicas, Scale(n)
      PROVE  FreshInv'
  BY <1>1 DEF Scale, FreshInv
<1>2. ASSUME NEW o \in Ordinal, CreatePod(o)
      PROVE  FreshInv'
  BY <1>2 DEF CreatePod, TypeOK, FreshInv
<1>3. ASSUME NEW o \in Ordinal, RemovePod(o)
      PROVE  FreshInv'
  BY <1>3 DEF RemovePod, TypeOK, FreshInv
<1>4. ASSUME NEW o \in Ordinal, RunScript(o)
      PROVE  FreshInv'
  BY <1>4 DEF RunScript, TypeOK, FreshInv
<1>5. ASSUME PublishStatus
      PROVE  FreshInv'
  BY <1>5 DEF PublishStatus, FreshInv
<1>6. CASE UNCHANGED vars
  BY <1>6 DEF vars, FreshInv
<1> QED
  BY <1>1, <1>2, <1>3, <1>4, <1>5, <1>6 DEF Next

\* As the pods come in order, the first script reads a count of one.
LEMMA NextKeepsInstall == TypeOK /\ InstallInv /\ [Next]_vars => InstallInv'
<1> SUFFICES ASSUME TypeOK, InstallInv, [Next]_vars
             PROVE  InstallInv'
  OBVIOUS
<1> USE ShardingAssumption
<1>1. ASSUME NEW n \in 0..MaxReplicas, Scale(n)
      PROVE  InstallInv'
  BY <1>1 DEF Scale, TypeOK, InstallInv, Created
<1>2. ASSUME NEW o \in Ordinal, CreatePod(o)
      PROVE  InstallInv'
  <2>1. o = 0 \/ phase[0] = "running"
    BY <1>2 DEF CreatePod, Ordinal
  <2> QED
    BY <1>2, <2>1 DEF CreatePod, TypeOK, InstallInv, Created, Ordinal
<1>3. ASSUME NEW o \in Ordinal, RemovePod(o)
      PROVE  InstallInv'
  BY <1>3 DEF RemovePod, InstallInv
<1>4. ASSUME NEW o \in Ordinal, RunScript(o)
      PROVE  InstallInv'
  BY <1>4 DEF RunScript, ReplicasRead, TypeOK, InstallInv, Created, Ordinal
<1>5. ASSUME PublishStatus
      PROVE  InstallInv'
  <2>1. ASSUME past # "disturbed", phase[0] # "running"
        PROVE  Cardinality(Created) \leq 1
    BY <2>1, AloneCountsOne DEF InstallInv
  <2> QED
    BY <1>5, <2>1 DEF PublishStatus, InstallInv, Created
<1>6. CASE UNCHANGED vars
  BY <1>6 DEF vars, InstallInv, Created
<1> QED
  BY <1>1, <1>2, <1>3, <1>4, <1>5, <1>6 DEF Next

\* Every reachable state satisfies the inductive invariant.
THEOREM ShardingInvariant == Spec => []ShardInv
<1>1. ShardInv /\ [Next]_vars => ShardInv'
  BY NextKeepsType, NextKeepsFresh, NextKeepsInstall DEF ShardInv
<1> QED
  BY InitEstablishes, <1>1, PTL DEF Spec

\* Every state is well typed: what the controller publishes never exceeds the
\* ordinals there are, and no script writes a larger modulus.
THEOREM TypeCorrect == Spec => []TypeOK
<1>1. ShardInv => TypeOK
  BY DEF ShardInv
<1> QED
  BY <1>1, ShardingInvariant, PTL

\* Stores that all read the number of replicas asked for share the blocks out,
\* each to exactly one of them, for every number of stores and every hash.
THEOREM FreshStoresShareOut == Spec => []FreshStoresPartition
<1>1. ShardInv => FreshStoresPartition
  <2> SUFFICES ASSUME ShardInv, replicas > 0, NEW h \in Hash,
                      fresh = 0..(replicas - 1), Created = fresh
               PROVE  \E o \in Created :
                         /\ Keeps(o, h)
                         /\ \A p \in Created : Keeps(p, h) => p = o
    BY DEF FreshStoresPartition
  <2>1. replicas \in Nat /\ h \in Nat
    BY ShardingAssumption DEF ShardInv, TypeOK
  <2>2. h % replicas \in 0..(replicas - 1)
    BY <2>1
  <2>3. \A p \in Created : Keeps(p, h) <=> h % replicas = p
    BY DEF Keeps, ShardInv, FreshInv
  <2> QED
    BY <2>2, <2>3
<1> QED
  BY ShardingInvariant, <1>1, PTL

\* Growing a store from its installation on leaves no block without a store.
THEOREM InstallationServesAll == Spec => []FirstInstallServesAll
<1>1. ShardInv => FirstInstallServesAll
  <2> SUFFICES ASSUME ShardInv, past # "disturbed", NEW h \in Hash,
                      NEW o \in Ordinal, phase[o] = "running"
               PROVE  \E p \in Ordinal : Keeps(p, h)
    BY DEF FirstInstallServesAll
  <2>1. 0 \in Ordinal
    BY ShardingAssumption DEF Ordinal
  <2>2. phase[0] = "running" /\ modulus[0] = 1
    BY <2>1 DEF ShardInv, InstallInv, Created
  <2>3. h % 1 = 0
    BY ShardingAssumption
  <2> QED
    BY <2>1, <2>2, <2>3 DEF Keeps
<1> QED
  BY ShardingInvariant, <1>1, PTL
=============================================================================
