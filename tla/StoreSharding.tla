--------------------------- MODULE StoreSharding ---------------------------
(***************************************************************************)
(* Auto-sharding of a Thanos store StatefulSet, as makeStore generates it. *)
(* The init container of each pod runs a script that reads the             *)
(* StatefulSet's .status.replicas once and writes a relabelling            *)
(* configuration to a volume that lives as long as the pod: the store      *)
(* loads the blocks whose hash modulo that number is the pod's ordinal.    *)
(* The generated StatefulSet sets no podManagementPolicy, so its pods are  *)
(* created one at a time, each when those before it run.                   *)
(***************************************************************************)
EXTENDS Integers, FiniteSets

CONSTANTS
    MaxReplicas,     \* bound on the replicas of the StatefulSet
    Hash             \* the hashes of the block identifiers

ASSUME ShardingAssumption == MaxReplicas \in Nat /\ Hash \subseteq Nat

VARIABLES
    replicas,        \* .spec.replicas
    status,          \* .status.replicas, published by the controller
    phase,           \* what the pod of each ordinal does
    modulus,         \* the modulus in the configuration of each pod
    fresh,           \* history: the pods whose script read the number of
                     \* replicas asked for, since that number last changed
    past             \* history: "installed", then "grown" by a scale-up, then
                     \* "disturbed" by a removed pod or a scale-down

vars == <<replicas, status, phase, modulus, fresh, past>>

Ordinal == 0..(MaxReplicas - 1)
Phase   == {"absent", "init", "running", "crashing"}
Created == {o \in Ordinal : phase[o] # "absent"}

TypeOK ==
    /\ replicas \in 0..MaxReplicas
    /\ status \in 0..MaxReplicas
    /\ phase \in [Ordinal -> Phase]
    /\ modulus \in [Ordinal -> 0..MaxReplicas]
    /\ fresh \subseteq Ordinal
    /\ past \in {"installed", "grown", "disturbed"}

Init ==
    /\ replicas \in 0..MaxReplicas
    /\ status = 0
    /\ phase = [o \in Ordinal |-> "absent"]
    /\ modulus = [o \in Ordinal |-> 0]
    /\ fresh = {}
    /\ past = "installed"

-----------------------------------------------------------------------------
(* The StatefulSet, its controller and its operators.                       *)

Scale(n) ==
    /\ n # replicas
    /\ replicas' = n
    /\ fresh' = {}
    /\ past' = IF n > replicas /\ past # "disturbed" THEN "grown"
                                                    ELSE "disturbed"
    /\ UNCHANGED <<status, phase, modulus>>

CreatePod(o) ==
    /\ o < replicas
    /\ phase[o] = "absent"
    /\ \A p \in Ordinal : p < o => phase[p] = "running"
    /\ phase' = [phase EXCEPT ![o] = "init"]
    /\ UNCHANGED <<replicas, status, modulus, fresh, past>>

\* A scale-down, a rolling update, an eviction or a deletion by hand.
RemovePod(o) ==
    /\ phase[o] # "absent"
    /\ phase' = [phase EXCEPT ![o] = "absent"]
    /\ modulus' = [modulus EXCEPT ![o] = 0]
    /\ fresh' = fresh \ {o}
    /\ past' = "disturbed"
    /\ UNCHANGED <<replicas, status>>

PublishStatus ==
    /\ status' = Cardinality(Created)
    /\ UNCHANGED <<replicas, phase, modulus, fresh, past>>

-----------------------------------------------------------------------------
(* The script of the init container, and the store that reads its output.   *)

\* THANOS_STORE_REPLICAS.  The script runs without -e: when oc fails the
\* modulus is left empty, which reads as 0.  Mutants: the script asks for
\* .spec.replicas; it takes the highest ordinal for the number of replicas.
SpecReplicasRead == {replicas, 0}
HighestOrdinalRead == {status - 1, 0}
ReplicasRead == {status, 0}

\* A modulus of 0 is refused by the store, which then restarts on the same
\* volume: the script does not run again until the pod is replaced.
RunScript(o) ==
    \E r \in ReplicasRead :
        /\ phase[o] = "init"
        /\ phase' = [phase EXCEPT ![o] = IF r = 0 THEN "crashing"
                                                 ELSE "running"]
        /\ modulus' = [modulus EXCEPT ![o] = r]
        /\ fresh' = IF r = replicas THEN fresh \cup {o} ELSE fresh
        /\ UNCHANGED <<replicas, status, past>>

\* The hashmod and keep actions of the relabelling configuration.
\* Mutant: ordinals are matched as if they started at one.
KeepsFromOne(o, h) == phase[o] = "running" /\ h % modulus[o] = o + 1
Keeps(o, h) == phase[o] = "running" /\ h % modulus[o] = o

Next ==
    \/ \E n \in 0..MaxReplicas : Scale(n)
    \/ \E o \in Ordinal : CreatePod(o) \/ RemovePod(o) \/ RunScript(o)
    \/ PublishStatus

Spec == Init /\ [][Next]_vars

-----------------------------------------------------------------------------
\* Once every pod there should be has run the script when it read the number of
\* replicas asked for, each block is kept by exactly one store: a full
\* rollout repairs whatever scaling did (script lines 6-24).
FreshStoresPartition ==
    fresh = 0..(replicas - 1) /\ Created = fresh /\ replicas > 0
    => \A h \in Hash : \E o \in Created :
          /\ Keeps(o, h)
          /\ \A p \in Created : Keeps(p, h) => p = o

\* From the installation to the first replaced pod or scale-down, growing the
\* set included, no block is without a store once the first pod runs.
FirstInstallServesAll ==
    past # "disturbed" /\ (\E o \in Ordinal : phase[o] = "running")
    => \A h \in Hash : \E o \in Ordinal : Keeps(o, h)
=============================================================================
