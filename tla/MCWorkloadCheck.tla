-------------------------- MODULE MCWorkloadCheck --------------------------
(* Values of the constants of WorkloadCheck for TLC. *)
EXTENDS WorkloadCheck, TLC

CONSTANTS w1, w2, s1, s2

AnyMix    == [Workload -> {"deployment", "statefulset"}]
InA      == w1 :> "a"
InAAndB  == w1 :> "a" @@ w2 :> "b"
OneNs    == <<"a">>
TwoNs    == <<"a", "", "b", "a">>

Roomy    == {[interval |-> 1, timeout |-> 5]}
AllFlags == {[interval |-> 0, timeout |-> 5], [interval |-> 1, timeout |-> 5],
             [interval |-> 2, timeout |-> 2]}

Symmetry == Permutations({s1, s2})
=============================================================================
