--------------------------- MODULE MCServiceCheck ---------------------------
(* Values of the constants of ServiceCheck for TLC. *)
EXTENDS ServiceCheck, TLC

CONSTANTS w1, v1, v2, s1

\* v1: two ports, the second reached through its own number; v2: no port has
\* the number of its target port, as in a service on 80 for a container on 8080,
\* and its poll, which uses up the timeout, comes first.
AnyMix    == [Workload -> {"deployment", "statefulset"}]
InBAndA   == v1 :> "b" @@ v2 :> "a"
MCPorts   == v1 :> {[name |-> "grpc", port |-> 1, target |-> 2],
                    [name |-> "http", port |-> 3, target |-> 3]}
             @@ v2 :> {[name |-> "http", port |-> 1, target |-> 2]}
MCBacks   == v1 :> w1 @@ v2 :> w1
TwoNs     == <<"a", "", "b">>

Roomy    == {[interval |-> 1, timeout |-> 3]}
AllFlags == {[interval |-> 0, timeout |-> 5], [interval |-> 1, timeout |-> 3],
             [interval |-> 2, timeout |-> 2], [interval |-> 3, timeout |-> 2]}
=============================================================================
