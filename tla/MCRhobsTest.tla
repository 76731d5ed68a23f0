---------------------------- MODULE MCRhobsTest ----------------------------
(* Values of the constants of RhobsTest for TLC. *)
EXTENDS RhobsTest, TLC

CONSTANTS d1, t1, v1, s1

OneOfEach == {d1 :> "deployment" @@ t1 :> "statefulset"}
JustD     == {d1 :> "deployment"}
AllInA    == d1 :> "a" @@ t1 :> "a"
InAAndB   == d1 :> "a" @@ t1 :> "b"
SvcInA    == v1 :> "a"
MCPorts   == v1 :> {[name |-> "http", port |-> 1, target |-> 1]}
MCBacks   == v1 :> d1
OfNothing == <<>>      \* the function over no service at all
OneNs     == <<"a">>
TwoNs     == <<"a", "b">>
Roomy     == {[interval |-> 1, timeout |-> 2]}
=============================================================================
