----------------------------- MODULE Inspection -----------------------------
(***************************************************************************)
(* What a package of the integration-test framework promises its caller:   *)
(* it finds objects, judges each of them, and passes exactly when it       *)
(* judged all it found and none had an error.  maySkip weakens the promise *)
(* for the packages that return nil at a namespace without objects,        *)
(* whatever they found in the others.                                      *)
(***************************************************************************)
CONSTANT Item

VARIABLES
    maySkip,    \* fixed: whether the promise is the weak one
    scope,      \* the objects found
    judged,     \* the objects judged
    failed,     \* those judged to have an error
    verdict     \* "none", "pass" or "fail"

vars == <<maySkip, scope, judged, failed, verdict>>

Init == maySkip \in BOOLEAN /\ scope = {} /\ judged = {} /\ failed = {} /\ verdict = "none"

\* A namespace that is named twice is listed twice, and the second list counts.
Find ==
    /\ verdict = "none" /\ judged = {}
    /\ scope' \in SUBSET Item
    /\ UNCHANGED <<maySkip, judged, failed, verdict>>

Judge(i) ==
    /\ verdict = "none" /\ i \in scope
    /\ judged' = judged \cup {i}
    /\ failed' \in {failed, failed \cup {i}}
    /\ UNCHANGED <<maySkip, scope, verdict>>

Conclude ==
    /\ verdict = "none" /\ judged = scope
    /\ verdict' = IF failed = {} THEN "pass" ELSE "fail"
    /\ UNCHANGED <<maySkip, scope, judged, failed>>

\* The objects cannot be looked at: a request or a flag is at fault.
Abort ==
    /\ verdict = "none" /\ judged = {}
    /\ verdict' = "fail"
    /\ UNCHANGED <<maySkip, scope, judged, failed>>

Skip ==
    /\ maySkip /\ verdict = "none" /\ judged = {}
    /\ verdict' = "pass"
    /\ UNCHANGED <<maySkip, scope, judged, failed>>

Next == Find \/ (\E i \in Item : Judge(i)) \/ Conclude \/ Abort \/ Skip

Spec == Init /\ [][Next]_vars

\* The promise in one line: nothing found is passed over.
PassVouches == verdict = "pass" /\ ~maySkip => judged = scope /\ failed = {}
=============================================================================
