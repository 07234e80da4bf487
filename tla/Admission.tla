------------------------------ MODULE Admission ------------------------------
(***************************************************************************)
(* What the concurrency limits promise: whoever starts to run does so in a *)
(* place with room for it.  Places and room may change at any time, and    *)
(* nobody who runs is stopped for it.                                      *)
(***************************************************************************)
EXTENDS Naturals, FiniteSets

VARIABLES
    inside,  \* who runs
    place,   \* the place of each
    room     \* how many may run in the place of each

Crowd(a, who, where) == {b \in who : where[b] = where[a]}

Init == inside = {}
Step == \A a \in inside' \ inside : Cardinality(Crowd(a, inside', place')) <= room'[a]

Spec == Init /\ [][Step]_<<inside, place, room>>
=============================================================================
