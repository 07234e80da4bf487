----------------------------- MODULE ProvenWork -----------------------------
(***************************************************************************)
(* What a team-solve run promises about the workspace, whatever its roles  *)
(* answer: work changes while the run is open, some of it is proven, and   *)
(* the run closes only on the work it last proved.                         *)
(***************************************************************************)
CONSTANTS Trees, Base, NoTree

VARIABLES
    work,       \* the workspace
    proven,     \* the last work the check, the review or the judge accepted
    verdict     \* "open", then how the run ended

vars == <<work, proven, verdict>>

Init == work = Base /\ proven = NoTree /\ verdict = "open"

Change == verdict = "open" /\ work' \in Trees /\ UNCHANGED <<proven, verdict>>

Prove == verdict = "open" /\ work # Base /\ proven' = work /\ UNCHANGED <<work, verdict>>

\* A run is solved on proven work, or when there was nothing to do.
Solve ==
    /\ verdict = "open"
    /\ proven = work \/ (proven = NoTree /\ work = Base)
    /\ verdict' = "solved" /\ UNCHANGED <<work, proven>>

\* It fails on the best it has: never on something less proven.
GiveUp ==
    /\ verdict = "open" /\ (proven # NoTree => work = proven)
    /\ verdict' = "failed" /\ UNCHANGED <<work, proven>>

\* An interruption promises nothing.
Interrupt ==
    /\ verdict = "open" /\ verdict' \in {"error", "stopped"} /\ UNCHANGED <<work, proven>>

Next == Change \/ Prove \/ Solve \/ GiveUp \/ Interrupt

Spec == Init /\ [][Next]_vars
=============================================================================
