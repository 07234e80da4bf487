----------------------------- MODULE MCTeamSolve -----------------------------
\* TeamSolve on three workspaces (the start and two changes).
EXTENDS TeamSolve, TLC
CONSTANTS found, t1, t2, none

MCTrees == {found, t1, t2}
Changes == Permutations({t1, t2})
=============================================================================
