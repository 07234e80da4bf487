--------------------------- MODULE MCCaptureTape ---------------------------
\* CaptureTape with conversations across a restart, streamed answers, and the cap with a write
\* that fails.
EXTENDS CaptureTape

TheScenarios ==
    {[cap |-> 9, requests |-> 4, ends |-> 0, failures |-> 0, streams |-> FALSE],
     [cap |-> 9, requests |-> 3, ends |-> 1, failures |-> 0, streams |-> FALSE],
     [cap |-> 9, requests |-> 2, ends |-> 1, failures |-> 0, streams |-> TRUE],
     [cap |-> 3, requests |-> 2, ends |-> 2, failures |-> 1, streams |-> FALSE]}

AnyClient == Permutations(Clients)
=============================================================================
