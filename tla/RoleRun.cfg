CONSTANTS
    MaxAttempts = 2
    MaxCrashes = 1
    Scenarios <- FewAttempts
SPECIFICATION FairSpec
INVARIANTS
    Findable
    PhaseEndsWell
PROPERTIES
    ReusedIsClean
    InterruptEnds
CHECK_DEADLOCK FALSE
