CONSTANTS
    Procs = {p1, p2}
    Nobody = Nobody
    MaxRuns = 2
    MaxCrashes = 1
    LateErrors = TRUE
SPECIFICATION FairSpec
PROPERTIES
    AllEnd
CHECK_DEADLOCK FALSE
