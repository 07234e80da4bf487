CONSTANTS
    found = found
    t1 = t1
    t2 = t2
    none = none
    Trees <- MCTrees
    Base <- found
    NoTree <- none
    MaxRounds = 3
    MaxResumes = 0
SPECIFICATION FairSpec
PROPERTIES
    KeepNetLosesNothing
    PromiseKept
    RunEnds
CHECK_DEADLOCK FALSE
