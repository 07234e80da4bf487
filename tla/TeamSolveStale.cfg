CONSTANTS
    found = found
    t1 = t1
    t2 = t2
    none = none
    Trees <- MCTrees
    Base <- found
    NoTree <- none
    MaxRounds = 2
    MaxResumes = 1
SPECIFICATION Spec
PROPERTIES
    EndsOnAccepted
CHECK_DEADLOCK FALSE
