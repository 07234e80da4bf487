CONSTANTS
    System = System
    Clients = {c1, c2}
    MaxRequests = 4
    Scenarios <- TheScenarios
SYMMETRY AnyClient
SPECIFICATION Spec
INVARIANTS
    OnlyUnparseableSkipped
CHECK_DEADLOCK FALSE
