CONSTANTS
    Kinds = {"up", "down", "restart"}
    MaxSups = 2
    MaxCommands = 1
    MaxFaults = 1
    MaxRestarts = 2
    Strikes = 2
    Hangs = FALSE
SPECIFICATION Spec
INVARIANTS
    StopEndsServer
CHECK_DEADLOCK FALSE
