CONSTANTS
    Kinds = {"up", "down", "restart", "reap"}
    MaxSups = 2
    MaxCommands = 2
    MaxFaults = 1
    MaxRestarts = 2
    Strikes = 2
    Hangs = TRUE
SPECIFICATION FairSpec
INVARIANTS
    StopStops
    ChromeOwned
PROPERTIES
    Recovers
CHECK_DEADLOCK FALSE
