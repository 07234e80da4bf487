CONSTANTS
    MaxTurns = 3
    Scenarios <- TheScenarios
    Upstreams <- TheUpstreams
    Texts = {"none", "x", "p"}
    Profiles = {"p"}
    StopReasons = {"stop", "length", "none"}
    RoleKinds = {"router", "worker"}
    MaxMessages = 2
    MaxTries = 2
    MaxEntries = 2
    Paths <- MCPaths
    Below <- MCBelow
    Ignored = {"d/i"}
    Excluded = {"KEY", "d/__pycache__/a"}
    Sensitive = {"KEY", "SECRET"}
    Scope = {"a"}
    Contents = {"x", "y"}
    Absent = "none"
    Names = {"accepted", "team"}
    Found <- MCFound
    MaxEdits = 2
    MaxOps = 3
    MaxCrashes = 1
SPECIFICATION MCSpec
INVARIANTS
    TurnIsTold
    PromptGrows
    OnceInAnyOrder
    AnswerIsWhole
    SavedComesBack
    DiffIsTheWork
CHECK_DEADLOCK FALSE
