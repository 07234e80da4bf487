CONSTANTS
    Procs = {p1, p2, p3}
    Nobody = Nobody
    MaxRuns = 2
    MaxCrashes = 2
    LateErrors = FALSE
    AnswerVersions = {1, 2}
    CheckStatuses = {"pass", "fail", "none"}
    MaxRounds = 2
    MaxSittings = 2
    MaxChanges = 2
    Versions = {"v1", "v2", "v3"}
    Damaged = "bad"
    Size <- TheSize
    NoFile = NoFile
    Unlisted = Unlisted
    Volumes <- TheVolumes
    Envs <- TheEnvs
    MaxDownloads = 2
    MaxReplaced = 1
    MaxAttempts = 2
SYMMETRY Invocations
SPECIFICATION MCSpec
INVARIANTS
    RunIsItsOwn
    DownloadIsSafe
PROPERTIES
    VerdictStands
    ReuseIsCurrent
CHECK_DEADLOCK FALSE
