SPECIFICATION MCSpec
CONSTANTS
  Arms = {1, 2}
  Setups <- TheSetups
  Options <- TheOptions
  Repeat = 2
  MaxFaults = 1
  Checks <- TheChecks
  Outcomes = {"ok", "failed", "error", "both"}
  Configs = {1, 2}
  Rounds = {1, 2}
  Rows <- TheRows
  Loads <- TheLoads
  NoLoad = 1000
  LoadMax = 8
  LoadRatio = 25
  Level = 20
  MaxFailed = 1
  GgufFiles <- TheFiles
  DefaultAlignment = 4
  Ngls = {0, 1, 2, 3, 9}
  Contexts = {0, 2}
  Budgets = {0, 1, 2, 3}
  Mib = 4
  System = System
  Clients = {c1, c2}
  MaxRequests = 4
  Scenarios <- TheScenarios
  Answers <- TheAnswers
SYMMETRY AnyClient
INVARIANTS
  ArmIsMeasured
  PassAddsNoFailure
  VerdictIsSound
  PreflightCovers
  TapeIsTrue
  Workstreams
  StreamedAsWhole
CHECK_DEADLOCK FALSE
