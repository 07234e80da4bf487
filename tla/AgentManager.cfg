CONSTANTS
    a1 = a1
    a2 = a2
    a3 = a3
    m1 = m1
    m2 = m2
    p = p
    op = op
    nan = nan
    Agents <- TheAgents
    Key <- TheKeys
    Parent <- TheParents
    Operator = op
    Depth <- TheDepths
    Provider <- TheModels
    Unreadable = nan
    Rounds = 1
    MaxRuns = 2
    MaxContinued = 1
    MaxChanges = 2
    Configs <- TheConfigs
    Scenarios <- TheScenarios
    Checks = {"c1", "c2"}
    Plans <- ThePlans
    ManagerAnswers <- TheManagerAnswers
    Ledgers <- TheLedgers
    MaxTasks = 3
    MaxRounds = 2
    MaxKills = 1
    System = System
    MaxEntries = 5
    MaxRewinds = 1
    MaxCompactions = 1
SPECIFICATION MCSpec
INVARIANTS
    BooksAreRight
    VouchedFor
    NeverAllWait
    ImportIsFaithful
PROPERTIES
    Admits
    AnswerWaits
    LedgerIsKept
CHECK_DEADLOCK FALSE
