SPECIFICATION AutomationSpec
CONSTANTS
    Workers = {w1, w2}
    StepCount = 2
    Stage <- MCStage2
    AiSteps = {2}
    LeaseTicks = 1
    Timely = FALSE
    Watchlist = TRUE
    MaxClaims = 2
    MaxCrashes = 0
    MaxResumes = 1
    info = info
    important = important
    newer = newer
    Sources = {info, important}
    Group <- MCGroup
    Attention <- MCAttention
    Id <- MCId
    Users = {u1}
    Sessions = {p1, p2}
    Window = 0
    PageSize = 1
    MaxTime = 1
    None = None
    pe = pe
    Stocks = {1, 2}
    Criteria = {pe}
    Periods = {1, 2}
    Values = {1, 2}
    Valuations = {}
    Queries = {"range"}
    FiltersOf <- MCFilters
    SortOf <- MCSort
    Screeners = {v1, v2}
    ScreenLease = 1
    MaxEvidence = 2
    MaxObserved = 0
    MaxSnapshots = 1
    MaxScreenTime = 2
    MaxDelistings = 0
    MaxScreenLosses = 1
    Syncs = {y1, y2}
    FirstSync = y1
    Builders = {b1, b2}
    MaxRevision = 1
    MaxValue = 2
    MaxMoment = 3
    MaxFactLosses = 1
CHECK_DEADLOCK FALSE
SYMMETRY MCPairs
INVARIANT AutomationTypeOK
INVARIANT AttemptLedger
INVARIANT SteadyWatcherIsAlerted
INVARIANT StatementsArePointInTime
INVARIANT AnsweredIsQueued
INVARIANT SyncedIsShown
INVARIANT BuiltIsShown
PROPERTY AttemptsAreHistory
