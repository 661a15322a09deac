SPECIFICATION RunAloneSpec
CONSTANTS
    Workers = {w1, w2}
    StepCount = 2
    Stage <- MCStage2
    AiSteps = {2}
    LeaseTicks = 2
    Timely = TRUE
    Watchlist = FALSE
    MaxClaims = 2
    MaxCrashes = 1
    MaxResumes = 0
    info = info
    important = important
    newer = newer
    Sources = {info}
    Group <- MCGroup
    Attention <- MCAttention
    Id <- MCId
    Users = {u1}
    Sessions = {p1}
    Window = 0
    PageSize = 1
    MaxTime = 0
    None = None
    pe = pe
    Stocks = {1, 2}
    Criteria = {pe}
    Periods = {1, 2}
    Values = {1, 2}
    Valuations = {}
    Queries = {"range"}
    FiltersOf <- MCFilters
    SortOf <- MCSort
    Screeners = {v1}
    ScreenLease = 1
    MaxEvidence = 0
    MaxObserved = 0
    MaxSnapshots = 1
    MaxScreenTime = 0
    MaxDelistings = 0
    MaxScreenLosses = 0
    Syncs = {y1}
    FirstSync = y1
    Builders = {b1}
    MaxRevision = 1
    MaxValue = 1
    MaxMoment = 1
    MaxFactLosses = 1
CHECK_DEADLOCK FALSE
INVARIANT TerminalRunHasNoOpenStep
