SPECIFICATION ReleaseOnlySpec
CONSTANTS
    Operators = {o1, o2}
    Diagnosers = {p1}
    Callers = {c1}
    EnvironmentHasKey = TRUE
    MaxRevisions = 2
    MaxVersion = 5
    t1 = t1
    t2 = t2
    t3 = t3
    t4 = t4
    Staff = {t1, t2, t3, t4}
    RoleOf <- MCRole
    Creator = t1
    Evidence <- MCEvidence
    Conditions = {"feedback"}
    ClosedNeeds = {}
    InviteNeeds = {"feedback"}
    Window = 1
    EvidenceAge = 0
    RestoreAge = 1
    ObservedDays = 1
    MaxDay = 1
    Nobody = Nobody
    s1 = s1
    s2 = s2
    Symbols <- MCSymbols
    Datasets <- MCDatasets
    Banks = {s2}
    PolicyOk = TRUE
    Configurations = {early}
    DueAt <- MCDueAt
    TooSmall = {}
    Ticks = {}
    Askers = {}
    Editors = {}
    DayLength = 2
    Catchup = 0
    LeaseLength = 1
    Concurrency = 1
    MaxInstant = 0
    MaxAsked = 0
    MaxMishaps = 0
    MaxFollowed = 2
    early = early
    MaxSessions = 2
    late = late
    pe = pe
    roe = roe
    Stocks = {1, 2}
    Criteria = {pe, roe}
    Periods = {1}
    Values = {1, 2}
    Valuations = {pe}
    Queries = {"roe"}
    FiltersOf <- MCFilters
    SortOf <- MCSort
    Screeners = {v1}
    ScreenLease = 1
    MaxEvidence = 2
    MaxObserved = 1
    MaxSnapshots = 1
    MaxScreenTime = 1
    MaxDelistings = 1
    MaxScreenLosses = 0
CHECK_DEADLOCK FALSE
INVARIANT ReleasedAfterObservation
