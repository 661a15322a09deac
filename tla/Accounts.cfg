SPECIFICATION AccountsSpec
CONSTANTS
    Recipients = {r1, r2}
    Direct = {d1}
    Registrars = {g1, g2}
    Controlled = TRUE
    MaxUsers = 2
    None = None
    c1 = c1
    c2 = c2
    c3 = c3
    Codes = {c1, c2, c3}
    Holders = {h1}
    HolderOf <- MCHolder
    TermOf <- MCTerm
    Cycle = 2
    MonthLength <- MCLength
    YearMonths = 2
    LastDay = 34
    Activations = {p1, p2}
    Never = Never
    Mails = {m1}
    Mailers = {w1, w2}
    MaxRetries = 1
    MaxMailTime = 2
    MaxLosses = 1
    NoMail = NoMail
    Configurations = {early}
    DueAt <- MCDueAt
    TooSmall = {}
    Ticks = {t1}
    Askers = {a1}
    Editors = {}
    DayLength = 3
    Catchup = 0
    LeaseLength = 1
    Concurrency = 1
    MaxInstant = 2
    MaxAsked = 2
    MaxMishaps = 1
    MaxFollowed = 2
    early = early
CHECK_DEADLOCK FALSE
INVARIANT AccountsTypeOK
INVARIANT CapacityHolds
INVARIANT OneAccountPerInvite
INVARIANT FailedIsNoMember
INVARIANT PaidDaysAreEnabled
PROPERTY ClosedAdmitsNobody
PROPERTY EveryMailEnds
PROPERTY PendingIsTaken
