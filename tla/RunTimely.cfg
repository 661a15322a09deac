SPECIFICATION PipelineSpec
CONSTANTS
    Workers = {w1, w2}
    StepCount = 3
    Stage <- MCStage
    AiSteps = {3}
    LeaseTicks = 2
    Timely = TRUE
    Watchlist = FALSE
    MaxClaims = 12
    MaxCrashes = 1
    MaxResumes = 1
    Texts = {x1, x2, x3}
    Advice = {x2, x3}
    Names = {n1, n2, n3}
    Pages = {g1, g2}
    Parsers = {p1, p2}
    ParsesDaily = 1
    ParsesAtOnce = 1
    SavedLimit = 1
    ParseLease = 1
    TextLife = 1
    ChainLength = 2
    MaxRequests = 3
    MaxParseTime = 2
    MaxParseLosses = 1
    NoText = NoText
    Writers = {h1, h2}
    Shapes = {s1, s2}
    HealthLease = 1
    HealthChain = 2
    MaxSnapshots = 1
    MaxOrders = 3
    MaxHealthTime = 3
    MaxHealthLosses = 2
    NoShape = NoShape
CHECK_DEADLOCK FALSE
INVARIANT PipelineTypeOK
INVARIANT VerdictMatchesSteps
INVARIANT AcceptedIsOnItsWay
INVARIANT OneWriterAtATime
INVARIANT SucceededHasOneDocument
PROPERTY SucceededStepIsNotRepeated
PROPERTY RunSettles
PROPERTY HealthIsOrderly
PROPERTY ParsesAreOrderly
