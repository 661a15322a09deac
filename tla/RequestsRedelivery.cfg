SPECIFICATION RequestsSpec
CONSTANTS
    Requests = {r1, r2}
    Workers = {w1, w2}
    DailyLimit = 2
    MaxCutoffs = 3
    MaxEditions = 1
    MaxCrashes = 1
    MaxApiLost = 1
    MaxEnqueueFailures = 0
    Comparisons = {q1, q2}
    Builders = {b1, b2}
    CompareLimit = 1
    MaxInputs = 1
    MaxTroubles = 0
    Stocks = {1, 2}
    Generals = {1, 2}
    Callers = {k1, k2}
    BatchSize = 2
    AtFirst <- MCFourGaps
    MaxInterruptions = 1
CHECK_DEADLOCK FALSE
SYMMETRY MCSymmetry
INVARIANT RequestsTypeOK
INVARIANT EveryCallIsPaidFor
INVARIANT ReportIsTrue
PROPERTY UpstreamFirst
