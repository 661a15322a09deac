SPECIFICATION FairRequestsSpec
CONSTANTS
    Requests = {r1}
    Workers = {w1, w2}
    DailyLimit = 2
    MaxCutoffs = 2
    MaxEditions = 1
    MaxCrashes = 0
    MaxApiLost = 0
    MaxEnqueueFailures = 1
    Comparisons = {q1}
    Builders = {b1, b2}
    CompareLimit = 2
    MaxInputs = 2
    MaxTroubles = 1
    Stocks = {1}
    Generals = {1}
    Callers = {k1, k2}
    BatchSize = 1
    AtFirst <- MCOneGap
    MaxInterruptions = 1
CHECK_DEADLOCK FALSE
INVARIANT QuotaMatchesRuns
INVARIANT AnswersAreThere
PROPERTY EveryRequestSettles
