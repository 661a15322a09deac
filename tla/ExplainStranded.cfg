SPECIFICATION FairRequestsSpec
CONSTANTS
    Requests = {r1}
    Workers = {w1}
    DailyLimit = 1
    MaxCutoffs = 1
    MaxEditions = 0
    MaxCrashes = 1
    MaxApiLost = 0
    MaxEnqueueFailures = 0
    Comparisons = {}
    Builders = {}
    CompareLimit = 0
    MaxInputs = 1
    MaxTroubles = 0
    Stocks = {}
    Generals = {}
    Callers = {}
    BatchSize = 1
    AtFirst <- MCComplete
    MaxInterruptions = 0
CHECK_DEADLOCK FALSE
PROPERTY RequestSettles
