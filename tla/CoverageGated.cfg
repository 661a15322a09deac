SPECIFICATION BackfillAloneSpec
CONSTANTS
    Requests = {}
    Workers = {}
    DailyLimit = 1
    MaxCutoffs = 1
    MaxEditions = 0
    MaxCrashes = 0
    MaxApiLost = 0
    MaxEnqueueFailures = 0
    Comparisons = {}
    Builders = {}
    CompareLimit = 0
    MaxInputs = 1
    MaxTroubles = 0
    Stocks = {1}
    Generals = {1}
    Callers = {k1}
    BatchSize = 2
    AtFirst <- MCOneGap
    MaxInterruptions = 0
CHECK_DEADLOCK FALSE
INVARIANT SourcesAreGated
