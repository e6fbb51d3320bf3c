SPECIFICATION Spec
CONSTANTS
    None = None
    Sessions <- MCSessions
    Asked <- MCAsked
    MaxHead = 6
    MaxForks = 1
    MaxClock = 3
    Depth = 1
    Behind = 1
    FastTtl = 2
    SlowTtl = 3
    MaxRowBatch = 2
    SnapshotLag = 1
    MaxFaults = 1
    MinOpeningMargin = 1
    TickSpacing = 2
    Calls <- MCCalls
    Theirs <- MCTheirs
    Accounts = {"wallet", "other", "nobody", "zero"}
    Logs <- MCLogs
    MaxLogs = 3
    MaxDrops = 2
    InitialBackoff = 1
    MaxBackoff = 3
    BackoffMultiplier = 2
    MaxAttempts = 2
    PctScale = 4
    Off = Off
    MaxSamples = 4
    Instants = {0, 1, 3}
    MaxRecords = 6
    Tracked <- MCTracked
    Prices <- MCPrices
    MaxChecks = 3
INVARIANTS CachedWithinTtl PinnedReadsAgree BatchesAnswerEach TradesDoWhatTheyReport FeedHasNoHoles LiveMarketKeepsUp
PROPERTIES ToolsMatchHistory
CHECK_DEADLOCK FALSE
