SPECIFICATION FairSpec
CONSTANTS
    OldestFirst = {o1}
    NewestFirst = {n1}
    FromBlock = 0
    ToBlock = 4
    InFlight = 2
    Weight <- OneDense
    Caps <- MovingCaps
    MaxMoves = 1
    Failures = TRUE
    InitialSpan = 4
    MaxSpan = 8
    RetestFirst = 2
    RetestCap = 4
INVARIANTS WidthsCoherent ReadInChainOrder
PROPERTIES RejectedOnlyAtOneBlock ScansEnd
CHECK_DEADLOCK FALSE
