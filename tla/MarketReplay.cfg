SPECIFICATION Spec
CONSTANTS
    None = None
    Zero = Zero
    Perp = perp
    LogsPerBlock = 100
    Moved <- TokensMoved
    TickOf <- Ticks
    Band <- OneBand
    Wallets = {w1, w2}
    OpeningPrice = 2
    Highest = 3
    Lowest = 1
    MaxOps = 2
    MaxDrivenOps = 1
    MaxFaults = 2
    Windows = {0, 1, 2}
    Retentions = {None, 1}
INVARIANTS ReplayMatchesReads FoldLaw ActivityIsTrue LiveMatchesUnlessMissed
SYMMETRY Symmetry
CHECK_DEADLOCK FALSE
