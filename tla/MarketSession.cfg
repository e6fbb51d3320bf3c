SPECIFICATION Spec
CONSTANTS
    Q = 256
    HalfWidth = 6
    Magic <- Ratios
    UniswapMaxTick = 7
    MaxTick = 6
    TickSpacing = 2
    ProtocolSqrtMin = 80
    ProtocolSqrtMax = 800
    ImpactSqrtMin = 144
    ImpactSqrtMax = 480
    OnTickShift = 16
    Makers = {m1, m2}
    Depths = {200}
    Edges <- BandEdges
    Trades <- TradeSizes
    Targets = {160, 360}
    Caps = {15, 5000}
    Portions <- OddPortions
    Probe = 5000
    MaxSteps = 6
    One = 100
    Decay <- EmaDecay
    FeeOne = 16
    FeeModulus = 16
    SqrtMin = 64
    SqrtMax = 960
    MaxMark = 4000
    Grain = 8
    Widths = 4
    Takers = {t1, t2}
    Margins = {60}
    MarginRatio = 10
    RateSets <- Rates
    Index = 240
    Donation = 100
    FundingDust = 20
    SampleStep = 40
INVARIANTS MapReconciles PoolNeverShort SizingsAreExact AccruedByPlace FundingBalances ClosesAreSound LiquidationPricesTurn
SYMMETRY Symmetry
CHECK_DEADLOCK FALSE
