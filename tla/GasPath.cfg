SPECIFICATION FairSpec
CONSTANTS
    cheap = cheap
    short = short
    dear = dear
    Callers = {cheap, short, dear}
    Simulated <- CallSimulated
    Consumed <- CallConsumed
    Pins <- CallPins
    Floor = 0
    EstimateTtl = 1
    FeeTtl = 1
    Tip = 3
    BaseFees = {1}
    MaxFee = 15
    MaxClock = 1
    MaxFaults = 1
INVARIANTS SendsArePriced
PROPERTIES EveryCallGetsThrough
CHECK_DEADLOCK FALSE
