SPECIFICATION Spec
CONSTANTS
    cheap = cheap
    short = short
    dear = dear
    Callers = {cheap, short}
    Simulated <- CallSimulated
    Consumed <- CallConsumed
    Pins <- CallPins
    Floor = 0
    EstimateTtl = 2
    FeeTtl = 1
    Tip = 3
    BaseFees = {1}
    MaxFee = 15
    MaxClock = 1
    MaxFaults = 0
INVARIANTS StoredIsThere
CHECK_DEADLOCK FALSE
