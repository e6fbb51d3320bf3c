SPECIFICATION Spec
CONSTANTS
    Sends = {s1, s2, s3}
    MaxConcurrent = 2
    MaxRestarts = 0
    MaxInFlight = 2
    Evictions = FALSE
    ManualSettles = FALSE
    Drops = FALSE
SYMMETRY Symmetry
INVARIANTS ConsumedNotRetried
CHECK_DEADLOCK FALSE
