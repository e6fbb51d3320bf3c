SPECIFICATION Spec
CONSTANTS
    Requests = {r1, r2, r3}
    Writes = {r1}
    SharedPool = {e1, e2}
    ReadPool = {}
    WritePool = {}
    Strategy = "Hedged"
    FanOut = 2
    MaxReadRetries = 0
    MaxWriteRetries = 0
    RequestTimeout = 1
    FailureThreshold = 2
    RecoveryTimeout = 1
    HalfOpenMaxRequests = 1
INVARIANTS CircuitsStayTrue
SYMMETRY Symmetry
CHECK_DEADLOCK FALSE
