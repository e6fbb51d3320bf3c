SPECIFICATION BusySpec
CONSTANTS
    Requests = {r1, r2}
    Writes = {r2}
    SharedPool = {e2}
    ReadPool = {e1}
    WritePool = {}
    Strategy = "RoundRobin"
    FanOut = 2
    MaxReadRetries = 1
    MaxWriteRetries = 1
    RequestTimeout = 1
    FailureThreshold = 1
    RecoveryTimeout = 1
    HalfOpenMaxRequests = 1
PROPERTIES RequestsEnd AlwaysCallableAgain SharedKeepsServing
CHECK_DEADLOCK FALSE
