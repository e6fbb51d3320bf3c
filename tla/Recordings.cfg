SPECIFICATION Spec
CONSTANTS
    None = None
    LogsPerBlock = 10
    Contents <- BlockContents
    MaxHead = 3
    MaxForks = 1
    Depth = 1
    Behind = 1
    Lag = 1
    Limits = {1, 2}
    MaxRecordings = 2
    Torn = Torn
INVARIANTS LaggedReadsAreExact TapesRejoin RecordingReadsWhole TailCheckIsTrue
CHECK_DEADLOCK FALSE
