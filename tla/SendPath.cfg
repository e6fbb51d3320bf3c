SPECIFICATION FairSpec
CONSTANTS
    Sends = {s1, s2, s3}
    MaxConcurrent = 3
    MaxRestarts = 1
    MaxInFlight = 2
    Evictions = TRUE
    ManualSettles = TRUE
    Drops = TRUE
INVARIANTS NonceOwnership ResyncOnlyWhenUnheld MapsAgree NoSilentHole
PROPERTIES ImplementsNonceSequence DesyncDrainsUnlessDropped
CHECK_DEADLOCK FALSE
