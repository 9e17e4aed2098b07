SPECIFICATION CoreFairSpec
CONSTANTS
    maxFailures = 10
    MaxChanges = 4
    HealthCheck = TRUE
    Requests = TRUE
    NoOwner = NoOwner
CHECK_DEADLOCK FALSE
INVARIANTS AckedIsServed
PROPERTIES HealsItself ShutdownEnds
