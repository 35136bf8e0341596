CONSTANTS
    Workers = {w1, w2}
    NumDelays = 3
    MaxFaults = 2

SPECIFICATION FairSpec

INVARIANTS
    TypeOK
    DeadAfterEveryAttempt

PROPERTY DeliveryEnds

CHECK_DEADLOCK FALSE
