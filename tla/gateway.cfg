CONSTANTS
    Requests = {q1, q2, q3}
    Keys = {k1}
    Nobody = Nobody
    Limit = 1
    Window = 2
    CounterTTL = 3
    MaxDelay = 1
    MaxTime = 3
    MaxFaults = 1

SPECIFICATION Spec

SYMMETRY Symmetry

INVARIANTS
    TypeOK
    OneUpstreamPerKey
    OneItemPerKey
    KeyFreedAfter5xx
    WindowHolds

CHECK_DEADLOCK FALSE
