CONSTANTS
    Consumers = {o1, o2}
    PollCount = 2
    ReclaimEvery = 2
    ReclaimCount = 1
    MaxEvents <- FewEvents
    MaxFaults = 1

SPECIFICATION FairSpec

INVARIANTS
    TypeOK
    AckedIsAudited
    SlowIsTraced
    SpanOncePerTrace

PROPERTIES
    MemoryEventsHandled
    SpanKeptInOrder
