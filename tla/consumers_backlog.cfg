CONSTANTS
    Consumers = {o1}
    PollCount = 2
    ReclaimEvery = 2
    ReclaimCount = 1
    MaxEvents <- FewEvents
    MaxFaults = 0

SPECIFICATION FairSpec

PROPERTIES
    ExecutionEventsHandled
