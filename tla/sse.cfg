CONSTANTS
    Clients = {c1, c2, c3}
    MaxEvents = 4
    BatchSize = 2

SPECIFICATION FairSpec

INVARIANTS
    TypeOK
    SentOnceInOrder

PROPERTIES
    LoneClientSeesEnd

CHECK_DEADLOCK FALSE
