CONSTANTS
    Clients = {c1, c2, c3}
    TTL = 30
    MaxLag = 14
    RedisErrors = FALSE
    Nobody = Nobody
    Orphan = Orphan

SPECIFICATION Spec

INVARIANTS
    TypeOK
    MutualExclusion
    LeaseMargin

PROPERTIES
    ImplementsMutex
