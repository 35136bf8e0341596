CONSTANTS
    Clients = {c1, c2}
    TTL = 4
    MaxLag = 5
    RedisErrors = TRUE
    Nobody = Nobody
    Orphan = Orphan

SPECIFICATION FairSpec

PROPERTIES
    ImplementsLease
    OnlyOwnerOrExpiryFrees
    OrphanExpires
