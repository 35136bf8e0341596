CONSTANTS
    Items = {i1, i2}
    Searches = {s1}
    Compressors = {k1, k2}
    BatchSize = 1
    TopK = 1
    MaxFaults = 1

SPECIFICATION FairSpec

INVARIANTS
    TypeOK
    CompressedHasSummary

PROPERTIES
    ForgottenLeavesCache
    OldIsCompressed

CHECK_DEADLOCK FALSE
