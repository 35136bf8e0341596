CONSTANTS
    Workers = {w1, w2}
    Calls = {r1, r2, r3}
    Offered = {"manual_pause", "resume", "cancel"}
    Submission = Submission
    Pods = {}
    NumSteps = 2
    CheckpointSteps = {1}
    CostLimits <- DefaultLimit
    MaxCrashes = 0
    MaxOutages = 0
    MaxQueue = 2
    LeaseMayExpire = FALSE
    Nobody = Nobody
    Orphan = Orphan

SPECIFICATION FairSpec

PROPERTIES
    ReportsRun
    RunEnds
    LockComesBack

CHECK_DEADLOCK FALSE
