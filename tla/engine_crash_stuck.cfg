CONSTANTS
    Workers = {w1, w2}
    Calls = {}
    Offered = {"manual_pause", "resume", "cancel"}
    Submission = Submission
    Pods = {p1}
    NumSteps = 1
    CheckpointSteps = {0}
    CostLimits <- DefaultLimit
    MaxCrashes = 1
    MaxOutages = 0
    MaxQueue = 1
    LeaseMayExpire = FALSE
    Nobody = Nobody
    Orphan = Orphan

SPECIFICATION FairSpec

PROPERTIES
    RunEnds

CHECK_DEADLOCK FALSE
