CONSTANTS
    Workers = {w1, w2}
    Calls = {r1}
    Offered = {"resume"}
    Submission = Submission
    Pods = {}
    NumSteps = 2
    CheckpointSteps = {0, 1}
    CostLimits <- DefaultLimit
    MaxCrashes = 0
    MaxOutages = 1
    MaxQueue = 2
    LeaseMayExpire = FALSE
    Nobody = Nobody
    Orphan = Orphan

SPECIFICATION Spec

INVARIANTS
    NoStepSkipped

CHECK_DEADLOCK FALSE
