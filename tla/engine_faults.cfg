CONSTANTS
    Workers = {w1, w2}
    Calls = {r1}
    Offered = {"manual_pause", "resume", "cancel"}
    Submission = Submission
    Pods = {p1}
    NumSteps = 2
    CheckpointSteps = {0, 1}
    CostLimits <- BothLimits
    MaxCrashes = 1
    MaxOutages = 1
    MaxQueue = 2
    LeaseMayExpire = FALSE
    Nobody = Nobody
    Orphan = Orphan

SPECIFICATION Spec

INVARIANTS
    TypeOK
    OneExecutor
    RecoverySparesLiveWorker
    NeverBeforeCheckpoint
    CheckpointBeforeEvent

PROPERTIES
    UsesLease
    ReportsRun
    NoStepStartsOnceStopped

CHECK_DEADLOCK FALSE
