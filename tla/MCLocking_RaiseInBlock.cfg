CONSTANTS
    p1 = p1
    p2 = p2
    p3 = p3
    p4 = p4
    Procs = {p1, p2, p3}
    Ops = {"set", "each"}
    InitPool = "ready"
    Settled = {"none", "empty", "blank", "half", "ready", "torn"}
    RaiseAt = {"in", "block"}
    ShmFails = FALSE
    LongFile = FALSE
    RepairOutcomes = {"ready"}
    SlowHolders = FALSE
    Restarts = FALSE
    MaxRetries = 1
    MaxCrashes = 0
SPECIFICATION Spec
INVARIANT MutualExclusion
CHECK_DEADLOCK FALSE
