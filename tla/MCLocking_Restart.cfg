CONSTANTS
    p1 = p1
    p2 = p2
    p3 = p3
    p4 = p4
    Procs = {p1}
    Ops = {"set", "attach"}
    InitPool = "none"
    Settled = {"ready", "torn"}
    RaiseAt = {"in"}
    ShmFails = FALSE
    LongFile = FALSE
    RepairOutcomes = {"ready", "torn"}
    SlowHolders = FALSE
    Restarts = TRUE
    MaxRetries = 1
    MaxCrashes = 0
SPECIFICATION Spec
INVARIANT FlagNeedsToken
CHECK_DEADLOCK FALSE
