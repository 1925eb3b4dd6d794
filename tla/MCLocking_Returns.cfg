CONSTANTS
    p1 = p1
    p2 = p2
    p3 = p3
    p4 = p4
    Procs = {p1, p2}
    Ops = {"set", "attach", "check"}
    InitPool = "none"
    Settled = {"none", "empty", "blank", "half", "ready", "torn"}
    RaiseAt = {"in"}
    ShmFails = FALSE
    LongFile = FALSE
    RepairOutcomes = {"ready", "torn"}
    SlowHolders = TRUE
    Restarts = TRUE
    MaxRetries = 1
    MaxCrashes = 1
SPECIFICATION LiveSpec
PROPERTY EveryCallReturns
CHECK_DEADLOCK FALSE
