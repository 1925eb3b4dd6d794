CONSTANTS
    p1 = p1
    p2 = p2
    p3 = p3
    p4 = p4
    Procs = {p1, p2, p3}
    Ops = {"attach", "check"}
    InitPool = "none"
    Settled = {"none", "empty", "blank", "half", "ready", "torn"}
    RaiseAt = {"in"}
    ShmFails = FALSE
    LongFile = FALSE
    RepairOutcomes = {"ready"}
    SlowHolders = FALSE
    Restarts = FALSE
    MaxRetries = 1
    MaxCrashes = 0
SPECIFICATION Spec
INVARIANT OnlyCrashesKill
CHECK_DEADLOCK FALSE
