CONSTANTS
    p1 = p1
    p2 = p2
    p3 = p3
    p4 = p4
    Procs = {p1, p2, p3, p4}
    Ops = {"set", "each", "attach", "check"}
    InitPool = "none"
    Settled = {"ready", "torn"}
    RaiseAt = {"in"}
    ShmFails = FALSE
    LongFile = FALSE
    RepairOutcomes = {"ready", "torn"}
    SlowHolders = FALSE
    Restarts = FALSE
    MaxRetries = 1
    MaxCrashes = 3
SPECIFICATION Spec
INVARIANTS TypeOK MutualExclusion SoundPool OneToken OneChecker FlagNeedsToken
PROPERTY InitialisedOnce
VIEW InCalls
SYMMETRY Symmetry
CHECK_DEADLOCK FALSE
