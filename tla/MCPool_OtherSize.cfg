CONSTANTS
    p1 = p1
    p2 = p2
    p3 = p3
    Procs = {p1, p2, p3}
    Sizes = {5, 6}
    MinSizes = {0}
    MdSize = 1
    ChunkSize = 2
    HashSize = 2
    IntRange = 16
    HeedWarning = TRUE
    RepairOutcomes = {"ready", "torn"}
    MaxFiles = 2
    MaxCrashes = 0
SPECIFICATION Spec
INVARIANT EveryHandleSound
SYMMETRY Symmetry
CHECK_DEADLOCK FALSE
