CONSTANTS
    p1 = p1
    p2 = p2
    p3 = p3
    Procs = {p1, p2, p3}
    Sizes = {5, 17}
    MinSizes = {0, 2}
    MdSize = 1
    ChunkSize = 2
    HashSize = 2
    IntRange = 12
    HeedWarning = TRUE
    RepairOutcomes = {"ready", "torn"}
    MaxFiles = 2
    MaxCrashes = 2
SPECIFICATION Spec
INVARIANTS TypeOK SoundPool OneToken HandleSound
VIEW InReach
SYMMETRY Symmetry
CHECK_DEADLOCK FALSE
