CONSTANTS
    Word = 1
    MdSize = 3
    Total = 32
    Requests = {0, 2, 5}
    MinAllocs = {0, 7}
SPECIFICATION Spec
INVARIANTS
    TypeOK
    InPool
    NoOverlap
    NoWordLost
    Coalesced
    FreeRestoresPool
PROPERTY HeapSpec
