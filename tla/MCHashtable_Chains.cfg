CONSTANTS
    Word = 1
    MdSize = 3
    Total = 83
    k1 = k1
    k2 = k2
    k3 = k3
    v1 = v1
    v2 = v2
    Keys = {k1, k2, k3}
    Values = {v1}
    Scrap = Scrap
    NoValue = NoValue
    Buckets = {0, 1}
    BucketOf <- OneBucket
    LengthOf <- OwnLengths
    MinAlloc = 8
    HashWords = 7
    Calls = {"add", "delete", "clear", "check"}
    CrashIn = {}
    MaxCrashes = 0
SPECIFICATION Spec
INVARIANT PoolConsistent
PROPERTIES TableSpec HashStays
VIEW ChainWords
