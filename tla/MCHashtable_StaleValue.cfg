CONSTANTS
    Word = 1
    MdSize = 3
    Total = 39
    k1 = k1
    k2 = k2
    k3 = k3
    v1 = v1
    v2 = v2
    Keys = {k1, k2}
    Values = {v1, v2}
    Scrap = Scrap
    NoValue = NoValue
    Buckets = {0, 1, 2}
    BucketOf <- ApartBuckets
    LengthOf <- OwnLengths
    MinAlloc = 0
    HashWords = 1
    Calls = {"set", "delete"}
    CrashIn = {"set"}
    MaxCrashes = 1
SPECIFICATION Spec
INVARIANT NeverLost
