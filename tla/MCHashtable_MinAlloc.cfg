CONSTANTS
    Word = 1
    MdSize = 3
    Total = 51
    k1 = k1
    k2 = k2
    k3 = k3
    v1 = v1
    v2 = v2
    Keys = {k1, k2}
    Values = {v1}
    Scrap = Scrap
    NoValue = NoValue
    Buckets = {0, 1}
    BucketOf <- SharedBucket
    LengthOf <- OwnLengths
    MinAlloc = 8
    HashWords = 1
    Calls = {"add", "clear"}
    CrashIn = {}
    MaxCrashes = 0
SPECIFICATION Spec
PROPERTY HashStays
