CONSTANTS
    Word = 1
    MdSize = 3
    Total = 51
    k1 = k1
    k2 = k2
    k3 = k3
    v1 = v1
    v2 = v2
    Keys = {k1, k2, k3}
    Values = {v1, v2}
    Scrap = Scrap
    NoValue = NoValue
    Buckets = {0, 1}
    BucketOf <- SharedBucket
    LengthOf <- OwnLengths
    MinAlloc = 0
    HashWords = 1
    Calls = {"set", "check"}
    CrashIn = {"set"}
    MaxCrashes = 1
SPECIFICATION Spec
INVARIANTS Accounted NeverLost
PROPERTY MapSpec
VIEW AllWords
