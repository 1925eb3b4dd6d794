CONSTANTS
    k1 = k1
    k2 = k2
    k3 = k3
    k4 = k4
    Keys = {k1, k2, k3, k4}
    Buckets = {0, 1}
    BucketOf <- ThreeAndOne
    LengthOf <- OwnLengths
    Slice = 2
SPECIFICATION IterationSpec
INVARIANT NoKeyTwice
