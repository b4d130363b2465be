SPECIFICATION FairSpec
CONSTANTS
    Receivers = {r1, r2}
    NumWeights = 2
    MaxSize = 2
    BucketSize = 3
    MayFail = FALSE
PROPERTY TransferEnds
CHECK_DEADLOCK FALSE
