SPECIFICATION FairSpec
CONSTANTS
    Ranks = {r0, r1, r2}
    Lead = r0
    Calls <- MCCalls
    NoCall = NoCall
    Buckets = 2
    PrefixCaching = FALSE
    MaxLife = 1
    MaxBatch = 5
    Accumulate = 2
    Failing = {"timeout", "sender", "receiver"}
    MaxFailures = 2
INVARIANT OnPolicy
PROPERTY TrainingEnds
CHECK_DEADLOCK FALSE
