SPECIFICATION Spec
CONSTANTS
    Ranks = {r0, r1}
    Lead = r0
    Calls <- MCCalls
    NoCall = NoCall
    Buckets = 2
    PrefixCaching = FALSE
    MaxLife = 2
    MaxBatch = 2
    Accumulate = 1
    Failing = {"trainer"}
    MaxFailures = 1
INVARIANT OnPolicy
CHECK_DEADLOCK FALSE
