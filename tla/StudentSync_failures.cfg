SPECIFICATION Spec
CONSTANTS
    Ranks = {r0, r1}
    Lead = r0
    Calls <- MCCalls
    NoCall = NoCall
    Buckets = 2
    PrefixCaching = TRUE
    MaxLife = 2
    MaxBatch = 2
    Accumulate = 1
    Failing = {"timeout", "sender", "receiver", "trainer", "server"}
    MaxFailures = 3
INVARIANTS TypeOK EngineExclusive SyncedMeansLoaded VersionIdentifiesWeights
CHECK_DEADLOCK FALSE
