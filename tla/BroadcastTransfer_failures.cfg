SPECIFICATION PipelineSpec
CONSTANTS
    Receivers = {r1}
    NumWeights = 4
    MaxSize = 4
    BucketSize = 3
    EngineBucket = 2
    MayFail = TRUE
INVARIANTS PipelineTypeOK LoadsTheWeights AllDelivered
PROPERTY PipelineEnds
CHECK_DEADLOCK FALSE
