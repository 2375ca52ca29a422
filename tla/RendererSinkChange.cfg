CONSTANTS
    TrackSets <- AudioOnly
    NumBuffers <- Buffers1Or2
    CanOffload = FALSE
    EnableSlowSync = FALSE
    Budgets <- TwoFormats
SPECIFICATION Spec
INVARIANT SinkChangeFindsNoDrain
CHECK_DEADLOCK FALSE
