CONSTANTS
    TrackSets <- EverySession
    NumBuffers <- Buffers1Or2
    CanOffload = TRUE
    EnableSlowSync = FALSE
    Budgets <- TwoEvents
SPECIFICATION FairSpec
INVARIANT BuffersConserved
INVARIANT PendingDrainIsPosted
INVARIANT QueueIsOfThisPosition
PROPERTY PausedIsStill
PROPERTY LoneStreamCompletes
PROPERTY SeekEnds
CHECK_DEADLOCK FALSE
