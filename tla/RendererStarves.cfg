CONSTANTS
    TrackSets <- BothTracks
    NumBuffers <- Buffers1Or2
    CanOffload = FALSE
    EnableSlowSync = FALSE
    Budgets <- OneEnds
SPECIFICATION FairSpec
PROPERTY EndDoesNotStarve
CHECK_DEADLOCK FALSE
