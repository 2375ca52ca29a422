CONSTANTS
    NumUnits = 2
    MaxBuffers <- Ahead
    Mishaps = {"lapse"}
    MaxPositions = 1
    Sessions <- CachePauses
SPECIFICATION FairSpec
PROPERTY BufferingEnds
CHECK_DEADLOCK FALSE
