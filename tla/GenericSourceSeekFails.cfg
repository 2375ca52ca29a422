CONSTANTS
    NumUnits = 2
    MaxBuffers <- Ahead
    Mishaps = {"seekFails"}
    MaxPositions = 1
    Sessions <- SeekFails
SPECIFICATION FairSpec
PROPERTY UnitsInOrder
CHECK_DEADLOCK FALSE
