CONSTANTS
    NumUnits = 2
    MaxBuffers <- Ahead
    Mishaps = {}
    MaxPositions = 1
    Sessions <- MixedSessions
SPECIFICATION FairSpec
INVARIANT PendingReadIsPosted
PROPERTY UnitsInOrder
PROPERTY BufferingEnds
PROPERTY StreamsAreRead
CHECK_DEADLOCK FALSE
