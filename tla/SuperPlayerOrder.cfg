CONSTANTS
    FileTypes = {"video"}
    StartModes = {FALSE}
    PlayerIds <- Ids
    Sessions = 1
    Surfaces = {"s1"}
    OldMessages = 9
    MaxInfos = 1
    MaxSurfaces = 0
SPECIFICATION FairSpec
INVARIANT ToldInOrder
CHECK_DEADLOCK FALSE
