CONSTANTS
    FileTypes = {"hevcTs"}
    StartModes = {FALSE}
    PlayerIds <- Ids
    Sessions = 2
    Surfaces = {"s1"}
    OldMessages = 9
    MaxInfos = 0
    MaxSurfaces = 0
SPECIFICATION FairSpec
INVARIANT ToldRightly
CHECK_DEADLOCK FALSE
