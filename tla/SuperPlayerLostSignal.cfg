CONSTANTS
    FileTypes = {"video"}
    StartModes = {FALSE}
    PlayerIds <- Ids
    Sessions = 1
    Surfaces = {"s1"}
    OldMessages = 9
    MaxInfos = 0
    MaxSurfaces = 0
SPECIFICATION FairSpec
PROPERTY ReleaseReturns
CHECK_DEADLOCK FALSE
