CONSTANTS
    FileTypes = {"video", "drm", "hevcTs"}
    StartModes = {TRUE}
    PlayerIds <- Ids
    Sessions = 1
    Surfaces = {"s1"}
    OldMessages = 9
    MaxInfos = 0
    MaxSurfaces = 0
SPECIFICATION FairSpec
INVARIANT WaitsUntilPrepared
CHECK_DEADLOCK FALSE
