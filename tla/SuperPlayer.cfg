CONSTANTS
    FileTypes = {"drm", "hevcTs"}
    StartModes = {TRUE, FALSE}
    PlayerIds <- Ids
    Sessions = 1
    Surfaces = {"s1"}
    OldMessages = 9
    MaxInfos = 1
    MaxSurfaces = 1
SPECIFICATION FairSpec
INVARIANT InstalledCatchesUp
INVARIANT ToldRightly
PROPERTY CallsAreAnswered
\* release() may wait for ever: a signal given between its look and its wait is lost.
CHECK_DEADLOCK FALSE
