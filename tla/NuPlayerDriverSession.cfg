CONSTANTS
    control = control
    surface = surface
    Controls <- OneControl
    Surfaces <- OneSurface
    Budget <- SessionBudget
SPECIFICATION FairSpec
INVARIANTS
    CallbacksExpected
    DriverFollowsPlayer
    SeekInProgressEnds
PROPERTIES
    CallsReturn
\* The client may make no more calls.
CHECK_DEADLOCK FALSE
