CONSTANTS
    control = control
    surface = surface
    Controls <- OneControl
    Surfaces <- OneSurface
    Budget <- StaleBudget
SPECIFICATION FairSpec
INVARIANTS
    CallbacksExpected
\* The client may make no more calls.
CHECK_DEADLOCK FALSE
