CONSTANTS
    control = control
    surface = surface
    Controls <- OneControl
    Surfaces <- OneSurface
    Budget <- StoppedBudget
SPECIFICATION FairSpec
PROPERTIES
    PrepareReturns
\* The client may make no more calls.
CHECK_DEADLOCK FALSE
