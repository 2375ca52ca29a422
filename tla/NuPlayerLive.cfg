CONSTANTS
    Formats = {"audio", "video"}
    CanOffload = FALSE
    Budget <- LiveBudget
SPECIFICATION FairSpec
PROPERTIES
    ResetCompletes
    SeekCompletes
    SurfaceCompletes
\* The system rests once the client and the environment have used their budgets.
CHECK_DEADLOCK FALSE
