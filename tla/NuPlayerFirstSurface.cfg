CONSTANTS
    Formats = {"audio", "video"}
    CanOffload = FALSE
    Budget <- FirstSurfaceBudget
SPECIFICATION Spec
INVARIANTS
    AbandonedSurfaceIsReplaced
\* The system rests once the client and the environment have used their budgets.
CHECK_DEADLOCK FALSE
