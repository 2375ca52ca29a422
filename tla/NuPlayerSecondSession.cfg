CONSTANTS
    Formats = {"audio"}
    CanOffload = FALSE
    Budget <- SecondSessionBudget
SPECIFICATION Spec
INVARIANTS
    RendererFollowsPause
\* The system rests once the client and the environment have used their budgets.
CHECK_DEADLOCK FALSE
