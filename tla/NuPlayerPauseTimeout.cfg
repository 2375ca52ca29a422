CONSTANTS
    Formats = {"audio"}
    CanOffload = TRUE
    Budget <- PauseTimeoutBudget
SPECIFICATION Spec
PROPERTIES
    TimeoutOnlyWhilePaused
\* The system rests once the client and the environment have used their budgets.
CHECK_DEADLOCK FALSE
