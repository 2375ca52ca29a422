CONSTANTS
    Formats = {"audio"}
    CanOffload = TRUE
    Budget <- OffloadBudget
SPECIFICATION Spec
INVARIANTS
    TearDownIsHandled
\* The system rests once the client and the environment have used their budgets.
CHECK_DEADLOCK FALSE
