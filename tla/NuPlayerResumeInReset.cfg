CONSTANTS
    Formats = {"audio", "video"}
    CanOffload = FALSE
    Budget <- ResumeInResetBudget
SPECIFICATION Spec
INVARIANTS
    ResetFindsNoDecoder
\* The system rests once the client and the environment have used their budgets.
CHECK_DEADLOCK FALSE
