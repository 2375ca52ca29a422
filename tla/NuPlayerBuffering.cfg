CONSTANTS
    Formats = {"video"}
    CanOffload = FALSE
    Budget <- BufferingBudget
SPECIFICATION Spec
INVARIANTS
    TypeOK
    NoUseAfterReset
    PausedByClientImpliesPaused
    RendererFollowsPause
\* The system rests once the client and the environment have used their budgets.
CHECK_DEADLOCK FALSE
