CONSTANTS
    Formats = {"audio", "video"}
    CanOffload = FALSE
    Budget <- PlayBudget
SPECIFICATION Spec
INVARIANTS
    FlushProtocolHolds
    ResetFindsNoDecoder
    FlushIsAnswered
    PendingScanIsPosted
    NoStaleData
PROPERTIES
    RequestsInOrder
\* The system rests once the client and the environment have used their budgets.
CHECK_DEADLOCK FALSE
