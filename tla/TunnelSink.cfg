CONSTANTS
    SeqMod = 8
    MaxDropout = 3
    MaxMisorder = 2
    MinSequential = 2
    NumBuffers = 2
    ReadLimit = 2
    Chunks = 2
    NumPackets = 7
    FirstSeqs = {5}
    Budgets <- Disturbances
SPECIFICATION Spec
INVARIANT BuffersCirculate
PROPERTY DeliversInOrder
PROPERTY OnlyMissingIsPassedOver
CHECK_DEADLOCK FALSE
