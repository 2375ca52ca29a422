CONSTANTS
    SeqMod = 8
    MaxDropout = 3
    MaxMisorder = 2
    MinSequential = 2
    NumBuffers = 2
    ReadLimit = 2
    Chunks = 2
    NumPackets = 4
    FirstSeqs = {0}
    Budgets <- OneEach
SPECIFICATION Spec
PROPERTY WaitsForMissing
CHECK_DEADLOCK FALSE
