SPECIFICATION EngineFairSpec
CONSTANTS
    Keys = {r1, r2}
    Workers = {w1, w2}
    MaxLen = 2
    MaxSoloLen = 3
    PresentKey = r1
    Faults = TRUE
    Batches <- MCBatches
    InitialStore <- MCInitialStore
PROPERTIES
    ImplementsSerialBatch
    HandlerReturns
    NoLeak
