SPECIFICATION EngineSpec
CONSTANTS
    Keys = {r1, r2}
    Workers = {w1, w2}
    MaxLen = 3
    MaxSoloLen = 4
    PresentKey = r1
    Faults = FALSE
    Batches <- MCBatches
    InitialStore <- MCInitialStore
SYMMETRY WorkerSymmetry
INVARIANTS
    OkIsSequential
    SuccessIsSequential
PROPERTIES
    CopiesAreFinal
    ImplementsSerialBatch
