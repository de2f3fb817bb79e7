SPECIFICATION PoolFairSpec
CONSTANTS
    Workers = {w1, w2, w3}
    MaxNodes = 4
    Graphs <- MCGraphs
INVARIANTS
    PoolTypeOK
    NoPanic
    SendNeverBlocks
    DependencyOrder
    ReturnMeansDone
    CloseMeansDone
PROPERTIES
    ExecutedOnce
    RunReturns
