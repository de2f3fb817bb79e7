SPECIFICATION HazardSpec
CONSTANTS
    Keys = {r1, r2}
    MaxLen = 5
    MaxBadLen = 2
    Batches <- MCBatches
INVARIANTS
    BuildIsExact
    InDegreeCountsEdges
    ConflictsOrdered
    EdgesLinear
    RunnableGroundsDAG
    AcceptsExactly
