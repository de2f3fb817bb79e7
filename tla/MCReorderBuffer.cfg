SPECIFICATION RobFairSpec
CONSTANTS
    Committers = {c1, c2, c3}
    Totals = {0, 1, 2, 3, 4, 5}
INVARIANTS
    InOrder
    ClosedMeansComplete
    CommitExclusive
    AtMostOneLost
PROPERTIES
    CommitReturns
    AllDelivered
