SPECIFICATION DispatcherSpec
CONSTANTS
    Riders = {r1, r2}
    MaxPings = 3
    MaxRequests = 3
    BodyLimit = 2
SYMMETRY RiderSymmetry
INVARIANTS
    DropsOnlyReported
    NewestWinsWithoutOverlap
