SPECIFICATION Spec
CONSTANTS
    Salons = {s1, s2}
    Customers = {c1}
    Workers = {w1}
    Bookings = {b1, b2}
    Requests = {r1, r2}
    None = None
    Capacity = 2
    MaxActive = 1
    MaxAtSalon = 1
    Horizon = 1
    MaxDuration = 1
    LockHolds = TRUE
SYMMETRY RowSymmetry
INVARIANTS
    IInv
    WorkerClashNeedsMove
    CustomerClashNeedsMove
    CustomerWithinLimits
