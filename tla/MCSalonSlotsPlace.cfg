SPECIFICATION Spec
CONSTANTS
    Salons = {s1}
    Customers = {c1}
    Workers = {w1}
    Bookings = {b1, b2}
    Requests = {r1, r2}
    None = None
    Capacity = 2
    MaxActive = 2
    MaxAtSalon = 2
    Horizon = 2
    MaxDuration = 1
    LockHolds = TRUE
SYMMETRY RowSymmetry
INVARIANTS
    WorkerInOnePlace
