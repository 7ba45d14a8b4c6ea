SPECIFICATION Spec
CONSTANTS
    Salons = {s1}
    Customers = {c1}
    Workers = {}
    Bookings = {b1, b2}
    Requests = {r1, r2}
    None = None
    Capacity = 1
    MaxActive = 2
    MaxAtSalon = 2
    Horizon = 2
    MaxDuration = 2
    LockHolds = TRUE
SYMMETRY RowSymmetry
INVARIANTS
    CapacityRespected
PROPERTIES
    ImplementsCalendar
