SPECIFICATION FairSpec
CONSTANTS
    Salons = {s1}
    Customers = {c1}
    Workers = {}
    Bookings = {b1}
    Requests = {r1, r2}
    None = None
    Capacity = 1
    MaxActive = 1
    MaxAtSalon = 1
    Horizon = 2
    MaxDuration = 1
    LockHolds = FALSE
PROPERTIES
    SalonUnlocks
    LockReleasedByOwner
    EndedStaysEnded
