SPECIFICATION Spec
CONSTANTS
    Bookings = {b1}
    Handlers = {h1, h2}
    Perks = {"coupon", "wallet"}
    MaxSessions = 2
    JobLockHolds = TRUE
SYMMETRY HandlerSymmetry
INVARIANTS
    AuthorityNamesCapture
