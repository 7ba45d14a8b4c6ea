SPECIFICATION FairSpec
CONSTANTS
    Bookings = {b1}
    Handlers = {h1, h2}
    Perks = {}
    MaxSessions = 2
    JobLockHolds = TRUE
INVARIANTS
    StandingIsPaid
PROPERTIES
    PaymentMovesForward
    ImplementsContract
    ComesToRest
