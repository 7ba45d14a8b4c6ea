SPECIFICATION Spec
CONSTANTS
    Bookings = {b1}
    Handlers = {h1, h2, h3}
    Perks = {"coupon", "wallet"}
    MaxSessions = 2
    JobLockHolds = FALSE
SYMMETRY HandlerSymmetry
INVARIANTS
    IInv
    StandingHasCapture
    CommissionIffForfeitedOrEarned
    DeadBookingReleased
    RefundBackedByCapture
PROPERTIES
    FinalStaysFinal
