CHECK_DEADLOCK FALSE
SPECIFICATION OfficeSpec
CONSTANTS
    Referrer = r
    Invitees = {i1}
    Bookings = {b1, b2}
    Handlers = {h1, h2}
    Qualifying = {b1}
    Platform = platform
    None = None
    ReferrerKind = "coupon"
    ReferredKind = "wallet"
    Value = 1
    Deposit = 1
    PlatformCap = 1
    MaxAdjust = 0
    Worker = w
    S1 = s1
    S2 = s2
    N1 = n1
    N2 = n2
    Workers = {w}
    WorkerOf <- MCWorkerOf
    MaxStars = 1
    Moderated = {s1}
    Salons = {s1, s2}
    Names = {n1, n2, n3}
    FirstName <- MCFirstName
    Transactions = {t1, t2, t3}
    Subscribers = {s1}
    PlanNames = {n1, n2}
    FirstPlan = n1
    Periods = {p1, p2, p3}
    Discounts = {c1, c2}
    CappedDiscounts = {c1}
    DiscountCap = 1
    Runs = {h1, h2, t1}
    MaxMoves = 1
    OfWorker = {b1}
    DayEnd = 3
    MaxChairs = 2
SYMMETRY HandlerSymmetry
INVARIANTS
    IInv
    MoneyConserved
    CouponsWithinCap
    PaidOnceGranted
    OnlyNewReviewsCollide
    TotalsMatchItems
    PaymentsCount
    DiscountsCount
    RemindedOnce
    MarkedMeansTold
    OfferedAndFree
    FreeTimeExact
PROPERTIES
    AveragesKept
    SuspensionNeedsDecision
    LinksKeepLeading
    FallbackStays
