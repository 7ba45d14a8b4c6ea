SPECIFICATION FairSpec
CHECK_DEADLOCK FALSE
CONSTANTS
    Payments = {p1, p2}
    Attempts = {a1, a2}
    Overrun = {p2}
    RepeatAccepted = TRUE
INVARIANTS
    IInv
    OneAtGateway
    ToldOnceOfRealRefund
PROPERTIES
    OwedIsRecorded
