\* The return side without crashes, for liveness.  A settled booking is left alone,
\* which is no deadlock.
SPECIFICATION FairSpec
CONSTANTS
    b1 = b1
    b2 = b2
    b3 = b3
    p1 = p1
    p2 = p2
    p3 = p3
    t1 = t1
    t2 = t2
    NoHold = NoHold
    HoldId <- MCHoldId
    HoldIdOf <- MCHoldIdOf
    Booking = {b1}
    Token = {t1}
    Terms <- MCOneTerms
    UnitsPerDay = 2
    Process = {p1, p2}
    Requests = {p1, p2}
    Ticks = {p1, p2}
    PaidAtStart = {b1}
    MaxGatewayFailures = 5
    Offered = {"confirm_return", "auto_confirm", "settlement_retry", "cards"}
PROPERTIES
    ExpiredReturnCompletes
    PendingIsAnswered
    RetriesEnd
CHECK_DEADLOCK FALSE
