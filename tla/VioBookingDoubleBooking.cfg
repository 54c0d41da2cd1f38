\* A counterexample to NoDoubleBooking.
SPECIFICATION Spec
CONSTANTS
    b1 = b1
    b2 = b2
    b3 = b3
    p1 = p1
    p2 = p2
    p3 = p3
    t1 = t1
    t2 = t2
    NoHold = NoHold
    HoldId <- MCHoldId
    HoldIdOf <- MCHoldIdOf
    Booking = {b1, b2}
    Token = {t1}
    Terms <- MCTwoTerms
    UnitsPerDay = 2
    Process = {p1}
    Requests = {p1}
    Ticks = {p1}
    PaidAtStart = {}
    MaxGatewayFailures = 2
    Offered = {"create", "retry"}
INVARIANTS
    NoDoubleBooking
CHECK_DEADLOCK FALSE
