\* The payment side: two handlers at a time over three bookings, of which b1 and b2
\* overlap and b3 shares a day with b1.  Cancelled bookings are left alone, which is no
\* deadlock.
SPECIFICATION Spec
CONSTANTS
    b1 = b1
    b2 = b2
    b3 = b3
    p1 = p1
    p2 = p2
    p3 = p3
    t1 = t1
    t2 = t2
    NoHold = NoHold
    HoldId = {t1}
    HoldIdOf <- MCOneNameACard
    Booking = {b1, b2, b3}
    Token = {t1}
    Terms <- MCTerms
    UnitsPerDay = 2
    Process = {p1, p2}
    Requests = {p1, p2}
    Ticks = {p1, p2}
    PaidAtStart = {b3}
    MaxGatewayFailures = 0
    Offered = {"create", "retry", "cancel", "calendar_cancel", "crash"}
INVARIANTS
    ConfirmedHasOwnHold
PROPERTIES
    ClashOnlyByRevival
    ForcedCancelHitsItsDays
SYMMETRY ProcessSymmetry
CHECK_DEADLOCK FALSE
