\* Every operation over one booking that can be paid with two cards, two handlers
\* at a time.  A booking that has reached the end of its life is left alone, which
\* is no deadlock.
SPECIFICATION Spec
CONSTANTS
    b1 = b1
    b2 = b2
    b3 = b3
    p1 = p1
    p2 = p2
    p3 = p3
    t1 = t1
    t2 = t2
    NoHold = NoHold
    HoldId <- MCHoldId
    HoldIdOf <- MCHoldIdOf
    Booking = {b1}
    Token = {t1, t2}
    Terms <- MCOneTerms
    UnitsPerDay = 2
    Process = {p1, p2}
    Requests = {p1, p2}
    Ticks = {p1, p2}
    PaidAtStart = {}
    MaxGatewayFailures = 2
    Offered = {"create", "retry", "cancel", "calendar_cancel", "confirm_return", "auto_confirm", "settlement_retry", "crash"}
INVARIANTS
    TypeOK
    ChargedAtMostOnce
    CaptureNeedsReturn
    SettledMeansCharged
PROPERTIES
    KeepsLifecycle
    LostHoldsAreExplained
SYMMETRY CardSymmetry
CHECK_DEADLOCK FALSE
