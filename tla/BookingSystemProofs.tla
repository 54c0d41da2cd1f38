------------------------- MODULE BookingSystemProofs -------------------------
(***************************************************************************)
(* Proofs about BookingSystem, for any number of bookings, cards and       *)
(* handlers, any terms and any selection of offered operations.            *)
(***************************************************************************)
EXTENDS BookingSystem, TLAPS

USE DEF vars, tableVars, gatewayVars, At, Its, Begin, GoTo, Return, SetRow

-----------------------------------------------------------------------------
(* Types.                                                                  *)

\* What a handler has seen of a row, and what it carries.
LEMMA SeenType == ASSUME NEW row \in Row PROVE Seen(row) \in View
  BY DEF Row, Seen, View

LEMMA StartingType ==
  ASSUME NEW label \in Label, NEW b \in Booking, NEW seen \in View
  PROVE  Starting(label, b, seen) \in Frame
  BY DEF Starting, Frame

LEMMA IdleType == Idle \in Frame
<1>1. AbsentRow \in Row
  BY DEF AbsentRow, Row, Status, SettlementStatus
<1> QED
  BY <1>1, SeenType, StartingType, GatewayAssumption DEF Idle, Label

LEMMA GoToType ==
  ASSUME NEW f \in Frame, NEW label \in Label
  PROVE  [f EXCEPT !.at = label] \in Frame
  BY DEF Frame

\* What is written to the table is a row.
LEMMA AbsentRowType ==
  AbsentRow \in Row /\ CreatedRow \in Row
  BY DEF AbsentRow, CreatedRow, Row, Status, SettlementStatus

LEMMA WorkflowRowTypes ==
  ASSUME NEW row \in Row, NEW h \in HoldId \cup {NoHold}, NEW marks
  PROVE  /\ ConfirmedRow(row, h) \in Row
         /\ UnpaidRow(row) \in Row
         /\ CancelledRow(row) \in Row
         /\ CancelledKeepingHold(row) \in Row
         /\ MarkedRow(row, marks) \in Row
<1> USE DEF Row, Status, SettlementStatus
<1>1. ConfirmedRow(row, h) \in Row
  BY DEF ConfirmedRow
<1>2. UnpaidRow(row) \in Row /\ CancelledRow(row) \in Row /\ CancelledKeepingHold(row) \in Row
  BY DEF UnpaidRow, CancelledRow, CancelledKeepingHold
<1>3. MarkedRow(row, marks) \in Row
  BY DEF MarkedRow
<1> QED
  BY <1>1, <1>2, <1>3

LEMMA SettlementRowTypes ==
  ASSUME NEW row \in Row, NEW n \in Nat, NEW marks
  PROVE  /\ AutoConfirmedRow(row, marks) \in Row
         /\ RetriedRow(row) \in Row
         /\ MissingHoldRow(row) \in Row
         /\ SettledRow(row) \in Row
         /\ UnsettledRow(row, n) \in Row
<1> USE DEF Row, Status, SettlementStatus
<1>1. AutoConfirmedRow(row, marks) \in Row
  BY DEF AutoConfirmedRow
<1>2. RetriedRow(row) \in Row /\ MissingHoldRow(row) \in Row /\ SettledRow(row) \in Row
  BY DEF RetriedRow, MissingHoldRow, SettledRow
<1>3. UnsettledRow(row, n) \in Row
  <2>1. HasNextRetry(n) \in BOOLEAN
    BY DEF HasNextRetry
  <2>2. row.settlementRetryCount + 1 \in Nat
    OBVIOUS
  <2> QED
    BY <2>1, <2>2 DEF UnsettledRow
<1> QED
  BY <1>1, <1>2, <1>3

\* A key names a hold.
LEMMA HoldIdOfType == ASSUME NEW key \in HoldKey PROVE HoldIdOf[key] \in HoldId
  BY GatewayAssumption

LEMMA FirstKeyType == \A b \in Booking : FirstKey(b) \in HoldKey /\ FirstKey(b).booking = b
  BY SystemAssumption DEF FirstKey, HoldFor, HoldKey

LEMMA OwnHoldType ==
  ASSUME TypeOK, NEW hold, NEW b, OwnHold(hold, b)
  PROVE  hold \in HoldId /\ hold # NoHold
  BY HoldIdOfType, GatewayAssumption DEF OwnHold, TypeOK, TableTypeOK, GatewayTypeOK

LEMMA TypeInit == Init => TypeOK
<1> SUFFICES ASSUME Init PROVE TypeOK
  OBVIOUS
<1>1. booking \in [Booking -> Row]
  BY AbsentRowType, FirstKeyType, HoldIdOfType
  DEF Init, AbsentRow, Row, Status, SettlementStatus
<1>2. process \in [Process -> Frame]
  BY IdleType DEF Init
<1>3. GatewayTypeOK /\ cardholders \subseteq User
  BY FirstKeyType, SystemAssumption DEF Init, GatewayTypeOK
<1> QED
  BY <1>1, <1>2, <1>3 DEF TypeOK, TableTypeOK

LEMMA PerformType ==
  ASSUME GatewayTypeOK, NEW kind \in OperationKind, NEW b \in Booking, NEW h \in HoldId,
         NEW key \in OperationKey, Perform(kind, b, h, key)
  PROVE  GatewayTypeOK'
  BY DEF GatewayTypeOK, Perform, Operation

\* One handler moves, one row is written.
LEMMA ProcessType ==
  ASSUME process \in [Process -> Frame], NEW p \in Process
  PROVE  /\ \A f \in Frame : [process EXCEPT ![p] = f] \in [Process -> Frame]
         /\ \A label \in Label : [process EXCEPT ![p].at = label] \in [Process -> Frame]
  BY GoToType

LEMMA BookingType ==
  ASSUME booking \in [Booking -> Row], NEW b \in Booking, NEW row \in Row
  PROVE  [booking EXCEPT ![b] = row] \in [Booking -> Row]
  OBVIOUS

LEMMA HandlerType ==
  ASSUME TypeOK, NEW p \in Process
  PROVE  /\ process[p] \in Frame
         /\ process[p].at \in Label
         /\ process[p].booking \in Booking
         /\ process[p].key \in HoldKey \cup {NoHold}
         /\ process[p].hold \in HoldId \cup {NoHold}
         /\ process[p].marks \in SUBSET Mark
         /\ process[p].retryCount \in Nat
         /\ process[p].seen \in View
         /\ booking[process[p].booking] \in Row
  BY DEF TypeOK, TableTypeOK, Frame

LEMMA RowType ==
  ASSUME TypeOK, NEW b \in Booking
  PROVE  /\ booking[b] \in Row
         /\ booking[b].paymentHoldId \in HoldId \cup {NoHold}
         /\ Seen(booking[b]) \in View
         /\ booking[b].settlementRetryCount \in Nat
  BY SeenType DEF TypeOK, TableTypeOK, Row

\* The steps that leave the rows and the gateway alone.
LEMMA QuietType ==
  ASSUME TypeOK, process' \in [Process -> Frame],
         UNCHANGED <<booking, cardholders, holds, operations>>
  PROVE  TypeOK'
  BY DEF TypeOK, TableTypeOK, GatewayTypeOK

LEMMA KeyType ==
  ASSUME NEW purpose \in {"booking_hold", "booking_retry_hold"}, NEW b \in Booking,
         NEW t \in Token, NEW row \in Row
  PROVE  Authorizing(b, HoldFor(purpose, b, t), row) \in Frame
<1>1. HoldFor(purpose, b, t) \in HoldKey
  BY DEF HoldFor, HoldKey
<1>2. Starting("authorize", b, Seen(row)) \in Frame
  BY SeenType, StartingType DEF Label
<1> QED
  BY <1>1, <1>2 DEF Authorizing, Frame

LEMMA CallType ==
  ASSUME TypeOK, NEW p \in Process, Call(p)
  PROVE  TypeOK'
<1> USE DEF Call
<1>1. ASSUME NEW b \in Booking, NEW t \in Token, CreateBooking(p, b, t) PROVE TypeOK'
  BY <1>1, KeyType, ProcessType, BookingType, AbsentRowType
  DEF CreateBooking, TypeOK, TableTypeOK, GatewayTypeOK
<1>2. ASSUME NEW b \in Booking, NEW t \in Token, RetryPayment(p, b, t) PROVE TypeOK'
  BY <1>2, KeyType, RowType, ProcessType, QuietType DEF RetryPayment, TypeOK, TableTypeOK
<1>3. ASSUME NEW b \in Booking, CancelBooking(p, b) PROVE TypeOK'
  <2> DEFINE label == IF HasHoldToRelease(b) THEN "cancel_release" ELSE "record_cancel"
  <2>1. Starting(label, b, Seen(booking[b])) \in Frame
    BY StartingType, RowType DEF Label
  <2>2. [Starting(label, b, Seen(booking[b])) EXCEPT !.hold = booking[b].paymentHoldId] \in Frame
    BY <2>1, RowType DEF Frame
  <2> QED
    BY <1>3, <2>2, ProcessType, QuietType DEF CancelBooking, TypeOK, TableTypeOK
<1>4. ASSUME NEW b \in Booking, NEW a \in Parties, ConfirmReturn(p, b, a) PROVE TypeOK'
  <2> DEFINE marks == IF booking[b].status = "COMPLETED" THEN {"pending"}
                                                        ELSE OpenMarks(booking[b], a)
             start == Starting("record_confirmation", b, Seen(booking[b]))
  <2>1. marks \in SUBSET Mark
    BY DEF OpenMarks, Parties, Mark
  <2>2. start \in Frame
    BY StartingType, RowType DEF Label
  <2>3. [start EXCEPT !.marks = marks] \in Frame
    BY <2>1, <2>2 DEF Frame
  <2> QED
    BY <1>4, <2>3, ProcessType, QuietType DEF ConfirmReturn, TypeOK, TableTypeOK
<1>5. ASSUME NEW l, NEW d1, NEW d2, CancelBlockingBookings(p, l, d1, d2) PROVE TypeOK'
  <2>1. \A b \in Booking : booking[b] \in Row /\ CancelledKeepingHold(booking[b]) \in Row
    BY RowType, WorkflowRowTypes
  <2>2. booking' \in [Booking -> Row]
    BY <1>5, <2>1 DEF CancelBlockingBookings
  <2> QED
    BY <1>5, <2>2 DEF CancelBlockingBookings, TypeOK, TableTypeOK, GatewayTypeOK
<1>6. ASSUME NEW b \in Booking, ListExpired(p, b) \/ ListRetry(p, b) PROVE TypeOK'
  <2>1. /\ Starting("auto_cards", b, Seen(booking[b])) \in Frame
        /\ Starting("retry_mark", b, Seen(booking[b])) \in Frame
    BY StartingType, RowType DEF Label
  <2> QED
    BY <1>6, <2>1, ProcessType, QuietType DEF ListExpired, ListRetry, TypeOK, TableTypeOK
<1> QED
  BY <1>1, <1>2, <1>3, <1>4, <1>5, <1>6

\* The handler returns.
LEMMA ReturnType ==
  ASSUME TypeOK, NEW p \in Process, Return(p),
         UNCHANGED <<booking, cardholders, holds, operations>>
  PROVE  TypeOK'
  BY IdleType, ProcessType, QuietType DEF TypeOK, TableTypeOK

\* It goes on without writing.
LEMMA MoveType ==
  ASSUME TypeOK, NEW p \in Process, NEW label \in Label, GoTo(p, label),
         UNCHANGED <<booking, cardholders, holds, operations>>
  PROVE  TypeOK'
  BY ProcessType, QuietType DEF TypeOK, TableTypeOK

\* It writes its row and returns, or goes on.
LEMMA WriteType ==
  ASSUME TypeOK, NEW p \in Process, NEW row \in Row, NEW f \in Frame,
         booking' = [booking EXCEPT ![process[p].booking] = row],
         process' = [process EXCEPT ![p] = f],
         UNCHANGED <<cardholders, holds, operations>>
  PROVE  TypeOK'
  BY HandlerType, ProcessType, BookingType DEF TypeOK, TableTypeOK, GatewayTypeOK

LEMMA WriteGoType ==
  ASSUME TypeOK, NEW p \in Process, NEW row \in Row, NEW label \in Label,
         booking' = [booking EXCEPT ![process[p].booking] = row], GoTo(p, label),
         UNCHANGED <<cardholders, holds, operations>>
  PROVE  TypeOK'
<1>1. process' \in [Process -> Frame]
  BY ProcessType DEF TypeOK, TableTypeOK
<1> QED
  BY <1>1, HandlerType, BookingType DEF TypeOK, TableTypeOK, GatewayTypeOK

\* It has an operation performed on the hold it carries, and goes on.
LEMMA ChargeType ==
  ASSUME TypeOK, NEW p \in Process, NEW kind \in OperationKind, NEW label \in Label,
         NEW key \in OperationKey,
         process[p].hold \in HoldId, Perform(kind, process[p].booking, process[p].hold, key),
         GoTo(p, label), UNCHANGED <<booking, cardholders>>
  PROVE  TypeOK'
<1>1. GatewayTypeOK'
  BY HandlerType, PerformType DEF TypeOK, TableTypeOK
<1> QED
  BY <1>1, ProcessType DEF TypeOK, TableTypeOK

LEMMA OperationKeyType ==
  ASSUME NEW b \in Booking
  PROVE  /\ CaptureKey(b) \in OperationKey
         /\ ReleaseKey(b) \in OperationKey
         /\ CancelReleaseKey(b) \in OperationKey
  BY DEF CaptureKey, ReleaseKey, CancelReleaseKey, OperationKey

LEMMA PaymentType ==
  ASSUME TypeOK, HoldInv, NEW p \in Process, UNCHANGED cardholders,
         \/ HoldAuthorized(p) \/ RecordHold(p) \/ Notified(p)
         \/ PaymentFails(p) \/ RecordFailure(p)
         \/ CancelReleaseOk(p) \/ CancelReleaseFails(p) \/ RecordCancel(p)
  PROVE  TypeOK'
<1> DEFINE row == booking[process[p].booking]
<1>1. CASE HoldAuthorized(p)
  <2>1. process[p].key \in HoldKey
    BY <1>1 DEF HoldAuthorized, HoldInv, HandlerHold
  <2>2. process' \in [Process -> Frame]
    BY <1>1, ProcessType DEF HoldAuthorized, TypeOK, TableTypeOK, Label
  <2> QED
    BY <1>1, <2>1, <2>2 DEF HoldAuthorized, AuthorizeHold, TypeOK, TableTypeOK, GatewayTypeOK
<1>2. CASE PaymentFails(p)
  BY <1>2, MoveType DEF PaymentFails, Label
<1>3. CASE RecordHold(p)
  <2>1. process[p].key \in HoldKey
    BY <1>3 DEF RecordHold, HoldInv, HandlerHold
  <2>2. ConfirmedRow(row, HoldIdOf[process[p].key]) \in Row
    BY <2>1, HoldIdOfType, HandlerType, WorkflowRowTypes
  <2> QED
    BY <1>3, <2>2, WriteGoType DEF RecordHold, Label
<1>4. CASE RecordFailure(p)
  BY <1>4, HandlerType, WorkflowRowTypes, IdleType, WriteType DEF RecordFailure
<1>5. CASE CancelReleaseOk(p)
  <2>1. process[p].hold \in HoldId
    BY <1>5, OwnHoldType DEF CancelReleaseOk, HoldInv, HandlerHold
  <2> QED
    BY <1>5, <2>1, HandlerType, OperationKeyType, ChargeType
    DEF CancelReleaseOk, OperationKind, Label
<1>6. CASE CancelReleaseFails(p) \/ Notified(p)
  BY <1>6, ReturnType DEF CancelReleaseFails, Notified
<1>7. CASE RecordCancel(p)
  BY <1>7, HandlerType, WorkflowRowTypes, IdleType, WriteType DEF RecordCancel
<1> QED
  BY <1>1, <1>2, <1>3, <1>4, <1>5, <1>6, <1>7

LEMMA ReturningType ==
  ASSUME TypeOK, NEW p \in Process, UNCHANGED cardholders,
         \/ RecordConfirmation(p) \/ CheckCards(p) \/ CheckExpired(p) \/ AutoConfirm(p)
         \/ MarkRetry(p)
  PROVE  TypeOK'
<1> DEFINE row == booking[process[p].booking]
           marks == process[p].marks
<1>1. ASSUME NEW new \in Row PROVE Starting("settle", process[p].booking, Seen(new)) \in Frame
  BY HandlerType, SeenType, StartingType DEF Label
<1>2. CASE RecordConfirmation(p)
  <2>1. MarkedRow(row, marks) \in Row
    BY HandlerType, WorkflowRowTypes
  <2> QED
    BY <1>1, <1>2, <2>1, IdleType, WriteType DEF RecordConfirmation
<1>3. CASE CheckCards(p)
  BY <1>3, ReturnType, MoveType DEF CheckCards, Label
<1>4. CASE CheckExpired(p)
  <2> DEFINE f == process[p]
             decided == {m \in {"pending"} : row.settlementStatus \in {"NONE", "FAILED"}}
  <2>1. row.settlementStatus \in SettlementStatus /\ decided \in SUBSET Mark
    BY HandlerType DEF Row, Mark
  <2>2. [f.seen EXCEPT !.settlement = row.settlementStatus] \in View
    BY <2>1, HandlerType DEF View
  <2>3. [f EXCEPT !.at = "auto_record", !.marks = decided,
                  !.seen.settlement = row.settlementStatus] \in Frame
    BY <2>1, <2>2, HandlerType DEF Frame, Label
  <2> QED
    BY <1>4, <2>3, IdleType, ProcessType, QuietType DEF CheckExpired, TypeOK, TableTypeOK
<1>5. CASE AutoConfirm(p)
  <2>1. AutoConfirmedRow(row, marks) \in Row
    BY HandlerType, SettlementRowTypes
  <2> QED
    BY <1>1, <1>5, <2>1, IdleType, WriteType DEF AutoConfirm
<1>6. CASE MarkRetry(p)
  <2>1. RetriedRow(row) \in Row
    BY HandlerType, SettlementRowTypes
  <2> QED
    BY <1>1, <1>6, <2>1, WriteType DEF MarkRetry
<1> QED
  BY <1>2, <1>3, <1>4, <1>5, <1>6

LEMMA SettlementType ==
  ASSUME TypeOK, HoldInv, NEW p \in Process, UNCHANGED cardholders,
         \/ AttemptSettlement(p) \/ AlreadySettled(p) \/ RecordMissingHold(p)
         \/ CaptureRent(p) \/ ReleaseDeposit(p) \/ RecordSettled(p) \/ SettlementNotified(p)
         \/ SettlementFails(p) \/ RecordFailed(p)
  PROVE  TypeOK'
<1> DEFINE b == process[p].booking
           row == booking[process[p].booking]
<1>1. CASE AttemptSettlement(p)
  <2>1. FirstStep(b) \in Label
    BY DEF FirstStep, NextCharge, Label
  <2>2. [process[p] EXCEPT !.at = FirstStep(b), !.hold = row.paymentHoldId,
                           !.retryCount = row.settlementRetryCount] \in Frame
    BY <2>1, HandlerType, RowType DEF Frame
  <2> QED
    BY <1>1, <2>2, ProcessType, QuietType DEF AttemptSettlement, TypeOK, TableTypeOK
<1>2. CASE AlreadySettled(p) \/ SettlementNotified(p)
  BY <1>2, ReturnType DEF AlreadySettled, SettlementNotified
<1>3. CASE RecordMissingHold(p)
  BY <1>3, HandlerType, SettlementRowTypes, IdleType, WriteType DEF RecordMissingHold
<1>4. CASE CaptureRent(p)
  <2>1. process[p].hold \in HoldId
    BY <1>4, OwnHoldType DEF CaptureRent, HoldInv, HandlerHold
  <2>2. AfterCapture(b) \in Label
    BY DEF AfterCapture, Label
  <2> QED
    BY <1>4, <2>1, <2>2, HandlerType, OperationKeyType, ChargeType DEF CaptureRent, OperationKind
<1>5. CASE ReleaseDeposit(p)
  <2>1. process[p].hold \in HoldId
    BY <1>5, OwnHoldType DEF ReleaseDeposit, HoldInv, HandlerHold
  <2> QED
    BY <1>5, <2>1, HandlerType, OperationKeyType, ChargeType
    DEF ReleaseDeposit, OperationKind, Label
<1>6. CASE SettlementFails(p)
  BY <1>6, MoveType DEF SettlementFails, Label
<1>7. CASE RecordSettled(p)
  BY <1>7, HandlerType, SettlementRowTypes, WriteGoType DEF RecordSettled, Label
<1>8. CASE RecordFailed(p)
  BY <1>8, HandlerType, SettlementRowTypes, IdleType, WriteType DEF RecordFailed
<1> QED
  BY <1>1, <1>2, <1>3, <1>4, <1>5, <1>6, <1>7, <1>8

LEMMA TypeStep == TypeOK /\ HoldInv /\ [Next]_vars => TypeOK'
<1> SUFFICES ASSUME TypeOK, HoldInv, [Next]_vars PROVE TypeOK'
  OBVIOUS
<1>1. CASE UNCHANGED vars
  BY <1>1 DEF TypeOK, TableTypeOK, GatewayTypeOK
<1>2. ASSUME NEW p \in Process, Continue(p) PROVE TypeOK'
  BY <1>2, PaymentType, ReturningType, SettlementType DEF Continue
<1>3. ASSUME NEW p \in Process, Crash(p) PROVE TypeOK'
  BY <1>3, ReturnType DEF Crash
<1>4. CASE Cards
  BY <1>4 DEF Cards, TypeOK, TableTypeOK, GatewayTypeOK
<1> QED
  BY <1>1, <1>2, <1>3, <1>4, CallType DEF Next

-----------------------------------------------------------------------------
(* What a step may do to what it does not work on: the common part of the  *)
(* proofs that follow.                                                     *)

\* Confirmations of a return are never taken back.
KeepsConfirmations(old, new) ==
    /\ old.returnRenterConfirmed => new.returnRenterConfirmed
    /\ old.returnLandlordConfirmed => new.returnLandlordConfirmed
    /\ old.returnMutualConfirmed => new.returnMutualConfirmed
    /\ old.returnAutoConfirmed => new.returnAutoConfirmed

\* A row is left alone, or written and never erased.
RowGrows(b) ==
    \/ booking'[b] = booking[b]
    \/ /\ booking'[b].status # "ABSENT"
       /\ booking[b].status # "ABSENT" => KeepsConfirmations(booking[b], booking'[b])

Shape(p) ==
    /\ \A q \in Process \ {p} : process'[q] = process[q]
    /\ \A b \in Booking : RowGrows(b)
    /\ process'[p].at # "idle" => booking'[process'[p].booking].status # "ABSENT"
    /\ holds \subseteq holds' /\ operations \subseteq operations'

\* The fields of what the workflow writes.
LEMMA WorkflowRowFields ==
  ASSUME NEW row \in Row, NEW h, NEW marks, row.status # "ABSENT"
  PROVE  \A new \in {ConfirmedRow(row, h), UnpaidRow(row), CancelledRow(row),
                     CancelledKeepingHold(row), MarkedRow(row, marks)} :
             new.status # "ABSENT" /\ KeepsConfirmations(row, new)
  BY DEF Row, Status, ConfirmedRow, UnpaidRow, CancelledRow, CancelledKeepingHold,
         MarkedRow, KeepsConfirmations

LEMMA SettlementRowFields ==
  ASSUME NEW row \in Row, NEW n, NEW marks, row.status # "ABSENT"
  PROVE  \A new \in {AutoConfirmedRow(row, marks), RetriedRow(row), MissingHoldRow(row),
                     SettledRow(row), UnsettledRow(row, n)} :
             new.status # "ABSENT" /\ KeepsConfirmations(row, new)
  BY DEF Row, Status, AutoConfirmedRow, RetriedRow, MissingHoldRow, SettledRow,
         UnsettledRow, KeepsConfirmations

\* A handler that moves without writing.
LEMMA MoveShape ==
  ASSUME TypeOK, NEW p \in Process, NEW f \in Frame,
         f.at # "idle" => booking[f.booking].status # "ABSENT",
         process' = [process EXCEPT ![p] = f],
         booking' = booking, holds \subseteq holds', operations \subseteq operations'
  PROVE  Shape(p)
  BY DEF Shape, RowGrows, TypeOK, TableTypeOK

LEMMA GoToShape ==
  ASSUME TypeOK, PresenceInv, NEW p \in Process, NEW label, ~At(p, "idle"), GoTo(p, label),
         booking' = booking, holds \subseteq holds', operations \subseteq operations'
  PROVE  Shape(p)
<1>1. process'[p].booking = process[p].booking
  BY HandlerType DEF TypeOK, TableTypeOK, Frame
<1> QED
  BY <1>1 DEF Shape, RowGrows, PresenceInv, TypeOK, TableTypeOK

\* A handler that writes its row.
LEMMA WriteShape ==
  ASSUME TypeOK, PresenceInv, NEW p \in Process, ~At(p, "idle"), NEW row, NEW f \in Frame,
         f.at = "idle" \/ f.booking = process[p].booking,
         row.status # "ABSENT",
         KeepsConfirmations(booking[process[p].booking], row),
         booking' = [booking EXCEPT ![process[p].booking] = row],
         process' = [process EXCEPT ![p] = f],
         UNCHANGED <<holds, operations>>
  PROVE  Shape(p)
  BY HandlerType DEF Shape, RowGrows, TypeOK, TableTypeOK

LEMMA WriteGoShape ==
  ASSUME TypeOK, PresenceInv, NEW p \in Process, ~At(p, "idle"), NEW row, NEW label,
         row.status # "ABSENT",
         KeepsConfirmations(booking[process[p].booking], row),
         booking' = [booking EXCEPT ![process[p].booking] = row], GoTo(p, label),
         UNCHANGED <<holds, operations>>
  PROVE  Shape(p)
<1>1. process'[p].booking = process[p].booking
  BY HandlerType DEF TypeOK, TableTypeOK, Frame
<1> QED
  BY <1>1, HandlerType DEF Shape, RowGrows, TypeOK, TableTypeOK

LEMMA IdleAt == Idle.at = "idle"
  BY DEF Idle, Starting

LEMMA CallShape ==
  ASSUME TypeOK, PresenceInv, NEW p \in Process, Call(p)
  PROVE  Shape(p)
<1> USE DEF Starting
<1>1. ASSUME NEW b \in Booking, NEW t \in Token, CreateBooking(p, b, t) PROVE Shape(p)
  <2>1. process'[p].booking = b
    BY <1>1 DEF CreateBooking, Authorizing, TypeOK, TableTypeOK
  <2>2. booking'[b].status = "PENDING_PAYMENT"
    BY <1>1 DEF CreateBooking, CreatedRow, AbsentRow, TypeOK, TableTypeOK
  <2>3. \A c \in Booking \ {b} : booking'[c] = booking[c]
    BY <1>1 DEF CreateBooking, TypeOK, TableTypeOK
  <2>4. booking[b].status = "ABSENT"
    BY <1>1 DEF CreateBooking
  <2>5. \A c \in Booking : RowGrows(c)
    BY <2>2, <2>3, <2>4 DEF RowGrows
  <2> QED
    BY <1>1, <2>1, <2>2, <2>5 DEF CreateBooking, Shape, TypeOK, TableTypeOK
<1>2. ASSUME NEW b \in Booking, NEW t \in Token, RetryPayment(p, b, t) PROVE Shape(p)
  BY <1>2 DEF RetryPayment, Authorizing, Shape, RowGrows, TypeOK, TableTypeOK
<1>3. ASSUME NEW b \in Booking, CancelBooking(p, b) PROVE Shape(p)
  BY <1>3 DEF CancelBooking, Cancellable, Shape, RowGrows, TypeOK, TableTypeOK
<1>4. ASSUME NEW b \in Booking, NEW a \in Parties, ConfirmReturn(p, b, a) PROVE Shape(p)
  BY <1>4 DEF ConfirmReturn, Shape, RowGrows, TypeOK, TableTypeOK
<1>5. ASSUME NEW l, NEW d1, NEW d2, CancelBlockingBookings(p, l, d1, d2) PROVE Shape(p)
  <2>1. ASSUME NEW b \in Booking PROVE RowGrows(b)
    <3>1. CASE booking'[b] = booking[b]
      BY <3>1 DEF RowGrows
    <3>2. CASE Blocking(b) /\ booking'[b] = CancelledKeepingHold(booking[b])
      <4>1. booking[b] \in Row /\ booking[b].status # "ABSENT"
        BY <3>2, RowType DEF Blocking, BlockingStatus
      <4> QED
        BY <3>2, <4>1, WorkflowRowFields DEF RowGrows
    <3> QED
      BY <1>5, <3>1, <3>2 DEF CancelBlockingBookings
  <2>2. UNCHANGED <<process, holds, operations>> /\ At(p, "idle")
    BY <1>5 DEF CancelBlockingBookings
  <2> QED
    BY <2>1, <2>2 DEF Shape
<1>6. ASSUME NEW b \in Booking, ListExpired(p, b) \/ ListRetry(p, b) PROVE Shape(p)
  BY <1>6 DEF ListExpired, AwaitsLandlord, ListRetry, DueForRetry,
              Shape, RowGrows, TypeOK, TableTypeOK
<1> QED
  BY <1>1, <1>2, <1>3, <1>4, <1>5, <1>6 DEF Call

LEMMA ReturnShape ==
  ASSUME TypeOK, NEW p \in Process, Return(p), UNCHANGED <<booking, holds, operations>>
  PROVE  Shape(p)
  BY IdleAt, IdleType, MoveShape

LEMMA PerformGrows ==
  ASSUME NEW kind, NEW b, NEW h, NEW key, Perform(kind, b, h, key)
  PROVE  operations \subseteq operations' /\ holds \subseteq holds'
  BY DEF Perform

LEMMA ContinueShape ==
  ASSUME TypeOK, PresenceInv, NEW p \in Process, Continue(p)
  PROVE  Shape(p)
<1> DEFINE b == process[p].booking
           row == booking[process[p].booking]
<1>1. b \in Booking /\ row \in Row
  BY HandlerType
<1>2. process[p].at # "idle" => row.status # "ABSENT"
  BY DEF PresenceInv
<1>3. ASSUME NEW new \in Row
      PROVE  /\ Starting("settle", b, Seen(new)) \in Frame
             /\ Starting("settle", b, Seen(new)).booking = b
  BY <1>1, SeenType, StartingType DEF Label, Starting
<1>4. CASE HoldAuthorized(p)
  BY <1>4, GoToShape DEF HoldAuthorized, AuthorizeHold
<1>5. CASE PaymentFails(p) \/ SettlementFails(p)
  BY <1>5, GoToShape DEF PaymentFails, SettlementFails
<1>6. CASE CancelReleaseOk(p) \/ CaptureRent(p) \/ ReleaseDeposit(p)
  BY <1>6, GoToShape, PerformGrows DEF CancelReleaseOk, CaptureRent, ReleaseDeposit
<1>7. CASE \/ CancelReleaseFails(p) \/ AlreadySettled(p)
           \/ Notified(p) \/ SettlementNotified(p)
  BY <1>7, ReturnShape DEF CancelReleaseFails, AlreadySettled, Notified, SettlementNotified
<1>8. CASE RecordHold(p) \/ RecordFailure(p) \/ RecordCancel(p)
  <2>1. CASE RecordHold(p)
    BY <1>1, <1>2, <2>1, WorkflowRowFields, WriteGoShape DEF RecordHold
  <2>2. CASE RecordFailure(p)
    BY <1>1, <1>2, <2>2, WorkflowRowFields, IdleAt, IdleType, WriteShape DEF RecordFailure
  <2>3. CASE RecordCancel(p)
    BY <1>1, <1>2, <2>3, WorkflowRowFields, IdleAt, IdleType, WriteShape DEF RecordCancel
  <2> QED
    BY <1>8, <2>1, <2>2, <2>3
<1>9. CASE RecordConfirmation(p)
  <2> DEFINE new == MarkedRow(row, process[p].marks)
             f == IF "pending" \in process[p].marks THEN Starting("settle", b, Seen(new)) ELSE Idle
  <2>1. new \in Row
    BY <1>1, WorkflowRowTypes
  <2>2. f \in Frame /\ (f.at = "idle" \/ f.booking = b)
    BY <1>3, <2>1, IdleAt, IdleType
  <2>3. new.status # "ABSENT" /\ KeepsConfirmations(row, new)
    BY <1>1, <1>2, <1>9, WorkflowRowFields DEF RecordConfirmation
  <2> QED
    BY <1>9, <2>2, <2>3, WriteShape DEF RecordConfirmation
<1>10. CASE CheckCards(p)
  BY <1>10, GoToShape, ReturnShape DEF CheckCards
<1>11. CASE CheckExpired(p)
  <2>1. process'[p].at # "idle" => process'[p].booking = b
    BY <1>11, IdleAt DEF CheckExpired, Frame, TypeOK, TableTypeOK
  <2> QED
    BY <1>1, <1>2, <1>11, <2>1 DEF CheckExpired, Shape, RowGrows, TypeOK, TableTypeOK
<1>12. CASE AutoConfirm(p)
  <2> DEFINE new == AutoConfirmedRow(row, process[p].marks)
             f == IF new.settlementStatus = "PENDING" THEN Starting("settle", b, Seen(new)) ELSE Idle
  <2>1. new \in Row
    BY <1>1, SettlementRowTypes
  <2>2. f \in Frame /\ (f.at = "idle" \/ f.booking = b)
    BY <1>3, <2>1, IdleAt, IdleType
  <2>3. new.status # "ABSENT" /\ KeepsConfirmations(row, new)
    BY <1>1, <1>2, <1>12, SettlementRowFields DEF AutoConfirm
  <2> QED
    BY <1>12, <2>2, <2>3, WriteShape DEF AutoConfirm
<1>13. CASE MarkRetry(p)
  <2>1. RetriedRow(row) \in Row
    BY <1>1, SettlementRowTypes
  <2> QED
    BY <1>1, <1>2, <1>3, <1>13, <2>1, SettlementRowFields, WriteShape DEF MarkRetry
<1>14. CASE AttemptSettlement(p)
  BY <1>1, <1>2, <1>14
  DEF AttemptSettlement, Shape, RowGrows, Frame, TypeOK, TableTypeOK
<1>15. CASE RecordMissingHold(p) \/ RecordSettled(p) \/ RecordFailed(p)
  <2>1. CASE RecordMissingHold(p)
    BY <1>1, <1>2, <2>1, SettlementRowFields, IdleAt, IdleType, WriteShape
    DEF RecordMissingHold
  <2>2. CASE RecordFailed(p)
    BY <1>1, <1>2, <2>2, SettlementRowFields, IdleAt, IdleType, WriteShape DEF RecordFailed
  <2>3. CASE RecordSettled(p)
    BY <1>1, <1>2, <2>3, SettlementRowFields, WriteGoShape DEF RecordSettled
  <2> QED
    BY <1>15, <2>1, <2>2, <2>3
<1> QED
  BY <1>4, <1>5, <1>6, <1>7, <1>8, <1>9, <1>10, <1>11, <1>12, <1>13, <1>14, <1>15
  DEF Continue

\* Every step but that of a card is one of a handler.
LEMMA StepShape ==
  ASSUME TypeOK, PresenceInv, NEW p \in Process, Call(p) \/ Continue(p) \/ Crash(p)
  PROVE  Shape(p)
  BY CallShape, ContinueShape, ReturnShape DEF Crash

LEMMA PresenceStep == TypeOK /\ PresenceInv /\ [Next]_vars /\ TypeOK' => PresenceInv'
<1> SUFFICES ASSUME TypeOK, PresenceInv, [Next]_vars, TypeOK' PROVE PresenceInv'
  OBVIOUS
<1>1. CASE UNCHANGED vars \/ Cards
  BY <1>1 DEF PresenceInv, Cards
<1>2. ASSUME NEW p \in Process, Shape(p) PROVE PresenceInv'
  <2>1. ASSUME NEW b \in Booking, booking'[b].status = "ABSENT" PROVE booking'[b] = AbsentRow
    BY <1>2, <2>1 DEF Shape, RowGrows, PresenceInv
  <2>2. ASSUME NEW q \in Process, process'[q].at # "idle"
        PROVE  booking'[process'[q].booking].status # "ABSENT"
    <3>1. CASE q = p
      BY <1>2, <2>2, <3>1 DEF Shape
    <3>2. CASE q # p
      BY <1>2, <2>2, <3>2, HandlerType DEF Shape, RowGrows, PresenceInv
    <3> QED
      BY <3>1, <3>2
  <2> QED
    BY <2>1, <2>2 DEF PresenceInv
<1> QED
  BY <1>1, <1>2, StepShape DEF Next

\* The steps of a handler in flight that write no row.
QuietStep(p) ==
    \/ HoldAuthorized(p) \/ Notified(p) \/ PaymentFails(p)
    \/ CancelReleaseOk(p) \/ CancelReleaseFails(p)
    \/ CheckCards(p) \/ CheckExpired(p) \/ AttemptSettlement(p) \/ AlreadySettled(p)
    \/ CaptureRent(p) \/ ReleaseDeposit(p) \/ SettlementNotified(p) \/ SettlementFails(p)

LEMMA QuietStepKeepsRows == ASSUME NEW p, QuietStep(p) PROVE booking' = booking
  BY DEF QuietStep, HoldAuthorized, Notified, PaymentFails, CancelReleaseOk,
         CancelReleaseFails, CheckCards, CheckExpired, AttemptSettlement, AlreadySettled,
         CaptureRent, ReleaseDeposit, SettlementNotified, SettlementFails

-----------------------------------------------------------------------------
(* Holds belong to the booking they are used for.                          *)

\* What is written keeps the hold of the row, but for these three:
\* ConfirmedRow, which writes the handler's, and CancelledRow and AbsentRow.
KeepsHold(old, new) == /\ new.paymentHoldId = old.paymentHoldId
                       /\ new.status = "CONFIRMED" => old.status = "CONFIRMED"

LEMMA KeepsHoldRows ==
  ASSUME NEW row \in Row, NEW marks, NEW n
  PROVE  \A new \in {UnpaidRow(row), CancelledKeepingHold(row), MarkedRow(row, marks),
                     AutoConfirmedRow(row, marks), RetriedRow(row), MissingHoldRow(row),
                     SettledRow(row), UnsettledRow(row, n)} : KeepsHold(row, new)
  BY DEF Row, KeepsHold, UnpaidRow, CancelledKeepingHold, MarkedRow, AutoConfirmedRow,
         RetriedRow, MissingHoldRow, SettledRow, UnsettledRow

LEMMA RowHoldKept ==
  ASSUME NEW b \in Booking, RowHold(b), holds \subseteq holds',
         KeepsHold(booking[b], booking'[b])
  PROVE  RowHold(b)'
  BY DEF RowHold, KeepsHold, OwnHold

\* The row of every booking, after a step that Shape describes and that writes
\* at most one row in this way.
LEMMA RowsHoldKept ==
  ASSUME TypeOK, HoldInv, NEW b \in Booking, NEW row,
         booking' = [booking EXCEPT ![b] = row], KeepsHold(booking[b], row),
         holds \subseteq holds'
  PROVE  \A c \in Booking : RowHold(c)'
<1> SUFFICES ASSUME NEW c \in Booking PROVE RowHold(c)'
  OBVIOUS
<1>1. KeepsHold(booking[c], booking'[c])
  BY DEF TypeOK, TableTypeOK, KeepsHold
<1> QED
  BY <1>1, RowHoldKept DEF HoldInv

LEMMA RowsHoldSame ==
  ASSUME HoldInv, booking' = booking, holds \subseteq holds'
  PROVE  \A c \in Booking : RowHold(c)'
  BY DEF HoldInv, RowHold, OwnHold

LEMMA CallRowHold ==
  ASSUME TypeOK, HoldInv, NEW p \in Process, Call(p)
  PROVE  \A b \in Booking : RowHold(b)'
<1>1. ASSUME NEW b \in Booking, NEW t \in Token, CreateBooking(p, b, t)
      PROVE  \A c \in Booking : RowHold(c)'
  <2> SUFFICES ASSUME NEW c \in Booking PROVE RowHold(c)'
    OBVIOUS
  <2>1. CASE c = b
    BY <1>1, <2>1 DEF CreateBooking, CreatedRow, AbsentRow, RowHold, TypeOK, TableTypeOK
  <2>2. CASE c # b
    BY <1>1, <2>2 DEF CreateBooking, HoldInv, RowHold, OwnHold, TypeOK, TableTypeOK
  <2> QED
    BY <2>1, <2>2
<1>2. ASSUME NEW l, NEW d1, NEW d2, CancelBlockingBookings(p, l, d1, d2)
      PROVE  \A c \in Booking : RowHold(c)'
  <2> SUFFICES ASSUME NEW c \in Booking PROVE RowHold(c)'
    OBVIOUS
  <2>1. booking'[c] = booking[c] \/ booking'[c] = CancelledKeepingHold(booking[c])
    BY <1>2 DEF CancelBlockingBookings
  <2>2. KeepsHold(booking[c], booking'[c])
    BY <2>1, RowType, KeepsHoldRows DEF KeepsHold
  <2> QED
    BY <1>2, <2>2, RowHoldKept DEF CancelBlockingBookings, HoldInv
<1>3. ASSUME NEW b \in Booking,
             \/ \E t \in Token : RetryPayment(p, b, t)
             \/ CancelBooking(p, b) \/ ListExpired(p, b) \/ ListRetry(p, b)
             \/ \E a \in Parties : ConfirmReturn(p, b, a)
      PROVE  \A c \in Booking : RowHold(c)'
  <2>1. booking' = booking /\ holds' = holds
    BY <1>3 DEF RetryPayment, CancelBooking, ListExpired, ListRetry, ConfirmReturn
  <2> QED
    BY <2>1, RowsHoldSame
<1> QED
  BY <1>1, <1>2, <1>3 DEF Call

LEMMA ContinueRowHold ==
  ASSUME TypeOK, HoldInv, NEW p \in Process, Continue(p), holds \subseteq holds'
  PROVE  \A b \in Booking : RowHold(b)'
<1> DEFINE b == process[p].booking
           row == booking[process[p].booking]
<1>1. b \in Booking /\ row \in Row
  BY HandlerType
<1>2. CASE QuietStep(p)
  <2>1. booking' = booking
    BY <1>2, QuietStepKeepsRows
  <2> QED
    BY <2>1, RowsHoldSame
<1>3. CASE RecordHold(p)
  <2> SUFFICES ASSUME NEW c \in Booking PROVE RowHold(c)'
    OBVIOUS
  <2>1. CASE c = b
    <3>0. PICK h : h = HoldIdOf[process[p].key]
      OBVIOUS
    <3>1. OwnHold(h, c)
      BY <1>3, <2>1, <3>0 DEF RecordHold, HoldInv, HandlerHold, OwnHold
    <3>2. booking'[c].paymentHoldId = h
      BY <1>1, <1>3, <2>1, <3>0 DEF RecordHold, ConfirmedRow, Row, TypeOK, TableTypeOK
    <3>3. h # NoHold
      BY <3>1, OwnHoldType
    <3>4. OwnHold(h, c)'
      BY <1>3, <3>1 DEF RecordHold, OwnHold
    <3> QED
      BY <3>2, <3>3, <3>4 DEF RowHold
  <2>2. CASE c # b
    BY <1>3, <2>2 DEF RecordHold, HoldInv, RowHold, OwnHold, TypeOK, TableTypeOK
  <2> QED
    BY <2>1, <2>2
<1>4. CASE RecordCancel(p)
  <2> SUFFICES ASSUME NEW c \in Booking PROVE RowHold(c)'
    OBVIOUS
  <2>1. CASE c = b
    BY <1>1, <1>4, <2>1 DEF RecordCancel, CancelledRow, RowHold, Row, TypeOK, TableTypeOK
  <2>2. CASE c # b
    BY <1>4, <2>2 DEF RecordCancel, HoldInv, RowHold, OwnHold, TypeOK, TableTypeOK
  <2> QED
    BY <2>1, <2>2
<1>5. CASE RecordFailure(p) \/ RecordConfirmation(p) \/ AutoConfirm(p) \/ MarkRetry(p)
  BY <1>1, <1>5, KeepsHoldRows, RowsHoldKept
  DEF RecordFailure, RecordConfirmation, AutoConfirm, MarkRetry
<1>6. CASE RecordMissingHold(p) \/ RecordSettled(p) \/ RecordFailed(p)
  BY <1>1, <1>6, KeepsHoldRows, RowsHoldKept
  DEF RecordMissingHold, RecordSettled, RecordFailed
<1> QED
  BY <1>2, <1>3, <1>4, <1>5, <1>6 DEF Continue, QuietStep

\* The handler that made the step.
LEMMA CallHandlerHold ==
  ASSUME TypeOK, HoldInv, NEW p \in Process, Call(p)
  PROVE  HandlerHold(p)'
<1> USE DEF HandlerHold, Starting
<1>1. ASSUME NEW b \in Booking, NEW t \in Token,
             CreateBooking(p, b, t) \/ RetryPayment(p, b, t)
      PROVE  HandlerHold(p)'
  <2> DEFINE key == process'[p].key
  <2>1. process'[p].at = "authorize" /\ process'[p].booking = b
    BY <1>1 DEF CreateBooking, RetryPayment, Authorizing, TypeOK, TableTypeOK
  <2>2. key \in {HoldFor("booking_hold", b, t), HoldFor("booking_retry_hold", b, t)}
    BY <1>1 DEF CreateBooking, RetryPayment, Authorizing, TypeOK, TableTypeOK
  <2>3. key \in HoldKey /\ key.booking = b
    BY <2>2 DEF HoldFor, HoldKey
  <2> QED
    BY <2>1, <2>3
<1>2. ASSUME NEW b \in Booking, CancelBooking(p, b) PROVE HandlerHold(p)'
  <2>1. process'[p].at \in {"cancel_release", "record_cancel"} /\ process'[p].booking = b
        /\ process'[p].hold = booking[b].paymentHoldId /\ holds' = holds
    BY <1>2 DEF CancelBooking, TypeOK, TableTypeOK
  <2>2. CASE HasHoldToRelease(b)
    <3>1. OwnHold(booking[b].paymentHoldId, b)
      BY <2>2 DEF HasHoldToRelease, HoldInv, RowHold
    <3> QED
      BY <2>1, <3>1 DEF OwnHold
  <2>3. CASE ~HasHoldToRelease(b)
    <3>1. process'[p].at = "record_cancel"
      BY <1>2, <2>3 DEF CancelBooking, TypeOK, TableTypeOK
    <3> QED
      BY <3>1
  <2> QED
    BY <2>2, <2>3
<1>3. ASSUME NEW b \in Booking, NEW a \in Parties, ConfirmReturn(p, b, a)
      PROVE  HandlerHold(p)'
  BY <1>3 DEF ConfirmReturn, TypeOK, TableTypeOK
<1>4. ASSUME NEW l, NEW d1, NEW d2, CancelBlockingBookings(p, l, d1, d2)
      PROVE  HandlerHold(p)'
  BY <1>4 DEF CancelBlockingBookings
<1>5. ASSUME NEW b \in Booking, ListExpired(p, b) \/ ListRetry(p, b) PROVE HandlerHold(p)'
  BY <1>5 DEF ListExpired, ListRetry, TypeOK, TableTypeOK
<1> QED
  BY <1>1, <1>2, <1>3, <1>4, <1>5 DEF Call

LEMMA ReturnHandlerHold ==
  ASSUME TypeOK, NEW p \in Process, Return(p)
  PROVE  HandlerHold(p)'
  BY IdleAt DEF HandlerHold, TypeOK, TableTypeOK

LEMMA ContinueHandlerHold ==
  ASSUME TypeOK, HoldInv, NEW p \in Process, Continue(p)
  PROVE  HandlerHold(p)'
<1> USE DEF HandlerHold
<1>1. process[p] \in Frame /\ HandlerHold(p)
  BY HandlerType DEF HoldInv
<1>2. CASE HoldAuthorized(p)
  BY <1>1, <1>2
  DEF HoldAuthorized, AuthorizeHold, OwnHold, Frame, TypeOK, TableTypeOK
<1>3. CASE CaptureRent(p)
  <2>1. process'[p].at \in {"release", "record_settled"}
        /\ process'[p].hold = process[p].hold /\ process'[p].booking = process[p].booking
    BY <1>1, <1>3 DEF CaptureRent, AfterCapture, Frame, TypeOK, TableTypeOK
  <2> QED
    BY <1>1, <1>3, <2>1 DEF CaptureRent, Perform, OwnHold
<1>4. CASE \/ RecordHold(p) \/ PaymentFails(p) \/ CancelReleaseOk(p) \/ MarkRetry(p)
           \/ ReleaseDeposit(p) \/ RecordSettled(p) \/ SettlementFails(p)
  <2>1. process'[p].at \in {"notify", "record_failure", "record_cancel", "settle",
                            "record_settled", "notify_settled", "record_failed"}
    BY <1>1, <1>4
    DEF RecordHold, PaymentFails, CancelReleaseOk, MarkRetry, ReleaseDeposit, RecordSettled,
        SettlementFails, Starting, Frame, TypeOK, TableTypeOK
  <2> QED
    BY <2>1
<1>5. CASE CheckCards(p) \/ CheckExpired(p)
  <2>1. process'[p].at \in {"idle", "auto_check", "auto_record"}
    BY <1>1, <1>5, IdleAt DEF CheckCards, CheckExpired, Frame, TypeOK, TableTypeOK
  <2> QED
    BY <2>1
<1>6. CASE RecordConfirmation(p) \/ AutoConfirm(p)
  <2>1. process'[p].at \in {"idle", "settle"}
    BY <1>6, IdleAt
    DEF RecordConfirmation, AutoConfirm, Starting, TypeOK, TableTypeOK
  <2> QED
    BY <2>1
<1>7. CASE AttemptSettlement(p)
  <2> DEFINE b == process[p].booking
  <2>1. /\ process'[p].at = FirstStep(b) /\ process'[p].booking = b
        /\ process'[p].hold = booking[b].paymentHoldId
        /\ holds' = holds /\ b \in Booking
    BY <1>1, <1>7, HandlerType DEF AttemptSettlement, Frame, TypeOK, TableTypeOK
  <2>2. CASE booking[b].paymentHoldId = NoHold
    BY <2>1, <2>2 DEF FirstStep
  <2>3. CASE booking[b].paymentHoldId # NoHold
    <3>1. OwnHold(booking[b].paymentHoldId, b)
      BY <2>1, <2>3 DEF HoldInv, RowHold
    <3>2. FirstStep(b) \in {"capture", "release", "record_settled"}
      BY <2>3 DEF FirstStep, NextCharge
    <3> QED
      BY <2>1, <3>1, <3>2 DEF OwnHold
  <2> QED
    BY <2>2, <2>3
<1>8. CASE \/ Notified(p) \/ RecordFailure(p) \/ CancelReleaseFails(p) \/ RecordCancel(p)
           \/ AlreadySettled(p) \/ RecordMissingHold(p) \/ SettlementNotified(p)
           \/ RecordFailed(p)
  BY <1>8, ReturnHandlerHold
  DEF Notified, RecordFailure, CancelReleaseFails, RecordCancel,
      AlreadySettled, RecordMissingHold, SettlementNotified, RecordFailed
<1> QED
  BY <1>2, <1>3, <1>4, <1>5, <1>6, <1>7, <1>8 DEF Continue

\* Only three steps touch the operations, and each draws on the hold its
\* handler carries.
Operates(p) ==
    \/ operations' = operations
    \/ /\ process[p].at = "capture"
       /\ Perform("capture_rent", process[p].booking, process[p].hold, CaptureKey(process[p].booking))
    \/ /\ process[p].at = "release"
       /\ Perform("release_deposit", process[p].booking, process[p].hold, ReleaseKey(process[p].booking))
    \/ /\ process[p].at = "cancel_release"
       /\ Perform("cancel_release", process[p].booking, process[p].hold, CancelReleaseKey(process[p].booking))

LEMMA StepOperates ==
  ASSUME NEW p \in Process, Call(p) \/ Continue(p) \/ Crash(p)
  PROVE  Operates(p)
<1> USE DEF Operates
<1>1. CASE Call(p)
  BY <1>1 DEF Call, CreateBooking, RetryPayment, CancelBooking, ConfirmReturn,
              CancelBlockingBookings, ListExpired, ListRetry
<1>2. CASE CaptureRent(p) \/ ReleaseDeposit(p) \/ CancelReleaseOk(p)
  BY <1>2 DEF CaptureRent, ReleaseDeposit, CancelReleaseOk
<1>3. CASE \/ HoldAuthorized(p) \/ RecordHold(p) \/ Notified(p) \/ PaymentFails(p)
           \/ RecordFailure(p) \/ CancelReleaseFails(p) \/ RecordCancel(p)
  BY <1>3 DEF HoldAuthorized, AuthorizeHold, RecordHold, Notified, PaymentFails,
              RecordFailure, CancelReleaseFails, RecordCancel
<1>4. CASE \/ RecordConfirmation(p) \/ CheckCards(p) \/ CheckExpired(p) \/ AutoConfirm(p)
           \/ MarkRetry(p) \/ Crash(p)
  BY <1>4 DEF RecordConfirmation, CheckCards, CheckExpired, AutoConfirm, MarkRetry, Crash
<1>5. CASE \/ AttemptSettlement(p) \/ AlreadySettled(p) \/ RecordMissingHold(p)
           \/ SettlementFails(p) \/ RecordSettled(p) \/ SettlementNotified(p)
           \/ RecordFailed(p)
  BY <1>5 DEF AttemptSettlement, AlreadySettled, RecordMissingHold, SettlementFails,
              RecordSettled, SettlementNotified, RecordFailed
<1> QED
  BY <1>1, <1>2, <1>3, <1>4, <1>5 DEF Continue

LEMMA PerformOwnHold ==
  ASSUME ChargesOwnHold, NEW kind, NEW b, NEW h, NEW key, OwnHold(h, b),
         Perform(kind, b, h, key)
  PROVE  ChargesOwnHold'
  BY DEF ChargesOwnHold, OwnHold, Perform

LEMMA HoldStep == TypeOK /\ PresenceInv /\ HoldInv /\ [Next]_vars => HoldInv'
<1> SUFFICES ASSUME TypeOK, PresenceInv, HoldInv, [Next]_vars PROVE HoldInv'
  OBVIOUS
<1>1. CASE UNCHANGED vars \/ Cards
  BY <1>1 DEF HoldInv, RowHold, HandlerHold, OwnHold, ChargesOwnHold, Cards
<1>2. ASSUME NEW p \in Process, Call(p) \/ Continue(p) \/ Crash(p) PROVE HoldInv'
  <2>1. Shape(p)
    BY <1>2, StepShape
  <2>2. holds \subseteq holds'
    BY <2>1 DEF Shape
  <2>3. \A b \in Booking : RowHold(b)'
    <3>1. CASE Crash(p)
      BY <2>2, <3>1, RowsHoldSame DEF Crash
    <3> QED
      BY <1>2, <2>2, <3>1, CallRowHold, ContinueRowHold
  <2>4. HandlerHold(p)'
    BY <1>2, CallHandlerHold, ContinueHandlerHold, ReturnHandlerHold DEF Crash
  <2>5. ASSUME NEW q \in Process \ {p} PROVE HandlerHold(q)'
    BY <2>1, <2>2 DEF Shape, HoldInv, HandlerHold, OwnHold
  <2>6. ChargesOwnHold'
    <3>1. CASE operations' = operations
      BY <2>2, <3>1 DEF HoldInv, ChargesOwnHold, OwnHold
    <3>2. ASSUME NEW kind, NEW key, process[p].at \in {"cancel_release", "capture", "release"},
                 Perform(kind, process[p].booking, process[p].hold, key)
          PROVE  ChargesOwnHold'
      <4>1. OwnHold(process[p].hold, process[p].booking)
        BY <3>2 DEF HoldInv, HandlerHold
      <4> QED
        BY <3>2, <4>1, PerformOwnHold DEF HoldInv
    <3> QED
      BY <1>2, <3>1, <3>2, StepOperates DEF Operates
  <2> QED
    BY <2>3, <2>4, <2>5, <2>6 DEF HoldInv
<1> QED
  BY <1>1, <1>2 DEF Next
-----------------------------------------------------------------------------
(* Settlements follow a confirmed return.                                  *)

LEMMA ConfirmationsKept ==
  ASSUME TypeOK, PresenceInv, NEW p \in Process, Shape(p), NEW b \in Booking
  PROVE  KeepsConfirmations(booking[b], booking'[b])
<1>1. CASE booking[b].status = "ABSENT"
  BY <1>1 DEF PresenceInv, AbsentRow, KeepsConfirmations
<1>2. CASE booking[b].status # "ABSENT"
  BY <1>2 DEF Shape, RowGrows, KeepsConfirmations
<1> QED
  BY <1>1, <1>2

LEMMA ReturnStaysConfirmed ==
  ASSUME NEW old, NEW new, KeepsConfirmations(old, new), ReturnConfirmed(old)
  PROVE  ReturnConfirmed(new)
  BY DEF KeepsConfirmations, ReturnConfirmed

\* What a row says of its own return, whatever was captured.
RowReturnSound(row) ==
    /\ row.returnMutualConfirmed => row.returnRenterConfirmed /\ row.returnLandlordConfirmed
    /\ row.settlementStatus # "NONE" => ReturnConfirmed(row)

\* The rows the workflow writes without a word on the return.
LEMMA PaymentRowSound ==
  ASSUME NEW row \in Row, NEW h, RowReturnSound(row)
  PROVE  \A new \in {ConfirmedRow(row, h), UnpaidRow(row), CancelledRow(row),
                     CancelledKeepingHold(row)} : RowReturnSound(new)
  BY DEF Row, RowReturnSound, ReturnConfirmed,
         ConfirmedRow, UnpaidRow, CancelledRow, CancelledKeepingHold

\* The rows of a settlement.
LEMMA SettlementRowSound ==
  ASSUME NEW row \in Row, NEW n, RowReturnSound(row), ReturnConfirmed(row)
  PROVE  \A new \in {RetriedRow(row), MissingHoldRow(row), SettledRow(row),
                     UnsettledRow(row, n)} : RowReturnSound(new)
  BY DEF Row, RowReturnSound, ReturnConfirmed,
         RetriedRow, MissingHoldRow, SettledRow, UnsettledRow

\* The rows of a confirmation, by the parties and by the job.
LEMMA MarkedRowSound ==
  ASSUME NEW row \in Row, NEW marks, RowReturnSound(row), MarksReturn(row, marks)
  PROVE  /\ RowReturnSound(MarkedRow(row, marks))
         /\ "pending" \in marks => ReturnConfirmed(MarkedRow(row, marks))
  BY DEF Row, RowReturnSound, ReturnConfirmed, MarksReturn, MarkedRow

LEMMA AutoConfirmedRowSound ==
  ASSUME NEW row \in Row, NEW marks, RowReturnSound(row), row.returnRenterConfirmed
  PROVE  /\ RowReturnSound(AutoConfirmedRow(row, marks))
         /\ ReturnConfirmed(AutoConfirmedRow(row, marks))
  BY DEF Row, RowReturnSound, ReturnConfirmed, AutoConfirmedRow

\* Every write is one of these.
LEMMA WriteSound ==
  ASSUME TypeOK, ReturnInv, NEW p \in Process, NEW row,
         booking' = [booking EXCEPT ![process[p].booking] = row], RowReturnSound(row)
  PROVE  \A b \in Booking : RowReturnSound(booking'[b])
  BY DEF ReturnInv, RowReturn, RowReturnSound, TypeOK, TableTypeOK

LEMMA CallSound ==
  ASSUME TypeOK, ReturnInv, NEW p \in Process, Call(p)
  PROVE  \A b \in Booking : RowReturnSound(booking'[b])
<1>1. \A b \in Booking : RowReturnSound(booking[b]) /\ booking[b] \in Row
  BY RowType DEF ReturnInv, RowReturn, RowReturnSound
<1>2. ASSUME NEW b \in Booking, NEW t \in Token, CreateBooking(p, b, t)
      PROVE  \A c \in Booking : RowReturnSound(booking'[c])
  <2>1. RowReturnSound(CreatedRow)
    BY DEF RowReturnSound, CreatedRow, AbsentRow
  <2> QED
    BY <1>1, <1>2, <2>1 DEF CreateBooking, TypeOK, TableTypeOK
<1>3. ASSUME NEW l, NEW d1, NEW d2, CancelBlockingBookings(p, l, d1, d2)
      PROVE  \A c \in Booking : RowReturnSound(booking'[c])
  BY <1>1, <1>3, PaymentRowSound DEF CancelBlockingBookings
<1>4. ASSUME NEW b \in Booking,
             \/ \E t \in Token : RetryPayment(p, b, t)
             \/ CancelBooking(p, b) \/ ListExpired(p, b) \/ ListRetry(p, b)
             \/ \E a \in Parties : ConfirmReturn(p, b, a)
      PROVE  \A c \in Booking : RowReturnSound(booking'[c])
  BY <1>1, <1>4 DEF RetryPayment, CancelBooking, ListExpired, ListRetry, ConfirmReturn
<1> QED
  BY <1>2, <1>3, <1>4 DEF Call

LEMMA ContinueSound ==
  ASSUME TypeOK, ReturnInv, NEW p \in Process, Continue(p)
  PROVE  \A b \in Booking : RowReturnSound(booking'[b])
<1> DEFINE row == booking[process[p].booking]
<1>1. row \in Row /\ RowReturnSound(row) /\ HandlerReturn(p)
  BY HandlerType DEF ReturnInv, RowReturn, RowReturnSound
<1>2. CASE QuietStep(p)
  <2>1. booking' = booking
    BY <1>2, QuietStepKeepsRows
  <2> QED
    BY <2>1 DEF ReturnInv, RowReturn, RowReturnSound
<1>3. CASE RecordHold(p)
  BY <1>1, <1>3, PaymentRowSound, WriteSound DEF RecordHold
<1>4. CASE RecordFailure(p) \/ RecordCancel(p)
  BY <1>1, <1>4, PaymentRowSound, WriteSound DEF RecordFailure, RecordCancel
<1>5. CASE RecordConfirmation(p)
  <2>1. MarksReturn(row, process[p].marks)
    BY <1>1, <1>5 DEF RecordConfirmation, HandlerReturn
  <2> QED
    BY <1>1, <1>5, <2>1, MarkedRowSound, WriteSound DEF RecordConfirmation
<1>6. CASE AutoConfirm(p)
  <2>1. row.returnRenterConfirmed
    BY <1>1, <1>6 DEF AutoConfirm, HandlerReturn
  <2> QED
    BY <1>1, <1>6, <2>1, AutoConfirmedRowSound, WriteSound DEF AutoConfirm
<1>7. CASE MarkRetry(p) \/ RecordMissingHold(p) \/ RecordSettled(p) \/ RecordFailed(p)
  <2>1. ReturnConfirmed(row)
    BY <1>1, <1>7
    DEF MarkRetry, RecordMissingHold, RecordSettled, RecordFailed, HandlerReturn, Settling
  <2> QED
    BY <1>1, <1>7, <2>1, SettlementRowSound, WriteSound
    DEF MarkRetry, RecordMissingHold, RecordSettled, RecordFailed
<1> QED
  BY <1>2, <1>3, <1>4, <1>5, <1>6, <1>7 DEF Continue, QuietStep

\* The handler that made the step.
LEMMA OpenMarksReturn ==
  ASSUME NEW row \in Row, NEW a \in Parties
  PROVE  MarksReturn(row, OpenMarks(row, a))
<1> DEFINE marks == OpenMarks(row, a)
<1>1. CASE row.returnMutualConfirmed
  BY <1>1 DEF OpenMarks, MarksReturn, Parties
<1>2. CASE ~row.returnMutualConfirmed /\ HaveConfirmed(row) \cup {a} = Parties
  <2>1. a \in marks
    BY DEF OpenMarks
  <2>2. "mutual" \in marks
    BY <1>2 DEF OpenMarks
  <2>3. row.returnRenterConfirmed \/ "renter" \in marks
    BY <1>2, <2>1 DEF HaveConfirmed, Parties
  <2>4. row.returnLandlordConfirmed \/ "landlord" \in marks
    BY <1>2, <2>1 DEF HaveConfirmed, Parties
  <2> QED
    BY <2>2, <2>3, <2>4 DEF MarksReturn
<1>3. CASE ~row.returnMutualConfirmed /\ HaveConfirmed(row) \cup {a} # Parties
  BY <1>3 DEF OpenMarks, MarksReturn, Parties
<1> QED
  BY <1>1, <1>2, <1>3

LEMMA CallHandlerReturn ==
  ASSUME TypeOK, ReturnInv, NEW p \in Process, Call(p)
  PROVE  HandlerReturn(p)'
<1> USE DEF HandlerReturn, Settling, Starting
<1>1. ASSUME NEW b \in Booking, NEW t \in Token,
             CreateBooking(p, b, t) \/ RetryPayment(p, b, t)
      PROVE  HandlerReturn(p)'
  <2>1. process'[p].at = "authorize"
    BY <1>1 DEF CreateBooking, RetryPayment, Authorizing, TypeOK, TableTypeOK
  <2> QED
    BY <2>1
<1>2. ASSUME NEW b \in Booking, CancelBooking(p, b) PROVE HandlerReturn(p)'
  <2>1. process'[p].at \in {"cancel_release", "record_cancel"}
    BY <1>2 DEF CancelBooking, TypeOK, TableTypeOK
  <2> QED
    BY <2>1
<1>3. ASSUME NEW b \in Booking, NEW a \in Parties, ConfirmReturn(p, b, a)
      PROVE  HandlerReturn(p)'
  <2> DEFINE row == booking[b]
             marks == IF row.status = "COMPLETED" THEN {"pending"} ELSE OpenMarks(row, a)
  <2>1. /\ process'[p].at = "record_confirmation" /\ process'[p].booking = b
        /\ process'[p].marks = marks /\ booking' = booking
    BY <1>3 DEF ConfirmReturn, TypeOK, TableTypeOK
  <2>2. MarksReturn(row, marks)
    <3>1. CASE row.status = "COMPLETED"
      BY <1>3, <3>1 DEF ConfirmReturn, CanRetrySettlement, MarksReturn
    <3>2. CASE row.status # "COMPLETED"
      BY <3>2, RowType, OpenMarksReturn
    <3> QED
      BY <3>1, <3>2
  <2> QED
    BY <2>1, <2>2
<1>4. ASSUME NEW l, NEW d1, NEW d2, CancelBlockingBookings(p, l, d1, d2)
      PROVE  HandlerReturn(p)'
  BY <1>4 DEF CancelBlockingBookings
<1>5. ASSUME NEW b \in Booking, ListExpired(p, b) PROVE HandlerReturn(p)'
  BY <1>5 DEF ListExpired, AwaitsLandlord, TypeOK, TableTypeOK
<1>6. ASSUME NEW b \in Booking, ListRetry(p, b) PROVE HandlerReturn(p)'
  BY <1>6 DEF ListRetry, DueForRetry, ReturnInv, RowReturn, TypeOK, TableTypeOK
<1> QED
  BY <1>1, <1>2, <1>3, <1>4, <1>5, <1>6 DEF Call

LEMMA IdleHandlerReturn ==
  ASSUME NEW p \in Process, process'[p].at = "idle"
  PROVE  HandlerReturn(p)'
  BY DEF HandlerReturn, Settling

LEMMA SettleHandlerReturn ==
  ASSUME NEW p \in Process, process'[p].at \in Settling,
         ReturnConfirmed(booking'[process'[p].booking])
  PROVE  HandlerReturn(p)'
  BY DEF HandlerReturn, Settling

LEMMA ContinueHandlerReturn ==
  ASSUME TypeOK, PresenceInv, ReturnInv, NEW p \in Process, Continue(p)
  PROVE  HandlerReturn(p)'
<1> DEFINE b == process[p].booking
           row == booking[process[p].booking]
<1>1. row \in Row /\ b \in Booking /\ process[p] \in Frame /\ RowReturnSound(row)
      /\ HandlerReturn(p)
  BY HandlerType DEF ReturnInv, RowReturn, RowReturnSound
<1>2. KeepsConfirmations(row, booking'[b])
  BY <1>1, ContinueShape, ConfirmationsKept
<1>3. CASE \/ HoldAuthorized(p) \/ RecordHold(p) \/ PaymentFails(p) \/ CancelReleaseOk(p)
  <2>1. process'[p].at \in {"record_hold", "notify", "record_failure", "record_cancel"}
    BY <1>1, <1>3 DEF HoldAuthorized, RecordHold, PaymentFails, CancelReleaseOk, Frame,
                      TypeOK, TableTypeOK
  <2> QED
    BY <2>1 DEF HandlerReturn, Settling
<1>4. CASE \/ Notified(p) \/ RecordFailure(p) \/ CancelReleaseFails(p) \/ RecordCancel(p)
           \/ AlreadySettled(p) \/ RecordMissingHold(p) \/ SettlementNotified(p)
           \/ RecordFailed(p)
  <2>1. process'[p].at = "idle"
    BY <1>4, IdleAt
    DEF Notified, RecordFailure, CancelReleaseFails, RecordCancel, AlreadySettled,
        RecordMissingHold, SettlementNotified, RecordFailed, TypeOK, TableTypeOK
  <2> QED
    BY <2>1, IdleHandlerReturn
<1>5. CASE RecordConfirmation(p)
  <2>1. CASE "pending" \in process[p].marks
    <3>1. MarksReturn(row, process[p].marks)
      BY <1>1, <1>5 DEF RecordConfirmation, HandlerReturn
    <3>2. ReturnConfirmed(booking'[b])
      BY <1>1, <1>5, <2>1, <3>1, MarkedRowSound DEF RecordConfirmation, TypeOK, TableTypeOK
    <3>3. process'[p].at = "settle" /\ process'[p].booking = b
      BY <1>5, <2>1 DEF RecordConfirmation, Starting, TypeOK, TableTypeOK
    <3> QED
      BY <3>2, <3>3, SettleHandlerReturn DEF Settling
  <2>2. CASE "pending" \notin process[p].marks
    <3>1. process'[p].at = "idle"
      BY <1>5, <2>2, IdleAt DEF RecordConfirmation, TypeOK, TableTypeOK
    <3> QED
      BY <3>1, IdleHandlerReturn
  <2> QED
    BY <2>1, <2>2
<1>6. CASE CheckCards(p) \/ CheckExpired(p)
  <2>1. process'[p].at \in {"auto_check", "auto_record", "idle"} /\ booking' = booking
    BY <1>1, <1>6, IdleAt DEF CheckCards, CheckExpired, Frame, TypeOK, TableTypeOK
  <2>2. process'[p].at # "idle" => process'[p].booking = b
    BY <1>1, <1>6, IdleAt DEF CheckCards, CheckExpired, Frame, TypeOK, TableTypeOK
  <2>3. row.returnRenterConfirmed
    BY <1>1, <1>6 DEF CheckCards, CheckExpired, HandlerReturn
  <2> QED
    BY <2>1, <2>2, <2>3 DEF HandlerReturn, Settling
<1>7. CASE AutoConfirm(p)
  <2>1. ReturnConfirmed(booking'[b])
    BY <1>1, <1>7, AutoConfirmedRowSound DEF AutoConfirm, HandlerReturn, TypeOK, TableTypeOK
  <2>2. process'[p].at = "idle" \/ (process'[p].at = "settle" /\ process'[p].booking = b)
    BY <1>7, IdleAt DEF AutoConfirm, Starting, TypeOK, TableTypeOK
  <2> QED
    BY <2>1, <2>2, IdleHandlerReturn, SettleHandlerReturn DEF Settling
<1>8. CASE \/ MarkRetry(p) \/ AttemptSettlement(p) \/ CaptureRent(p)
           \/ ReleaseDeposit(p) \/ RecordSettled(p) \/ SettlementFails(p)
  <2>1. ReturnConfirmed(row)
    BY <1>1, <1>8
    DEF MarkRetry, AttemptSettlement, CaptureRent, ReleaseDeposit, RecordSettled,
        SettlementFails, HandlerReturn, Settling
  <2>2. ReturnConfirmed(booking'[b])
    BY <1>2, <2>1, ReturnStaysConfirmed
  <2>3. CASE AttemptSettlement(p)
    <3>1. process'[p].at = FirstStep(b) /\ process'[p].booking = b
      BY <1>1, <2>3 DEF AttemptSettlement, Frame, TypeOK, TableTypeOK
    <3>2. FirstStep(b) \in Settling
      BY DEF FirstStep, NextCharge, Settling
    <3> QED
      BY <2>2, <3>1, <3>2, SettleHandlerReturn
  <2>4. CASE MarkRetry(p)
    <3>1. process'[p].at \in Settling /\ process'[p].booking = b
      BY <1>1, <2>4 DEF MarkRetry, Starting, Settling, TypeOK, TableTypeOK
    <3> QED
      BY <2>2, <3>1, SettleHandlerReturn
  <2>5. CASE CaptureRent(p) \/ ReleaseDeposit(p) \/ RecordSettled(p) \/ SettlementFails(p)
    <3>1. process'[p].at \in Settling /\ process'[p].booking = b
      BY <1>1, <2>5
      DEF CaptureRent, AfterCapture, ReleaseDeposit, RecordSettled, SettlementFails,
          Settling, Frame, TypeOK, TableTypeOK
    <3> QED
      BY <2>2, <3>1, SettleHandlerReturn
  <2> QED
    BY <1>8, <2>3, <2>4, <2>5
<1> QED
  BY <1>3, <1>4, <1>5, <1>6, <1>7, <1>8 DEF Continue

LEMMA ReturnStep == TypeOK /\ PresenceInv /\ ReturnInv /\ [Next]_vars => ReturnInv'
<1> SUFFICES ASSUME TypeOK, PresenceInv, ReturnInv, [Next]_vars PROVE ReturnInv'
  OBVIOUS
<1>1. CASE UNCHANGED vars \/ Cards
  BY <1>1 DEF ReturnInv, RowReturn, HandlerReturn, Captured, Cards
<1>2. ASSUME NEW p \in Process, Call(p) \/ Continue(p) \/ Crash(p) PROVE ReturnInv'
  <2>1. Shape(p) /\ Operates(p)
    BY <1>2, StepShape, StepOperates
  <2>2. \A b \in Booking : KeepsConfirmations(booking[b], booking'[b])
    BY <2>1, ConfirmationsKept
  <2>3. \A b \in Booking : RowReturnSound(booking'[b])
    <3>1. CASE Crash(p)
      BY <3>1 DEF Crash, ReturnInv, RowReturn, RowReturnSound
    <3> QED
      BY <1>2, <3>1, CallSound, ContinueSound
  <2>4. ASSUME NEW b \in Booking, Captured(b)' PROVE ReturnConfirmed(booking[b])
    <3>1. CASE Captured(b)
      BY <3>1 DEF ReturnInv, RowReturn
    <3>2. CASE ~Captured(b)
      <4>1. process[p].at = "capture" /\ process[p].booking = b
        BY <2>1, <2>4, <3>2 DEF Operates, Perform, Captured
      <4> QED
        BY <4>1 DEF ReturnInv, HandlerReturn, Settling
    <3> QED
      BY <3>1, <3>2
  <2>5. ASSUME NEW b \in Booking PROVE RowReturn(b)'
    BY <2>2, <2>3, <2>4, ReturnStaysConfirmed DEF RowReturn, RowReturnSound
  <2>6. HandlerReturn(p)'
    <3>1. CASE Crash(p)
      BY <3>1, IdleAt, IdleHandlerReturn DEF Crash, TypeOK, TableTypeOK
    <3> QED
      BY <1>2, <3>1, CallHandlerReturn, ContinueHandlerReturn
  <2>7. ASSUME NEW q \in Process \ {p} PROVE HandlerReturn(q)'
    <3>1. process'[q] = process[q] /\ process[q].booking \in Booking
      BY <2>1, HandlerType DEF Shape
    <3>2. KeepsConfirmations(booking[process[q].booking], booking'[process[q].booking])
      BY <2>2, <3>1
    <3> QED
      BY <3>1, <3>2 DEF ReturnInv, HandlerReturn, ReturnConfirmed, MarksReturn,
                        KeepsConfirmations
  <2> QED
    BY <2>5, <2>6, <2>7 DEF ReturnInv
<1> QED
  BY <1>1, <1>2 DEF Next

-----------------------------------------------------------------------------
(* A settlement charges everything once, and is recorded when it has.      *)

\* The prefixes tell the kinds of operation apart.
LEMMA KeyOfInjective ==
  ASSUME NEW k1 \in OperationKind, NEW k2 \in OperationKind, NEW b1, NEW b2,
         KeyOf(k1, b1) = KeyOf(k2, b2)
  PROVE  k1 = k2 /\ b1 = b2
<1>1. /\ CaptureKey(b1) # ReleaseKey(b2) /\ CaptureKey(b1) # CancelReleaseKey(b2)
      /\ ReleaseKey(b1) # CaptureKey(b2) /\ ReleaseKey(b1) # CancelReleaseKey(b2)
      /\ CancelReleaseKey(b1) # CaptureKey(b2) /\ CancelReleaseKey(b1) # ReleaseKey(b2)
  BY DEF CaptureKey, ReleaseKey, CancelReleaseKey
<1>2. /\ CaptureKey(b1) = CaptureKey(b2) => b1 = b2
      /\ ReleaseKey(b1) = ReleaseKey(b2) => b1 = b2
      /\ CancelReleaseKey(b1) = CancelReleaseKey(b2) => b1 = b2
  BY DEF CaptureKey, ReleaseKey, CancelReleaseKey
<1> QED
  BY <1>1, <1>2 DEF KeyOf, OperationKind

LEMMA KeyOfType ==
  ASSUME NEW kind \in OperationKind, NEW b \in Booking PROVE KeyOf(kind, b) \in OperationKey
  BY OperationKeyType DEF KeyOf, OperationKind

LEMMA OperationType ==
  ASSUME TypeOK, NEW o \in operations
  PROVE  o.kind \in OperationKind /\ o.booking \in Booking /\ o.hold \in HoldId
         /\ o.key \in OperationKey
  BY DEF TypeOK, TableTypeOK, GatewayTypeOK, Operation

\* An operation under the key of its kind and booking is performed, or has been.
LEMMA PerformFits ==
  ASSUME TypeOK, KeysFit, NEW kind \in OperationKind, NEW b, NEW h,
         Perform(kind, b, h, KeyOf(kind, b))
  PROVE  /\ KeysFit'
         /\ \E o \in operations' : o.kind = kind /\ o.booking = b
<1> DEFINE key == KeyOf(kind, b)
           this == [kind |-> kind, booking |-> b, hold |-> h, key |-> key]
<1>1. CASE \A done \in operations : done.key # key
  <2>1. operations' = operations \cup {this}
    BY <1>1 DEF Perform
  <2>2. this.kind = kind /\ this.booking = b /\ this.key = key
    OBVIOUS
  <2> HIDE DEF this
  <2>3. \A o \in operations' : o.key = KeyOf(o.kind, o.booking)
    BY <2>1, <2>2 DEF KeysFit
  <2>4. \A o1, o2 \in operations' : o1.key = o2.key => o1 = o2
    BY <1>1, <2>1, <2>2 DEF KeysFit
  <2> QED
    BY <2>1, <2>2, <2>3, <2>4 DEF KeysFit
<1>2. CASE \E done \in operations : done.key = key
  <2>1. {o \in {this} : \A done \in operations : done.key # o.key} = {}
    BY <1>2
  <2>2. operations' = operations
    BY <2>1 DEF Perform
  <2>3. PICK done \in operations : done.key = key
    BY <1>2
  <2>4. done.kind = kind /\ done.booking = b
    BY <2>3, OperationType, KeyOfInjective DEF KeysFit
  <2> QED
    BY <2>2, <2>4 DEF KeysFit
<1> QED
  BY <1>1, <1>2

LEMMA FitStep ==
  ASSUME TypeOK, KeysFit, NEW p \in Process, Operates(p)
  PROVE  KeysFit'
<1>1. CASE operations' = operations
  BY <1>1 DEF KeysFit
<1>2. ASSUME NEW kind \in OperationKind,
             Perform(kind, process[p].booking, process[p].hold, KeyOf(kind, process[p].booking))
      PROVE  KeysFit'
  BY <1>2, PerformFits
<1> QED
  BY <1>1, <1>2 DEF Operates, KeyOf, OperationKind

\* Only RecordSettled writes SETTLED.
KeepsSettled(old, new) == new.settlementStatus = "SETTLED" => old.settlementStatus = "SETTLED"

LEMMA KeepsSettledRows ==
  ASSUME NEW row \in Row, NEW h, NEW marks, NEW n
  PROVE  /\ \A new \in {ConfirmedRow(row, h), UnpaidRow(row), CancelledRow(row),
                        CancelledKeepingHold(row), MarkedRow(row, marks)} :
               KeepsSettled(row, new)
         /\ \A new \in {AutoConfirmedRow(row, marks), RetriedRow(row), MissingHoldRow(row),
                        UnsettledRow(row, n)} :
               KeepsSettled(row, new)
  BY DEF Row, KeepsSettled, ConfirmedRow, UnpaidRow, CancelledRow, CancelledKeepingHold,
         MarkedRow, AutoConfirmedRow, RetriedRow, MissingHoldRow, UnsettledRow

LEMMA StepSettles ==
  ASSUME TypeOK, NEW p \in Process, Call(p) \/ Continue(p) \/ Crash(p), NEW b \in Booking
  PROVE  \/ KeepsSettled(booking[b], booking'[b])
         \/ process[p].at = "record_settled" /\ process[p].booking = b
<1> DEFINE row == booking[process[p].booking]
<1>1. \A c \in Booking : booking[c] \in Row
  BY RowType
<1>2. row \in Row /\ process[p].booking \in Booking
  BY HandlerType
<1>3. ASSUME booking'[b] = booking[b] PROVE KeepsSettled(booking[b], booking'[b])
  BY <1>3 DEF KeepsSettled
<1>4. ASSUME NEW new, KeepsSettled(row, new),
             booking' = [booking EXCEPT ![process[p].booking] = new]
      PROVE  KeepsSettled(booking[b], booking'[b])
  BY <1>2, <1>3, <1>4 DEF TypeOK, TableTypeOK
<1>5. CASE Call(p)
  <2>1. ASSUME NEW c \in Booking, NEW t \in Token, CreateBooking(p, c, t)
        PROVE  KeepsSettled(booking[b], booking'[b])
    <3>1. CASE b = c
      BY <2>1, <3>1 DEF CreateBooking, CreatedRow, AbsentRow, KeepsSettled, TypeOK, TableTypeOK
    <3>2. CASE b # c
      BY <1>3, <2>1, <3>2 DEF CreateBooking, TypeOK, TableTypeOK
    <3> QED
      BY <3>1, <3>2
  <2>2. ASSUME NEW l, NEW d1, NEW d2, CancelBlockingBookings(p, l, d1, d2)
        PROVE  KeepsSettled(booking[b], booking'[b])
    <3>1. booking'[b] = booking[b] \/ booking'[b] = CancelledKeepingHold(booking[b])
      BY <2>2 DEF CancelBlockingBookings
    <3> QED
      BY <1>1, <1>3, <3>1, KeepsSettledRows
  <2>3. ASSUME NEW c \in Booking,
               \/ \E t \in Token : RetryPayment(p, c, t)
               \/ CancelBooking(p, c) \/ ListExpired(p, c) \/ ListRetry(p, c)
               \/ \E a \in Parties : ConfirmReturn(p, c, a)
        PROVE  KeepsSettled(booking[b], booking'[b])
    BY <1>3, <2>3 DEF RetryPayment, CancelBooking, ListExpired, ListRetry, ConfirmReturn
  <2> QED
    BY <1>5, <2>1, <2>2, <2>3 DEF Call
<1>6. CASE QuietStep(p) \/ Crash(p)
  BY <1>3, <1>6, QuietStepKeepsRows DEF Crash
<1>7. CASE RecordHold(p) \/ RecordFailure(p) \/ RecordCancel(p) \/ RecordConfirmation(p)
  BY <1>2, <1>4, <1>7, KeepsSettledRows
  DEF RecordHold, RecordFailure, RecordCancel, RecordConfirmation
<1>8. CASE AutoConfirm(p) \/ MarkRetry(p) \/ RecordMissingHold(p) \/ RecordFailed(p)
  BY <1>2, <1>4, <1>8, KeepsSettledRows
  DEF AutoConfirm, MarkRetry, RecordMissingHold, RecordFailed
<1>9. CASE RecordSettled(p)
  BY <1>2, <1>3, <1>9 DEF RecordSettled, TypeOK, TableTypeOK
<1> QED
  BY <1>5, <1>6, <1>7, <1>8, <1>9 DEF Continue, QuietStep

\* The handler that made the step: it gets past a charge by making it.
LEMMA StepHandlerCharge ==
  ASSUME TypeOK, ChargeInv, NEW p \in Process, Call(p) \/ Continue(p) \/ Crash(p)
  PROVE  HandlerCharge(p)'
<1> DEFINE b == process[p].booking
<1> USE DEF Starting
<1>1. process[p] \in Frame /\ HandlerCharge(p)
  BY HandlerType DEF ChargeInv
<1>2. ASSUME process'[p].at \notin {"release", "record_settled"} PROVE HandlerCharge(p)'
  BY <1>2 DEF HandlerCharge
<1>3. CASE Call(p)
  <2>1. process'[p].at \notin {"release", "record_settled"}
    BY <1>3
    DEF Call, CreateBooking, RetryPayment, Authorizing, CancelBooking, ConfirmReturn,
        CancelBlockingBookings, ListExpired, ListRetry, TypeOK, TableTypeOK
  <2> QED
    BY <1>2, <2>1
<1>4. CASE \/ HoldAuthorized(p) \/ RecordHold(p) \/ Notified(p) \/ PaymentFails(p)
           \/ RecordFailure(p) \/ CancelReleaseOk(p) \/ CancelReleaseFails(p)
           \/ RecordCancel(p) \/ Crash(p)
  <2>1. process'[p].at \notin {"release", "record_settled"}
    BY <1>1, <1>4, IdleAt
    DEF HoldAuthorized, RecordHold, Notified, PaymentFails, RecordFailure, CancelReleaseOk,
        CancelReleaseFails, RecordCancel, Crash, Frame, TypeOK, TableTypeOK
  <2> QED
    BY <1>2, <2>1
<1>5. CASE RecordConfirmation(p) \/ AutoConfirm(p) \/ MarkRetry(p)
  <2>1. process'[p].at \in {"idle", "settle"}
    BY <1>5, IdleAt DEF RecordConfirmation, AutoConfirm, MarkRetry, TypeOK, TableTypeOK
  <2> QED
    BY <1>2, <2>1
<1>6. CASE CheckCards(p) \/ CheckExpired(p)
  <2>1. process'[p].at \in {"idle", "auto_check", "auto_record"}
    BY <1>1, <1>6, IdleAt DEF CheckCards, CheckExpired, Frame, TypeOK, TableTypeOK
  <2> QED
    BY <1>2, <2>1
<1>7. CASE \/ AlreadySettled(p) \/ RecordMissingHold(p) \/ SettlementFails(p)
            \/ RecordSettled(p) \/ SettlementNotified(p) \/ RecordFailed(p)
  <2>1. process'[p].at \in {"idle", "record_failed", "notify_settled"}
    BY <1>1, <1>7, IdleAt
    DEF AlreadySettled, RecordMissingHold, SettlementFails, RecordSettled, SettlementNotified,
        RecordFailed, Frame, TypeOK, TableTypeOK
  <2> QED
    BY <1>2, <2>1
<1>8. CASE AttemptSettlement(p)
  <2>1. process'[p].at = FirstStep(b) /\ process'[p].booking = b /\ b \in Booking
    BY <1>1, <1>8, HandlerType DEF AttemptSettlement, Frame, TypeOK, TableTypeOK
  <2>2. FirstStep(b) = "release" => ~(Terms[b].rent > 0)
    BY DEF FirstStep, NextCharge
  <2>3. FirstStep(b) = "record_settled" => ~(Terms[b].rent > 0) /\ ~(Terms[b].deposit > 0)
    BY DEF FirstStep, NextCharge
  <2> QED
    BY <2>1, <2>2, <2>3 DEF HandlerCharge, CapturedIfDue, ReleasedIfDue
<1>9. CASE CaptureRent(p)
  <2>1. process'[p].booking = b
        /\ process'[p].at = IF Terms[b].deposit > 0 THEN "release" ELSE "record_settled"
    BY <1>1, <1>9 DEF CaptureRent, AfterCapture, Frame, TypeOK, TableTypeOK
  <2>2. Captured(b)'
    BY <1>9, PerformFits DEF CaptureRent, ChargeInv, Captured, KeyOf, OperationKind
  <2> QED
    BY <2>1, <2>2 DEF HandlerCharge, CapturedIfDue, ReleasedIfDue, Captured, Released
<1>10. CASE ReleaseDeposit(p)
  <2>1. process'[p].booking = b /\ process'[p].at = "record_settled"
    BY <1>1, <1>10 DEF ReleaseDeposit, Frame, TypeOK, TableTypeOK
  <2>2. Released(b)'
    BY <1>10, PerformFits DEF ReleaseDeposit, ChargeInv, Released, KeyOf, OperationKind
  <2>3. CapturedIfDue(b)'
    BY <1>1, <1>10, PerformGrows
    DEF ReleaseDeposit, HandlerCharge, CapturedIfDue, Captured
  <2> QED
    BY <2>1, <2>2, <2>3 DEF HandlerCharge, CapturedIfDue, ReleasedIfDue, Captured, Released
<1> QED
  BY <1>3, <1>4, <1>5, <1>6, <1>7, <1>8, <1>9, <1>10 DEF Continue

LEMMA ChargeStep == TypeOK /\ PresenceInv /\ ChargeInv /\ [Next]_vars => ChargeInv'
<1> SUFFICES ASSUME TypeOK, PresenceInv, ChargeInv, [Next]_vars PROVE ChargeInv'
  OBVIOUS
<1>1. CASE UNCHANGED vars \/ Cards
  BY <1>1 DEF ChargeInv, KeysFit, HandlerCharge, SettledMeansCharged,
              CapturedIfDue, ReleasedIfDue, Captured, Released, Cards
<1>2. ASSUME NEW p \in Process, Call(p) \/ Continue(p) \/ Crash(p) PROVE ChargeInv'
  <2>1. Shape(p) /\ Operates(p)
    BY <1>2, StepShape, StepOperates
  <2>2. KeysFit'
    BY <2>1, FitStep DEF ChargeInv
  <2>3. HandlerCharge(p)'
    BY <1>2, StepHandlerCharge
  <2>4. ASSUME NEW q \in Process \ {p} PROVE HandlerCharge(q)'
    BY <2>1 DEF Shape, ChargeInv, HandlerCharge, CapturedIfDue, ReleasedIfDue,
                Captured, Released
  <2>5. ASSUME NEW b \in Booking, booking'[b].settlementStatus = "SETTLED"
        PROVE  CapturedIfDue(b) /\ ReleasedIfDue(b)
    <3>1. CASE KeepsSettled(booking[b], booking'[b])
      BY <2>5, <3>1 DEF KeepsSettled, ChargeInv, SettledMeansCharged, CapturedIfDue,
                        ReleasedIfDue
    <3>2. CASE process[p].at = "record_settled" /\ process[p].booking = b
      BY <3>2 DEF ChargeInv, HandlerCharge
    <3> QED
      BY <1>2, <3>1, <3>2, StepSettles
  <2>6. SettledMeansCharged'
    BY <2>1, <2>5 DEF Shape, SettledMeansCharged, CapturedIfDue, ReleasedIfDue,
                      Captured, Released
  <2> QED
    BY <2>2, <2>3, <2>4, <2>6 DEF ChargeInv
<1> QED
  BY <1>1, <1>2 DEF Next
-----------------------------------------------------------------------------
(* The inductive invariant.                                                *)

LEMMA InvInit == Init => IInv
<1> SUFFICES ASSUME Init PROVE IInv
  OBVIOUS
<1> DEFINE paid(b) == [AbsentRow EXCEPT
                          !.status = "CONFIRMED", !.paymentHoldId = HoldIdOf[FirstKey(b)]]
<1>1. \A b \in Booking : booking[b] = AbsentRow \/ (b \in PaidAtStart /\ booking[b] = paid(b))
  BY DEF Init
<1>2. \A p \in Process : process[p].at = "idle"
  BY IdleAt DEF Init
<1>3. operations = {}
  BY DEF Init
<1>4. ASSUME NEW b \in Booking
      PROVE  booking[b].settlementStatus = "NONE" /\ booking[b].returnMutualConfirmed = FALSE
  <2>1. CASE booking[b] = AbsentRow
    BY <2>1 DEF AbsentRow
  <2>2. CASE booking[b] = paid(b)
    BY <2>2 DEF AbsentRow
  <2> QED
    BY <1>1, <2>1, <2>2
<1>5. PresenceInv
  BY <1>1, <1>2 DEF PresenceInv, AbsentRow
<1>6. HoldInv
  <2>1. ASSUME NEW b \in Booking PROVE RowHold(b)
    <3>1. CASE booking[b] = AbsentRow
      BY <3>1 DEF RowHold, AbsentRow
    <3>2. CASE b \in PaidAtStart /\ booking[b] = paid(b)
      <4>1. FirstKey(b).booking = b /\ FirstKey(b) \in holds
        BY <3>2, FirstKeyType DEF Init
      <4>2. booking[b].paymentHoldId = HoldIdOf[FirstKey(b)]
        BY <3>2 DEF AbsentRow
      <4> QED
        BY <4>1, <4>2, FirstKeyType, HoldIdOfType, GatewayAssumption DEF RowHold, OwnHold
    <3> QED
      BY <1>1, <3>1, <3>2
  <2>2. ASSUME NEW p \in Process PROVE HandlerHold(p)
    BY <1>2 DEF HandlerHold
  <2> QED
    BY <1>3, <2>1, <2>2 DEF HoldInv, ChargesOwnHold
<1>7. ReturnInv
  <2>1. ASSUME NEW b \in Booking PROVE RowReturn(b)
    BY <1>3, <1>4 DEF RowReturn, Captured
  <2>2. ASSUME NEW p \in Process PROVE HandlerReturn(p)
    BY <1>2 DEF HandlerReturn, Settling
  <2> QED
    BY <2>1, <2>2 DEF ReturnInv
<1>8. ChargeInv
  BY <1>2, <1>3, <1>4
    DEF ChargeInv, KeysFit, HandlerCharge, SettledMeansCharged
<1> QED
  BY TypeInit, <1>5, <1>6, <1>7, <1>8 DEF IInv

LEMMA InvStep == IInv /\ [Next]_vars => IInv'
  BY TypeStep, PresenceStep, HoldStep, ReturnStep, ChargeStep DEF IInv

\* The invariant of the whole booking system, from which the properties below
\* follow.
THEOREM Invariance == Spec => []IInv
  BY InvInit, InvStep, PTL DEF Spec

\* Rows, handlers, holds and operations keep their types (BookingTable).
THEOREM TypeCorrect == Spec => []TypeOK
<1>1. IInv => TypeOK
  BY DEF IInv
<1> QED
  BY <1>1, Invariance, PTL

\* A confirmed booking names a hold authorised for it (createBooking and
\* retryPayment against cancelBooking and the calendar).
THEOREM ConfirmedHold == Spec => []ConfirmedHasOwnHold
<1>1. IInv => ConfirmedHasOwnHold
  BY DEF IInv, HoldInv, RowHold, OwnHold, ConfirmedHasOwnHold
<1> QED
  BY <1>1, Invariance, PTL

\* Captures and releases draw on the booking's own holds.
THEOREM OwnHoldCharged == Spec => []ChargesOwnHold
<1>1. IInv => ChargesOwnHold
  BY DEF IInv, HoldInv
<1> QED
  BY <1>1, Invariance, PTL

\* However many handlers charge a booking, and whatever hold its row names at the
\* time, the keys they build let the provider make each charge once.
THEOREM ChargedOnce == Spec => []ChargedAtMostOnce
<1>1. ASSUME TypeOK, KeysFit, NEW o1 \in operations, NEW o2 \in operations,
             o1.kind = o2.kind, o1.booking = o2.booking
      PROVE  o1 = o2
  <2>1. o1.key = o2.key
    BY <1>1 DEF KeysFit
  <2> QED
    BY <1>1, <2>1 DEF KeysFit
<1>2. IInv => ChargedAtMostOnce
  BY <1>1 DEF IInv, ChargeInv, ChargedAtMostOnce
<1> QED
  BY <1>2, Invariance, PTL

\* No rent is captured before the return is confirmed.
THEOREM CaptureAfterReturn == Spec => []CaptureNeedsReturn
<1>1. IInv => CaptureNeedsReturn
  BY DEF IInv, ReturnInv, RowReturn, ReturnConfirmed, CaptureNeedsReturn
<1> QED
  BY <1>1, Invariance, PTL

\* SETTLED is written only when rent and deposit have been dealt with.
THEOREM SettledIsCharged == Spec => []SettledMeansCharged
<1>1. IInv => SettledMeansCharged
  BY DEF IInv, ChargeInv
<1> QED
  BY <1>1, Invariance, PTL

-----------------------------------------------------------------------------
(* Dates.                                                                  *)

LEMMA OverlapSymmetric ==
  ASSUME NEW a \in Booking, NEW b \in Booking, Overlap(a, b)
  PROVE  Overlap(b, a)
  BY TermsAssumption DEF Overlap

\* The step of a handler in flight writes no row but its own.
LEMMA ContinueWritesOwn ==
  ASSUME TypeOK, NEW p \in Process, Continue(p), NEW b \in Booking, booking'[b] # booking[b]
  PROVE  process[p].booking = b /\ process[p].at # "idle"
<1>1. CASE RecordHold(p) \/ RecordFailure(p) \/ RecordCancel(p) \/ RecordConfirmation(p)
  BY <1>1 DEF RecordHold, RecordFailure, RecordCancel, RecordConfirmation, TypeOK, TableTypeOK
<1>2. CASE AutoConfirm(p) \/ MarkRetry(p) \/ RecordMissingHold(p)
  BY <1>2 DEF AutoConfirm, MarkRetry, RecordMissingHold, TypeOK, TableTypeOK
<1>3. CASE RecordSettled(p) \/ RecordFailed(p)
  BY <1>3 DEF RecordSettled, RecordFailed, TypeOK, TableTypeOK
<1>4. ~QuietStep(p)
  BY QuietStepKeepsRows
<1> QED
  BY <1>1, <1>2, <1>3, <1>4 DEF Continue, QuietStep

\* A booking appears by createBooking only, which writes its row alone and
\* has found its dates free.
LEMMA StepCreates ==
  ASSUME TypeOK, PresenceInv, NEW p \in Process, Call(p) \/ Continue(p) \/ Crash(p),
         NEW b \in Booking, booking[b].status = "ABSENT", booking'[b] # booking[b]
  PROVE  ~DatesAreTaken(b) /\ \A c \in Booking \ {b} : booking'[c] = booking[c]
<1>1. ~Crash(p)
  BY DEF Crash
<1>2. ~Continue(p)
  BY ContinueWritesOwn DEF PresenceInv
<1>3. ASSUME NEW c \in Booking, NEW t \in Token, CreateBooking(p, c, t)
      PROVE  ~DatesAreTaken(b) /\ \A d \in Booking \ {b} : booking'[d] = booking[d]
  <2>1. c = b
    BY <1>3 DEF CreateBooking, TypeOK, TableTypeOK
  <2> QED
    BY <1>3, <2>1 DEF CreateBooking, TypeOK, TableTypeOK
<1>4. ASSUME NEW l, NEW d1, NEW d2 PROVE ~CancelBlockingBookings(p, l, d1, d2)
  BY DEF CancelBlockingBookings, Blocking, BlockingStatus
<1>5. ASSUME NEW c \in Booking
      PROVE  ~(\/ \E t \in Token : RetryPayment(p, c, t)
               \/ CancelBooking(p, c) \/ ListExpired(p, c) \/ ListRetry(p, c)
               \/ \E a \in Parties : ConfirmReturn(p, c, a))
  BY DEF RetryPayment, CancelBooking, ListExpired, ListRetry, ConfirmReturn
<1> QED
  BY <1>1, <1>2, <1>3, <1>4, <1>5 DEF Call

Revivable == {"PAYMENT_FAILED", "CANCELLED", "COMPLETED"}

\* One side of a new clash: it was absent, and created beside the other.
LEMMA NoClashByCreation ==
  ASSUME TypeOK, PresenceInv, NEW p \in Process, Call(p) \/ Continue(p) \/ Crash(p),
         NEW a \in Booking, NEW b \in Booking, a # b, Overlap(a, b),
         Blocking(a)', Blocking(b)', ~Blocking(a)
  PROVE  \E c \in {a, b} : booking[c].status \in Revivable
<1>1. booking[a].status \in Revivable \cup {"ABSENT"}
  BY RowType DEF Row, Status, Blocking, BlockingStatus, Revivable
<1>2. CASE booking[a].status = "ABSENT"
  <2>1. booking'[a] # booking[a]
    BY <1>2 DEF Blocking, BlockingStatus
  <2>2. ~DatesAreTaken(a) /\ booking'[b] = booking[b]
    BY <1>2, <2>1, StepCreates
  <2>3. Blocking(b)
    BY <2>2 DEF Blocking
  <2> QED
    BY <2>2, <2>3, OverlapSymmetric DEF DatesAreTaken
<1> QED
  BY <1>1, <1>2

LEMMA ClashStep ==
  TypeOK /\ PresenceInv /\ [Next]_vars =>
     [\A a, b \in Booking :
        Clash(a, b)' /\ ~Clash(a, b) =>
           \E c \in {a, b} : booking[c].status \in
               {"PAYMENT_FAILED", "CANCELLED", "COMPLETED"}]_vars
<1> SUFFICES ASSUME TypeOK, PresenceInv, NEW p \in Process,
                    Call(p) \/ Continue(p) \/ Crash(p),
                    NEW a \in Booking, NEW b \in Booking, Clash(a, b)', ~Clash(a, b)
             PROVE  \E c \in {a, b} : booking[c].status \in Revivable
  BY DEF Next, Revivable, Cards, Clash, Blocking
<1>1. a # b /\ Overlap(a, b) /\ Overlap(b, a) /\ Blocking(a)' /\ Blocking(b)'
  BY OverlapSymmetric DEF Clash, Overlap
<1>2. ~Blocking(a) \/ ~Blocking(b)
  BY <1>1 DEF Clash
<1> QED
  BY <1>1, <1>2, NoClashByCreation

\* No creation of a booking ever brings two overlapping bookings about: only
\* one that had given up its dates and takes them back can.
THEOREM ClashesAreRevivals == Spec => ClashOnlyByRevival
<1>1. IInv /\ [Next]_vars =>
        [\A a, b \in Booking :
           Clash(a, b)' /\ ~Clash(a, b) =>
              \E c \in {a, b} : booking[c].status \in
                  {"PAYMENT_FAILED", "CANCELLED", "COMPLETED"}]_vars
  BY ClashStep DEF IInv
<1> QED
  BY <1>1, Invariance, PTL DEF Spec, ClashOnlyByRevival
=============================================================================
