------------------------ MODULE BookingLifecycleProofs ------------------------
(***************************************************************************)
(* Proofs of what the bookings keep when handlers overlap, fail and end in *)
(* any way: the life of a booking, the holds, and the days of a forced     *)
(* cancellation.  BookingSystemProofs has the invariant they rest on.      *)
(***************************************************************************)
EXTENDS BookingSystemProofs

USE DEF vars, tableVars, gatewayVars, At, Its, Begin, GoTo, Return, SetRow

-----------------------------------------------------------------------------
(* What a handler has seen when it comes to write.                         *)

\* The statuses that are written are the ones that can be reached.
LEMMA PaymentStatuses ==
  ASSUME NEW row \in Row, NEW h, row.status \in Reached
  PROVE  \A new \in {ConfirmedRow(row, h), UnpaidRow(row), CancelledRow(row),
                     CancelledKeepingHold(row)} : new.status \in Reached
  BY DEF Row, Reached, Unpaid, ConfirmedRow, UnpaidRow, CancelledRow, CancelledKeepingHold

LEMMA ReturnStatuses ==
  ASSUME NEW row \in Row, NEW marks, NEW n, row.status \in Reached
  PROVE  \A new \in {MarkedRow(row, marks), AutoConfirmedRow(row, marks), RetriedRow(row),
                     MissingHoldRow(row), SettledRow(row), UnsettledRow(row, n)} :
             new.status \in Reached
  BY DEF Row, Reached, Unpaid, MarkedRow, AutoConfirmedRow, RetriedRow, MissingHoldRow, SettledRow,
         UnsettledRow

\* A handler that writes writes a row of these, of the row as it is.
Writes(p, new) == booking' = [booking EXCEPT ![process[p].booking] = new]

LEMMA WriteReached ==
  ASSUME TypeOK, LifeInv, NEW p \in Process, NEW new, new.status \in Reached, Writes(p, new)
  PROVE  \A b \in Booking : booking'[b].status \in Reached
  BY HandlerType DEF Writes, LifeInv, TypeOK, TableTypeOK

LEMMA CallReached ==
  ASSUME TypeOK, LifeInv, NEW p \in Process, Call(p)
  PROVE  \A b \in Booking : booking'[b].status \in Reached
<1>1. \A b \in Booking : booking[b].status \in Reached /\ booking[b] \in Row
  BY RowType DEF LifeInv
<1>2. ASSUME NEW b \in Booking, NEW t \in Token, CreateBooking(p, b, t)
      PROVE  \A c \in Booking : booking'[c].status \in Reached
  <2>1. CreatedRow.status \in Reached
    BY DEF CreatedRow, AbsentRow, Reached, Unpaid
  <2> QED
    BY <1>1, <1>2, <2>1 DEF CreateBooking, TypeOK, TableTypeOK
<1>3. ASSUME NEW l, NEW d1, NEW d2, CancelBlockingBookings(p, l, d1, d2)
      PROVE  \A c \in Booking : booking'[c].status \in Reached
  BY <1>1, <1>3, PaymentStatuses DEF CancelBlockingBookings
<1>4. ASSUME NEW b \in Booking,
             \/ \E t \in Token : RetryPayment(p, b, t)
             \/ CancelBooking(p, b) \/ ListExpired(p, b) \/ ListRetry(p, b)
             \/ \E a \in Parties : ConfirmReturn(p, b, a)
      PROVE  \A c \in Booking : booking'[c].status \in Reached
  BY <1>1, <1>4 DEF RetryPayment, CancelBooking, ListExpired, ListRetry, ConfirmReturn
<1> QED
  BY <1>2, <1>3, <1>4 DEF Call

LEMMA ContinueReached ==
  ASSUME TypeOK, LifeInv, NEW p \in Process, Continue(p)
  PROVE  \A b \in Booking : booking'[b].status \in Reached
<1> DEFINE row == booking[process[p].booking]
<1>1. row \in Row /\ row.status \in Reached
  BY HandlerType DEF LifeInv
<1>2. CASE QuietStep(p)
  BY <1>2, QuietStepKeepsRows DEF LifeInv
<1>3. CASE RecordHold(p) \/ RecordFailure(p) \/ RecordCancel(p)
  BY <1>1, <1>3, PaymentStatuses, WriteReached
  DEF RecordHold, RecordFailure, RecordCancel, Writes
<1>4. CASE RecordConfirmation(p) \/ AutoConfirm(p) \/ MarkRetry(p)
  BY <1>1, <1>4, ReturnStatuses, WriteReached
  DEF RecordConfirmation, AutoConfirm, MarkRetry, Writes
<1>5. CASE RecordMissingHold(p) \/ RecordSettled(p) \/ RecordFailed(p)
  BY <1>1, <1>5, ReturnStatuses, WriteReached
  DEF RecordMissingHold, RecordSettled, RecordFailed, Writes
<1> QED
  BY <1>2, <1>3, <1>4, <1>5 DEF Continue, QuietStep

\* The handler that made the step.
LEMMA IdleDecided == Decided(Idle)
  BY IdleAt DEF Decided, Settling

LEMMA OpenMarksDecided ==
  ASSUME NEW row \in Row, NEW a \in Parties, "pending" \in OpenMarks(row, a)
  PROVE  row.settlementStatus \in {"NONE", "FAILED"}
  BY DEF OpenMarks, Parties

LEMMA CallDecided ==
  ASSUME TypeOK, LifeInv, NEW p \in Process, Call(p)
  PROVE  Decided(process'[p])
<1> USE DEF Starting, Seen
<1>1. \A b \in Booking : booking[b].status \in Reached /\ booking[b] \in Row
  BY RowType DEF LifeInv
<1>2. ASSUME NEW b \in Booking, NEW t \in Token,
             CreateBooking(p, b, t) \/ RetryPayment(p, b, t)
      PROVE  Decided(process'[p])
  <2>1. process'[p].at = "authorize" /\ process'[p].seen.status \in Unpaid
    BY <1>2 DEF CreateBooking, RetryPayment, Authorizing, CreatedRow, AbsentRow, Unpaid,
                TypeOK, TableTypeOK
  <2> QED
    BY <2>1 DEF Decided, Settling
<1>3. ASSUME NEW b \in Booking, CancelBooking(p, b) PROVE Decided(process'[p])
  <2>1. /\ process'[p].at \in {"cancel_release", "record_cancel"}
        /\ process'[p].seen.status = booking[b].status
    BY <1>3 DEF CancelBooking, TypeOK, TableTypeOK
  <2>2. booking[b].status \in Unpaid \cup {"CONFIRMED"}
    BY <1>1, <1>3 DEF CancelBooking, Cancellable, Reached, Unpaid
  <2> QED
    BY <2>1, <2>2 DEF Decided, Settling
<1>4. ASSUME NEW b \in Booking, NEW a \in Parties, ConfirmReturn(p, b, a)
      PROVE  Decided(process'[p])
  <2> DEFINE row == booking[b]
             marks == IF row.status = "COMPLETED" THEN {"pending"} ELSE OpenMarks(row, a)
  <2>1. /\ process'[p].at = "record_confirmation" /\ process'[p].marks = marks
        /\ process'[p].seen = [status |-> row.status, settlement |-> row.settlementStatus]
    BY <1>4 DEF ConfirmReturn, TypeOK, TableTypeOK
  <2>2. "mutual" \in marks => row.status = "CONFIRMED"
    BY <1>1, <1>4 DEF ConfirmReturn, Reached, Unpaid
  <2>3. "pending" \in marks => row.settlementStatus # "SETTLED"
    <3>1. CASE row.status = "COMPLETED"
      BY <1>4, <3>1 DEF ConfirmReturn, CanRetrySettlement
    <3>2. CASE row.status # "COMPLETED"
      BY <1>1, <3>2, OpenMarksDecided
    <3> QED
      BY <3>1, <3>2
  <2> QED
    BY <2>1, <2>2, <2>3 DEF Decided, Settling
<1>5. ASSUME NEW l, NEW d1, NEW d2, CancelBlockingBookings(p, l, d1, d2)
      PROVE  Decided(process'[p])
  BY <1>5 DEF CancelBlockingBookings, LifeInv
<1>6. ASSUME NEW b \in Booking, ListExpired(p, b) PROVE Decided(process'[p])
  <2>1. process'[p].at = "auto_cards" /\ process'[p].seen.status = booking[b].status
    BY <1>6 DEF ListExpired, TypeOK, TableTypeOK
  <2>2. booking[b].status = "CONFIRMED"
    BY <1>1, <1>6 DEF ListExpired, AwaitsLandlord, Reached, Unpaid
  <2> QED
    BY <2>1, <2>2 DEF Decided, Settling
<1>7. ASSUME NEW b \in Booking, ListRetry(p, b) PROVE Decided(process'[p])
  <2>1. process'[p].at = "retry_mark" /\ process'[p].seen.settlement = "FAILED"
    BY <1>7 DEF ListRetry, DueForRetry, TypeOK, TableTypeOK
  <2> QED
    BY <2>1 DEF Decided, Settling
<1> QED
  BY <1>2, <1>3, <1>4, <1>5, <1>6, <1>7 DEF Call

\* One that has just set the settlement to PENDING goes on to settle it.
LEMMA SettleDecided ==
  ASSUME NEW b, NEW row, row.settlementStatus = "PENDING"
  PROVE  Decided(Starting("settle", b, Seen(row)))
  BY DEF Starting, Seen, Decided, Settling

\* One that goes on keeps what it has seen.
LEMMA GoToDecided ==
  ASSUME TypeOK, LifeInv, NEW p \in Process, NEW label, GoTo(p, label),
         \/ /\ process[p].at \in {"authorize", "record_hold", "notify", "record_failure"}
            /\ label \in {"record_hold", "notify", "record_failure"}
         \/ process[p].at = "cancel_release" /\ label = "record_cancel"
         \/ process[p].at = "auto_cards" /\ label = "auto_check"
         \/ /\ process[p].at \in Settling \ {"retry_mark"}
            /\ label \in Settling \ {"retry_mark"}
  PROVE  Decided(process'[p])
<1>1. /\ process'[p].at = label /\ process'[p].seen = process[p].seen
      /\ process'[p].marks = process[p].marks
  BY HandlerType DEF Frame, TypeOK, TableTypeOK
<1>2. Decided(process[p])
  BY DEF LifeInv
<1> QED
  BY <1>1, <1>2 DEF Decided, Settling

LEMMA ContinueDecided ==
  ASSUME TypeOK, LifeInv, NEW p \in Process, Continue(p)
  PROVE  Decided(process'[p])
<1> DEFINE b == process[p].booking
           row == booking[process[p].booking]
<1>1. b \in Booking /\ row \in Row /\ process[p] \in Frame /\ Decided(process[p])
  BY HandlerType DEF LifeInv
<1>2. CASE \/ HoldAuthorized(p) \/ RecordHold(p) \/ PaymentFails(p) \/ CancelReleaseOk(p)
  BY <1>2, GoToDecided DEF HoldAuthorized, RecordHold, PaymentFails, CancelReleaseOk
<1>3. CASE \/ Notified(p) \/ RecordFailure(p) \/ CancelReleaseFails(p) \/ RecordCancel(p)
           \/ AlreadySettled(p) \/ RecordMissingHold(p) \/ SettlementNotified(p)
           \/ RecordFailed(p)
  <2>1. process'[p] = Idle
    BY <1>3
    DEF Notified, RecordFailure, CancelReleaseFails, RecordCancel, AlreadySettled,
        RecordMissingHold, SettlementNotified, RecordFailed, TypeOK, TableTypeOK
  <2> QED
    BY <2>1, IdleDecided
<1>4. CASE RecordConfirmation(p)
  <2> DEFINE new == MarkedRow(row, process[p].marks)
  <2>1. "pending" \in process[p].marks => new.settlementStatus = "PENDING"
    BY <1>1 DEF MarkedRow, Row
  <2>2. process'[p] = IF "pending" \in process[p].marks
                      THEN Starting("settle", b, Seen(new)) ELSE Idle
    BY <1>4 DEF RecordConfirmation, TypeOK, TableTypeOK
  <2> QED
    BY <2>1, <2>2, IdleDecided, SettleDecided
<1>5. CASE AutoConfirm(p)
  <2> DEFINE new == AutoConfirmedRow(row, process[p].marks)
  <2>1. process'[p] = IF new.settlementStatus = "PENDING"
                      THEN Starting("settle", b, Seen(new)) ELSE Idle
    BY <1>5 DEF AutoConfirm, TypeOK, TableTypeOK
  <2> QED
    BY <2>1, IdleDecided, SettleDecided
<1>6. CASE MarkRetry(p)
  <2>1. RetriedRow(row).settlementStatus = "PENDING"
    BY <1>1 DEF RetriedRow, Row
  <2>2. process'[p] = Starting("settle", b, Seen(RetriedRow(row)))
    BY <1>6 DEF MarkRetry, TypeOK, TableTypeOK
  <2> QED
    BY <2>1, <2>2, SettleDecided
<1>7. CASE CheckCards(p)
  <2>1. CASE GoTo(p, "auto_check")
    BY <1>7, <2>1, GoToDecided DEF CheckCards
  <2>2. CASE Return(p)
    BY <2>2, IdleDecided DEF TypeOK, TableTypeOK
  <2> QED
    BY <1>7, <2>1, <2>2 DEF CheckCards
<1>8. CASE CheckExpired(p)
  <2>1. CASE process'[p] = Idle
    BY <2>1, IdleDecided
  <2>2. CASE process'[p] # Idle
    <3>1. /\ process'[p].at = "auto_record"
          /\ process'[p].marks = {m \in {"pending"} : row.settlementStatus \in {"NONE", "FAILED"}}
          /\ process'[p].seen.status = process[p].seen.status
          /\ process'[p].seen.settlement = row.settlementStatus
      BY <1>1, <1>8, <2>2 DEF CheckExpired, Frame, View, TypeOK, TableTypeOK
    <3>2. process[p].seen.status = "CONFIRMED"
      BY <1>1, <1>8 DEF CheckExpired, Decided
    <3> QED
      BY <3>1, <3>2 DEF Decided, Settling
  <2> QED
    BY <2>1, <2>2
<1>9. CASE AttemptSettlement(p)
  <2>1. process'[p].at = FirstStep(b) /\ process'[p].seen = process[p].seen
    BY <1>1, <1>9 DEF AttemptSettlement, Frame, TypeOK, TableTypeOK
  <2>2. FirstStep(b) \in Settling \ {"retry_mark"}
    BY DEF FirstStep, NextCharge, Settling
  <2>3. process[p].seen.settlement = "PENDING"
    BY <1>1, <1>9 DEF AttemptSettlement, Decided, Settling
  <2> QED
    BY <2>1, <2>2, <2>3 DEF Decided, Settling
<1>10. CASE CaptureRent(p) \/ ReleaseDeposit(p)
  BY <1>10, GoToDecided DEF CaptureRent, AfterCapture, ReleaseDeposit, Settling
<1>11. CASE RecordSettled(p) \/ SettlementFails(p)
  BY <1>11, GoToDecided DEF RecordSettled, SettlementFails, Settling
<1> QED
  BY <1>2, <1>3, <1>4, <1>5, <1>6, <1>7, <1>8, <1>9, <1>10, <1>11 DEF Continue

LEMMA LifeStep == TypeOK /\ PresenceInv /\ LifeInv /\ [Next]_vars => LifeInv'
<1> SUFFICES ASSUME TypeOK, PresenceInv, LifeInv, [Next]_vars PROVE LifeInv'
  OBVIOUS
<1>1. CASE UNCHANGED vars \/ Cards
  BY <1>1 DEF LifeInv, Cards
<1>2. ASSUME NEW p \in Process, Call(p) \/ Continue(p) \/ Crash(p) PROVE LifeInv'
  <2>1. \A b \in Booking : booking'[b].status \in Reached
    <3>1. CASE Crash(p)
      BY <3>1 DEF Crash, LifeInv
    <3> QED
      BY <1>2, <3>1, CallReached, ContinueReached
  <2>2. Decided(process'[p])
    <3>1. CASE Crash(p)
      BY <3>1, IdleDecided DEF Crash, TypeOK, TableTypeOK
    <3> QED
      BY <1>2, <3>1, CallDecided, ContinueDecided
  <2>3. ASSUME NEW q \in Process \ {p} PROVE Decided(process'[q])
    BY <1>2, StepShape DEF Shape, LifeInv
  <2> QED
    BY <2>1, <2>2, <2>3 DEF LifeInv
<1> QED
  BY <1>1, <1>2 DEF Next

-----------------------------------------------------------------------------
(* What a cancellation has released when it comes to write.                *)

\* Nobody comes to "record_cancel" but past a release, or with nothing to release.
HasReleased(p) ==
    /\ At(p, "record_cancel")
    /\ process[p].hold # NoHold
    /\ Terms[Its(p)].rent + Terms[Its(p)].deposit > 0
    => \E o \in operations : o.key = CancelReleaseKey(Its(p))

LEMMA CallReleased ==
  ASSUME TypeOK, NEW p \in Process, Call(p)
  PROVE  HasReleased(p)' /\ holds' = holds
<1> USE DEF HasReleased, Starting
<1>1. ASSUME NEW b \in Booking, CancelBooking(p, b)
      PROVE  HasReleased(p)' /\ holds' = holds
  <2>1. /\ process'[p].booking = b /\ process'[p].hold = booking[b].paymentHoldId
        /\ process'[p].at = "record_cancel" => ~HasHoldToRelease(b)
    BY <1>1 DEF CancelBooking, TypeOK, TableTypeOK
  <2> QED
    BY <1>1, <2>1 DEF HasHoldToRelease, CancelBooking
<1>2. ASSUME NEW l, NEW d1, NEW d2, CancelBlockingBookings(p, l, d1, d2)
      PROVE  HasReleased(p)' /\ holds' = holds
  BY <1>2 DEF CancelBlockingBookings
<1>3. ASSUME NEW b \in Booking,
             \/ \E t \in Token : CreateBooking(p, b, t) \/ RetryPayment(p, b, t)
             \/ ListExpired(p, b) \/ ListRetry(p, b)
             \/ \E a \in Parties : ConfirmReturn(p, b, a)
      PROVE  HasReleased(p)' /\ holds' = holds
  <2>1. process'[p].at # "record_cancel"
    BY <1>3 DEF CreateBooking, RetryPayment, Authorizing, ListExpired, ListRetry,
                ConfirmReturn, TypeOK, TableTypeOK
  <2> QED
    BY <1>3, <2>1 DEF CreateBooking, RetryPayment, ListExpired, ListRetry, ConfirmReturn
<1> QED
  BY <1>1, <1>2, <1>3 DEF Call

\* After Perform somebody, now or before, has used the key.
LEMMA PerformUsesKey ==
  ASSUME NEW kind, NEW b, NEW h, NEW key, Perform(kind, b, h, key)
  PROVE  \E o \in operations' : o.key = key
<1> DEFINE this == [kind |-> kind, booking |-> b, hold |-> h, key |-> key]
<1>1. this.key = key
  OBVIOUS
<1>2. CASE \A done \in operations : done.key # key
  <2>1. this \in operations'
    BY <1>2 DEF Perform
  <2> QED
    BY <1>1, <2>1
<1>3. CASE \E done \in operations : done.key = key
  BY <1>3, PerformGrows
<1> QED
  BY <1>2, <1>3

LEMMA ContinueReleased ==
  ASSUME TypeOK, NEW p \in Process, Continue(p)
  PROVE  HasReleased(p)'
<1> DEFINE b == process[p].booking
<1> USE DEF HasReleased, Starting
<1>1. b \in Booking /\ process[p] \in Frame
  BY HandlerType
<1>2. CASE CancelReleaseOk(p)
  <2>1. process'[p].booking = b
    BY <1>1, <1>2 DEF CancelReleaseOk, Frame, TypeOK, TableTypeOK
  <2>2. \E o \in operations' : o.key = CancelReleaseKey(b)
    BY <1>2, PerformUsesKey DEF CancelReleaseOk
  <2> QED
    BY <2>1, <2>2
<1>3. CASE \/ HoldAuthorized(p) \/ RecordHold(p) \/ Notified(p) \/ PaymentFails(p)
           \/ RecordFailure(p) \/ CancelReleaseFails(p) \/ RecordCancel(p)
  <2>1. process'[p].at \in {"idle", "record_hold", "notify", "record_failure"}
    BY <1>1, <1>3, IdleAt
    DEF HoldAuthorized, RecordHold, Notified, PaymentFails, RecordFailure,
        CancelReleaseFails, RecordCancel, Frame, TypeOK, TableTypeOK
  <2> QED
    BY <2>1
<1>4. CASE \/ RecordConfirmation(p) \/ CheckCards(p) \/ CheckExpired(p) \/ AutoConfirm(p)
           \/ MarkRetry(p)
  <2>1. CASE RecordConfirmation(p) \/ AutoConfirm(p) \/ MarkRetry(p)
    <3>1. process'[p].at \in {"idle", "settle"}
      BY <2>1, IdleAt DEF RecordConfirmation, AutoConfirm, MarkRetry, TypeOK, TableTypeOK
    <3> QED
      BY <3>1
  <2>2. CASE CheckCards(p) \/ CheckExpired(p)
    <3>1. process'[p].at \in {"idle", "auto_check", "auto_record"}
      BY <1>1, <2>2, IdleAt DEF CheckCards, CheckExpired, Frame, TypeOK, TableTypeOK
    <3> QED
      BY <3>1
  <2> QED
    BY <1>4, <2>1, <2>2
<1>5. CASE AttemptSettlement(p)
  <2>1. process'[p].at = FirstStep(b)
    BY <1>1, <1>5 DEF AttemptSettlement, Frame, TypeOK, TableTypeOK
  <2> QED
    BY <2>1 DEF FirstStep, NextCharge
<1>6. CASE CaptureRent(p) \/ ReleaseDeposit(p)
  <2>1. process'[p].at \in {"release", "record_settled"}
    BY <1>1, <1>6 DEF CaptureRent, AfterCapture, ReleaseDeposit, Frame, TypeOK, TableTypeOK
  <2> QED
    BY <2>1
<1>7. CASE \/ AlreadySettled(p) \/ RecordMissingHold(p) \/ RecordSettled(p)
           \/ SettlementNotified(p) \/ SettlementFails(p) \/ RecordFailed(p)
  <2>1. process'[p].at \in {"idle", "notify_settled", "record_failed"}
    BY <1>1, <1>7, IdleAt
    DEF AlreadySettled, RecordMissingHold, RecordSettled, SettlementNotified, SettlementFails,
        RecordFailed, Frame, TypeOK, TableTypeOK
  <2> QED
    BY <2>1
<1> QED
  BY <1>2, <1>3, <1>4, <1>5, <1>6, <1>7 DEF Continue

\* Holds come from HoldAuthorized only, which has the gateway's word on the amount.
LEMMA StepAuthorizes ==
  ASSUME HoldInv, NEW p \in Process, Call(p) \/ Continue(p) \/ Crash(p), TypeOK
  PROVE  \A key \in holds' \ holds : Terms[key.booking].rent + Terms[key.booking].deposit > 0
<1>1. CASE HoldAuthorized(p)
  BY <1>1 DEF HoldAuthorized, AuthorizeHold, HoldInv, HandlerHold
<1>2. CASE Call(p) \/ Crash(p)
  BY <1>2, CallReleased DEF Crash
<1>3. CASE \/ RecordHold(p) \/ Notified(p) \/ PaymentFails(p) \/ RecordFailure(p)
           \/ CancelReleaseOk(p) \/ CancelReleaseFails(p) \/ RecordCancel(p)
  BY <1>3 DEF RecordHold, Notified, PaymentFails, RecordFailure, CancelReleaseOk, Perform,
              CancelReleaseFails, RecordCancel
<1>4. CASE \/ RecordConfirmation(p) \/ CheckCards(p) \/ CheckExpired(p) \/ AutoConfirm(p)
           \/ MarkRetry(p)
  BY <1>4 DEF RecordConfirmation, CheckCards, CheckExpired, AutoConfirm, MarkRetry
<1>5. CASE \/ AttemptSettlement(p) \/ AlreadySettled(p) \/ RecordMissingHold(p)
           \/ CaptureRent(p) \/ ReleaseDeposit(p) \/ RecordSettled(p) \/ SettlementNotified(p)
           \/ SettlementFails(p) \/ RecordFailed(p)
  BY <1>5 DEF AttemptSettlement, AlreadySettled, RecordMissingHold, CaptureRent,
              ReleaseDeposit, Perform, RecordSettled, SettlementNotified, SettlementFails,
              RecordFailed
<1> QED
  BY <1>1, <1>2, <1>3, <1>4, <1>5 DEF Continue

LEMMA HeldStep == IInv /\ HeldInv /\ [Next]_vars => HeldInv'
<1> SUFFICES ASSUME IInv, HeldInv, [Next]_vars PROVE HeldInv'
  OBVIOUS
<1> USE DEF HeldInv
<1>1. CASE UNCHANGED vars \/ Cards
  BY <1>1 DEF Cards
<1>2. ASSUME NEW p \in Process, Call(p) \/ Continue(p) \/ Crash(p) PROVE HeldInv'
  <2>1. Shape(p)
    BY <1>2, StepShape DEF IInv
  <2>2. \A key \in holds' : Terms[key.booking].rent + Terms[key.booking].deposit > 0
    BY <1>2, StepAuthorizes DEF IInv
  <2>3. HasReleased(p)'
    <3>1. CASE Crash(p)
      BY <3>1, IdleAt DEF Crash, HasReleased, IInv, TypeOK, TableTypeOK
    <3> QED
      BY <1>2, <3>1, CallReleased, ContinueReleased DEF IInv
  <2>4. ASSUME NEW q \in Process \ {p} PROVE HasReleased(q)'
    BY <2>1 DEF Shape, HasReleased
  <2> QED
    BY <2>2, <2>3, <2>4 DEF HasReleased
<1> QED
  BY <1>1, <1>2 DEF Next

LEMMA DecisionsInit == Init => LifeInv /\ HeldInv
<1> SUFFICES ASSUME Init PROVE LifeInv /\ HeldInv
  OBVIOUS
<1>1. \A b \in Booking : booking[b].status \in {"ABSENT", "CONFIRMED"}
  BY DEF Init, AbsentRow
<1>2. \A p \in Process : Decided(process[p]) /\ process[p].at = "idle"
  BY IdleDecided, IdleAt DEF Init
<1>3. \A key \in holds : Terms[key.booking].rent + Terms[key.booking].deposit > 0
  BY FirstKeyType, SystemAssumption DEF Init
<1> QED
  BY <1>1, <1>2, <1>3 DEF LifeInv, HeldInv, Reached

\* Whatever interferes, a handler comes to its write having seen a state that
\* admits it, and a cancellation having used its key when it has seen a hold.
THEOREM DecisionsKept == Spec => [](LifeInv /\ HeldInv)
<1>1. IInv /\ LifeInv /\ HeldInv /\ [Next]_vars => (LifeInv /\ HeldInv)'
  BY LifeStep, HeldStep DEF IInv
<1> QED
  BY <1>1, DecisionsInit, Invariance, PTL DEF Spec

-----------------------------------------------------------------------------
(* The life of a booking.                                                  *)

StatusMoves(from, to) == Lifecycle!Along(Lifecycle!StatusArrows, from, to)

SettlementMoves(from, to) == Lifecycle!Along(Lifecycle!SettlementArrows, from, to)

\* The handler f makes `new` of a row: along the arrows, if it knows the row.
RowMoves(f, row, new) ==
    /\ f.seen.status # row.status \/ StatusMoves(row.status, new.status)
    /\ f.seen.settlement # row.settlementStatus
         \/ SettlementMoves(row.settlementStatus, new.settlementStatus)

LEMMA PaymentMoves ==
  ASSUME NEW f, NEW row \in Row, NEW h, Decided(f)
  PROVE  /\ f.at = "record_hold" => RowMoves(f, row, ConfirmedRow(row, h))
         /\ f.at = "record_failure" => RowMoves(f, row, UnpaidRow(row))
         /\ f.at = "record_cancel" => RowMoves(f, row, CancelledRow(row))
<1> USE DEF RowMoves, StatusMoves, SettlementMoves, Lifecycle!Along, Lifecycle!StatusArrows,
            Decided, Unpaid, Row
<1>1. f.at = "record_hold" => RowMoves(f, row, ConfirmedRow(row, h))
  BY DEF ConfirmedRow
<1>2. f.at = "record_failure" => RowMoves(f, row, UnpaidRow(row))
  BY DEF UnpaidRow
<1>3. f.at = "record_cancel" => RowMoves(f, row, CancelledRow(row))
  BY DEF CancelledRow
<1> QED
  BY <1>1, <1>2, <1>3

LEMMA ReturnMoves ==
  ASSUME NEW f, NEW row \in Row, Decided(f)
  PROVE  /\ f.at = "record_confirmation" => RowMoves(f, row, MarkedRow(row, f.marks))
         /\ f.at = "auto_record" => RowMoves(f, row, AutoConfirmedRow(row, f.marks))
         /\ f.at = "retry_mark" => RowMoves(f, row, RetriedRow(row))
<1> USE DEF RowMoves, StatusMoves, SettlementMoves, Lifecycle!Along, Lifecycle!StatusArrows,
            Lifecycle!SettlementArrows, Decided, Row, SettlementStatus
<1>1. f.at = "record_confirmation" => RowMoves(f, row, MarkedRow(row, f.marks))
  BY DEF MarkedRow
<1>2. f.at = "auto_record" => RowMoves(f, row, AutoConfirmedRow(row, f.marks))
  BY DEF AutoConfirmedRow
<1>3. f.at = "retry_mark" => RowMoves(f, row, RetriedRow(row))
  BY DEF RetriedRow
<1> QED
  BY <1>1, <1>2, <1>3

LEMMA SettlementMovesOn ==
  ASSUME NEW f, NEW row \in Row, NEW n, Decided(f), f.at \in Settling \ {"retry_mark"}
  PROVE  /\ RowMoves(f, row, MissingHoldRow(row))
         /\ RowMoves(f, row, SettledRow(row))
         /\ RowMoves(f, row, UnsettledRow(row, n))
<1> USE DEF RowMoves, StatusMoves, SettlementMoves, Lifecycle!Along, Lifecycle!SettlementArrows,
            Row
<1>1. f.seen.settlement = "PENDING"
  BY DEF Decided
<1>2. RowMoves(f, row, MissingHoldRow(row)) /\ RowMoves(f, row, SettledRow(row))
  BY <1>1 DEF MissingHoldRow, SettledRow
<1>3. RowMoves(f, row, UnsettledRow(row, n))
  BY <1>1 DEF UnsettledRow
<1> QED
  BY <1>2, <1>3

\* What the handler knows afterwards.
Looking(p) ==
    LET old == process[p]
        new == process'[p]
    IN  \/ new.seen.status = "ABSENT"
        \/ /\ new.booking \in Booking
           /\ \/ new.seen.status = booking'[new.booking].status
              \/ new.seen.status = old.seen.status /\ new.booking = old.booking
           /\ \/ new.seen.settlement = booking'[new.booking].settlementStatus
              \/ new.seen.settlement = old.seen.settlement /\ new.booking = old.booking

LEMMA LooksMaps ==
  ASSUME NEW p \in Process, \A q \in Process \ {p} : process'[q] = process[q], Looking(p)
  PROVE  Lifecycle!Looks(p)
  BY DEF Looking, Lifecycle!Looks

LEMMA ActMaps ==
  ASSUME TypeOK, NEW p \in Process, \A q \in Process \ {p} : process'[q] = process[q], Looking(p),
         \A b \in Booking \ {process[p].booking} : booking'[b] = booking[b],
         RowMoves(process[p], booking[process[p].booking], booking'[process[p].booking])
  PROVE  Lifecycle!Next
<1>1. Lifecycle!Looks(p)
  BY LooksMaps
<1>2. process[p].booking \in Booking
  BY HandlerType
<1>3. Lifecycle!Act(p)
  BY <1>1, <1>2 DEF Lifecycle!Act, RowMoves, StatusMoves, SettlementMoves
<1> QED
  BY <1>3 DEF Lifecycle!Next

LEMMA SameRowMoves == ASSUME NEW f, NEW row PROVE RowMoves(f, row, row)
  BY DEF RowMoves, StatusMoves, SettlementMoves, Lifecycle!Along

\* A step that writes no row.
LEMMA LookMaps ==
  ASSUME TypeOK, NEW p \in Process, \A q \in Process \ {p} : process'[q] = process[q], Looking(p),
         booking' = booking
  PROVE  Lifecycle!Next
  BY ActMaps, SameRowMoves

LEMMA IdleSeen == Idle.seen.status = "ABSENT"
  BY DEF Idle, Starting, Seen, AbsentRow

\* A request or the job begins.
LEMMA CallMaps ==
  ASSUME TypeOK, PresenceInv, LifeInv, NEW p \in Process, Call(p)
  PROVE  Lifecycle!Next
<1> USE DEF Starting, Seen
<1>1. ASSUME NEW b \in Booking, NEW t \in Token, CreateBooking(p, b, t)
      PROVE  Lifecycle!Next
  <2>1. /\ booking[b].status = "ABSENT"
        /\ booking' = [booking EXCEPT ![b] = CreatedRow]
        /\ \A q \in Process \ {p} : process'[q] = process[q]
        /\ process'[p].booking = b
        /\ process'[p].seen = [status |-> CreatedRow.status,
                               settlement |-> CreatedRow.settlementStatus]
    BY <1>1 DEF CreateBooking, Authorizing, TypeOK, TableTypeOK
  <2>2. booking[b] = AbsentRow
    BY <2>1 DEF PresenceInv
  <2>3. CreatedRow.status = "PENDING_PAYMENT" /\ CreatedRow.settlementStatus = "NONE"
        /\ AbsentRow.settlementStatus = "NONE"
    BY DEF CreatedRow, AbsentRow
  <2>4. /\ \A c \in Booking \ {b} : booking'[c] = booking[c]
        /\ booking'[b].status = "PENDING_PAYMENT"
        /\ booking'[b].settlementStatus = booking[b].settlementStatus
    BY <2>1, <2>2, <2>3 DEF TypeOK, TableTypeOK
  <2>5. Lifecycle!Looks(p)
    BY <2>1, <2>3, <2>4, LooksMaps DEF Looking
  <2>6. Lifecycle!Create(p, b)
    <3>1. [c \in Booking |-> booking'[c].settlementStatus]
            = [c \in Booking |-> booking[c].settlementStatus]
      BY <2>4
    <3>2. [c \in Booking |-> booking'[c].status]
            = [[c \in Booking |-> booking[c].status] EXCEPT ![b] = "PENDING_PAYMENT"]
      BY <2>4
    <3> QED
      BY <2>1, <2>5, <3>1, <3>2 DEF Lifecycle!Create
  <2> QED
    BY <2>6 DEF Lifecycle!Next
<1>2. ASSUME NEW b \in Booking,
             \/ \E t \in Token : RetryPayment(p, b, t)
             \/ CancelBooking(p, b) \/ ListExpired(p, b) \/ ListRetry(p, b)
             \/ \E a \in Parties : ConfirmReturn(p, b, a)
      PROVE  Lifecycle!Next
  <2>1. /\ booking' = booking
        /\ \A q \in Process \ {p} : process'[q] = process[q]
    BY <1>2 DEF RetryPayment, CancelBooking, ListExpired, ListRetry, ConfirmReturn,
                TypeOK, TableTypeOK
  <2>2. /\ process'[p].booking = b
        /\ process'[p].seen = [status |-> booking[b].status,
                               settlement |-> booking[b].settlementStatus]
    BY <1>2 DEF RetryPayment, Authorizing, CancelBooking, ListExpired, ListRetry, ConfirmReturn,
                TypeOK, TableTypeOK
  <2> QED
    BY <2>1, <2>2, LookMaps DEF Looking
<1>3. ASSUME NEW l, NEW d1, NEW d2, CancelBlockingBookings(p, l, d1, d2)
      PROVE  Lifecycle!Next
  <2>1. PICK hit \in SUBSET Booking : hit = {b \in Booking : Blocking(b) /\ OnDays(b, l, d1, d2)}
    OBVIOUS
  <2>2. booking' = [b \in Booking |-> IF b \in hit THEN CancelledKeepingHold(booking[b])
                                                  ELSE booking[b]]
        /\ process' = process
    BY <1>3, <2>1 DEF CancelBlockingBookings
  <2>3. \A b \in hit : <<booking[b].status, "CANCELLED">> \in Lifecycle!StatusArrows
    BY <2>1 DEF LifeInv, Reached, Unpaid, Blocking, BlockingStatus, Lifecycle!StatusArrows
  <2>4. \A b \in hit : /\ CancelledKeepingHold(booking[b]).status = "CANCELLED"
                       /\ CancelledKeepingHold(booking[b]).settlementStatus
                            = booking[b].settlementStatus
    BY RowType DEF CancelledKeepingHold, Row
  <2>5. /\ \A b \in Booking : booking'[b].status =
                IF b \in hit THEN "CANCELLED" ELSE booking[b].status
        /\ \A b \in Booking : booking'[b].settlementStatus = booking[b].settlementStatus
    BY <2>2, <2>4
  <2>6. Lifecycle!Cancel(hit)
    BY <2>2, <2>3, <2>5 DEF Lifecycle!Cancel
  <2> QED
    BY <2>6 DEF Lifecycle!Next
<1> QED
  BY <1>1, <1>2, <1>3 DEF Call

\* A handler in flight: what it knows afterwards,
LEMMA ContinueLooks ==
  ASSUME TypeOK, NEW p \in Process, Continue(p)
  PROVE  Looking(p)
<1> DEFINE b == process[p].booking
           row == booking[process[p].booking]
<1> USE DEF Looking
<1>1. b \in Booking /\ row \in Row /\ process[p] \in Frame
  BY HandlerType
<1>2. CASE process'[p] = Idle
  BY <1>2, IdleSeen
<1>3. CASE process'[p].booking = b /\ process'[p].seen = process[p].seen
  BY <1>1, <1>3
<1>4. ASSUME NEW new, booking' = [booking EXCEPT ![b] = new],
             process'[p] = Starting("settle", b, Seen(new))
      PROVE  Looking(p)
  BY <1>1, <1>4 DEF Starting, Seen, TypeOK, TableTypeOK
<1>5. CASE \/ HoldAuthorized(p) \/ RecordHold(p) \/ PaymentFails(p) \/ CancelReleaseOk(p)
           \/ CaptureRent(p) \/ ReleaseDeposit(p) \/ RecordSettled(p) \/ SettlementFails(p)
  <2>1. process'[p].booking = b /\ process'[p].seen = process[p].seen
    BY <1>1, <1>5
    DEF HoldAuthorized, RecordHold, PaymentFails, CancelReleaseOk, CaptureRent,
        ReleaseDeposit, RecordSettled, SettlementFails, Frame, TypeOK, TableTypeOK
  <2> QED
    BY <1>3, <2>1
<1>6. CASE \/ Notified(p) \/ RecordFailure(p) \/ CancelReleaseFails(p) \/ RecordCancel(p)
           \/ AlreadySettled(p) \/ RecordMissingHold(p) \/ SettlementNotified(p)
           \/ RecordFailed(p)
  <2>1. process'[p] = Idle
    BY <1>6
    DEF Notified, RecordFailure, CancelReleaseFails, RecordCancel, AlreadySettled,
        RecordMissingHold, SettlementNotified, RecordFailed, TypeOK, TableTypeOK
  <2> QED
    BY <1>2, <2>1
<1>7. CASE RecordConfirmation(p)
  <2>1. \/ process'[p] = Idle
        \/ process'[p] = Starting("settle", b, Seen(MarkedRow(row, process[p].marks)))
    BY <1>7 DEF RecordConfirmation, TypeOK, TableTypeOK
  <2> QED
    BY <1>2, <1>4, <1>7, <2>1 DEF RecordConfirmation
<1>8. CASE AutoConfirm(p)
  <2>1. \/ process'[p] = Idle
        \/ process'[p] = Starting("settle", b, Seen(AutoConfirmedRow(row, process[p].marks)))
    BY <1>8 DEF AutoConfirm, TypeOK, TableTypeOK
  <2> QED
    BY <1>2, <1>4, <1>8, <2>1 DEF AutoConfirm
<1>9. CASE MarkRetry(p)
  <2>1. process'[p] = Starting("settle", b, Seen(RetriedRow(row)))
    BY <1>9 DEF MarkRetry, TypeOK, TableTypeOK
  <2> QED
    BY <1>4, <1>9, <2>1 DEF MarkRetry
<1>10. CASE CheckCards(p)
  <2>1. process'[p] = Idle \/ (process'[p].booking = b /\ process'[p].seen = process[p].seen)
    BY <1>1, <1>10 DEF CheckCards, Frame, TypeOK, TableTypeOK
  <2> QED
    BY <1>2, <1>3, <2>1
<1>11. CASE CheckExpired(p)
  <2>1. \/ process'[p] = Idle
        \/ /\ process'[p].booking = b /\ booking' = booking
           /\ process'[p].seen.status = process[p].seen.status
           /\ process'[p].seen.settlement = row.settlementStatus
    BY <1>1, <1>11 DEF CheckExpired, Frame, View, TypeOK, TableTypeOK
  <2> QED
    BY <1>1, <1>2, <2>1
<1>12. CASE AttemptSettlement(p)
  <2>1. process'[p].booking = b /\ process'[p].seen = process[p].seen
    BY <1>1, <1>12 DEF AttemptSettlement, Frame, TypeOK, TableTypeOK
  <2> QED
    BY <1>3, <2>1
<1> QED
  BY <1>5, <1>6, <1>7, <1>8, <1>9, <1>10, <1>11, <1>12 DEF Continue

\* and what it has made of its row.
LEMMA ContinueMoves ==
  ASSUME TypeOK, LifeInv, NEW p \in Process, Continue(p)
  PROVE  RowMoves(process[p], booking[process[p].booking], booking'[process[p].booking])
<1> DEFINE b == process[p].booking
           row == booking[process[p].booking]
<1>1. b \in Booking /\ row \in Row /\ Decided(process[p])
  BY HandlerType DEF LifeInv
<1>2. \A new : booking' = [booking EXCEPT ![b] = new] => booking'[b] = new
  BY <1>1 DEF TypeOK, TableTypeOK
<1>3. CASE QuietStep(p)
  BY <1>3, QuietStepKeepsRows, SameRowMoves
<1>4. CASE RecordHold(p) \/ RecordFailure(p) \/ RecordCancel(p)
  BY <1>1, <1>2, <1>4, PaymentMoves DEF RecordHold, RecordFailure, RecordCancel
<1>5. CASE RecordConfirmation(p) \/ AutoConfirm(p) \/ MarkRetry(p)
  BY <1>1, <1>2, <1>5, ReturnMoves DEF RecordConfirmation, AutoConfirm, MarkRetry
<1>6. CASE RecordMissingHold(p) \/ RecordSettled(p) \/ RecordFailed(p)
  BY <1>1, <1>2, <1>6, SettlementMovesOn
  DEF RecordMissingHold, RecordSettled, RecordFailed, Settling
<1> QED
  BY <1>3, <1>4, <1>5, <1>6 DEF Continue, QuietStep

LEMMA LifecycleStep ==
  TypeOK /\ PresenceInv /\ LifeInv /\ [Next]_vars => [Lifecycle!Next]_(Lifecycle!vars)
<1> SUFFICES ASSUME TypeOK, PresenceInv, LifeInv, [Next]_vars
             PROVE  [Lifecycle!Next]_(Lifecycle!vars)
  OBVIOUS
<1>1. CASE UNCHANGED vars \/ Cards
  BY <1>1 DEF Cards, Lifecycle!vars
<1>2. ASSUME NEW p \in Process, Continue(p) PROVE Lifecycle!Next
  <2>1. \A b \in Booking \ {process[p].booking} : booking'[b] = booking[b]
    BY <1>2, ContinueWritesOwn
  <2>2. \A q \in Process \ {p} : process'[q] = process[q]
    BY <1>2, StepShape DEF Shape
  <2> QED
    BY <1>2, <2>1, <2>2, ContinueLooks, ContinueMoves, ActMaps
<1>3. ASSUME NEW p \in Process, Crash(p) PROVE Lifecycle!Next
  <2>1. process'[p] = Idle /\ \A q \in Process \ {p} : process'[q] = process[q]
    BY <1>3 DEF Crash, TypeOK, TableTypeOK
  <2> QED
    BY <1>3, <2>1, IdleSeen, LookMaps DEF Looking, Crash
<1> QED
  BY <1>1, <1>2, <1>3, CallMaps DEF Next

LEMMA LifecycleInit == Init => Lifecycle!Init
<1> SUFFICES ASSUME Init PROVE Lifecycle!Init
  OBVIOUS
<1>1. \A b \in Booking : /\ booking[b].status = IF b \in PaidAtStart THEN "CONFIRMED" ELSE "ABSENT"
                         /\ booking[b].settlementStatus = "NONE"
  BY DEF Init, AbsentRow
<1>2. \A p \in Process : process[p].seen.status = "ABSENT"
  BY IdleSeen DEF Init
<1> QED
  BY <1>1, <1>2 DEF Lifecycle!Init

\* The booking system implements the life cycle of docs/state/Booking.md for handlers
\* that overlap: a row leaves the diagrams only by a write whose handler had seen
\* another state of it, and what it had seen was the state at some time.
THEOREM LifecycleKept == Spec => KeepsLifecycle
<1>1. IInv /\ LifeInv /\ [Next]_vars => [Lifecycle!Next]_(Lifecycle!vars)
  BY LifecycleStep DEF IInv
<1> QED
  BY <1>1, LifecycleInit, Invariance, DecisionsKept, PTL
  DEF Spec, KeepsLifecycle, Lifecycle!Spec

-----------------------------------------------------------------------------
(* Holds that are lost.                                                    *)

\* Two writes change the hold of a row: the record of a hold, and a cancellation.
LEMMA StepWritesHold ==
  ASSUME TypeOK, PresenceInv, NEW p \in Process, Call(p) \/ Continue(p) \/ Crash(p),
         NEW b \in Booking, booking[b].paymentHoldId # NoHold,
         booking'[b].paymentHoldId # booking[b].paymentHoldId
  PROVE  Its(p) = b /\ (RecordHold(p) \/ RecordCancel(p))
<1>1. ~Crash(p) /\ ~QuietStep(p)
  BY QuietStepKeepsRows DEF Crash
<1>2. ~Call(p)
  <2>1. ASSUME NEW c \in Booking, NEW t \in Token PROVE ~CreateBooking(p, c, t)
    <3>1. ASSUME CreateBooking(p, c, t) PROVE FALSE
      <4>1. booking[c].paymentHoldId = NoHold
        BY <3>1 DEF CreateBooking, PresenceInv, AbsentRow
      <4>2. booking'[b] = booking[b]
        BY <3>1, <4>1 DEF CreateBooking, TypeOK, TableTypeOK
      <4> QED
        BY <4>2
    <3> QED
      BY <3>1
  <2>2. ASSUME NEW l, NEW d1, NEW d2 PROVE ~CancelBlockingBookings(p, l, d1, d2)
    <3>1. CancelledKeepingHold(booking[b]).paymentHoldId = booking[b].paymentHoldId
      BY RowType, KeepsHoldRows DEF KeepsHold
    <3> QED
      BY <3>1 DEF CancelBlockingBookings
  <2>3. ASSUME NEW c \in Booking
        PROVE  ~(\/ \E t \in Token : RetryPayment(p, c, t)
                 \/ CancelBooking(p, c) \/ ListExpired(p, c) \/ ListRetry(p, c)
                 \/ \E a \in Parties : ConfirmReturn(p, c, a))
    BY DEF RetryPayment, CancelBooking, ListExpired, ListRetry, ConfirmReturn
  <2> QED
    BY <2>1, <2>2, <2>3 DEF Call
<1>3. Continue(p) /\ process[p].booking = b
  BY <1>1, <1>2, ContinueWritesOwn
<1>4. ASSUME NEW new, booking' = [booking EXCEPT ![b] = new] PROVE ~KeepsHold(booking[b], new)
  BY <1>4 DEF KeepsHold, TypeOK, TableTypeOK
<1>5. ~(RecordFailure(p) \/ RecordConfirmation(p) \/ AutoConfirm(p) \/ MarkRetry(p))
  BY <1>3, <1>4, RowType, KeepsHoldRows
  DEF RecordFailure, RecordConfirmation, AutoConfirm, MarkRetry
<1>6. ~(RecordMissingHold(p) \/ RecordSettled(p) \/ RecordFailed(p))
  BY <1>3, <1>4, RowType, KeepsHoldRows DEF RecordMissingHold, RecordSettled, RecordFailed
<1> QED
  BY <1>1, <1>3, <1>5, <1>6 DEF Continue, QuietStep

\* A cancellation that has seen this hold, with its key used by no other, released it.
LEMMA CancellationAccounts ==
  ASSUME TypeOK, KeysFit, HeldInv, NEW p \in Process, NEW key \in holds,
         Its(p) = key.booking, At(p, "record_cancel"), ~MissesHold(p, key)
  PROVE  \E o \in operations : o.booking = key.booking /\ o.hold = HoldIdOf[key]
<1>1. process[p].hold = HoldIdOf[key] /\ key \in HoldKey
  BY DEF MissesHold, TypeOK, TableTypeOK, GatewayTypeOK
<1>2. process[p].hold # NoHold
  BY <1>1, HoldIdOfType, GatewayAssumption
<1>3. PICK o \in operations : o.key = CancelReleaseKey(key.booking)
  BY <1>2 DEF HeldInv
<1>4. o.hold = HoldIdOf[key]
  BY <1>3 DEF MissesHold
<1>5. o.kind \in OperationKind /\ KeyOf(o.kind, o.booking) = KeyOf("cancel_release", key.booking)
  BY <1>3, OperationType DEF KeysFit, KeyOf
<1>6. o.booking = key.booking
  BY <1>5, KeyOfInjective DEF OperationKind
<1> QED
  BY <1>4, <1>6

LEMMA AccountedStep ==
  ASSUME IInv, HeldInv, NEW p \in Process, Call(p) \/ Continue(p) \/ Crash(p),
         NEW key \in holds, Accounted(key), ~Accounted(key)'
  PROVE  /\ process'[p] # process[p]
         /\ Its(p) = key.booking
         /\ At(p, "record_hold") \/ MissesHold(p, key)
<1> DEFINE b == key.booking
<1>1. TypeOK /\ PresenceInv /\ Shape(p) /\ key \in HoldKey /\ b \in Booking
  BY StepShape DEF IInv, TypeOK, TableTypeOK, GatewayTypeOK, HoldKey
<1>2. ~(\E o \in operations : o.booking = b /\ o.hold = HoldIdOf[key])
  BY <1>1 DEF Accounted, Shape
<1>3. HoldIdOf[key] # NoHold
  BY <1>1, HoldIdOfType, GatewayAssumption
<1>4. CASE booking[b].paymentHoldId = HoldIdOf[key]
  <2>1. booking'[b].paymentHoldId # booking[b].paymentHoldId
    BY <1>4 DEF Accounted
  <2>2. Its(p) = b /\ (RecordHold(p) \/ RecordCancel(p))
    BY <1>1, <1>3, <1>4, <2>1, StepWritesHold
  <2>3. CASE RecordHold(p)
    BY <1>1, <2>2, <2>3, HandlerType DEF RecordHold, Frame, TypeOK, TableTypeOK
  <2>4. CASE RecordCancel(p)
    <3>1. MissesHold(p, key)
      BY <1>1, <1>2, <2>2, <2>4, CancellationAccounts DEF RecordCancel, IInv, ChargeInv
    <3> QED
      BY <1>1, <2>2, <2>4, <3>1, IdleAt DEF RecordCancel, TypeOK, TableTypeOK
  <2> QED
    BY <2>2, <2>3, <2>4
<1>5. CASE \E q \in Process : At(q, "record_hold") /\ process[q].key = key
  <2>1. PICK q \in Process : At(q, "record_hold") /\ process[q].key = key
    BY <1>5
  <2>2. process'[q] # process[q]
    BY <2>1 DEF Accounted
  <2>3. q = p
    BY <1>1, <2>2 DEF Shape
  <2>4. Its(p) = b
    BY <2>1, <2>3 DEF IInv, HoldInv, HandlerHold
  <2> QED
    BY <2>1, <2>2, <2>3, <2>4
<1> QED
  BY <1>2, <1>4, <1>5 DEF Accounted

\* However handlers overlap, fail and end, the provider keeps a hold that nobody knows
\* of any more only by one of the three causes: another hold recorded over it, its
\* record failing, or a cancellation that misses it.
THEOREM LostHolds == Spec => LostHoldsAreExplained
<1> DEFINE A == \A key \in holds : Accounted(key) /\ ~Accounted(key)' =>
                  \E p \in Process : /\ process'[p] # process[p]
                                     /\ Its(p) = key.booking
                                     /\ At(p, "record_hold") \/ MissesHold(p, key)
<1>1. IInv /\ HeldInv /\ [Next]_vars => [A]_vars
  <2> SUFFICES ASSUME IInv, HeldInv, Next, NEW key \in holds, Accounted(key), ~Accounted(key)'
               PROVE  \E p \in Process : /\ process'[p] # process[p]
                                         /\ Its(p) = key.booking
                                         /\ At(p, "record_hold") \/ MissesHold(p, key)
    OBVIOUS
  <2>1. ~Cards
    BY DEF Cards, Accounted
  <2> QED
    BY <2>1, AccountedStep DEF Next
<1> QED
  BY <1>1, Invariance, DecisionsKept, PTL DEF Spec, LostHoldsAreExplained

-----------------------------------------------------------------------------
(* Days and instants.                                                      *)

\* Division by a number that is not given.
LEMMA DivBounds ==
  ASSUME NEW n \in Nat, NEW u \in Nat \ {0}
  PROVE  n \div u \in Nat /\ u * (n \div u) <= n /\ n < u * (n \div u) + u
  OBVIOUS

LEMMA ProductGrows ==
  ASSUME NEW u \in Nat \ {0}, NEW a \in Nat, NEW b \in Nat
  PROVE  u * a < u * b + u => a <= b
<1> SUFFICES ASSUME b < a PROVE ~(u * a < u * b + u)
  OBVIOUS
<1>1. PICK k \in Nat : a = b + 1 + k
  <2>1. a - b - 1 \in Nat /\ a = b + 1 + (a - b - 1)
    OBVIOUS
  <2> QED
    BY <2>1
<1>2. u * (b + 1 + k) = u * b + u + u * k
  OBVIOUS
<1>3. u * k \in Nat
  OBVIOUS
<1> QED
  BY <1>1, <1>2, <1>3

LEMMA DivMonotone ==
  ASSUME NEW n \in Nat, NEW m \in Nat, NEW u \in Nat \ {0}, n <= m
  PROVE  n \div u <= m \div u
<1>1. PICK q \in Nat : q = n \div u
  BY DivBounds
<1>2. PICK r \in Nat : r = m \div u
  BY DivBounds
<1>3. u * q <= n /\ m < u * r + u
  BY <1>1, <1>2, DivBounds
<1>4. u * q < u * r + u
  BY <1>3
<1> QED
  BY <1>1, <1>2, <1>4, ProductGrows

\* A booking has an instant on the days exactly when its projection meets them.
LEMMA OccupiesProjection ==
  ASSUME NEW b \in Booking, NEW d1 \in Nat, NEW d2 \in Nat, d1 <= d2
  PROVE  Occupies(b, d1, d2) <=> StartDate(b) <= d2 /\ EndDate(b) >= d1
<1> DEFINE from == Terms[b].from
           last == Terms[b].to - 1
           u == UnitsPerDay
<1>1. from \in Nat /\ last \in Nat /\ u \in Nat \ {0} /\ from <= last
  BY TermsAssumption
<1>2. StartDate(b) = from \div u /\ EndDate(b) = last \div u
  BY DEF StartDate, EndDate
<1>3. Occupies(b, d1, d2) <=> \E t \in from .. last : t \div u \in d1 .. d2
  BY DEF Occupies
<1> HIDE DEF from, last, u
<1>4. ASSUME NEW t \in from .. last, t \div u \in d1 .. d2
      PROVE  from \div u <= d2 /\ last \div u >= d1
  <2>1. t \in Nat /\ from <= t /\ t <= last
    BY <1>1
  <2>2. from \div u <= t \div u /\ t \div u <= last \div u
    BY <1>1, <2>1, DivMonotone
  <2>3. from \div u \in Nat /\ t \div u \in Nat /\ last \div u \in Nat
    BY <1>1, <2>1, DivBounds
  <2> QED
    BY <1>4, <2>2, <2>3
<1>5. ASSUME from \div u <= d2, last \div u >= d1
      PROVE  \E t \in from .. last : t \div u \in d1 .. d2
  <2>1. from \div u \in Nat /\ last \div u \in Nat
    BY <1>1, DivBounds
  <2>2. CASE from \div u >= d1
    <3>1. from \in from .. last /\ from \div u \in d1 .. d2
      BY <1>1, <1>5, <2>1, <2>2
    <3> QED
      BY <3>1
  <2>3. CASE from \div u < d1
    <3> DEFINE t == u * d1
    <3>1. t \in Nat
      BY <1>1
    <3>2. t \div u = d1
      BY <1>1
    <3> HIDE DEF t
    <3>3. from <= t
      <4>1. t < from => t \div u <= from \div u
        BY <1>1, <3>1, DivMonotone
      <4> QED
        BY <1>1, <2>1, <2>3, <3>1, <3>2, <4>1
    <3>4. t <= last
      <4>1. PICK r \in Nat : r = last \div u
        BY <2>1
      <4>2. PICK k \in Nat : r = d1 + k
        <5>1. r - d1 \in Nat /\ r = d1 + (r - d1)
          BY <1>5, <4>1
        <5> QED
          BY <5>1
      <4>3. u * (d1 + k) = u * d1 + u * k /\ u * k \in Nat
        BY <1>1
      <4>4. u * r <= last
        BY <1>1, <4>1, DivBounds
      <4> QED
        BY <1>1, <3>1, <4>2, <4>3, <4>4 DEF t
    <3> QED
      BY <1>1, <3>1, <3>2, <3>3, <3>4
  <2> QED
    BY <2>1, <2>2, <2>3
<1> QED
  BY <1>2, <1>3, <1>4, <1>5

LEMMA BookedDaysType == BookedDays \subseteq Nat
<1> SUFFICES ASSUME NEW b \in Booking PROVE StartDate(b) \in Nat /\ EndDate(b) \in Nat
  BY DEF BookedDays
<1>1. /\ Terms[b].from \in Nat /\ Terms[b].to - 1 \in Nat
      /\ UnitsPerDay \in Nat \ {0}
  BY TermsAssumption
<1> QED
  BY <1>1, DivBounds DEF StartDate, EndDate

\* The forced cancellation, which goes by days, cancels the bookings that have an
\* instant on its days and no others, for every number of instants in a day.
THEOREM ForcedCancelByDays == Spec => ForcedCancelHitsItsDays
<1> DEFINE Hits(p, b, d1, d2) ==
             \A c \in Booking :
                IF Terms[c].listing = Terms[b].listing /\ Occupies(c, d1, d2)
                THEN ~Blocking(c)'
                ELSE booking'[c] = booking[c]
           A == \A p \in Process, b \in Booking, d1, d2 \in BookedDays :
                  d1 <= d2 /\ CancelBlockingBookings(p, Terms[b].listing, d1, d2)
                     => Hits(p, b, d1, d2)
<1>1. TypeOK /\ [Next]_vars => [A]_vars
  <2> SUFFICES ASSUME TypeOK, NEW p \in Process, NEW b \in Booking,
                      NEW d1 \in BookedDays, NEW d2 \in BookedDays, d1 <= d2,
                      CancelBlockingBookings(p, Terms[b].listing, d1, d2), NEW c \in Booking
               PROVE  IF Terms[c].listing = Terms[b].listing /\ Occupies(c, d1, d2)
                      THEN ~Blocking(c)'
                      ELSE booking'[c] = booking[c]
    OBVIOUS
  <2>1. OnDays(c, Terms[b].listing, d1, d2)
          <=> Terms[c].listing = Terms[b].listing /\ Occupies(c, d1, d2)
    BY BookedDaysType, OccupiesProjection DEF OnDays
  <2>2. booking'[c] = IF Blocking(c) /\ OnDays(c, Terms[b].listing, d1, d2)
                      THEN CancelledKeepingHold(booking[c]) ELSE booking[c]
    BY DEF CancelBlockingBookings
  <2>3. CancelledKeepingHold(booking[c]).status = "CANCELLED"
    BY RowType DEF CancelledKeepingHold, Row
  <2>4. booking'[c] = CancelledKeepingHold(booking[c]) \/ booking'[c] = booking[c]
    BY <2>2
  <2> QED
    BY <2>1, <2>2, <2>3, <2>4 DEF Blocking, BlockingStatus
<1> QED
  BY <1>1, TypeCorrect, PTL DEF Spec, ForcedCancelHitsItsDays
=============================================================================
