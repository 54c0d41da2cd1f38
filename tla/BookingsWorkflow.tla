-------------------------- MODULE BookingsWorkflow --------------------------
(***************************************************************************)
(* BookingsWorkflowService: createBooking, retryPayment, cancelBooking and *)
(* confirmReturn, one action per awaited step, and the calendar's forced   *)
(* cancellation (BookingsService.cancelBlockingBookingsInRange).           *)
(*                                                                         *)
(* Guards on users and listings, which other components own, only refuse a *)
(* request without changing anything, so they are not modelled: a refused  *)
(* request is one that does not happen.                                    *)
(***************************************************************************)
EXTENDS BookingTable

HoldFor(purpose, b, t) == [purpose |-> purpose, booking |-> b, token |-> t]

CreatedRow == [AbsentRow EXCEPT !.status = "PENDING_PAYMENT"]

\* A handler that awaits the hold asked for under `key` for a row it knows so.
Authorizing(b, key, row) == [Starting("authorize", b, Seen(row)) EXCEPT !.key = key]

DatesAreTaken(b) == \E c \in Booking : Blocking(c) /\ Overlap(c, b)

\* Mutant: the overlap query is forgotten.
CreateBookingUnchecked(p, b, t) ==
    /\ At(p, "idle")
    /\ booking[b].status = "ABSENT"
    /\ SetRow(b, CreatedRow)
    /\ Begin(p, Authorizing(b, HoldFor("booking_hold", b, t), CreatedRow))
    /\ UNCHANGED gatewayVars

\* createBooking up to the commit of its transaction.  The transaction holds
\* the listing's advisory lock from before the overlap query, and nothing
\* else creates a row, so the query and the insert are one step.
CreateBooking(p, b, t) ==
    /\ At(p, "idle")
    /\ booking[b].status = "ABSENT"
    /\ BothHaveCards(b)
    /\ ~DatesAreTaken(b)
    /\ SetRow(b, CreatedRow)
    /\ Begin(p, Authorizing(b, HoldFor("booking_hold", b, t), CreatedRow))
    /\ UNCHANGED gatewayVars

\* retryPayment up to its first await on the gateway.
RetryPayment(p, b, t) ==
    /\ At(p, "idle")
    /\ booking[b].status = "PAYMENT_FAILED"
    /\ HasCard(Terms[b].renter)
    /\ Begin(p, Authorizing(b, HoldFor("booking_retry_hold", b, t), booking[b]))
    /\ UNCHANGED <<booking, gatewayVars>>

\* The gateway authorises the hold, which it refuses for an amount of zero.
HoldAuthorized(p) ==
    /\ At(p, "authorize")
    /\ Terms[Its(p)].rent + Terms[Its(p)].deposit > 0
    /\ AuthorizeHold(process[p].key)
    /\ GoTo(p, "record_hold")
    /\ UNCHANGED booking

\* The try goes from the call of the gateway to the notifications.  The gateway
\* declines, or any of the calls fails, with the hold authorised or even recorded.
PaymentFails(p) ==
    /\ process[p].at \in {"authorize", "record_hold", "notify"}
    /\ GoTo(p, "record_failure")
    /\ UNCHANGED <<booking, gatewayVars>>

\* Mutant: the hold is not written with the status.
ConfirmedStatusOnly(row, hold) == [row EXCEPT !.status = "CONFIRMED"]

ConfirmedRow(row, hold) == [row EXCEPT !.status = "CONFIRMED", !.paymentHoldId = hold]

RecordHold(p) ==
    /\ At(p, "record_hold")
    /\ SetRow(Its(p), ConfirmedRow(booking[Its(p)], HoldIdOf[process[p].key]))
    /\ GoTo(p, "notify")
    /\ UNCHANGED gatewayVars

\* Both parties are told, and the handler answers.
Notified(p) ==
    /\ At(p, "notify")
    /\ Return(p)
    /\ UNCHANGED <<booking, gatewayVars>>

UnpaidRow(row) == [row EXCEPT !.status = "PAYMENT_FAILED"]

\* The catch.  It does not ask how far the try had come.
RecordFailure(p) ==
    /\ At(p, "record_failure")
    /\ SetRow(Its(p), UnpaidRow(booking[Its(p)]))
    /\ Return(p)
    /\ UNCHANGED gatewayVars

-----------------------------------------------------------------------------

\* Mutant: COMPLETED is not refused.
CancellableOrCompleted ==
    {"PENDING", "PENDING_PAYMENT", "PAYMENT_FAILED", "CONFIRMED", "ACTIVE", "COMPLETED"}

Cancellable == {"PENDING", "PENDING_PAYMENT", "PAYMENT_FAILED", "CONFIRMED", "ACTIVE"}

\* Mutant: the hold is never released.
HasNothing(b) == Terms[b].rent + Terms[b].deposit < 0

HasHoldToRelease(b) == /\ booking[b].paymentHoldId # NoHold
                       /\ Terms[b].rent + Terms[b].deposit > 0

\* cancelBooking reads the row and decides whether there is a hold to release.
CancelBooking(p, b) ==
    /\ At(p, "idle")
    /\ booking[b].status \in Cancellable
    /\ Begin(p, [Starting(IF HasHoldToRelease(b) THEN "cancel_release" ELSE "record_cancel",
                          b, Seen(booking[b]))
                 EXCEPT !.hold = booking[b].paymentHoldId])
    /\ UNCHANGED <<booking, gatewayVars>>

\* One key for all cancellations of the booking, whichever hold it has.
CancelReleaseKey(b) == [prefix |-> "booking_cancel_release", booking |-> b]

CancelReleaseOk(p) ==
    /\ At(p, "cancel_release")
    /\ Perform("cancel_release", Its(p), process[p].hold, CancelReleaseKey(Its(p)))
    /\ GoTo(p, "record_cancel")
    /\ UNCHANGED booking

\* The gateway refuses: the request fails and the row is left as it was.
CancelReleaseFails(p) ==
    /\ At(p, "cancel_release")
    /\ Return(p)
    /\ UNCHANGED <<booking, gatewayVars>>

CancelledKeepingHold(row) == [row EXCEPT !.status = "CANCELLED"]

CancelledRow(row) == [row EXCEPT !.status = "CANCELLED", !.paymentHoldId = NoHold]

RecordCancel(p) ==
    /\ At(p, "record_cancel")
    /\ SetRow(Its(p), CancelledRow(booking[Its(p)]))
    /\ Return(p)
    /\ UNCHANGED gatewayVars

\* unblockDates with force and cancelBookings: one updateMany that sets the
\* status of every blocking booking on these days and nothing else.
CancelBlockingBookings(p, listing, firstDay, lastDay) ==
    LET hit == {b \in Booking : Blocking(b) /\ OnDays(b, listing, firstDay, lastDay)}
    IN  /\ At(p, "idle")
        /\ hit # {}
        /\ booking' = [b \in Booking |->
               IF b \in hit THEN CancelledKeepingHold(booking[b]) ELSE booking[b]]
        /\ UNCHANGED <<process, gatewayVars>>

-----------------------------------------------------------------------------
(* confirmReturn.  The transaction reads the row and the two parties'      *)
(* cards, decides which columns to set, and writes them.                   *)

\* A completed booking whose settlement is not done may be settled again by a
\* repeated confirmation, unless it was the job that completed it.
CanRetrySettlement(row) == /\ row.returnMutualConfirmed
                           /\ row.paymentHoldId # NoHold
                           /\ row.settlementStatus # "SETTLED"

Parties == {"renter", "landlord"}

HaveConfirmed(row) ==
    {party \in Parties : \/ party = "renter" /\ row.returnRenterConfirmed
                         \/ party = "landlord" /\ row.returnLandlordConfirmed}

\* Mutant: one confirmation is taken for both.
OpenMarksOnFirst(row, actor) == {actor, "mutual", "pending"}

\* The columns the confirmation of `actor` sets on a row that is still open.
OpenMarks(row, actor) ==
    LET both == HaveConfirmed(row) \cup {actor} = Parties
        unpaid == {m \in {"pending"} : row.settlementStatus \in {"NONE", "FAILED"}}
    IN  {actor} \cup (IF row.returnMutualConfirmed THEN unpaid
                      ELSE IF both THEN {"mutual"} \cup unpaid
                      ELSE {})

ConfirmReturn(p, b, actor) ==
    LET row == booking[b]
    IN  /\ At(p, "idle")
        /\ \/ row.status = "COMPLETED" /\ CanRetrySettlement(row)
           \/ row.status \in {"ACTIVE", "CONFIRMED"}
        /\ BothHaveCards(b)
        /\ Begin(p, [Starting("record_confirmation", b, Seen(row)) EXCEPT
                        !.marks = IF row.status = "COMPLETED" THEN {"pending"}
                                                              ELSE OpenMarks(row, actor)])
        /\ UNCHANGED <<booking, gatewayVars>>

MarkedRow(row, marks) ==
    [row EXCEPT !.returnRenterConfirmed = @ \/ "renter" \in marks,
                !.returnLandlordConfirmed = @ \/ "landlord" \in marks,
                !.returnMutualConfirmed = @ \/ "mutual" \in marks,
                !.status = IF "mutual" \in marks THEN "COMPLETED" ELSE @,
                !.settlementStatus = IF "pending" \in marks THEN "PENDING" ELSE @]

\* The update, and the commit.  Settlement follows when it was set to PENDING.
RecordConfirmation(p) ==
    LET row == MarkedRow(booking[Its(p)], process[p].marks)
    IN  /\ At(p, "record_confirmation")
        /\ SetRow(Its(p), row)
        /\ Begin(p, IF "pending" \in process[p].marks
                    THEN Starting("settle", Its(p), Seen(row)) ELSE Idle)
        /\ UNCHANGED gatewayVars
=============================================================================
