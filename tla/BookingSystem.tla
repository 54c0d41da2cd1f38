---------------------------- MODULE BookingSystem ----------------------------
(***************************************************************************)
(* The bookings of Rento: the workflow, the settlement and the job over    *)
(* one booking table and one payment provider.                             *)
(***************************************************************************)
EXTENDS BookingsWorkflow, BookingsSettlement, BookingsReturnAutoConfirmJob

CONSTANTS
    Requests,       \* the processes that serve the API
    Ticks,          \* the processes that run the cron job
    Offered,        \* the operations the environment calls
    PaidAtStart     \* bookings that are already CONFIRMED in the first state

OperationName == {"create", "retry", "cancel", "confirm_return",
                  "auto_confirm", "settlement_retry", "calendar_cancel", "cards", "crash"}

ASSUME SystemAssumption ==
    /\ Requests \subseteq Process /\ Ticks \subseteq Process
    /\ Offered \subseteq OperationName
    /\ PaidAtStart \subseteq Booking
    /\ \A b \in PaidAtStart : Terms[b].rent + Terms[b].deposit > 0
    /\ Token # {}

vars == tableVars

\* A booking paid at the start was created and confirmed with some card.
FirstKey(b) == HoldFor("booking_hold", b, CHOOSE t \in Token : TRUE)

Init ==
    /\ booking = [b \in Booking |->
          IF b \in PaidAtStart
          THEN [AbsentRow EXCEPT !.status = "CONFIRMED", !.paymentHoldId = HoldIdOf[FirstKey(b)]]
          ELSE AbsentRow]
    /\ process = [p \in Process |-> Idle]
    /\ cardholders = User
    /\ holds = {FirstKey(b) : b \in PaidAtStart}
    /\ operations = {}

\* The days on which the owner may cancel bookings by force: all that matter are
\* those on which one begins or ends.
BookedDays == {StartDate(b) : b \in Booking} \cup {EndDate(b) : b \in Booking}

\* A request arrives, or the job takes up a row.
Call(p) ==
    /\ UNCHANGED cardholders
    /\ \E b \in Booking :
        \/ /\ p \in Requests
           /\ \/ "create" \in Offered /\ \E t \in Token : CreateBooking(p, b, t)
              \/ "retry" \in Offered /\ \E t \in Token : RetryPayment(p, b, t)
              \/ "cancel" \in Offered /\ CancelBooking(p, b)
              \/ "confirm_return" \in Offered /\ \E a \in Parties : ConfirmReturn(p, b, a)
              \/ /\ "calendar_cancel" \in Offered
                 /\ \E d1, d2 \in BookedDays :
                       d1 <= d2 /\ CancelBlockingBookings(p, Terms[b].listing, d1, d2)
        \/ /\ p \in Ticks
           /\ \/ "auto_confirm" \in Offered /\ ListExpired(p, b)
              \/ "settlement_retry" \in Offered /\ ListRetry(p, b)

\* A handler in flight makes its next step.
Continue(p) ==
    /\ UNCHANGED cardholders
    /\ \/ HoldAuthorized(p) \/ RecordHold(p) \/ Notified(p)
       \/ PaymentFails(p) \/ RecordFailure(p)
       \/ CancelReleaseOk(p) \/ CancelReleaseFails(p) \/ RecordCancel(p)
       \/ RecordConfirmation(p)
       \/ CheckCards(p) \/ CheckExpired(p) \/ AutoConfirm(p) \/ MarkRetry(p)
       \/ AttemptSettlement(p) \/ AlreadySettled(p) \/ RecordMissingHold(p)
       \/ CaptureRent(p) \/ ReleaseDeposit(p) \/ RecordSettled(p) \/ SettlementNotified(p)
       \/ SettlementFails(p) \/ RecordFailed(p)

\* The backend goes down with the handler; the database and the provider stay.
Crash(p) == /\ "crash" \in Offered
            /\ ~At(p, "idle")
            /\ Return(p)
            /\ UNCHANGED <<booking, cardholders, gatewayVars>>

\* A user attaches a card or removes the last one (PaymentMethods).
Cards == /\ "cards" \in Offered
         /\ \E u \in User : cardholders' \in {cardholders \cup {u}, cardholders \ {u}}
         /\ UNCHANGED <<booking, process, gatewayVars>>

Next == Cards \/ \E p \in Process : Call(p) \/ Continue(p) \/ Crash(p)

Spec == Init /\ [][Next]_vars

\* A handler that is running gets to its next step, and every tick of the job
\* takes up all the rows it lists, one after the other.
JobTakesUp(b) == /\ UNCHANGED cardholders
                 /\ \E p \in Ticks : \/ "auto_confirm" \in Offered /\ ListExpired(p, b)
                                     \/ "settlement_retry" \in Offered /\ ListRetry(p, b)

Fairness == /\ \A p \in Process : WF_vars(Continue(p))
            /\ \A b \in Booking : SF_vars(JobTakesUp(b))

FairSpec == Spec /\ Fairness
-----------------------------------------------------------------------------
(* Safety.                                                                 *)

\* Rows, handlers, holds and operations have their types.
TypeOK == TableTypeOK

Clash(a, b) == a # b /\ Blocking(a) /\ Blocking(b) /\ Overlap(a, b)

\* Two bookings come to occupy the same time only when one that had already
\* let go of it is brought back (a retried payment, a hold recorded after a
\* cancellation); the creation of a booking never does it, however the
\* requests interleave (createBooking's advisory lock and overlap query).
ClashOnlyByRevival ==
    [][\A a, b \in Booking :
          Clash(a, b)' /\ ~Clash(a, b) =>
             \E c \in {a, b} : booking[c].status \in
                 {"PAYMENT_FAILED", "CANCELLED", "COMPLETED"}]_vars

\* A name under which the provider has authorised a hold for this booking.
OwnHold(hold, b) == \E key \in holds : key.booking = b /\ HoldIdOf[key] = hold

\* A confirmed booking names a hold that the provider authorised for this
\* very booking, whichever handlers wrote the row last.
ConfirmedHasOwnHold ==
    \A b \in Booking : booking[b].status = "CONFIRMED" => OwnHold(booking[b].paymentHoldId, b)

\* Whatever the provider captured or released, it drew on a hold it had
\* authorised for the same booking.
ChargesOwnHold == \A o \in operations : OwnHold(o.hold, o.booking)

\* However often a settlement is attempted, by requests and ticks at once,
\* after failures and after crashes, and whichever hold the row names by then,
\* the rent of a booking is captured once, its deposit released once, and its
\* hold given back by a cancellation once (the keys built by attemptSettlement
\* and cancelBooking).
ChargedAtMostOnce ==
    \A o1, o2 \in operations :
        o1.kind = o2.kind /\ o1.booking = o2.booking => o1 = o2

Captured(b) == \E o \in operations : o.kind = "capture_rent" /\ o.booking = b
Released(b) == \E o \in operations : o.kind = "release_deposit" /\ o.booking = b

\* The landlord is paid only for a return that the renter has confirmed, and
\* that the landlord confirmed as well or the job did in his place.
CaptureNeedsReturn ==
    \A b \in Booking : Captured(b) =>
        /\ booking[b].returnRenterConfirmed
        /\ \/ booking[b].returnMutualConfirmed /\ booking[b].returnLandlordConfirmed
           \/ booking[b].returnAutoConfirmed

\* A settlement is recorded as done only when everything due was charged.
SettledMeansCharged ==
    \A b \in Booking : booking[b].settlementStatus = "SETTLED" =>
        /\ Terms[b].rent > 0 => Captured(b)
        /\ Terms[b].deposit > 0 => Released(b)

-----------------------------------------------------------------------------
(* Why the safety properties hold: an inductive invariant, in four parts.  *)

\* Nobody works on a booking that does not exist yet.
PresenceInv ==
    /\ \A b \in Booking : booking[b].status = "ABSENT" => booking[b] = AbsentRow
    /\ \A p \in Process : ~At(p, "idle") => booking[Its(p)].status # "ABSENT"

\* A hold that a row names, or a handler carries to the gateway, is one that
\* the gateway authorised for that booking.
RowHold(b) ==
    /\ booking[b].paymentHoldId # NoHold => OwnHold(booking[b].paymentHoldId, b)
    /\ booking[b].status = "CONFIRMED" => booking[b].paymentHoldId # NoHold

HandlerHold(p) ==
    /\ process[p].at \in {"authorize", "record_hold"} =>
          process[p].key \in HoldKey /\ process[p].key.booking = Its(p)
    /\ At(p, "record_hold") => process[p].key \in holds
    /\ process[p].at \in {"cancel_release", "capture", "release"} =>
          OwnHold(process[p].hold, Its(p))

HoldInv ==
    /\ \A b \in Booking : RowHold(b)
    /\ \A p \in Process : HandlerHold(p)
    /\ ChargesOwnHold

\* Whoever settles, or is about to, does so for a return that is confirmed.
ReturnConfirmed(row) ==
    /\ row.returnRenterConfirmed
    /\ \/ row.returnMutualConfirmed /\ row.returnLandlordConfirmed
       \/ row.returnAutoConfirmed

Settling == {"retry_mark", "settle", "record_missing_hold", "capture", "release",
             "record_settled", "notify_settled", "record_failed"}

RowReturn(b) ==
    /\ booking[b].returnMutualConfirmed =>
          booking[b].returnRenterConfirmed /\ booking[b].returnLandlordConfirmed
    /\ booking[b].settlementStatus # "NONE" => ReturnConfirmed(booking[b])
    /\ Captured(b) => ReturnConfirmed(booking[b])

\* What a confirmation is about to set is covered by what the row says already.
MarksReturn(row, marks) ==
    /\ "mutual" \in marks => /\ row.returnRenterConfirmed \/ "renter" \in marks
                             /\ row.returnLandlordConfirmed \/ "landlord" \in marks
    /\ "pending" \in marks => row.returnMutualConfirmed \/ "mutual" \in marks

HandlerReturn(p) ==
    /\ process[p].at \in {"auto_cards", "auto_check", "auto_record"} =>
          booking[Its(p)].returnRenterConfirmed
    /\ process[p].at \in Settling => ReturnConfirmed(booking[Its(p)])
    /\ At(p, "record_confirmation") => MarksReturn(booking[Its(p)], process[p].marks)

ReturnInv ==
    /\ \A b \in Booking : RowReturn(b)
    /\ \A p \in Process : HandlerReturn(p)

\* A handler gets to its next step of a settlement when the one before is done.
CapturedIfDue(b) == Terms[b].rent > 0 => Captured(b)
ReleasedIfDue(b) == Terms[b].deposit > 0 => Released(b)

HandlerCharge(p) ==
    /\ process[p].at \in {"release", "record_settled"} => CapturedIfDue(Its(p))
    /\ At(p, "record_settled") => ReleasedIfDue(Its(p))

\* The key of an operation is that of what it does and for which booking, and
\* no key is used twice.
KeyOf(kind, b) == CASE kind = "capture_rent" -> CaptureKey(b)
                    [] kind = "release_deposit" -> ReleaseKey(b)
                    [] kind = "cancel_release" -> CancelReleaseKey(b)

KeysFit == /\ \A o \in operations : o.key = KeyOf(o.kind, o.booking)
           /\ \A o1, o2 \in operations : o1.key = o2.key => o1 = o2

ChargeInv ==
    /\ KeysFit
    /\ \A p \in Process : HandlerCharge(p)
    /\ SettledMeansCharged

IInv == TypeOK /\ PresenceInv /\ HoldInv /\ ReturnInv /\ ChargeInv

\* What a handler may have seen when it comes to write: what its guards admit.
\* Of the statuses, three are never written.
Unpaid == {"PENDING_PAYMENT", "PAYMENT_FAILED"}

Reached == Unpaid \cup {"ABSENT", "CONFIRMED", "COMPLETED", "CANCELLED"}

Decided(f) ==
    /\ f.at \in {"authorize", "record_hold", "notify", "record_failure"} =>
          f.seen.status \in Unpaid
    /\ f.at \in {"cancel_release", "record_cancel"} =>
          f.seen.status \in Unpaid \cup {"CONFIRMED"}
    /\ f.at = "record_confirmation" =>
          /\ "mutual" \in f.marks => f.seen.status = "CONFIRMED"
          /\ "pending" \in f.marks => f.seen.settlement # "SETTLED"
    /\ f.at \in {"auto_cards", "auto_check", "auto_record"} => f.seen.status = "CONFIRMED"
    /\ f.at = "auto_record" /\ "pending" \in f.marks => f.seen.settlement # "SETTLED"
    /\ f.at = "retry_mark" => f.seen.settlement = "FAILED"
    /\ f.at \in Settling \ {"retry_mark"} => f.seen.settlement = "PENDING"

LifeInv ==
    /\ \A b \in Booking : booking[b].status \in Reached
    /\ \A p \in Process : Decided(process[p])

\* A hold is never of nothing, and a cancellation that read one gets past its
\* release only with the key of cancellations used, by it or before.
HeldInv ==
    /\ \A key \in holds : Terms[key.booking].rent + Terms[key.booking].deposit > 0
    /\ \A p \in Process :
          /\ At(p, "record_cancel")
          /\ process[p].hold # NoHold
          /\ Terms[Its(p)].rent + Terms[Its(p)].deposit > 0
          => \E o \in operations : o.key = CancelReleaseKey(Its(p))

-----------------------------------------------------------------------------
(* Liveness.                                                               *)

\* A return that only the renter confirmed is completed by the job, unless the
\* landlord confirms as well, provided that both come to have a card and keep it:
\* the job passes over the others at every tick.
ExpiredReturnCompletes ==
    \A b \in Booking :
        <>[]BothHaveCards(b) =>
            (AwaitsLandlord(booking[b]) ~>
                \/ booking[b].status = "COMPLETED"
                \/ booking[b].returnLandlordConfirmed)

\* A settlement that was started gets its answer.
PendingIsAnswered ==
    \A b \in Booking : booking[b].settlementStatus = "PENDING" ~>
                       booking[b].settlementStatus \in {"SETTLED", "FAILED"}

\* Retries come to an end: the settlement succeeds or the schedule runs out.
RetriesEnd ==
    \A b \in Booking : DueForRetry(booking[b]) ~> ~booking[b].settlementNextRetry

-----------------------------------------------------------------------------
(* Refinement.                                                             *)

Lifecycle == INSTANCE BookingLifecycle WITH
    status <- [b \in Booking |-> booking[b].status],
    settlement <- [b \in Booking |-> booking[b].settlementStatus],
    view <- [p \in Process |-> [booking |-> Its(p),
                                status |-> process[p].seen.status,
                                settlement |-> process[p].seen.settlement]]

\* However handlers overlap, fail and end, a row leaves the documented life of a
\* booking only by the write of a handler that rests on a state which the row no
\* longer has, be it that another handler changed it or that a failed one had
\* written it itself; and every handler decides by what the row was at some time.
KeepsLifecycle == Lifecycle!Spec

-----------------------------------------------------------------------------
(* Money and days, for handlers that overlap in any way.                   *)

\* A hold that the provider keeps is known to somebody who can still capture or
\* release it, or an operation has drawn on it.
Accounted(key) ==
    \/ booking[key.booking].paymentHoldId = HoldIdOf[key]
    \/ \E o \in operations : o.booking = key.booking /\ o.hold = HoldIdOf[key]
    \/ \E p \in Process : At(p, "record_hold") /\ process[p].key = key

\* A cancellation that does not release this hold: it read another one or none,
\* or the one key of cancellations was used up by an earlier hold of the booking.
MissesHold(p, key) ==
    /\ At(p, "record_cancel")
    /\ \/ process[p].hold # HoldIdOf[key]
       \/ \E o \in operations : o.key = CancelReleaseKey(key.booking) /\ o.hold # HoldIdOf[key]

\* The renter's money stays held at the provider with nobody to give it back in
\* three cases only, however handlers overlap, fail and end: the payment is recorded
\* with another hold, or the record of the hold fails (createBooking, retryPayment),
\* or the booking is cancelled by a handler that misses the hold (cancelBooking).
LostHoldsAreExplained ==
    [][\A key \in holds : Accounted(key) /\ ~Accounted(key)' =>
          \E p \in Process : /\ process'[p] # process[p]
                             /\ Its(p) = key.booking
                             /\ At(p, "record_hold") \/ MissesHold(p, key)]_vars

\* The instants of a booking, as createBooking compares them, that lie on some days.
Occupies(b, firstDay, lastDay) ==
    \E t \in Terms[b].from .. (Terms[b].to - 1) : t \div UnitsPerDay \in firstDay .. lastDay

\* The forced cancellation goes by days and bookings by instants: it leaves no booking
\* with an instant on its days, and cancels none that has no instant there
\* (cancelBlockingBookingsInRange, computeDayProjection).
ForcedCancelHitsItsDays ==
    [][\A p \in Process, b \in Booking, d1, d2 \in BookedDays :
          d1 <= d2 /\ CancelBlockingBookings(p, Terms[b].listing, d1, d2) =>
              \A c \in Booking :
                  IF Terms[c].listing = Terms[b].listing /\ Occupies(c, d1, d2)
                  THEN ~Blocking(c)'
                  ELSE booking'[c] = booking[c]]_vars

-----------------------------------------------------------------------------
(* What the documentation says and the code does not keep.                 *)

\* UC-13: a booking is admitted when its dates are free; Booking.md: they are
\* taken by bookings in a blocking status.
NoDoubleBooking == \A a, b \in Booking : ~Clash(a, b)

\* Booking.md: the arrows of its two diagrams are the transitions there are.
DocumentedLifeOnly ==
    [][\A b \in Booking :
          \/ booking[b].status = "ABSENT"
          \/ /\ Lifecycle!Along(Lifecycle!StatusArrows,
                                booking[b].status, booking'[b].status)
             /\ Lifecycle!Along(Lifecycle!SettlementArrows,
                                booking[b].settlementStatus, booking'[b].settlementStatus)]_vars
=============================================================================
