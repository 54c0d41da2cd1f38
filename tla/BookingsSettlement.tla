------------------------- MODULE BookingsSettlement -------------------------
(***************************************************************************)
(* BookingsSettlementService.attemptSettlement: capture the rent, release  *)
(* the deposit, record the outcome.  It is entered at "settle" by whoever  *)
(* has just set the settlement to PENDING: confirmReturn or the job.       *)
(***************************************************************************)
EXTENDS BookingTable

CONSTANT
    MaxGatewayFailures  \* bound: recorded failures of one booking after which
                        \* a settlement no longer fails

ASSUME SettlementAssumption == MaxGatewayFailures \in Nat

MAX_RETRIES == 3

\* computeNextRetryAt is null once the schedule is used up.
HasNextRetry(retryCount) == retryCount < MAX_RETRIES

NextCharge(b) == IF Terms[b].rent > 0 THEN "capture"
                 ELSE IF Terms[b].deposit > 0 THEN "release"
                 ELSE "record_settled"

FirstStep(b) == IF booking[b].paymentHoldId = NoHold THEN "record_missing_hold"
                ELSE NextCharge(b)

\* The row is read once; what the attempt does later rests on this read.
\* settlementLastAttemptAt, written next, is read by nothing.
AttemptSettlement(p) ==
    LET row == booking[Its(p)]
    IN  /\ At(p, "settle")
        /\ row.settlementStatus # "SETTLED"
        /\ Begin(p, [process[p] EXCEPT !.at = FirstStep(Its(p)),
                                       !.hold = row.paymentHoldId,
                                       !.retryCount = row.settlementRetryCount])
        /\ UNCHANGED <<booking, gatewayVars>>

AlreadySettled(p) ==
    /\ At(p, "settle")
    /\ booking[Its(p)].settlementStatus = "SETTLED"
    /\ Return(p)
    /\ UNCHANGED <<booking, gatewayVars>>

\* Neither the retry counter nor the next retry is touched.
MissingHoldRow(row) == [row EXCEPT !.settlementStatus = "FAILED"]

RecordMissingHold(p) ==
    /\ At(p, "record_missing_hold")
    /\ SetRow(Its(p), MissingHoldRow(booking[Its(p)]))
    /\ Return(p)
    /\ UNCHANGED gatewayVars

\* The keys say the charge and the booking and not the attempt.
CaptureKey(b) == [prefix |-> "booking_settlement:capture_rent", booking |-> b]

\* Mutant: the two charges share a key.
ReleaseKeyOfCapture(b) == CaptureKey(b)

ReleaseKey(b) == [prefix |-> "booking_settlement:release_deposit", booking |-> b]

AfterCapture(b) == IF Terms[b].deposit > 0 THEN "release" ELSE "record_settled"

\* Mutant: each attempt has a key of its own.
CaptureRentPerAttempt(p) ==
    /\ At(p, "capture")
    /\ Perform("capture_rent", Its(p), process[p].hold,
               [prefix |-> "booking_settlement:capture_rent", booking |-> Its(p),
                attempt |-> process[p].retryCount])
    /\ GoTo(p, AfterCapture(Its(p)))
    /\ UNCHANGED booking

CaptureRent(p) ==
    /\ At(p, "capture")
    /\ Perform("capture_rent", Its(p), process[p].hold, CaptureKey(Its(p)))
    /\ GoTo(p, AfterCapture(Its(p)))
    /\ UNCHANGED booking

ReleaseDeposit(p) ==
    /\ At(p, "release")
    /\ Perform("release_deposit", Its(p), process[p].hold, ReleaseKey(Its(p)))
    /\ GoTo(p, "record_settled")
    /\ UNCHANGED booking

\* The try goes from the charges to the notifications: any of its calls may fail,
\* with the charges made or even SETTLED recorded.
SettlementFails(p) ==
    /\ process[p].at \in {"capture", "release", "record_settled", "notify_settled"}
    /\ booking[Its(p)].settlementRetryCount < MaxGatewayFailures
    /\ GoTo(p, "record_failed")
    /\ UNCHANGED <<booking, gatewayVars>>

\* Mutant: the retry that was scheduled is not taken back.
SettledKeepingRetry(row) == [row EXCEPT !.settlementStatus = "SETTLED"]

SettledRow(row) == [row EXCEPT !.settlementStatus = "SETTLED",
                               !.settlementNextRetry = FALSE]

RecordSettled(p) ==
    /\ At(p, "record_settled")
    /\ SetRow(Its(p), SettledRow(booking[Its(p)]))
    /\ GoTo(p, "notify_settled")
    /\ UNCHANGED gatewayVars

SettlementNotified(p) ==
    /\ At(p, "notify_settled")
    /\ Return(p)
    /\ UNCHANGED <<booking, gatewayVars>>

\* Mutant: the counter counts down, and indexes the schedule below its start.
UnsettledRowCountingDown(row, retryCount) ==
    [row EXCEPT !.settlementStatus = "FAILED",
                !.settlementRetryCount = @ - 1,
                !.settlementNextRetry = HasNextRetry(retryCount)]

\* The counter is incremented in the database, the retry is scheduled from the
\* count that was read, and the status is written whatever it is by now.
UnsettledRow(row, retryCount) == [row EXCEPT !.settlementStatus = "FAILED",
                                             !.settlementRetryCount = @ + 1,
                                             !.settlementNextRetry = HasNextRetry(retryCount)]

RecordFailed(p) ==
    /\ At(p, "record_failed")
    /\ SetRow(Its(p), UnsettledRow(booking[Its(p)], process[p].retryCount))
    /\ Return(p)
    /\ UNCHANGED gatewayVars
=============================================================================
