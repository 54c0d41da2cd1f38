---------------------------- MODULE BookingTable ----------------------------
(***************************************************************************)
(* The Booking rows of Postgres, and the backend's requests and cron ticks *)
(* that work on them.  A handler is a sequence of awaited calls; between   *)
(* two of them any other handler may run, so each handler in flight is a   *)
(* process with a label and the few values it carries across its awaits.   *)
(* Transactions run at Read Committed: what one has read may have changed  *)
(* by the time it writes, and its write keeps the columns it does not set. *)
(* A call that fails outside a try ends its handler, as a crash does.      *)
(***************************************************************************)
EXTENDS PaymentHoldGateway

CONSTANTS
    Terms,      \* what each booking asks for: listing, renter, landlord, from, to,
                \* rent, deposit
    UnitsPerDay,\* instants per calendar day
    Process     \* handlers that can be in flight together

VARIABLES
    booking,    \* the rows
    process,    \* the handlers
    cardholders \* the users who have an attached card

tableVars == <<booking, process, cardholders, holds, operations>>

Status == {"PENDING", "PENDING_PAYMENT", "PAYMENT_FAILED", "CONFIRMED",
           "ACTIVE", "COMPLETED", "CANCELLED", "DISPUTED"}

SettlementStatus == {"NONE", "PENDING", "SETTLED", "FAILED"}

\* A row, or ABSENT before it is created.  Timestamps that the code only
\* tests for null are Booleans.  amountHeld is set and cleared together with
\* paymentHoldId and returnConfirmationDeadlineAt is set together with
\* returnRenterConfirmedAt, so neither has a column of its own here.
Row == [status: Status \cup {"ABSENT"},
        paymentHoldId: HoldId \cup {NoHold},
        returnRenterConfirmed: BOOLEAN,
        returnLandlordConfirmed: BOOLEAN,
        returnMutualConfirmed: BOOLEAN,
        returnAutoConfirmed: BOOLEAN,
        settlementStatus: SettlementStatus,
        settlementRetryCount: Nat,
        settlementNextRetry: BOOLEAN]

AbsentRow == [status |-> "ABSENT",
              paymentHoldId |-> NoHold,
              returnRenterConfirmed |-> FALSE,
              returnLandlordConfirmed |-> FALSE,
              returnMutualConfirmed |-> FALSE,
              returnAutoConfirmed |-> FALSE,
              settlementStatus |-> "NONE",
              settlementRetryCount |-> 0,
              settlementNextRetry |-> FALSE]

ASSUME TermsAssumption ==
    /\ UnitsPerDay \in Nat \ {0}
    /\ DOMAIN Terms = Booking
    /\ \A b \in Booking : /\ Terms[b].from \in Nat /\ Terms[b].to \in Nat
                          /\ Terms[b].rent \in Nat /\ Terms[b].deposit \in Nat
                          /\ Terms[b].from < Terms[b].to

-----------------------------------------------------------------------------
(* The calendar.                                                           *)

BlockingStatus == {"PENDING", "PENDING_PAYMENT", "CONFIRMED", "ACTIVE", "DISPUTED"}

Blocking(b) == booking[b].status \in BlockingStatus

\* Two half-open intervals on one listing.
Overlap(a, b) == /\ Terms[a].listing = Terms[b].listing
                 /\ Terms[a].from < Terms[b].to
                 /\ Terms[a].to > Terms[b].from

\* The day projection: the last day is that of the instant before `to`.
StartDate(b) == Terms[b].from \div UnitsPerDay

\* Mutant: the day of `to` itself.
EndDateIncluding(b) == Terms[b].to \div UnitsPerDay

EndDate(b) == (Terms[b].to - 1) \div UnitsPerDay

OnDays(b, listing, firstDay, lastDay) ==
    /\ Terms[b].listing = listing
    /\ StartDate(b) <= lastDay
    /\ EndDate(b) >= firstDay

-----------------------------------------------------------------------------
(* Cards, rows of another component (PaymentMethods): what is asked here is *)
(* whether a user has an attached one.                                      *)

User == UNION {{Terms[b].renter, Terms[b].landlord} : b \in Booking}

HasCard(u) == u \in cardholders

BothHaveCards(b) == HasCard(Terms[b].renter) /\ HasCard(Terms[b].landlord)

-----------------------------------------------------------------------------
(* Handlers in flight.                                                     *)

Label == {"idle",
          "authorize", "record_hold", "notify", "record_failure",
          "cancel_release", "record_cancel",
          "record_confirmation",
          "auto_cards", "auto_check", "auto_record", "retry_mark",
          "settle", "record_missing_hold", "capture", "release",
          "record_settled", "notify_settled", "record_failed"}

\* The columns a return confirmation has decided to set.
Mark == {"renter", "landlord", "mutual", "pending"}

\* What a handler's decision to write rests on: the two columns of state as it
\* read them, or wrote them, before its first await on something else.
Seen(row) == [status |-> row.status, settlement |-> row.settlementStatus]

View == [status: Status \cup {"ABSENT"}, settlement: SettlementStatus]

Frame == [at: Label, booking: Booking,
          key: HoldKey \cup {NoHold}, hold: HoldId \cup {NoHold},
          marks: SUBSET Mark, retryCount: Nat, seen: View]

Starting(label, b, seen) ==
    [at |-> label, booking |-> b, key |-> NoHold, hold |-> NoHold,
     marks |-> {}, retryCount |-> 0, seen |-> seen]

\* A handler not in flight carries nothing; its booking is an arbitrary one.
Idle == Starting("idle", CHOOSE b \in Booking : TRUE, Seen(AbsentRow))

Begin(p, frame) == process' = [process EXCEPT ![p] = frame]
GoTo(p, label) == process' = [process EXCEPT ![p].at = label]
Return(p) == process' = [process EXCEPT ![p] = Idle]

At(p, label) == process[p].at = label
Its(p) == process[p].booking

\* prisma.booking.update({ where: { id } }): no condition on the row's state.
SetRow(b, row) == booking' = [booking EXCEPT ![b] = row]

TableTypeOK == /\ booking \in [Booking -> Row]
               /\ process \in [Process -> Frame]
               /\ cardholders \subseteq User
               /\ GatewayTypeOK
=============================================================================
