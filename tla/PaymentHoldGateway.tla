------------------------- MODULE PaymentHoldGateway -------------------------
(***************************************************************************)
(* The payment provider behind the PaymentHoldGateway interface            *)
(* (payments-hold/payment-hold.gateway.ts) as the backend's stub behaves.  *)
(* The caller of an operation brings an idempotency key, and the key alone *)
(* decides whether the operation is a new one.  A hold is named by a short *)
(* hash of the key it was authorised under, so two holds may have one name.*)
(* Amounts are left out: what matters is which hold an operation drew on.  *)
(* Holds and operations outlive a crash of the backend, as they do at a    *)
(* provider.                                                               *)
(***************************************************************************)
EXTENDS Integers, FiniteSets

CONSTANTS
    Booking,    \* booking ids
    Token,      \* tokens of the renters' attached cards
    HoldId,     \* names of holds, `hold_<hash>`
    HoldIdOf,   \* the name of the hold that is authorised under a key
    NoHold      \* null, in place of a name or a key

VARIABLES
    holds,      \* the keys under which the provider has authorised a hold
    operations  \* the captures and releases it has performed

gatewayVars == <<holds, operations>>

\* `booking_hold:<id>:<token>` of createBooking and
\* `booking_retry_hold:<id>:<token>` of retryPayment.
HoldKey == [purpose: {"booking_hold", "booking_retry_hold"},
            booking: Booking, token: Token]

\* captureRent, and releaseDeposit called by a settlement or, with
\* metadata.reason, by a cancellation.
OperationKind == {"capture_rent", "release_deposit", "cancel_release"}

\* Every key of an operation is a prefix and the id of a booking.
OperationKey == [prefix: {"booking_settlement:capture_rent",
                          "booking_settlement:release_deposit",
                          "booking_cancel_release"},
                 booking: Booking]

Operation == [kind: OperationKind, booking: Booking, hold: HoldId, key: OperationKey]

\* The hash adds up character codes: it is a function of the key, and no more.
ASSUME GatewayAssumption == /\ Booking # {}
                            /\ HoldIdOf \in [HoldKey -> HoldId]
                            /\ NoHold \notin HoldId \cup HoldKey

GatewayTypeOK == /\ holds \subseteq HoldKey
                 /\ operations \subseteq Operation

\* authorizeHold succeeds.  The answer depends on the key alone, so asking
\* again under the same key names the same hold.
AuthorizeHold(key) ==
    /\ holds' = holds \cup {key}
    /\ UNCHANGED operations

\* captureRent and releaseDeposit: an operation whose key is known answers
\* with the earlier result and draws on nothing, whatever else it asks for.
Perform(kind, b, hold, key) ==
    /\ operations' = operations \cup
           {o \in {[kind |-> kind, booking |-> b, hold |-> hold, key |-> key]} :
                \A done \in operations : done.key # o.key}
    /\ UNCHANGED holds
=============================================================================
