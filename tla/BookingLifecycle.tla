-------------------------- MODULE BookingLifecycle --------------------------
(***************************************************************************)
(* The life of a booking as docs/state/Booking.md draws it, the status     *)
(* diagram and the settlement diagram, for handlers that work side by      *)
(* side.  Each has a view of the booking it works on.  One whose view is   *)
(* still right moves the booking along the arrows of the diagrams; one     *)
(* whose view is out of date may write anything.  The machine says nothing *)
(* of which arrow, and nothing of holds, confirmations or retries.         *)
(***************************************************************************)
EXTENDS FiniteSets

CONSTANTS Booking, Process, PaidAtStart

VARIABLES
    status, settlement,     \* the two columns of each booking
    view                    \* what each handler works on, and holds to be its state

vars == <<status, settlement, view>>

StatusArrows ==
    {<<"PENDING_PAYMENT", "CONFIRMED">>, <<"PENDING_PAYMENT", "PAYMENT_FAILED">>,
     <<"PAYMENT_FAILED", "CONFIRMED">>, <<"CONFIRMED", "COMPLETED">>,
     <<"CONFIRMED", "CANCELLED">>, <<"PENDING_PAYMENT", "CANCELLED">>,
     <<"PAYMENT_FAILED", "CANCELLED">>}

SettlementArrows ==
    {<<"NONE", "PENDING">>, <<"PENDING", "SETTLED">>, <<"PENDING", "FAILED">>,
     <<"FAILED", "PENDING">>}

Along(arrows, from, to) == from = to \/ <<from, to>> \in arrows

Init == /\ status = [b \in Booking |-> IF b \in PaidAtStart THEN "CONFIRMED" ELSE "ABSENT"]
        /\ settlement = [b \in Booking |-> "NONE"]
        /\ \A p \in Process : view[p].status = "ABSENT"

\* A view is right when it is taken, kept as it is, or let go of; nobody changes
\* that of another.
Looks(p) ==
    LET old == view[p]
        new == view'[p]
    IN  /\ \A q \in Process \ {p} : view'[q] = view[q]
        /\ \/ new.status = "ABSENT"
           \/ /\ \/ new.status = status'[new.booking]
                 \/ new.status = old.status /\ new.booking = old.booking
              /\ \/ new.settlement = settlement'[new.booking]
                 \/ new.settlement = old.settlement /\ new.booking = old.booking

\* A handler creates a booking, and works on it from then on.
Create(p, b) == /\ status[b] = "ABSENT"
                /\ status' = [status EXCEPT ![b] = "PENDING_PAYMENT"]
                /\ UNCHANGED settlement
                /\ Looks(p)

\* A handler looks at a booking, writes what it has decided, or lets go of it.
Act(p) == LET b == view[p].booking
          IN  /\ \A c \in Booking \ {b} :
                     status'[c] = status[c] /\ settlement'[c] = settlement[c]
              /\ \/ view[p].status # status[b]
                 \/ Along(StatusArrows, status[b], status'[b])
              /\ \/ view[p].settlement # settlement[b]
                 \/ Along(SettlementArrows, settlement[b], settlement'[b])
              /\ Looks(p)

\* The owner cancels all the bookings on some days in one statement, which looks
\* and writes at once.
Cancel(S) == /\ \A b \in S : <<status[b], "CANCELLED">> \in StatusArrows
             /\ status' = [b \in Booking |-> IF b \in S THEN "CANCELLED" ELSE status[b]]
             /\ UNCHANGED <<settlement, view>>

Next == \/ \E p \in Process : Act(p) \/ \E b \in Booking : Create(p, b)
        \/ \E S \in SUBSET Booking : Cancel(S)

Spec == Init /\ [][Next]_vars
=============================================================================
