-------------------- MODULE BookingsReturnAutoConfirmJob --------------------
(***************************************************************************)
(* BookingsReturnAutoConfirmJob.tick, which cron starts every minute on    *)
(* every instance of the backend.  The advisory lock of tick is held by a  *)
(* transaction that only takes it, so it is free again before the work     *)
(* begins and two ticks can work side by side: nothing of it is left to    *)
(* model.  A process stands for one tick's work on one row of its list.    *)
(*                                                                         *)
(* A deadline that is set may have passed at any time; so may a retry date.*)
(***************************************************************************)
EXTENDS BookingTable

\* processDeadlineExpirations: the query that lists the rows.
AwaitsLandlord(row) == /\ row.returnRenterConfirmed
                       /\ ~row.returnLandlordConfirmed
                       /\ ~row.returnAutoConfirmed
                       /\ row.status \in {"ACTIVE", "CONFIRMED"}

ListExpired(p, b) ==
    /\ At(p, "idle")
    /\ AwaitsLandlord(booking[b])
    /\ Begin(p, Starting("auto_cards", b, Seen(booking[b])))
    /\ UNCHANGED <<booking, gatewayVars>>

\* A row one of whose parties has no attached card is passed over, until a later
\* tick lists it again.
CheckCards(p) ==
    /\ At(p, "auto_cards")
    /\ IF BothHaveCards(Its(p)) THEN GoTo(p, "auto_check") ELSE Return(p)
    /\ UNCHANGED <<booking, gatewayVars>>

\* The transaction's read.  Of the status it asks only whether it is CANCELLED or
\* DISPUTED, and it does not look at the landlord's confirmation again.
CheckExpired(p) ==
    LET row == booking[Its(p)]
        proceeds == row.status \notin {"CANCELLED", "DISPUTED"} /\ ~row.returnAutoConfirmed
    IN  /\ At(p, "auto_check")
        /\ Begin(p, IF proceeds
                    THEN [process[p] EXCEPT
                            !.at = "auto_record",
                            !.marks = {m \in {"pending"} :
                                           row.settlementStatus \in {"NONE", "FAILED"}},
                            !.seen.settlement = row.settlementStatus]
                    ELSE Idle)
        /\ UNCHANGED <<booking, gatewayVars>>

\* Mutant: the booking is confirmed but not completed.
AutoConfirmedOpenRow(row, marks) ==
    [row EXCEPT !.returnAutoConfirmed = TRUE,
                !.settlementStatus = IF "pending" \in marks THEN "PENDING" ELSE @]

AutoConfirmedRow(row, marks) ==
    [row EXCEPT !.returnAutoConfirmed = TRUE,
                !.status = "COMPLETED",
                !.settlementStatus = IF "pending" \in marks THEN "PENDING" ELSE @]

\* The transaction's write.  A settlement that is PENDING afterwards, set here
\* or by another handler, is attempted.
AutoConfirm(p) ==
    LET row == AutoConfirmedRow(booking[Its(p)], process[p].marks)
    IN  /\ At(p, "auto_record")
        /\ SetRow(Its(p), row)
        /\ Begin(p, IF row.settlementStatus = "PENDING"
                    THEN Starting("settle", Its(p), Seen(row)) ELSE Idle)
        /\ UNCHANGED gatewayVars

\* processRetries.
DueForRetry(row) == /\ row.settlementStatus = "FAILED"
                    /\ row.settlementNextRetry
                    /\ row.status = "COMPLETED"

ListRetry(p, b) ==
    /\ At(p, "idle")
    /\ DueForRetry(booking[b])
    /\ Begin(p, Starting("retry_mark", b, Seen(booking[b])))
    /\ UNCHANGED <<booking, gatewayVars>>

RetriedRow(row) == [row EXCEPT !.settlementStatus = "PENDING"]

\* Mutant: the retry is marked and not made.
MarkRetryOnly(p) ==
    /\ At(p, "retry_mark")
    /\ SetRow(Its(p), RetriedRow(booking[Its(p)]))
    /\ Return(p)
    /\ UNCHANGED gatewayVars

MarkRetry(p) ==
    /\ At(p, "retry_mark")
    /\ SetRow(Its(p), RetriedRow(booking[Its(p)]))
    /\ Begin(p, Starting("settle", Its(p), Seen(RetriedRow(booking[Its(p)]))))
    /\ UNCHANGED gatewayVars
=============================================================================
