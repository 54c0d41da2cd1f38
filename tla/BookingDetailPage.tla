-------------------------- MODULE BookingDetailPage --------------------------
(***************************************************************************)
(* The page of a booking, for its renter: the hold is tried again, the     *)
(* return is confirmed, the settlement is repeated, the booking is         *)
(* cancelled, as the booking that was read last allows.                    *)
(***************************************************************************)
EXTENDS PageRequests

VARIABLES
    deal,       \* the page
    status      \* the booking in the backend

dealVars == <<deal, status>>

\* UNSETTLED is COMPLETED with a settlement that is not SETTLED.
BookingStatus == {"PAYMENT_FAILED", "CONFIRMED", "UNSETTLED", "SETTLED", "CANCELLED"}

Deal == [open : BOOLEAN, loading : BOOLEAN,
         booking : BookingStatus \cup {Nothing},
         cards : BOOLEAN,               \* there are cards to choose from
         cancelModalOpen : BOOLEAN,
         missed : BOOLEAN]              \* history: others changed it since it was asked for

DealClosed == [open |-> FALSE, loading |-> FALSE, booking |-> Nothing, cards |-> FALSE,
               cancelModalOpen |-> FALSE, missed |-> FALSE]

DealTypeOK == deal \in Deal /\ status \in BookingStatus
DealRequestsOK == RequestTypeOK(BookingStatus, {"again"})
DealInit == deal = DealClosed /\ status \in {"PAYMENT_FAILED", "CONFIRMED"}

DealShown == deal.open /\ ~deal.loading /\ deal.booking # Nothing

\* A retry lasts until the booking has been read again.
Reread == "again"
retrySubmitting ==
    \/ Waiting({"retryBookingPayment"})
    \/ \E p \in Process : Live(p) /\ request[p].kind = "getBooking" /\ request[p].data = Reread
Changes == {"retryBookingPayment", "confirmBookingReturn", "cancelBooking"}
returnSubmitting == Waiting({"confirmBookingReturn"})
cancelSubmitting == Waiting({"cancelBooking"})

-----------------------------------------------------------------------------

LoadBooking == deal' = [deal EXCEPT !.loading = TRUE, !.missed = FALSE]

OpenBooking(p) ==
    /\ ~deal.open
    /\ deal' = [DealClosed EXCEPT !.open = TRUE, !.loading = TRUE]
    /\ Ask(p, "getBooking", Nothing, Nothing)
    /\ UNCHANGED status

\* The loads that are in flight are not cancelled; that of the cards is.
DealNewToken(p, q) ==
    /\ deal.open /\ p # q /\ At(p, "idle") /\ At(q, "idle")
    /\ LoadBooking
    /\ request' = [Cancelled({"listPaymentMethods"}) EXCEPT
                      ![p] = Request("getBooking", Nothing, Nothing),
                      ![q] = IF deal.booking = "PAYMENT_FAILED"
                             THEN Request("listPaymentMethods", Nothing, Nothing) ELSE Idle]
    /\ UNCHANGED status

\* A new booking object: the cards are asked for when it waits for a hold.
SetBooking(p, booking) ==
    LET cancelled == Cancelled({"listPaymentMethods"})
    IN  request' = [cancelled EXCEPT
                       ![p] = IF booking = "PAYMENT_FAILED"
                              THEN Request("listPaymentMethods", Nothing, Nothing) ELSE Idle]

BookingLoaded(p) ==
    /\ Answered(p, "getBooking") /\ Live(p)
    /\ LET booking == IF Ok(p) THEN request[p].about ELSE Nothing
       IN  /\ deal' = [deal EXCEPT !.loading = FALSE, !.booking = booking]
           /\ SetBooking(p, booking)
    /\ UNCHANGED status

DealCardsCame(p) ==
    /\ Answered(p, "listPaymentMethods") /\ Live(p)
    /\ deal' = [deal EXCEPT !.cards = Ok(p)]
    /\ Return(p)
    /\ UNCHANGED status

HandleRetry(p) ==
    /\ DealShown /\ deal.booking = "PAYMENT_FAILED" /\ deal.cards /\ ~retrySubmitting
    /\ Ask(p, "retryBookingPayment", Nothing, Nothing)
    /\ UNCHANGED dealVars

Retried(p) ==
    /\ Answered(p, "retryBookingPayment") /\ Live(p)
    /\ IF Ok(p) THEN LoadBooking /\ Begin(p, Request("getBooking", Nothing, Reread))
                ELSE UNCHANGED deal /\ Return(p)
    /\ UNCHANGED status

\* Also "Retry the settlement", of a booking whose return both have confirmed.
HandleConfirmReturn(p) ==
    /\ DealShown /\ deal.booking \in {"CONFIRMED", "UNSETTLED"} /\ ~returnSubmitting
    /\ Ask(p, "confirmBookingReturn", Nothing, Nothing)
    /\ UNCHANGED dealVars

\* The answer is the booking as it is now.
ReturnConfirmed(p) ==
    /\ Answered(p, "confirmBookingReturn") /\ Live(p)
    /\ IF Ok(p) THEN /\ deal' = [deal EXCEPT !.booking = request[p].about]
                     /\ SetBooking(p, request[p].about)
                ELSE UNCHANGED deal /\ Return(p)
    /\ UNCHANGED status

CancelModal ==
    /\ DealShown
    /\ \/ ~deal.cancelModalOpen /\ deal.booking \in {"PAYMENT_FAILED", "CONFIRMED"}
       \/ deal.cancelModalOpen
    /\ ~cancelSubmitting
    /\ deal' = [deal EXCEPT !.cancelModalOpen = ~@]
    /\ UNCHANGED <<status, request>>

HandleCancelBooking(p) ==
    /\ DealShown /\ deal.cancelModalOpen /\ ~cancelSubmitting
    /\ Ask(p, "cancelBooking", Nothing, Nothing)
    /\ UNCHANGED dealVars

\* The list of bookings follows.
BookingCancelled(p) ==
    /\ Answered(p, "cancelBooking")
    /\ IF Ok(p) THEN deal' = DealClosed /\ AbandonAfter(p, Changes)
                ELSE UNCHANGED deal /\ Return(p)
    /\ UNCHANGED status

LeaveDeal == deal.open /\ deal' = DealClosed /\ Abandon(Changes) /\ UNCHANGED status

-----------------------------------------------------------------------------
(* The booking, of which BookingSystem has the whole.                      *)

Accept(p, next) == status' = next /\ Begin(p, [request[p] EXCEPT !.at = "answer", !.about = next])
Refuse(p) == UNCHANGED status /\ Respond(p, "error", request[p].data)

DealResponds(p) ==
    /\ \/ Asked(p, "getBooking") /\ (Accept(p, status) \/ Refuse(p))
       \/ Asked(p, "listPaymentMethods") /\ (Accept(p, status) \/ Refuse(p))
       \/ /\ Asked(p, "retryBookingPayment")
          /\ Refuse(p) \/ (status = "PAYMENT_FAILED" /\ Accept(p, "CONFIRMED"))
       \/ /\ Asked(p, "confirmBookingReturn")
          /\ \/ Refuse(p)
             \/ /\ status = "CONFIRMED"
                /\ \E next \in {"CONFIRMED", "UNSETTLED", "SETTLED"} : Accept(p, next)
             \/ /\ status = "UNSETTLED"
                /\ \E next \in {"UNSETTLED", "SETTLED"} : Accept(p, next)
       \/ /\ Asked(p, "cancelBooking")
          /\ Refuse(p) \/ (status \in {"PAYMENT_FAILED", "CONFIRMED"} /\ Accept(p, "CANCELLED"))
    /\ UNCHANGED deal

\* The landlord, the job.
OthersChange ==
    /\ \/ status = "PAYMENT_FAILED" /\ status' = "CANCELLED"
       \/ status = "CONFIRMED" /\ status' \in {"CANCELLED", "UNSETTLED", "SETTLED"}
       \/ status = "UNSETTLED" /\ status' = "SETTLED"
    /\ deal' = [deal EXCEPT !.missed = deal.open]
    /\ UNCHANGED request

\* On a page that has been left the retry reads the booking for nobody.
DealIgnores(p) ==
    \/ Ignored(p, {"listPaymentMethods"})
    \/ At(p, "answer") /\ Ignored(p, {"retryBookingPayment", "confirmBookingReturn"})

DealAsks(p) ==
    OpenBooking(p) \/ HandleRetry(p) \/ HandleConfirmReturn(p) \/ HandleCancelBooking(p)

DealGoesOn(p) ==
    \/ BookingLoaded(p) \/ DealCardsCame(p) \/ Retried(p) \/ ReturnConfirmed(p)
    \/ BookingCancelled(p)

DealTouched == LeaveDeal \/ CancelModal

\* When nothing overlapped and nobody else changed the booking, its status is the one on
\* the page, after every button of the page.
StatusIsCurrent == DealShown /\ ~Waiting(Kind) /\ ~deal.missed => deal.booking = status

-----------------------------------------------------------------------------
(* Why that is so.                                                         *)

\* What is accepted says how the booking is.
DealInv ==
    /\ \A p \in Process : At(p, "answer") /\ Ok(p) => request[p].about \in BookingStatus
    /\ \A p \in Process : Live(p) => deal.open /\ ~At(p, "idle")
    /\ ~deal.open => deal = DealClosed

\* When requests did not overlap and none failed, one at most is on its way that reads or
\* changes the booking, and its answer, or else the page, has the status there is.
Deals(p) == ~At(p, "idle") /\ request[p].kind # "listPaymentMethods"

StatusInv ==
    /\ \A p, q \in Process : Deals(p) /\ Deals(q) => p = q
    /\ \A p \in Process : At(p, "answer") => Ok(p)
    /\ deal.open => \A p \in Process : Deals(p) => Live(p)
    /\ deal.open /\ ~deal.missed =>
          /\ \A p \in Process : At(p, "answer") /\ request[p].kind \in {"getBooking", "confirmBookingReturn"}
                => request[p].about = status
          /\ (\A p \in Process : ~Deals(p)) => deal.booking = status
=============================================================================
