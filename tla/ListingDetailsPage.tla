------------------------- MODULE ListingDetailsPage -------------------------
(***************************************************************************)
(* The page of a listing and the window in which its dates are booked: the *)
(* sum is asked for, the booking is made, and when the hold is refused it  *)
(* is repeated for the booking that is there.                              *)
(***************************************************************************)
EXTENDS PageRequests

CONSTANTS Dates     \* what can be put into the two fields with the dates

VARIABLES details, modal

listingVars == <<details, modal>>

Booking == Listing \X Dates

Details == [open : BOOLEAN, loading : BOOLEAN,
            route : Listing \cup {Nothing}, listing : Listing \cup {Nothing}]

\* payFailedBookingId is the listing and the dates of that booking.
Modal == [open : BOOLEAN, dates : Dates \cup {Nothing}, summary : BOOLEAN,
          summaryLoading : BOOLEAN,
          cards : BOOLEAN,          \* there are cards to choose from
          payFailed : Booking \cup {Nothing},
          changed : BOOLEAN]        \* history: changed while its booking was being made

DetailsClosed == [open |-> FALSE, loading |-> FALSE, route |-> Nothing, listing |-> Nothing]
ModalClosed == [open |-> FALSE, dates |-> Nothing, summary |-> FALSE, summaryLoading |-> FALSE,
                cards |-> FALSE, payFailed |-> Nothing, changed |-> FALSE]

ListingTypeOK == details \in Details /\ modal \in Modal
ListingRequestsOK == RequestTypeOK(Listing \cup Booking, {})
ListingInit == details = DetailsClosed /\ modal = ModalClosed

CloseListing == details' = DetailsClosed /\ modal' = ModalClosed

ListingLoads == {"getListingDetails", "getOwnedListingForEdit"}
Submissions == {"createBooking", "retryBookingPayment"}
bookingSubmitting == Waiting(Submissions)

\* While the listing is loading a skeleton stands there instead of all this.
ListingShown == details.open /\ ~details.loading /\ details.listing # Nothing
ModalShown == ListingShown /\ modal.open

-----------------------------------------------------------------------------
(* The listing.                                                            *)

OpenListing(p, l) ==
    /\ ~details.open
    /\ details' = [DetailsClosed EXCEPT !.open = TRUE, !.loading = TRUE, !.route = l]
    /\ AskAnew(p, ListingLoads, "getListingDetails", l)
    /\ UNCHANGED modal

\* The page of another listing is the same component.
ShowOther(p, l) ==
    /\ details.open /\ l # details.route
    /\ details' = [details EXCEPT !.route = l, !.loading = TRUE]
    /\ modal' = [modal EXCEPT !.changed = @ \/ modal.open \/ bookingSubmitting]
    /\ AskAnew(p, ListingLoads, "getListingDetails", l)

\* A new access token: the effects of the listing and of the cards run again.
ListingNewToken(p, q) ==
    /\ details.open /\ p # q /\ At(p, "idle") /\ At(q, "idle")
    /\ details' = [details EXCEPT !.loading = TRUE]
    /\ request' = [Cancelled(ListingLoads \cup {"listPaymentMethods"}) EXCEPT
                      ![p] = Request("getListingDetails", details.route, Nothing),
                      ![q] = IF modal.open THEN Request("listPaymentMethods", Nothing, Nothing)
                                           ELSE Idle]
    /\ UNCHANGED modal

ShowListing(l) == details' = [details EXCEPT !.listing = l, !.loading = FALSE]

\* Mutant: the answer is applied without asking whether its effect was cleaned up.
ListingLoadedLate(p, outcome) ==
    /\ Asked(p, "getListingDetails")
    /\ IF outcome = "missing"
       THEN /\ Begin(p, [Request("getOwnedListingForEdit", request[p].about, Nothing) EXCEPT
                            !.live = Live(p)])
            /\ UNCHANGED details
       ELSE /\ ShowListing(IF outcome = "ok" THEN request[p].about ELSE Nothing)
            /\ Return(p)
    /\ UNCHANGED modal

\* A listing that is not public may be one of the user's own.
ListingLoaded(p, outcome) ==
    /\ Asked(p, "getListingDetails") /\ Live(p)
    /\ IF outcome = "missing"
       THEN /\ Begin(p, Request("getOwnedListingForEdit", request[p].about, Nothing))
            /\ UNCHANGED details
       ELSE /\ ShowListing(IF outcome = "ok" THEN request[p].about ELSE Nothing)
            /\ Return(p)
    /\ UNCHANGED modal

OwnedListingLoaded(p, outcome) ==
    /\ Asked(p, "getOwnedListingForEdit") /\ Live(p)
    /\ ShowListing(IF outcome = "ok" THEN request[p].about ELSE Nothing)
    /\ Return(p)
    /\ UNCHANGED modal

LeaveListing ==
    /\ details.open
    /\ CloseListing
    /\ Abandon(Submissions)

-----------------------------------------------------------------------------
(* The window.                                                             *)

\* The dates are those of the default range, which the time of day decides.
OpenBookingStep1(p, q, d) ==
    /\ ListingShown /\ ~modal.open /\ p # q /\ At(p, "idle") /\ At(q, "idle")
    /\ modal' = [modal EXCEPT !.open = TRUE, !.dates = d, !.summaryLoading = TRUE,
                              !.payFailed = Nothing]
    /\ request' = [request EXCEPT
                      ![p] = Request("getBookingSummary", <<details.listing, d>>, Nothing),
                      ![q] = Request("listPaymentMethods", Nothing, Nothing)]
    /\ UNCHANGED details

\* The button is there while the booking is being made as well.
CloseBookingModal ==
    /\ ModalShown
    /\ modal' = [modal EXCEPT !.open = FALSE, !.payFailed = Nothing, !.cards = FALSE,
                              !.changed = @ \/ bookingSubmitting]
    /\ request' = Cancelled({"listPaymentMethods"})
    /\ UNCHANGED details

EditDates(d) ==
    /\ ModalShown /\ modal.payFailed = Nothing /\ d # modal.dates
    /\ modal' = [modal EXCEPT !.dates = d, !.changed = @ \/ bookingSubmitting]
    /\ UNCHANGED <<details, request>>

FetchBookingSummary(p) ==
    /\ ModalShown /\ modal.payFailed = Nothing /\ ~modal.summaryLoading
    /\ modal' = [modal EXCEPT !.summaryLoading = TRUE]
    /\ Ask(p, "getBookingSummary", <<details.listing, modal.dates>>, Nothing)
    /\ UNCHANGED details

\* The sum that came last is shown, whatever dates it is for.
SummaryCame(p, outcome) ==
    /\ Asked(p, "getBookingSummary") /\ Live(p)
    /\ modal' = [modal EXCEPT !.summary = (outcome = "ok"), !.summaryLoading = FALSE]
    /\ Return(p)
    /\ UNCHANGED details

CardsCame(p, outcome) ==
    /\ Asked(p, "listPaymentMethods") /\ Live(p)
    /\ modal' = [modal EXCEPT !.cards = (outcome = "ok")]
    /\ Return(p)
    /\ UNCHANGED details

HandleConfirmBooking(p) ==
    /\ ModalShown /\ modal.payFailed = Nothing /\ ~bookingSubmitting
    /\ modal.summary /\ ~modal.summaryLoading /\ modal.cards
    /\ modal' = [modal EXCEPT !.changed = FALSE]
    /\ Ask(p, "createBooking", <<details.listing, modal.dates>>, Nothing)
    /\ UNCHANGED details

HandleRetryHold(p) ==
    /\ ModalShown /\ modal.payFailed # Nothing /\ ~bookingSubmitting /\ modal.cards
    /\ Ask(p, "retryBookingPayment", modal.payFailed, Nothing)
    /\ UNCHANGED listingVars

\* The page of the booking follows.  With 402 the booking is there and waits for a hold.
BookingAnswered(p, outcome) ==
    /\ Asked(p, "createBooking") \/ Asked(p, "retryBookingPayment")
    /\ IF outcome = "ok" THEN CloseListing /\ AbandonAfter(p, Submissions)
       ELSE /\ modal' = IF Live(p) /\ request[p].kind = "createBooking"
                           /\ outcome = "refused"
                        THEN [modal EXCEPT !.payFailed = request[p].about] ELSE modal
            /\ Return(p)
            /\ UNCHANGED details

-----------------------------------------------------------------------------

ListingIgnores(p) == Ignored(p, ListingLoads \cup {"listPaymentMethods"})

ListingAsks(p) ==
    \/ \E l \in Listing : OpenListing(p, l) \/ ShowOther(p, l)
    \/ FetchBookingSummary(p) \/ HandleConfirmBooking(p) \/ HandleRetryHold(p)

\* 404 for a listing, 402 for a hold, any other error.
ListingAnswered(p, outcome) ==
    \/ /\ outcome \in {"ok", "missing", "error"}
       /\ ListingLoaded(p, outcome) \/ OwnedListingLoaded(p, outcome)
    \/ outcome \in {"ok", "error"} /\ (SummaryCame(p, outcome) \/ CardsCame(p, outcome))
    \/ outcome \in {"ok", "refused", "error"} /\ BookingAnswered(p, outcome)

ListingTouched == LeaveListing \/ CloseBookingModal \/ \E d \in Dates : EditDates(d)

-----------------------------------------------------------------------------
(* What the page shows.                                                    *)

\* However many listings were asked for, and in whichever order they came, the one that
\* is shown is the one of the address.
ListingIsCurrent == ListingShown => details.listing = details.route

\* "The dates in this window are fixed for this booking": unless the window was changed
\* or closed while the booking was being made.
RetryIsWhatIsShown ==
    ModalShown /\ modal.payFailed # Nothing /\ ~modal.changed =>
        modal.payFailed = <<details.listing, modal.dates>>

-----------------------------------------------------------------------------
(* Why that is so.                                                         *)

\* What is asked for the listing is asked for the one of the address, and the booking that is
\* being made is the one of the window, unless that has changed.
ListingFits(f) ==
    /\ f.live => details.open /\ f.at # "idle"
    /\ f.live /\ f.kind \in ListingLoads => f.about = details.route
    /\ f.at # "idle" /\ f.kind \in Submissions => f.about \in Booking
    /\ f.live /\ f.kind = "createBooking" /\ ~modal.changed =>
          modal.open /\ f.about = <<details.route, modal.dates>>

ListingInv ==
    /\ \A p \in Process : ListingFits(request[p])
    /\ ~details.open => ListingInit
    /\ details.open => details.route \in Listing
    /\ details.open /\ ~details.loading => details.listing \in {details.route, Nothing}
    /\ modal.open => modal.dates \in Dates
    /\ modal.payFailed # Nothing /\ ~modal.changed =>
          modal.open /\ modal.payFailed = <<details.route, modal.dates>>
=============================================================================
