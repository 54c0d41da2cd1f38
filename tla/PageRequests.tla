---------------------------- MODULE PageRequests ----------------------------
(***************************************************************************)
(* What the pages of the web client have asked the backend for.  Requests  *)
(* are answered in any order.  An answer is applied to the page as it is   *)
(* then, except where its effect or its page has been cleaned up.          *)
(***************************************************************************)
EXTENDS Integers, FiniteSets

CONSTANTS
    Process,    \* requests that can be in flight together
    Listing,    \* the listings there are and will be
    Nothing     \* null

ASSUME NothingAssumption == Nothing \notin Listing

VARIABLES request

\* The function of the API that is called, and what the answer says: 200, 404, 402, 409 or
\* another error.
Kind == {"getListingDetails", "getOwnedListingForEdit", "listPaymentMethods",
         "getBookingSummary", "createBooking", "retryBookingPayment", "getCalendar",
         "checkAvailability", "blockDates", "unblockDates", "getBooking",
         "confirmBookingReturn", "cancelBooking", "createListing", "updateListing",
         "uploadListingPhoto", "deleteListingPhoto", "publishListing", "searchCatalog",
         "autocompleteCatalog"}
Outcome == {"ok", "missing", "refused", "conflict", "error"}

Idle == [at |-> "idle", kind |-> "getListingDetails", about |-> Nothing, data |-> Nothing,
         outcome |-> "ok", live |-> FALSE]

Request(kind, about, data) ==
    [at |-> "asked", kind |-> kind, about |-> about, data |-> data,
     outcome |-> "ok", live |-> TRUE]

\* A request is about one of the subjects, and carries or brings some data.
Frame(Subject, Data) ==
    [at : {"idle", "asked", "answer"}, kind : Kind, about : Subject \cup {Nothing},
     data : Data \cup {Nothing}, outcome : Outcome, live : BOOLEAN]

RequestTypeOK(Subject, Data) == request \in [Process -> Frame(Subject, Data)]

At(p, place) == request[p].at = place
Asked(p, kind) == At(p, "asked") /\ request[p].kind = kind
Answered(p, kind) == At(p, "answer") /\ request[p].kind = kind
Ok(p) == request[p].outcome = "ok"
Live(p) == request[p].live

\* Somebody on the page that is open waits for one of these.
Waiting(kinds) == \E p \in Process : Live(p) /\ request[p].kind \in kinds

Begin(p, frame) == request' = [request EXCEPT ![p] = frame]
Return(p) == Begin(p, Idle)

Ask(p, kind, about, data) == At(p, "idle") /\ Begin(p, Request(kind, about, data))

\* The cleanup of an effect sets the "cancelled" of the requests it made.
Cancelled(kinds) ==
    [p \in Process |-> IF request[p].kind \in kinds THEN [request[p] EXCEPT !.live = FALSE]
                                                    ELSE request[p]]

\* The effect runs again: what it asked for before is cancelled.
AskAnew(p, kinds, kind, about) ==
    /\ At(p, "idle")
    /\ request' = [Cancelled(kinds) EXCEPT ![p] = Request(kind, about, Nothing)]

\* The page is left: no answer shows any more, and those of most requests change nothing.
Abandoned(lasting) ==
    [p \in Process |-> IF request[p].kind \in lasting THEN [request[p] EXCEPT !.live = FALSE]
                                                      ELSE Idle]
Abandon(lasting) == request' = Abandoned(lasting)
AbandonAfter(p, lasting) == request' = [Abandoned(lasting) EXCEPT ![p] = Idle]

Respond(p, outcome, data) ==
    Begin(p, [request[p] EXCEPT !.at = "answer", !.outcome = outcome, !.data = data])

\* The answer to an effect that has been cleaned up.
Ignored(p, kinds) ==
    ~At(p, "idle") /\ request[p].kind \in kinds /\ ~Live(p) /\ Return(p)
=============================================================================
