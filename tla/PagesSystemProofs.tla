-------------------------- MODULE PagesSystemProofs --------------------------
(***************************************************************************)
(* What the pages of the web client show, for any listings, dates, months, *)
(* photos, words, categories and requests.                                 *)
(***************************************************************************)
EXTENDS PagesSystem, TLAPS

-----------------------------------------------------------------------------
(* Requests.                                                               *)

LEMMA IdleFrame ==
    ASSUME NEW Subject, NEW Data
    PROVE  Idle \in Frame(Subject, Data) /\ Idle.at = "idle" /\ ~Idle.live
BY DEF Idle, Frame, Kind, Outcome

LEMMA RequestFrame ==
    ASSUME NEW Subject, NEW Data, NEW kind \in Kind,
           NEW about \in Subject \cup {Nothing}, NEW data \in Data \cup {Nothing}
    PROVE  Request(kind, about, data) \in Frame(Subject, Data)
BY DEF Request, Frame, Kind, Outcome

LEMMA RequestFields ==
    \A kind, about, data :
        /\ Request(kind, about, data).at = "asked"
        /\ Request(kind, about, data).kind = kind
        /\ Request(kind, about, data).about = about
        /\ Request(kind, about, data).data = data
        /\ Request(kind, about, data).live
BY DEF Request

LEMMA BeginIs ==
    ASSUME NEW Subject, NEW Data, RequestTypeOK(Subject, Data), NEW p \in Process,
           NEW f \in Frame(Subject, Data), Begin(p, f)
    PROVE  /\ RequestTypeOK(Subject, Data)'
           /\ request'[p] = f
           /\ \A q \in Process \ {p} : request'[q] = request[q]
BY DEF RequestTypeOK, Begin

LEMMA ReturnIs ==
    ASSUME NEW Subject, NEW Data, RequestTypeOK(Subject, Data), NEW p \in Process, Return(p)
    PROVE  /\ RequestTypeOK(Subject, Data)'
           /\ request'[p] = Idle
           /\ \A q \in Process \ {p} : request'[q] = request[q]
BY IdleFrame DEF RequestTypeOK, Begin, Return

\* Two requests that differ at most in being live.
Alike(f, g) == /\ f.at = g.at /\ f.kind = g.kind /\ f.about = g.about
               /\ f.data = g.data /\ f.outcome = g.outcome

LEMMA CancelledIs ==
    ASSUME NEW Subject, NEW Data, RequestTypeOK(Subject, Data), NEW kinds
    PROVE  /\ Cancelled(kinds) \in [Process -> Frame(Subject, Data)]
           /\ \A q \in Process : /\ Alike(Cancelled(kinds)[q], request[q])
                                 /\ Cancelled(kinds)[q].live <=> Live(q) /\ request[q].kind \notin kinds
<1>1. \A q \in Process : request[q] \in Frame(Subject, Data)
  BY DEF RequestTypeOK
<1>2. ASSUME NEW f \in Frame(Subject, Data)
      PROVE  /\ [f EXCEPT !.live = FALSE] \in Frame(Subject, Data)
             /\ Alike([f EXCEPT !.live = FALSE], f)
             /\ ~[f EXCEPT !.live = FALSE].live
  BY DEF Frame, Alike
<1>3. ASSUME NEW q \in Process
      PROVE  Cancelled(kinds)[q] = IF request[q].kind \in kinds THEN [request[q] EXCEPT !.live = FALSE]
                                                                ELSE request[q]
  BY DEF Cancelled
<1>4. \A f : Alike(f, f)
  BY DEF Alike
<1>5. ASSUME NEW q \in Process
      PROVE  /\ Cancelled(kinds)[q] \in Frame(Subject, Data)
             /\ Alike(Cancelled(kinds)[q], request[q])
             /\ Cancelled(kinds)[q].live <=> Live(q) /\ request[q].kind \notin kinds
  BY <1>1, <1>2, <1>3, <1>4 DEF Live
<1>6. Cancelled(kinds) = [q \in Process |-> Cancelled(kinds)[q]]
  BY DEF Cancelled
<1> QED
  BY <1>5, <1>6

LEMMA AbandonedIs ==
    ASSUME NEW Subject, NEW Data, RequestTypeOK(Subject, Data), NEW lasting
    PROVE  /\ Abandoned(lasting) \in [Process -> Frame(Subject, Data)]
           /\ \A q \in Process : /\ ~Abandoned(lasting)[q].live
                                 /\ IF request[q].kind \in lasting THEN Alike(Abandoned(lasting)[q], request[q])
                                                                   ELSE Abandoned(lasting)[q] = Idle
<1>1. \A q \in Process : request[q] \in Frame(Subject, Data)
  BY DEF RequestTypeOK
<1>2. ASSUME NEW f \in Frame(Subject, Data)
      PROVE  /\ [f EXCEPT !.live = FALSE] \in Frame(Subject, Data)
             /\ Alike([f EXCEPT !.live = FALSE], f)
             /\ ~[f EXCEPT !.live = FALSE].live
  BY DEF Frame, Alike
<1>3. ASSUME NEW q \in Process
      PROVE  Abandoned(lasting)[q] = IF request[q].kind \in lasting THEN [request[q] EXCEPT !.live = FALSE]
                                                                    ELSE Idle
  BY DEF Abandoned
<1>5. ASSUME NEW q \in Process
      PROVE  /\ Abandoned(lasting)[q] \in Frame(Subject, Data)
             /\ ~Abandoned(lasting)[q].live
             /\ IF request[q].kind \in lasting THEN Alike(Abandoned(lasting)[q], request[q])
                                               ELSE Abandoned(lasting)[q] = Idle
  BY <1>1, <1>2, <1>3, IdleFrame
<1>6. Abandoned(lasting) = [q \in Process |-> Abandoned(lasting)[q]]
  BY DEF Abandoned
<1> QED
  BY <1>5, <1>6

-----------------------------------------------------------------------------
(* The page of a listing.                                                  *)

ListingGood == ListingTypeOK /\ ListingRequestsOK /\ ListingInv

Asks(p, kind, about) ==
    /\ request'[p].at = "asked" /\ request'[p].kind = kind /\ request'[p].about = about
    /\ request'[p].live
Rests(p) == request'[p].at = "idle" /\ ~request'[p].live

\* The other requests than those of ps: what they are about stays, and those that are cleaned up
\* are live no more.
Stay(ps, kinds) ==
    \A q \in Process \ ps : /\ Alike(request'[q], request[q])
                            /\ request'[q].live <=> Live(q) /\ request[q].kind \notin kinds

ListingSubject == Listing \cup Booking

LEMMA ListingKinds == ListingLoads \cup Submissions \cup {"getBookingSummary", "listPaymentMethods"} \subseteq Kind
BY DEF ListingLoads, Submissions, Kind

LEMMA AskAnewIs ==
    ASSUME NEW Subject, NEW Data, RequestTypeOK(Subject, Data), NEW p \in Process, NEW kinds,
           NEW kind \in Kind, NEW about \in Subject \cup {Nothing}, AskAnew(p, kinds, kind, about)
    PROVE  RequestTypeOK(Subject, Data)' /\ Asks(p, kind, about) /\ Stay({p}, kinds)
<1>1. Request(kind, about, Nothing) \in Frame(Subject, Data)
  BY RequestFrame
<1>2. request' = [Cancelled(kinds) EXCEPT ![p] = Request(kind, about, Nothing)]
  BY DEF AskAnew
<1>3. request'[p] = Request(kind, about, Nothing)
  BY <1>2, CancelledIs
<1>4. \A q \in Process \ {p} : request'[q] = Cancelled(kinds)[q]
  BY <1>2, CancelledIs
<1>5. request' \in [Process -> Frame(Subject, Data)]
  BY <1>1, <1>2, CancelledIs
<1>6. Asks(p, kind, about)
  BY <1>3, RequestFields DEF Asks
<1>7. Stay({p}, kinds)
  BY <1>4, CancelledIs DEF Stay
<1> QED
  BY <1>5, <1>6, <1>7 DEF RequestTypeOK

LEMMA AskIs ==
    ASSUME NEW Subject, NEW Data, RequestTypeOK(Subject, Data), NEW p \in Process,
           NEW kind \in Kind, NEW about \in Subject \cup {Nothing}, NEW data \in Data \cup {Nothing},
           Ask(p, kind, about, data)
    PROVE  /\ RequestTypeOK(Subject, Data)' /\ Asks(p, kind, about) /\ Stay({p}, {})
           /\ request'[p].data = data
<1>1. Request(kind, about, data) \in Frame(Subject, Data)
  BY RequestFrame
<1>2. /\ RequestTypeOK(Subject, Data)'
      /\ request'[p] = Request(kind, about, data)
      /\ \A q \in Process \ {p} : request'[q] = request[q]
  BY <1>1, BeginIs DEF Ask
<1> QED
  BY <1>2, RequestFields DEF Asks, Stay, Alike, Live

LEMMA ReturnRests ==
    ASSUME NEW Subject, NEW Data, RequestTypeOK(Subject, Data), NEW p \in Process, Return(p)
    PROVE  RequestTypeOK(Subject, Data)' /\ Rests(p) /\ Stay({p}, {})
BY ReturnIs, IdleFrame DEF Rests, Stay, Alike, Live

LEMMA OpenListingGood ==
    ASSUME ListingGood, NEW p \in Process, NEW l \in Listing, OpenListing(p, l)
    PROVE  ListingGood'
<1>1. ListingRequestsOK' /\ Asks(p, "getListingDetails", l) /\ Stay({p}, ListingLoads)
  BY AskAnewIs, ListingKinds DEF ListingGood, ListingRequestsOK, OpenListing, ListingLoads
<1>2. /\ details.open = FALSE /\ modal' = modal
      /\ details' = [open |-> TRUE, loading |-> TRUE, route |-> l, listing |-> Nothing]
  BY DEF OpenListing, ListingGood, ListingTypeOK, Details, DetailsClosed
<1>3. ListingTypeOK'
  BY <1>2 DEF ListingGood, ListingTypeOK, Details
<1>4. \A q \in Process : ~Live(q)
  BY <1>2 DEF ListingGood, ListingInv, ListingFits, Live
<1>5. modal = ModalClosed
  BY <1>2 DEF ListingGood, ListingInv, ListingInit
<1>6. ListingInv'
  BY <1>1, <1>2, <1>4, <1>5 DEF ListingGood, ListingInv, ListingFits, ListingInit, ModalClosed, Asks, Stay, Alike, ListingLoads, Submissions
<1> QED
  BY <1>1, <1>3, <1>6 DEF ListingGood

LEMMA ShowOtherGood ==
    ASSUME ListingGood, NEW p \in Process, NEW l \in Listing, ShowOther(p, l)
    PROVE  ListingGood'
<1>1. ListingRequestsOK' /\ Asks(p, "getListingDetails", l) /\ Stay({p}, ListingLoads)
  BY AskAnewIs, ListingKinds DEF ListingGood, ListingRequestsOK, ShowOther, ListingLoads
<1>2. /\ details.open
      /\ details' = [details EXCEPT !.route = l, !.loading = TRUE]
      /\ modal' = [modal EXCEPT !.changed = modal.changed \/ modal.open \/ bookingSubmitting]
  BY DEF ShowOther
<1>3. ListingTypeOK'
  BY <1>2 DEF ListingGood, ListingTypeOK, Details, Modal, bookingSubmitting, Waiting
<1>4. modal'.changed <=> modal.changed \/ modal.open \/ bookingSubmitting
  BY <1>2 DEF ListingGood, ListingTypeOK, Modal
<1>5. /\ modal'.open = modal.open /\ modal'.dates = modal.dates
      /\ modal'.payFailed = modal.payFailed
      /\ details'.open /\ details'.loading /\ details'.route = l
  BY <1>2 DEF ListingGood, ListingTypeOK, Modal, Details
<1>6. \A q \in Process : Live(q) /\ request[q].kind = "createBooking" => modal'.changed
  BY <1>4 DEF bookingSubmitting, Waiting, Submissions
<1>7. ListingInv'
  BY <1>1, <1>4, <1>5, <1>6 DEF ListingGood, ListingInv, ListingFits, ListingInit, Asks, Stay, Alike, ListingLoads, Submissions, Live
<1> QED
  BY <1>1, <1>3, <1>7 DEF ListingGood

LEMMA ListingNewTokenGood ==
    ASSUME ListingGood, NEW p \in Process, NEW q \in Process, ListingNewToken(p, q)
    PROVE  ListingGood'
<1> DEFINE kinds == ListingLoads \cup {"listPaymentMethods"}
           f == Request("getListingDetails", details.route, Nothing)
           g == IF modal.open THEN Request("listPaymentMethods", Nothing, Nothing) ELSE Idle
           S == Listing \cup Booking
<1>1. f \in Frame(S, {}) /\ g \in Frame(S, {})
  BY RequestFrame, IdleFrame, ListingKinds DEF ListingGood, ListingTypeOK, Details, ListingLoads
<1>2. /\ f.at = "asked" /\ f.kind = "getListingDetails" /\ f.about = details.route /\ f.live
      /\ g.live => g.at = "asked" /\ g.kind = "listPaymentMethods"
      /\ g.at # "idle" => g.kind = "listPaymentMethods"
  BY RequestFields, IdleFrame
<1>3. request' = [Cancelled(kinds) EXCEPT ![p] = f, ![q] = g] /\ p # q
  BY DEF ListingNewToken
<1> HIDE DEF f, g
<1>4. /\ ListingRequestsOK' /\ request'[p] = f /\ request'[q] = g
      /\ \A r \in Process \ {p, q} : request'[r] = Cancelled(kinds)[r]
  BY <1>1, <1>3, CancelledIs DEF ListingGood, ListingRequestsOK, RequestTypeOK
<1>5. Stay({p, q}, kinds)
  BY <1>4, CancelledIs DEF ListingGood, ListingRequestsOK, Stay
<1>6. /\ details.open /\ modal' = modal
      /\ details' = [details EXCEPT !.loading = TRUE]
  BY DEF ListingNewToken
<1>7. ListingTypeOK'
  BY <1>6 DEF ListingGood, ListingTypeOK, Details
<1>8. details'.open /\ details'.loading /\ details'.route = details.route
  BY <1>6 DEF ListingGood, ListingTypeOK, Details
<1>9. ListingInv'
  BY <1>2, <1>4, <1>5, <1>6, <1>8 DEF ListingGood, ListingInv, ListingFits, ListingInit, Stay, Alike, ListingLoads, Submissions, Live
<1> QED
  BY <1>4, <1>7, <1>9 DEF ListingGood

\* A live load of the listing ends.
LEMMA ShowListingGood ==
    ASSUME ListingGood, NEW p \in Process, Live(p), request[p].kind \in ListingLoads,
           NEW l \in {request[p].about, Nothing},
           ShowListing(l), Return(p), UNCHANGED modal
    PROVE  ListingGood'
<1>1. ListingRequestsOK' /\ Rests(p) /\ Stay({p}, {})
  BY ReturnRests DEF ListingGood, ListingRequestsOK
<1>2. details.open /\ request[p].about = details.route
  BY DEF ListingGood, ListingInv, ListingFits, Live
<1>3. l \in Listing \cup {Nothing} /\ l \in {details.route, Nothing}
  BY <1>2 DEF ListingGood, ListingTypeOK, Details
<1>4. /\ ListingTypeOK'
      /\ details'.open /\ details'.route = details.route /\ details'.listing = l
  BY <1>2, <1>3 DEF ListingGood, ListingTypeOK, Details, ShowListing
<1>5. ListingInv'
  BY <1>1, <1>2, <1>3, <1>4 DEF ListingGood, ListingInv, ListingFits, ListingInit, Rests, Stay, Alike, ListingLoads, Submissions, Live
<1> QED
  BY <1>1, <1>4, <1>5 DEF ListingGood

LEMMA ListingLoadedGood ==
    ASSUME ListingGood, NEW p \in Process, NEW outcome, ListingLoaded(p, outcome)
    PROVE  ListingGood'
<1>1. CASE outcome # "missing"
  <2>1. PICK l \in {request[p].about, Nothing} : ShowListing(l)
    BY <1>1 DEF ListingLoaded
  <2> QED
    BY <1>1, <2>1, ShowListingGood DEF ListingLoaded, Asked, ListingLoads
<1>2. CASE outcome = "missing"
  <2>1. /\ Live(p) /\ request[p].kind \in ListingLoads /\ UNCHANGED <<details, modal>>
        /\ Begin(p, Request("getOwnedListingForEdit", request[p].about, Nothing))
    BY <1>2 DEF ListingLoaded, Asked, ListingLoads
  <2>2. details.open /\ request[p].about = details.route
    BY <2>1 DEF ListingGood, ListingInv, ListingFits, Live
  <2>3. Request("getOwnedListingForEdit", request[p].about, Nothing) \in Frame(Listing \cup Booking, {})
    BY <2>2, RequestFrame, ListingKinds DEF ListingGood, ListingTypeOK, Details, ListingLoads
  <2>4. /\ ListingRequestsOK' /\ Asks(p, "getOwnedListingForEdit", details.route)
        /\ \A r \in Process \ {p} : request'[r] = request[r]
    BY <2>1, <2>2, <2>3, BeginIs, RequestFields DEF ListingGood, ListingRequestsOK, Asks
  <2>5. ListingInv'
    BY <2>1, <2>2, <2>4 DEF ListingGood, ListingInv, ListingFits, ListingInit, Asks, ListingLoads, Submissions, Live
  <2> QED
    BY <2>1, <2>4, <2>5 DEF ListingGood, ListingTypeOK
<1> QED
  BY <1>1, <1>2

LEMMA OwnedListingLoadedGood ==
    ASSUME ListingGood, NEW p \in Process, NEW outcome, OwnedListingLoaded(p, outcome)
    PROVE  ListingGood'
<1>1. PICK l \in {request[p].about, Nothing} : ShowListing(l)
  BY DEF OwnedListingLoaded
<1> QED
  BY <1>1, ShowListingGood DEF OwnedListingLoaded, Asked, ListingLoads

\* The page is left: the bookings that are being made go on.
Left(ps) == \A q \in Process \ ps :
    /\ ~request'[q].live
    /\ request'[q].at # "idle" => Alike(request'[q], request[q])

LEMMA AbandonLeaves ==
    ASSUME NEW Subject, NEW Data, RequestTypeOK(Subject, Data), NEW lasting, Abandon(lasting)
    PROVE  RequestTypeOK(Subject, Data)' /\ Left({})
BY AbandonedIs, IdleFrame DEF RequestTypeOK, Abandon, Left

LEMMA AbandonAfterLeaves ==
    ASSUME NEW Subject, NEW Data, RequestTypeOK(Subject, Data), NEW p \in Process, NEW lasting,
           AbandonAfter(p, lasting)
    PROVE  RequestTypeOK(Subject, Data)' /\ Left({p}) /\ Rests(p)
<1>1. request' = [Abandoned(lasting) EXCEPT ![p] = Idle]
  BY DEF AbandonAfter
<1>2. /\ RequestTypeOK(Subject, Data)' /\ request'[p] = Idle
      /\ \A q \in Process \ {p} : request'[q] = Abandoned(lasting)[q]
  BY <1>1, AbandonedIs, IdleFrame DEF RequestTypeOK
<1> QED
  BY <1>2, AbandonedIs, IdleFrame DEF Left, Rests

LEMMA CloseListingGood ==
    ASSUME ListingGood, ListingRequestsOK', CloseListing,
           NEW ps \in SUBSET Process, Left(ps), \A q \in ps : Rests(q)
    PROVE  ListingGood'
<1>1. details' = DetailsClosed /\ modal' = ModalClosed
  BY DEF CloseListing
<1>2. ListingTypeOK'
  BY <1>1 DEF ListingTypeOK, Details, Modal, DetailsClosed, ModalClosed
<1>3. \A q \in Process : ~request'[q].live /\ (request'[q].at # "idle" => Alike(request'[q], request[q]))
  BY DEF Left, Rests
<1>4. ListingInv'
  BY <1>1, <1>3 DEF ListingGood, ListingInv, ListingFits, ListingInit, DetailsClosed, ModalClosed, Alike
<1> QED
  BY <1>2, <1>4 DEF ListingGood

LEMMA LeaveListingGood == ASSUME ListingGood, LeaveListing PROVE ListingGood'
BY AbandonLeaves, CloseListingGood DEF ListingGood, ListingRequestsOK, LeaveListing

LEMMA OpenBookingGood ==
    ASSUME ListingGood, NEW p \in Process, NEW q \in Process, NEW d \in Dates,
           OpenBookingStep1(p, q, d)
    PROVE  ListingGood'
<1> DEFINE f == Request("getBookingSummary", <<details.listing, d>>, Nothing)
           g == Request("listPaymentMethods", Nothing, Nothing)
           S == Listing \cup Booking
<1>1. /\ details.open /\ ~modal.open /\ UNCHANGED details /\ p # q
      /\ <<details.listing, d>> \in Booking
  BY DEF OpenBookingStep1, ListingShown, ListingGood, ListingTypeOK, Details, Booking
<1>2. f \in Frame(S, {}) /\ g \in Frame(S, {})
  BY <1>1, RequestFrame, ListingKinds
<1>3. /\ f.at = "asked" /\ f.kind = "getBookingSummary" /\ f.about \in Booking /\ f.live
      /\ g.at = "asked" /\ g.kind = "listPaymentMethods" /\ g.live
  BY <1>1, RequestFields
<1>4. request' = [request EXCEPT ![p] = f, ![q] = g]
  BY DEF OpenBookingStep1
<1> HIDE DEF f, g
<1>5. /\ ListingRequestsOK' /\ request'[p] = f /\ request'[q] = g
      /\ \A r \in Process \ {p, q} : request'[r] = request[r]
  BY <1>1, <1>2, <1>4 DEF ListingGood, ListingRequestsOK, RequestTypeOK
<1>6. modal' = [modal EXCEPT !.open = TRUE, !.dates = d, !.summaryLoading = TRUE,
                             !.payFailed = Nothing]
  BY DEF OpenBookingStep1
<1>7. /\ ListingTypeOK'
      /\ modal'.open /\ modal'.dates = d /\ modal'.payFailed = Nothing
      /\ modal'.changed = modal.changed
  BY <1>1, <1>6 DEF ListingGood, ListingTypeOK, Modal
<1>8. ListingInv'
  BY <1>1, <1>3, <1>5, <1>7 DEF ListingGood, ListingInv, ListingFits, ListingInit, ListingLoads, Submissions
<1> QED
  BY <1>5, <1>7, <1>8 DEF ListingGood

LEMMA CloseModalGood == ASSUME ListingGood, CloseBookingModal PROVE ListingGood'
<1>1. /\ details.open /\ modal.open /\ UNCHANGED details
      /\ modal' = [modal EXCEPT !.open = FALSE, !.payFailed = Nothing, !.cards = FALSE,
                                !.changed = modal.changed \/ bookingSubmitting]
  BY DEF CloseBookingModal, ModalShown, ListingShown
<1>2. ListingRequestsOK' /\ Stay({}, {"listPaymentMethods"})
  BY CancelledIs DEF ListingGood, ListingRequestsOK, RequestTypeOK, CloseBookingModal, Stay
<1>3. /\ ListingTypeOK'
      /\ ~modal'.open /\ modal'.dates = modal.dates /\ modal'.payFailed = Nothing
      /\ modal'.changed <=> modal.changed \/ bookingSubmitting
  BY <1>1 DEF ListingGood, ListingTypeOK, Modal, bookingSubmitting, Waiting
<1>4. \A q \in Process : Live(q) /\ request[q].kind = "createBooking" => modal'.changed
  BY <1>3 DEF bookingSubmitting, Waiting, Submissions
<1>5. ListingInv'
  BY <1>1, <1>2, <1>3, <1>4 DEF ListingGood, ListingInv, ListingFits, ListingInit, Stay, Alike, ListingLoads, Submissions, Live
<1> QED
  BY <1>2, <1>3, <1>5 DEF ListingGood

LEMMA EditDatesGood == ASSUME ListingGood, NEW d \in Dates, EditDates(d) PROVE ListingGood'
<1>1. /\ details.open /\ modal.open /\ modal.payFailed = Nothing /\ UNCHANGED <<details, request>>
      /\ modal' = [modal EXCEPT !.dates = d, !.changed = modal.changed \/ bookingSubmitting]
  BY DEF EditDates, ModalShown, ListingShown
<1>2. /\ ListingTypeOK'
      /\ modal'.open /\ modal'.dates = d /\ modal'.payFailed = Nothing
      /\ modal'.changed <=> modal.changed \/ bookingSubmitting
  BY <1>1 DEF ListingGood, ListingTypeOK, Modal, bookingSubmitting, Waiting
<1>3. \A q \in Process : Live(q) /\ request[q].kind = "createBooking" => modal'.changed
  BY <1>2 DEF bookingSubmitting, Waiting, Submissions
<1>4. ListingInv'
  BY <1>1, <1>2, <1>3 DEF ListingGood, ListingInv, ListingFits, ListingInit, Live
<1> QED
  BY <1>1, <1>2, <1>4 DEF ListingGood, ListingRequestsOK, RequestTypeOK

\* The sum, or whether there are cards.
SameWindow == /\ modal'.open = modal.open /\ modal'.dates = modal.dates
              /\ modal'.payFailed = modal.payFailed /\ modal'.changed = modal.changed

LEMMA WindowGood ==
    ASSUME ListingGood, ListingTypeOK', ListingRequestsOK', UNCHANGED details, SameWindow,
           details.open, NEW p \in Process, Stay({p}, {}),
           ListingFits(request'[p])
    PROVE  ListingGood'
<1>1. \A q \in Process : ListingFits(request'[q])
  BY DEF Stay, Alike, ListingFits, ListingGood, ListingInv, Live
<1>2. \A q \in Process : ListingFits(request[q])'
  BY <1>1 DEF ListingFits, SameWindow
<1> QED
  BY <1>2 DEF ListingGood, ListingInv, SameWindow

LEMMA RestsFits == ASSUME NEW p, Rests(p) PROVE ListingFits(request'[p])
BY DEF Rests, ListingFits

LEMMA FetchSummaryGood ==
    ASSUME ListingGood, NEW p \in Process, FetchBookingSummary(p) PROVE ListingGood'
<1>1. /\ details.open /\ modal.open /\ UNCHANGED details
      /\ modal' = [modal EXCEPT !.summaryLoading = TRUE]
      /\ details.listing # Nothing
  BY DEF FetchBookingSummary, ModalShown, ListingShown
<1>2. <<details.listing, modal.dates>> \in Booking
  BY <1>1 DEF ListingGood, ListingTypeOK, ListingInv, Details, Booking
<1>3. ListingRequestsOK' /\ Stay({p}, {}) /\ Asks(p, "getBookingSummary", <<details.listing, modal.dates>>)
  BY <1>2, AskIs, ListingKinds DEF ListingGood, ListingRequestsOK, FetchBookingSummary
<1>4. ListingTypeOK' /\ SameWindow
  BY <1>1 DEF ListingGood, ListingTypeOK, Modal, SameWindow
<1>5. ListingFits(request'[p])
  BY <1>1, <1>2, <1>3 DEF Asks, ListingFits, ListingLoads, Submissions
<1> QED
  BY <1>1, <1>3, <1>4, <1>5, WindowGood

LEMMA SummaryCameGood ==
    ASSUME ListingGood, NEW p \in Process, NEW outcome, SummaryCame(p, outcome) PROVE ListingGood'
<1>1. /\ details.open /\ UNCHANGED details
      /\ modal' = [modal EXCEPT !.summary = (outcome = "ok"), !.summaryLoading = FALSE]
  BY DEF SummaryCame, ListingGood, ListingInv, ListingFits, Live
<1>2. ListingRequestsOK' /\ Rests(p) /\ Stay({p}, {})
  BY ReturnRests DEF ListingGood, ListingRequestsOK, SummaryCame
<1>3. ListingTypeOK' /\ SameWindow
  BY <1>1 DEF ListingGood, ListingTypeOK, Modal, SameWindow
<1> QED
  BY <1>1, <1>2, <1>3, RestsFits, WindowGood

LEMMA CardsCameGood ==
    ASSUME ListingGood, NEW p \in Process, NEW outcome, CardsCame(p, outcome) PROVE ListingGood'
<1>1. /\ details.open /\ UNCHANGED details
      /\ modal' = [modal EXCEPT !.cards = (outcome = "ok")]
  BY DEF CardsCame, ListingGood, ListingInv, ListingFits, Live
<1>2. ListingRequestsOK' /\ Rests(p) /\ Stay({p}, {})
  BY ReturnRests DEF ListingGood, ListingRequestsOK, CardsCame
<1>3. ListingTypeOK' /\ SameWindow
  BY <1>1 DEF ListingGood, ListingTypeOK, Modal, SameWindow
<1> QED
  BY <1>1, <1>2, <1>3, RestsFits, WindowGood

LEMMA ConfirmBookingGood ==
    ASSUME ListingGood, NEW p \in Process, HandleConfirmBooking(p) PROVE ListingGood'
<1>1. /\ details.open /\ modal.open /\ modal.payFailed = Nothing /\ UNCHANGED details
      /\ modal' = [modal EXCEPT !.changed = FALSE]
      /\ ~details.loading /\ details.listing # Nothing
  BY DEF HandleConfirmBooking, ModalShown, ListingShown
<1>2. details.listing = details.route /\ <<details.listing, modal.dates>> \in Booking
  BY <1>1 DEF ListingGood, ListingTypeOK, ListingInv, Details, Booking
<1>3. ListingRequestsOK' /\ Stay({p}, {}) /\ Asks(p, "createBooking", <<details.listing, modal.dates>>)
  BY <1>2, AskIs, ListingKinds DEF ListingGood, ListingRequestsOK, HandleConfirmBooking, Submissions
<1>4. /\ ListingTypeOK'
      /\ modal'.open = modal.open /\ modal'.dates = modal.dates
      /\ modal'.payFailed = modal.payFailed /\ ~modal'.changed
  BY <1>1 DEF ListingGood, ListingTypeOK, Modal
<1>5. \A q \in Process : Live(q) => request[q].kind # "createBooking"
  BY DEF HandleConfirmBooking, bookingSubmitting, Waiting, Submissions
<1>6. ListingInv'
  BY <1>1, <1>2, <1>3, <1>4, <1>5 DEF ListingGood, ListingInv, ListingFits, ListingInit, Asks, Stay, Alike, ListingLoads, Submissions, Live
<1> QED
  BY <1>3, <1>4, <1>6 DEF ListingGood

LEMMA RetryHoldGood ==
    ASSUME ListingGood, NEW p \in Process, HandleRetryHold(p) PROVE ListingGood'
<1>1. details.open /\ modal.payFailed \in Booking /\ UNCHANGED <<details, modal>>
  BY DEF HandleRetryHold, ModalShown, ListingShown, listingVars, ListingGood, ListingTypeOK, Modal
<1>2. ListingRequestsOK' /\ Stay({p}, {}) /\ Asks(p, "retryBookingPayment", modal.payFailed)
  BY <1>1, AskIs, ListingKinds DEF ListingGood, ListingRequestsOK, HandleRetryHold, Submissions
<1>3. ListingTypeOK' /\ SameWindow
  BY <1>1 DEF ListingGood, ListingTypeOK, SameWindow
<1>4. ListingFits(request'[p])
  BY <1>1, <1>2 DEF Asks, ListingFits, ListingLoads, Submissions
<1> QED
  BY <1>1, <1>2, <1>3, <1>4, WindowGood

LEMMA BookingAnsweredGood ==
    ASSUME ListingGood, NEW p \in Process, NEW outcome, BookingAnswered(p, outcome)
    PROVE ListingGood'
<1>1. CASE outcome = "ok"
  <2>1. CloseListing /\ AbandonAfter(p, Submissions)
    BY <1>1 DEF BookingAnswered
  <2>2. ListingRequestsOK' /\ Left({p}) /\ Rests(p)
    BY <2>1, AbandonAfterLeaves DEF ListingGood, ListingRequestsOK
  <2>3. \A ps \in SUBSET Process : Left(ps) /\ (\A q \in ps : Rests(q)) => ListingGood'
    BY <2>1, <2>2, CloseListingGood
  <2> QED
    BY <2>2, <2>3
<1>2. CASE outcome # "ok"
  <2> DEFINE failed == Live(p) /\ request[p].kind = "createBooking" /\ outcome = "refused"
  <2>1. /\ Return(p) /\ UNCHANGED details
        /\ modal' = IF failed THEN [modal EXCEPT !.payFailed = request[p].about] ELSE modal
        /\ request[p].about \in Booking
    BY <1>2 DEF BookingAnswered, ListingGood, ListingInv, ListingFits, Asked, At, Submissions
  <2>2. ListingRequestsOK' /\ Rests(p) /\ Stay({p}, {})
    BY <2>1, ReturnRests DEF ListingGood, ListingRequestsOK
  <2>3. /\ ListingTypeOK'
        /\ modal'.open = modal.open /\ modal'.dates = modal.dates /\ modal'.changed = modal.changed
        /\ modal'.payFailed = IF failed THEN request[p].about ELSE modal.payFailed
    BY <2>1 DEF ListingGood, ListingTypeOK, Modal
  <2>4. failed => details.open /\ (~modal.changed => modal.open /\ request[p].about = <<details.route, modal.dates>>)
    BY DEF ListingGood, ListingInv, ListingFits, Live
  <2>5. ~failed => modal' = modal
    BY <2>1
  <2>6. ListingInv'
    BY <2>1, <2>2, <2>3, <2>4, <2>5 DEF ListingGood, ListingInv, ListingFits, ListingInit, Rests, Stay, Alike, ListingLoads, Submissions, Live
  <2> QED
    BY <2>2, <2>3, <2>6 DEF ListingGood
<1> QED
  BY <1>1, <1>2

LEMMA ListingIgnoresGood ==
    ASSUME ListingGood, NEW p \in Process, ListingIgnores(p), UNCHANGED listingVars
    PROVE ListingGood'
<1>1. ListingRequestsOK' /\ Rests(p) /\ Stay({p}, {}) /\ UNCHANGED <<details, modal>>
  BY ReturnRests DEF ListingGood, ListingRequestsOK, ListingIgnores, Ignored, listingVars
<1>2. ListingInv'
  BY <1>1 DEF ListingGood, ListingInv, ListingFits, ListingInit, Rests, Stay, Alike, Live
<1> QED
  BY <1>1, <1>2 DEF ListingGood, ListingTypeOK

ListingAction ==
    \/ \E p \in Process : \/ ListingAsks(p)
                          \/ ListingIgnores(p) /\ UNCHANGED listingVars
                          \/ \E outcome \in Outcome : ListingAnswered(p, outcome)
                          \/ \E q \in Process : \/ ListingNewToken(p, q)
                                                \/ \E d \in Dates : OpenBookingStep1(p, q, d)
    \/ ListingTouched

LEMMA ListingNext ==
    ASSUME ListingGood, ListingAction PROVE ListingGood'
<1>1. ASSUME NEW p \in Process, ListingAsks(p) PROVE ListingGood'
  BY <1>1, OpenListingGood, ShowOtherGood, FetchSummaryGood, ConfirmBookingGood, RetryHoldGood DEF ListingAsks
<1>2. ASSUME NEW p \in Process, NEW outcome \in Outcome, ListingAnswered(p, outcome) PROVE ListingGood'
  BY <1>2, ListingLoadedGood, OwnedListingLoadedGood, SummaryCameGood, CardsCameGood, BookingAnsweredGood
     DEF ListingAnswered
<1>3. ASSUME ListingTouched PROVE ListingGood'
  BY <1>3, LeaveListingGood, CloseModalGood, EditDatesGood DEF ListingTouched
<1> QED
  BY <1>1, <1>2, <1>3, ListingIgnoresGood, ListingNewTokenGood, OpenBookingGood DEF ListingAction

LEMMA ListingShowsIt == ListingGood => ListingIsCurrent /\ RetryIsWhatIsShown
BY DEF ListingGood, ListingInv, ListingIsCurrent, RetryIsWhatIsShown, ListingShown, ModalShown

-----------------------------------------------------------------------------
(* The calendar of a listing.                                              *)

CalendarGood == CalendarTypeOK /\ CalendarRequestsOK /\ CalendarInv

LEMMA CalendarKinds == MetaLoads \cup Actions \cup {"getCalendar"} \subseteq Kind
BY DEF MetaLoads, Actions, Kind

\* Nothing but the months that are shown.
SameRange == /\ calendar'.open = calendar.open
             /\ calendar'.start = calendar.start /\ calendar'.end = calendar.end
             /\ calendar'.warning = calendar.warning /\ calendar'.changed = calendar.changed

\* A request of the page that does not act.
Loads(f) == /\ f.at # "answer" /\ (f.live => f.at = "asked")
            /\ f.at = "asked" => f.kind \notin Actions /\ (f.kind = "getCalendar" => f.live /\ f.about \in Month)

LEMMA RangeKept ==
    ASSUME CalendarGood, CalendarTypeOK', CalendarRequestsOK', SameRange, calendar.open,
           NEW p \in Process, Stay({p}, MetaLoads), Loads(request'[p])
    PROVE  CalendarGood'
<1>1. \A q \in Process : q # p =>
        /\ Alike(request'[q], request[q])
        /\ request'[q].live <=> Live(q) /\ request[q].kind \notin MetaLoads
  BY DEF Stay
<1>2. Selected' = Selected
  BY DEF Selected, SameRange
<1>3. \A q \in Process : Acts(q)' => q # p /\ Acts(q)
  BY <1>1 DEF Acts, At, Loads, Alike
<1>4. \A q \in Process : ~At(q, "answer")' /\ (Live(q)' => At(q, "asked")')
  BY <1>1 DEF CalendarGood, CalendarInv, At, Live, Loads, Alike
<1>5. \A q \in Process : Asked(q, "getCalendar")' => Live(q)' /\ request'[q].about \in Month
  BY <1>1 DEF CalendarGood, CalendarInv, At, Asked, Live, Loads, Alike, MetaLoads
<1>6. \A q \in Process : Acts(q)' =>
          /\ Live(q)' /\ request'[q].about \in DayRange
          /\ ~calendar'.changed => calendar'.start # Nothing /\ request'[q].about = Selected'
  BY <1>1, <1>2, <1>3 DEF CalendarGood, CalendarInv, SameRange, Acts, At, Live, Alike, MetaLoads, Actions
<1>7. CalendarInv'
  BY <1>2, <1>3, <1>4, <1>5, <1>6 DEF CalendarGood, CalendarInv, SameRange
<1> QED
  BY <1>7 DEF CalendarGood

\* For a request that is done or replaced by one that is live.
LEMMA RestLoads == \A f : f.at = "idle" /\ ~f.live => Loads(f)
BY DEF Loads

LEMMA StayStays == \A ps, kinds : Stay(ps, {}) /\ (\A q \in Process \ ps : Live(q) => request[q].kind \notin kinds) => Stay(ps, kinds)
BY DEF Stay

LEMMA ClosedIsIdle == CalendarGood /\ ~calendar.open => CalendarInit /\ \A q \in Process : At(q, "idle") /\ ~Live(q)
BY DEF CalendarGood, CalendarInv, At, Live

MonthGood(calmly) == calmly /\ MonthInv => MonthInv'
AllIdle == \A r \in Process : At(r, "idle")

LEMMA OpenCalendarGood ==
    ASSUME CalendarGood, NEW p \in Process, NEW q \in Process, NEW m \in Month, OpenCalendar(p, q, m)
    PROVE  CalendarGood' /\ MonthInv'
<1> DEFINE f == Request("getOwnedListingForEdit", Nothing, Nothing)
           g == Request("getCalendar", m, Nothing)
           S == Month \cup DayRange
<1>1. \A r \in Process : At(r, "idle") /\ ~Live(r)
  BY ClosedIsIdle DEF OpenCalendar
<1>2. f \in Frame(S, BOOLEAN) /\ g \in Frame(S, BOOLEAN)
  BY RequestFrame, CalendarKinds DEF MetaLoads
<1>3. /\ f.at = "asked" /\ f.kind = "getOwnedListingForEdit" /\ f.live
      /\ g.at = "asked" /\ g.kind = "getCalendar" /\ g.live /\ g.about = m
  BY RequestFields
<1>4. request' = [request EXCEPT ![p] = f, ![q] = g] /\ p # q
  BY DEF OpenCalendar
<1> HIDE DEF f, g
<1>5. /\ CalendarRequestsOK' /\ request'[p] = f /\ request'[q] = g
      /\ \A r \in Process \ {p, q} : request'[r] = request[r]
  BY <1>2, <1>4 DEF CalendarGood, CalendarRequestsOK, RequestTypeOK
<1>6. calendar' = [CalendarClosed EXCEPT !.open = TRUE, !.month = m, !.loading = TRUE]
  BY DEF OpenCalendar, Set
<1>7. /\ CalendarTypeOK'
      /\ calendar'.open /\ calendar'.month = m /\ calendar'.warning = Nothing
  BY <1>6 DEF CalendarTypeOK, Calendar, CalendarClosed
<1>8. \A r \in Process : r \notin {p, q} => request'[r].at = "idle" /\ ~request'[r].live
  BY <1>1, <1>5 DEF At, Live
<1>9. CalendarInv'
  BY <1>3, <1>5, <1>7, <1>8 DEF CalendarInv, At, Asked, Live, Acts, Actions
<1>10. MonthInv'
  BY <1>3, <1>5, <1>7, <1>8 DEF MonthInv, At, Asked
<1> QED
  BY <1>5, <1>7, <1>9, <1>10 DEF CalendarGood

LEMMA NewTokenCalendarGood ==
    ASSUME CalendarGood, NEW p \in Process, CalendarNewToken(p)
    PROVE  CalendarGood' /\ MonthGood(TRUE)
<1>1. CalendarRequestsOK' /\ Asks(p, "getOwnedListingForEdit", Nothing) /\ Stay({p}, MetaLoads)
  BY AskAnewIs, CalendarKinds DEF CalendarGood, CalendarRequestsOK, CalendarNewToken, MetaLoads
<1>2. calendar.open /\ UNCHANGED calendar /\ At(p, "idle")
  BY DEF CalendarNewToken, AskAnew
<1>3. CalendarTypeOK' /\ SameRange
  BY <1>2 DEF CalendarGood, CalendarTypeOK, SameRange
<1>4. Loads(request'[p])
  BY <1>1 DEF Asks, Loads, Actions
<1>5. \A q \in Process : Asked(q, "getCalendar")' <=> Asked(q, "getCalendar")
  BY <1>1, <1>2 DEF Asked, At, Asks, Stay, Alike
<1>6. \A q \in Process : Asked(q, "getCalendar") => request'[q].about = request[q].about
  BY <1>1, <1>2 DEF Asked, At, Asks, Stay, Alike
<1> QED
  BY <1>1, <1>2, <1>3, <1>4, <1>5, <1>6, RangeKept DEF MonthGood, MonthInv

LEMMA MetaLoadedGood ==
    ASSUME CalendarGood, NEW p \in Process, NEW outcome, MetaLoaded(p, outcome)
    PROVE  CalendarGood' /\ MonthGood(TRUE)
<1>1. Live(p) /\ At(p, "asked") /\ request[p].kind \in MetaLoads
  BY DEF MetaLoaded, Asked, MetaLoads
<1>2. calendar.open
  BY <1>1, ClosedIsIdle
<1>3. CASE request[p].kind = "getOwnedListingForEdit" /\ outcome = "missing"
  <2>1. Begin(p, Request("getListingDetails", Nothing, Nothing)) /\ UNCHANGED calendar
    BY <1>3 DEF MetaLoaded
  <2>2. Request("getListingDetails", Nothing, Nothing) \in Frame(Month \cup DayRange, BOOLEAN)
    BY RequestFrame, CalendarKinds DEF MetaLoads
  <2>3. /\ CalendarRequestsOK' /\ Asks(p, "getListingDetails", Nothing)
        /\ \A r \in Process \ {p} : request'[r] = request[r]
    BY <2>1, <2>2, BeginIs, RequestFields DEF CalendarGood, CalendarRequestsOK, Asks
  <2>4. CalendarTypeOK' /\ calendar' = calendar
    BY <2>1 DEF CalendarGood, CalendarTypeOK
  <2>5. \A r \in Process : Acts(r)' => Acts(r) /\ request'[r] = request[r]
    BY <2>3 DEF Acts, At, Asks, Actions
  <2>6. \A r \in Process : Asked(r, "getCalendar")' <=> Asked(r, "getCalendar")
    BY <1>1, <2>3 DEF Asked, At, Asks, MetaLoads
  <2>7. \A r \in Process : Asked(r, "getCalendar") => request'[r] = request[r]
    BY <1>1, <2>3 DEF Asked, At, Asks, MetaLoads
  <2>8. CalendarInv'
    BY <1>2, <2>3, <2>4, <2>5, <2>6, <2>7 DEF CalendarGood, CalendarInv, At, Live, Asks, Selected
  <2>9. MonthInv => MonthInv'
    BY <2>4, <2>6, <2>7 DEF MonthInv
  <2> QED
    BY <2>3, <2>4, <2>8, <2>9 DEF CalendarGood, MonthGood
<1>4. CASE ~(request[p].kind = "getOwnedListingForEdit" /\ outcome = "missing")
  <2>1. PICK isOwner \in BOOLEAN : calendar' = [calendar EXCEPT !.isOwner = isOwner]
    BY <1>4 DEF MetaLoaded, Set
  <2>2. CalendarRequestsOK' /\ Rests(p) /\ Stay({p}, {})
    BY <1>4, ReturnRests DEF CalendarGood, CalendarRequestsOK, MetaLoaded
  <2>3. /\ CalendarTypeOK' /\ SameRange
        /\ calendar'.month = calendar.month /\ calendar'.slots = calendar.slots
    BY <2>1 DEF CalendarGood, CalendarTypeOK, Calendar, SameRange
  <2>5. \A r \in Process : Acts(r)' => Acts(r) /\ r # p
    BY <2>2 DEF Acts, At, Rests, Stay, Alike
  <2>6. \A r \in Process : Asked(r, "getCalendar")' <=> Asked(r, "getCalendar")
    BY <1>1, <2>2 DEF Asked, At, Rests, Stay, Alike, MetaLoads
  <2>7. \A r \in Process : r # p => Alike(request'[r], request[r]) /\ (Live(r)' <=> Live(r))
    BY <2>2 DEF Stay, Live
  <2>8. \A r \in Process : Asked(r, "getCalendar") => request'[r].about = request[r].about /\ (Live(r)' <=> Live(r))
    BY <1>1, <2>7 DEF Asked, MetaLoads, Alike
  <2>9. CalendarInv'
    BY <1>2, <2>2, <2>3, <2>5, <2>6, <2>7, <2>8 DEF CalendarGood, CalendarInv, At, Rests, Alike, Live, SameRange, Selected
  <2>10. MonthInv => MonthInv'
    BY <2>3, <2>6, <2>8 DEF MonthInv
  <2> QED
    BY <2>2, <2>3, <2>9, <2>10 DEF CalendarGood, MonthGood
<1> QED
  BY <1>3, <1>4

LEMMA IgnoredGood ==
    ASSUME CalendarGood, NEW p \in Process, CalendarIgnores(p), UNCHANGED calendar
    PROVE  CalendarGood' /\ MonthGood(TRUE)
<1>1. ~At(p, "idle") /\ request[p].kind \in MetaLoads /\ Return(p)
  BY DEF CalendarIgnores, Ignored
<1>2. CalendarRequestsOK' /\ Rests(p) /\ Stay({p}, {})
  BY <1>1, ReturnRests DEF CalendarGood, CalendarRequestsOK
<1>3. calendar.open
  BY <1>1, ClosedIsIdle
<1>5. \A r \in Process : Acts(r)' => Acts(r) /\ r # p
  BY <1>2 DEF Acts, At, Rests, Stay, Alike
<1>6. \A r \in Process : Asked(r, "getCalendar")' <=> Asked(r, "getCalendar")
  BY <1>1, <1>2 DEF Asked, At, Rests, Stay, Alike, MetaLoads
<1>7. \A r \in Process : r # p => Alike(request'[r], request[r]) /\ (Live(r)' <=> Live(r))
  BY <1>2 DEF Stay, Live
<1>8. \A r \in Process : Asked(r, "getCalendar") => request'[r].about = request[r].about /\ (Live(r)' <=> Live(r))
  BY <1>1, <1>7 DEF Asked, MetaLoads, Alike
<1>9. CalendarInv'
  BY <1>2, <1>3, <1>5, <1>6, <1>7, <1>8 DEF CalendarGood, CalendarInv, At, Rests, Alike, Live, Selected
<1>10. MonthInv => MonthInv'
  BY <1>6, <1>8 DEF MonthInv
<1> QED
  BY <1>2, <1>9, <1>10 DEF CalendarGood, CalendarTypeOK, MonthGood

LEMMA ShowMonthGood ==
    ASSUME CalendarGood, NEW p \in Process, NEW m \in Month, ShowMonth(p, m)
    PROVE  CalendarGood' /\ MonthGood(AllIdle)
<1>1. CalendarRequestsOK' /\ Asks(p, "getCalendar", m) /\ Stay({p}, {}) /\ At(p, "idle")
  BY AskIs, CalendarKinds DEF CalendarGood, CalendarRequestsOK, ShowMonth, Ask
<1>2. calendar.open /\ calendar' = [calendar EXCEPT !.month = m, !.loading = TRUE]
  BY DEF ShowMonth, Set
<1>3. CalendarTypeOK' /\ SameRange /\ calendar'.month = m
  BY <1>2 DEF CalendarGood, CalendarTypeOK, Calendar, SameRange
<1>5. \A r \in Process : Acts(r)' => Acts(r) /\ r # p
  BY <1>1 DEF Acts, At, Asks, Stay, Alike, Actions
<1>7. \A r \in Process : r # p => Alike(request'[r], request[r]) /\ (Live(r)' <=> Live(r))
  BY <1>1 DEF Stay, Live
<1>9. CalendarInv'
  BY <1>1, <1>2, <1>3, <1>5, <1>7 DEF CalendarGood, CalendarInv, At, Asked, Asks, Alike, Live, SameRange, Selected
<1>10. AllIdle => MonthInv'
  BY <1>1, <1>3, <1>7 DEF MonthInv, AllIdle, Asked, At, Asks, Alike
<1> QED
  BY <1>1, <1>3, <1>9, <1>10 DEF CalendarGood, MonthGood

LEMMA CalendarCameGood ==
    ASSUME CalendarGood, NEW p \in Process, NEW outcome, CalendarCame(p, outcome)
    PROVE  CalendarGood' /\ MonthGood(outcome = "ok")
<1>1. CalendarRequestsOK' /\ Rests(p) /\ Stay({p}, {}) /\ Asked(p, "getCalendar")
  BY ReturnRests DEF CalendarGood, CalendarRequestsOK, CalendarCame
<1>2. /\ request[p].about \in Month
      /\ calendar' = [calendar EXCEPT !.slots = IF outcome = "ok" THEN request[p].about ELSE calendar.slots,
                                      !.loading = FALSE]
      /\ calendar.open
  BY <1>1, ClosedIsIdle DEF CalendarCame, Set, CalendarGood, CalendarInv, Asked, At
<1>3. /\ CalendarTypeOK' /\ SameRange /\ calendar'.month = calendar.month
      /\ outcome = "ok" => calendar'.slots = request[p].about
  BY <1>2 DEF CalendarGood, CalendarTypeOK, Calendar, SameRange
<1>5. \A r \in Process : Acts(r)' => Acts(r) /\ r # p
  BY <1>1 DEF Acts, At, Rests, Stay, Alike
<1>7. \A r \in Process : r # p => Alike(request'[r], request[r]) /\ (Live(r)' <=> Live(r))
  BY <1>1 DEF Stay, Live
<1>9. CalendarInv'
  BY <1>1, <1>2, <1>3, <1>5, <1>7 DEF CalendarGood, CalendarInv, At, Asked, Rests, Alike, Live, SameRange, Selected
<1>10. outcome = "ok" /\ MonthInv => MonthInv'
  BY <1>1, <1>3, <1>7 DEF MonthInv, Asked, At, Rests, Alike
<1> QED
  BY <1>1, <1>3, <1>9, <1>10 DEF CalendarGood, MonthGood

\* No months are on their way that were not before.
SameMonths == /\ calendar'.month = calendar.month /\ calendar'.slots = calendar.slots
              /\ calendar'.open = calendar.open

LEMMA MonthsKept ==
    ASSUME SameMonths, NEW p \in Process, Stay({p}, {}),
           ~Asked(p, "getCalendar"), ~Asked(p, "getCalendar")'
    PROVE  MonthGood(TRUE)
<1>1. \A r \in Process : Asked(r, "getCalendar")' <=> Asked(r, "getCalendar")
  BY DEF Asked, At, Stay, Alike
<1>2. \A r \in Process : Asked(r, "getCalendar") => request'[r].about = request[r].about
  BY DEF Asked, At, Stay, Alike
<1> QED
  BY <1>1, <1>2 DEF MonthGood, MonthInv, SameMonths

LEMMA MonthsKeptStill ==
    ASSUME SameMonths, UNCHANGED request
    PROVE  MonthGood(TRUE)
BY DEF MonthGood, MonthInv, SameMonths, Asked, At

LEMMA ClickIs ==
    ASSUME CalendarTypeOK, NEW d \in Day
    PROVE  /\ AfterClick(d) \in Calendar /\ AfterClick(d).changed = calendar.changed
           /\ AfterClick(d).open = calendar.open
           /\ AfterClick(d).month = calendar.month /\ AfterClick(d).slots = calendar.slots
<1>1. calendar \in Calendar
  BY DEF CalendarTypeOK
<1>2. CASE calendar.start = Nothing \/ calendar.end # Nothing
  BY <1>1, <1>2 DEF AfterClick, Calendar
<1>3. CASE ~(calendar.start = Nothing \/ calendar.end # Nothing)
  <2>1. AfterClick(d) \in {[calendar EXCEPT !.start = d, !.end = calendar.start],
                           [calendar EXCEPT !.end = d]}
    BY <1>3 DEF AfterClick
  <2> QED
    BY <1>1, <2>1 DEF Calendar
<1> QED
  BY <1>2, <1>3

LEMMA DayClickGood ==
    ASSUME CalendarGood, NEW d \in Day, HandleDayClick(d)
    PROVE  CalendarGood' /\ MonthGood(TRUE)
<1> DEFINE clicked == AfterClick(d)
<1>1. /\ calendar.open /\ UNCHANGED request
      /\ calendar' = [clicked EXCEPT !.warning = Nothing, !.changed = clicked.changed \/ actionPending]
  BY DEF HandleDayClick, Set
<1>2. /\ clicked \in Calendar /\ clicked.changed = calendar.changed /\ clicked.open = calendar.open
      /\ clicked.month = calendar.month /\ clicked.slots = calendar.slots
  BY ClickIs DEF CalendarGood
<1> HIDE DEF clicked
<1>3. /\ calendar' \in Calendar /\ SameMonths /\ calendar'.warning = Nothing
      /\ calendar'.changed <=> calendar.changed \/ actionPending
  BY <1>1, <1>2 DEF Calendar, SameMonths, actionPending, Waiting
<1>4. \A q \in Process : Acts(q) => calendar'.changed
  BY <1>3 DEF CalendarGood, CalendarInv, actionPending, Waiting, Acts, Live
<1>5. CalendarInv'
  BY <1>1, <1>3, <1>4 DEF CalendarGood, CalendarInv, Acts, At, Live, Asked, SameMonths
<1> QED
  BY <1>1, <1>3, <1>5, MonthsKeptStill DEF CalendarGood, CalendarTypeOK, CalendarRequestsOK, RequestTypeOK

LEMMA SelectedRange ==
    ASSUME CalendarTypeOK, calendar.start # Nothing PROVE Selected \in DayRange
BY DEF CalendarTypeOK, Calendar, Selected, DayRange

\* The panel of the selected range asks for something, when nothing is pending.
LEMMA PanelGood ==
    ASSUME CalendarGood, NEW p \in Process, NEW kind \in Actions, NEW data \in BOOLEAN \cup {Nothing},
           PanelShown, ~actionPending, Ask(p, kind, Selected, data),
           NEW changed \in BOOLEAN, calendar' = [calendar EXCEPT !.changed = changed],
           calendar.warning # Nothing /\ ~changed => ~calendar.changed
    PROVE  CalendarGood' /\ MonthGood(TRUE)
<1>1. calendar.open /\ calendar.start # Nothing /\ Selected \in DayRange
  BY SelectedRange DEF PanelShown, CalendarGood
<1>2. /\ CalendarRequestsOK' /\ Asks(p, kind, Selected) /\ Stay({p}, {}) /\ At(p, "idle")
  BY <1>1, AskIs, CalendarKinds DEF CalendarGood, CalendarRequestsOK, Ask
<1>3. /\ CalendarTypeOK' /\ SameMonths
      /\ calendar'.start = calendar.start /\ calendar'.end = calendar.end
      /\ calendar'.warning = calendar.warning /\ calendar'.changed = changed
  BY DEF CalendarGood, CalendarTypeOK, Calendar, SameMonths
<1>4. \A q \in Process : ~Acts(q)
  BY DEF CalendarGood, CalendarInv, actionPending, Waiting, Acts, Live
<1>5. \A r \in Process : r # p => Alike(request'[r], request[r]) /\ (Live(r)' <=> Live(r))
  BY <1>2 DEF Stay, Live
<1>6. Selected' = Selected
  BY <1>3 DEF Selected
<1>7. kind # "getCalendar"
  BY DEF Actions
<1>8. \A q \in Process : Acts(q)' => q = p
  BY <1>4, <1>5 DEF Acts, At, Alike
<1>9. CalendarInv'
  BY <1>1, <1>2, <1>3, <1>5, <1>6, <1>7, <1>8 DEF CalendarGood, CalendarInv, At, Asked, Asks, Alike, Live, SameMonths
<1>10. ~Asked(p, "getCalendar") /\ ~Asked(p, "getCalendar")'
  BY <1>2, <1>7 DEF Asked, At, Asks
<1> QED
  BY <1>2, <1>3, <1>9, <1>10, MonthsKept DEF CalendarGood

LEMMA BlockGood ==
    ASSUME CalendarGood, NEW p \in Process, HandleBlock(p) \/ HandleUnblock(p)
    PROVE  CalendarGood' /\ MonthGood(TRUE)
<1>1. CASE HandleBlock(p)
  <2>1. /\ PanelShown /\ ~actionPending /\ calendar.warning = Nothing
        /\ calendar' = [calendar EXCEPT !.changed = FALSE]
        /\ Ask(p, "checkAvailability", Selected, Nothing)
    BY <1>1 DEF HandleBlock, Set
  <2> QED
    BY <2>1, PanelGood DEF Actions
<1>2. CASE HandleUnblock(p)
  <2> DEFINE forced == calendar.warning # Nothing
             changed == calendar.changed /\ calendar.warning # Nothing
  <2>1. /\ PanelShown /\ ~actionPending
        /\ calendar' = [calendar EXCEPT !.changed = changed]
        /\ Ask(p, "unblockDates", Selected, forced)
        /\ forced \in BOOLEAN
    BY <1>2 DEF HandleUnblock, Set
  <2>2. changed \in BOOLEAN /\ (calendar.warning # Nothing /\ ~changed => ~calendar.changed)
    OBVIOUS
  <2> HIDE DEF forced, changed
  <2> QED
    BY <2>1, <2>2, PanelGood DEF Actions
<1> QED
  BY <1>1, <1>2

\* The selection is cleared and nothing acts.
LEMMA ClearedGood ==
    ASSUME CalendarGood, CalendarRequestsOK', calendar.open, calendar' = Cleared,
           NEW ps \in SUBSET Process, Stay(ps, {}), \A q \in ps : Rests(q),
           \A q \in Process \ ps : ~Acts(q)
    PROVE  CalendarGood'
<1>1. /\ CalendarTypeOK' /\ calendar'.open
      /\ calendar'.warning = Nothing
  BY DEF CalendarGood, CalendarTypeOK, Calendar, Cleared
<1>2. \A q \in Process : ~Acts(q)'
  BY DEF Stay, Rests, Acts, At, Alike
<1>3. \A q \in Process : q \notin ps => Alike(request'[q], request[q]) /\ (Live(q)' <=> Live(q))
  BY DEF Stay, Live
<1>4. CalendarInv'
  BY <1>1, <1>2, <1>3 DEF CalendarGood, CalendarInv, At, Asked, Live, Rests, Alike
<1> QED
  BY <1>1, <1>4 DEF CalendarGood

LEMMA ClearSelectionGood ==
    ASSUME CalendarGood, ClearSelection PROVE CalendarGood' /\ MonthGood(TRUE)
<1>1. calendar.open /\ calendar' = Cleared /\ UNCHANGED request
  BY DEF ClearSelection, PanelShown, Set
<1>2. \A q \in Process : ~Acts(q)
  BY DEF CalendarGood, CalendarInv, ClearSelection, actionPending, Waiting, Acts, Live
<1>3. CalendarRequestsOK' /\ Stay({}, {})
  BY <1>1 DEF CalendarGood, CalendarRequestsOK, RequestTypeOK, Stay, Alike, Live
<1>4. SameMonths
  BY <1>1 DEF CalendarGood, CalendarTypeOK, Calendar, Cleared, SameMonths
<1>5. CalendarGood'
  BY <1>1, <1>2, <1>3, ClearedGood
<1> QED
  BY <1>1, <1>4, <1>5, MonthsKeptStill

\* The one that acts.
LEMMA ActsAlone ==
    ASSUME CalendarGood, NEW p \in Process, Acts(p)
    PROVE  /\ calendar.open /\ Live(p) /\ request[p].about \in DayRange
           /\ ~calendar.changed => calendar.start # Nothing /\ request[p].about = Selected
           /\ \A q \in Process \ {p} : ~Acts(q)
<1>1. calendar.open
  BY ClosedIsIdle DEF Acts, At
<1> QED
  BY <1>1 DEF CalendarGood, CalendarInv

\* It is refused, and the page warns of the range it was about.
LEMMA WarnedGood ==
    ASSUME CalendarGood, NEW p \in Process, Acts(p), Return(p),
           calendar' = calendar \/ calendar' = [calendar EXCEPT !.warning = request[p].about]
    PROVE  CalendarGood' /\ MonthGood(TRUE)
<1>1. /\ calendar.open /\ request[p].about \in DayRange
      /\ ~calendar.changed => calendar.start # Nothing /\ request[p].about = Selected
      /\ \A q \in Process \ {p} : ~Acts(q)
  BY ActsAlone
<1>2. CalendarRequestsOK' /\ Rests(p) /\ Stay({p}, {})
  BY ReturnRests DEF CalendarGood, CalendarRequestsOK
<1>3. /\ CalendarTypeOK' /\ SameMonths /\ calendar'.changed = calendar.changed
      /\ calendar'.start = calendar.start /\ calendar'.end = calendar.end
      /\ calendar'.warning \in {calendar.warning, request[p].about}
  BY <1>1 DEF CalendarGood, CalendarTypeOK, Calendar, SameMonths
<1>4. Selected' = Selected
  BY <1>3 DEF Selected
<1>5. \A q \in Process : q # p => Alike(request'[q], request[q]) /\ (Live(q)' <=> Live(q))
  BY <1>2 DEF Stay, Live
<1>6. \A q \in Process : ~Acts(q)'
  BY <1>1, <1>2, <1>5 DEF Rests, Acts, At, Alike
<1>7. CalendarInv'
  BY <1>1, <1>2, <1>3, <1>4, <1>5, <1>6 DEF CalendarGood, CalendarInv, At, Asked, Live, Rests, Alike, SameMonths
<1>8. ~Asked(p, "getCalendar") /\ ~Asked(p, "getCalendar")'
  BY <1>2 DEF Asked, At, Acts, Actions, Rests
<1> QED
  BY <1>2, <1>3, <1>7, <1>8, MonthsKept DEF CalendarGood

LEMMA CheckedGood ==
    ASSUME CalendarGood, NEW p \in Process, NEW outcome, Checked(p, outcome)
    PROVE  CalendarGood' /\ MonthGood(TRUE)
<1>1. Acts(p)
  BY DEF Checked, Asked, Acts, Actions
<1>2. CASE outcome # "ok"
  <2>1. Return(p) /\ (calendar' = calendar \/ calendar' = [calendar EXCEPT !.warning = request[p].about])
    BY <1>2 DEF Checked, Set
  <2> QED
    BY <1>1, <2>1, WarnedGood
<1>3. CASE outcome = "ok"
  <2> DEFINE f == Request("blockDates", request[p].about, Nothing)
  <2>1. Begin(p, f) /\ calendar' = calendar
    BY <1>3 DEF Checked
  <2>2. /\ calendar.open /\ request[p].about \in DayRange
        /\ ~calendar.changed => calendar.start # Nothing /\ request[p].about = Selected
        /\ \A q \in Process \ {p} : ~Acts(q)
    BY <1>1, ActsAlone
  <2>3. f \in Frame(Month \cup DayRange, BOOLEAN)
    BY <2>2, RequestFrame, CalendarKinds DEF Actions
  <2>4. f.at = "asked" /\ f.kind = "blockDates" /\ f.live /\ f.about = request[p].about
    BY RequestFields
  <2> HIDE DEF f
  <2>5. /\ CalendarRequestsOK' /\ request'[p] = f
        /\ \A q \in Process \ {p} : request'[q] = request[q]
    BY <2>1, <2>3, BeginIs DEF CalendarGood, CalendarRequestsOK
  <2>6. Stay({p}, {})
    BY <2>5 DEF Stay, Alike, Live
  <2>7. \A q \in Process : Acts(q)' => q = p
    BY <2>2, <2>5 DEF Acts, At
  <2>8. CalendarInv'
    BY <2>1, <2>2, <2>4, <2>5, <2>7 DEF CalendarGood, CalendarInv, At, Asked, Live, Selected
  <2>9. ~Asked(p, "getCalendar") /\ ~Asked(p, "getCalendar")'
    BY <1>1, <2>4, <2>5 DEF Asked, At, Acts, Actions
  <2>10. SameMonths
    BY <2>1 DEF SameMonths
  <2> QED
    BY <2>1, <2>5, <2>6, <2>8, <2>9, <2>10, MonthsKept DEF CalendarGood, CalendarTypeOK
<1> QED
  BY <1>2, <1>3

LEMMA DatesChangedGood ==
    ASSUME CalendarGood, NEW p \in Process, NEW outcome, DatesChanged(p, outcome)
    PROVE  CalendarGood' /\ MonthGood(TRUE)
<1>1. Acts(p) /\ Return(p)
  BY DEF DatesChanged, Asked, Acts, Actions
<1>2. CASE outcome # "ok"
  <2>1. calendar' = calendar \/ calendar' = [calendar EXCEPT !.warning = request[p].about]
    BY <1>2 DEF DatesChanged, Set
  <2> QED
    BY <1>1, <2>1, WarnedGood
<1>3. CASE outcome = "ok"
  <2>1. calendar' = Cleared
    BY <1>3 DEF DatesChanged, Set
  <2>2. CalendarRequestsOK' /\ Rests(p) /\ Stay({p}, {})
    BY <1>1, ReturnRests DEF CalendarGood, CalendarRequestsOK
  <2>3. calendar.open /\ \A q \in Process \ {p} : ~Acts(q)
    BY <1>1, ActsAlone
  <2>4. \A q \in {p} : Rests(q)
    BY <2>2
  <2>5. CalendarGood'
    BY <2>1, <2>2, <2>3, <2>4, ClearedGood
  <2>6. SameMonths
    BY <2>1 DEF CalendarGood, CalendarTypeOK, Calendar, Cleared, SameMonths
  <2>7. ~Asked(p, "getCalendar") /\ ~Asked(p, "getCalendar")'
    BY <1>1, <2>2 DEF Asked, At, Acts, Actions, Rests
  <2> QED
    BY <2>2, <2>5, <2>6, <2>7, MonthsKept
<1> QED
  BY <1>2, <1>3

LEMMA LeaveCalendarGood ==
    ASSUME CalendarGood, LeaveCalendar PROVE CalendarGood' /\ MonthInv'
<1>1. calendar' = CalendarClosed
  BY DEF LeaveCalendar, Set
<1>2. CalendarRequestsOK'
  BY AbandonLeaves DEF LeaveCalendar, CalendarGood, CalendarRequestsOK
<1>3. request' = Abandoned({})
  BY DEF LeaveCalendar, Abandon
<1>4. \A q \in Process : request'[q] = Idle
  BY <1>3, AbandonedIs DEF CalendarGood, CalendarRequestsOK
<1>5. \A q \in Process : At(q, "idle")' /\ ~Live(q)'
  BY <1>4, IdleFrame DEF At, Live
<1>6. CalendarTypeOK' /\ CalendarInit' /\ calendar'.warning = Nothing
      /\ calendar'.slots = calendar'.month
  BY <1>1 DEF CalendarTypeOK, CalendarInit, CalendarClosed, Calendar
<1>7. CalendarInv'
  BY <1>5, <1>6 DEF CalendarInv, At, Asked, Acts
<1>8. MonthInv'
  BY <1>5, <1>6 DEF MonthInv, At, Asked
<1> QED
  BY <1>2, <1>6, <1>7 , <1>8 DEF CalendarGood

\* An action of the page, with what it has to do with the requests that are calm.
CalendarAction(calmly) ==
    \/ \E p, q \in Process : \E m \in Month : OpenCalendar(p, q, m)
    \/ \E p \in Process : CalendarAsks(p) /\ (calmly => AllIdle)
    \/ \E p \in Process : \E outcome \in Outcome : CalendarAnswered(p, outcome) /\ (calmly => outcome = "ok")
    \/ \E p \in Process : CalendarIgnores(p) /\ UNCHANGED calendar
    \/ CalendarTouched

LEMMA CalendarNext ==
    ASSUME CalendarGood, NEW calmly, CalendarAction(calmly)
    PROVE  CalendarGood' /\ (calmly /\ MonthInv => MonthInv')
<1>1. ASSUME NEW p \in Process, CalendarAsks(p), calmly => AllIdle
      PROVE  CalendarGood' /\ (calmly /\ MonthInv => MonthInv')
  BY <1>1, ShowMonthGood, NewTokenCalendarGood, BlockGood DEF CalendarAsks, MonthGood
<1>2. ASSUME NEW p \in Process, NEW outcome \in Outcome, CalendarAnswered(p, outcome),
             calmly => outcome = "ok"
      PROVE  CalendarGood' /\ (calmly /\ MonthInv => MonthInv')
  BY <1>2, MetaLoadedGood, CalendarCameGood, CheckedGood, DatesChangedGood DEF CalendarAnswered, MonthGood
<1>3. ASSUME CalendarTouched PROVE CalendarGood' /\ (calmly /\ MonthInv => MonthInv')
  BY <1>3, LeaveCalendarGood, ClearSelectionGood, DayClickGood DEF CalendarTouched, MonthGood
<1> QED
  BY <1>1, <1>2, <1>3, OpenCalendarGood, IgnoredGood DEF CalendarAction, MonthGood

LEMMA CalendarShowsIt ==
    CalendarGood => ForcedRangeWasWarned /\ (MonthInv => MonthIsCurrent)
BY DEF CalendarGood, CalendarInv, ForcedRangeWasWarned, MonthIsCurrent, MonthInv, PanelShown, Waiting, Live, Asked

-----------------------------------------------------------------------------
(* The page of a booking.                                                  *)

DealGood == DealTypeOK /\ DealRequestsOK /\ DealInv
Cards == {"listPaymentMethods"}

LEMMA DealKinds ==
    {"getBooking", "retryBookingPayment", "confirmBookingReturn", "cancelBooking"} \cup Cards \subseteq Kind
BY DEF Kind, Cards

\* What was asked for has come, or nothing more than the cards is asked for.
LEMMA DealDone ==
    ASSUME DealGood, DealTypeOK', DealRequestsOK', UNCHANGED status,
           deal.open, deal'.open, deal'.missed = deal.missed,
           NEW p \in Process, Stay({p}, Cards),
           Rests(p) \/ Asks(p, "listPaymentMethods", Nothing)
    PROVE  /\ DealGood'
           /\ (StatusInv /\ IF Deals(p) THEN ~deal.missed => deal'.booking = status
                                        ELSE deal'.booking = deal.booking)
              => StatusInv'
<1>1. \A q \in Process : q # p => /\ Alike(request'[q], request[q])
                                  /\ Live(q)' <=> Live(q) /\ request[q].kind # "listPaymentMethods"
  BY DEF Stay, Live, Cards
<1>2. /\ ~Deals(p)' /\ ~At(p, "answer")' /\ (Live(p)' => ~At(p, "idle")')
  BY DEF Rests, Asks, Deals, At, Live
<1>3. \A q \in Process : q # p => /\ Deals(q)' <=> Deals(q)
                                  /\ At(q, "answer")' <=> At(q, "answer")
                                  /\ At(q, "idle")' <=> At(q, "idle")
                                  /\ Ok(q)' <=> Ok(q)
                                  /\ request'[q].kind = request[q].kind
                                  /\ request'[q].about = request[q].about
                                  /\ Deals(q) => (Live(q)' <=> Live(q))
  BY <1>1 DEF Deals, At, Alike, Ok
<1>4. DealInv'
  BY <1>1, <1>2, <1>3 DEF DealGood, DealInv
<1>5. ASSUME StatusInv, IF Deals(p) THEN ~deal.missed => deal'.booking = status
                                    ELSE deal'.booking = deal.booking
      PROVE  StatusInv'
  BY <1>2, <1>3, <1>5 DEF StatusInv
<1> QED
  BY <1>4, <1>5 DEF DealGood

\* Something is asked for.
LEMMA DealAsked ==
    ASSUME DealGood, DealTypeOK', DealRequestsOK', UNCHANGED status, deal'.open,
           NEW p \in Process, NEW kind, kind # "listPaymentMethods", Asks(p, kind, Nothing), Stay({p}, {})
    PROVE  DealGood' /\ (AllIdle => StatusInv')
<1>1. \A q \in Process : q # p => Alike(request'[q], request[q]) /\ (Live(q)' <=> Live(q))
  BY DEF Stay, Live
<1>2. Deals(p)' /\ ~At(p, "answer")' /\ ~At(p, "idle")' /\ Live(p)'
  BY DEF Asks, Deals, At, Live
<1>3. DealInv'
  BY <1>1, <1>2 DEF DealGood, DealInv, At, Ok, Alike
<1>4. AllIdle => StatusInv'
  BY <1>1, <1>2 DEF AllIdle, StatusInv, Deals, At, Alike
<1> QED
  BY <1>3, <1>4 DEF DealGood

LEMMA OpenBookingPageGood ==
    ASSUME DealGood, NEW p \in Process, OpenBooking(p)
    PROVE  DealGood' /\ (AllIdle => StatusInv')
<1>1. deal' = [DealClosed EXCEPT !.open = TRUE, !.loading = TRUE] /\ UNCHANGED status
  BY DEF OpenBooking
<1>2. DealTypeOK' /\ deal'.open
  BY <1>1 DEF DealGood, DealTypeOK, Deal, DealClosed
<1>3. DealRequestsOK' /\ Asks(p, "getBooking", Nothing) /\ Stay({p}, {})
  BY AskIs, DealKinds DEF OpenBooking, DealGood, DealRequestsOK
<1> QED
  BY <1>1, <1>2, <1>3, DealAsked

\* The buttons of the booking.
LEMMA DealButton ==
    ASSUME DealGood, NEW p \in Process, HandleRetry(p) \/ HandleConfirmReturn(p) \/ HandleCancelBooking(p)
    PROVE  DealGood' /\ (AllIdle => StatusInv')
<1>1. deal.open /\ UNCHANGED <<deal, status>>
  BY DEF HandleRetry, HandleConfirmReturn, HandleCancelBooking, DealShown, dealVars
<1>2. PICK kind \in {"retryBookingPayment", "confirmBookingReturn", "cancelBooking"} :
          Ask(p, kind, Nothing, Nothing)
  BY DEF HandleRetry, HandleConfirmReturn, HandleCancelBooking
<1>3. DealRequestsOK' /\ Asks(p, kind, Nothing) /\ Stay({p}, {})
  BY <1>2, AskIs, DealKinds DEF DealGood, DealRequestsOK
<1>4. DealTypeOK'
  BY <1>1 DEF DealGood, DealTypeOK
<1> QED
  BY <1>1, <1>3, <1>4, DealAsked

LEMMA DealNewTokenGood ==
    ASSUME DealGood, NEW p \in Process, NEW q \in Process, DealNewToken(p, q)
    PROVE  DealGood' /\ (AllIdle => StatusInv')
<1> DEFINE f == Request("getBooking", Nothing, Nothing)
           g == IF deal.booking = "PAYMENT_FAILED"
                THEN Request("listPaymentMethods", Nothing, Nothing) ELSE Idle
           S == BookingStatus
           D == {"again"}
<1>1. f \in Frame(S, D) /\ g \in Frame(S, D)
  BY RequestFrame, IdleFrame, DealKinds DEF Cards
<1>2. /\ f.at = "asked" /\ f.kind = "getBooking" /\ f.live
      /\ g.at # "answer" /\ (g.live => g.at = "asked") /\ (g.at # "idle" => g.kind = "listPaymentMethods")
  BY RequestFields, IdleFrame
<1>3. request' = [Cancelled(Cards) EXCEPT ![p] = f, ![q] = g] /\ p # q
  BY DEF DealNewToken, Cards
<1> HIDE DEF f, g
<1>4. /\ DealRequestsOK' /\ request'[p] = f /\ request'[q] = g
      /\ \A r \in Process \ {p, q} : request'[r] = Cancelled(Cards)[r]
  BY <1>1, <1>3, CancelledIs DEF DealGood, DealRequestsOK, RequestTypeOK
<1>5. Stay({p, q}, Cards)
  BY <1>4, CancelledIs DEF DealGood, DealRequestsOK, Stay
<1>6. /\ deal.open /\ UNCHANGED status
      /\ deal' = [deal EXCEPT !.loading = TRUE, !.missed = FALSE]
  BY DEF DealNewToken, LoadBooking
<1>7. DealTypeOK' /\ deal'.open
  BY <1>6 DEF DealGood, DealTypeOK, Deal
<1>8. \A r \in Process : r \notin {p, q} => Alike(request'[r], request[r]) /\ (Live(r)' => Live(r))
  BY <1>5 DEF Stay, Live
<1>9. DealInv'
  BY <1>2, <1>4, <1>7, <1>8 DEF DealGood, DealInv, At, Ok, Alike, Live
<1>10. AllIdle => StatusInv'
  BY <1>2, <1>4, <1>8 DEF AllIdle, StatusInv, Deals, At, Alike, Live
<1> QED
  BY <1>4, <1>7, <1>9, <1>10 DEF DealGood

LEMMA SetBookingIs ==
    ASSUME DealRequestsOK, NEW p \in Process, NEW booking, SetBooking(p, booking)
    PROVE  /\ DealRequestsOK' /\ Stay({p}, Cards)
           /\ Rests(p) \/ Asks(p, "listPaymentMethods", Nothing)
<1> DEFINE f == IF booking = "PAYMENT_FAILED"
                THEN Request("listPaymentMethods", Nothing, Nothing) ELSE Idle
<1>1. f \in Frame(BookingStatus, {"again"})
  BY RequestFrame, IdleFrame, DealKinds DEF Cards
<1>2. (f.at = "idle" /\ ~f.live) \/ (f.at = "asked" /\ f.kind = "listPaymentMethods" /\ f.about = Nothing /\ f.live)
  BY RequestFields, IdleFrame
<1>3. request' = [Cancelled(Cards) EXCEPT ![p] = f]
  BY DEF SetBooking, Cards
<1> HIDE DEF f
<1>4. /\ DealRequestsOK' /\ request'[p] = f
      /\ \A r \in Process \ {p} : request'[r] = Cancelled(Cards)[r]
  BY <1>1, <1>3, CancelledIs DEF DealRequestsOK, RequestTypeOK
<1>5. Stay({p}, Cards)
  BY <1>4, CancelledIs DEF DealRequestsOK, Stay
<1>6. Rests(p) \/ Asks(p, "listPaymentMethods", Nothing)
  BY <1>2, <1>4 DEF Rests, Asks
<1> QED
  BY <1>4, <1>5, <1>6

\* The requests but p are as before.
LEMMA DealDoneStill ==
    ASSUME DealGood, DealTypeOK', NEW p \in Process, Return(p), UNCHANGED status,
           deal'.open = deal.open, deal'.missed = deal.missed, deal.open \/ deal' = deal
    PROVE  /\ DealGood'
           /\ (StatusInv /\ deal'.booking = deal.booking /\ (~Deals(p) \/ ~deal.open)) => StatusInv'
<1>0. DealRequestsOK' /\ Rests(p) /\ Stay({p}, {})
  BY ReturnRests DEF DealGood, DealRequestsOK
<1>1. \A q \in Process : q # p => Alike(request'[q], request[q]) /\ (Live(q)' <=> Live(q))
  BY <1>0 DEF Stay, Live
<1>2. ~Deals(p)' /\ ~At(p, "answer")' /\ ~Live(p)'
  BY <1>0 DEF Rests, Deals, At, Live
<1>3. \A q \in Process : q # p => /\ Deals(q)' <=> Deals(q)
                                  /\ At(q, "answer")' <=> At(q, "answer")
                                  /\ At(q, "idle")' <=> At(q, "idle")
                                  /\ Ok(q)' <=> Ok(q)
                                  /\ request'[q].kind = request[q].kind
                                  /\ request'[q].about = request[q].about
  BY <1>1 DEF Deals, At, Alike, Ok
<1>4. DealInv'
  BY <1>1, <1>2, <1>3 DEF DealGood, DealInv
<1>5. ASSUME StatusInv, deal'.booking = deal.booking, ~Deals(p) \/ ~deal.open PROVE StatusInv'
  BY <1>1, <1>2, <1>3, <1>5 DEF StatusInv
<1> QED
  BY <1>0, <1>4, <1>5 DEF DealGood

\* Whoever is calm has no answers but good ones.
LEMMA CalmIsOk == ASSUME StatusInv, NEW p \in Process, At(p, "answer") PROVE Ok(p)
BY DEF StatusInv

LEMMA BookingLoadedGood ==
    ASSUME DealGood, NEW p \in Process, BookingLoaded(p)
    PROVE  DealGood' /\ (StatusInv => StatusInv')
<1> DEFINE booking == IF Ok(p) THEN request[p].about ELSE Nothing
<1>1. /\ At(p, "answer") /\ request[p].kind = "getBooking" /\ Live(p) /\ UNCHANGED status
      /\ deal' = [deal EXCEPT !.loading = FALSE, !.booking = booking]
      /\ SetBooking(p, booking)
  BY DEF BookingLoaded, Answered
<1>2. booking \in BookingStatus \cup {Nothing} /\ deal.open /\ (Ok(p) => booking = request[p].about)
  BY <1>1 DEF DealGood, DealInv
<1>3. DealRequestsOK' /\ Stay({p}, Cards) /\ (Rests(p) \/ Asks(p, "listPaymentMethods", Nothing))
  BY <1>1, SetBookingIs DEF DealGood
<1> HIDE DEF booking
<1>4. DealTypeOK' /\ deal'.open /\ deal'.missed = deal.missed /\ deal'.booking = booking
  BY <1>1, <1>2 DEF DealGood, DealTypeOK, Deal
<1>5. StatusInv => Deals(p) /\ (~deal.missed => booking = status)
  BY <1>1, <1>2, CalmIsOk DEF StatusInv, Deals, At
<1> QED
  BY <1>1, <1>2, <1>3, <1>4, <1>5, DealDone

LEMMA DealCardsCameGood ==
    ASSUME DealGood, NEW p \in Process, DealCardsCame(p)
    PROVE  DealGood' /\ (StatusInv => StatusInv')
<1>1. /\ request[p].kind = "listPaymentMethods" /\ Live(p) /\ Return(p) /\ UNCHANGED status
      /\ deal' = [deal EXCEPT !.cards = Ok(p)]
  BY DEF DealCardsCame, Answered
<1>2. deal.open /\ ~Deals(p)
  BY <1>1 DEF DealGood, DealInv, Deals
<1>3. /\ DealTypeOK' /\ deal'.open = deal.open /\ deal'.missed = deal.missed
      /\ deal'.booking = deal.booking
  BY <1>1 DEF DealGood, DealTypeOK, Deal, Ok
<1> QED
  BY <1>1, <1>2, <1>3, DealDoneStill

LEMMA RetriedGood ==
    ASSUME DealGood, NEW p \in Process, Retried(p)
    PROVE  DealGood' /\ (StatusInv => StatusInv')
<1>1. /\ At(p, "answer") /\ request[p].kind = "retryBookingPayment" /\ Live(p) /\ UNCHANGED status
  BY DEF Retried, Answered
<1>2. deal.open
  BY <1>1 DEF DealGood, DealInv
<1>3. CASE ~Ok(p)
  <2>1. Return(p) /\ deal' = deal
    BY <1>3 DEF Retried
  <2> QED
    BY <1>1, <1>2, <1>3, <2>1, DealDoneStill, CalmIsOk DEF DealGood, DealTypeOK
<1>4. CASE Ok(p)
  <2> DEFINE f == Request("getBooking", Nothing, Reread)
  <2>1. Begin(p, f) /\ deal' = [deal EXCEPT !.loading = TRUE, !.missed = FALSE]
    BY <1>4 DEF Retried, LoadBooking
  <2>2. f \in Frame(BookingStatus, {"again"})
    BY RequestFrame, DealKinds DEF Reread
  <2>3. f.at = "asked" /\ f.kind = "getBooking" /\ f.live
    BY RequestFields
  <2> HIDE DEF f
  <2>4. /\ DealRequestsOK' /\ request'[p] = f
        /\ \A q \in Process \ {p} : request'[q] = request[q]
    BY <2>1, <2>2, BeginIs DEF DealGood, DealRequestsOK
  <2>5. DealTypeOK' /\ deal'.open
    BY <1>1, <1>2, <2>1 DEF DealGood, DealTypeOK, Deal
  <2>6. DealInv'
    BY <2>3, <2>4, <2>5 DEF DealGood, DealInv, At, Ok, Live
  <2>7. Deals(p) /\ (\A q \in Process : Deals(q)' <=> Deals(q))
    BY <1>1, <2>3, <2>4 DEF Deals, At
  <2>8. StatusInv => StatusInv'
    BY <1>1, <1>2, <2>3, <2>4, <2>7 DEF StatusInv, Deals, At, Ok, Live
  <2> QED
    BY <2>4, <2>5, <2>6, <2>8 DEF DealGood
<1> QED
  BY <1>3, <1>4

LEMMA ReturnConfirmedGood ==
    ASSUME DealGood, NEW p \in Process, ReturnConfirmed(p)
    PROVE  DealGood' /\ (StatusInv => StatusInv')
<1>1. /\ At(p, "answer") /\ request[p].kind = "confirmBookingReturn" /\ Live(p) /\ UNCHANGED status
  BY DEF ReturnConfirmed, Answered
<1>2. deal.open
  BY <1>1 DEF DealGood, DealInv
<1>3. CASE ~Ok(p)
  <2>1. Return(p) /\ deal' = deal
    BY <1>3 DEF ReturnConfirmed
  <2> QED
    BY <1>1, <1>2, <1>3, <2>1, DealDoneStill, CalmIsOk DEF DealGood, DealTypeOK
<1>4. CASE Ok(p)
  <2>1. SetBooking(p, request[p].about) /\ deal' = [deal EXCEPT !.booking = request[p].about]
    BY <1>4 DEF ReturnConfirmed
  <2>2. request[p].about \in BookingStatus
    BY <1>1, <1>4 DEF DealGood, DealInv
  <2>3. DealRequestsOK' /\ Stay({p}, Cards) /\ (Rests(p) \/ Asks(p, "listPaymentMethods", Nothing))
    BY <2>1, SetBookingIs DEF DealGood
  <2>4. DealTypeOK' /\ deal'.open /\ deal'.missed = deal.missed /\ deal'.booking = request[p].about
    BY <1>1, <1>2, <2>1, <2>2 DEF DealGood, DealTypeOK, Deal
  <2>5. StatusInv => Deals(p) /\ (~deal.missed => request[p].about = status)
    BY <1>1, <1>2 DEF StatusInv, Deals, At
  <2> QED
    BY <1>1, <1>2, <2>3, <2>4, <2>5, DealDone
<1> QED
  BY <1>3, <1>4

LEMMA CancelModalGood ==
    ASSUME DealGood, CancelModal PROVE DealGood' /\ (StatusInv => StatusInv')
<1>1. /\ deal.open /\ UNCHANGED <<status, request>>
      /\ deal' = [deal EXCEPT !.cancelModalOpen = ~deal.cancelModalOpen]
  BY DEF CancelModal, DealShown
<1>2. /\ DealTypeOK' /\ DealRequestsOK'
      /\ deal'.open = deal.open /\ deal'.missed = deal.missed /\ deal'.booking = deal.booking
  BY <1>1 DEF DealGood, DealTypeOK, DealRequestsOK, RequestTypeOK, Deal
<1> QED
  BY <1>1, <1>2 DEF DealGood, DealInv, StatusInv, Deals, At, Ok, Live

\* The page is closed.  What is in flight changes the booking and nothing else.
LEMMA DealLeft ==
    ASSUME DealGood, DealRequestsOK', deal' = DealClosed, UNCHANGED status,
           NEW ps \in SUBSET Process, Left(ps), \A q \in ps : Rests(q)
    PROVE  DealGood' /\ (StatusInv => StatusInv')
<1>1. DealTypeOK' /\ ~deal'.open
  BY DEF DealGood, DealTypeOK, Deal, DealClosed
<1>2. \A q \in Process : ~Live(q)' /\ (~At(q, "idle")' => Alike(request'[q], request[q]))
  BY DEF Left, Rests, At, Live
<1>3. \A q \in Process : Deals(q)' => Deals(q)
  BY <1>2 DEF Deals, At, Alike
<1>4. \A q \in Process : At(q, "answer")' => At(q, "answer") /\ (Ok(q)' <=> Ok(q)) /\ request'[q].about = request[q].about
  BY <1>2 DEF At, Ok, Alike
<1>5. DealInv'
  BY <1>1, <1>2, <1>4 DEF DealGood, DealInv
<1>6. StatusInv => StatusInv'
  BY <1>1, <1>3, <1>4 DEF StatusInv
<1> QED
  BY <1>1, <1>5, <1>6 DEF DealGood

LEMMA BookingCancelledGood ==
    ASSUME DealGood, NEW p \in Process, BookingCancelled(p)
    PROVE  DealGood' /\ (StatusInv => StatusInv')
<1>1. At(p, "answer") /\ UNCHANGED status
  BY DEF BookingCancelled, Answered
<1>2. CASE Ok(p)
  <2>1. deal' = DealClosed /\ AbandonAfter(p, Changes)
    BY <1>2 DEF BookingCancelled
  <2>2. DealRequestsOK' /\ Left({p}) /\ \A q \in {p} : Rests(q)
    BY <2>1, AbandonAfterLeaves DEF DealGood, DealRequestsOK
  <2> QED
    BY <1>1, <2>1, <2>2, DealLeft
<1>3. CASE ~Ok(p)
  <2>1. deal' = deal /\ Return(p)
    BY <1>3 DEF BookingCancelled
  <2> QED
    BY <1>1, <1>3, <2>1, DealDoneStill, CalmIsOk DEF DealGood, DealTypeOK
<1> QED
  BY <1>2, <1>3

LEMMA LeaveDealGood ==
    ASSUME DealGood, LeaveDeal PROVE DealGood' /\ (StatusInv => StatusInv')
<1>1. DealRequestsOK' /\ Left({})
  BY AbandonLeaves DEF DealGood, DealRequestsOK, LeaveDeal
<1> QED
  BY <1>1, DealLeft DEF LeaveDeal

\* An answer to a page that is not there.
LEMMA DealIgnoresGood ==
    ASSUME DealGood, NEW p \in Process, DealIgnores(p), UNCHANGED dealVars
    PROVE  DealGood' /\ (StatusInv => StatusInv')
<1>1. /\ ~At(p, "idle") /\ ~Live(p) /\ Return(p) /\ UNCHANGED <<deal, status>>
  BY DEF DealIgnores, Ignored, dealVars
<1>2. StatusInv => ~Deals(p) \/ ~deal.open
  BY <1>1 DEF StatusInv
<1> QED
  BY <1>1, <1>2, DealDoneStill DEF DealGood, DealTypeOK

LEMMA AcceptGood ==
    ASSUME DealGood, NEW p \in Process, At(p, "asked"), NEW next \in BookingStatus, Accept(p, next),
           UNCHANGED deal, Deals(p) \/ next = status
    PROVE  DealGood' /\ (StatusInv /\ request'[p].outcome = "ok" => StatusInv')
<1> DEFINE f == [request[p] EXCEPT !.at = "answer", !.about = next]
<1>1. status' = next /\ Begin(p, f)
  BY DEF Accept
<1>2. /\ f \in Frame(BookingStatus, {"again"})
      /\ f.at = "answer" /\ f.about = next /\ f.kind = request[p].kind /\ f.live = Live(p)
  BY DEF DealGood, DealRequestsOK, RequestTypeOK, Frame, Live
<1> HIDE DEF f
<1>3. /\ DealRequestsOK' /\ request'[p] = f
      /\ \A q \in Process \ {p} : request'[q] = request[q]
  BY <1>1, <1>2, BeginIs DEF DealGood, DealRequestsOK
<1>4. DealTypeOK'
  BY <1>1 DEF DealGood, DealTypeOK
<1>5. DealInv'
  BY <1>2, <1>3 DEF DealGood, DealInv, At, Ok, Live
<1>6. \A q \in Process : (Deals(q)' <=> Deals(q)) /\ (Live(q)' <=> Live(q))
  BY <1>2, <1>3 DEF Deals, At, Live
<1>7. \A q \in Process : q # p => /\ At(q, "answer")' <=> At(q, "answer")
                                  /\ Ok(q)' <=> Ok(q)
                                  /\ request'[q] = request[q]
  BY <1>3 DEF At, Ok
<1>8. ASSUME StatusInv, request'[p].outcome = "ok" PROVE StatusInv'
  <2>1. \A q \in Process : At(q, "answer")' => Ok(q)'
    BY <1>7, <1>8 DEF StatusInv, Ok
  <2>2. ASSUME deal.open, ~deal.missed, NEW q \in Process, At(q, "answer")',
               request'[q].kind \in {"getBooking", "confirmBookingReturn"}
        PROVE  request'[q].about = status'
    <3>1. CASE q = p
      BY <1>1, <1>2, <1>3, <3>1
    <3>2. CASE q # p
      <4>1. At(q, "answer") /\ request'[q] = request[q] /\ Deals(q)
        BY <1>7, <2>2, <3>2 DEF Deals, At
      <4>2. request[q].about = status
        BY <1>8, <2>2, <4>1 DEF StatusInv
      <4>3. ~Deals(p)
        BY <1>8, <3>2, <4>1 DEF StatusInv
      <4> QED
        BY <1>1, <4>1, <4>2, <4>3
    <3> QED
      BY <3>1, <3>2
  <2>3. ASSUME deal.open, ~deal.missed, \A q \in Process : ~Deals(q)' PROVE deal.booking = status'
    BY <1>1, <1>6, <1>8, <2>3 DEF StatusInv
  <2>4. deal' = deal
    OBVIOUS
  <2> QED
    BY <1>6, <1>8, <2>1, <2>2, <2>3, <2>4 DEF StatusInv
<1> QED
  BY <1>3, <1>4, <1>5, <1>8 DEF DealGood

LEMMA RefuseGood ==
    ASSUME DealGood, NEW p \in Process, At(p, "asked"), Refuse(p), UNCHANGED deal
    PROVE  DealGood' /\ request'[p].outcome # "ok"
<1> DEFINE f == [request[p] EXCEPT !.at = "answer", !.outcome = "error", !.data = request[p].data]
<1>1. UNCHANGED status /\ Begin(p, f)
  BY DEF Refuse, Respond
<1>2. /\ f \in Frame(BookingStatus, {"again"})
      /\ f.at = "answer" /\ f.live = Live(p) /\ f.outcome = "error"
  BY DEF DealGood, DealRequestsOK, RequestTypeOK, Frame, Outcome, Live
<1> HIDE DEF f
<1>3. /\ DealRequestsOK' /\ request'[p] = f
      /\ \A q \in Process \ {p} : request'[q] = request[q]
  BY <1>1, <1>2, BeginIs DEF DealGood, DealRequestsOK
<1>4. DealInv'
  BY <1>2, <1>3 DEF DealGood, DealInv, At, Ok, Live
<1> QED
  BY <1>1, <1>2, <1>3, <1>4 DEF DealGood, DealTypeOK

LEMMA DealRespondsGood ==
    ASSUME DealGood, NEW p \in Process, DealResponds(p)
    PROVE  DealGood' /\ (StatusInv /\ request'[p].outcome = "ok" => StatusInv')
<1>1. At(p, "asked") /\ UNCHANGED deal
  BY DEF DealResponds, Asked
<1>2. status \in BookingStatus /\ {"CONFIRMED", "UNSETTLED", "SETTLED", "CANCELLED"} \subseteq BookingStatus
  BY DEF DealGood, DealTypeOK, BookingStatus
<1>3. Refuse(p) \/ \E next \in BookingStatus : Accept(p, next) /\ (Deals(p) \/ next = status)
  <2>1. CASE request[p].kind \in {"getBooking", "listPaymentMethods"}
    BY <1>2, <2>1 DEF DealResponds, Asked
  <2>2. CASE request[p].kind \notin {"getBooking", "listPaymentMethods"}
    <3>1. Deals(p)
      BY <1>1, <2>2 DEF Deals, At
    <3> QED
      BY <1>2, <2>2, <3>1 DEF DealResponds, Asked
  <2> QED
    BY <2>1, <2>2
<1> QED
  BY <1>1, <1>3, AcceptGood, RefuseGood

LEMMA OthersChangeGood ==
    ASSUME DealGood, OthersChange PROVE DealGood' /\ (StatusInv => StatusInv')
<1>1. /\ status' \in BookingStatus /\ UNCHANGED request
      /\ deal' = [deal EXCEPT !.missed = deal.open]
  BY DEF OthersChange, BookingStatus
<1>2. /\ DealTypeOK' /\ DealRequestsOK'
      /\ deal'.open = deal.open /\ deal'.missed = deal.open
  BY <1>1 DEF DealGood, DealTypeOK, DealRequestsOK, RequestTypeOK, Deal
<1>3. ~deal.open => deal' = DealClosed
  <2>1. ASSUME ~deal.open PROVE deal' = DealClosed
    <3>1. deal = DealClosed /\ deal.open = FALSE
      BY <2>1 DEF DealGood, DealInv, DealTypeOK, Deal
    <3>2. deal' = [DealClosed EXCEPT !.missed = FALSE]
      BY <1>1, <3>1
    <3> QED
      BY <3>2 DEF DealClosed
  <2> QED
    BY <2>1
<1> QED
  BY <1>1, <1>2, <1>3 DEF DealGood, DealInv, StatusInv, Deals, At, Ok, Live

DealAction(calmly) ==
    \/ \E p, q \in Process : DealNewToken(p, q) /\ (calmly => AllIdle)
    \/ \E p \in Process : DealAsks(p) /\ (calmly => AllIdle)
    \/ \E p \in Process : DealResponds(p) /\ (calmly => request'[p].outcome = "ok")
    \/ \E p \in Process : DealGoesOn(p) \/ (DealIgnores(p) /\ UNCHANGED dealVars)
    \/ DealTouched \/ OthersChange

LEMMA DealNext ==
    ASSUME DealGood, NEW calmly, DealAction(calmly)
    PROVE  DealGood' /\ (calmly /\ StatusInv => StatusInv')
<1>1. ASSUME NEW p \in Process, DealAsks(p), calmly => AllIdle
      PROVE  DealGood' /\ (calmly => StatusInv')
  BY <1>1, OpenBookingPageGood, DealButton DEF DealAsks
<1>2. ASSUME NEW p \in Process, DealGoesOn(p) PROVE DealGood' /\ (StatusInv => StatusInv')
  BY <1>2, BookingLoadedGood, DealCardsCameGood, RetriedGood, ReturnConfirmedGood, BookingCancelledGood
     DEF DealGoesOn
<1>3. ASSUME DealTouched \/ OthersChange PROVE DealGood' /\ (StatusInv => StatusInv')
  BY <1>3, LeaveDealGood, CancelModalGood, OthersChangeGood DEF DealTouched
<1> QED
  BY <1>1, <1>2, <1>3, DealNewTokenGood, DealRespondsGood, DealIgnoresGood DEF DealAction

LEMMA DealShowsIt == DealGood /\ StatusInv => StatusIsCurrent
<1> SUFFICES ASSUME DealGood, StatusInv, DealShown, ~Waiting(Kind), ~deal.missed
             PROVE  deal.booking = status
  BY DEF StatusIsCurrent
<1>1. \A p \in Process : request[p].kind \in Kind
  BY DEF DealGood, DealRequestsOK, RequestTypeOK, Frame
<1>2. \A p \in Process : ~Live(p)
  BY <1>1 DEF Waiting
<1> QED
  BY <1>2 DEF StatusInv, DealShown

-----------------------------------------------------------------------------
(* The catalog.                                                            *)

CatalogGood == CatalogTypeOK /\ CatalogRequestsOK /\ CatalogInv

LEMMA CatalogKinds == {"searchCatalog", "autocompleteCatalog"} \subseteq Kind
BY DEF Kind

LEMMA QueryIs ==
    \A q \in Words \cup {Nothing}, c \in Category \cup {Nothing} :
        <<q, c>> \in Query /\ <<q, c>>[2] = c
BY DEF Query

\* A search or suggestions are asked for.
LEMMA CatalogAsked ==
    ASSUME CatalogGood, CatalogTypeOK', NEW p \in Process, NEW kind \in {"searchCatalog", "autocompleteCatalog"},
           NEW about \in Query, Ask(p, kind, about, Nothing),
           kind = "searchCatalog" => about[2] = catalog'.categoryId,
           kind # "searchCatalog" => /\ catalog'.categoryId = catalog.categoryId
                                     /\ catalog'.items = catalog.items /\ catalog'.open = catalog.open
    PROVE  CatalogGood' /\ (AllIdle /\ CategoryInv => CategoryInv')
<1>1. CatalogRequestsOK' /\ Asks(p, kind, about) /\ Stay({p}, {})
  BY AskIs, CatalogKinds DEF CatalogGood, CatalogRequestsOK
<1>2. \A q \in Process : q # p => Alike(request'[q], request[q]) /\ (Live(q)' <=> Live(q))
  BY <1>1 DEF Stay, Live
<1>3. CatalogInv'
  BY <1>1, <1>2 DEF CatalogGood, CatalogInv, At, Asks, Alike, Live
<1>4. AllIdle /\ CategoryInv => CategoryInv'
  BY <1>1, <1>2 DEF AllIdle, CategoryInv, At, Asked, Asks, Alike
<1> QED
  BY <1>1, <1>3, <1>4 DEF CatalogGood

LEMMA TypedIs ==
    ASSUME CatalogTypeOK, NEW w \in Words \cup {Nothing}
    PROVE  /\ Typed(w) \in Catalog
           /\ Typed(w).open = catalog.open /\ Typed(w).categoryId = catalog.categoryId
           /\ Typed(w).items = catalog.items
<1> DEFINE timer == IF w = catalog.q THEN catalog.timer ELSE w # Nothing
<1>1. timer \in BOOLEAN
  BY DEF CatalogTypeOK, Catalog
<1>2. Typed(w) = [catalog EXCEPT !.q = w, !.timer = timer]
  BY DEF Typed
<1> HIDE DEF timer
<1> QED
  BY <1>1, <1>2 DEF CatalogTypeOK, Catalog

LEMMA OpenHomeGood ==
    ASSUME CatalogGood, NEW p \in Process, OpenHome(p)
    PROVE  CatalogGood' /\ (AllIdle /\ CategoryInv => CategoryInv')
<1>1. /\ catalog' = [CatalogClosed EXCEPT !.open = TRUE]
      /\ Ask(p, "searchCatalog", <<Nothing, Nothing>>, Nothing)
  BY DEF OpenHome, LoadCatalog
<1>2. CatalogTypeOK' /\ catalog'.categoryId = Nothing
  BY <1>1 DEF CatalogTypeOK, Catalog, CatalogClosed
<1>3. <<Nothing, Nothing>> \in Query /\ <<Nothing, Nothing>>[2] = Nothing
  BY QueryIs
<1> QED
  BY <1>1, <1>2, <1>3, CatalogAsked

LEMMA TimerFiresGood ==
    ASSUME CatalogGood, NEW p \in Process, TimerFires(p)
    PROVE  CatalogGood' /\ (AllIdle /\ CategoryInv => CategoryInv')
<1>1. /\ catalog' = [catalog EXCEPT !.timer = FALSE]
      /\ Ask(p, "autocompleteCatalog", <<catalog.q, Nothing>>, Nothing)
  BY DEF TimerFires
<1>2. /\ CatalogTypeOK' /\ catalog'.categoryId = catalog.categoryId
      /\ catalog'.items = catalog.items /\ catalog'.open = catalog.open
  BY <1>1 DEF CatalogGood, CatalogTypeOK, Catalog
<1>3. <<catalog.q, Nothing>> \in Query
  BY QueryIs DEF CatalogGood, CatalogTypeOK, Catalog
<1> QED
  BY <1>1, <1>2, <1>3, CatalogAsked

\* The words and the category of the page, or the category that has been chosen.
LEMMA SearchGood ==
    ASSUME CatalogGood, NEW p \in Process,
           \/ OnSubmitSearch(p)
           \/ \E w \in Words : ApplyAutocomplete(p, w)
           \/ \E c \in Category : ToggleCategory(p, c)
    PROVE  CatalogGood' /\ (AllIdle /\ CategoryInv => CategoryInv')
<1>1. catalog.q \in Words \cup {Nothing} /\ catalog.categoryId \in Category \cup {Nothing}
  BY DEF CatalogGood, CatalogTypeOK, Catalog
<1>2. CASE OnSubmitSearch(p)
  <2>1. /\ catalog' = [catalog EXCEPT !.autocompleteOpen = FALSE]
        /\ Ask(p, "searchCatalog", <<catalog.q, catalog.categoryId>>, Nothing)
    BY <1>2 DEF OnSubmitSearch, LoadCatalog
  <2>2. CatalogTypeOK' /\ catalog'.categoryId = catalog.categoryId
    BY <2>1 DEF CatalogGood, CatalogTypeOK, Catalog
  <2> QED
    BY <1>1, <2>1, <2>2, QueryIs, CatalogAsked
<1>3. ASSUME NEW w \in Words, ApplyAutocomplete(p, w)
      PROVE  CatalogGood' /\ (AllIdle /\ CategoryInv => CategoryInv')
  <2> DEFINE typed == Typed(w)
  <2>1. /\ catalog' = [typed EXCEPT !.autocompleteOpen = FALSE]
        /\ Ask(p, "searchCatalog", <<catalog.q, catalog.categoryId>>, Nothing)
    BY <1>3 DEF ApplyAutocomplete, LoadCatalog
  <2>2. typed \in Catalog /\ typed.categoryId = catalog.categoryId
    BY TypedIs DEF CatalogGood
  <2> HIDE DEF typed
  <2>3. CatalogTypeOK' /\ catalog'.categoryId = catalog.categoryId
    BY <2>1, <2>2 DEF CatalogTypeOK, Catalog
  <2> QED
    BY <1>1, <2>1, <2>3, QueryIs, CatalogAsked
<1>4. ASSUME NEW c \in Category, ToggleCategory(p, c)
      PROVE  CatalogGood' /\ (AllIdle /\ CategoryInv => CategoryInv')
  <2>1. PICK toggled \in Category \cup {Nothing} : toggled = Toggled(c)
    BY DEF Toggled
  <2>2. /\ catalog' = [catalog EXCEPT !.categoryId = toggled]
        /\ Ask(p, "searchCatalog", <<catalog.q, toggled>>, Nothing)
    BY <1>4, <2>1 DEF ToggleCategory, LoadCatalog
  <2>3. CatalogTypeOK' /\ catalog'.categoryId = toggled
    BY <2>2 DEF CatalogGood, CatalogTypeOK, Catalog
  <2> QED
    BY <1>1, <2>2, <2>3, QueryIs, CatalogAsked
<1> QED
  BY <1>2, <1>3, <1>4

LEMMA CatalogCameGood ==
    ASSUME CatalogGood, NEW p \in Process, NEW outcome, CatalogCame(p, outcome)
    PROVE  CatalogGood' /\ (outcome = "ok" /\ CategoryInv => CategoryInv')
<1>1. CatalogRequestsOK' /\ Rests(p) /\ Stay({p}, {}) /\ Asked(p, "searchCatalog")
  BY ReturnRests DEF CatalogGood, CatalogRequestsOK, CatalogCame
<1>2. /\ request[p].about \in Query
      /\ catalog' = [catalog EXCEPT !.items = IF outcome = "ok" THEN request[p].about ELSE Nothing]
  BY <1>1 DEF CatalogCame, CatalogGood, CatalogInv, Asked
<1>3. /\ CatalogTypeOK' /\ catalog'.categoryId = catalog.categoryId /\ catalog'.open = catalog.open
      /\ outcome = "ok" => catalog'.items = request[p].about
  BY <1>2 DEF CatalogGood, CatalogTypeOK, Catalog
<1>4. \A q \in Process : q # p => Alike(request'[q], request[q]) /\ (Live(q)' <=> Live(q))
  BY <1>1 DEF Stay, Live
<1>5. CatalogInv'
  BY <1>1, <1>4 DEF CatalogGood, CatalogInv, At, Rests, Alike, Live
<1>6. outcome = "ok" /\ CategoryInv => CategoryInv'
  BY <1>1, <1>2, <1>3, <1>4, QueryAssumption DEF CategoryInv, At, Asked, Rests, Alike
<1> QED
  BY <1>1, <1>3, <1>5, <1>6 DEF CatalogGood

LEMMA SuggestionsCameGood ==
    ASSUME CatalogGood, NEW p \in Process, NEW outcome, SuggestionsCame(p, outcome)
    PROVE  CatalogGood' /\ (CategoryInv => CategoryInv')
<1>1. CatalogRequestsOK' /\ Rests(p) /\ Stay({p}, {}) /\ Asked(p, "autocompleteCatalog")
  BY ReturnRests DEF CatalogGood, CatalogRequestsOK, SuggestionsCame
<1>2. request[p].about[1] \in Words \cup {Nothing}
  BY <1>1 DEF CatalogGood, CatalogInv, Asked, Query
<1>3. PICK words \in Words \cup {Nothing} :
          catalog' = [catalog EXCEPT !.suggestions = words, !.autocompleteOpen = (outcome = "ok")]
  BY <1>2 DEF SuggestionsCame
<1>4. /\ CatalogTypeOK' /\ catalog'.categoryId = catalog.categoryId /\ catalog'.open = catalog.open
      /\ catalog'.items = catalog.items
  BY <1>3 DEF CatalogGood, CatalogTypeOK, Catalog
<1>5. \A q \in Process : q # p => Alike(request'[q], request[q]) /\ (Live(q)' <=> Live(q))
  BY <1>1 DEF Stay, Live
<1>6. CatalogInv'
  BY <1>1, <1>5 DEF CatalogGood, CatalogInv, At, Rests, Alike, Live
<1>7. CategoryInv => CategoryInv'
  BY <1>1, <1>4, <1>5 DEF CategoryInv, At, Asked, Rests, Alike
<1> QED
  BY <1>1, <1>4, <1>6, <1>7 DEF CatalogGood

LEMMA InputGood ==
    ASSUME CatalogGood, NEW w \in Words \cup {Nothing}, HandleSearchInputChange(w)
    PROVE  CatalogGood' /\ (CategoryInv => CategoryInv')
<1> DEFINE typed == Typed(w)
<1>1. /\ UNCHANGED request
      /\ catalog' \in {[typed EXCEPT !.suggestions = Nothing, !.autocompleteOpen = FALSE], typed}
  BY DEF HandleSearchInputChange
<1>2. /\ typed \in Catalog /\ typed.open = catalog.open
      /\ typed.categoryId = catalog.categoryId /\ typed.items = catalog.items
  BY TypedIs DEF CatalogGood
<1> HIDE DEF typed
<1>3. /\ CatalogTypeOK' /\ catalog'.open = catalog.open
      /\ catalog'.categoryId = catalog.categoryId /\ catalog'.items = catalog.items
  BY <1>1, <1>2 DEF CatalogTypeOK, Catalog
<1> QED
  BY <1>1, <1>3 DEF CatalogGood, CatalogRequestsOK, RequestTypeOK, CatalogInv, CategoryInv, At, Asked, Live

LEMMA LeaveHomeGood ==
    ASSUME CatalogGood, LeaveHome PROVE CatalogGood' /\ CategoryInv'
<1>1. catalog' = CatalogClosed /\ request' = Abandoned({})
  BY DEF LeaveHome, Abandon
<1>2. CatalogRequestsOK'
  BY AbandonLeaves DEF LeaveHome, CatalogGood, CatalogRequestsOK
<1>3. \A q \in Process : request'[q] = Idle
  BY <1>1, AbandonedIs DEF CatalogGood, CatalogRequestsOK
<1>4. \A q \in Process : At(q, "idle")'
  BY <1>3, IdleFrame DEF At
<1>5. CatalogTypeOK' /\ ~catalog'.open
  BY <1>1 DEF CatalogTypeOK, Catalog, CatalogClosed
<1> QED
  BY <1>2, <1>4, <1>5 DEF CatalogGood, CatalogInv, CategoryInv, At, Asked

CatalogAction(calmly) ==
    \/ \E p \in Process : CatalogAsks(p) /\ (calmly => AllIdle)
    \/ \E p \in Process : \E outcome \in Outcome : CatalogAnswered(p, outcome) /\ (calmly => outcome = "ok")
    \/ CatalogTouched

LEMMA CatalogNext ==
    ASSUME CatalogGood, NEW calmly, CatalogAction(calmly)
    PROVE  CatalogGood' /\ (calmly /\ CategoryInv => CategoryInv')
<1>1. ASSUME NEW p \in Process, CatalogAsks(p), calmly => AllIdle
      PROVE  CatalogGood' /\ (calmly /\ CategoryInv => CategoryInv')
  BY <1>1, OpenHomeGood, TimerFiresGood, SearchGood DEF CatalogAsks
<1>2. ASSUME NEW p \in Process, NEW outcome \in Outcome, CatalogAnswered(p, outcome),
             calmly => outcome = "ok"
      PROVE  CatalogGood' /\ (calmly /\ CategoryInv => CategoryInv')
  BY <1>2, CatalogCameGood, SuggestionsCameGood DEF CatalogAnswered
<1>3. ASSUME CatalogTouched PROVE CatalogGood' /\ (CategoryInv => CategoryInv')
  BY <1>3, LeaveHomeGood, InputGood DEF CatalogTouched
<1> QED
  BY <1>1, <1>2, <1>3 DEF CatalogAction

LEMMA CatalogShowsIt == CatalogGood /\ CategoryInv => CategoryIsCurrent
BY DEF CatalogGood, CatalogInv, CategoryInv, CategoryIsCurrent, Waiting, Asked, At

-----------------------------------------------------------------------------
(* The page of a listing that is created or edited.                        *)

WizardGood == WizardTypeOK /\ WizardRequestsOK /\ WizardInv

Triple == (Listing \cup {Nothing}) \X (SUBSET Photo) \X (SUBSET Photo)
Carried == Listing \cup Photo \cup Row

\* WizardFits of a page and of the rows of the listings.
FitsIn(f, open, route, rows) ==
    /\ f.live => open /\ f.at # "idle"
    /\ f.at # "idle" =>
          /\ f.about \in Triple
          /\ f.kind # "createListing" => f.about[1] \in Listing /\ rows[f.about[1]].status # "none"
          /\ f.kind \in {"uploadListingPhoto", "deleteListingPhoto"} => f.data \in Photo
          /\ f.kind = "createListing" => f.about[2] = f.about[3]
          /\ HasCreated(f) => Created(f) \in Listing /\ rows[Created(f)].status # "none"
    /\ f.at = "answer" /\ f.kind = "getOwnedListingForEdit" /\ f.outcome = "ok" => f.data \in Row
    /\ f.live => IF Submits(f) THEN route = Nothing ELSE f.about[1] = route
    /\ f.live /\ f.kind = "uploadListingPhoto" /\ Submits(f) =>
          /\ f.at = "asked" => f.about[2] \subseteq f.about[3] \cup {f.data} \cup rows[f.about[1]].photos
          /\ f.at = "answer" /\ f.outcome = "ok" => f.about[2] \subseteq f.about[3] \cup rows[f.about[1]].photos

Edits(page) == page.listing # "none" \/ page.uploaded # {} => page.route # Nothing
Placed(route, rows) == route # Nothing => route \in Listing /\ rows[route].status # "none"

Apart(requests) ==
    \A p, q \in Process :
        /\ requests[p].live /\ HasCreated(requests[p])
        /\ requests[q].at # "idle" /\ requests[q].kind = "deleteListingPhoto"
        => Created(requests[p]) # requests[q].about[1]

LEMMA WizardInvIs ==
    WizardInv <=> /\ \A p \in Process : FitsIn(request[p], wizard.open, wizard.route, listings)
                  /\ Placed(wizard.route, listings) /\ Edits(wizard) /\ Apart(request)
BY DEF WizardInv, isEditMode, Placed, WizardFits, FitsIn, Edits, Apart, Triple, Exists, At, Live, ListingOf

LEMMA WizardInvWillBe ==
    WizardInv' <=> /\ \A p \in Process : FitsIn(request'[p], wizard'.open, wizard'.route, listings')
                   /\ Placed(wizard'.route, listings') /\ Edits(wizard') /\ Apart(request')
BY DEF WizardInv, isEditMode, Placed, WizardFits, FitsIn, Edits, Apart, Triple, Exists, At, Live, ListingOf

LEMMA AlikeCreated ==
    ASSUME NEW f, NEW g, Alike(f, g)
    PROVE  /\ Submits(f) <=> Submits(g)
           /\ HasCreated(f) <=> HasCreated(g)
           /\ Created(f) = Created(g)
BY DEF Alike, Submits, HasCreated, Created

\* No listing goes, and no photo of one that f is submitting.
Keeps(f, rows, later) ==
    \A l \in Listing : rows[l].status # "none" =>
        /\ later[l].status # "none"
        /\ f.live /\ HasCreated(f) /\ l = Created(f) => rows[l].photos \subseteq later[l].photos

LEMMA FitsKept ==
    ASSUME NEW f, NEW g, NEW open, NEW route, NEW rows, NEW open2, NEW route2, NEW rows2,
           FitsIn(g, open, route, rows), Alike(f, g),
           f.live => g.live /\ open2 = open /\ route2 = route,
           Keeps(f, rows, rows2)
    PROVE  FitsIn(f, open2, route2, rows2)
<1>1. /\ f.at = g.at /\ f.kind = g.kind /\ f.about = g.about
      /\ f.data = g.data /\ f.outcome = g.outcome
      /\ Submits(f) <=> Submits(g)
      /\ HasCreated(f) <=> HasCreated(g)
      /\ Created(f) = Created(g)
  BY AlikeCreated DEF Alike
<1>2. f.kind = "uploadListingPhoto" /\ f.at # "idle" /\ Submits(f) => HasCreated(f) /\ Created(f) = f.about[1]
  BY DEF HasCreated, Created
<1>3. f.live => f.at # "idle" /\ open2
  BY <1>1 DEF FitsIn
<1>4. f.at # "idle" =>
          /\ f.about \in Triple
          /\ f.kind # "createListing" => f.about[1] \in Listing /\ rows2[f.about[1]].status # "none"
          /\ f.kind \in {"uploadListingPhoto", "deleteListingPhoto"} => f.data \in Photo
          /\ f.kind = "createListing" => f.about[2] = f.about[3]
          /\ HasCreated(f) => Created(f) \in Listing /\ rows2[Created(f)].status # "none"
  BY <1>1 DEF FitsIn, Keeps
<1>5. f.live /\ f.kind = "uploadListingPhoto" /\ Submits(f) =>
          rows[f.about[1]].photos \subseteq rows2[f.about[1]].photos
  BY <1>1, <1>2, <1>3 DEF FitsIn, Keeps
<1> QED
  BY <1>1, <1>3, <1>4, <1>5 DEF FitsIn

LEMMA KeepsSame == \A f, rows : Keeps(f, rows, rows)
BY DEF Keeps

\* Requests that are idle, or alike and not more alive, stay apart.
LEMMA ApartKept ==
    ASSUME NEW r, NEW r2, Apart(r),
           \A q \in Process : /\ r2[q].at # "idle" \/ r2[q].live => Alike(r2[q], r[q])
                              /\ r2[q].live => r[q].live
    PROVE  Apart(r2)
<1> SUFFICES ASSUME NEW p \in Process, NEW q \in Process,
                    r2[p].live, HasCreated(r2[p]),
                    r2[q].at # "idle", r2[q].kind = "deleteListingPhoto"
             PROVE  Created(r2[p]) # r2[q].about[1]
  BY DEF Apart
<1>1. Alike(r2[p], r[p]) /\ Alike(r2[q], r[q]) /\ r[p].live
  OBVIOUS
<1>2. HasCreated(r[p]) /\ Created(r[p]) = Created(r2[p])
  BY <1>1, AlikeCreated
<1>3. r[q].at # "idle" /\ r[q].kind = "deleteListingPhoto" /\ r[q].about = r2[q].about
  BY <1>1 DEF Alike
<1> QED
  BY <1>1, <1>2, <1>3 DEF Apart

LEMMA RestFits ==
    ASSUME NEW f, f.at = "idle", ~f.live, NEW open, NEW route, NEW rows
    PROVE  FitsIn(f, open, route, rows)
BY DEF FitsIn

\* A request is done and the page stays.
LEMMA WizardReturns ==
    ASSUME WizardGood, WizardTypeOK', UNCHANGED listings, NEW p \in Process, Return(p),
           wizard'.open = wizard.open, wizard'.route = wizard.route, Edits(wizard')
    PROVE  WizardGood'
<1>1. WizardRequestsOK' /\ Rests(p) /\ Stay({p}, {})
  BY ReturnRests DEF WizardGood, WizardRequestsOK
<1>2. \A q \in Process : q # p => Alike(request'[q], request[q]) /\ (request'[q].live <=> request[q].live)
  BY <1>1 DEF Stay, Live
<1>3. \A q \in Process : FitsIn(request[q], wizard.open, wizard.route, listings)
  BY WizardInvIs DEF WizardGood
<1>4. ASSUME NEW q \in Process, q # p PROVE FitsIn(request'[q], wizard'.open, wizard'.route, listings')
  BY <1>2, <1>3, <1>4, FitsKept, KeepsSame
<1>5. FitsIn(request'[p], wizard'.open, wizard'.route, listings')
  BY <1>1, RestFits DEF Rests
<1>6. Apart(request')
  <2>1. Apart(request)
    BY WizardInvIs DEF WizardGood
  <2>2. \A q \in Process : /\ request'[q].at # "idle" \/ request'[q].live => Alike(request'[q], request[q])
                           /\ request'[q].live => request[q].live
    BY <1>1, <1>2 DEF Rests
  <2> QED
    BY <2>1, <2>2, ApartKept
<1> QED
  BY <1>1, <1>4, <1>5, <1>6, WizardInvIs, WizardInvWillBe DEF WizardGood

\* Something is asked for and the page stays.
LEMMA WizardAsked ==
    ASSUME WizardGood, WizardTypeOK', WizardRequestsOK', UNCHANGED listings,
           wizard'.open = wizard.open, wizard'.route = wizard.route, Edits(wizard'),
           NEW p \in Process, NEW kinds, Stay({p}, kinds),
           FitsIn(request'[p], wizard.open, wizard.route, listings),
           ~HasCreated(request'[p]),
           request'[p].kind = "deleteListingPhoto" => wizard.route # Nothing
    PROVE  WizardGood'
<1>2. \A q \in Process : q # p => Alike(request'[q], request[q]) /\ (request'[q].live => request[q].live)
  BY DEF Stay, Live
<1>3. (\A q \in Process : FitsIn(request[q], wizard.open, wizard.route, listings)) /\ Apart(request)
  BY WizardInvIs DEF WizardGood
<1>4. ASSUME NEW q \in Process, q # p PROVE FitsIn(request'[q], wizard'.open, wizard'.route, listings')
  BY <1>2, <1>3, <1>4, FitsKept, KeepsSame
<1>5. ASSUME NEW r \in Process, NEW q \in Process,
             request'[r].live, HasCreated(request'[r]),
             request'[q].at # "idle", request'[q].kind = "deleteListingPhoto"
      PROVE  Created(request'[r]) # request'[q].about[1]
  <2>1. r # p
    BY <1>5
  <2>2. Alike(request'[r], request[r]) /\ request[r].live
    BY <1>2, <1>5, <2>1
  <2>3. HasCreated(request[r]) /\ Created(request[r]) = Created(request'[r])
    BY <1>5, <2>2, AlikeCreated
  <2>4. CASE q = p
    <3>1. Submits(request[r])
      BY <2>3 DEF HasCreated, Submits
    <3> QED
      BY <1>3, <1>5, <2>2, <2>4, <3>1 DEF FitsIn
  <2>5. CASE q # p
    <3>1. Alike(request'[q], request[q])
      BY <1>2, <2>5
    <3>2. request[q].at # "idle" /\ request[q].kind = "deleteListingPhoto" /\ request[q].about = request'[q].about
      BY <1>5, <3>1 DEF Alike
    <3> QED
      BY <1>3, <2>2, <2>3, <3>2 DEF Apart
  <2> QED
    BY <2>4, <2>5
<1>6. Apart(request')
  BY <1>5 DEF Apart
<1> QED
  BY <1>4, <1>6, WizardInvIs, WizardInvWillBe DEF WizardGood

\* The page is closed.
LEMMA WizardLeft ==
    ASSUME WizardGood, WizardRequestsOK', UNCHANGED listings, wizard' = WizardClosed,
           NEW ps \in SUBSET Process, Left(ps), \A q \in ps : Rests(q)
    PROVE  WizardGood'
<1>1. WizardTypeOK' /\ Edits(wizard') /\ Placed(wizard'.route, listings')
  BY DEF WizardGood, WizardTypeOK, Wizard, WizardClosed, Edits, Placed
<1>2. \A q \in Process : ~request'[q].live /\ (request'[q].at # "idle" => Alike(request'[q], request[q]))
  BY DEF Left, Rests
<1>3. (\A q \in Process : FitsIn(request[q], wizard.open, wizard.route, listings)) /\ Apart(request)
  BY WizardInvIs DEF WizardGood
<1>4. ASSUME NEW q \in Process PROVE FitsIn(request'[q], wizard'.open, wizard'.route, listings')
  <2>1. CASE request'[q].at = "idle"
    BY <1>2, <2>1, RestFits
  <2>2. CASE request'[q].at # "idle"
    BY <1>2, <1>3, <2>2, FitsKept, KeepsSame
  <2> QED
    BY <2>1, <2>2
<1>5. Apart(request')
  BY <1>2, <1>3, ApartKept
<1> QED
  BY <1>1, <1>4, <1>5, WizardInvWillBe DEF WizardGood

-----------------------------------------------------------------------------
(* Whether the form has the photos there are.                              *)

\* The form shows the photos of its listing as it did.
SameForm == /\ wizard'.open = wizard.open /\ wizard'.route = wizard.route
            /\ wizard'.listing = wizard.listing /\ wizard'.uploaded = wizard.uploaded

LEMMA PhotosAsked ==
    ASSUME AllIdle, PhotosInv, UNCHANGED listings, SameForm \/ wizard'.listing = "none",
           NEW p \in Process, NEW kind, NEW about, Asks(p, kind, about), NEW kinds, Stay({p}, kinds)
    PROVE  PhotosInv'
<1>1. \A q \in Process : q # p => At(q, "idle")'
  BY DEF AllIdle, Stay, Alike, At
<1>2. /\ ~At(p, "idle")' /\ ~At(p, "answer")' /\ Live(p)'
      /\ PhotosAfter(request[p])' = wizard'.uploaded
  BY DEF Asks, At, Live, PhotosAfter
<1>3. wizard'.open /\ wizard'.route # Nothing /\ wizard'.listing # "none" =>
          wizard'.uploaded = listings'[wizard'.route].photos
  BY DEF AllIdle, PhotosInv, isEditMode, SameForm
<1> QED
  BY <1>1, <1>2, <1>3 DEF PhotosInv, isEditMode, At, Answered

LEMMA PhotosReturned ==
    ASSUME PhotosInv, UNCHANGED listings, NEW p \in Process, ~At(p, "idle"), Rests(p), Stay({p}, {}),
           wizard'.open /\ wizard'.route # Nothing /\ wizard'.listing # "none" =>
               wizard'.uploaded = listings[wizard'.route].photos
    PROVE  PhotosInv'
<1>1. \A q \in Process : q # p => At(q, "idle")
  BY DEF PhotosInv
<1>2. \A q \in Process : At(q, "idle")'
  BY <1>1 DEF Stay, Alike, Rests, At
<1> QED
  BY <1>2 DEF PhotosInv, isEditMode, At, Answered

LEMMA PhotosLeft ==
    ASSUME PhotosInv, ~wizard'.open, NEW ps \in SUBSET Process, Left(ps), \A q \in ps : Rests(q)
    PROVE  PhotosInv'
<1>1. \A q \in Process : ~At(q, "idle")' => /\ ~At(q, "idle")
                                            /\ At(q, "answer")' => At(q, "answer") /\ (Ok(q)' <=> Ok(q))
  BY DEF Left, Rests, Alike, At, Ok
<1> QED
  BY <1>1 DEF PhotosInv, At

\* What a request that is not idle in the midst of an edit is.
LEMMA CalmEdit ==
    ASSUME WizardGood, PhotosInv, wizard.open, wizard.route # Nothing,
           NEW p \in Process, ~At(p, "idle")
    PROVE  /\ Live(p) /\ request[p].about[1] = wizard.route /\ ~Submits(request[p])
           /\ request[p].kind # "createListing" /\ wizard.route \in Listing
           /\ At(p, "answer") => Ok(p)
           /\ wizard.listing # "none" \/ Answered(p, "getOwnedListingForEdit") =>
                  PhotosAfter(request[p]) = listings[wizard.route].photos
<1>1. FitsIn(request[p], wizard.open, wizard.route, listings) /\ Placed(wizard.route, listings)
  BY WizardInvIs DEF WizardGood
<1>2. Live(p)
  BY DEF PhotosInv, isEditMode
<1>3. ~Submits(request[p]) /\ request[p].about[1] = wizard.route
  BY <1>1, <1>2 DEF FitsIn, Live
<1>4. request[p].kind # "createListing"
  BY <1>3 DEF Submits
<1> QED
  BY <1>1, <1>2, <1>3, <1>4 DEF PhotosInv, isEditMode, Placed

-----------------------------------------------------------------------------
(* What the page asks for.                                                 *)

LEMMA WizardKinds ==
    {"getOwnedListingForEdit", "createListing", "updateListing", "uploadListingPhoto",
     "deleteListingPhoto", "publishListing"} \subseteq Kind
BY DEF Kind

LEMMA AboutIs ==
    \A l \in Listing \cup {Nothing}, s \in SUBSET Photo, t \in SUBSET Photo :
        /\ About(l, s, t) \in Triple
        /\ About(l, s, t)[1] = l /\ About(l, s, t)[2] = s /\ About(l, s, t)[3] = t
BY DEF About, Triple

\* A request for a listing that is edited.
LEMMA EditAskFits ==
    ASSUME NEW f, NEW route \in Listing, NEW rows, rows[route].status # "none",
           f.at = "asked", f.about = About(route, {}, {}), f.kind # "createListing",
           f.kind \in {"uploadListingPhoto", "deleteListingPhoto"} => f.data \in Photo
    PROVE  FitsIn(f, TRUE, route, rows) /\ ~HasCreated(f)
<1>1. f.about \in Triple /\ f.about[1] = route /\ f.about[2] = {} /\ f.about[3] = {}
  BY AboutIs
<1>2. ~Submits(f)
  BY <1>1 DEF Submits
<1>3. ~HasCreated(f)
  BY <1>2 DEF HasCreated
<1> QED
  BY <1>1, <1>2, <1>3 DEF FitsIn

LEMMA OpenCreateGood ==
    ASSUME WizardGood, OpenCreate PROVE WizardGood' /\ (PhotosInv => PhotosInv')
<1>1. /\ ~wizard.open /\ UNCHANGED <<listings, request>>
      /\ wizard' = [WizardClosed EXCEPT !.open = TRUE]
  BY DEF OpenCreate, SetWizard
<1>2. /\ WizardTypeOK' /\ wizard'.route = Nothing /\ wizard'.listing = "none" /\ wizard'.uploaded = {}
  BY <1>1 DEF WizardGood, WizardTypeOK, Wizard, WizardClosed
<1>3. (\A q \in Process : FitsIn(request[q], wizard.open, wizard.route, listings)) /\ Apart(request)
  BY WizardInvIs DEF WizardGood
<1>4. \A q \in Process : ~request[q].live
  BY <1>1, <1>3 DEF FitsIn
<1>5. \A f : Alike(f, f)
  BY DEF Alike
<1>6. \A q \in Process : FitsIn(request[q], wizard'.open, wizard'.route, listings)
  BY <1>3, <1>4, <1>5, FitsKept, KeepsSame
<1>7. WizardInv'
  BY <1>1, <1>2, <1>3, <1>6, WizardInvWillBe DEF Placed, Edits
<1>8. PhotosInv => PhotosInv'
  BY <1>1, <1>2 DEF PhotosInv, isEditMode, At, Ok
<1> QED
  BY <1>1, <1>2, <1>7, <1>8 DEF WizardGood, WizardRequestsOK, RequestTypeOK

LEMMA OpenEditGood ==
    ASSUME WizardGood, NEW p \in Process, NEW l \in Listing, OpenEdit(p, l)
    PROVE  WizardGood' /\ (AllIdle /\ PhotosInv => PhotosInv')
<1>1. /\ ~wizard.open /\ listings[l].status # "none" /\ UNCHANGED listings
      /\ wizard' = [WizardClosed EXCEPT !.open = TRUE, !.route = l]
  BY DEF OpenEdit, SetWizard
<1>2. About(l, {}, {}) \in Triple
  BY AboutIs
<1>3. /\ WizardRequestsOK' /\ Asks(p, "getOwnedListingForEdit", About(l, {}, {}))
      /\ Stay({p}, {"getOwnedListingForEdit"})
  BY <1>2, AskAnewIs, WizardKinds DEF OpenEdit, WizardGood, WizardRequestsOK, Triple
<1>4. /\ WizardTypeOK' /\ wizard'.open = TRUE /\ wizard'.route = l
      /\ wizard'.listing = "none" /\ wizard'.uploaded = {}
  BY <1>1 DEF WizardGood, WizardTypeOK, Wizard, WizardClosed
<1>5. (\A q \in Process : FitsIn(request[q], wizard.open, wizard.route, listings)) /\ Apart(request)
  BY WizardInvIs DEF WizardGood
<1>6. \A q \in Process : ~request[q].live
  BY <1>1, <1>5 DEF FitsIn
<1>7. \A q \in Process : q # p => ~request'[q].live /\ Alike(request'[q], request[q])
  BY <1>3, <1>6 DEF Stay, Live
<1>8. FitsIn(request'[p], TRUE, l, listings) /\ ~HasCreated(request'[p])
  BY <1>1, <1>3, EditAskFits DEF Asks
<1>9. ASSUME NEW q \in Process, q # p PROVE FitsIn(request'[q], wizard'.open, wizard'.route, listings')
  <2>1. /\ FitsIn(request[q], wizard.open, wizard.route, listings)
        /\ Alike(request'[q], request[q]) /\ ~request'[q].live
        /\ Keeps(request'[q], listings, listings')
    BY <1>1, <1>5, <1>7, <1>9, KeepsSame
  <2> QED
    BY <2>1, FitsKept
<1>10. Apart(request')
  BY <1>7, <1>8 DEF Apart
<1>11. WizardInv'
  BY <1>1, <1>4, <1>8, <1>9, <1>10, WizardInvWillBe DEF Placed, Edits
<1>12. AllIdle /\ PhotosInv => PhotosInv'
  BY <1>1, <1>3, <1>4, PhotosAsked
<1> QED
  BY <1>3, <1>4, <1>11, <1>12 DEF WizardGood

\* Something is asked for the listing that is edited.
LEMMA EditAsks ==
    ASSUME WizardGood, NEW p \in Process, NEW kind \in Kind, kind # "createListing",
           NEW data \in Carried \cup {Nothing}, NEW kinds,
           wizard.open, wizard.route # Nothing,
           kind \in {"uploadListingPhoto", "deleteListingPhoto"} => data \in Photo,
           request'[p].data = data,
           WizardRequestsOK', Asks(p, kind, About(wizard.route, {}, {})), Stay({p}, kinds),
           UNCHANGED listings, WizardTypeOK', SameForm
    PROVE  WizardGood' /\ (AllIdle /\ PhotosInv => PhotosInv')
<1>1. wizard.route \in Listing /\ listings[wizard.route].status # "none" /\ Edits(wizard)
  BY WizardInvIs DEF WizardGood, Placed
<1>2. wizard.open = TRUE
  BY DEF WizardGood, WizardTypeOK, Wizard
<1>3. PICK route \in Listing : route = wizard.route
  BY <1>1
<1>4. FitsIn(request'[p], TRUE, route, listings) /\ ~HasCreated(request'[p])
  BY <1>1, <1>3, EditAskFits DEF Asks
<1>5. Edits(wizard')
  BY <1>1 DEF Edits, SameForm
<1>6. WizardGood'
  BY <1>2, <1>3, <1>4, <1>5, WizardAsked DEF SameForm
<1>7. AllIdle /\ PhotosInv => PhotosInv'
  BY PhotosAsked
<1> QED
  BY <1>6, <1>7

LEMMA EditButtons ==
    ASSUME WizardGood, NEW p \in Process,
           \/ ReloadEdit(p)
           \/ \E ph \in Photo : HandlePhotoChange(p, ph) \/ HandleDeletePhoto(p, ph)
           \/ HandlePublish(p)
           \/ HandleSubmit(p) /\ isEditMode
    PROVE  WizardGood' /\ (AllIdle /\ PhotosInv => PhotosInv')
<1>0. wizard.listing # "none" \/ wizard.uploaded # {} => wizard.route # Nothing
  BY WizardInvIs DEF WizardGood, Edits
<1>1. wizard.route \in Listing \cup {Nothing}
  BY DEF WizardGood, WizardTypeOK, Wizard
<1>2. About(wizard.route, {}, {}) \in Triple
  BY <1>1, AboutIs
<1>3. UNCHANGED wizardVars => WizardTypeOK' /\ SameForm /\ UNCHANGED listings
  BY DEF WizardGood, WizardTypeOK, SameForm, wizardVars
<1>4. CASE ReloadEdit(p)
  <2>1. /\ WizardRequestsOK' /\ Asks(p, "getOwnedListingForEdit", About(wizard.route, {}, {}))
        /\ Stay({p}, {"getOwnedListingForEdit"})
    BY <1>2, <1>4, AskAnewIs, WizardKinds DEF ReloadEdit, WizardGood, WizardRequestsOK, Triple
  <2>2. PICK data \in Carried \cup {Nothing} : request'[p].data = data
    BY <2>1 DEF WizardRequestsOK, RequestTypeOK, Frame, Carried
  <2> QED
    BY <1>3, <1>4, <2>1, <2>2, EditAsks, WizardKinds DEF ReloadEdit, isEditMode
<1>5. ASSUME NEW kind \in Kind, kind # "createListing", NEW data \in Carried \cup {Nothing},
             Ask(p, kind, About(wizard.route, {}, {}), data),
             wizard.open, wizard.route # Nothing,
             kind \in {"uploadListingPhoto", "deleteListingPhoto"} => data \in Photo,
             WizardTypeOK', SameForm, UNCHANGED listings
      PROVE  WizardGood' /\ (AllIdle /\ PhotosInv => PhotosInv')
  <2>1. /\ WizardRequestsOK' /\ Asks(p, kind, About(wizard.route, {}, {})) /\ Stay({p}, {})
        /\ request'[p].data = data
    BY <1>2, <1>5, AskIs DEF WizardGood, WizardRequestsOK, Triple, Carried
  <2> QED
    BY <1>5, <2>1, EditAsks
<1>6. ASSUME NEW ph \in Photo, HandlePhotoChange(p, ph)
      PROVE  WizardGood' /\ (AllIdle /\ PhotosInv => PhotosInv')
  BY <1>3, <1>5, <1>6, WizardKinds DEF HandlePhotoChange, CanUpload, isEditMode, Carried
<1>7. ASSUME NEW ph \in Photo, HandleDeletePhoto(p, ph)
      PROVE  WizardGood' /\ (AllIdle /\ PhotosInv => PhotosInv')
  <2>1. /\ wizard.open /\ wizard.uploaded # {} /\ UNCHANGED listings
        /\ wizard' = [wizard EXCEPT !.deleting = ph]
        /\ Ask(p, "deleteListingPhoto", About(wizard.route, {}, {}), ph)
    BY <1>7 DEF HandleDeletePhoto, SetWizard
  <2>2. WizardTypeOK' /\ SameForm
    BY <2>1 DEF WizardGood, WizardTypeOK, Wizard, SameForm
  <2> QED
    BY <1>0, <1>5, <2>1, <2>2, WizardKinds DEF Carried
<1>8. CASE HandlePublish(p)
  BY <1>0, <1>3, <1>5, <1>8, WizardKinds DEF HandlePublish
<1>9. CASE HandleSubmit(p) /\ isEditMode
  BY <1>3, <1>5, <1>9, WizardKinds DEF HandleSubmit, isEditMode
<1> QED
  BY <1>4, <1>6, <1>7, <1>8, <1>9

\* A listing is created, with the photos that are pending.
LEMMA CreateGood ==
    ASSUME WizardGood, NEW p \in Process, HandleSubmit(p), ~isEditMode
    PROVE  WizardGood' /\ (AllIdle /\ PhotosInv => PhotosInv')
<1>1. wizard.pending \in SUBSET Photo /\ wizard.route = Nothing
  BY DEF WizardGood, WizardTypeOK, Wizard, isEditMode
<1>2. PICK pending \in SUBSET Photo : pending = wizard.pending
  BY <1>1
<1>3. /\ About(Nothing, pending, pending) \in Triple
      /\ About(Nothing, pending, pending)[2] = pending /\ About(Nothing, pending, pending)[3] = pending
  BY AboutIs
<1>4. /\ wizard.open /\ UNCHANGED <<wizard, listings>>
      /\ Ask(p, "createListing", About(Nothing, pending, pending), Nothing)
  BY <1>2 DEF HandleSubmit, wizardVars
<1>5. /\ WizardRequestsOK' /\ Asks(p, "createListing", About(Nothing, pending, pending)) /\ Stay({p}, {})
  <2>1. PICK about \in Triple : about = About(Nothing, pending, pending)
    BY <1>3
  <2>2. "createListing" \in Kind /\ Nothing \in Carried \cup {Nothing} /\ RequestTypeOK(Triple, Carried)
    BY WizardKinds DEF WizardGood, WizardRequestsOK, Triple, Carried
  <2>3. /\ RequestTypeOK(Triple, Carried)' /\ Asks(p, "createListing", about) /\ Stay({p}, {})
    BY <1>4, <2>1, <2>2, AskIs
  <2> QED
    BY <2>1, <2>3 DEF WizardRequestsOK, Triple, Carried
<1>6. WizardTypeOK' /\ SameForm /\ Edits(wizard')
  BY <1>4, WizardInvIs DEF WizardGood, WizardTypeOK, SameForm
<1>7. ~HasCreated(request'[p])
  BY <1>5 DEF Asks, HasCreated
<1>8. FitsIn(request'[p], wizard.open, wizard.route, listings)
  BY <1>1, <1>3, <1>4, <1>5, <1>7 DEF FitsIn, Asks, Submits
<1>9. WizardGood'
  BY <1>4, <1>5, <1>6, <1>7, <1>8, WizardAsked DEF Asks, SameForm
<1>10. AllIdle /\ PhotosInv => PhotosInv'
  BY <1>4, <1>5, <1>6, PhotosAsked
<1> QED
  BY <1>9, <1>10

-----------------------------------------------------------------------------
(* The answers it applies.                                                 *)

\* The page stays, and shows what it showed unless that is the listing it edits.
LEMMA AnswerApplied ==
    ASSUME WizardGood, WizardTypeOK', UNCHANGED listings, NEW p \in Process, ~At(p, "idle"), Return(p),
           wizard'.open = wizard.open, wizard'.route = wizard.route, Edits(wizard'),
           PhotosInv /\ wizard.open /\ wizard.route # Nothing /\ wizard'.listing # "none" =>
               wizard'.uploaded = listings[wizard.route].photos
    PROVE  WizardGood' /\ (PhotosInv => PhotosInv')
<1>1. Rests(p) /\ Stay({p}, {})
  BY ReturnRests DEF WizardGood, WizardRequestsOK
<1>2. WizardGood'
  BY WizardReturns
<1>3. PhotosInv => PhotosInv'
  BY <1>1, PhotosReturned
<1> QED
  BY <1>2, <1>3

\* What the page shows of an edit.
LEMMA EditFacts ==
    ASSUME WizardGood
    PROVE  /\ Edits(wizard) /\ Apart(request) /\ Placed(wizard.route, listings)
           /\ \A q \in Process : FitsIn(request[q], wizard.open, wizard.route, listings)
           /\ wizard \in Wizard /\ listings \in [Listing -> Row]
BY WizardInvIs DEF WizardGood, WizardTypeOK

LEMMA EditLoadedGood ==
    ASSUME WizardGood, NEW p \in Process, EditLoaded(p)
    PROVE  WizardGood' /\ (PhotosInv => PhotosInv')
<1>1. /\ At(p, "answer") /\ ~At(p, "idle") /\ request[p].kind = "getOwnedListingForEdit" /\ Live(p) /\ Return(p)
      /\ UNCHANGED listings
  BY DEF EditLoaded, Answered, At, SetWizard, wizardVars
<1>2. ~Submits(request[p])
  BY <1>1 DEF Submits
<1>3. wizard.open /\ request[p].about[1] = wizard.route /\ wizard.route # Nothing
  BY <1>1, <1>2, EditFacts, NothingAssumption DEF FitsIn, Live, At
<1>4. CASE Ok(p)
  <2>1. request[p].data \in Row
    BY <1>1, <1>4, EditFacts DEF FitsIn, At, Ok
  <2>2. wizard' = [wizard EXCEPT !.listing = request[p].data.status, !.uploaded = request[p].data.photos]
    BY <1>4 DEF EditLoaded, SetWizard
  <2>3. /\ WizardTypeOK' /\ wizard'.open = wizard.open /\ wizard'.route = wizard.route
        /\ wizard'.uploaded = request[p].data.photos
    BY <1>1, <2>1, <2>2, EditFacts DEF WizardTypeOK, Wizard, Row
  <2>4. PhotosInv => request[p].data.photos = listings[wizard.route].photos
    BY <1>1, <1>3, CalmEdit DEF PhotosAfter, Answered, At
  <2> QED
    BY <1>1, <1>3, <2>3, <2>4, AnswerApplied DEF Edits
<1>5. CASE ~Ok(p)
  <2>1. wizard' = wizard
    BY <1>5 DEF EditLoaded, wizardVars
  <2> QED
    BY <1>1, <1>5, <2>1, EditFacts, AnswerApplied DEF WizardTypeOK, PhotosInv
<1> QED
  BY <1>4, <1>5

LEMMA PhotoUploadedGood ==
    ASSUME WizardGood, NEW p \in Process, PhotoUploaded(p)
    PROVE  WizardGood' /\ (PhotosInv => PhotosInv')
<1>1. /\ At(p, "answer") /\ ~At(p, "idle") /\ request[p].kind = "uploadListingPhoto" /\ Return(p)
      /\ request[p].about[2] = {} /\ UNCHANGED listings
  BY DEF PhotoUploaded, Answered, At, SubmittedOf, SetWizard, wizardVars
<1>2. PhotosInv /\ wizard.open /\ wizard.route # Nothing =>
          /\ Live(p) /\ Ok(p)
          /\ wizard.listing # "none" => wizard.uploaded \cup {request[p].data} = listings[wizard.route].photos
  BY <1>1, CalmEdit DEF PhotosAfter, At
<1>3. CASE Live(p) /\ Ok(p)
  <2>1. wizard' = [wizard EXCEPT !.uploaded = wizard.uploaded \cup {request[p].data}]
    BY <1>3 DEF PhotoUploaded, SetWizard
  <2>2. request[p].data \in Photo
    BY <1>1, EditFacts DEF FitsIn, At
  <2>3. request[p].about[1] = wizard.route /\ wizard.route # Nothing
    BY <1>1, <1>3, EditFacts, NothingAssumption DEF FitsIn, Live, At, Submits
  <2>4. /\ WizardTypeOK' /\ wizard'.open = wizard.open /\ wizard'.route = wizard.route
        /\ wizard'.listing = wizard.listing /\ wizard'.uploaded = wizard.uploaded \cup {request[p].data}
    BY <1>1, <2>1, <2>2, EditFacts DEF WizardTypeOK, Wizard
  <2> QED
    BY <1>1, <1>2, <2>3, <2>4, AnswerApplied DEF Edits
<1>4. CASE ~(Live(p) /\ Ok(p))
  <2>1. wizard' = wizard
    BY <1>4 DEF PhotoUploaded, wizardVars
  <2> QED
    BY <1>1, <1>2, <1>4, <2>1, EditFacts, AnswerApplied DEF WizardTypeOK
<1> QED
  BY <1>3, <1>4

LEMMA PhotoDeletedGood ==
    ASSUME WizardGood, NEW p \in Process, PhotoDeleted(p)
    PROVE  WizardGood' /\ (PhotosInv => PhotosInv')
<1> DEFINE shown == IF Ok(p) THEN wizard.uploaded \ {request[p].data} ELSE wizard.uploaded
<1>1. /\ At(p, "answer") /\ ~At(p, "idle") /\ request[p].kind = "deleteListingPhoto" /\ Return(p)
      /\ UNCHANGED listings /\ wizard' = [wizard EXCEPT !.deleting = Nothing, !.uploaded = shown]
  BY DEF PhotoDeleted, Answered, At, SetWizard
<1>2. PhotosInv /\ wizard.open /\ wizard.route # Nothing =>
          /\ Ok(p)
          /\ wizard.listing # "none" => wizard.uploaded \ {request[p].data} = listings[wizard.route].photos
  BY <1>1, CalmEdit DEF PhotosAfter, At
<1>3. shown \subseteq wizard.uploaded /\ (Ok(p) => shown = wizard.uploaded \ {request[p].data})
  OBVIOUS
<1> HIDE DEF shown
<1>4. /\ WizardTypeOK' /\ wizard'.open = wizard.open /\ wizard'.route = wizard.route
      /\ wizard'.listing = wizard.listing /\ wizard'.uploaded = shown
  BY <1>1, <1>3, EditFacts DEF WizardTypeOK, Wizard
<1>5. Edits(wizard')
  BY <1>3, <1>4, EditFacts DEF Edits
<1> QED
  BY <1>1, <1>2, <1>3, <1>4, <1>5, AnswerApplied

LEMMA ListingUpdatedGood ==
    ASSUME WizardGood, NEW p \in Process, ListingUpdated(p)
    PROVE  WizardGood' /\ (PhotosInv => PhotosInv')
<1>1. /\ At(p, "asked") /\ ~At(p, "idle") /\ request[p].kind = "updateListing" /\ Return(p)
      /\ UNCHANGED <<wizard, listings>>
  BY DEF ListingUpdated, Asked, At, wizardVars
<1>2. PhotosInv /\ wizard.open /\ wizard.route # Nothing /\ wizard.listing # "none" =>
          wizard.uploaded = listings[wizard.route].photos
  BY <1>1, CalmEdit DEF PhotosAfter, At
<1> QED
  BY <1>1, <1>2, EditFacts, AnswerApplied DEF WizardTypeOK

LEMMA WizardIgnoresGood ==
    ASSUME WizardGood, NEW p \in Process, WizardIgnores(p)
    PROVE  WizardGood' /\ (PhotosInv => PhotosInv')
<1>1. ~At(p, "idle") /\ ~Live(p) /\ Return(p) /\ UNCHANGED <<wizard, listings>>
  BY DEF WizardIgnores, Ignored, wizardVars
<1>2. ~(PhotosInv /\ wizard.open /\ wizard.route # Nothing)
  BY <1>1 DEF PhotosInv, isEditMode
<1> QED
  BY <1>1, <1>2, EditFacts, AnswerApplied DEF WizardTypeOK

\* An answer that is not applied.
LEMMA WizardRefused ==
    ASSUME WizardGood, NEW p \in Process, At(p, "answer"), ~Ok(p), Return(p), UNCHANGED wizardVars
    PROVE  WizardGood' /\ (PhotosInv => PhotosInv')
<1>1. ~At(p, "idle") /\ UNCHANGED <<wizard, listings>> /\ ~PhotosInv
  BY DEF At, wizardVars, PhotosInv
<1> QED
  BY <1>1, EditFacts, AnswerApplied DEF WizardTypeOK

LEMMA WizardCloses ==
    ASSUME WizardGood, NEW p \in Process, SetWizard(WizardClosed), AbandonAfter(p, Changing)
    PROVE  WizardGood' /\ (PhotosInv => PhotosInv')
<1>1. wizard' = WizardClosed /\ UNCHANGED listings
  BY DEF SetWizard
<1>2. WizardRequestsOK' /\ Left({p}) /\ \A q \in {p} : Rests(q)
  BY AbandonAfterLeaves DEF WizardGood, WizardRequestsOK
<1>3. ~wizard'.open
  BY <1>1 DEF WizardClosed
<1> QED
  BY <1>1, <1>2, <1>3, WizardLeft, PhotosLeft

LEMMA LeaveWizardGood ==
    ASSUME WizardGood, LeaveWizard PROVE WizardGood' /\ (PhotosInv => PhotosInv')
<1>1. wizard' = WizardClosed /\ UNCHANGED listings
  BY DEF SetWizard, LeaveWizard
<1>2. WizardRequestsOK' /\ Left({})
  BY AbandonLeaves DEF WizardGood, WizardRequestsOK, LeaveWizard
<1>3. ~wizard'.open
  BY <1>1 DEF WizardClosed
<1> QED
  BY <1>1, <1>2, <1>3, WizardLeft, PhotosLeft

LEMMA PublishedGood ==
    ASSUME WizardGood, NEW p \in Process, Published(p) PROVE WizardGood' /\ (PhotosInv => PhotosInv')
BY WizardCloses, WizardRefused DEF Published, Answered

LEMMA PendingGood ==
    ASSUME WizardGood, NEW ph \in Photo, ChoosePhoto(ph) \/ RemovePendingPhoto(ph)
    PROVE  WizardGood' /\ (PhotosInv => PhotosInv')
<1>1. PICK pending \in SUBSET Photo : wizard' = [wizard EXCEPT !.pending = pending]
  BY EditFacts DEF ChoosePhoto, RemovePendingPhoto, SetWizard, Wizard
<1>2. UNCHANGED <<listings, request>>
  BY DEF ChoosePhoto, RemovePendingPhoto, SetWizard
<1>3. WizardTypeOK' /\ SameForm
  BY <1>1, <1>2, EditFacts DEF WizardTypeOK, Wizard, SameForm
<1>4. WizardInv'
  BY <1>2, <1>3, EditFacts, WizardInvWillBe DEF SameForm, Edits
<1>5. PhotosInv => PhotosInv'
  BY <1>2, <1>3 DEF PhotosInv, isEditMode, SameForm, At, Ok, Live, Answered, PhotosAfter
<1> QED
  BY <1>2, <1>3, <1>4, <1>5 DEF WizardGood, WizardRequestsOK, RequestTypeOK

-----------------------------------------------------------------------------
(* A submission.                                                           *)

\* The photos that are left are uploaded, or the page of the listing follows.
LEMMA UploadGood ==
    ASSUME WizardGood, NEW p \in Process, At(p, "answer"), HasCreated(request[p]),
           NEW l, l = Created(request[p]),
           NEW left \in SUBSET Photo, left # {} => SubmittedOf(p) # {},
           Live(p) => SubmittedOf(p) \subseteq left \cup listings[l].photos,
           Upload(p, l, left)
    PROVE  WizardGood' /\ (PhotosInv => PhotosInv')
<1>1. CASE left = {}
  BY <1>1, WizardCloses DEF Upload
<1>2. CASE left # {}
  <2>1. PICK ph \in left : Begin(p, [Request("uploadListingPhoto", About(l, SubmittedOf(p), left \ {ph}), ph)
                                        EXCEPT !.live = Live(p)])
    BY <1>2 DEF Upload
  <2>2. UNCHANGED <<wizard, listings>>
    BY <1>2 DEF Upload, wizardVars
  <2>3. /\ l \in Listing /\ listings[l].status # "none"
        /\ request[p].about \in Triple /\ request[p].live \in BOOLEAN
        /\ Live(p) => wizard.open /\ wizard.route = Nothing
    BY EditFacts DEF FitsIn, At, Live, HasCreated, Submits, WizardGood, WizardRequestsOK, RequestTypeOK, Frame
  <2>4. SubmittedOf(p) \in SUBSET Photo
    BY <2>3 DEF SubmittedOf, Triple
  <2>5. PICK submitted \in SUBSET Photo : submitted = SubmittedOf(p)
    BY <2>4
  <2>6. PICK about \in Triple : about = About(l, submitted, left \ {ph})
    BY <2>3, AboutIs
  <2>7. about[1] = l /\ about[2] = submitted /\ about[3] = left \ {ph}
    BY <2>3, <2>6, AboutIs
  <2> DEFINE r == Request("uploadListingPhoto", about, ph)
             f == [r EXCEPT !.live = Live(p)]
  <2>8. r \in Frame(Triple, Carried)
    <3>1. /\ "uploadListingPhoto" \in Kind /\ about \in Triple \cup {Nothing}
          /\ ph \in Carried \cup {Nothing}
      BY WizardKinds DEF Carried
    <3> QED
      BY <3>1, RequestFrame
  <2>9. r.at = "asked" /\ r.kind = "uploadListingPhoto" /\ r.about = about /\ r.data = ph
    BY RequestFields
  <2> HIDE DEF r
  <2>10. /\ f \in Frame(Triple, Carried)
         /\ f.at = "asked" /\ f.kind = "uploadListingPhoto" /\ f.about = about /\ f.data = ph
         /\ f.live = Live(p)
    BY <2>3, <2>8, <2>9 DEF Frame, Live
  <2>11. Begin(p, f)
    BY <2>1, <2>5, <2>6 DEF r
  <2> HIDE DEF f
  <2>12. /\ RequestTypeOK(Triple, Carried)' /\ request'[p] = f
         /\ \A q \in Process \ {p} : request'[q] = request[q]
    <3>1. RequestTypeOK(Triple, Carried)
      BY DEF WizardGood, WizardRequestsOK, Triple, Carried
    <3> QED
      BY <2>10, <2>11, <3>1, BeginIs
  <2>13. Submits(f) /\ HasCreated(f) /\ Created(f) = l
    BY <1>2, <2>5, <2>7, <2>10 DEF Submits, HasCreated, Created
  <2>14. FitsIn(f, wizard.open, wizard.route, listings)
    <3>1. submitted \subseteq (left \ {ph}) \cup {ph} \cup listings[l].photos \/ ~f.live
      BY <2>1, <2>5, <2>10
    <3> QED
      BY <2>1, <2>3, <2>7, <2>10, <2>13, <3>1 DEF FitsIn
  <2>15. Apart(request')
    <3> SUFFICES ASSUME NEW q \in Process, NEW d \in Process,
                        request'[q].live, HasCreated(request'[q]),
                        request'[d].at # "idle", request'[d].kind = "deleteListingPhoto"
                 PROVE  Created(request'[q]) # request'[d].about[1]
      BY DEF Apart
    <3>1. d # p /\ request'[d] = request[d]
      BY <2>10, <2>12
    <3>2. request[q].live /\ HasCreated(request[q]) /\ Created(request[q]) = Created(request'[q])
      BY <2>10, <2>12, <2>13 DEF Live
    <3> QED
      BY <3>1, <3>2, EditFacts DEF Apart
  <2>16. WizardInv'
    BY <2>2, <2>12, <2>14, <2>15, EditFacts, WizardInvWillBe
  <2>17. PhotosInv => PhotosInv'
    <3> SUFFICES ASSUME PhotosInv PROVE PhotosInv'
      OBVIOUS
    <3>1. \A q \in Process : q # p => At(q, "idle") /\ At(q, "idle")'
      BY <2>12 DEF PhotosInv, At
    <3>2. ~At(p, "answer")' /\ ~At(p, "idle")'
      BY <2>10, <2>12 DEF At
    <3>3. ~(wizard.open /\ wizard.route # Nothing)
      <4>1. Submits(request[p]) /\ ~At(p, "idle")
        BY DEF HasCreated, Submits, At
      <4> QED
        BY <4>1, CalmEdit
    <3> QED
      BY <2>2, <3>1, <3>2, <3>3 DEF PhotosInv, isEditMode, At
  <2> QED
    BY <2>2, <2>12, <2>16, <2>17, EditFacts DEF WizardGood, WizardTypeOK, WizardRequestsOK, Triple, Carried
<1> QED
  BY <1>1, <1>2

LEMMA ListingCreatedGood ==
    ASSUME WizardGood, NEW p \in Process, ListingCreated(p)
    PROVE  WizardGood' /\ (PhotosInv => PhotosInv')
<1>1. At(p, "answer") /\ request[p].kind = "createListing"
  BY DEF ListingCreated, Answered
<1>2. CASE ~Ok(p)
  BY <1>1, <1>2, WizardRefused DEF ListingCreated
<1>3. CASE Ok(p)
  <2>1. HasCreated(request[p]) /\ Created(request[p]) = request[p].data
    BY <1>1, <1>3 DEF HasCreated, Created, At, Ok
  <2>2. request[p].about \in Triple
    BY <1>1, EditFacts DEF FitsIn, At
  <2>3. SubmittedOf(p) \in SUBSET Photo
    BY <2>2 DEF SubmittedOf, Triple
  <2>4. Upload(p, request[p].data, SubmittedOf(p))
    BY <1>3 DEF ListingCreated
  <2> QED
    BY <1>1, <2>1, <2>3, <2>4, UploadGood
<1> QED
  BY <1>2, <1>3

LEMMA PendingUploadedGood ==
    ASSUME WizardGood, NEW p \in Process, PendingUploaded(p)
    PROVE  WizardGood' /\ (PhotosInv => PhotosInv')
<1>1. At(p, "answer") /\ request[p].kind = "uploadListingPhoto" /\ request[p].about[2] # {}
  BY DEF PendingUploaded, Answered, SubmittedOf
<1>2. CASE ~Ok(p)
  BY <1>1, <1>2, WizardRefused DEF PendingUploaded
<1>3. CASE Ok(p)
  <2>1. Submits(request[p]) /\ HasCreated(request[p]) /\ Created(request[p]) = ListingOf(p)
    BY <1>1 DEF HasCreated, Created, Submits, At, ListingOf
  <2>2. /\ request[p].about \in Triple
        /\ Live(p) => SubmittedOf(p) \subseteq LeftOf(p) \cup listings[ListingOf(p)].photos
    BY <1>1, <1>3, <2>1, EditFacts DEF FitsIn, At, Live, Ok, SubmittedOf, LeftOf, ListingOf
  <2>3. LeftOf(p) \in SUBSET Photo
    BY <2>2 DEF LeftOf, Triple
  <2>4. Upload(p, ListingOf(p), LeftOf(p)) /\ SubmittedOf(p) # {}
    BY <1>1, <1>3 DEF PendingUploaded, SubmittedOf
  <2> QED
    BY <1>1, <2>1, <2>2, <2>3, <2>4, UploadGood
<1> QED
  BY <1>2, <1>3

-----------------------------------------------------------------------------
(* The backend answers.                                                    *)

\* An answer fits if the backend has done what it says.
LEMMA AnswerFits ==
    ASSUME NEW f, NEW g, NEW open, NEW route, NEW rows, NEW rows2, FitsIn(g, open, route, rows),
           g.at = "asked", f.at = "answer", f.kind = g.kind, f.about = g.about, f.live = g.live,
           \A l \in Listing : rows[l].status # "none" => rows2[l].status # "none",
           f.kind = "createListing" /\ f.outcome = "ok" => f.data \in Listing /\ rows2[f.data].status # "none",
           f.kind \in {"uploadListingPhoto", "deleteListingPhoto"} => f.data = g.data,
           f.kind = "getOwnedListingForEdit" /\ f.outcome = "ok" => f.data \in Row,
           f.kind = "uploadListingPhoto" /\ f.outcome = "ok" =>
               rows[f.about[1]].photos \cup {f.data} \subseteq rows2[f.about[1]].photos
    PROVE  FitsIn(f, open, route, rows2)
<1>1. Submits(f) <=> Submits(g)
  BY DEF Submits
<1>2. /\ f.kind = "createListing" => (HasCreated(f) <=> f.outcome = "ok") /\ Created(f) = f.data
      /\ f.kind # "createListing" => (HasCreated(f) <=> Submits(f)) /\ Created(f) = f.about[1]
  BY DEF HasCreated, Created
<1>3. /\ f.about \in Triple
      /\ f.kind # "createListing" => f.about[1] \in Listing /\ rows2[f.about[1]].status # "none"
      /\ f.kind \in {"uploadListingPhoto", "deleteListingPhoto"} => f.data \in Photo
      /\ f.kind = "createListing" => f.about[2] = f.about[3]
  BY DEF FitsIn
<1>4. HasCreated(f) => Created(f) \in Listing /\ rows2[Created(f)].status # "none"
  BY <1>2, <1>3
<1>5. ASSUME f.live, f.kind = "uploadListingPhoto", Submits(f), f.outcome = "ok"
      PROVE  f.about[2] \subseteq f.about[3] \cup rows2[f.about[1]].photos
  <2>1. g.about[2] \subseteq g.about[3] \cup {g.data} \cup rows[g.about[1]].photos
    BY <1>1, <1>5 DEF FitsIn
  <2> QED
    BY <1>5, <2>1
<1> QED
  BY <1>1, <1>3, <1>4, <1>5 DEF FitsIn

LEMMA RespondIs ==
    ASSUME WizardGood, NEW p \in Process, At(p, "asked"), NEW outcome \in Outcome,
           NEW data \in Carried \cup {Nothing}, Respond(p, outcome, data)
    PROVE  /\ WizardRequestsOK'
           /\ request'[p].at = "answer" /\ request'[p].outcome = outcome /\ request'[p].data = data
           /\ request'[p].kind = request[p].kind /\ request'[p].about = request[p].about
           /\ request'[p].live = request[p].live
           /\ \A q \in Process \ {p} : request'[q] = request[q]
<1> DEFINE f == [request[p] EXCEPT !.at = "answer", !.outcome = outcome, !.data = data]
<1>1. RequestTypeOK(Triple, Carried) /\ request[p] \in Frame(Triple, Carried)
  BY DEF WizardGood, WizardRequestsOK, RequestTypeOK, Triple, Carried
<1>2. /\ f \in Frame(Triple, Carried)
      /\ f.at = "answer" /\ f.outcome = outcome /\ f.data = data
      /\ f.kind = request[p].kind /\ f.about = request[p].about /\ f.live = request[p].live
  BY <1>1 DEF Frame
<1>3. Begin(p, f)
  BY DEF Respond
<1> HIDE DEF f
<1>4. /\ RequestTypeOK(Triple, Carried)' /\ request'[p] = f
      /\ \A q \in Process \ {p} : request'[q] = request[q]
  BY <1>1, <1>2, <1>3, BeginIs
<1> QED
  BY <1>2, <1>4 DEF WizardRequestsOK, Triple, Carried

\* What the page is told is so, and nobody else is disturbed.
LEMMA ResponseGood ==
    ASSUME WizardGood, UNCHANGED wizard, NEW p \in Process, At(p, "asked"), NEW outcome \in Outcome,
           NEW data \in Carried \cup {Nothing}, Respond(p, outcome, data),
           NEW rows \in [Listing -> Row], listings' = rows,
           \A l \in Listing : listings[l].status # "none" => rows[l].status # "none",
           \A q \in Process : q # p => Keeps(request[q], listings, rows),
           request[p].kind = "createListing" /\ outcome = "ok" =>
               data \in Listing /\ rows[data].status # "none" /\ listings[data].status = "none",
           request[p].kind \in {"uploadListingPhoto", "deleteListingPhoto"} => data = request[p].data,
           request[p].kind = "getOwnedListingForEdit" /\ outcome = "ok" => data \in Row,
           request[p].kind = "uploadListingPhoto" /\ outcome = "ok" =>
               listings[request[p].about[1]].photos \cup {data} \subseteq rows[request[p].about[1]].photos
    PROVE  WizardGood'
<1>1. /\ WizardRequestsOK'
      /\ request'[p].at = "answer" /\ request'[p].outcome = outcome /\ request'[p].data = data
      /\ request'[p].kind = request[p].kind /\ request'[p].about = request[p].about
      /\ request'[p].live = request[p].live
      /\ \A q \in Process \ {p} : request'[q] = request[q]
  BY RespondIs
<1>2. FitsIn(request[p], wizard.open, wizard.route, listings) /\ request[p].at = "asked"
  BY EditFacts DEF At
<1>3. FitsIn(request'[p], wizard.open, wizard.route, rows)
  <2>1. PICK f : f = request'[p]
    OBVIOUS
  <2>2. PICK g : g = request[p]
    OBVIOUS
  <2>3. FitsIn(f, wizard.open, wizard.route, rows)
    BY <1>1, <1>2, <2>1, <2>2, AnswerFits
  <2> QED
    BY <2>1, <2>3
<1>4. ASSUME NEW q \in Process, q # p PROVE FitsIn(request'[q], wizard.open, wizard.route, rows)
  <2>1. request'[q] = request[q] /\ Alike(request[q], request[q])
    BY <1>1, <1>4 DEF Alike
  <2>2. FitsIn(request[q], wizard.open, wizard.route, listings) /\ Keeps(request[q], listings, rows)
    BY <1>4, EditFacts
  <2> QED
    BY <2>1, <2>2, FitsKept
<1>5. Apart(request')
  <2> SUFFICES ASSUME NEW r \in Process, NEW q \in Process,
                      request'[r].live, HasCreated(request'[r]),
                      request'[q].at # "idle", request'[q].kind = "deleteListingPhoto"
               PROVE  Created(request'[r]) # request'[q].about[1]
    BY DEF Apart
  <2>1. request[q].at # "idle" /\ request[q].kind = "deleteListingPhoto" /\ request'[q].about = request[q].about
    BY <1>1, <1>2
  <2>2. listings[request[q].about[1]].status # "none"
    BY <2>1, EditFacts DEF FitsIn
  <2>3. CASE r # p \/ request[p].kind # "createListing"
    <3>1. request[r].live /\ HasCreated(request[r]) /\ Created(request[r]) = Created(request'[r])
      BY <1>1, <1>2, <2>3 DEF HasCreated, Created, Submits
    <3> QED
      BY <2>1, <3>1, EditFacts DEF Apart
  <2>4. CASE r = p /\ request[p].kind = "createListing"
    <3>1. outcome = "ok" /\ Created(request'[r]) = data
      BY <1>1, <2>4 DEF HasCreated, Created
    <3> QED
      BY <2>1, <2>2, <2>4, <3>1
  <2> QED
    BY <2>3, <2>4
<1>6. Placed(wizard.route, rows)
  BY EditFacts DEF Placed
<1>7. WizardInv'
  BY <1>3, <1>4, <1>5, <1>6, EditFacts, WizardInvWillBe
<1> QED
  BY <1>1, <1>7, EditFacts DEF WizardGood, WizardTypeOK

\* The page of an edit is told about its own listing.
LEMMA PhotosTold ==
    ASSUME WizardGood, PhotosInv, UNCHANGED wizard, NEW p \in Process, At(p, "asked"),
           NEW data \in Carried \cup {Nothing}, Respond(p, "ok", data),
           wizard.open /\ wizard.route # Nothing =>
               CASE request[p].kind = "getOwnedListingForEdit" ->
                        data.photos = listings'[request[p].about[1]].photos
                 [] request[p].kind = "uploadListingPhoto" ->
                        listings'[request[p].about[1]].photos = listings[request[p].about[1]].photos \cup {data}
                 [] request[p].kind = "deleteListingPhoto" ->
                        listings'[request[p].about[1]].photos = listings[request[p].about[1]].photos \ {data}
                 [] OTHER -> listings'[request[p].about[1]].photos = listings[request[p].about[1]].photos
    PROVE  PhotosInv'
<1>1. /\ request'[p].at = "answer" /\ request'[p].outcome = "ok" /\ request'[p].data = data
      /\ request'[p].kind = request[p].kind /\ request'[p].live = request[p].live
      /\ \A q \in Process \ {p} : request'[q] = request[q]
  BY RespondIs DEF Outcome
<1>2. ~At(p, "idle") /\ ~At(p, "idle")' /\ Ok(p)' /\ (Live(p)' <=> Live(p))
  BY <1>1 DEF At, Ok, Live
<1>3. \A q \in Process : q # p => At(q, "idle") /\ At(q, "idle")'
  BY <1>1, <1>2 DEF PhotosInv, At
<1>4. \A q \in Process : ~At(q, "idle")' => q = p
  BY <1>3
<1>5. ASSUME wizard.open, wizard.route # Nothing,
             wizard.listing # "none" \/ request[p].kind = "getOwnedListingForEdit"
      PROVE  PhotosAfter(request[p])' = listings'[wizard.route].photos
  <2>1. /\ request[p].about[1] = wizard.route
        /\ wizard.listing # "none" => wizard.uploaded = listings[wizard.route].photos
    BY <1>2, <1>5, CalmEdit DEF PhotosAfter, At
  <2>2. PhotosAfter(request[p])' =
            CASE request[p].kind = "getOwnedListingForEdit" -> data.photos
              [] request[p].kind = "uploadListingPhoto" -> wizard.uploaded \cup {data}
              [] request[p].kind = "deleteListingPhoto" -> wizard.uploaded \ {data}
              [] OTHER -> wizard.uploaded
    BY <1>1 DEF PhotosAfter
  <2> QED
    BY <1>5, <2>1, <2>2
<1>6. ASSUME wizard.open, wizard.route # Nothing PROVE Live(p)'
  BY <1>2, <1>6, CalmEdit
<1> QED
  BY <1>1, <1>2, <1>4, <1>5, <1>6 DEF PhotosInv, isEditMode, At, Answered

LEMMA PutIs ==
    ASSUME WizardGood, NEW l \in Listing, NEW row \in Row, Put(l, row)
    PROVE  /\ listings' \in [Listing -> Row] /\ listings'[l] = row
           /\ \A k \in Listing : k # l => listings'[k] = listings[k]
BY EditFacts DEF Put

LEMMA ErrorResponseGood ==
    ASSUME WizardGood, NEW p \in Process, At(p, "asked"), Respond(p, "error", request[p].data),
           UNCHANGED <<wizard, listings>>
    PROVE  WizardGood' /\ request'[p].outcome # "ok"
<1>1. PICK data \in Carried \cup {Nothing} : data = request[p].data
  BY DEF WizardGood, WizardRequestsOK, RequestTypeOK, Frame, Carried
<1>2. "error" \in Outcome /\ Respond(p, "error", data)
  BY <1>1 DEF Outcome
<1>3. PICK rows \in [Listing -> Row] : rows = listings
  BY EditFacts
<1>4. listings' = rows
  BY <1>3
<1>5. WizardGood'
  BY <1>1, <1>2, <1>3, <1>4, KeepsSame, ResponseGood
<1>6. request'[p].outcome = "error"
  BY <1>2, RespondIs
<1> QED
  BY <1>5, <1>6

LEMMA CreateResponseGood ==
    ASSUME WizardGood, UNCHANGED wizard, NEW p \in Process, Asked(p, "createListing"),
           NEW new \in Listing, listings[new].status = "none",
           Put(new, [status |-> "DRAFT", photos |-> {}]), Respond(p, "ok", new)
    PROVE  WizardGood' /\ (PhotosInv => PhotosInv')
<1>1. At(p, "asked") /\ request[p].kind = "createListing" /\ ~At(p, "idle")
  BY DEF Asked, At
<1>2. "ok" \in Outcome /\ new \in Carried \cup {Nothing} /\ [status |-> "DRAFT", photos |-> {}] \in Row
  BY DEF Outcome, Carried, Row
<1>3. /\ listings' \in [Listing -> Row] /\ listings'[new].status = "DRAFT"
      /\ \A k \in Listing : k # new => listings'[k] = listings[k]
  BY <1>2, PutIs
<1>4. \A f : Keeps(f, listings, listings')
  BY <1>3 DEF Keeps
<1>5. \A k \in Listing : listings[k].status # "none" => listings'[k].status # "none"
  BY <1>3
<1>6. WizardGood'
  BY <1>1, <1>2, <1>3, <1>4, <1>5, ResponseGood
<1>7. PhotosInv => ~(wizard.open /\ wizard.route # Nothing)
  BY <1>1, CalmEdit
<1> QED
  BY <1>1, <1>2, <1>6, <1>7, PhotosTold

LEMMA LoadResponseGood ==
    ASSUME WizardGood, UNCHANGED wizard, NEW p \in Process, Asked(p, "getOwnedListingForEdit"),
           Respond(p, "ok", listings[ListingOf(p)]), UNCHANGED listings
    PROVE  WizardGood' /\ (PhotosInv => PhotosInv')
<1>1. At(p, "asked") /\ request[p].kind = "getOwnedListingForEdit"
  BY DEF Asked
<1>2. request[p].about[1] \in Listing
  BY <1>1, EditFacts DEF FitsIn, At
<1>3. PICK data \in Row : data = listings[request[p].about[1]]
  BY <1>2, EditFacts
<1>4. "ok" \in Outcome /\ data \in Carried \cup {Nothing} /\ Respond(p, "ok", data)
  BY <1>3 DEF Outcome, Carried, ListingOf
<1>5. PICK rows \in [Listing -> Row] : rows = listings
  BY EditFacts
<1>6. WizardGood'
  BY <1>1, <1>4, <1>5, KeepsSame, ResponseGood
<1>7. PhotosInv => PhotosInv'
  BY <1>1, <1>3, <1>4, PhotosTold
<1> QED
  BY <1>6, <1>7

\* The backend changes the listing a request is about.
LEMMA ChangeResponseGood ==
    ASSUME WizardGood, UNCHANGED wizard, NEW p \in Process, At(p, "asked"),
           request[p].kind \in {"uploadListingPhoto", "deleteListingPhoto", "publishListing"},
           NEW row \in Row, row.status # "none", Put(ListingOf(p), row),
           NEW outcome \in Outcome, NEW data \in Carried \cup {Nothing}, Respond(p, outcome, data),
           request[p].kind # "publishListing" => data = request[p].data,
           request[p].kind = "uploadListingPhoto" => row.photos = listings[ListingOf(p)].photos \cup {data},
           request[p].kind = "deleteListingPhoto" => row.photos = listings[ListingOf(p)].photos \ {data},
           request[p].kind = "publishListing" => row.photos = listings[ListingOf(p)].photos
    PROVE  WizardGood' /\ (PhotosInv /\ outcome = "ok" => PhotosInv')
<1>1. PICK l \in Listing : l = request[p].about[1]
  BY EditFacts DEF FitsIn, At
<1>2. ListingOf(p) = l /\ Put(l, row)
  BY <1>1 DEF ListingOf
<1>3. /\ listings' \in [Listing -> Row] /\ listings'[l] = row
      /\ \A k \in Listing : k # l => listings'[k] = listings[k]
  BY <1>2, PutIs
<1>4. \A k \in Listing : listings[k].status # "none" => listings'[k].status # "none"
  BY <1>3
<1>5. ASSUME NEW q \in Process, q # p PROVE Keeps(request[q], listings, listings')
  <2>1. CASE request[p].kind = "deleteListingPhoto"
    <3>1. request[q].live /\ HasCreated(request[q]) => Created(request[q]) # l
      BY <1>1, <2>1, EditFacts DEF Apart, At
    <3> QED
      BY <1>3, <1>4, <3>1 DEF Keeps
  <2>2. CASE request[p].kind # "deleteListingPhoto"
    <3>1. listings[l].photos \subseteq row.photos
      BY <1>2, <2>2
    <3>2. \A k \in Listing : listings[k].photos \subseteq listings'[k].photos
      BY <1>3, <3>1
    <3> QED
      BY <1>4, <3>2 DEF Keeps
  <2> QED
    BY <2>1, <2>2
<1>6. WizardGood'
  <2>1. request[p].kind = "uploadListingPhoto" => listings[l].photos \cup {data} \subseteq listings'[l].photos
    BY <1>2, <1>3
  <2> QED
    BY <1>1, <1>3, <1>4, <1>5, <2>1, ResponseGood
<1>7. PhotosInv /\ outcome = "ok" => PhotosInv'
  BY <1>1, <1>2, <1>3, PhotosTold
<1> QED
  BY <1>6, <1>7

LEMMA WizardRespondsGood ==
    ASSUME WizardGood, NEW p \in Process, WizardResponds(p)
    PROVE  WizardGood' /\ (PhotosInv /\ request'[p].outcome = "ok" => PhotosInv')
<1>1. UNCHANGED wizard
  BY DEF WizardResponds
<1>2. request[p].data \in Carried \cup {Nothing}
  BY DEF WizardGood, WizardRequestsOK, RequestTypeOK, Frame, Carried
<1>3. ASSUME At(p, "asked"), Respond(p, "error", request[p].data), UNCHANGED listings
      PROVE  WizardGood' /\ request'[p].outcome # "ok"
  BY <1>1, <1>3, ErrorResponseGood
<1>4. CASE Asked(p, "createListing") /\ WizardEffect(p)
  BY <1>1, <1>4, CreateResponseGood DEF WizardEffect, Asked
<1>5. CASE Asked(p, "getOwnedListingForEdit") /\ WizardEffect(p)
  BY <1>1, <1>5, LoadResponseGood DEF WizardEffect, Asked
<1>6. ASSUME At(p, "asked"), request[p].kind # "createListing"
      PROVE  ListingOf(p) \in Listing /\ listings[ListingOf(p)] \in Row /\ listings[ListingOf(p)].status # "none"
  BY <1>6, EditFacts DEF FitsIn, At, ListingOf
<1>7. ASSUME Asked(p, "uploadListingPhoto"), WizardEffect(p)
      PROVE  WizardGood' /\ (PhotosInv /\ request'[p].outcome = "ok" => PhotosInv')
  <2>1. At(p, "asked") /\ request[p].kind = "uploadListingPhoto"
    BY <1>7 DEF Asked
  <2>2. request[p].data \in Photo
    BY <2>1, EditFacts DEF FitsIn, At
  <2>3. PICK row : row = [listings[ListingOf(p)] EXCEPT !.photos = @ \cup {request[p].data}]
    OBVIOUS
  <2>4. row \in Row /\ row.status # "none" /\ row.photos = listings[ListingOf(p)].photos \cup {request[p].data}
    BY <1>6, <2>1, <2>2, <2>3 DEF Row
  <2>5. PICK outcome \in {"ok", "error"} : Respond(p, outcome, request[p].data)
    BY <1>7, <2>1 DEF WizardEffect, Asked
  <2>6. Put(ListingOf(p), row)
    BY <1>7, <2>1, <2>3 DEF WizardEffect, Asked
  <2>7. outcome \in Outcome
    BY <2>5 DEF Outcome
  <2>8. request'[p].outcome = outcome
    BY <1>2, <2>1, <2>5, <2>7, RespondIs
  <2> QED
    BY <1>1, <1>2, <2>1, <2>4, <2>5, <2>6, <2>7, <2>8, ChangeResponseGood
<1>8. ASSUME Asked(p, "deleteListingPhoto"), WizardEffect(p)
      PROVE  WizardGood' /\ (PhotosInv => PhotosInv')
  <2>1. At(p, "asked") /\ request[p].kind = "deleteListingPhoto"
    BY <1>8 DEF Asked
  <2>3. PICK row : row = [listings[ListingOf(p)] EXCEPT !.photos = @ \ {request[p].data}]
    OBVIOUS
  <2>4. row \in Row /\ row.status # "none" /\ row.photos = listings[ListingOf(p)].photos \ {request[p].data}
    BY <1>6, <2>1, <2>3 DEF Row
  <2>5. Respond(p, "ok", request[p].data) /\ "ok" \in Outcome
    BY <1>8, <2>1 DEF WizardEffect, Asked, Outcome
  <2>6. Put(ListingOf(p), row)
    BY <1>8, <2>1, <2>3 DEF WizardEffect, Asked
  <2> QED
    BY <1>1, <1>2, <2>1, <2>4, <2>5, <2>6, ChangeResponseGood
<1>9. ASSUME Asked(p, "publishListing"), WizardEffect(p)
      PROVE  WizardGood' /\ (PhotosInv => PhotosInv')
  <2>1. At(p, "asked") /\ request[p].kind = "publishListing"
    BY <1>9 DEF Asked
  <2>3. PICK row : row = [listings[ListingOf(p)] EXCEPT !.status = "ACTIVE"]
    OBVIOUS
  <2>4. row \in Row /\ row.status # "none" /\ row.photos = listings[ListingOf(p)].photos
    BY <1>6, <2>1, <2>3 DEF Row
  <2>5. Respond(p, "ok", Nothing) /\ "ok" \in Outcome
    BY <1>9, <2>1 DEF WizardEffect, Asked, Outcome
  <2>6. Put(ListingOf(p), row)
    BY <1>9, <2>1, <2>3 DEF WizardEffect, Asked
  <2> QED
    BY <1>1, <2>1, <2>4, <2>5, <2>6, ChangeResponseGood
<1>10. \/ At(p, "asked") /\ Respond(p, "error", request[p].data) /\ UNCHANGED listings
       \/ WizardEffect(p)
  BY DEF WizardResponds
<1>11. WizardEffect(p) => \/ Asked(p, "createListing") \/ Asked(p, "getOwnedListingForEdit")
                          \/ Asked(p, "uploadListingPhoto") \/ Asked(p, "deleteListingPhoto")
                          \/ Asked(p, "publishListing")
  BY DEF WizardEffect
<1> QED
  BY <1>3, <1>4, <1>5, <1>7, <1>8, <1>9, <1>10, <1>11

-----------------------------------------------------------------------------
(* Every step of the page.                                                 *)

WizardAction(calmly) ==
    \/ \E p \in Process : WizardAsks(p) /\ (calmly => AllIdle)
    \/ \E p \in Process : WizardResponds(p) /\ (calmly => request'[p].outcome = "ok")
    \/ \E p \in Process : WizardGoesOn(p) \/ WizardIgnores(p)
    \/ WizardTouched

LEMMA WizardNext ==
    ASSUME WizardGood, NEW calmly, WizardAction(calmly)
    PROVE  WizardGood' /\ (calmly /\ PhotosInv => PhotosInv')
<1>1. ASSUME NEW p \in Process, WizardAsks(p), calmly => AllIdle
      PROVE  WizardGood' /\ (calmly /\ PhotosInv => PhotosInv')
  <2>1. CASE \E l \in Listing : OpenEdit(p, l)
    BY <1>1, <2>1, OpenEditGood
  <2>2. CASE HandleSubmit(p)
    BY <1>1, <2>2, CreateGood, EditButtons
  <2>3. CASE ReloadEdit(p) \/ HandlePublish(p)
    BY <1>1, <2>3, EditButtons
  <2>4. CASE \E ph \in Photo : HandlePhotoChange(p, ph) \/ HandleDeletePhoto(p, ph)
    BY <1>1, <2>4, EditButtons
  <2> QED
    BY <1>1, <2>1, <2>2, <2>3, <2>4 DEF WizardAsks
<1>2. ASSUME NEW p \in Process, WizardGoesOn(p) PROVE WizardGood' /\ (PhotosInv => PhotosInv')
  BY <1>2, EditLoadedGood, PhotoUploadedGood, PhotoDeletedGood, ListingUpdatedGood, ListingCreatedGood,
     PendingUploadedGood, PublishedGood DEF WizardGoesOn
<1>3. ASSUME WizardTouched PROVE WizardGood' /\ (PhotosInv => PhotosInv')
  BY <1>3, OpenCreateGood, LeaveWizardGood, PendingGood DEF WizardTouched
<1> QED
  BY <1>1, <1>2, <1>3, WizardRespondsGood, WizardIgnoresGood DEF WizardAction

LEMMA WizardShowsIt == WizardGood /\ PhotosInv => PhotosAreCurrent
<1> SUFFICES ASSUME WizardGood, PhotosInv, wizard.open, wizard.listing # "none", ~Waiting(Kind)
             PROVE  wizard.uploaded = listings[wizard.route].photos
  BY DEF PhotosAreCurrent
<1>1. wizard.route # Nothing
  BY EditFacts DEF Edits
<1>2. \A p \in Process : request[p].kind \in Kind
  BY DEF WizardGood, WizardRequestsOK, RequestTypeOK, Frame
<1>3. \A p \in Process : ~Live(p)
  BY <1>2 DEF Waiting
<1> QED
  BY <1>1, <1>3 DEF PhotosInv, isEditMode

\* The page is closed by one who leaves it, and then the requests that change something go on,
\* or by the request that is the last of a submission or a publication.
LEMMA WhoClosesIt ==
    ASSUME WizardGood, NEW calmly, WizardAction(calmly), wizard.open, ~wizard'.open,
           NEW p \in Process, At(p, "answer"), request[p].kind \in Changing, request'[p] = Idle
    PROVE  \/ Published(p)
           \/ ListingCreated(p) /\ SubmittedOf(p) = {}
           \/ PendingUploaded(p) /\ Ok(p) /\ LeftOf(p) = {}
<1>1. wizard \in Wizard
  BY EditFacts
<1>2. request'[p].at = "idle"
  BY DEF Idle
<1>3. Abandoned(Changing)[p].at = "answer" /\ Abandoned(Changing) \in [Process -> Frame(Triple, Carried)]
  BY AbandonedIs DEF WizardGood, WizardRequestsOK, Triple, Carried, Alike, At
<1>4. ~LeaveWizard
  BY <1>2, <1>3 DEF LeaveWizard, Abandon
<1>5. ASSUME NEW q \in Process, AbandonAfter(q, Changing) PROVE q = p
  BY <1>2, <1>3, <1>5 DEF AbandonAfter
<1>6. wizard' # wizard
  OBVIOUS
<1>7. ASSUME NEW q \in Process, WizardAsks(q) PROVE FALSE
  <2>1. ~ \E l \in Listing : OpenEdit(q, l)
    BY DEF OpenEdit
  <2>2. ASSUME NEW ph \in Photo, HandleDeletePhoto(q, ph) PROVE FALSE
    BY <1>1, <2>2 DEF HandleDeletePhoto, SetWizard, Wizard
  <2> QED
    BY <1>6, <1>7, <2>1, <2>2 DEF WizardAsks, ReloadEdit, HandleSubmit, HandlePublish, HandlePhotoChange, wizardVars
<1>8. ASSUME NEW q \in Process, WizardGoesOn(q)
      PROVE  AbandonAfter(q, Changing) /\ (ListingCreated(q) \/ PendingUploaded(q) \/ Published(q))
  <2>1. ~EditLoaded(q)
    BY <1>1, <1>6 DEF EditLoaded, SetWizard, Wizard, wizardVars
  <2>2. ~PhotoUploaded(q)
    BY <1>1, <1>6 DEF PhotoUploaded, SetWizard, Wizard, wizardVars
  <2>3. ~PhotoDeleted(q)
    BY <1>1 DEF PhotoDeleted, SetWizard, Wizard
  <2>4. ~ListingUpdated(q)
    BY <1>6 DEF ListingUpdated, wizardVars
  <2> QED
    BY <1>6, <1>8, <2>1, <2>2, <2>3, <2>4
       DEF WizardGoesOn, ListingCreated, PendingUploaded, Published, Upload, wizardVars
<1>9. ~WizardTouched
  <2>1. ~OpenCreate
    BY DEF OpenCreate
  <2>2. ~ \E ph \in Photo : ChoosePhoto(ph) \/ RemovePendingPhoto(ph)
    BY <1>1 DEF ChoosePhoto, RemovePendingPhoto, SetWizard, Wizard
  <2> QED
    BY <1>4, <2>1, <2>2 DEF WizardTouched
<1>10. \E q \in Process : WizardGoesOn(q)
  BY <1>6, <1>7, <1>9 DEF WizardAction, WizardResponds, WizardIgnores, wizardVars
<1>11. ListingCreated(p) \/ PendingUploaded(p) \/ Published(p)
  BY <1>5, <1>8, <1>10
<1>12. ListingCreated(p) => Ok(p) /\ SubmittedOf(p) = {}
  BY <1>6 DEF ListingCreated, Upload, wizardVars
<1>13. PendingUploaded(p) => Ok(p) /\ LeftOf(p) = {}
  BY <1>6 DEF PendingUploaded, Upload, wizardVars
<1> QED
  BY <1>11, <1>12, <1>13

LEMMA WizardArrives ==
    ASSUME WizardGood, NEW calmly, WizardAction(calmly), NEW p \in Process
    PROVE  SubmittedPhotosArrive(p)
<1> SUFFICES ASSUME request[p].kind \in {"createListing", "uploadListingPhoto"}, At(p, "answer"), Live(p),
                    wizard.open, ~wizard'.open, request'[p] = Idle, SubmittedOf(p) # {}
             PROVE  /\ request[p].kind = "uploadListingPhoto"
                    /\ SubmittedOf(p) \subseteq listings[ListingOf(p)].photos
  BY DEF SubmittedPhotosArrive
<1>1. request[p].kind \in Changing
  BY DEF Changing
<1>2. PendingUploaded(p) /\ Ok(p) /\ LeftOf(p) = {}
  BY <1>1, WhoClosesIt DEF Published, Answered
<1>3. request[p].kind = "uploadListingPhoto" /\ Submits(request[p])
  BY <1>2 DEF PendingUploaded, Answered, Submits, SubmittedOf
<1>4. request[p].about[2] \subseteq request[p].about[3] \cup listings[request[p].about[1]].photos
  BY <1>2, <1>3, EditFacts DEF FitsIn, At, Live, Ok
<1> QED
  BY <1>2, <1>3, <1>4 DEF SubmittedOf, LeftOf, ListingOf

-----------------------------------------------------------------------------
(* The pages together.                                                     *)

\* The history of a behaviour, and the page it is about.
Along == path' = path /\ calm' \in BOOLEAN /\ (calm' => calm)

LEMMA StepIsOfAPage ==
    ASSUME TypeOK, Next
    PROVE  /\ Along
           /\ \/ OnListing /\ ListingAction
              \/ OnCalendar /\ CalendarAction(calm')
              \/ OnBooking /\ DealAction(calm')
              \/ OnEdit /\ WizardAction(calm')
              \/ OnHome /\ CatalogAction(calm')
<1>1. Along
  <2>1. path' = path
    BY DEF Next, TouchStep, AskStep, AskBothStep, RespondStep, GoOnStep, AnswerStep, IgnoreStep,
           OnListing, OnCalendar, OnBooking, OnEdit, OnHome
  <2>2. calm' \in BOOLEAN /\ (calm' => calm)
    <3>1. calm \in BOOLEAN
      BY DEF TypeOK
    <3>2. \/ UNCHANGED calm
          \/ calm' = (calm /\ \A r \in Process : At(r, "idle"))
          \/ \E p \in Process : calm' = (calm /\ request'[p].outcome = "ok")
          \/ \E outcome \in Outcome : calm' = (calm /\ outcome = "ok")
      BY DEF Next, TouchStep, AskStep, AskBothStep, RespondStep, GoOnStep, AnswerStep, IgnoreStep, CalmAsk
    <3>3. CASE UNCHANGED calm
      BY <3>1, <3>3
    <3>4. CASE calm' = (calm /\ \A r \in Process : At(r, "idle"))
      BY <3>4
    <3>5. ASSUME NEW p \in Process, calm' = (calm /\ request'[p].outcome = "ok")
          PROVE  calm' \in BOOLEAN /\ (calm' => calm)
      BY <3>5
    <3>6. ASSUME NEW outcome, calm' = (calm /\ outcome = "ok") PROVE calm' \in BOOLEAN /\ (calm' => calm)
      BY <3>6
    <3> QED
      BY <3>2, <3>3, <3>4, <3>5, <3>6
  <2> QED
    BY <2>1, <2>2 DEF Along
<1> DEFINE Steps == \/ OnListing /\ ListingAction
                    \/ OnCalendar /\ CalendarAction(calm')
                    \/ OnBooking /\ DealAction(calm')
                    \/ OnEdit /\ WizardAction(calm')
                    \/ OnHome /\ CatalogAction(calm')
<1>2. ASSUME TouchStep PROVE Steps
  BY <1>2 DEF TouchStep, ListingAction, CalendarAction, DealAction, WizardAction, CatalogAction
<1>3. ASSUME CalmAsk PROVE calm' => AllIdle
  BY <1>3 DEF CalmAsk, AllIdle
<1>4. ASSUME NEW p \in Process, AskStep(p) PROVE Steps
  BY <1>3, <1>4 DEF AskStep, ListingAction, CalendarAction, DealAction, WizardAction, CatalogAction
<1>5. ASSUME NEW p \in Process, NEW q \in Process, AskBothStep(p, q) PROVE Steps
  BY <1>3, <1>5 DEF AskBothStep, ListingAction, CalendarAction, DealAction
<1>6. ASSUME NEW p \in Process, RespondStep(p) PROVE Steps
  BY <1>6 DEF RespondStep, DealAction, WizardAction
<1>7. ASSUME NEW p \in Process, GoOnStep(p) PROVE Steps
  BY <1>7 DEF GoOnStep, DealAction, WizardAction
<1>8. ASSUME NEW p \in Process, IgnoreStep(p) PROVE Steps
  BY <1>8 DEF IgnoreStep, ListingAction, CalendarAction, DealAction, WizardAction
<1>9. ASSUME NEW p \in Process, NEW outcome \in Outcome, AnswerStep(p, outcome) PROVE Steps
  BY <1>9 DEF AnswerStep, ListingAction, CalendarAction, CatalogAction
<1> QED
  BY <1>1, <1>2, <1>4, <1>5, <1>6, <1>7, <1>8, <1>9 DEF Next

\* The pages that have never been opened are as they were.
OthersTypeOK == /\ path # "listing" => ListingTypeOK /\ ListingInit
                /\ path # "calendar" => CalendarTypeOK /\ CalendarInit
                /\ path # "booking" => DealTypeOK /\ deal = DealClosed
                /\ path # "edit" => WizardTypeOK /\ WizardInit
                /\ path # "home" => CatalogTypeOK /\ CatalogInit

LEMMA OthersStay ==
    ASSUME OthersTypeOK, path' = path,
           path # "listing" => UNCHANGED listingVars,
           path # "calendar" => UNCHANGED calendar,
           path # "booking" => UNCHANGED dealVars,
           path # "edit" => UNCHANGED wizardVars,
           path # "home" => UNCHANGED catalog
    PROVE  OthersTypeOK'
<1>1. UNCHANGED listingVars /\ ListingTypeOK /\ ListingInit => ListingTypeOK' /\ ListingInit'
  BY DEF listingVars, ListingTypeOK, ListingInit
<1>2. UNCHANGED calendar /\ CalendarTypeOK /\ CalendarInit => CalendarTypeOK' /\ CalendarInit'
  BY DEF CalendarTypeOK, CalendarInit
<1>3. UNCHANGED dealVars /\ DealTypeOK /\ deal = DealClosed => DealTypeOK' /\ deal' = DealClosed
  BY DEF dealVars, DealTypeOK
<1>4. UNCHANGED wizardVars /\ WizardTypeOK /\ WizardInit => WizardTypeOK' /\ WizardInit'
  BY DEF wizardVars, WizardTypeOK, WizardInit
<1>5. UNCHANGED catalog /\ CatalogTypeOK /\ CatalogInit => CatalogTypeOK' /\ CatalogInit'
  BY DEF CatalogTypeOK, CatalogInit
<1> QED
  BY <1>1, <1>2, <1>3, <1>4, <1>5 DEF OthersTypeOK

LEMMA IInvIs ==
    IInv <=> /\ path \in Path /\ calm \in BOOLEAN /\ OthersTypeOK
             /\ path = "listing" => ListingGood
             /\ path = "calendar" => CalendarGood /\ (calm => MonthInv)
             /\ path = "booking" => DealGood /\ (calm => StatusInv)
             /\ path = "edit" => WizardGood /\ (calm => PhotosInv)
             /\ path = "home" => CatalogGood /\ (calm => CategoryInv)
BY DEF IInv, TypeOK, OthersTypeOK, ListingGood, CalendarGood, DealGood, WizardGood, CatalogGood

LEMMA IInvWillBe ==
    IInv' <=> /\ path' \in Path /\ calm' \in BOOLEAN /\ OthersTypeOK'
              /\ path' = "listing" => ListingGood'
              /\ path' = "calendar" => CalendarGood' /\ (calm' => MonthInv')
              /\ path' = "booking" => DealGood' /\ (calm' => StatusInv')
              /\ path' = "edit" => WizardGood' /\ (calm' => PhotosInv')
              /\ path' = "home" => CatalogGood' /\ (calm' => CategoryInv')
BY DEF IInv, TypeOK, OthersTypeOK, ListingGood, CalendarGood, DealGood, WizardGood, CatalogGood

LEMMA InitIsGood == Init => IInv
<1> SUFFICES ASSUME Init PROVE IInv
  OBVIOUS
<1>1. \A p \in Process : request[p] = Idle
  BY DEF Init
<1>2. \A p \in Process : request[p].at = "idle" /\ ~request[p].live
  BY <1>1, IdleFrame
<1>3. \A Subject, Data : RequestTypeOK(Subject, Data)
  BY IdleFrame DEF Init, RequestTypeOK
<1>4. ListingTypeOK /\ ListingInit /\ ListingInv
  BY <1>2 DEF Init, ListingTypeOK, ListingInit, Details, Modal, DetailsClosed, ModalClosed, ListingInv, ListingFits
<1>5. CalendarTypeOK /\ CalendarInit /\ CalendarInv
  BY <1>2 DEF Init, CalendarTypeOK, CalendarInit, Calendar, CalendarClosed, CalendarInv, Acts, At, Asked, Live
<1>6. DealTypeOK /\ deal = DealClosed /\ DealInv /\ StatusInv
  BY <1>2 DEF Init, DealInit, DealTypeOK, Deal, DealClosed, BookingStatus, DealInv, StatusInv, Deals, At, Live
<1>7. WizardTypeOK /\ WizardInit
  BY DEF Init, WizardTypeOK, WizardInit, Wizard, WizardClosed, Row
<1>8. WizardInv /\ PhotosInv
  BY <1>2, <1>7, WizardInvIs DEF WizardInit, WizardClosed, FitsIn, Placed, Edits, Apart, PhotosInv, At
<1>9. CatalogTypeOK /\ CatalogInit /\ CatalogInv /\ CategoryInv
  BY <1>2 DEF Init, CatalogTypeOK, CatalogInit, Catalog, CatalogClosed, CatalogInv, CategoryInv, At, Asked
<1>10. MonthInv
  BY <1>2, <1>5 DEF CalendarInit, CalendarClosed, MonthInv, Asked, At
<1> QED
  BY <1>3, <1>4, <1>5, <1>6, <1>7, <1>8, <1>9, <1>10, IInvIs
     DEF Init, OthersTypeOK, ListingGood, ListingRequestsOK, CalendarGood, CalendarRequestsOK, DealGood, DealRequestsOK,
         WizardGood, WizardRequestsOK, CatalogGood, CatalogRequestsOK

LEMMA StutterIsGood == ASSUME IInv, UNCHANGED vars PROVE IInv'
<1>1. UNCHANGED <<request, details, modal, calendar, deal, status, wizard, listings, catalog, path, calm>>
  BY DEF vars, pageVars, listingVars, dealVars, wizardVars
<1>2. OthersTypeOK'
  BY <1>1, IInvIs, OthersStay DEF listingVars, dealVars, wizardVars
<1>3. ListingGood => ListingGood'
  BY <1>1 DEF ListingGood, ListingTypeOK, ListingRequestsOK, RequestTypeOK, ListingInv, ListingFits, ListingInit
<1>4. CalendarGood => CalendarGood'
  BY <1>1 DEF CalendarGood, CalendarTypeOK, CalendarRequestsOK, RequestTypeOK, CalendarInv, CalendarInit,
              At, Live, Asked, Acts, Selected
<1>5. MonthInv => MonthInv'
  BY <1>1 DEF MonthInv, Asked, At
<1>6. DealGood => DealGood'
  BY <1>1 DEF DealGood, DealTypeOK, DealRequestsOK, RequestTypeOK, DealInv, At, Ok, Live
<1>7. StatusInv => StatusInv'
  BY <1>1 DEF StatusInv, Deals, At, Ok, Live
<1>8. WizardGood => WizardGood'
  BY <1>1, WizardInvIs, WizardInvWillBe DEF WizardGood, WizardTypeOK, WizardRequestsOK, RequestTypeOK
<1>9. PhotosInv => PhotosInv'
  BY <1>1 DEF PhotosInv, isEditMode, At, Ok, Live, Answered, PhotosAfter
<1>10. CatalogGood => CatalogGood'
  BY <1>1 DEF CatalogGood, CatalogTypeOK, CatalogRequestsOK, RequestTypeOK, CatalogInv, At, Live
<1>11. CategoryInv => CategoryInv'
  BY <1>1 DEF CategoryInv, Asked, At
<1> QED
  BY <1>1, <1>2, <1>3, <1>4, <1>5, <1>6, <1>7, <1>8, <1>9, <1>10, <1>11, IInvIs, IInvWillBe

LEMMA NextIsGood == ASSUME IInv, Next PROVE IInv'
<1>1. TypeOK
  BY DEF IInv
<1>2. path \in Path /\ OthersTypeOK
  BY IInvIs
<1>3. Along
  BY <1>1, StepIsOfAPage
<1>4. PICK calmly : calmly = calm'
  OBVIOUS
<1>5. CASE OnListing /\ ListingAction
  <2>1. OthersTypeOK'
    BY <1>2, <1>3, <1>5, OthersStay DEF OnListing, Along
  <2>2. ListingGood'
    BY <1>5, IInvIs, ListingNext DEF OnListing
  <2> QED
    BY <1>2, <1>3, <1>5, <2>1, <2>2, IInvWillBe DEF OnListing, Along
<1>6. CASE OnCalendar /\ CalendarAction(calm')
  <2>1. OthersTypeOK'
    BY <1>2, <1>3, <1>6, OthersStay DEF OnCalendar, Along
  <2>2. CalendarAction(calmly)
    BY <1>4, <1>6 DEF CalendarAction
  <2>3. CalendarGood' /\ (calm' => MonthInv')
    BY <1>3, <1>4, <1>6, <2>2, IInvIs, CalendarNext DEF OnCalendar, Along
  <2> QED
    BY <1>2, <1>3, <1>6, <2>1, <2>3, IInvWillBe DEF OnCalendar, Along
<1>7. CASE OnBooking /\ DealAction(calm')
  <2>1. OthersTypeOK'
    BY <1>2, <1>3, <1>7, OthersStay DEF OnBooking, Along
  <2>2. DealAction(calmly)
    BY <1>4, <1>7 DEF DealAction
  <2>3. DealGood' /\ (calm' => StatusInv')
    BY <1>3, <1>4, <1>7, <2>2, IInvIs, DealNext DEF OnBooking, Along
  <2> QED
    BY <1>2, <1>3, <1>7, <2>1, <2>3, IInvWillBe DEF OnBooking, Along
<1>8. CASE OnEdit /\ WizardAction(calm')
  <2>1. OthersTypeOK'
    BY <1>2, <1>3, <1>8, OthersStay DEF OnEdit, Along
  <2>2. WizardAction(calmly)
    BY <1>4, <1>8 DEF WizardAction
  <2>3. WizardGood' /\ (calm' => PhotosInv')
    BY <1>3, <1>4, <1>8, <2>2, IInvIs, WizardNext DEF OnEdit, Along
  <2> QED
    BY <1>2, <1>3, <1>8, <2>1, <2>3, IInvWillBe DEF OnEdit, Along
<1>9. CASE OnHome /\ CatalogAction(calm')
  <2>1. OthersTypeOK'
    BY <1>2, <1>3, <1>9, OthersStay DEF OnHome, Along
  <2>2. CatalogAction(calmly)
    BY <1>4, <1>9 DEF CatalogAction
  <2>3. CatalogGood' /\ (calm' => CategoryInv')
    BY <1>3, <1>4, <1>9, <2>2, IInvIs, CatalogNext DEF OnHome, Along
  <2> QED
    BY <1>2, <1>3, <1>9, <2>1, <2>3, IInvWillBe DEF OnHome, Along
<1> QED
  BY <1>1, <1>5, <1>6, <1>7, <1>8, <1>9, StepIsOfAPage

-----------------------------------------------------------------------------
(* What holds in every behaviour.                                          *)

\* The pages of the client and the requests they have made fit together at all times, and more
\* closely as long as requests do not overlap: the inductive invariant.
THEOREM PagesInvariance == Spec => []IInv
<1>1. IInv /\ [Next]_vars => IInv'
  BY NextIsGood, StutterIsGood
<1> QED
  BY <1>1, InitIsGood, PTL DEF Spec

\* The pages and their requests keep their types: what an answer brings is what its page takes,
\* for any listings, dates, photos and words and any number of requests.
THEOREM PagesTypeCorrect == Spec => []TypeOK
<1>1. IInv => TypeOK
  BY DEF IInv
<1> QED
  BY <1>1, PagesInvariance, PTL

LEMMA InitShowsNothing ==
    /\ ListingInit => ListingIsCurrent /\ RetryIsWhatIsShown
    /\ CalendarInit => MonthIsCurrent /\ ForcedRangeWasWarned
    /\ deal = DealClosed => StatusIsCurrent
    /\ WizardInit => PhotosAreCurrent
    /\ CatalogInit => CategoryIsCurrent
BY DEF ListingInit, ListingIsCurrent, RetryIsWhatIsShown, ListingShown, ModalShown, DetailsClosed, ModalClosed,
       CalendarInit, CalendarClosed, MonthIsCurrent, ForcedRangeWasWarned, PanelShown,
       DealClosed, StatusIsCurrent, DealShown, WizardInit, WizardClosed, PhotosAreCurrent,
       CatalogInit, CatalogClosed, CategoryIsCurrent

\* The page of a listing shows the one of its address in whichever order the answers come.  The
\* calendar, the page of a booking, the form of a listing and the catalog show what there is as
\* long as no two requests overlapped and none failed.
THEOREM ViewsStayCurrent == Spec => []ViewsAreCurrent
<1>1. IInv => ViewsAreCurrent
  <2> SUFFICES ASSUME IInv PROVE ViewsAreCurrent
    OBVIOUS
  <2>1. ListingIsCurrent
    BY IInvIs, InitShowsNothing, ListingShowsIt DEF OthersTypeOK
  <2>2. calm => MonthIsCurrent
    BY IInvIs, InitShowsNothing, CalendarShowsIt DEF OthersTypeOK
  <2>3. calm => StatusIsCurrent
    BY IInvIs, InitShowsNothing, DealShowsIt DEF OthersTypeOK
  <2>4. calm => PhotosAreCurrent
    BY IInvIs, InitShowsNothing, WizardShowsIt DEF OthersTypeOK
  <2>5. calm => CategoryIsCurrent
    BY IInvIs, InitShowsNothing, CatalogShowsIt DEF OthersTypeOK
  <2> QED
    BY <2>1, <2>2, <2>3, <2>4, <2>5 DEF ViewsAreCurrent
<1> QED
  BY <1>1, PagesInvariance, PTL

\* The retry of a payment is for the listing and the dates that stand in the window, and a forced
\* unblocking for the days the warning was about, whatever was asked for in the meantime.
THEOREM ButtonsKeepTheirMeaning == Spec => []ButtonsMeanWhatIsShown
<1>1. IInv => ButtonsMeanWhatIsShown
  <2> SUFFICES ASSUME IInv PROVE ButtonsMeanWhatIsShown
    OBVIOUS
  <2>1. RetryIsWhatIsShown
    BY IInvIs, InitShowsNothing, ListingShowsIt DEF OthersTypeOK
  <2>2. ForcedRangeWasWarned
    BY IInvIs, InitShowsNothing, CalendarShowsIt DEF OthersTypeOK
  <2> QED
    BY <2>1, <2>2 DEF ButtonsMeanWhatIsShown
<1> QED
  BY <1>1, PagesInvariance, PTL

\* The page of a new listing follows only when every photo that was chosen at its submission is
\* on it, however the uploads end and whatever else is asked for.
THEOREM SubmissionsArrive == Spec => PhotosArrive
<1>1. IInv /\ [Next]_vars => [\A p \in Process : SubmittedPhotosArrive(p)]_vars
  <2> SUFFICES ASSUME IInv, Next, NEW p \in Process PROVE SubmittedPhotosArrive(p)
    OBVIOUS
  <2>1. CASE OnEdit /\ WizardAction(calm')
    <3>1. PICK calmly : calmly = calm'
      OBVIOUS
    <3>2. WizardAction(calmly)
      BY <2>1, <3>1 DEF WizardAction
    <3>3. WizardGood
      BY <2>1, IInvIs DEF OnEdit
    <3> QED
      BY <3>2, <3>3, WizardArrives
  <2>2. CASE path # "edit"
    <3>1. wizard.open = FALSE
      BY <2>2, IInvIs DEF OthersTypeOK, WizardInit, WizardClosed
    <3> QED
      BY <3>1 DEF SubmittedPhotosArrive
  <2>3. TypeOK
    BY DEF IInv
  <2> QED
    BY <2>1, <2>2, <2>3, StepIsOfAPage DEF OnListing, OnCalendar, OnBooking, OnHome
<1> QED
  BY <1>1, PagesInvariance, PTL DEF PhotosArrive, Spec
=============================================================================
