----------------------------- MODULE PagesSystem -----------------------------
(***************************************************************************)
(* The pages of the web client with the requests they make.  A behaviour   *)
(* is about one of the pages, which is opened, used, left and opened       *)
(* again, while the requests of before may still be in flight.             *)
(***************************************************************************)
EXTENDS ListingDetailsPage, ManageCalendarPage, BookingDetailPage, CreateItemPage, HomePage

CONSTANTS Path      \* the pages the behaviours are about

VARIABLES
    path,       \* the page of this behaviour
    calm        \* history: no two requests were in flight together, and none failed

pageVars == <<listingVars, calendar, dealVars, wizardVars, catalog>>
vars == <<request, pageVars, path, calm>>

ASSUME PathAssumption == Path \subseteq {"listing", "calendar", "booking", "edit", "home"}

TypeOK == /\ path = "listing" => ListingRequestsOK
          /\ path = "calendar" => CalendarRequestsOK
          /\ path = "booking" => DealRequestsOK
          /\ path = "edit" => WizardRequestsOK
          /\ path = "home" => CatalogRequestsOK
          /\ ListingTypeOK /\ CalendarTypeOK /\ DealTypeOK /\ WizardTypeOK /\ CatalogTypeOK
          /\ path \in Path
          /\ calm \in BOOLEAN

Init == /\ request = [p \in Process |-> Idle]
        /\ ListingInit /\ CalendarInit /\ DealInit /\ WizardInit /\ CatalogInit
        /\ path \in Path
        /\ calm = TRUE

OnListing == path = "listing" /\ UNCHANGED <<calendar, dealVars, wizardVars, catalog, path>>
OnCalendar == path = "calendar" /\ UNCHANGED <<listingVars, dealVars, wizardVars, catalog, path>>
OnBooking == path = "booking" /\ UNCHANGED <<listingVars, calendar, wizardVars, catalog, path>>
OnEdit == path = "edit" /\ UNCHANGED <<listingVars, calendar, dealVars, catalog, path>>
OnHome == path = "home" /\ UNCHANGED <<listingVars, calendar, dealVars, wizardVars, path>>

-----------------------------------------------------------------------------

CalmAsk == calm' = (calm /\ \A r \in Process : At(r, "idle"))

\* One thing is asked for, or two at once.
AskStep(p) ==
    /\ \/ OnListing /\ ListingAsks(p)
       \/ OnCalendar /\ CalendarAsks(p)
       \/ OnBooking /\ DealAsks(p)
       \/ OnEdit /\ WizardAsks(p)
       \/ OnHome /\ CatalogAsks(p)
    /\ CalmAsk

AskBothStep(p, q) ==
    /\ \/ OnListing /\ (ListingNewToken(p, q) \/ \E d \in Dates : OpenBookingStep1(p, q, d))
       \/ OnCalendar /\ \E m \in Month : OpenCalendar(p, q, m)
       \/ OnBooking /\ DealNewToken(p, q)
    /\ CalmAsk

\* The backend works on the booking or the listing of the page.
RespondStep(p) ==
    /\ \/ OnBooking /\ DealResponds(p)
       \/ OnEdit /\ WizardResponds(p)
    /\ calm' = (calm /\ request'[p].outcome = "ok")

GoOnStep(p) ==
    /\ \/ OnBooking /\ DealGoesOn(p)
       \/ OnEdit /\ WizardGoesOn(p)
    /\ UNCHANGED calm

\* Other answers come when they come.
AnswerStep(p, outcome) ==
    /\ \/ OnListing /\ ListingAnswered(p, outcome)
       \/ OnCalendar /\ CalendarAnswered(p, outcome)
       \/ OnHome /\ CatalogAnswered(p, outcome)
    /\ calm' = (calm /\ outcome = "ok")

IgnoreStep(p) ==
    /\ \/ OnListing /\ ListingIgnores(p) /\ UNCHANGED listingVars
       \/ OnCalendar /\ CalendarIgnores(p) /\ UNCHANGED calendar
       \/ OnBooking /\ DealIgnores(p) /\ UNCHANGED dealVars
       \/ OnEdit /\ WizardIgnores(p)
    /\ UNCHANGED calm

TouchStep == /\ \/ OnListing /\ ListingTouched
                \/ OnCalendar /\ CalendarTouched
                \/ OnBooking /\ (DealTouched \/ OthersChange)
                \/ OnEdit /\ WizardTouched
                \/ OnHome /\ CatalogTouched
             /\ UNCHANGED calm

Next == \/ TouchStep
        \/ \E p \in Process : \/ AskStep(p) \/ RespondStep(p) \/ GoOnStep(p) \/ IgnoreStep(p)
                              \/ \E outcome \in Outcome : AnswerStep(p, outcome)
                              \/ \E q \in Process : AskBothStep(p, q)

Spec == Init /\ [][Next]_vars

-----------------------------------------------------------------------------

\* A page shows what it is the page of: the listing of the address whatever happens, and
\* the days, the booking, the photos and the catalog when requests did not overlap.
ViewsAreCurrent ==
    /\ ListingIsCurrent
    /\ calm => MonthIsCurrent /\ StatusIsCurrent /\ PhotosAreCurrent /\ CategoryIsCurrent

\* What a button repeats or forces is what the page shows next to it.
ButtonsMeanWhatIsShown == RetryIsWhatIsShown /\ ForcedRangeWasWarned

\* A listing that has just been created is shown with the photos it was submitted with.
PhotosArrive == [][\A p \in Process : SubmittedPhotosArrive(p)]_vars

\* Together these are inductive: the page of the behaviour is as its module says, and the
\* others have never been opened.
IInv == /\ TypeOK
        /\ IF path = "listing" THEN ListingInv ELSE ListingInit
        /\ IF path = "calendar" THEN CalendarInv /\ (calm => MonthInv) ELSE CalendarInit
        /\ IF path = "booking" THEN DealInv /\ (calm => StatusInv) ELSE deal = DealClosed
        /\ IF path = "edit" THEN WizardInv /\ (calm => PhotosInv) ELSE WizardInit
        /\ IF path = "home" THEN CatalogInv /\ (calm => CategoryInv) ELSE CatalogInit
=============================================================================
