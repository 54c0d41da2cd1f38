--------------------------- MODULE CreateItemPage ---------------------------
(***************************************************************************)
(* The page that creates a listing, with the photos that are uploaded to   *)
(* it one by one, and the same page that edits one.  The text of the form  *)
(* is left out.                                                            *)
(***************************************************************************)
EXTENDS PageRequests

CONSTANTS
    Photo,
    MaxPhotos,      \* of a listing
    MaxRequests     \* bound: how many requests of this page are in flight together

ASSUME PhotoAssumption == MaxPhotos \in Nat /\ MaxRequests \in Nat

VARIABLES
    wizard,     \* the page
    listings    \* the listings in the backend

wizardVars == <<wizard, listings>>

\* route is the listing that is edited, listing the one that has been loaded.
Wizard == [open : BOOLEAN, route : Listing \cup {Nothing},
           listing : {"none", "DRAFT", "ACTIVE"},
           pending : SUBSET Photo, uploaded : SUBSET Photo,
           deleting : Photo \cup {Nothing}]

WizardClosed == [open |-> FALSE, route |-> Nothing, listing |-> "none", pending |-> {},
                 uploaded |-> {}, deleting |-> Nothing]

Row == [status : {"none", "DRAFT", "ACTIVE"}, photos : SUBSET Photo]

WizardTypeOK == wizard \in Wizard /\ listings \in [Listing -> Row]
WizardRequestsOK ==
    RequestTypeOK((Listing \cup {Nothing}) \X (SUBSET Photo) \X (SUBSET Photo),
                  Listing \cup Photo \cup Row)
WizardInit == /\ wizard = WizardClosed
              /\ listings = [l \in Listing |-> [status |-> "none", photos |-> {}]]

isEditMode == wizard.route # Nothing
uploadingPhoto == Waiting({"uploadListingPhoto"})
submitting == \/ Waiting({"createListing", "updateListing"})
              \/ ~isEditMode /\ uploadingPhoto
Changing == {"createListing", "uploadListingPhoto", "deleteListingPhoto", "publishListing"}
publishing == Waiting({"publishListing"})

\* The listing of a request; in the course of a submission also the photos that were
\* pending then, and those still to be uploaded.
About(l, submitted, left) == <<l, submitted, left>>
ListingOf(p) == request[p].about[1]
SubmittedOf(p) == request[p].about[2]
LeftOf(p) == request[p].about[3]

SetWizard(change) == wizard' = change /\ UNCHANGED listings

-----------------------------------------------------------------------------

OpenCreate ==
    /\ ~wizard.open
    /\ SetWizard([WizardClosed EXCEPT !.open = TRUE])
    /\ UNCHANGED request

OpenEdit(p, l) ==
    /\ ~wizard.open /\ listings[l].status # "none"
    /\ SetWizard([WizardClosed EXCEPT !.open = TRUE, !.route = l])
    /\ AskAnew(p, {"getOwnedListingForEdit"}, "getOwnedListingForEdit", About(l, {}, {}))

\* A new access token, or a new user object.
ReloadEdit(p) ==
    /\ wizard.open /\ isEditMode
    /\ AskAnew(p, {"getOwnedListingForEdit"}, "getOwnedListingForEdit", About(wizard.route, {}, {}))
    /\ UNCHANGED wizardVars

EditLoaded(p) ==
    /\ Answered(p, "getOwnedListingForEdit") /\ Live(p)
    /\ IF Ok(p) THEN SetWizard([wizard EXCEPT !.listing = request[p].data.status,
                                              !.uploaded = request[p].data.photos])
                ELSE UNCHANGED wizardVars
    /\ Return(p)

-----------------------------------------------------------------------------
(* Photos.                                                                 *)

Chosen(ph) == ph \in wizard.uploaded \cup wizard.pending

CanUpload(ph) ==
    /\ wizard.open /\ ~uploadingPhoto /\ ~Chosen(ph)
    /\ Cardinality(wizard.uploaded) + Cardinality(wizard.pending) < MaxPhotos

\* Before there is a listing the photo waits for it.
ChoosePhoto(ph) ==
    /\ CanUpload(ph) /\ ~isEditMode
    /\ SetWizard([wizard EXCEPT !.pending = @ \cup {ph}])
    /\ UNCHANGED request

HandlePhotoChange(p, ph) ==
    /\ CanUpload(ph) /\ isEditMode
    /\ Ask(p, "uploadListingPhoto", About(wizard.route, {}, {}), ph)
    /\ UNCHANGED wizardVars

RemovePendingPhoto(ph) ==
    /\ wizard.open /\ ph \in wizard.pending
    /\ SetWizard([wizard EXCEPT !.pending = @ \ {ph}])
    /\ UNCHANGED request

PhotoUploaded(p) ==
    /\ Answered(p, "uploadListingPhoto") /\ SubmittedOf(p) = {}
    /\ IF Live(p) /\ Ok(p) THEN SetWizard([wizard EXCEPT !.uploaded = @ \cup {request[p].data}])
                           ELSE UNCHANGED wizardVars
    /\ Return(p)

\* The last photo of a published listing has no button.
HandleDeletePhoto(p, ph) ==
    /\ wizard.open /\ ph \in wizard.uploaded /\ wizard.deleting # ph /\ ~uploadingPhoto
    /\ wizard.listing = "ACTIVE" => Cardinality(wizard.uploaded) > 1
    /\ SetWizard([wizard EXCEPT !.deleting = ph])
    /\ Ask(p, "deleteListingPhoto", About(wizard.route, {}, {}), ph)

PhotoDeleted(p) ==
    /\ Answered(p, "deleteListingPhoto") /\ Live(p)
    /\ SetWizard([wizard EXCEPT !.deleting = Nothing,
                                !.uploaded = IF Ok(p) THEN @ \ {request[p].data} ELSE @])
    /\ Return(p)

-----------------------------------------------------------------------------
(* Saving and publishing.                                                  *)

HandleSubmit(p) ==
    /\ wizard.open /\ ~submitting
    /\ IF isEditMode THEN Ask(p, "updateListing", About(wizard.route, {}, {}), Nothing)
                     ELSE Ask(p, "createListing", About(Nothing, wizard.pending, wizard.pending), Nothing)
    /\ UNCHANGED wizardVars

\* Of the listing it changes the text only.
ListingUpdated(p) == Asked(p, "updateListing") /\ Return(p) /\ UNCHANGED wizardVars

\* The photos that were pending at the submission are uploaded to the new listing, then
\* its page follows.
Upload(p, l, left) ==
    IF left = {} THEN SetWizard(WizardClosed) /\ AbandonAfter(p, Changing)
    ELSE /\ \E ph \in left :
               Begin(p, [Request("uploadListingPhoto", About(l, SubmittedOf(p), left \ {ph}), ph)
                            EXCEPT !.live = Live(p)])
         /\ UNCHANGED wizardVars

ListingCreated(p) ==
    /\ Answered(p, "createListing")
    /\ IF Ok(p) THEN Upload(p, request[p].data, SubmittedOf(p))
                ELSE Return(p) /\ UNCHANGED wizardVars

\* Mutant: a photo that fails does not stop the others.
PendingUploadedAnyway(p) ==
    /\ Answered(p, "uploadListingPhoto") /\ SubmittedOf(p) # {}
    /\ Upload(p, ListingOf(p), LeftOf(p))

\* The first failure ends it: the draft is there, and the page still creates another.
PendingUploaded(p) ==
    /\ Answered(p, "uploadListingPhoto") /\ SubmittedOf(p) # {}
    /\ IF Ok(p) THEN Upload(p, ListingOf(p), LeftOf(p))
                ELSE Return(p) /\ UNCHANGED wizardVars

HandlePublish(p) ==
    /\ wizard.open /\ wizard.listing = "DRAFT" /\ wizard.uploaded # {} /\ ~publishing
    /\ Ask(p, "publishListing", About(wizard.route, {}, {}), Nothing)
    /\ UNCHANGED wizardVars

Published(p) ==
    /\ Answered(p, "publishListing")
    /\ IF Ok(p) THEN SetWizard(WizardClosed) /\ AbandonAfter(p, Changing)
                ELSE Return(p) /\ UNCHANGED wizardVars

\* bound: what was asked before the page was last left has been answered
LeaveWizard ==
    /\ wizard.open /\ \A p \in Process : At(p, "idle") \/ Live(p)
    /\ SetWizard(WizardClosed)
    /\ Abandon(Changing)

-----------------------------------------------------------------------------
(* The backend, of which ListingSystem has the whole.                      *)

Put(l, row) == listings' = [listings EXCEPT ![l] = row]

WizardEffect(p) ==
    LET l == ListingOf(p)
    IN  \/ /\ Asked(p, "createListing")
           /\ \E new \in Listing : /\ listings[new].status = "none"
                                   /\ Put(new, [status |-> "DRAFT", photos |-> {}])
                                   /\ Respond(p, "ok", new)
        \/ /\ Asked(p, "getOwnedListingForEdit")
           /\ Respond(p, "ok", listings[l])
           /\ UNCHANGED listings
        \/ /\ Asked(p, "uploadListingPhoto")
           /\ Cardinality(listings[l].photos) < MaxPhotos
           /\ Put(l, [listings[l] EXCEPT !.photos = @ \cup {request[p].data}])
           /\ \E outcome \in {"ok", "error"} : Respond(p, outcome, request[p].data)
        \/ /\ Asked(p, "deleteListingPhoto")
           /\ listings[l].status = "ACTIVE" => Cardinality(listings[l].photos) > 1
           /\ request[p].data \in listings[l].photos
           /\ Put(l, [listings[l] EXCEPT !.photos = @ \ {request[p].data}])
           /\ Respond(p, "ok", request[p].data)
        \/ /\ Asked(p, "publishListing")
           /\ listings[l].status = "DRAFT" /\ listings[l].photos # {}
           /\ Put(l, [listings[l] EXCEPT !.status = "ACTIVE"])
           /\ Respond(p, "ok", Nothing)

WizardResponds(p) ==
    /\ \/ WizardEffect(p)
       \/ /\ At(p, "asked") /\ request[p].kind # "updateListing"
          /\ Respond(p, "error", request[p].data)
          /\ UNCHANGED listings
    /\ UNCHANGED wizard

WizardIgnores(p) ==
    /\ \/ Ignored(p, {"getOwnedListingForEdit"})
       \/ At(p, "answer") /\ Ignored(p, {"deleteListingPhoto"})
    /\ UNCHANGED wizardVars

WizardAsks(p) ==
    /\ Cardinality({r \in Process : ~At(r, "idle")}) < MaxRequests
    /\ \/ \E l \in Listing : OpenEdit(p, l)
       \/ ReloadEdit(p) \/ HandleSubmit(p) \/ HandlePublish(p)
       \/ \E ph \in Photo : HandlePhotoChange(p, ph) \/ HandleDeletePhoto(p, ph)

WizardGoesOn(p) ==
    \/ EditLoaded(p) \/ PhotoUploaded(p) \/ PhotoDeleted(p) \/ ListingUpdated(p)
    \/ ListingCreated(p) \/ PendingUploaded(p) \/ Published(p)

WizardTouched == \/ OpenCreate \/ LeaveWizard
                 \/ \E ph \in Photo : ChoosePhoto(ph) \/ RemovePendingPhoto(ph)

-----------------------------------------------------------------------------
(* What the page shows and does.                                           *)

\* When nothing overlapped the photos of the form are those of the listing.
PhotosAreCurrent ==
    wizard.open /\ wizard.listing # "none" /\ ~Waiting(Kind) =>
        wizard.uploaded = listings[wizard.route].photos

\* The page goes to the new listing only when every photo that was pending at the
\* submission is on it.
SubmittedPhotosArrive(p) ==
    /\ request[p].kind \in {"createListing", "uploadListingPhoto"} /\ At(p, "answer") /\ Live(p)
    /\ wizard.open /\ ~isEditMode /\ ~wizard'.open /\ request'[p] = Idle
    => LET l == IF request[p].kind = "createListing" THEN request[p].data
                                                     ELSE ListingOf(p)
       IN  SubmittedOf(p) \subseteq listings[l].photos

-----------------------------------------------------------------------------
(* Why that is so.                                                         *)

\* f is a step of a submission that creates a listing.
Submits(f) == f.kind = "createListing" \/ (f.kind = "uploadListingPhoto" /\ f.about[2] # {})

\* The listing a submission has created.
Created(f) == IF f.kind = "createListing" THEN f.data ELSE f.about[1]
HasCreated(f) == IF f.kind = "createListing" THEN f.at = "answer" /\ f.outcome = "ok"
                                              ELSE f.at # "idle" /\ Submits(f)
Exists(l) == l \in Listing /\ listings[l].status # "none"

\* A request is about a listing there is, the one of the page if its user is still there, and
\* a submission has put the photos on it that it has done with.
WizardFits(f) ==
    /\ f.live => wizard.open /\ f.at # "idle"
    /\ f.at # "idle" =>
          /\ f.about \in (Listing \cup {Nothing}) \X (SUBSET Photo) \X (SUBSET Photo)
          /\ f.kind # "createListing" => Exists(f.about[1])
          /\ f.kind \in {"uploadListingPhoto", "deleteListingPhoto"} => f.data \in Photo
          /\ f.kind = "createListing" => f.about[2] = f.about[3]
          /\ HasCreated(f) => Exists(Created(f))
    /\ f.at = "answer" /\ f.kind = "getOwnedListingForEdit" /\ f.outcome = "ok" => f.data \in Row
    /\ f.live => IF Submits(f) THEN wizard.route = Nothing ELSE f.about[1] = wizard.route
    /\ f.live /\ f.kind = "uploadListingPhoto" /\ Submits(f) =>
          /\ f.at = "asked" => f.about[2] \subseteq f.about[3] \cup {f.data} \cup listings[f.about[1]].photos
          /\ f.at = "answer" /\ f.outcome = "ok" => f.about[2] \subseteq f.about[3] \cup listings[f.about[1]].photos

\* Nobody takes a photo from a listing that is still being submitted.
WizardInv ==
    /\ \A p \in Process : WizardFits(request[p])
    /\ isEditMode => Exists(wizard.route)
    /\ wizard.listing # "none" \/ wizard.uploaded # {} => isEditMode
    /\ \A p, q \in Process :
          /\ Live(p) /\ HasCreated(request[p])
          /\ ~At(q, "idle") /\ request[q].kind = "deleteListingPhoto"
          => Created(request[p]) # ListingOf(q)

\* The photos the form will show once the answer to f has been applied.
PhotosAfter(f) ==
    IF f.at # "answer" THEN wizard.uploaded
    ELSE CASE f.kind = "getOwnedListingForEdit" -> f.data.photos
           [] f.kind = "uploadListingPhoto" -> wizard.uploaded \cup {f.data}
           [] f.kind = "deleteListingPhoto" -> wizard.uploaded \ {f.data}
           [] OTHER -> wizard.uploaded

\* When requests did not overlap and none failed, those are the photos of the listing.
PhotosInv ==
    /\ \A p, q \in Process : ~At(p, "idle") /\ ~At(q, "idle") => p = q
    /\ \A p \in Process : At(p, "answer") => Ok(p)
    /\ wizard.open /\ isEditMode =>
          /\ \A p \in Process : ~At(p, "idle") => Live(p)
          /\ \A p \in Process :
                (wizard.listing # "none" /\ ~At(p, "idle")) \/ Answered(p, "getOwnedListingForEdit")
                => PhotosAfter(request[p]) = listings[wizard.route].photos
          /\ (\A p \in Process : At(p, "idle")) /\ wizard.listing # "none" =>
                wizard.uploaded = listings[wizard.route].photos
=============================================================================
