--------------------------- MODULE ListingsService ---------------------------
(***************************************************************************)
(* ListingsService: the owner creates, edits, publishes and deletes a      *)
(* listing and its photos.  Other columns than the text change nothing     *)
(* here; refusals on the user, the category and the file are requests that *)
(* are not made.  Saved texts are all marked ALLOW: others are rejected.   *)
(***************************************************************************)
EXTENDS ListingTable

\* createListing: nobody knows the id before the insert.
CreateListing(text) ==
    /\ listing.status = "ABSENT"
    /\ Allows("draft", text)
    /\ listing' = [status |-> "DRAFT", text |-> text]
    /\ UNCHANGED <<photos, searchVars, process>>

\* The text as it is with some of its columns replaced.
UpdatedText(next, parts) ==
    [title |-> IF "title" \in parts THEN next.title ELSE listing.text.title,
     description |-> IF "description" \in parts THEN next.description
                                               ELSE listing.text.description]

\* updateOwnedListing up to the moderation, for the text as it would then be.
UpdateListing(p, next, parts) ==
    /\ At(p, "idle")
    /\ Exists
    /\ next = UpdatedText(next, parts)
    /\ Begin(p, [Idle EXCEPT !.at = "update_write", !.text = next, !.parts = parts])
    /\ UNCHANGED <<listingVars, searchVars>>

\* Mutant: a new description is not moderated.
WriteDescriptionFreely(p) ==
    /\ At(p, "update_write")
    /\ Exists
    /\ "title" \in process[p].parts => Allows("draft", process[p].text)
    /\ listing' = [listing EXCEPT !.text = UpdatedText(process[p].text, process[p].parts)]
    /\ IndexIf(p, listing.status = "ACTIVE")
    /\ UNCHANGED <<photos, searchVars>>

\* The update sets the columns it was asked to.
WriteUpdate(p) ==
    /\ At(p, "update_write")
    /\ Exists
    /\ process[p].parts # {} => Allows("draft", process[p].text)
    /\ listing' = [listing EXCEPT !.text = UpdatedText(process[p].text, process[p].parts)]
    /\ IndexIf(p, listing.status = "ACTIVE")
    /\ UNCHANGED <<photos, searchVars>>

\* Rejected, or the row is gone.
UpdateRefused(p) ==
    /\ At(p, "update_write")
    /\ \/ ~Exists
       \/ process[p].parts # {} /\ Rejects("draft", process[p].text)
    /\ Return(p)
    /\ UNCHANGED <<listingVars, searchVars>>

-----------------------------------------------------------------------------
(* Photos.                                                                 *)

Places(rows) == {photo.order : photo \in rows}

WithPrimary(id) == {[photo EXCEPT !.isPrimary = photo.id = id] : photo \in photos}

\* Mutant: off by one.
HasRoomForOneMore == Cardinality(photos) <= MaxPhotos

HasRoom == Cardinality(photos) < MaxPhotos

\* Mutant: the first photo is the primary one only when it is asked to be.
BecomesPrimaryIfAsked(isPrimary) == isPrimary

BecomesPrimary(isPrimary) == photos = {} \/ isPrimary

\* uploadPhoto up to the upload to the storage.  resolvePhotoOrder takes any free
\* place: one that was asked for, or the one after the last.
UploadPhoto(p, order, isPrimary) ==
    /\ At(p, "idle")
    /\ Exists
    /\ HasRoom
    /\ order \notin Places(photos)
    /\ LET primary == BecomesPrimary(isPrimary)
       IN  Begin(p, [Idle EXCEPT !.at = IF primary THEN "photo_demote" ELSE "photo_create",
                                 !.order = order, !.primary = primary,
                                 !.active = listing.status = "ACTIVE"])
    /\ UNCHANGED <<listingVars, searchVars>>

\* The others are no longer primary.
DemotePhotos(p) ==
    /\ \/ At(p, "photo_demote") /\ GoTo(p, "photo_create")
       \/ At(p, "photo_clear") /\ GoTo(p, "photo_promote")
    /\ photos' = WithPrimary(NoPhoto)
    /\ UNCHANGED <<listing, searchVars>>

\* Ids are not used twice while anybody remembers them.
UsedPhotoIds == {photo.id : photo \in photos} \cup {process[p].photo : p \in Process}

\* The photo takes the place that was found free, unless it is taken by now.
CreatePhoto(p) ==
    /\ At(p, "photo_create")
    /\ Exists
    /\ process[p].order \notin Places(photos)
    /\ PhotoId \ UsedPhotoIds # {}
    /\ photos' = photos \cup {[id |-> CHOOSE i \in PhotoId \ UsedPhotoIds : TRUE,
                               order |-> process[p].order,
                               isPrimary |-> process[p].primary]}
    /\ IndexIf(p, process[p].active)
    /\ UNCHANGED <<listing, searchVars>>

\* The place is taken by now, or the listing is gone.
PhotoRefused(p) ==
    /\ At(p, "photo_create")
    /\ ~Exists \/ process[p].order \in Places(photos)
    /\ Return(p)
    /\ UNCHANGED <<listingVars, searchVars>>

\* deleteListingPhoto.  A published listing keeps its last photo.
DeletePhoto(p, photo) ==
    /\ At(p, "idle")
    /\ Exists
    /\ photo \in photos
    /\ listing.status = "ACTIVE" => Cardinality(photos) > 1
    /\ Begin(p, [Idle EXCEPT !.at = "photo_delete", !.photo = photo.id,
                             !.primary = photo.isPrimary,
                             !.active = listing.status = "ACTIVE"])
    /\ UNCHANGED <<listingVars, searchVars>>

HasPhoto(id) == \E photo \in photos : photo.id = id

RemovePhoto(p) ==
    /\ At(p, "photo_delete")
    /\ HasPhoto(process[p].photo)
    /\ photos' = {photo \in photos : photo.id # process[p].photo}
    /\ GoTo(p, "photo_remaining")
    /\ UNCHANGED <<listing, searchVars>>

\* When the primary one went, the first of those that remain takes its place.
ReadRemaining(p) ==
    /\ At(p, "photo_remaining")
    /\ \/ /\ process[p].primary
          /\ \E first \in photos :
                /\ \A photo \in photos : first.order <= photo.order
                /\ Begin(p, [process[p] EXCEPT !.at = "photo_clear", !.photo = first.id])
       \/ /\ ~process[p].primary \/ photos = {}
          /\ IndexIf(p, process[p].active)
    /\ UNCHANGED <<listingVars, searchVars>>

PromotePhoto(p) ==
    /\ At(p, "photo_promote")
    /\ HasPhoto(process[p].photo)
    /\ photos' = {IF photo.id = process[p].photo THEN [photo EXCEPT !.isPrimary = TRUE]
                                                 ELSE photo : photo \in photos}
    /\ IndexIf(p, process[p].active)
    /\ UNCHANGED <<listing, searchVars>>

\* The photo to delete or to promote is gone.
PhotoMissing(p) ==
    /\ At(p, "photo_delete") \/ At(p, "photo_promote")
    /\ ~HasPhoto(process[p].photo)
    /\ Return(p)
    /\ UNCHANGED <<listingVars, searchVars>>

-----------------------------------------------------------------------------

\* publishListing up to the moderation.
PublishListing(p) ==
    /\ At(p, "idle")
    /\ listing.status = "DRAFT"
    /\ photos # {}
    /\ Begin(p, [Idle EXCEPT !.at = "publish_write", !.text = listing.text])
    /\ UNCHANGED <<listingVars, searchVars>>

WritePublication(p) ==
    /\ At(p, "publish_write")
    /\ Exists
    /\ Allows("publish", process[p].text)
    /\ listing' = [listing EXCEPT !.status = "ACTIVE"]
    /\ IndexIf(p, TRUE)
    /\ UNCHANGED <<photos, searchVars>>

PublicationRefused(p) ==
    /\ At(p, "publish_write")
    /\ ~Exists \/ Rejects("publish", process[p].text)
    /\ Return(p)
    /\ UNCHANGED <<listingVars, searchVars>>

\* deleteListing, when no booking is in the way.  Bookings and the calendar, which
\* go with the row, are not looked at here.
DeleteListing(p) ==
    /\ At(p, "idle")
    /\ Exists
    /\ Begin(p, [Idle EXCEPT !.at = "delete_photos"])
    /\ UNCHANGED <<listingVars, searchVars>>

DeletePhotos(p) ==
    /\ At(p, "delete_photos")
    /\ photos' = {}
    /\ GoTo(p, "delete_row")
    /\ UNCHANGED <<listing, searchVars>>

\* Mutant: photos added meanwhile stay behind.
DeleteRowAlone(p) ==
    /\ At(p, "delete_row")
    /\ Exists
    /\ listing' = [status |-> "DELETED", text |-> NoText]
    /\ Begin(p, [Idle EXCEPT !.at = "unindex"])
    /\ UNCHANGED <<photos, searchVars>>

\* Photos added meanwhile go with the row.
DeleteRow(p) ==
    /\ At(p, "delete_row")
    /\ Exists
    /\ listing' = [status |-> "DELETED", text |-> NoText]
    /\ photos' = {}
    /\ Begin(p, [Idle EXCEPT !.at = "unindex"])
    /\ UNCHANGED searchVars

RowMissing(p) ==
    /\ At(p, "delete_row")
    /\ ~Exists
    /\ Return(p)
    /\ UNCHANGED <<listingVars, searchVars>>

ListingStep(p) ==
    \/ WriteUpdate(p) \/ UpdateRefused(p)
    \/ DemotePhotos(p) \/ CreatePhoto(p) \/ PhotoRefused(p)
    \/ RemovePhoto(p) \/ ReadRemaining(p) \/ PromotePhoto(p) \/ PhotoMissing(p)
    \/ WritePublication(p) \/ PublicationRefused(p)
    \/ DeletePhotos(p) \/ DeleteRow(p) \/ RowMissing(p)
=============================================================================
