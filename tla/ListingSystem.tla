---------------------------- MODULE ListingSystem ----------------------------
(***************************************************************************)
(* A listing from its creation to its deletion, under the requests of its  *)
(* owner, the searches of others and the script that rebuilds the index,   *)
(* any of which may overlap and may break off in the middle.               *)
(***************************************************************************)
EXTENDS ListingsService, ListingSearch

CONSTANTS
    Workload,       \* bound: the sets of requests that are made together
    Created         \* bound: the texts that listings are created with

\* The requests of the owner, the script, and the searches.
Request == {"update", "upload", "delete_photo", "publish", "delete", "reindex"} \cup QueryKind

ASSUME WorkloadAssumption == Workload \subseteq SUBSET Request /\ Created \subseteq Text

VARIABLES
    workload,       \* the requests that are made in this behaviour
    calm            \* history: no two requests have overlapped and none has failed

vars == <<tableVars, workload, calm>>

\* The listing is still to be created, or is a draft with a photo.
Init == /\ \/ listing = [status |-> "ABSENT", text |-> NoText] /\ photos = {}
           \/ \E text \in Created, id \in PhotoId :
                 /\ Allows("draft", text)
                 /\ listing = [status |-> "DRAFT", text |-> text]
                 /\ photos = {[id |-> id, order |-> 0, isPrimary |-> TRUE]}
        /\ document = NoText
        /\ cache = [q \in Query |-> NoAnswer]
        /\ process = [p \in Process |-> Idle]
        /\ workload \in Workload
        /\ calm = TRUE

IdleAll == \A p \in Process : At(p, "idle")

CreateStep == /\ \E text \in Created : CreateListing(text)
              /\ UNCHANGED <<workload, calm>>

\* A request starts.
RequestStep(p) ==
    /\ \/ /\ "update" \in workload
          /\ \E next \in Text, parts \in SUBSET Part : UpdateListing(p, next, parts)
       \/ /\ "upload" \in workload
          /\ \E order \in Order, isPrimary \in BOOLEAN : UploadPhoto(p, order, isPrimary)
       \/ /\ "delete_photo" \in workload
          /\ \E photo \in photos : DeletePhoto(p, photo)
       \/ "publish" \in workload /\ PublishListing(p)
       \/ "delete" \in workload /\ DeleteListing(p)
       \/ "reindex" \in workload /\ Reindex(p)
       \/ \E query \in Query \cap workload : Search(p, query)
    /\ calm' = (calm /\ IdleAll)
    /\ UNCHANGED workload

HandlerStep(p) == /\ ListingStep(p) \/ SearchStep(p)
                  /\ UNCHANGED <<workload, calm>>

\* A call of the handler fails, or the backend stops: what was done stays done.
\* A failure to index is swallowed, which comes to the same.
Fail(p) == /\ ~At(p, "idle")
           /\ Return(p)
           /\ UNCHANGED <<listingVars, searchVars>>

FailureStep(p) == /\ Fail(p) \/ SearchUnavailable(p)
                  /\ calm' = FALSE
                  /\ UNCHANGED workload

ExpiryStep(query) == Expire(query) /\ UNCHANGED <<workload, calm>>

Next == \/ CreateStep
        \/ \E p \in Process : RequestStep(p) \/ HandlerStep(p) \/ FailureStep(p)
        \/ \E query \in Query : ExpiryStep(query)

Spec == Init /\ [][Next]_vars

\* Redis lets every answer go when its time is over.
FairSpec == Spec /\ \A query \in Query : WF_vars(ExpiryStep(query))

-----------------------------------------------------------------------------
(* Safety.                                                                 *)

\* Types, and what the database keeps: the photos belong to a listing, and their
\* ids and their places are unique.
TypeOK == /\ TableTypeOK
          /\ workload \in Workload
          /\ calm \in BOOLEAN
          /\ Exists <=> listing.text # NoText
          /\ photos # {} => Exists
          /\ \A a, b \in photos : a.id = b.id \/ a.order = b.order => a = b

Clean(text) == Severity(Found[text]) = "none"

HasCleanTitle(title) == \E d \in Description : Clean([title |-> title, description |-> d])
HasCleanDescription(description) ==
    \E t \in Title : Clean([title |-> t, description |-> description])

\* Whatever overlaps, and whatever a language model says, no title and no
\* description is saved that the rules object to in every text.
PartsAreClean == Enabled /\ Exists => /\ HasCleanTitle(listing.text.title)
                                      /\ HasCleanDescription(listing.text.description)

\* The rules look at a title and a description together.  Two updates that overlap
\* may leave a pair that nobody looked at (updateOwnedListing writes only what it
\* was asked to); one after the other they may not.
CalmTextIsClean == Enabled /\ calm /\ Exists => Clean(listing.text)

Primary == {photo \in photos : photo.isPrimary}

\* One request after the other, a listing has at most MaxPhotos photos, one of them
\* the primary one, and a published listing has a photo.
CalmPhotos == calm /\ IdleAll => /\ Cardinality(photos) <= MaxPhotos
                                 /\ photos # {} => Cardinality(Primary) = 1
                                 /\ listing.status = "ACTIVE" => photos # {}

Uploads == {p \in Process : At(p, "photo_demote") \/ At(p, "photo_create")}

\* Uploads that overlap may exceed the limit, but by no more than there are
\* uploads besides the first.
PhotosBounded == Cardinality(photos) + Cardinality(Uploads)
                     <= MaxPhotos + Cardinality(Process) - 1

Answers == {cache[query] : query \in Query} \ {NoAnswer}

\* A draft is shown to nobody: no document, no suggestion and no answer has
\* anything of it, and none is on its way.
DraftsAreHidden ==
    listing.status \in {"ABSENT", "DRAFT"} => /\ document = NoText
                                              /\ Answers \subseteq {Empty}
                                              /\ \A p \in Process : process[p].answer = Empty

Fresh(query) ==
    IF listing.status # "ACTIVE" THEN Empty
    ELSE IF query = "prefix" THEN Suggestion(listing.text) ELSE Shown

\* One request after the other, the index follows the row, and an answer in the
\* cache is the one that would be given now.
CalmIndexFollows ==
    calm /\ IdleAll =>
        /\ document = IF listing.status = "ACTIVE" THEN listing.text ELSE NoText
        /\ \A query \in Query : cache[query] \in {NoAnswer, Fresh(query)}

-----------------------------------------------------------------------------
(* Why it holds: an inductive invariant.                                   *)

\* A text is carried to where it is needed.
FrameInv == \A p \in Process : process[p].at \in {"update_write", "publish_write", "index_write"}
                                    => process[p].text # NoText

\* Nobody is about to index a draft, or has found it in the index.
HiddenInv == DraftsAreHidden
             /\ (listing.status \in {"ABSENT", "DRAFT"} =>
                    \A p \in Process : process[p].at \notin {"index_write", "search_hydrate"})

IInv == TypeOK /\ FrameInv /\ PartsAreClean /\ HiddenInv /\ PhotosBounded

\* As long as no two requests have overlapped, the text that an update had moderated
\* is still the one that its write will leave.
CalmInv ==
    calm => /\ \A p, q \in Process : ~At(p, "idle") /\ ~At(q, "idle") => p = q
            /\ \A p \in Process : At(p, "update_write") =>
                  Exists /\ process[p].text = UpdatedText(process[p].text, process[p].parts)

CalmIInv == IInv /\ CalmInv /\ CalmTextIsClean

\* Where the one request that is at work stands with the photos: which of them is
\* the primary one, and what it has read and relies on.
OnePrimary == photos = {} \/ \E a \in Primary : \A b \in Primary : a = b

PhotoStage(p) ==
    LET f == process[p]
    IN  /\ Cardinality(photos) <= MaxPhotos
        /\ f.at \in {"photo_demote", "photo_create"} =>
              HasRoom /\ Exists /\ f.order \notin Places(photos)
        /\ f.at = "photo_demote" => f.primary
        /\ f.at = "photo_create" /\ ~f.primary => photos # {}
        /\ f.at = "photo_delete" =>
              /\ \E photo \in photos : photo.id = f.photo /\ photo.isPrimary = f.primary
              /\ listing.status = "ACTIVE" => \E photo \in photos : photo.id # f.photo
        /\ f.at \in {"photo_clear", "photo_promote"} => HasPhoto(f.photo)
        /\ f.at = "publish_write" => photos # {}
        /\ IF f.at = "delete_row" THEN photos = {}
                                  ELSE listing.status = "ACTIVE" => photos # {}
        /\ IF f.at = "photo_promote" \/ (f.at \in {"photo_create", "photo_remaining"} /\ f.primary)
           THEN Primary = {}
           ELSE f.at # "photo_clear" => OnePrimary

\* And with the index and the cache: what is behind the row, and what it will
\* bring up to date.
DocumentFollows == document = IF listing.status = "ACTIVE" THEN listing.text ELSE NoText

CacheFollows(queries) == \A query \in queries : cache[query] \in {NoAnswer, Fresh(query)}

ChangingPhotos == {"photo_remaining", "photo_clear", "photo_promote"}
Indexing == {"index_read", "index_write", "unindex"}
Invalidating == {"invalidate", "invalidate_prefix"}

IndexStage(p) ==
    LET f == process[p]
    IN  /\ f.at \in {"photo_demote", "photo_create", "photo_delete"} \cup ChangingPhotos =>
              (f.active <=> listing.status = "ACTIVE")
        /\ f.at \in {"index_read", "index_write", "search_hydrate"} => listing.status = "ACTIVE"
        /\ f.at = "index_write" => f.text = listing.text
        /\ f.at = "unindex" => /\ listing.status # "ACTIVE"
                               /\ document = NoText => CacheFollows(Query)
        /\ f.at = "invalidate_prefix" => CacheFollows(Query \ {"prefix"})
        /\ f.at \in {"search_hydrate", "search_database"} => f.query # "prefix"
        /\ f.at = "search_store" => f.answer = Fresh(f.query)
        /\ f.at \notin Indexing => DocumentFollows
        /\ f.at \in ChangingPhotos \cup {"delete_row"} =>
              listing.status = "ACTIVE" \/ CacheFollows(Query)
        /\ f.at \notin ChangingPhotos \cup {"delete_row"} \cup Indexing \cup Invalidating =>
              CacheFollows(Query)

StageInv ==
    calm => \A p \in Process : (\A q \in Process \ {p} : At(q, "idle")) =>
                PhotoStage(p) /\ IndexStage(p)

-----------------------------------------------------------------------------
(* Liveness.                                                               *)

\* A listing that was deleted disappears from the results for good, whatever
\* overlapped its deletion: a document may be left in the index, and an old answer
\* may be stored late, but results are read from the database and answers expire.
\* The suggestions, which come from the index, have no such guarantee.
DeletedLeavesResults ==
    listing.status = "DELETED"
        ~> [](\A query \in Query \ {"prefix"} : cache[query] \in {NoAnswer, Empty})
=============================================================================
