----------------------------- MODULE ListingTable -----------------------------
(***************************************************************************)
(* One listing of Rento: its row and its photos in Postgres, its document  *)
(* in Elasticsearch, the cached answers that may show it, and the requests *)
(* that work on it.  Listings do not depend on one another.                *)
(*                                                                         *)
(* A request is a sequence of awaited calls; nothing in this part of the   *)
(* code runs in a transaction.  It is a process with a label and what it   *)
(* carries across its awaits.                                              *)
(***************************************************************************)
EXTENDS ListingTextModeration

CONSTANTS
    PhotoId,        \* bound: ids for the rows of ListingPhoto
    NoPhoto,
    MaxPhotos,      \* MAX_LISTING_PHOTOS
    MaxOrder,       \* bound: the places of photos
    Query,          \* the searches that are made
    NoText, NoDescription,
    Empty,          \* an answer without the listing
    NoAnswer,
    Process         \* the requests that can be in flight together

VARIABLES
    listing,        \* status and text of the row
    photos,         \* the rows of ListingPhoto
    document,       \* what the index has of the listing
    cache,          \* the answers in Redis
    process         \* the requests

listingVars == <<listing, photos>>
searchVars == <<document, cache>>
tableVars == <<listing, photos, document, cache, process>>

\* DELETED stands for a row that is gone.
Listing == [status : {"ABSENT", "DRAFT", "ACTIVE", "DELETED"}, text : Text \cup {NoText}]

Order == 0..MaxOrder

Photo == [id : PhotoId, order : Order, isPrimary : BOOLEAN]

\* What an answer shows of the listing: of its row and photos, or, in the
\* suggestions of autocomplete, the title alone.
Content == [title : Title, description : Description \cup {NoDescription},
            photos : SUBSET PhotoId]

Answer == Content \cup {Empty}

\* A query without words, of one letter, of words, and a prefix to complete.
QueryKind == {"all", "letter", "words", "prefix"}

ASSUME ListingAssumption ==
    /\ NoText \notin Text
    /\ NoPhoto \notin PhotoId
    /\ Empty \notin Content /\ NoAnswer \notin Answer
    /\ IsFiniteSet(PhotoId) /\ IsFiniteSet(Process) /\ Process # {}
    /\ MaxPhotos \in Nat \ {0} /\ MaxOrder \in Nat
    /\ Query \subseteq QueryKind

Label == {"idle",
          "update_write",
          "photo_demote", "photo_create",
          "photo_delete", "photo_remaining", "photo_clear", "photo_promote",
          "publish_write",
          "delete_photos", "delete_row",
          "index_read", "index_write", "unindex", "invalidate", "invalidate_prefix",
          "search_index", "search_hydrate", "search_database", "search_store"}

Part == {"title", "description"}

Frame == [at : Label,
          text : Text \cup {NoText},        \* the text that was moderated or indexed
          parts : SUBSET Part,              \* the columns an update sets
          photo : PhotoId \cup {NoPhoto},   \* the photo to delete or to promote
          order : Order,                    \* the place of a new photo
          primary : BOOLEAN,                \* it becomes, or was, the primary one
          active : BOOLEAN,                 \* the listing was published when it was read
          query : QueryKind,
          answer : Answer]

Idle == [at |-> "idle", text |-> NoText, parts |-> {}, photo |-> NoPhoto, order |-> 0,
         primary |-> FALSE, active |-> FALSE, query |-> "all", answer |-> Empty]

TableTypeOK == /\ listing \in Listing
               /\ photos \subseteq Photo
               /\ document \in Text \cup {NoText}
               /\ cache \in [Query -> Answer \cup {NoAnswer}]
               /\ process \in [Process -> Frame]

At(p, label) == process[p].at = label

Begin(p, frame) == process' = [process EXCEPT ![p] = frame]
GoTo(p, label) == process' = [process EXCEPT ![p].at = label]
Return(p) == Begin(p, Idle)

Exists == listing.status \in {"DRAFT", "ACTIVE"}

\* indexListing is called when the listing was published, its failures are
\* swallowed, and the request is done.
IndexIf(p, published) == IF published THEN Begin(p, [Idle EXCEPT !.at = "index_read"])
                                      ELSE Return(p)
=============================================================================
