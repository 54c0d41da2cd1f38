------------------------- MODULE ListingSystemProofs -------------------------
(***************************************************************************)
(* What ListingSystem promises, for any texts, photos, queries and         *)
(* requests, and any thresholds of the moderation.                         *)
(***************************************************************************)
EXTENDS ListingSystem, FiniteSetTheorems, TLAPS

-----------------------------------------------------------------------------
(* The moderation.                                                         *)

LEMMA SeverityValues ==
    ASSUME NEW found PROVE Severity(found) \in {"hard_block", "warn", "none"}
BY DEF Severity

\* What the rules object to is never allowed, whatever a language model says.
LEMMA DecisionIsClean ==
    ASSUME NEW phase, NEW found, NEW llm, Decision(phase, found, llm) = "allow"
    PROVE  Severity(found) = "none"
<1>1. Blocked # "allow" /\ Flagged(phase, found) # "allow" /\ ModelBlocks(phase, found, llm) # "allow"
  BY DEF Blocked, Flagged, ModelBlocks
<1> QED
  BY <1>1, SeverityValues DEF Decision, OverBlocks, VagueWarning

\* fuseModeration: the phase decides between a warning and a block, and throwIfModerationRejects
\* rejects both, so a publication is refused for nothing that an edit is not refused for.
THEOREM PhaseNeverMatters ==
    ASSUME NEW found, NEW llm
    PROVE  Decision("draft", found, llm) = "allow" <=> Decision("publish", found, llm) = "allow"
<1>1. \A phase : /\ Blocked # "allow" /\ Flagged(phase, found) # "allow"
                 /\ ModelBlocks(phase, found, llm) # "allow"
  BY DEF Blocked, Flagged, ModelBlocks
<1> QED
  BY <1>1 DEF Decision

LEMMA AllowedIsClean ==
    ASSUME Enabled, NEW phase \in Phase, NEW text \in Text, Allows(phase, text)
    PROVE  Clean(text)
BY DecisionIsClean DEF Allows, Outcomes, Clean

-----------------------------------------------------------------------------
(* What a step does to the requests.                                       *)

\* An idle request carries nothing.
LEMMA IdleParts ==
    /\ Idle \in Frame
    /\ Idle.at = "idle" /\ Idle.text = NoText /\ Idle.answer = Empty
BY ListingAssumption DEF Idle, Frame, Label, Order, QueryKind, Answer

LEMMA BeginStep ==
    ASSUME process \in [Process -> Frame], NEW p \in Process, NEW frame \in Frame, Begin(p, frame)
    PROVE  /\ process' \in [Process -> Frame]
           /\ process'[p] = frame
           /\ \A q \in Process \ {p} : process'[q] = process[q]
BY DEF Begin

LEMMA ReturnStep ==
    ASSUME process \in [Process -> Frame], NEW p \in Process, Return(p)
    PROVE  /\ process' \in [Process -> Frame]
           /\ process'[p] = Idle
           /\ \A q \in Process \ {p} : process'[q] = process[q]
BY IdleParts, BeginStep DEF Return

LEMMA GoToStep ==
    ASSUME process \in [Process -> Frame], NEW p \in Process, NEW label \in Label, GoTo(p, label)
    PROVE  /\ process' \in [Process -> Frame]
           /\ process'[p].at = label
           /\ process'[p].text = process[p].text
           /\ process'[p].answer = process[p].answer
           /\ \A q \in Process \ {p} : process'[q] = process[q]
BY DEF GoTo, Frame

\* A request that may index next carries nothing either.
LEMMA IndexIfStep ==
    ASSUME process \in [Process -> Frame], NEW p \in Process, NEW published, IndexIf(p, published)
    PROVE  /\ process' \in [Process -> Frame]
           /\ process'[p].at \in {"idle", "index_read"}
           /\ process'[p].answer = Empty
           /\ \A q \in Process \ {p} : process'[q] = process[q]
<1> DEFINE frame == [Idle EXCEPT !.at = "index_read"]
<1>1. frame \in Frame /\ frame.at = "index_read" /\ frame.answer = Empty
  BY IdleParts DEF Frame, Label
<1>2. CASE published
  BY <1>1, <1>2, BeginStep DEF IndexIf
<1>3. CASE ~published
  BY <1>3, IdleParts, ReturnStep DEF IndexIf
<1> QED
  BY <1>2, <1>3

-----------------------------------------------------------------------------
(* Finite sets.                                                            *)

UploadLabel == {"photo_demote", "photo_create"}

\* A photo is given by its id.
LEMMA PhotosFinite ==
    ASSUME NEW rows \in SUBSET Photo, \A a, b \in rows : a.id = b.id => a = b
    PROVE  IsFiniteSet(rows) /\ Cardinality(rows) \in Nat
<1> DEFINE Ids == {photo.id : photo \in rows}
           f == [id \in Ids |-> CHOOSE photo \in rows : photo.id = id]
<1>1. IsFiniteSet(Ids)
  BY ListingAssumption, FS_Subset DEF Photo
<1>2. f \in Surjection(Ids, rows)
  BY DEF Surjection
<1> HIDE DEF Ids, f
<1> QED
  BY <1>1, <1>2, FS_Surjection, FS_CardinalityType

\* Images have no more elements.
LEMMA ImageFinite ==
    ASSUME NEW S, NEW T, NEW f \in [S -> T], IsFiniteSet(S), T = {f[x] : x \in S}
    PROVE  IsFiniteSet(T) /\ Cardinality(T) <= Cardinality(S)
BY FS_Surjection DEF Surjection

LEMMA UploadsFinite == IsFiniteSet(Uploads) /\ Cardinality(Uploads) \in Nat
BY ListingAssumption, FS_Subset, FS_CardinalityType DEF Uploads

\* The bound is kept when photos do not become more and no upload is added.
LEMMA BoundKeeps ==
    ASSUME TypeOK, TypeOK', PhotosBounded,
           Cardinality(photos') <= Cardinality(photos),
           \A p \in Process : process'[p].at \in UploadLabel => process[p].at \in UploadLabel
    PROVE  PhotosBounded'
<1>1. Cardinality(photos) \in Nat /\ Cardinality(photos') \in Nat
  BY PhotosFinite DEF TypeOK, TableTypeOK
<1>2. IsFiniteSet(Uploads) /\ Uploads' \subseteq Uploads
  BY UploadsFinite DEF Uploads, UploadLabel, At
<1>3. Cardinality(Uploads') <= Cardinality(Uploads)
  BY <1>2, FS_Subset
<1>4. Cardinality(Uploads) \in Nat /\ Cardinality(Uploads') \in Nat
  BY <1>2, FS_Subset, FS_CardinalityType
<1>5. MaxPhotos \in Nat /\ Cardinality(Process) \in Nat
  BY ListingAssumption, FS_CardinalityType
<1> QED
  BY <1>1, <1>3, <1>4, <1>5 DEF PhotosBounded

-----------------------------------------------------------------------------
(* Steps that leave the tables, the index and the cache alone.             *)

\* A request moves.  It must bring along what its new label asks for.
LEMMA MoveKeeps ==
    ASSUME IInv, NEW p \in Process,
           process' \in [Process -> Frame],
           \A q \in Process \ {p} : process'[q] = process[q],
           UNCHANGED <<listingVars, searchVars, workload>>, calm' \in BOOLEAN,
           process'[p].at \in {"update_write", "publish_write", "index_write"}
               => process'[p].text # NoText,
           listing.status \in {"ABSENT", "DRAFT"}
               => /\ process'[p].answer = Empty
                  /\ process'[p].at \notin {"index_write", "search_hydrate"},
           process'[p].at \in UploadLabel => HasRoom \/ process[p].at \in UploadLabel
    PROVE  IInv'
<1> USE DEF listingVars, searchVars
<1>1. TypeOK'
  BY DEF IInv, TypeOK, TableTypeOK, Exists
<1>2. FrameInv'
  BY DEF IInv, FrameInv
<1>3. PartsAreClean'
  BY DEF IInv, PartsAreClean, Exists
<1>4. HiddenInv'
  BY DEF IInv, HiddenInv, DraftsAreHidden, Answers
<1>5. PhotosBounded'
  <2>1. CASE process'[p].at \in UploadLabel => process[p].at \in UploadLabel
    <3>1. Cardinality(photos') <= Cardinality(photos)
      BY PhotosFinite DEF IInv, TypeOK, TableTypeOK
    <3> QED
      BY <1>1, <2>1, <3>1, BoundKeeps DEF IInv
  <2>2. CASE HasRoom
    <3>1. Uploads' \subseteq Process
      BY DEF Uploads
    <3>2. /\ Cardinality(Uploads') <= Cardinality(Process)
          /\ Cardinality(Uploads') \in Nat /\ Cardinality(Process) \in Nat
      BY <3>1, ListingAssumption, FS_Subset, FS_CardinalityType
    <3>3. Cardinality(photos) \in Nat
      BY PhotosFinite DEF IInv, TypeOK, TableTypeOK
    <3> QED
      BY <2>2, <3>2, <3>3, ListingAssumption DEF PhotosBounded, HasRoom
  <2> QED
    BY <2>1, <2>2
<1> QED
  BY <1>1, <1>2, <1>3, <1>4, <1>5 DEF IInv

\* A request starts.
LEMMA RequestKeeps ==
    ASSUME IInv, NEW p \in Process, RequestStep(p)
    PROVE  IInv'
<1> USE DEF listingVars, searchVars
<1>0. /\ process \in [Process -> Frame]
      /\ calm' \in BOOLEAN /\ UNCHANGED workload
      /\ Exists => listing.text \in Text
  BY DEF IInv, TypeOK, TableTypeOK, RequestStep, Listing
<1>1. ASSUME NEW frame \in Frame, Begin(p, frame), UNCHANGED <<listingVars, searchVars>>,
             frame.answer = Empty,
             frame.at \in {"update_write", "publish_write"} => frame.text # NoText,
             frame.at \notin {"index_write", "search_hydrate"},
             frame.at \in UploadLabel => HasRoom
      PROVE  IInv'
  <2>1. /\ process' \in [Process -> Frame]
        /\ process'[p] = frame
        /\ \A q \in Process \ {p} : process'[q] = process[q]
    BY <1>0, <1>1, BeginStep
  <2> QED
    BY <1>0, <1>1, <2>1, MoveKeeps
<1> USE IdleParts DEF Frame, Label, UploadLabel
<1>2. ASSUME NEW next \in Text, NEW parts \in SUBSET Part, UpdateListing(p, next, parts)
      PROVE  IInv'
  BY <1>1, <1>2, ListingAssumption DEF UpdateListing
<1>3. ASSUME NEW order \in Order, NEW isPrimary \in BOOLEAN, UploadPhoto(p, order, isPrimary)
      PROVE  IInv'
  <2>1. BecomesPrimary(isPrimary) \in BOOLEAN
    BY <1>3 DEF BecomesPrimary
  <2> QED
    BY <1>1, <1>3, <2>1 DEF UploadPhoto
<1>4. ASSUME NEW photo \in photos, DeletePhoto(p, photo)
      PROVE  IInv'
  <2>1. photo.id \in PhotoId /\ photo.isPrimary \in BOOLEAN
    BY <1>4 DEF IInv, TypeOK, TableTypeOK, Photo
  <2> QED
    BY <1>1, <1>4, <2>1 DEF DeletePhoto
<1>5. CASE PublishListing(p)
  BY <1>0, <1>1, <1>5, ListingAssumption DEF PublishListing, Exists
<1>6. CASE DeleteListing(p)
  BY <1>1, <1>6 DEF DeleteListing
<1>7. CASE Reindex(p)
  BY <1>1, <1>7 DEF Reindex, IndexIf
<1>8. ASSUME NEW query \in Query, Search(p, query)
      PROVE  IInv'
  BY <1>1, <1>8, ListingAssumption DEF Search
<1> QED
  BY <1>2, <1>3, <1>4, <1>5, <1>6, <1>7, <1>8 DEF RequestStep

\* Handlers that give up, and failures.
Abandon(p) == \/ UpdateRefused(p) \/ PhotoRefused(p) \/ PhotoMissing(p)
              \/ PublicationRefused(p) \/ RowMissing(p) \/ Fail(p)

LEMMA AbandonKeeps ==
    ASSUME IInv, NEW p \in Process, Abandon(p), UNCHANGED workload, calm' \in BOOLEAN
    PROVE  IInv'
<1>1. Return(p) /\ UNCHANGED <<listingVars, searchVars>>
  BY DEF Abandon, UpdateRefused, PhotoRefused, PhotoMissing, PublicationRefused, RowMissing, Fail
<1>2. /\ process' \in [Process -> Frame]
      /\ process'[p] = Idle
      /\ \A q \in Process \ {p} : process'[q] = process[q]
  BY <1>1, ReturnStep DEF IInv, TypeOK, TableTypeOK
<1> QED
  BY <1>1, <1>2, IdleParts, MoveKeeps DEF UploadLabel

\* Steps that read.
Reads(p) == \/ ReadRemaining(p) \/ IndexRead(p) \/ SearchHit(p) \/ Hydrate(p)
            \/ SearchMiss(p) \/ SearchDatabase(p) \/ SearchUnavailable(p)

LEMMA ShownIsAnswer ==
    ASSUME TypeOK, Exists
    PROVE  Shown \in Answer
BY DEF TypeOK, TableTypeOK, Listing, Text, Photo, Shown, Answer, Content, Exists

LEMMA ReadKeeps ==
    ASSUME IInv, NEW p \in Process, Reads(p), UNCHANGED workload, calm' \in BOOLEAN
    PROVE  IInv'
<1> USE DEF UploadLabel
<1>0. /\ process \in [Process -> Frame]
      /\ UNCHANGED <<listingVars, searchVars>>
      /\ listing.status \in {"ABSENT", "DRAFT"} =>
            /\ process[p].answer = Empty /\ document = NoText
            /\ process[p].at \notin {"index_write", "search_hydrate"}
  BY DEF IInv, TypeOK, TableTypeOK, HiddenInv, DraftsAreHidden, Reads, ReadRemaining, IndexRead,
         SearchHit, Hydrate, SearchMiss, SearchDatabase, SearchUnavailable
<1>1. ASSUME NEW frame \in Frame, Begin(p, frame),
             frame.at \in {"update_write", "publish_write", "index_write"} => frame.text # NoText,
             listing.status \in {"ABSENT", "DRAFT"} =>
                frame.answer = Empty /\ frame.at \notin {"index_write", "search_hydrate"},
             frame.at \notin UploadLabel
      PROVE  IInv'
  <2>1. /\ process' \in [Process -> Frame]
        /\ process'[p] = frame
        /\ \A q \in Process \ {p} : process'[q] = process[q]
    BY <1>0, <1>1, BeginStep
  <2> QED
    BY <1>0, <1>1, <2>1, MoveKeeps
<1>2. ASSUME NEW label \in Label, GoTo(p, label),
             label \notin {"update_write", "publish_write", "index_write"} \cup UploadLabel,
             listing.status \in {"ABSENT", "DRAFT"} => label # "search_hydrate"
      PROVE  IInv'
  BY <1>0, <1>2, GoToStep, MoveKeeps
<1>3. ASSUME NEW answer \in Answer, Answering(p, answer),
             listing.status \in {"ABSENT", "DRAFT"} => answer = Empty
      PROVE  IInv'
  <2> DEFINE frame == [process[p] EXCEPT !.at = "search_store", !.answer = answer]
  <2>1. frame \in Frame /\ frame.at = "search_store" /\ frame.answer = answer
    BY <1>0 DEF Frame, Label
  <2> QED
    BY <1>1, <1>3, <2>1 DEF Answering
<1>4. Empty \in Answer
  BY DEF Answer
<1>5. CASE ReadRemaining(p)
  <2>1. ASSUME NEW first \in photos,
               Begin(p, [process[p] EXCEPT !.at = "photo_clear", !.photo = first.id])
        PROVE  IInv'
    <3> DEFINE frame == [process[p] EXCEPT !.at = "photo_clear", !.photo = first.id]
    <3>1. first.id \in PhotoId
      BY DEF IInv, TypeOK, TableTypeOK, Photo
    <3>2. frame \in Frame /\ frame.at = "photo_clear" /\ frame.answer = process[p].answer
      BY <1>0, <3>1 DEF Frame, Label
    <3> QED
      BY <1>0, <1>1, <2>1, <3>2
  <2>2. CASE IndexIf(p, process[p].active)
    BY <1>0, <2>2, IndexIfStep, MoveKeeps
  <2> QED
    BY <1>5, <2>1, <2>2 DEF ReadRemaining
<1>6. CASE IndexRead(p)
  <2>1. CASE listing.status = "ACTIVE"
    <3> DEFINE frame == [Idle EXCEPT !.at = "index_write", !.text = listing.text]
    <3>1. frame \in Frame /\ frame.at = "index_write" /\ frame.text # NoText
      BY <2>1, IdleParts, ListingAssumption DEF IInv, TypeOK, TableTypeOK, Listing, Exists, Frame, Label
    <3> QED
      BY <1>1, <1>6, <2>1, <3>1 DEF IndexRead
  <2>2. CASE listing.status # "ACTIVE"
    <3> DEFINE frame == [Idle EXCEPT !.at = "unindex"]
    <3>1. frame \in Frame /\ frame.at = "unindex" /\ frame.answer = Empty
      BY IdleParts DEF Frame, Label
    <3> QED
      BY <1>1, <1>6, <2>2, <3>1 DEF IndexRead
  <2> QED
    BY <2>1, <2>2
<1>7. CASE SearchHit(p)
  <2>1. document # NoText /\ listing.status \notin {"ABSENT", "DRAFT"}
    BY <1>0, <1>7 DEF SearchHit
  <2>2. Suggestion(document) \in Answer
    BY <2>1 DEF IInv, TypeOK, TableTypeOK, Suggestion, Answer, Content, Text
  <2> QED
    BY <1>2, <1>3, <1>7, <2>1, <2>2 DEF SearchHit, Label, UploadLabel
<1>8. CASE Hydrate(p)
  <2>1. listing.status \notin {"ABSENT", "DRAFT"}
    BY <1>0, <1>8 DEF Hydrate, At
  <2> QED
    BY <1>3, <1>4, <1>8, <2>1, ShownIsAnswer DEF IInv, Hydrate
<1>9. CASE SearchMiss(p)
  BY <1>2, <1>3, <1>4, <1>9 DEF SearchMiss, Label
<1>10. CASE SearchDatabase(p)
  BY <1>3, <1>4, <1>10, ShownIsAnswer DEF IInv, SearchDatabase, Exists
<1>11. CASE SearchUnavailable(p)
  <2>1. CASE Return(p)
    BY <1>1, <2>1, IdleParts DEF Return
  <2> QED
    BY <1>2, <1>11, <2>1 DEF SearchUnavailable, Label
<1> QED
  BY <1>5, <1>6, <1>7, <1>8, <1>9, <1>10, <1>11 DEF Reads

-----------------------------------------------------------------------------
(* Steps that write the row.                                               *)

\* What these steps have in common.  A request that has written goes on without a text.
LEMMA RowKeeps ==
    ASSUME IInv, NEW p \in Process,
           process' \in [Process -> Frame],
           \A q \in Process \ {p} : process'[q] = process[q],
           process'[p].at \in {"idle", "index_read", "unindex"}, process'[p].answer = Empty,
           UNCHANGED <<searchVars, workload>>, calm' \in BOOLEAN,
           TypeOK', PartsAreClean',
           listing'.status \in {"ABSENT", "DRAFT"} => listing.status \in {"ABSENT", "DRAFT"},
           photos' \subseteq photos
    PROVE  IInv'
<1>1. FrameInv'
  BY DEF IInv, FrameInv
<1>2. HiddenInv'
  BY DEF IInv, HiddenInv, DraftsAreHidden, Answers, searchVars
<1>3. PhotosBounded'
  <2>1. Cardinality(photos') <= Cardinality(photos)
    BY PhotosFinite, FS_Subset DEF IInv, TypeOK, TableTypeOK
  <2>2. \A q \in Process : process'[q].at \in UploadLabel => process[q].at \in UploadLabel
    BY DEF UploadLabel
  <2> QED
    BY <2>1, <2>2, BoundKeeps DEF IInv
<1> QED
  BY <1>1, <1>2, <1>3 DEF IInv

\* The title and the description that an update writes come from a text that was
\* allowed; what it leaves alone was there before.
LEMMA WriteUpdateKeeps ==
    ASSUME IInv, NEW p \in Process, WriteUpdate(p), UNCHANGED workload, calm' \in BOOLEAN
    PROVE  IInv'
<1> DEFINE text == process[p].text
           new == UpdatedText(text, process[p].parts)
<1>1. /\ process \in [Process -> Frame] /\ listing \in Listing
      /\ At(p, "update_write") /\ Exists
      /\ process[p].parts # {} => Allows("draft", text)
      /\ listing' = [listing EXCEPT !.text = new]
      /\ IndexIf(p, listing.status = "ACTIVE")
      /\ UNCHANGED <<photos, searchVars>>
  BY DEF IInv, TypeOK, TableTypeOK, WriteUpdate
<1>2. /\ process' \in [Process -> Frame]
      /\ process'[p].at \in {"idle", "index_read"}
      /\ process'[p].answer = Empty
      /\ \A q \in Process \ {p} : process'[q] = process[q]
  BY <1>1, IndexIfStep
<1>3. text \in Text /\ listing.text \in Text /\ process[p].parts \subseteq Part
  BY <1>1 DEF IInv, FrameInv, TypeOK, Listing, Frame, At
<1>4. new \in Text
  BY <1>3 DEF UpdatedText, Text
<1>5. /\ listing' \in Listing /\ listing'.status = listing.status /\ listing'.text = new
      /\ listing'.text # NoText
  BY <1>1, <1>4, ListingAssumption DEF Listing
<1>6. TypeOK'
  BY <1>1, <1>2, <1>5 DEF IInv, TypeOK, TableTypeOK, Exists, searchVars
<1>7. PartsAreClean'
  <2> SUFFICES ASSUME Enabled
               PROVE  HasCleanTitle(new.title) /\ HasCleanDescription(new.description)
    BY <1>5 DEF PartsAreClean
  <2>1. HasCleanTitle(listing.text.title) /\ HasCleanDescription(listing.text.description)
    BY <1>1 DEF IInv, PartsAreClean
  <2>2. CASE process[p].parts = {}
    BY <2>1, <2>2 DEF UpdatedText
  <2>3. CASE process[p].parts # {}
    <3>1. Clean(text)
      BY <1>1, <1>3, <2>3, AllowedIsClean DEF Phase
    <3>2. HasCleanTitle(text.title) /\ HasCleanDescription(text.description)
      BY <1>3, <3>1 DEF HasCleanTitle, HasCleanDescription, Text
    <3> QED
      BY <2>1, <3>2 DEF UpdatedText
  <2> QED
    BY <2>2, <2>3
<1> QED
  BY <1>1, <1>2, <1>5, <1>6, <1>7, RowKeeps

LEMMA WritePublicationKeeps ==
    ASSUME IInv, NEW p \in Process, WritePublication(p), UNCHANGED workload, calm' \in BOOLEAN
    PROVE  IInv'
<1>1. /\ process \in [Process -> Frame] /\ listing \in Listing
      /\ Exists
      /\ listing' = [listing EXCEPT !.status = "ACTIVE"]
      /\ IndexIf(p, TRUE)
      /\ UNCHANGED <<photos, searchVars>>
  BY DEF IInv, TypeOK, TableTypeOK, WritePublication
<1>2. /\ process' \in [Process -> Frame]
      /\ process'[p].at \in {"idle", "index_read"}
      /\ process'[p].answer = Empty
      /\ \A q \in Process \ {p} : process'[q] = process[q]
  BY <1>1, IndexIfStep
<1>3. listing' \in Listing /\ listing'.status = "ACTIVE" /\ listing'.text = listing.text
  BY <1>1 DEF Listing
<1>4. TypeOK'
  BY <1>1, <1>2, <1>3 DEF IInv, TypeOK, TableTypeOK, Exists, searchVars
<1>5. PartsAreClean'
  BY <1>1, <1>3 DEF IInv, PartsAreClean
<1> QED
  BY <1>1, <1>2, <1>3, <1>4, <1>5, RowKeeps

LEMMA DeleteRowKeeps ==
    ASSUME IInv, NEW p \in Process, DeleteRow(p), UNCHANGED workload, calm' \in BOOLEAN
    PROVE  IInv'
<1> DEFINE frame == [Idle EXCEPT !.at = "unindex"]
<1>1. /\ process \in [Process -> Frame]
      /\ listing' = [status |-> "DELETED", text |-> NoText]
      /\ photos' = {}
      /\ Begin(p, frame)
      /\ UNCHANGED searchVars
  BY DEF IInv, TypeOK, TableTypeOK, DeleteRow
<1>2. frame \in Frame /\ frame.at = "unindex" /\ frame.answer = Empty
  BY IdleParts DEF Frame, Label
<1>3. /\ process' \in [Process -> Frame]
      /\ process'[p] = frame
      /\ \A q \in Process \ {p} : process'[q] = process[q]
  BY <1>1, <1>2, BeginStep
<1>4. TypeOK'
  BY <1>1, <1>3 DEF IInv, TypeOK, TableTypeOK, Listing, Exists, searchVars
<1>5. PartsAreClean'
  BY <1>1 DEF PartsAreClean, Exists
<1> QED
  BY <1>1, <1>2, <1>3, <1>4, <1>5, RowKeeps

LEMMA CreateKeeps ==
    ASSUME IInv, CreateStep
    PROVE  IInv'
<1>1. PICK text \in Created : CreateListing(text)
  BY DEF CreateStep
<1>2. /\ text \in Text /\ listing.status = "ABSENT" /\ Allows("draft", text)
      /\ listing' = [status |-> "DRAFT", text |-> text]
      /\ UNCHANGED <<photos, searchVars, process, workload, calm>>
  BY <1>1, WorkloadAssumption DEF CreateStep, CreateListing
<1>3. TypeOK'
  BY <1>2, ListingAssumption DEF IInv, TypeOK, TableTypeOK, Listing, Exists, searchVars
<1>4. FrameInv' /\ PhotosBounded'
  BY <1>2 DEF IInv, FrameInv, PhotosBounded, Uploads, At
<1>5. PartsAreClean'
  <2> SUFFICES ASSUME Enabled
               PROVE  HasCleanTitle(text.title) /\ HasCleanDescription(text.description)
    BY <1>2 DEF PartsAreClean
  <2>1. Clean(text)
    BY <1>2, AllowedIsClean DEF Phase
  <2> QED
    BY <1>2, <2>1 DEF HasCleanTitle, HasCleanDescription, Text
<1>6. HiddenInv'
  BY <1>2 DEF IInv, HiddenInv, DraftsAreHidden, Answers, searchVars
<1> QED
  BY <1>3, <1>4, <1>5, <1>6 DEF IInv

-----------------------------------------------------------------------------
(* Steps that write photos.                                                *)

\* What these steps have in common.
LEMMA PhotosKeep ==
    ASSUME IInv, NEW p \in Process,
           process' \in [Process -> Frame],
           \A q \in Process \ {p} : process'[q] = process[q],
           process'[p].at \notin {"update_write", "publish_write", "index_write", "search_hydrate"},
           process'[p].answer \in {process[p].answer, Empty},
           UNCHANGED <<listing, searchVars, workload>>, calm' \in BOOLEAN,
           photos' \subseteq Photo,
           photos' # {} => Exists,
           \A a, b \in photos' : a.id = b.id \/ a.order = b.order => a = b,
           \/ /\ Cardinality(photos') <= Cardinality(photos)
              /\ process'[p].at \in UploadLabel => process[p].at \in UploadLabel
           \/ PhotosBounded'
    PROVE  IInv'
<1>1. TypeOK'
  BY DEF IInv, TypeOK, TableTypeOK, Exists, searchVars
<1>2. FrameInv' /\ PartsAreClean'
  BY DEF IInv, FrameInv, PartsAreClean, Exists
<1>3. HiddenInv'
  BY DEF IInv, HiddenInv, DraftsAreHidden, Answers, searchVars
<1>4. PhotosBounded'
  BY <1>1, BoundKeeps DEF IInv
<1> QED
  BY <1>1, <1>2, <1>3, <1>4 DEF IInv

\* Photos whose marks change stay as many, and keep their ids and places.
LEMMA MarksKeep ==
    ASSUME IInv, NEW mark \in [photos -> BOOLEAN],
           photos' = {[photo EXCEPT !.isPrimary = mark[photo]] : photo \in photos},
           UNCHANGED listing
    PROVE  /\ photos' \subseteq Photo
           /\ photos' # {} => Exists
           /\ \A a, b \in photos' : a.id = b.id \/ a.order = b.order => a = b
           /\ Cardinality(photos') <= Cardinality(photos)
<1> DEFINE f == [photo \in photos |-> [photo EXCEPT !.isPrimary = mark[photo]]]
<1>1. \A photo \in photos : /\ f[photo] \in Photo
                            /\ f[photo].id = photo.id /\ f[photo].order = photo.order
  BY DEF IInv, TypeOK, TableTypeOK, Photo
<1>2. photos' = {f[photo] : photo \in photos}
  OBVIOUS
<1>3. f \in [photos -> photos']
  BY <1>2
<1> HIDE DEF f
<1>4. Cardinality(photos') <= Cardinality(photos)
  BY <1>2, <1>3, ImageFinite, PhotosFinite DEF IInv, TypeOK, TableTypeOK
<1> QED
  BY <1>1, <1>2, <1>4 DEF IInv, TypeOK

LEMMA DemotePhotosKeeps ==
    ASSUME IInv, NEW p \in Process, DemotePhotos(p), UNCHANGED workload, calm' \in BOOLEAN
    PROVE  IInv'
<1> DEFINE mark == [photo \in photos |-> photo.id = NoPhoto]
<1>1. PICK label \in {"photo_create", "photo_promote"} :
         /\ GoTo(p, label)
         /\ label = "photo_create" => process[p].at \in UploadLabel
  BY DEF DemotePhotos, At, UploadLabel
<1>2. /\ UNCHANGED <<listing, searchVars>>
      /\ mark \in [photos -> BOOLEAN]
      /\ photos' = {[photo EXCEPT !.isPrimary = mark[photo]] : photo \in photos}
  BY DEF DemotePhotos, WithPrimary
<1>3. /\ process' \in [Process -> Frame]
      /\ process'[p].at = label
      /\ process'[p].answer = process[p].answer
      /\ \A q \in Process \ {p} : process'[q] = process[q]
  BY <1>1, GoToStep DEF IInv, TypeOK, TableTypeOK, Label
<1> HIDE DEF mark
<1>4. /\ photos' \subseteq Photo
      /\ photos' # {} => Exists
      /\ \A a, b \in photos' : a.id = b.id \/ a.order = b.order => a = b
      /\ Cardinality(photos') <= Cardinality(photos)
  BY <1>2, MarksKeep
<1> QED
  BY <1>1, <1>2, <1>3, <1>4, PhotosKeep DEF UploadLabel

LEMMA PromotePhotoKeeps ==
    ASSUME IInv, NEW p \in Process, PromotePhoto(p), UNCHANGED workload, calm' \in BOOLEAN
    PROVE  IInv'
<1> DEFINE mark == [photo \in photos |-> photo.id = process[p].photo \/ photo.isPrimary]
           Promoted(photo) == IF photo.id = process[p].photo
                              THEN [photo EXCEPT !.isPrimary = TRUE] ELSE photo
<1>1. /\ IndexIf(p, process[p].active)
      /\ UNCHANGED <<listing, searchVars>>
      /\ photos' = {Promoted(photo) : photo \in photos}
  BY DEF PromotePhoto
<1>2. \A photo \in photos : Promoted(photo) = [photo EXCEPT !.isPrimary = mark[photo]]
  BY DEF IInv, TypeOK, TableTypeOK, Photo
<1>3. photos' = {[photo EXCEPT !.isPrimary = mark[photo]] : photo \in photos}
  <2> HIDE DEF mark, Promoted
  <2> QED
    BY <1>1, <1>2
<1>4. mark \in [photos -> BOOLEAN]
  BY DEF IInv, TypeOK, TableTypeOK, Photo
<1>5. /\ process' \in [Process -> Frame]
      /\ process'[p].at \in {"idle", "index_read"}
      /\ process'[p].answer = Empty
      /\ \A q \in Process \ {p} : process'[q] = process[q]
  BY <1>1, IndexIfStep DEF IInv, TypeOK, TableTypeOK
<1> HIDE DEF mark
<1>6. /\ photos' \subseteq Photo
      /\ photos' # {} => Exists
      /\ \A a, b \in photos' : a.id = b.id \/ a.order = b.order => a = b
      /\ Cardinality(photos') <= Cardinality(photos)
  BY <1>1, <1>3, <1>4, MarksKeep
<1> QED
  BY <1>1, <1>5, <1>6, PhotosKeep DEF UploadLabel

\* The new photo was counted as an upload before.
LEMMA CreatePhotoKeeps ==
    ASSUME IInv, NEW p \in Process, CreatePhoto(p), UNCHANGED workload, calm' \in BOOLEAN
    PROVE  IInv'
<1> DEFINE id == CHOOSE i \in PhotoId \ UsedPhotoIds : TRUE
           photo == [id |-> id, order |-> process[p].order, isPrimary |-> process[p].primary]
<1>1. /\ At(p, "photo_create") /\ Exists
      /\ process[p].order \notin Places(photos)
      /\ PhotoId \ UsedPhotoIds # {}
      /\ photos' = photos \cup {photo}
      /\ IndexIf(p, process[p].active)
      /\ UNCHANGED <<listing, searchVars>>
      /\ process[p] \in Frame
  BY DEF IInv, TypeOK, TableTypeOK, CreatePhoto
<1>2. id \in PhotoId \ UsedPhotoIds
  BY <1>1
<1>3. /\ photo \in Photo /\ photo.id = id /\ photo.order = process[p].order
      /\ photo \notin photos
  BY <1>1, <1>2 DEF Photo, Frame, UsedPhotoIds
<1>4. /\ process' \in [Process -> Frame]
      /\ process'[p].at \in {"idle", "index_read"}
      /\ process'[p].answer = Empty
      /\ \A q \in Process \ {p} : process'[q] = process[q]
  BY <1>1, IndexIfStep DEF IInv, TypeOK, TableTypeOK
<1>5. \A a \in photos : a.id # photo.id /\ a.order # photo.order
  BY <1>1, <1>2, <1>3 DEF UsedPhotoIds, Places
<1> HIDE DEF id, photo
<1>6. /\ photos' \subseteq Photo
      /\ \A a, b \in photos' : a.id = b.id \/ a.order = b.order => a = b
  BY <1>1, <1>3, <1>5 DEF IInv, TypeOK, TableTypeOK
<1>7. PhotosBounded'
  <2>1. IsFiniteSet(photos) /\ Cardinality(photos) \in Nat
    BY PhotosFinite DEF IInv, TypeOK, TableTypeOK
  <2>2. Cardinality(photos') = Cardinality(photos) + 1
    BY <1>1, <1>3, <2>1, FS_AddElement
  <2>3. p \in Uploads /\ Uploads' \subseteq Uploads \ {p}
    BY <1>1, <1>4 DEF Uploads, At
  <2>4. /\ IsFiniteSet(Uploads \ {p})
        /\ Cardinality(Uploads \ {p}) = Cardinality(Uploads) - 1
    BY <2>3, UploadsFinite, FS_RemoveElement
  <2>5. Cardinality(Uploads') <= Cardinality(Uploads) - 1 /\ Cardinality(Uploads') \in Nat
    BY <2>3, <2>4, FS_Subset, FS_CardinalityType
  <2> QED
    BY <2>1, <2>2, <2>5, UploadsFinite, ListingAssumption, FS_CardinalityType DEF IInv, PhotosBounded
<1> QED
  BY <1>1, <1>4, <1>6, <1>7, PhotosKeep

LEMMA RemovePhotosKeeps ==
    ASSUME IInv, NEW p \in Process, RemovePhoto(p) \/ DeletePhotos(p),
           UNCHANGED workload, calm' \in BOOLEAN
    PROVE  IInv'
<1>1. PICK label \in {"photo_remaining", "delete_row"} : GoTo(p, label)
  BY DEF RemovePhoto, DeletePhotos
<1>2. photos' \subseteq photos /\ UNCHANGED <<listing, searchVars>>
  BY DEF RemovePhoto, DeletePhotos
<1>3. /\ process' \in [Process -> Frame]
      /\ process'[p].at = label
      /\ process'[p].answer = process[p].answer
      /\ \A q \in Process \ {p} : process'[q] = process[q]
  BY <1>1, GoToStep DEF IInv, TypeOK, TableTypeOK, Label
<1>4. Cardinality(photos') <= Cardinality(photos)
  BY <1>2, PhotosFinite, FS_Subset DEF IInv, TypeOK, TableTypeOK
<1>5. /\ photos' \subseteq Photo
      /\ photos' # {} => Exists
      /\ \A a, b \in photos' : a.id = b.id \/ a.order = b.order => a = b
  BY <1>2 DEF IInv, TypeOK, TableTypeOK
<1> QED
  BY <1>2, <1>3, <1>4, <1>5, PhotosKeep DEF UploadLabel

-----------------------------------------------------------------------------
(* Steps that write the index and the cache.                               *)

\* What these steps have in common.  While there is only a draft they write nothing
\* of it.
LEMMA SearchKeeps ==
    ASSUME IInv,
           process' \in [Process -> Frame],
           \A q \in Process :
              \/ process'[q] = process[q]
              \/ /\ process'[q].at \in {"idle", "invalidate", "invalidate_prefix"}
                 /\ process'[q].answer \in {process[q].answer, Empty},
           UNCHANGED <<listing, photos, workload>>, calm' \in BOOLEAN,
           document' \in Text \cup {NoText},
           cache' \in [Query -> Answer \cup {NoAnswer}],
           listing.status \in {"ABSENT", "DRAFT"} =>
              /\ document' = NoText
              /\ \A query \in Query : cache'[query] \in {Empty, NoAnswer}
    PROVE  IInv'
<1>1. TypeOK'
  BY DEF IInv, TypeOK, TableTypeOK, Exists
<1>2. FrameInv' /\ PartsAreClean'
  BY DEF IInv, FrameInv, PartsAreClean, Exists
<1>3. HiddenInv'
  BY DEF IInv, HiddenInv, DraftsAreHidden, Answers
<1>4. PhotosBounded'
  <2>1. Cardinality(photos') <= Cardinality(photos)
    BY PhotosFinite DEF IInv, TypeOK, TableTypeOK
  <2> QED
    BY <1>1, <2>1, BoundKeeps DEF IInv, UploadLabel
<1> QED
  BY <1>1, <1>2, <1>3, <1>4 DEF IInv

LEMMA IndexWritesKeep ==
    ASSUME IInv, NEW p \in Process, IndexWrite(p) \/ Unindex(p), UNCHANGED workload, calm' \in BOOLEAN
    PROVE  IInv'
<1>1. /\ UNCHANGED <<listing, photos, cache>>
      /\ process \in [Process -> Frame] /\ cache \in [Query -> Answer \cup {NoAnswer}]
      /\ listing.status \in {"ABSENT", "DRAFT"} =>
            \A query \in Query : cache[query] \in {Empty, NoAnswer}
  BY DEF IInv, TypeOK, TableTypeOK, HiddenInv, DraftsAreHidden, Answers, IndexWrite, Unindex, listingVars
<1>2. document' \in Text \cup {NoText}
  BY <1>1 DEF IndexWrite, Unindex, Frame
<1>3. listing.status \in {"ABSENT", "DRAFT"} => document' = NoText
  BY DEF IInv, HiddenInv, IndexWrite, Unindex, At
<1>4. GoTo(p, "invalidate") \/ Return(p)
  BY DEF IndexWrite, Unindex
<1>5. CASE GoTo(p, "invalidate")
  <2>1. /\ process' \in [Process -> Frame]
        /\ process'[p].at = "invalidate"
        /\ process'[p].answer = process[p].answer
        /\ \A q \in Process \ {p} : process'[q] = process[q]
    BY <1>1, <1>5, GoToStep DEF Label
  <2> QED
    BY <1>1, <1>2, <1>3, <2>1, SearchKeeps
<1>6. CASE Return(p)
  BY <1>1, <1>2, <1>3, <1>6, ReturnStep, IdleParts, SearchKeeps
<1> QED
  BY <1>4, <1>5, <1>6

LEMMA InvalidateKeeps ==
    ASSUME IInv, NEW p \in Process, Invalidate(p), UNCHANGED workload, calm' \in BOOLEAN
    PROVE  IInv'
<1>1. PICK queries \in SUBSET QueryKind :
         /\ Forget(queries)
         /\ GoTo(p, "invalidate_prefix") \/ Return(p)
  <2>1. Query \ {"prefix"} \in SUBSET QueryKind /\ {"prefix"} \in SUBSET QueryKind
    BY ListingAssumption DEF QueryKind
  <2> QED
    BY <2>1 DEF Invalidate
<1>2. /\ UNCHANGED <<listing, photos, document>>
      /\ process \in [Process -> Frame]
      /\ document \in Text \cup {NoText}
      /\ listing.status \in {"ABSENT", "DRAFT"} => document = NoText
  BY DEF IInv, TypeOK, TableTypeOK, HiddenInv, DraftsAreHidden, Invalidate, listingVars
<1>3. /\ cache' \in [Query -> Answer \cup {NoAnswer}]
      /\ listing.status \in {"ABSENT", "DRAFT"} =>
            \A query \in Query : cache'[query] \in {Empty, NoAnswer}
  BY <1>1 DEF Forget, IInv, TypeOK, TableTypeOK, HiddenInv, DraftsAreHidden, Answers
<1>4. CASE GoTo(p, "invalidate_prefix")
  <2>1. /\ process' \in [Process -> Frame]
        /\ process'[p].at = "invalidate_prefix"
        /\ process'[p].answer = process[p].answer
        /\ \A q \in Process \ {p} : process'[q] = process[q]
    BY <1>2, <1>4, GoToStep DEF Label
  <2> QED
    BY <1>2, <1>3, <2>1, SearchKeeps
<1>5. CASE Return(p)
  BY <1>2, <1>3, <1>5, ReturnStep, IdleParts, SearchKeeps
<1> QED
  BY <1>1, <1>4, <1>5

LEMMA StoreAnswerKeeps ==
    ASSUME IInv, NEW p \in Process, StoreAnswer(p), UNCHANGED workload, calm' \in BOOLEAN
    PROVE  IInv'
<1>1. /\ UNCHANGED <<listing, photos, document>>
      /\ Return(p)
      /\ cache' = [cache EXCEPT ![process[p].query] = process[p].answer]
      /\ process \in [Process -> Frame]
      /\ cache \in [Query -> Answer \cup {NoAnswer}]
      /\ document \in Text \cup {NoText}
      /\ listing.status \in {"ABSENT", "DRAFT"} =>
            /\ document = NoText /\ process[p].answer = Empty
            /\ \A query \in Query : cache[query] \in {Empty, NoAnswer}
  BY DEF IInv, TypeOK, TableTypeOK, HiddenInv, DraftsAreHidden, Answers, StoreAnswer, listingVars
<1>2. /\ cache' \in [Query -> Answer \cup {NoAnswer}]
      /\ listing.status \in {"ABSENT", "DRAFT"} =>
            \A query \in Query : cache'[query] \in {Empty, NoAnswer}
  BY <1>1 DEF Frame
<1> QED
  BY <1>1, <1>2, ReturnStep, IdleParts, SearchKeeps

LEMMA ExpiryKeeps ==
    ASSUME IInv, NEW query \in Query, ExpiryStep(query)
    PROVE  IInv'
<1>1. /\ Forget({query})
      /\ UNCHANGED <<listing, photos, document, process, workload, calm>>
      /\ process \in [Process -> Frame] /\ calm \in BOOLEAN
      /\ document \in Text \cup {NoText}
      /\ listing.status \in {"ABSENT", "DRAFT"} => document = NoText
  BY DEF IInv, TypeOK, TableTypeOK, HiddenInv, DraftsAreHidden, ExpiryStep, Expire, listingVars
<1>2. /\ cache' \in [Query -> Answer \cup {NoAnswer}]
      /\ listing.status \in {"ABSENT", "DRAFT"} =>
            \A q \in Query : cache'[q] \in {Empty, NoAnswer}
  BY <1>1 DEF Forget, IInv, TypeOK, TableTypeOK, HiddenInv, DraftsAreHidden, Answers
<1> QED
  BY <1>1, <1>2, SearchKeeps

-----------------------------------------------------------------------------
(* The invariant.                                                          *)

\* Nobody is at work at the start.
LEMMA StartInvariant ==
    ASSUME \A p \in Process : process[p] = Idle,
           cache \in [Query -> {NoAnswer}], document = NoText,
           TypeOK, PartsAreClean, Cardinality(photos) \in {0, 1}
    PROVE  IInv
<1>1. FrameInv /\ HiddenInv
  BY IdleParts DEF FrameInv, HiddenInv, DraftsAreHidden, Answers
<1>2. Uploads = {}
  BY IdleParts DEF Uploads, At
<1>3. Cardinality(Uploads) = 0
  BY <1>2, FS_EmptySet
<1>4. Cardinality(Process) \in Nat \ {0}
  BY ListingAssumption, FS_CardinalityType, FS_EmptySet
<1> QED
  BY <1>1, <1>3, <1>4, ListingAssumption DEF IInv, PhotosBounded

LEMMA InitInvariant == Init => IInv
<1> SUFFICES ASSUME Init PROVE IInv
  OBVIOUS
<1>1. /\ \A p \in Process : process[p] = Idle
      /\ process \in [Process -> Frame]
      /\ cache \in [Query -> {NoAnswer}]
      /\ document = NoText /\ workload \in Workload /\ calm = TRUE
  BY IdleParts DEF Init
<1>2. CASE listing = [status |-> "ABSENT", text |-> NoText] /\ photos = {}
  <2>1. TypeOK
    BY <1>1, <1>2 DEF TypeOK, TableTypeOK, Listing, Exists
  <2>2. PartsAreClean
    BY <1>2 DEF PartsAreClean, Exists
  <2>3. Cardinality(photos) = 0
    BY <1>2, FS_EmptySet
  <2> QED
    BY <1>1, <2>1, <2>2, <2>3, StartInvariant
<1>3. ASSUME NEW text \in Created, NEW id \in PhotoId,
             Allows("draft", text),
             listing = [status |-> "DRAFT", text |-> text],
             photos = {[id |-> id, order |-> 0, isPrimary |-> TRUE]}
      PROVE  IInv
  <2>0. text \in Text /\ 0 \in Order
    BY WorkloadAssumption, ListingAssumption DEF Order
  <2>1. TypeOK
    BY <1>1, <1>3, <2>0, ListingAssumption DEF TypeOK, TableTypeOK, Listing, Photo, Exists
  <2>2. PartsAreClean
    <3> SUFFICES ASSUME Enabled
                 PROVE  HasCleanTitle(text.title) /\ HasCleanDescription(text.description)
      BY <1>3 DEF PartsAreClean
    <3>1. Clean(text)
      BY <1>3, <2>0, AllowedIsClean DEF Phase
    <3> QED
      BY <2>0, <3>1 DEF HasCleanTitle, HasCleanDescription, Text
  <2>3. Cardinality(photos) = 1
    BY <1>3, FS_Singleton
  <2> QED
    BY <1>1, <2>1, <2>2, <2>3, StartInvariant
<1> QED
  BY <1>2, <1>3 DEF Init

LEMMA HandlerKeeps ==
    ASSUME IInv, NEW p \in Process, HandlerStep(p) \/ FailureStep(p)
    PROVE  IInv'
<1>1. UNCHANGED workload /\ calm' \in BOOLEAN
  BY DEF IInv, TypeOK, HandlerStep, FailureStep
<1>2. CASE Abandon(p)
  BY <1>1, <1>2, AbandonKeeps
<1>3. CASE Reads(p)
  BY <1>1, <1>3, ReadKeeps
<1>4. CASE WriteUpdate(p)
  BY <1>1, <1>4, WriteUpdateKeeps
<1>5. CASE WritePublication(p)
  BY <1>1, <1>5, WritePublicationKeeps
<1>6. CASE DeleteRow(p)
  BY <1>1, <1>6, DeleteRowKeeps
<1>7. CASE DemotePhotos(p)
  BY <1>1, <1>7, DemotePhotosKeeps
<1>8. CASE CreatePhoto(p)
  BY <1>1, <1>8, CreatePhotoKeeps
<1>9. CASE RemovePhoto(p) \/ DeletePhotos(p)
  BY <1>1, <1>9, RemovePhotosKeeps
<1>10. CASE PromotePhoto(p)
  BY <1>1, <1>10, PromotePhotoKeeps
<1>11. CASE IndexWrite(p) \/ Unindex(p)
  BY <1>1, <1>11, IndexWritesKeep
<1>12. CASE Invalidate(p)
  BY <1>1, <1>12, InvalidateKeeps
<1>13. CASE StoreAnswer(p)
  BY <1>1, <1>13, StoreAnswerKeeps
<1> QED
  BY <1>2, <1>3, <1>4, <1>5, <1>6, <1>7, <1>8, <1>9, <1>10, <1>11, <1>12, <1>13
  DEF HandlerStep, FailureStep, ListingStep, SearchStep, Abandon, Reads

LEMMA StutterKeeps ==
    ASSUME IInv, UNCHANGED vars
    PROVE  IInv'
BY DEF vars, tableVars, IInv, TypeOK, TableTypeOK, Exists, FrameInv, PartsAreClean,
       HiddenInv, DraftsAreHidden, Answers, PhotosBounded, Uploads, At

\* The inductive invariant: whatever requests overlap or break off.
THEOREM ListingInvariance == Spec => []IInv
<1>1. IInv /\ [Next]_vars => IInv'
  BY CreateKeeps, RequestKeeps, HandlerKeeps, ExpiryKeeps, StutterKeeps DEF Next
<1> QED
  BY <1>1, InitInvariant, PTL DEF Spec

\* Rows, requests, index and cache keep their types; photos stay with their listing,
\* and their ids and places stay unique.
THEOREM ListingTypeCorrect == Spec => []TypeOK
<1>1. IInv => TypeOK
  BY DEF IInv
<1> QED
  BY <1>1, ListingInvariance, PTL

\* No title and no description is ever saved that the rules object to in every text
\* (updateOwnedListing and createListing, against fuseModeration).
THEOREM SavedPartsAreClean == Spec => []PartsAreClean
<1>1. IInv => PartsAreClean
  BY DEF IInv
<1> QED
  BY <1>1, ListingInvariance, PTL

\* A draft is never found, by search, autocomplete or in the cache.
THEOREM DraftsStayHidden == Spec => []DraftsAreHidden
<1>1. IInv => DraftsAreHidden
  BY DEF IInv, HiddenInv
<1> QED
  BY <1>1, ListingInvariance, PTL

\* The limit of uploadPhoto is exceeded by no more than the uploads that overlap.
THEOREM PhotosStayBounded == Spec => []PhotosBounded
<1>1. IInv => PhotosBounded
  BY DEF IInv
<1> QED
  BY <1>1, ListingInvariance, PTL

-----------------------------------------------------------------------------
(* One request after the other.                                            *)

\* A step of p changes the frame of p alone.
LEMMA BeginFrame ==
    ASSUME process \in [Process -> Frame], NEW p \in Process, NEW frame, Begin(p, frame)
    PROVE  /\ process'[p] = frame
           /\ \A q \in Process \ {p} : process'[q] = process[q]
BY DEF Begin

LEMMA GoToLabel ==
    ASSUME process \in [Process -> Frame], NEW p \in Process, NEW label, GoTo(p, label)
    PROVE  /\ process'[p].at = label
           /\ \A q \in Process \ {p} : process'[q] = process[q]
<1>1. process[p] \in Frame
  OBVIOUS
<1>2. process' = [process EXCEPT ![p] = [process[p] EXCEPT !.at = label]]
  BY DEF GoTo
<1>3. [process[p] EXCEPT !.at = label].at = label
  BY <1>1 DEF Frame
<1> QED
  BY <1>2, <1>3

LEMMA ReturnLabel ==
    ASSUME process \in [Process -> Frame], NEW p \in Process, Return(p)
    PROVE  /\ process'[p].at = "idle"
           /\ \A q \in Process \ {p} : process'[q] = process[q]
BY BeginFrame DEF Return, Idle

LEMMA IndexLabel ==
    ASSUME process \in [Process -> Frame], NEW p \in Process, NEW published,
           IndexIf(p, published)
    PROVE  /\ process'[p].at \in {"index_read", "idle"}
           /\ \A q \in Process \ {p} : process'[q] = process[q]
<1>1. CASE Begin(p, [Idle EXCEPT !.at = "index_read"])
  BY <1>1, BeginFrame DEF Idle
<1>2. CASE Return(p)
  BY <1>2, ReturnLabel
<1> QED
  BY <1>1, <1>2 DEF IndexIf

\* A handler is at work, and its step never leads to the write of an update.
LEMMA HandlerMoves ==
    ASSUME process \in [Process -> Frame], NEW p \in Process, HandlerStep(p)
    PROVE  /\ ~At(p, "idle")
           /\ process'[p].at # "update_write"
           /\ \A q \in Process \ {p} : process'[q] = process[q]
<1> DEFINE Moved == /\ process'[p].at # "update_write"
                   /\ \A q \in Process \ {p} : process'[q] = process[q]
<1>1. ~At(p, "idle")
  BY DEF HandlerStep, ListingStep, WriteUpdate, UpdateRefused, DemotePhotos, CreatePhoto,
         PhotoRefused, RemovePhoto, ReadRemaining, PromotePhoto, PhotoMissing, WritePublication,
         PublicationRefused, DeletePhotos, DeleteRow, RowMissing, SearchStep, IndexRead, IndexWrite,
         Unindex, Invalidate, SearchHit, Hydrate, SearchMiss, SearchDatabase, StoreAnswer, At
<1> SUFFICES Moved
  BY <1>1
<1>2. process[p] \in Frame
  OBVIOUS
<1>3. CASE Return(p)
  BY <1>3, ReturnLabel
<1>4. ASSUME NEW published, IndexIf(p, published) PROVE Moved
  BY <1>4, IndexLabel
<1>5. ASSUME NEW label, label # "update_write", GoTo(p, label) PROVE Moved
  BY <1>5, GoToLabel
<1>6. ASSUME NEW frame, frame.at # "update_write", Begin(p, frame) PROVE Moved
  BY <1>6, BeginFrame
<1>7. ASSUME NEW answer, Answering(p, answer) PROVE Moved
  <2>1. [process[p] EXCEPT !.at = "search_store", !.answer = answer].at = "search_store"
    BY <1>2 DEF Frame
  <2> QED
    BY <1>6, <1>7, <2>1 DEF Answering
<1>8. CASE ListingStep(p)
  <2>1. CASE WriteUpdate(p) \/ CreatePhoto(p) \/ PromotePhoto(p) \/ WritePublication(p)
    BY <1>4, <2>1 DEF WriteUpdate, CreatePhoto, PromotePhoto, WritePublication
  <2>2. CASE UpdateRefused(p) \/ PhotoRefused(p) \/ PhotoMissing(p) \/ PublicationRefused(p)
             \/ RowMissing(p)
    BY <1>3, <2>2 DEF UpdateRefused, PhotoRefused, PhotoMissing, PublicationRefused, RowMissing
  <2>3. CASE DemotePhotos(p) \/ RemovePhoto(p) \/ DeletePhotos(p)
    BY <1>5, <2>3 DEF DemotePhotos, RemovePhoto, DeletePhotos
  <2>4. CASE ReadRemaining(p)
    <3>1. ASSUME NEW first \in photos,
                 Begin(p, [process[p] EXCEPT !.at = "photo_clear", !.photo = first.id])
          PROVE  Moved
      <4>1. [process[p] EXCEPT !.at = "photo_clear", !.photo = first.id].at = "photo_clear"
        BY <1>2 DEF Frame
      <4> QED
        BY <1>6, <3>1, <4>1
    <3> QED
      BY <1>4, <2>4, <3>1 DEF ReadRemaining
  <2>5. CASE DeleteRow(p)
    <3>1. [Idle EXCEPT !.at = "unindex"].at = "unindex"
      BY DEF Idle
    <3> QED
      BY <1>6, <2>5, <3>1 DEF DeleteRow
  <2> QED
    BY <1>8, <2>1, <2>2, <2>3, <2>4, <2>5 DEF ListingStep
<1>9. CASE SearchStep(p)
  <2>1. CASE IndexRead(p)
    <3>1. /\ [Idle EXCEPT !.at = "index_write", !.text = listing.text].at = "index_write"
          /\ [Idle EXCEPT !.at = "unindex"].at = "unindex"
      BY DEF Idle
    <3> QED
      BY <1>6, <2>1, <3>1 DEF IndexRead
  <2>2. CASE IndexWrite(p) \/ Unindex(p) \/ Invalidate(p) \/ StoreAnswer(p)
    BY <1>3, <1>5, <2>2 DEF IndexWrite, Unindex, Invalidate, StoreAnswer
  <2>3. CASE SearchHit(p) \/ SearchMiss(p)
    BY <1>5, <1>7, <2>3 DEF SearchHit, SearchMiss
  <2>4. CASE Hydrate(p) \/ SearchDatabase(p)
    BY <1>7, <2>4 DEF Hydrate, SearchDatabase
  <2> QED
    BY <1>9, <2>1, <2>2, <2>3, <2>4 DEF SearchStep
<1> QED
  BY <1>8, <1>9 DEF HandlerStep

\* The handler steps that write the row.
LEMMA HandlerWrites ==
    ASSUME NEW p \in Process, HandlerStep(p)
    PROVE  WriteUpdate(p) \/ WritePublication(p) \/ DeleteRow(p) \/ UNCHANGED listing
BY DEF HandlerStep, ListingStep, SearchStep, listingVars,
       UpdateRefused, DemotePhotos, CreatePhoto, PhotoRefused, RemovePhoto, ReadRemaining,
       PromotePhoto, PhotoMissing, PublicationRefused, DeletePhotos, RowMissing,
       IndexRead, IndexWrite, Unindex, Invalidate, SearchHit, Hydrate, SearchMiss,
       SearchDatabase, StoreAnswer

LEMMA CalmRequest ==
    ASSUME CalmIInv, NEW p \in Process, RequestStep(p)
    PROVE  CalmInv' /\ CalmTextIsClean'
<1>1. /\ UNCHANGED listing
      /\ calm' = (calm /\ IdleAll)
      /\ process \in [Process -> Frame]
  BY DEF CalmIInv, IInv, TypeOK, TableTypeOK, RequestStep, UpdateListing, UploadPhoto, DeletePhoto,
         PublishListing, DeleteListing, Reindex, Search, listingVars
<1>2. \A q \in Process \ {p} : process'[q] = process[q]
  BY <1>1 DEF RequestStep, UpdateListing, UploadPhoto, DeletePhoto, PublishListing, DeleteListing,
         Reindex, Search, IndexIf, Begin
<1>3. At(p, "update_write")' =>
         Exists /\ process'[p].text = UpdatedText(process'[p].text, process'[p].parts)
  <2>1. ASSUME NEW next \in Text, NEW parts \in SUBSET Part, UpdateListing(p, next, parts)
        PROVE  Exists /\ process'[p].text = UpdatedText(process'[p].text, process'[p].parts)
    <3> DEFINE frame == [Idle EXCEPT !.at = "update_write", !.text = next, !.parts = parts]
    <3>1. frame.text = next /\ frame.parts = parts
      BY DEF Idle
    <3>2. process'[p] = frame
      BY <1>1, <2>1 DEF UpdateListing, Begin
    <3> QED
      BY <2>1, <3>1, <3>2 DEF UpdateListing
  <2>2. CASE ~\E next \in Text, parts \in SUBSET Part : UpdateListing(p, next, parts)
    <3>1. ASSUME NEW frame, frame.at # "update_write", Begin(p, frame)
          PROVE  ~At(p, "update_write")'
      BY <1>1, <3>1, BeginFrame DEF At
    <3>2. ASSUME NEW order, NEW isPrimary, UploadPhoto(p, order, isPrimary)
          PROVE  ~At(p, "update_write")'
      BY <3>1, <3>2 DEF UploadPhoto, Idle
    <3>3. ASSUME NEW photo \in photos, DeletePhoto(p, photo)
          PROVE  ~At(p, "update_write")'
      BY <3>1, <3>3 DEF DeletePhoto, Idle
    <3>4. CASE PublishListing(p) \/ DeleteListing(p)
      BY <3>1, <3>4 DEF PublishListing, DeleteListing, Idle
    <3>5. CASE Reindex(p)
      BY <1>1, <3>5, IndexLabel DEF Reindex, At
    <3>6. ASSUME NEW query, Search(p, query)
          PROVE  ~At(p, "update_write")'
      BY <3>1, <3>6 DEF Search, Idle
    <3> QED
      BY <2>2, <3>2, <3>3, <3>4, <3>5, <3>6 DEF RequestStep
  <2> QED
    BY <2>1, <2>2
<1>4. CalmInv'
  BY <1>1, <1>2, <1>3 DEF CalmInv, IdleAll, At, Exists, UpdatedText
<1>5. CalmTextIsClean'
  BY <1>1 DEF CalmIInv, CalmTextIsClean, Exists
<1> QED
  BY <1>4, <1>5

LEMMA CalmHandler ==
    ASSUME CalmIInv, NEW p \in Process, HandlerStep(p)
    PROVE  CalmInv' /\ CalmTextIsClean'
<1>1. /\ ~At(p, "idle")
      /\ process'[p].at # "update_write"
      /\ \A q \in Process \ {p} : process'[q] = process[q]
  BY HandlerMoves DEF CalmIInv, IInv, TypeOK, TableTypeOK
<1>2. calm' = calm
  BY DEF HandlerStep
<1>3. CalmInv'
  BY <1>1, <1>2 DEF CalmIInv, CalmInv, At
<1>4. CalmTextIsClean'
  <2> SUFFICES ASSUME Enabled, calm, Exists' PROVE Clean(listing'.text)
    BY <1>2 DEF CalmTextIsClean
  <2>1. Exists => Clean(listing.text)
    BY DEF CalmIInv, CalmTextIsClean
  <2>2. CASE WriteUpdate(p)
    <3> DEFINE text == process[p].text
    <3>1. /\ Exists /\ At(p, "update_write")
          /\ process[p].parts # {} => Allows("draft", text)
          /\ listing' = [listing EXCEPT !.text = UpdatedText(text, process[p].parts)]
      BY <2>2 DEF WriteUpdate
    <3>2. listing \in Listing /\ listing.text \in Text /\ text \in Text
      BY <3>1 DEF CalmIInv, IInv, FrameInv, TypeOK, TableTypeOK, Listing, Frame, At
    <3>3. text = UpdatedText(text, process[p].parts) /\ listing'.text = text
      BY <3>1, <3>2 DEF CalmIInv, CalmInv, Listing
    <3>4. CASE process[p].parts = {}
      <4>1. text = listing.text
        BY <3>2, <3>3, <3>4 DEF UpdatedText, Text
      <4> QED
        BY <2>1, <3>1, <3>3, <4>1
    <3>5. CASE process[p].parts # {}
      BY <3>1, <3>2, <3>3, <3>5, AllowedIsClean DEF Phase
    <3> QED
      BY <3>4, <3>5
  <2>3. CASE WritePublication(p)
    BY <2>1, <2>3 DEF WritePublication, CalmIInv, IInv, TypeOK, TableTypeOK, Listing
  <2>4. CASE DeleteRow(p)
    BY <2>4 DEF DeleteRow, Exists
  <2>5. CASE UNCHANGED listing
    BY <2>1, <2>5 DEF Exists
  <2> QED
    BY <2>2, <2>3, <2>4, <2>5, HandlerWrites
<1> QED
  BY <1>3, <1>4

\* The inductive invariant of requests that do not overlap.
THEOREM CalmInvariance == Spec => []CalmIInv
<1>1. Init => CalmIInv
  <2> SUFFICES ASSUME Init PROVE CalmIInv
    OBVIOUS
  <2>1. \A p \in Process : At(p, "idle")
    BY IdleParts DEF Init, At
  <2>2. Enabled /\ Exists => Clean(listing.text)
    BY WorkloadAssumption, AllowedIsClean DEF Init, Exists, Phase
  <2> QED
    BY <2>1, <2>2, InitInvariant DEF CalmIInv, CalmInv, CalmTextIsClean, At
<1>2. CalmIInv /\ [Next]_vars => CalmIInv'
  <2> SUFFICES ASSUME CalmIInv, [Next]_vars PROVE CalmIInv'
    OBVIOUS
  <2>1. IInv'
    BY CreateKeeps, RequestKeeps, HandlerKeeps, ExpiryKeeps, StutterKeeps DEF Next, CalmIInv
  <2>2. CASE CreateStep
    <3>1. PICK text \in Created : CreateListing(text)
      BY <2>2 DEF CreateStep
    <3>2. Enabled => Clean(text)
      BY <3>1, WorkloadAssumption, AllowedIsClean DEF CreateListing, Phase
    <3>3. /\ listing.status = "ABSENT" /\ UNCHANGED <<process, calm>>
          /\ listing' = [status |-> "DRAFT", text |-> text]
      BY <2>2, <3>1 DEF CreateStep, CreateListing
    <3>4. CalmInv' /\ CalmTextIsClean'
      BY <3>2, <3>3 DEF CalmIInv, CalmInv, CalmTextIsClean, Exists, At
    <3> QED
      BY <2>1, <3>4 DEF CalmIInv
  <2>3. ASSUME NEW p \in Process, RequestStep(p)
        PROVE  CalmIInv'
    BY <2>1, <2>3, CalmRequest DEF CalmIInv
  <2>4. ASSUME NEW p \in Process, HandlerStep(p)
        PROVE  CalmIInv'
    BY <2>1, <2>4, CalmHandler DEF CalmIInv
  <2>5. ASSUME NEW p \in Process, FailureStep(p)
        PROVE  CalmIInv'
    BY <2>1, <2>5 DEF FailureStep, CalmIInv, CalmInv, CalmTextIsClean
  <2>6. ASSUME NEW query \in Query, ExpiryStep(query)
        PROVE  CalmIInv'
    BY <2>1, <2>6 DEF ExpiryStep, Expire, listingVars, CalmIInv, CalmInv, CalmTextIsClean, Exists, At,
           UpdatedText
  <2>7. CASE UNCHANGED vars
    BY <2>1, <2>7 DEF vars, tableVars, CalmIInv, CalmInv, CalmTextIsClean, Exists, At, UpdatedText
  <2> QED
    BY <2>2, <2>3, <2>4, <2>5, <2>6, <2>7 DEF Next
<1> QED
  BY <1>1, <1>2, PTL DEF Spec

\* One request after the other, the title and the description that are saved were
\* moderated together (updateOwnedListing).
THEOREM CalmTextStaysClean == Spec => []CalmTextIsClean
<1>1. CalmIInv => CalmTextIsClean
  BY DEF CalmIInv
<1> QED
  BY <1>1, CalmInvariance, PTL

-----------------------------------------------------------------------------
(* One request after the other: the photos, the index and the cache.       *)

\* What a step does to the request that takes it, in full.
LEMMA GoToFields ==
    ASSUME process \in [Process -> Frame], NEW p \in Process, NEW label \in Label, GoTo(p, label)
    PROVE  /\ process'[p].at = label
           /\ process'[p].photo = process[p].photo
           /\ process'[p].order = process[p].order
           /\ process'[p].primary = process[p].primary
           /\ process'[p].active = process[p].active
           /\ process'[p].query = process[p].query
           /\ process'[p].answer = process[p].answer
BY DEF GoTo, Frame

LEMMA AtFields ==
    ASSUME process \in [Process -> Frame], NEW p \in Process, NEW label,
           Begin(p, [Idle EXCEPT !.at = label])
    PROVE  process'[p].at = label
<1> DEFINE frame == [Idle EXCEPT !.at = label]
<1>1. frame.at = label
  BY DEF Idle
<1>2. process'[p] = frame
  BY BeginFrame
<1> QED
  BY <1>1, <1>2

LEMMA IndexIfFields ==
    ASSUME process \in [Process -> Frame], NEW p \in Process, NEW published, IndexIf(p, published)
    PROVE  process'[p].at = IF published THEN "index_read" ELSE "idle"
<1>1. CASE published
  BY <1>1, AtFields DEF IndexIf
<1>2. CASE ~published
  BY <1>2, ReturnLabel DEF IndexIf
<1> QED
  BY <1>1, <1>2

LEMMA AnsweringFields ==
    ASSUME process \in [Process -> Frame], NEW p \in Process, NEW answer, Answering(p, answer)
    PROVE  /\ process'[p].at = "search_store" /\ process'[p].answer = answer
           /\ process'[p].query = process[p].query
<1> DEFINE frame == [process[p] EXCEPT !.at = "search_store", !.answer = answer]
<1>1. frame.at = "search_store" /\ frame.answer = answer /\ frame.query = process[p].query
  BY DEF Frame
<1>2. process'[p] = frame
  BY BeginFrame DEF Answering
<1> QED
  BY <1>1, <1>2

\* What would be answered now depends on the row and the ids of its photos, and on
\* neither when the listing is not published.
LEMMA FreshSame ==
    ASSUME \/ /\ listing' = listing
              /\ {photo.id : photo \in photos'} = {photo.id : photo \in photos}
           \/ listing.status # "ACTIVE" /\ listing'.status # "ACTIVE"
    PROVE  \A query : Fresh(query)' = Fresh(query)
BY DEF Fresh, Shown, Suggestion

\* The marks of photos do not show.
LEMMA MarksHidden ==
    ASSUME photos \subseteq Photo, NEW id
    PROVE  LET rows == WithPrimary(id)
           IN  /\ {photo.id : photo \in rows} = {photo.id : photo \in photos}
               /\ Places(rows) = Places(photos)
               /\ \A row \in rows : row.isPrimary <=> row.id = id
<1> DEFINE f == [photo \in photos |-> [photo EXCEPT !.isPrimary = photo.id = id]]
<1>1. \A photo \in photos : /\ f[photo].id = photo.id /\ f[photo].order = photo.order
                            /\ f[photo].isPrimary <=> photo.id = id
  BY DEF Photo
<1>2. WithPrimary(id) = {f[photo] : photo \in photos}
  BY DEF WithPrimary
<1> HIDE DEF f
<1> QED
  BY <1>1, <1>2 DEF Places

-----------------------------------------------------------------------------
(* The stages of a request that is alone.                                  *)

Stage(p) == PhotoStage(p) /\ IndexStage(p)

PhotoLabel == {"photo_demote", "photo_create", "photo_delete"} \cup ChangingPhotos

\* A request that has nothing to do with photos, now or next.
LEMMA PhotosApart ==
    ASSUME NEW p \in Process, PhotoStage(p), UNCHANGED photos,
           process[p].at \notin PhotoLabel \cup {"delete_row"},
           process'[p].at \notin PhotoLabel \cup {"delete_row"},
           process'[p].at = "publish_write" => photos # {},
           photos = {} => listing'.status # "ACTIVE"
    PROVE  PhotoStage(p)'
<1>1. OnePrimary /\ Cardinality(photos) <= MaxPhotos
  BY DEF PhotoStage, PhotoLabel, ChangingPhotos
<1>2. OnePrimary' /\ Cardinality(photos') <= MaxPhotos
  BY <1>1 DEF OnePrimary, Primary
<1> QED
  BY <1>2 DEF PhotoStage, PhotoLabel, ChangingPhotos

\* A request that gives up while the photos, the index and the cache are in order.
LEMMA GivesUp ==
    ASSUME NEW p \in Process, Stage(p), UNCHANGED <<listingVars, searchVars>>,
           process'[p].at = "idle", OnePrimary, DocumentFollows, CacheFollows(Query),
           listing.status = "ACTIVE" => photos # {}
    PROVE  Stage(p)'
<1>1. OnePrimary' /\ Cardinality(photos') <= MaxPhotos
  BY DEF OnePrimary, Primary, Stage, PhotoStage, listingVars
<1>2. DocumentFollows'
  BY DEF DocumentFollows, listingVars, searchVars
<1>3. CacheFollows(Query)'
  BY FreshSame DEF CacheFollows, listingVars, searchVars
<1> QED
  BY <1>1, <1>2, <1>3 DEF Stage, PhotoStage, IndexStage, listingVars, ChangingPhotos, Indexing,
       Invalidating

\* The row is written, and then indexed if it is published.
LEMMA WriteUpdateStage ==
    ASSUME TypeOK, NEW p \in Process, Stage(p), WriteUpdate(p)
    PROVE  Stage(p)'
<1>1. /\ At(p, "update_write") /\ Exists
      /\ listing' = [listing EXCEPT !.text = UpdatedText(process[p].text, process[p].parts)]
      /\ IndexIf(p, listing.status = "ACTIVE")
      /\ UNCHANGED <<photos, searchVars>>
      /\ process \in [Process -> Frame] /\ listing \in Listing
  BY DEF WriteUpdate, TypeOK, TableTypeOK
<1>2. listing'.status = listing.status
  BY <1>1 DEF Listing
<1>3. process'[p].at = IF listing.status = "ACTIVE" THEN "index_read" ELSE "idle"
  BY <1>1, IndexIfFields
<1>4. PhotoStage(p)'
  BY <1>1, <1>2, <1>3, PhotosApart DEF Stage, PhotoStage, PhotoLabel, ChangingPhotos, At
<1>5. DocumentFollows /\ CacheFollows(Query)
  BY <1>1 DEF Stage, IndexStage, ChangingPhotos, Indexing, Invalidating, At
<1>6. listing.status # "ACTIVE" => DocumentFollows' /\ CacheFollows(Query)'
  BY <1>1, <1>2, <1>5, FreshSame DEF DocumentFollows, CacheFollows, searchVars
<1>7. IndexStage(p)'
  BY <1>2, <1>3, <1>6 DEF IndexStage, ChangingPhotos, Indexing, Invalidating
<1> QED
  BY <1>4, <1>7 DEF Stage

LEMMA WritePublicationStage ==
    ASSUME TypeOK, NEW p \in Process, Stage(p), WritePublication(p)
    PROVE  Stage(p)'
<1>1. /\ At(p, "publish_write")
      /\ listing' = [listing EXCEPT !.status = "ACTIVE"]
      /\ IndexIf(p, TRUE)
      /\ UNCHANGED <<photos, searchVars>>
      /\ process \in [Process -> Frame] /\ listing \in Listing
  BY DEF WritePublication, TypeOK, TableTypeOK
<1>2. listing'.status = "ACTIVE" /\ process'[p].at = "index_read"
  BY <1>1, IndexIfFields DEF Listing
<1>3. PhotoStage(p)'
  BY <1>1, <1>2, PhotosApart DEF Stage, PhotoStage, PhotoLabel, ChangingPhotos, At
<1>4. IndexStage(p)'
  BY <1>2 DEF IndexStage, ChangingPhotos, Indexing, Invalidating
<1> QED
  BY <1>3, <1>4 DEF Stage

LEMMA DeleteStage ==
    ASSUME TypeOK, NEW p \in Process, Stage(p), DeletePhotos(p) \/ DeleteRow(p)
    PROVE  Stage(p)'
<1>0. process \in [Process -> Frame] /\ listing \in Listing
  BY DEF TypeOK, TableTypeOK
<1>1. photos' = {} /\ UNCHANGED searchVars
  BY DEF DeletePhotos, DeleteRow
<1>2. OnePrimary' /\ Cardinality(photos') <= MaxPhotos
  BY <1>1, FS_EmptySet, ListingAssumption DEF OnePrimary
<1>3. CASE DeletePhotos(p)
  <2>1. process[p].at = "delete_photos" /\ process'[p].at = "delete_row" /\ UNCHANGED listing
    BY <1>0, <1>3, GoToFields DEF DeletePhotos, Label, At
  <2>2. DocumentFollows /\ CacheFollows(Query)
    BY <2>1 DEF Stage, IndexStage, ChangingPhotos, Indexing, Invalidating
  <2>3. DocumentFollows' /\ (listing'.status = "ACTIVE" \/ CacheFollows(Query)')
    BY <1>1, <2>1, <2>2, FreshSame DEF DocumentFollows, CacheFollows, searchVars
  <2> QED
    BY <1>1, <1>2, <2>1, <2>3 DEF Stage, PhotoStage, IndexStage, ChangingPhotos, Indexing,
         Invalidating
<1>4. CASE DeleteRow(p)
  <2>1. process[p].at = "delete_row" /\ Exists /\ listing'.status = "DELETED"
    BY <1>4 DEF DeleteRow, At
  <2>2. process'[p].at = "unindex"
    BY <1>0, <1>4, AtFields DEF DeleteRow
  <2>3. DocumentFollows /\ (listing.status = "ACTIVE" \/ CacheFollows(Query))
    BY <2>1 DEF Stage, IndexStage, ChangingPhotos, Indexing
  <2>4. document = NoText => listing.status # "ACTIVE"
    BY <1>0, <2>1, <2>3 DEF TypeOK, DocumentFollows
  <2>5. document' = NoText => CacheFollows(Query)'
    BY <1>1, <2>1, <2>3, <2>4, FreshSame DEF CacheFollows, searchVars
  <2> QED
    BY <1>1, <1>2, <2>1, <2>2, <2>5 DEF Stage, PhotoStage, IndexStage, ChangingPhotos, Indexing,
         Invalidating
<1> QED
  BY <1>3, <1>4

\* The other photos lose the mark, and the request goes on to set it.
LEMMA DemotePhotosStage ==
    ASSUME TypeOK, NEW p \in Process, Stage(p), DemotePhotos(p)
    PROVE  Stage(p)'
<1>1. /\ process \in [Process -> Frame] /\ photos \subseteq Photo
      /\ photos' = WithPrimary(NoPhoto) /\ UNCHANGED <<listing, searchVars>>
      /\ \A a, b \in photos : a.id = b.id \/ a.order = b.order => a = b
  BY DEF DemotePhotos, TypeOK, TableTypeOK
<1>2. /\ {photo.id : photo \in photos'} = {photo.id : photo \in photos}
      /\ Places(photos') = Places(photos)
      /\ \A row \in photos' : ~row.isPrimary
  <2>1. \A id \in {photo.id : photo \in photos} : id # NoPhoto
    BY <1>1, ListingAssumption DEF Photo
  <2>2. /\ {photo.id : photo \in photos'} = {photo.id : photo \in photos}
        /\ Places(photos') = Places(photos)
        /\ \A row \in photos' : row.isPrimary <=> row.id = NoPhoto
    BY <1>1, MarksHidden
  <2> QED
    BY <2>1, <2>2
<1>3. IsFiniteSet(photos') /\ Cardinality(photos') <= Cardinality(photos)
  <2> DEFINE f == [photo \in photos |-> [photo EXCEPT !.isPrimary = photo.id = NoPhoto]]
  <2>1. photos' = {f[photo] : photo \in photos}
    BY <1>1 DEF WithPrimary
  <2>2. f \in [photos -> photos']
    BY <2>1
  <2> HIDE DEF f
  <2> QED
    BY <1>1, <2>1, <2>2, ImageFinite, PhotosFinite
<1>4. Cardinality(photos) \in Nat /\ Cardinality(photos') \in Nat
  BY <1>1, <1>3, PhotosFinite, FS_CardinalityType
<1>5. /\ Primary' = {}
      /\ photos' = {} <=> photos = {}
      /\ Cardinality(photos') <= MaxPhotos
      /\ HasRoom => HasRoom'
      /\ \A id : HasPhoto(id)' <=> HasPhoto(id)
  <2>1. Cardinality(photos) <= MaxPhotos /\ MaxPhotos \in Nat
    BY ListingAssumption DEF Stage, PhotoStage
  <2>2. Primary' = {} /\ (photos' = {} <=> photos = {})
    BY <1>2 DEF Primary
  <2>3. \A id : HasPhoto(id)' <=> HasPhoto(id)
    BY <1>2 DEF HasPhoto
  <2> QED
    BY <1>3, <1>4, <2>1, <2>2, <2>3 DEF HasRoom
<1>6. /\ DocumentFollows' <=> DocumentFollows
      /\ CacheFollows(Query)' <=> CacheFollows(Query)
  BY <1>1, <1>2, FreshSame DEF DocumentFollows, CacheFollows, searchVars
<1>7. CASE process[p].at = "photo_demote"
  <2>1. /\ process'[p].at = "photo_create"
        /\ process'[p].primary = process[p].primary /\ process'[p].order = process[p].order
        /\ process'[p].active = process[p].active
    BY <1>1, <1>7, GoToFields DEF DemotePhotos, Label, At
  <2>2. /\ HasRoom /\ Exists /\ process[p].order \notin Places(photos) /\ process[p].primary
        /\ listing.status = "ACTIVE" => photos # {}
        /\ process[p].active <=> listing.status = "ACTIVE"
        /\ DocumentFollows /\ CacheFollows(Query)
    BY <1>7 DEF Stage, PhotoStage, IndexStage, ChangingPhotos, Indexing, Invalidating
  <2>3. Exists'
    BY <1>1, <2>2 DEF Exists
  <2> QED
    BY <1>1, <1>2, <1>5, <1>6, <2>1, <2>2, <2>3
       DEF Stage, PhotoStage, IndexStage, ChangingPhotos, Indexing, Invalidating
<1>8. CASE process[p].at = "photo_clear"
  <2>1. /\ process'[p].at = "photo_promote"
        /\ process'[p].photo = process[p].photo
        /\ process'[p].active = process[p].active
    BY <1>1, <1>8, GoToFields DEF DemotePhotos, Label, At
  <2>2. /\ HasPhoto(process[p].photo)
        /\ listing.status = "ACTIVE" => photos # {}
        /\ process[p].active <=> listing.status = "ACTIVE"
        /\ DocumentFollows /\ (listing.status = "ACTIVE" \/ CacheFollows(Query))
    BY <1>8 DEF Stage, PhotoStage, IndexStage, ChangingPhotos, Indexing
  <2> QED
    BY <1>1, <1>2, <1>5, <1>6, <2>1, <2>2
       DEF Stage, PhotoStage, IndexStage, ChangingPhotos, Indexing, Invalidating
<1> QED
  BY <1>7, <1>8 DEF DemotePhotos, At

\* A request that has changed photos has the listing indexed if it is published; a draft
\* shows nothing of them.
LEMMA PhotosChanged ==
    ASSUME TypeOK, NEW p \in Process, IndexStage(p),
           process[p].at \in {"photo_create", "photo_remaining", "photo_promote"},
           IndexIf(p, process[p].active), UNCHANGED <<listing, searchVars>>,
           OnePrimary', Cardinality(photos') <= MaxPhotos,
           listing.status = "ACTIVE" => photos' # {}
    PROVE  Stage(p)'
<1>1. process'[p].at = IF process[p].active THEN "index_read" ELSE "idle"
  BY IndexIfFields DEF TypeOK, TableTypeOK
<1>2. /\ process[p].active <=> listing.status = "ACTIVE"
      /\ DocumentFollows /\ (listing.status = "ACTIVE" \/ CacheFollows(Query))
  BY DEF IndexStage, ChangingPhotos, Indexing, Invalidating
<1>3. listing.status # "ACTIVE" => CacheFollows(Query)'
  BY <1>2, FreshSame DEF CacheFollows, searchVars
<1>4. DocumentFollows'
  BY <1>2 DEF DocumentFollows, searchVars
<1> QED
  BY <1>1, <1>2, <1>3, <1>4
     DEF Stage, PhotoStage, IndexStage, ChangingPhotos, Indexing, Invalidating

LEMMA CreatePhotoStage ==
    ASSUME TypeOK, NEW p \in Process, Stage(p), CreatePhoto(p)
    PROVE  Stage(p)'
<1> DEFINE id == CHOOSE i \in PhotoId \ UsedPhotoIds : TRUE
           photo == [id |-> id, order |-> process[p].order, isPrimary |-> process[p].primary]
<1>1. /\ process[p].at = "photo_create"
      /\ PhotoId \ UsedPhotoIds # {}
      /\ photos' = photos \cup {photo}
      /\ IndexIf(p, process[p].active)
      /\ UNCHANGED <<listing, searchVars>>
      /\ process[p].primary \in BOOLEAN
  BY DEF TypeOK, TableTypeOK, CreatePhoto, Frame, At
<1>2. id \in PhotoId \ UsedPhotoIds
  BY <1>1
<1>3. photo.isPrimary = process[p].primary /\ photo.id = id
  OBVIOUS
<1>4. photo \notin photos
  BY <1>2, <1>3 DEF UsedPhotoIds
<1> HIDE DEF id, photo
<1>5. /\ HasRoom
      /\ IF process[p].primary THEN Primary = {} ELSE photos # {} /\ OnePrimary
  BY <1>1 DEF Stage, PhotoStage
<1>6. Cardinality(photos') <= MaxPhotos
  <2>1. IsFiniteSet(photos) /\ Cardinality(photos) \in Nat
    BY PhotosFinite DEF TypeOK, TableTypeOK
  <2>2. Cardinality(photos') = Cardinality(photos) + 1
    BY <1>1, <1>4, <2>1, FS_AddElement
  <2> QED
    BY <1>5, <2>1, <2>2, ListingAssumption DEF HasRoom
<1>7. OnePrimary'
  <2>1. CASE process[p].primary
    <3>1. Primary' = {photo}
      BY <1>1, <1>3, <1>5, <2>1 DEF Primary
    <3> QED
      BY <3>1 DEF OnePrimary
  <2>2. CASE ~process[p].primary
    <3>1. Primary' = Primary
      BY <1>1, <1>3, <2>2 DEF Primary
    <3> QED
      BY <1>5, <2>2, <3>1 DEF OnePrimary
  <2> QED
    BY <2>1, <2>2
<1> QED
  BY <1>1, <1>6, <1>7, PhotosChanged DEF Stage

LEMMA PromotePhotoStage ==
    ASSUME TypeOK, NEW p \in Process, Stage(p), PromotePhoto(p)
    PROVE  Stage(p)'
<1> DEFINE Promoted(photo) == IF photo.id = process[p].photo
                              THEN [photo EXCEPT !.isPrimary = TRUE] ELSE photo
<1>1. /\ process[p].at = "photo_promote"
      /\ IndexIf(p, process[p].active)
      /\ UNCHANGED <<listing, searchVars>>
      /\ photos' = {Promoted(photo) : photo \in photos}
      /\ photos \subseteq Photo
      /\ \A a, b \in photos : a.id = b.id \/ a.order = b.order => a = b
  BY DEF TypeOK, TableTypeOK, PromotePhoto, At
<1>2. Primary = {} /\ HasPhoto(process[p].photo) /\ Cardinality(photos) <= MaxPhotos
  BY <1>1 DEF Stage, PhotoStage
<1>3. PICK first \in photos : first.id = process[p].photo
  BY <1>2 DEF HasPhoto
<1>4. \A photo \in photos : /\ photo = first => Promoted(photo).isPrimary
                            /\ photo # first => Promoted(photo) = photo
  BY <1>1, <1>3 DEF Photo
<1>5. IsFiniteSet(photos') /\ Cardinality(photos') <= Cardinality(photos)
  <2> DEFINE f == [photo \in photos |-> Promoted(photo)]
  <2>1. f \in [photos -> photos'] /\ photos' = {f[photo] : photo \in photos}
    BY <1>1
  <2> HIDE DEF f
  <2> QED
    BY <1>1, <2>1, ImageFinite, PhotosFinite
<1>6. Cardinality(photos) \in Nat /\ Cardinality(photos') \in Nat
  BY <1>1, <1>5, PhotosFinite, FS_CardinalityType
<1> HIDE DEF Promoted
<1>7. OnePrimary' /\ photos' # {}
  <2>1. \A photo \in photos : ~photo.isPrimary
    BY <1>2 DEF Primary
  <2>2. Primary' = {Promoted(first)} /\ photos' # {}
    BY <1>1, <1>3, <1>4, <2>1 DEF Primary
  <2> QED
    BY <2>2 DEF OnePrimary
<1>8. Cardinality(photos') <= MaxPhotos
  BY <1>2, <1>5, <1>6, ListingAssumption
<1> QED
  BY <1>1, <1>7, <1>8, PhotosChanged DEF Stage

\* With the primary photo no photo is left that is primary.
LEMMA RemovePhotoStage ==
    ASSUME TypeOK, NEW p \in Process, Stage(p), RemovePhoto(p)
    PROVE  Stage(p)'
<1>1. /\ process[p].at = "photo_delete"
      /\ photos' = {photo \in photos : photo.id # process[p].photo}
      /\ UNCHANGED <<listing, searchVars>>
      /\ process \in [Process -> Frame] /\ photos \subseteq Photo
      /\ \A a, b \in photos : a.id = b.id \/ a.order = b.order => a = b
  BY DEF RemovePhoto, At, TypeOK, TableTypeOK
<1>2. /\ process'[p].at = "photo_remaining"
      /\ process'[p].primary = process[p].primary /\ process'[p].active = process[p].active
  BY <1>1, GoToFields DEF RemovePhoto, Label
<1>3. /\ OnePrimary /\ Cardinality(photos) <= MaxPhotos
      /\ \E photo \in photos : photo.id = process[p].photo /\ photo.isPrimary = process[p].primary
      /\ listing.status = "ACTIVE" => \E photo \in photos : photo.id # process[p].photo
      /\ process[p].active <=> listing.status = "ACTIVE"
      /\ DocumentFollows /\ CacheFollows(Query)
  BY <1>1 DEF Stage, PhotoStage, IndexStage, ChangingPhotos, Indexing, Invalidating
<1>4. PICK gone \in photos : gone.id = process[p].photo /\ gone.isPrimary = process[p].primary
  BY <1>3
<1>5. photos' = photos \ {gone}
  BY <1>1, <1>4
<1>6. Cardinality(photos') <= MaxPhotos
  <2>1. IsFiniteSet(photos)
    BY <1>1, PhotosFinite
  <2>2. Cardinality(photos') <= Cardinality(photos) /\ Cardinality(photos') \in Nat
        /\ Cardinality(photos) \in Nat
    BY <1>5, <2>1, FS_Subset, FS_CardinalityType
  <2> QED
    BY <1>3, <2>2, ListingAssumption
<1>7. Primary' = Primary \ {gone}
  BY <1>5 DEF Primary
<1>8. IF process[p].primary THEN Primary' = {} ELSE OnePrimary'
  <2>1. photos # {} /\ \E a \in Primary : \A b \in Primary : a = b
    BY <1>3 DEF OnePrimary
  <2>2. CASE process[p].primary
    <3>1. gone \in Primary
      BY <1>4, <2>2 DEF Primary
    <3> QED
      BY <1>7, <2>1, <2>2, <3>1
  <2>3. CASE ~process[p].primary
    <3>1. Primary' = Primary
      BY <1>4, <1>7, <2>3 DEF Primary
    <3> QED
      BY <2>1, <2>3, <3>1 DEF OnePrimary
  <2> QED
    BY <2>2, <2>3
<1>9. listing.status = "ACTIVE" => photos' # {}
  BY <1>1, <1>3
<1>10. DocumentFollows' /\ (listing'.status = "ACTIVE" \/ CacheFollows(Query)')
  BY <1>1, <1>3, FreshSame DEF DocumentFollows, CacheFollows, searchVars
<1> QED
  BY <1>1, <1>2, <1>3, <1>6, <1>8, <1>9, <1>10
     DEF Stage, PhotoStage, IndexStage, ChangingPhotos, Indexing, Invalidating

LEMMA ReadRemainingStage ==
    ASSUME TypeOK, NEW p \in Process, Stage(p), ReadRemaining(p)
    PROVE  Stage(p)'
<1>1. /\ process[p].at = "photo_remaining" /\ UNCHANGED <<listingVars, searchVars>>
      /\ process \in [Process -> Frame]
  BY DEF ReadRemaining, At, TypeOK, TableTypeOK
<1>2. /\ Cardinality(photos) <= MaxPhotos
      /\ listing.status = "ACTIVE" => photos # {}
      /\ process[p].active <=> listing.status = "ACTIVE"
      /\ IF process[p].primary THEN Primary = {} ELSE OnePrimary
      /\ DocumentFollows /\ (listing.status = "ACTIVE" \/ CacheFollows(Query))
  BY <1>1 DEF Stage, PhotoStage, IndexStage, ChangingPhotos, Indexing
<1>3. ASSUME NEW first \in photos,
             Begin(p, [process[p] EXCEPT !.at = "photo_clear", !.photo = first.id])
      PROVE  Stage(p)'
  <2> DEFINE frame == [process[p] EXCEPT !.at = "photo_clear", !.photo = first.id]
  <2>1. frame.at = "photo_clear" /\ frame.photo = first.id /\ frame.active = process[p].active
    BY <1>1 DEF Frame
  <2>2. process'[p] = frame
    BY <1>1, <1>3, BeginFrame
  <2> HIDE DEF frame
  <2>3. \E photo \in photos' : photo.id = process'[p].photo
    BY <1>1, <2>1, <2>2 DEF listingVars
  <2>4. DocumentFollows' /\ (listing'.status = "ACTIVE" \/ CacheFollows(Query)')
    BY <1>1, <1>2, FreshSame DEF DocumentFollows, CacheFollows, listingVars, searchVars
  <2> QED
    BY <1>1, <1>2, <2>1, <2>2, <2>3, <2>4
       DEF Stage, PhotoStage, IndexStage, ChangingPhotos, Indexing, Invalidating, listingVars,
           HasPhoto
<1>4. CASE (~process[p].primary \/ photos = {}) /\ IndexIf(p, process[p].active)
  <2>1. OnePrimary'
    BY <1>1, <1>2, <1>4 DEF OnePrimary, Primary, listingVars
  <2> QED
    BY <1>1, <1>2, <1>4, <2>1, PhotosChanged DEF Stage, listingVars
<1> QED
  BY <1>3, <1>4 DEF ReadRemaining

\* A handler that gives up has not left the photos half changed: with nobody else at
\* work a place that was free is free, and a photo that was there is there.
LEMMA GivesUpStage ==
    ASSUME TypeOK, NEW p \in Process, Stage(p),
           \/ UpdateRefused(p) \/ PhotoRefused(p) \/ PhotoMissing(p)
           \/ PublicationRefused(p) \/ RowMissing(p)
    PROVE  Stage(p)'
<1>1. Return(p) /\ UNCHANGED <<listingVars, searchVars>>
  BY DEF UpdateRefused, PhotoRefused, PhotoMissing, PublicationRefused, RowMissing
<1>2. process'[p].at = "idle"
  BY <1>1, ReturnLabel DEF TypeOK, TableTypeOK
<1>3. /\ process[p].at \in {"update_write", "publish_write", "photo_delete", "delete_row"}
      /\ process[p].at = "delete_row" => ~Exists
  BY DEF UpdateRefused, PhotoRefused, PhotoMissing, PublicationRefused, RowMissing, At, HasPhoto,
         Stage, PhotoStage
<1>4. /\ OnePrimary /\ DocumentFollows
      /\ listing.status = "ACTIVE" => photos # {}
      /\ CacheFollows(Query)
  BY <1>3 DEF Stage, PhotoStage, IndexStage, ChangingPhotos, Indexing, Invalidating, Exists,
       OnePrimary
<1> QED
  BY <1>1, <1>2, <1>4, GivesUp

\* What the index is given is the text of the row.
LEMMA IndexingStage ==
    ASSUME TypeOK, NEW p \in Process, Stage(p), IndexRead(p) \/ IndexWrite(p) \/ Unindex(p)
    PROVE  Stage(p)'
<1> USE DEF ChangingPhotos, Indexing, Invalidating
<1>1. /\ process[p].at \in Indexing /\ UNCHANGED <<listing, photos, cache>>
      /\ process \in [Process -> Frame]
      /\ listing.status = "ACTIVE" => photos # {}
  BY DEF IndexRead, IndexWrite, Unindex, At, TypeOK, TableTypeOK, listingVars, searchVars, Stage,
         PhotoStage
<1>2. process'[p].at \notin PhotoLabel \cup {"delete_row", "publish_write"} => PhotoStage(p)'
  BY <1>1, PhotosApart DEF Stage, PhotoLabel
<1>3. CASE IndexRead(p)
  <2>1. /\ listing.status = "ACTIVE" /\ UNCHANGED document
        /\ Begin(p, [Idle EXCEPT !.at = "index_write", !.text = listing.text])
    BY <1>3 DEF Stage, IndexStage, IndexRead, At, searchVars
  <2> DEFINE frame == [Idle EXCEPT !.at = "index_write", !.text = listing.text]
  <2>2. frame.at = "index_write" /\ frame.text = listing.text
    BY DEF Idle
  <2>3. process'[p] = frame
    BY <1>1, <2>1, BeginFrame
  <2> HIDE DEF frame
  <2>4. IndexStage(p)'
    BY <1>1, <2>1, <2>2, <2>3 DEF IndexStage
  <2> QED
    BY <1>2, <2>2, <2>3, <2>4 DEF Stage, PhotoLabel
<1>4. CASE IndexWrite(p)
  <2>1. /\ listing.status = "ACTIVE" /\ process[p].text = listing.text
        /\ document' = process[p].text
    BY <1>4 DEF Stage, IndexStage, IndexWrite, At
  <2>2. process'[p].at = "invalidate"
    BY <1>1, <1>4, GoToFields DEF IndexWrite, Label
  <2>3. IndexStage(p)'
    BY <1>1, <2>1, <2>2 DEF IndexStage, DocumentFollows
  <2> QED
    BY <1>2, <2>2, <2>3 DEF Stage, PhotoLabel
<1>5. CASE Unindex(p)
  <2>1. /\ listing.status # "ACTIVE" /\ document' = NoText
        /\ document = NoText => CacheFollows(Query)
    BY <1>5 DEF Stage, IndexStage, Unindex, At
  <2>2. \/ document = NoText /\ process'[p].at = "idle"
        \/ process'[p].at = "invalidate"
    BY <1>1, <1>5, GoToFields, ReturnLabel DEF Unindex, Label
  <2>3. CacheFollows(Query)' <=> CacheFollows(Query)
    BY <1>1, FreshSame DEF CacheFollows
  <2>4. IndexStage(p)'
    BY <1>1, <2>1, <2>2, <2>3 DEF IndexStage, DocumentFollows
  <2> QED
    BY <1>2, <2>2, <2>4 DEF Stage, PhotoLabel
<1> QED
  BY <1>3, <1>4, <1>5

\* After both steps of the invalidation no answer is left.
LEMMA InvalidateStage ==
    ASSUME TypeOK, NEW p \in Process, Stage(p), Invalidate(p)
    PROVE  Stage(p)'
<1> USE DEF ChangingPhotos, Indexing, Invalidating
<1>1. /\ process[p].at \in Invalidating /\ UNCHANGED <<listing, photos, document>>
      /\ process \in [Process -> Frame]
      /\ listing.status = "ACTIVE" => photos # {}
      /\ DocumentFollows
  BY DEF Invalidate, At, TypeOK, TableTypeOK, listingVars, Stage, PhotoStage, IndexStage
<1>2. process'[p].at \in {"idle", "invalidate_prefix"}
  BY <1>1, GoToFields, ReturnLabel DEF Invalidate, Label
<1>3. PhotoStage(p)'
  BY <1>1, <1>2, PhotosApart DEF Stage, PhotoLabel
<1>4. DocumentFollows'
  BY <1>1 DEF DocumentFollows
<1>5. CASE At(p, "invalidate")
  <2>1. Forget(Query \ {"prefix"}) /\ process'[p].at = "invalidate_prefix"
    BY <1>1, <1>5, GoToFields DEF Invalidate, Label, At
  <2>2. CacheFollows(Query \ {"prefix"})'
    BY <2>1 DEF Forget, CacheFollows
  <2> QED
    BY <1>3, <1>4, <2>1, <2>2 DEF Stage, IndexStage
<1>6. CASE At(p, "invalidate_prefix")
  <2>1. Forget({"prefix"}) /\ process'[p].at = "idle"
    BY <1>1, <1>6, ReturnLabel DEF Invalidate, At
  <2>2. CacheFollows(Query \ {"prefix"})
    BY <1>6 DEF Stage, IndexStage, At
  <2>3. CacheFollows(Query)'
    BY <1>1, <2>1, <2>2, FreshSame DEF Forget, CacheFollows
  <2> QED
    BY <1>3, <1>4, <2>1, <2>3 DEF Stage, IndexStage
<1> QED
  BY <1>5, <1>6 DEF Invalidate

\* A search that nothing overlaps answers what is so now.
LEMMA SearchStage ==
    ASSUME TypeOK, NEW p \in Process, Stage(p),
           SearchHit(p) \/ SearchMiss(p) \/ Hydrate(p) \/ SearchDatabase(p) \/ StoreAnswer(p)
    PROVE  Stage(p)'
<1> USE DEF ChangingPhotos, Indexing, Invalidating
<1>1. /\ process[p].at \in {"search_index", "search_hydrate", "search_database", "search_store"}
      /\ UNCHANGED <<listing, photos, document>>
      /\ process \in [Process -> Frame]
      /\ cache \in [Query -> Answer \cup {NoAnswer}]
      /\ Exists => listing.text # NoText
  BY DEF SearchHit, SearchMiss, Hydrate, SearchDatabase, StoreAnswer, At, TypeOK, TableTypeOK,
         listingVars, searchVars
<1>2. /\ listing.status = "ACTIVE" => photos # {}
      /\ DocumentFollows /\ CacheFollows(Query)
  BY <1>1 DEF Stage, PhotoStage, IndexStage
<1>3. \A query : Fresh(query)' = Fresh(query)
  BY <1>1, FreshSame
<1>4. DocumentFollows'
  BY <1>1, <1>2 DEF DocumentFollows
<1>5. process'[p].at \in {"idle", "search_hydrate", "search_database", "search_store"}
         => PhotoStage(p)'
  BY <1>1, <1>2, PhotosApart DEF Stage, PhotoLabel
<1>6. CASE UNCHANGED cache /\ Answering(p, Fresh(process[p].query))
  <2>1. /\ process'[p].at = "search_store" /\ process'[p].query = process[p].query
        /\ process'[p].answer = Fresh(process[p].query)
    BY <1>1, <1>6, AnsweringFields
  <2>2. CacheFollows(Query)'
    BY <1>2, <1>3, <1>6 DEF CacheFollows
  <2> QED
    BY <1>3, <1>4, <1>5, <2>1, <2>2 DEF Stage, IndexStage
<1>7. CASE UNCHANGED cache /\ process[p].query # "prefix" /\ GoTo(p, "search_database")
  <2>1. process'[p].at = "search_database" /\ process'[p].query # "prefix"
    BY <1>1, <1>7, GoToFields DEF Label
  <2>2. CacheFollows(Query)'
    BY <1>2, <1>3, <1>7 DEF CacheFollows
  <2> QED
    BY <1>3, <1>4, <1>5, <2>1, <2>2 DEF Stage, IndexStage
<1>8. CASE SearchHit(p)
  <2>1. listing.status = "ACTIVE" /\ document = listing.text /\ UNCHANGED cache
    BY <1>2, <1>8 DEF SearchHit, DocumentFollows, searchVars
  <2>2. CASE process[p].query = "prefix"
    BY <1>6, <1>8, <2>1, <2>2 DEF SearchHit, Fresh
  <2>3. CASE process[p].query # "prefix"
    <3>1. process'[p].at = "search_hydrate" /\ process'[p].query # "prefix"
      BY <1>1, <1>8, <2>3, GoToFields DEF SearchHit, Label
    <3>2. CacheFollows(Query)'
      BY <1>2, <1>3, <2>1 DEF CacheFollows
    <3> QED
      BY <1>1, <1>3, <1>4, <1>5, <2>1, <3>1, <3>2 DEF Stage, IndexStage
  <2> QED
    BY <2>2, <2>3
<1>9. CASE SearchMiss(p)
  <2>1. listing.status # "ACTIVE" /\ UNCHANGED cache
    BY <1>1, <1>2, <1>9 DEF SearchMiss, DocumentFollows, searchVars, Exists
  <2> QED
    BY <1>6, <1>7, <1>9, <2>1 DEF SearchMiss, Fresh
<1>10. CASE Hydrate(p)
  <2>1. listing.status = "ACTIVE" /\ process[p].query # "prefix" /\ UNCHANGED cache
    BY <1>10 DEF Hydrate, Stage, IndexStage, At, searchVars
  <2> QED
    BY <1>6, <1>10, <2>1 DEF Hydrate, Fresh, Exists
<1>11. CASE SearchDatabase(p)
  <2>1. process[p].query # "prefix" /\ UNCHANGED cache
    BY <1>11 DEF SearchDatabase, Stage, IndexStage, At, searchVars
  <2> QED
    BY <1>6, <1>11, <2>1 DEF SearchDatabase, Fresh
<1>12. CASE StoreAnswer(p)
  <2>1. /\ process[p].answer = Fresh(process[p].query)
        /\ cache' = [cache EXCEPT ![process[p].query] = process[p].answer]
    BY <1>12 DEF StoreAnswer, Stage, IndexStage, At
  <2>2. process'[p].at = "idle"
    BY <1>1, <1>12, ReturnLabel DEF StoreAnswer
  <2>3. CacheFollows(Query)'
    BY <1>1, <1>2, <1>3, <2>1 DEF CacheFollows
  <2> QED
    BY <1>3, <1>4, <1>5, <2>2, <2>3 DEF Stage, IndexStage
<1> QED
  BY <1>8, <1>9, <1>10, <1>11, <1>12

LEMMA HandlerStage == ASSUME TypeOK, NEW p \in Process, Stage(p), HandlerStep(p) PROVE Stage(p)'
BY WriteUpdateStage, WritePublicationStage, DeleteStage, DemotePhotosStage, CreatePhotoStage,
   PromotePhotoStage, RemovePhotoStage, ReadRemainingStage, GivesUpStage, IndexingStage,
   InvalidateStage, SearchStage DEF HandlerStep, ListingStep, SearchStep

\* A request begins with the listing in order.
LEMMA RequestStage ==
    ASSUME TypeOK, NEW p \in Process, Stage(p), RequestStep(p)
    PROVE  Stage(p)'
<1> USE DEF ChangingPhotos, Indexing, Invalidating
<1>1. /\ process[p].at = "idle" /\ UNCHANGED <<listing, photos, document, cache>>
      /\ process \in [Process -> Frame]
      /\ photos \subseteq Photo
  BY DEF RequestStep, UpdateListing, UploadPhoto, DeletePhoto, PublishListing, DeleteListing,
         Reindex, Search, At, listingVars, searchVars, TypeOK, TableTypeOK
<1>2. /\ listing.status = "ACTIVE" => photos # {}
      /\ Cardinality(photos) <= MaxPhotos /\ OnePrimary
      /\ DocumentFollows /\ CacheFollows(Query)
  BY <1>1 DEF Stage, PhotoStage, IndexStage
<1>3. DocumentFollows' /\ CacheFollows(Query)' /\ OnePrimary'
  BY <1>1, <1>2, FreshSame DEF DocumentFollows, CacheFollows, OnePrimary, Primary
<1>4. ASSUME process'[p].at \in {"update_write", "publish_write", "delete_photos", "index_read",
                                 "search_index", "search_database"},
             process'[p].at = "publish_write" => photos # {},
             process'[p].at = "index_read" => listing.status = "ACTIVE",
             process'[p].at = "search_database" => process'[p].query # "prefix"
      PROVE  Stage(p)'
  <2>1. PhotoStage(p)'
    BY <1>1, <1>2, <1>4, PhotosApart DEF Stage, PhotoLabel
  <2>2. IndexStage(p)'
    BY <1>1, <1>3, <1>4 DEF IndexStage
  <2> QED
    BY <2>1, <2>2 DEF Stage
<1>5. ASSUME NEW next, NEW parts, UpdateListing(p, next, parts)
      PROVE  Stage(p)'
  <2> DEFINE frame == [Idle EXCEPT !.at = "update_write", !.text = next, !.parts = parts]
  <2>1. frame.at = "update_write"
    BY DEF Idle
  <2>2. process'[p] = frame
    BY <1>1, <1>5, BeginFrame DEF UpdateListing
  <2> HIDE DEF frame
  <2> QED
    BY <1>4, <2>1, <2>2
<1>6. ASSUME NEW order, NEW isPrimary \in BOOLEAN, UploadPhoto(p, order, isPrimary)
      PROVE  Stage(p)'
  <2> DEFINE primary == BecomesPrimary(isPrimary)
             frame == [Idle EXCEPT !.at = IF primary THEN "photo_demote" ELSE "photo_create",
                                   !.order = order, !.primary = primary,
                                   !.active = listing.status = "ACTIVE"]
  <2>1. /\ frame.at = IF primary THEN "photo_demote" ELSE "photo_create"
        /\ frame.order = order /\ frame.primary = primary
        /\ frame.active = (listing.status = "ACTIVE")
    BY DEF Idle
  <2>2. process'[p] = frame
    BY <1>1, <1>6, BeginFrame DEF UploadPhoto
  <2> HIDE DEF frame
  <2>3. HasRoom /\ Exists /\ order \notin Places(photos) /\ (photos = {} => primary)
    BY <1>6 DEF UploadPhoto, BecomesPrimary
  <2>4. HasRoom' /\ Exists' /\ order \notin Places(photos')
    BY <1>1, <2>3 DEF HasRoom, Exists
  <2>5. PhotoStage(p)'
    BY <1>1, <1>2, <1>3, <2>1, <2>2, <2>3, <2>4 DEF PhotoStage
  <2>6. IndexStage(p)'
    BY <1>1, <1>3, <2>1, <2>2 DEF IndexStage
  <2> QED
    BY <2>5, <2>6 DEF Stage
<1>7. ASSUME NEW photo \in photos, DeletePhoto(p, photo)
      PROVE  Stage(p)'
  <2> DEFINE frame == [Idle EXCEPT !.at = "photo_delete", !.photo = photo.id,
                                   !.primary = photo.isPrimary,
                                   !.active = listing.status = "ACTIVE"]
  <2>1. /\ frame.at = "photo_delete" /\ frame.photo = photo.id
        /\ frame.primary = photo.isPrimary
        /\ frame.active = (listing.status = "ACTIVE")
    BY DEF Idle
  <2>2. process'[p] = frame
    BY <1>1, <1>7, BeginFrame DEF DeletePhoto
  <2> HIDE DEF frame
  <2>3. listing.status = "ACTIVE" => \E other \in photos : other.id # photo.id
    <3> SUFFICES ASSUME listing.status = "ACTIVE", \A other \in photos : other.id = photo.id
                 PROVE  FALSE
      OBVIOUS
    <3>1. photos = {photo}
      BY DEF TypeOK
    <3>2. Cardinality(photos) = 1
      BY <3>1, FS_Singleton
    <3> QED
      BY <1>7, <3>2 DEF DeletePhoto
  <2>4. PhotoStage(p)'
    BY <1>1, <1>2, <1>3, <2>1, <2>2, <2>3 DEF PhotoStage
  <2>5. IndexStage(p)'
    BY <1>1, <1>3, <2>1, <2>2 DEF IndexStage
  <2> QED
    BY <2>4, <2>5 DEF Stage
<1>8. CASE PublishListing(p)
  <2> DEFINE frame == [Idle EXCEPT !.at = "publish_write", !.text = listing.text]
  <2>1. frame.at = "publish_write"
    BY DEF Idle
  <2>2. process'[p] = frame
    BY <1>1, <1>8, BeginFrame DEF PublishListing
  <2> HIDE DEF frame
  <2> QED
    BY <1>4, <1>8, <2>1, <2>2 DEF PublishListing
<1>9. CASE DeleteListing(p)
  BY <1>1, <1>4, <1>9, AtFields DEF DeleteListing
<1>10. CASE Reindex(p)
  BY <1>1, <1>4, <1>10, IndexIfFields DEF Reindex
<1>11. ASSUME NEW query, Search(p, query)
       PROVE  Stage(p)'
  <2> DEFINE frame == [Idle EXCEPT !.at = IF query = "letter" THEN "search_database"
                                                             ELSE "search_index",
                                   !.query = query]
  <2>1. /\ frame.at = IF query = "letter" THEN "search_database" ELSE "search_index"
        /\ frame.query = query
    BY DEF Idle
  <2>2. process'[p] = frame
    BY <1>1, <1>11, BeginFrame DEF Search
  <2> HIDE DEF frame
  <2> QED
    BY <1>4, <2>1, <2>2
<1> QED
  BY <1>5, <1>6, <1>7, <1>8, <1>9, <1>10, <1>11 DEF RequestStep

\* A listing that is created, and an answer whose time is over, disturb nobody.
LEMMA AsideStage ==
    ASSUME TypeOK, NEW p \in Process, Stage(p),
           CreateStep \/ \E query \in Query : ExpiryStep(query)
    PROVE  Stage(p)'
<1>1. /\ UNCHANGED <<process, photos, document>>
      /\ listing' = listing \/ (listing.status = "ABSENT" /\ listing'.status = "DRAFT")
      /\ \A query \in Query : cache'[query] \in {cache[query], NoAnswer}
      /\ cache' = cache \/ cache' \in [Query -> Answer \cup {NoAnswer}]
  BY DEF CreateStep, CreateListing, ExpiryStep, Expire, Forget, listingVars, searchVars, TypeOK,
         TableTypeOK
<1>2. \A query : Fresh(query)' = Fresh(query)
  BY <1>1, FreshSame
<1>3. /\ DocumentFollows => DocumentFollows'
      /\ CacheFollows(Query) => CacheFollows(Query)'
      /\ CacheFollows(Query \ {"prefix"}) => CacheFollows(Query \ {"prefix"})'
  BY <1>1, <1>2 DEF DocumentFollows, CacheFollows
<1>4. /\ listing'.status = "ACTIVE" <=> listing.status = "ACTIVE"
      /\ listing.status = "ACTIVE" => listing' = listing
      /\ Exists => Exists'
  BY <1>1 DEF Exists
<1>5. /\ OnePrimary' <=> OnePrimary
      /\ Primary' = Primary /\ (HasRoom' <=> HasRoom)
      /\ \A id : HasPhoto(id)' <=> HasPhoto(id)
  BY <1>1 DEF OnePrimary, Primary, HasRoom, HasPhoto
<1>6. PhotoStage(p)'
  BY <1>1, <1>4, <1>5 DEF Stage, PhotoStage
<1>7. IndexStage(p)'
  BY <1>1, <1>2, <1>3, <1>4 DEF Stage, IndexStage, ChangingPhotos, Indexing, Invalidating
<1> QED
  BY <1>6, <1>7 DEF Stage

\* A step of one request, which nobody overlaps.
LEMMA LoneStep ==
    ASSUME StageInv, TypeOK, NEW p \in Process,
           RequestStep(p) \/ HandlerStep(p),
           calm' => calm /\ \A q \in Process \ {p} : At(q, "idle"),
           \A q \in Process \ {p} : process'[q] = process[q]
    PROVE  StageInv'
<1> SUFFICES ASSUME calm', NEW r \in Process, \A q \in Process \ {r} : At(q, "idle")'
             PROVE  PhotoStage(r)' /\ IndexStage(r)'
  BY DEF StageInv
<1>1. Stage(p)
  BY DEF StageInv, Stage
<1>2. Stage(p)'
  BY <1>1, RequestStage, HandlerStage
<1>3. CASE r = p
  BY <1>2, <1>3 DEF Stage
<1>4. CASE r # p
  <2>1. At(p, "idle")' /\ At(r, "idle")'
    BY <1>4 DEF At
  <2> QED
    BY <1>2, <2>1 DEF Stage, PhotoStage, IndexStage, At, ChangingPhotos, Indexing, Invalidating
<1> QED
  BY <1>3, <1>4

\* Requests that do not overlap go through their stages.
THEOREM StageInvariance == Spec => []StageInv
<1>1. Init => StageInv
  <2> SUFFICES ASSUME Init, NEW p \in Process PROVE PhotoStage(p) /\ IndexStage(p)
    BY DEF StageInv
  <2>1. process[p].at = "idle" /\ document = NoText /\ cache = [query \in Query |-> NoAnswer]
        /\ listing.status \in {"ABSENT", "DRAFT"}
    BY IdleParts DEF Init
  <2>2. OnePrimary /\ Cardinality(photos) <= MaxPhotos
    <3>1. CASE photos = {}
      BY <3>1, FS_EmptySet, ListingAssumption DEF OnePrimary
    <3>2. ASSUME NEW photo, photos = {photo}, photo.isPrimary
          PROVE  OnePrimary /\ Cardinality(photos) <= MaxPhotos
      <4>1. Primary = {photo}
        BY <3>2 DEF Primary
      <4> QED
        BY <3>2, <4>1, FS_Singleton, ListingAssumption DEF OnePrimary
    <3>3. ASSUME NEW id, photos = {[id |-> id, order |-> 0, isPrimary |-> TRUE]}
          PROVE  OnePrimary /\ Cardinality(photos) <= MaxPhotos
      <4> DEFINE photo == [id |-> id, order |-> 0, isPrimary |-> TRUE]
      <4>1. photo.isPrimary /\ photos = {photo}
        BY <3>3
      <4> HIDE DEF photo
      <4> QED
        BY <3>2, <4>1
    <3> QED
      BY <3>1, <3>3 DEF Init
  <2> QED
    BY <2>1, <2>2 DEF PhotoStage, IndexStage, DocumentFollows, CacheFollows, ChangingPhotos,
         Indexing, Invalidating
<1>2. CalmIInv /\ StageInv /\ [Next]_vars => StageInv'
  <2> SUFFICES ASSUME CalmIInv, StageInv, [Next]_vars PROVE StageInv'
    OBVIOUS
  <2>1. TypeOK /\ CalmInv /\ process \in [Process -> Frame]
    BY DEF CalmIInv, IInv, TypeOK, TableTypeOK
  <2>2. CASE CreateStep \/ \E query \in Query : ExpiryStep(query)
    <3>1. UNCHANGED <<process, calm>>
      BY <2>2 DEF CreateStep, CreateListing, ExpiryStep, Expire
    <3> QED
      BY <2>1, <2>2, <3>1, AsideStage DEF StageInv, Stage, At
  <2>3. ASSUME NEW p \in Process, RequestStep(p) PROVE StageInv'
    <3>1. calm' => calm /\ \A q \in Process \ {p} : At(q, "idle")
      BY <2>3 DEF RequestStep, IdleAll
    <3>2. \A q \in Process \ {p} : process'[q] = process[q]
      BY <2>1, <2>3 DEF RequestStep, UpdateListing, UploadPhoto, DeletePhoto, PublishListing,
           DeleteListing, Reindex, Search, IndexIf, Begin
    <3> QED
      BY <2>1, <2>3, <3>1, <3>2, LoneStep
  <2>4. ASSUME NEW p \in Process, HandlerStep(p) PROVE StageInv'
    <3>1. ~At(p, "idle") /\ \A q \in Process \ {p} : process'[q] = process[q]
      BY <2>1, <2>4, HandlerMoves
    <3>2. calm' => calm /\ \A q \in Process \ {p} : At(q, "idle")
      BY <2>1, <2>4, <3>1 DEF HandlerStep, CalmInv
    <3> QED
      BY <2>1, <2>4, <3>1, <3>2, LoneStep
  <2>5. ASSUME NEW p \in Process, FailureStep(p) PROVE StageInv'
    BY <2>5 DEF FailureStep, StageInv
  <2>6. CASE UNCHANGED vars
    BY <2>6, FreshSame DEF vars, tableVars, StageInv, PhotoStage, IndexStage, At, OnePrimary, Primary,
         HasRoom, HasPhoto, Exists, DocumentFollows, CacheFollows
  <2> QED
    BY <2>2, <2>3, <2>4, <2>5, <2>6 DEF Next
<1> QED
  BY <1>1, <1>2, CalmInvariance, PTL DEF Spec

LEMMA StageAtRest ==
    ASSUME StageInv, calm, IdleAll
    PROVE  \E p \in Process : process[p].at = "idle" /\ PhotoStage(p) /\ IndexStage(p)
BY ListingAssumption DEF StageInv, IdleAll, At

\* One request after the other, a listing has no more than MaxPhotos photos, one of them
\* the primary one, and a published listing has one (uploadPhoto, deleteListingPhoto).
THEOREM CalmPhotosHold == Spec => []CalmPhotos
<1>1. StageInv => CalmPhotos
  <2> SUFFICES ASSUME StageInv, calm, IdleAll
               PROVE  /\ Cardinality(photos) <= MaxPhotos
                      /\ photos # {} => Cardinality(Primary) = 1
                      /\ listing.status = "ACTIVE" => photos # {}
    BY DEF CalmPhotos
  <2>1. /\ Cardinality(photos) <= MaxPhotos /\ OnePrimary
        /\ listing.status = "ACTIVE" => photos # {}
    BY StageAtRest DEF PhotoStage
  <2>2. ASSUME photos # {} PROVE Cardinality(Primary) = 1
    <3>1. PICK a \in Primary : \A b \in Primary : a = b
      BY <2>1, <2>2 DEF OnePrimary
    <3>2. Primary = {a}
      BY <3>1
    <3> QED
      BY <3>2, FS_Singleton
  <2> QED
    BY <2>1, <2>2
<1> QED
  BY <1>1, StageInvariance, PTL

\* One request after the other, the index follows the row, and what is in the cache is
\* what would be answered now (indexListing, removeListing, invalidateSearchCache).
THEOREM CalmIndexHolds == Spec => []CalmIndexFollows
<1>1. StageInv => CalmIndexFollows
  BY StageAtRest DEF CalmIndexFollows, IndexStage, DocumentFollows, CacheFollows, ChangingPhotos,
     Indexing, Invalidating
<1> QED
  BY <1>1, StageInvariance, PTL

=============================================================================
