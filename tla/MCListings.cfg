\* One listing that may be created already, two requests at a time.  Six sets of
\* requests, each with what it takes to publish.
SPECIFICATION FairSpec
CONSTANTS
    p1 = p1
    p2 = p2
    Title = {"t1", "t2", "t3"}
    Description = {"d1", "d2"}
    Found <- MCFound
    NoVerdict = NoVerdict
    Enabled = TRUE
    HardBlockEnabled = TRUE
    MaxConfidence = 3
    BlockThreshold = 3
    WarnThreshold = 2
    GibberishBlockConfidence = 2
    PhotoId = {1, 2, 3}
    NoPhoto = NoPhoto
    MaxPhotos = 2
    MaxOrder = 2
    Query = {"all", "letter", "words", "prefix"}
    NoText = NoText
    NoDescription = NoDescription
    Empty = Empty
    NoAnswer = NoAnswer
    Process = {p1, p2}
    Created <- MCCreated
    Workload = {{"update", "publish", "delete"}, {"upload", "delete_photo", "publish", "delete"}, {"publish", "delete", "reindex", "all", "prefix"}, {"publish", "delete", "letter", "words"}, {"update", "publish", "prefix"}, {"delete_photo", "publish", "words", "prefix"}}
INVARIANTS
    TypeOK
    PartsAreClean
    CalmTextIsClean
    CalmPhotos
    PhotosBounded
    DraftsAreHidden
    CalmIndexFollows
PROPERTIES
    DeletedLeavesResults
CHECK_DEADLOCK FALSE
