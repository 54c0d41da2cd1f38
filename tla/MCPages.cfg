\* Three requests at a time, two listings, ranges of dates, months, days, photos, words and
\* categories.  A page may stand still when its user does.
SPECIFICATION Spec
CONSTANTS
    p1 = p1
    p2 = p2
    p3 = p3
    l1 = l1
    l2 = l2
    a1 = a1
    a2 = a2
    m1 = m1
    m2 = m2
    f1 = f1
    f2 = f2
    Process = {p1, p2, p3}
    Listing = {l1, l2}
    Nothing = Nothing
    Dates = {a1, a2}
    Month = {m1, m2}
    Day = {1, 2}
    Photo = {f1, f2}
    MaxPhotos = 2
    MaxRequests = 2
    Words = {a1, a2}
    Category = {l1, l2}
    Path = {"listing", "calendar", "booking", "edit", "home"}
SYMMETRY Symmetry
INVARIANTS
    TypeOK
    ViewsAreCurrent
    ButtonsMeanWhatIsShown
PROPERTIES
    PhotosArrive
CHECK_DEADLOCK FALSE
