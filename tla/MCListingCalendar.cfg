\* Two requests of the owner over a calendar of three days.
SPECIFICATION Spec
CONSTANTS
    p1 = p1
    p2 = p2
    LastDay = 2
    Booking = {"visit"}
    Stay <- MCStay
    Request = {p1, p2}
    RowId = {1, 2, 3}
PROPERTIES
    OnlyUnblockingFrees
    UndisturbedUnblockFrees
    UndisturbedBlockIsAllowed
SYMMETRY RequestSymmetry
