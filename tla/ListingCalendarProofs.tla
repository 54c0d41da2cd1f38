------------------------ MODULE ListingCalendarProofs ------------------------
(***************************************************************************)
(* What ListingCalendar promises, for calendars of any length, any number  *)
(* of bookings and any number of requests at a time.                       *)
(***************************************************************************)
EXTENDS ListingCalendar, TLAPS

USE DEF At, Begin, Return

\* An idle request carries a range, the first day.
LEMMA IdleIsFrame == Idle \in Frame
<1>1. 0 \in Day
  BY CalendarAssumption DEF Day
<1> QED
  BY <1>1 DEF Idle, Working, Frame, Label, DayRange

\* Each step of a request writes its own frame and no other.
LEMMA FrameStep ==
    ASSUME TypeOK, NEW p \in Request, NEW f \in Frame, Begin(p, f)
    PROVE  /\ request' \in [Request -> Frame]
           /\ request'[p] = f
           /\ \A q \in Request \ {p} : request'[q] = request[q]
BY DEF TypeOK

\* A frame is made of a label, a range and sets of rows and bookings.
LEMMA WorkingIsFrame ==
    ASSUME NEW label \in Label, NEW range \in DayRange, NEW seen \in SUBSET Block,
           NEW merged \in SUBSET Block, NEW cancels \in SUBSET Booking
    PROVE  /\ Working(label, range, seen, merged, cancels) \in Frame
           /\ Working(label, range, seen, merged, cancels).at = label
           /\ Working(label, range, seen, merged, cancels).range = range
           /\ Working(label, range, seen, merged, cancels).seen = seen
           /\ Working(label, range, seen, merged, cancels).merged = merged
           /\ Working(label, range, seen, merged, cancels).cancels = cancels
BY DEF Working, Frame

\* What a request carries has its type.
LEMMA FrameParts ==
    ASSUME TypeOK, NEW p \in Request
    PROVE  /\ request[p].at \in Label
           /\ request[p].range \in DayRange
           /\ request[p].seen \in SUBSET Block
           /\ request[p].merged \in SUBSET Block
           /\ request[p].cancels \in SUBSET Booking
BY DEF TypeOK, Frame

\* An idle request remembers nothing.
LEMMA IdleParts ==
    /\ Idle.at = "idle"
    /\ Idle.seen = {}
    /\ Idle.merged = {}
    /\ Idle.cancels = {}
BY DEF Idle, Working

\* A row with a range of days is a block.
LEMMA RowIsBlock ==
    ASSUME NEW i \in RowId, NEW r, r.from \in Day, r.to \in Day, r.from <= r.to
    PROVE  /\ Row(i, r) \in Block
           /\ Row(i, r).id = i
           /\ Row(i, r).from = r.from
           /\ Row(i, r).to = r.to
BY DEF Row, Block

\* The id of a new row is one that nobody remembers.
LEMMA NewIdIsFresh ==
    ASSUME RowId \ UsedIds # {}
    PROVE  NewId \in RowId \ UsedIds
BY DEF NewId

\* An id that nobody remembers is the id of no row anywhere.
LEMMA FreshMeans ==
    ASSUME NEW i, i \notin UsedIds
    PROVE  /\ \A s \in blocks : i # s.id
           /\ \A q \in Request : \A r \in request[q].seen : i # r.id
           /\ \A q \in Request : \A n \in request[q].merged : i # n.id
BY DEF UsedIds, Ids

\* The pieces of lifted rows lie in the calendar, outside the range.
LEMMA PieceTypes ==
    ASSUME NEW range \in DayRange, NEW rows \in SUBSET Block,
           NEW x \in Pieces(range, rows)
    PROVE  /\ x.from \in Day /\ x.to \in Day /\ x.from <= x.to
           /\ x.to < range.from \/ x.from > range.to
<1>1. CASE x \in LeftPieces(range, rows)
  <2>1. PICK r \in rows : /\ r.from < range.from
                          /\ x = [source |-> r.id, from |-> r.from, to |-> range.from - 1]
    BY <1>1 DEF LeftPieces
  <2>2. r.from \in Day /\ range.from \in Day
    BY <2>1 DEF Block, DayRange
  <2> QED
    BY <2>1, <2>2, CalendarAssumption DEF Day
<1>2. CASE x \in RightPieces(range, rows)
  <2>1. PICK r \in rows : /\ r.to > range.to
                          /\ x = [source |-> r.id, from |-> range.to + 1, to |-> r.to]
    BY <1>2 DEF RightPieces
  <2>2. r.to \in Day /\ range.to \in Day
    BY <2>1 DEF Block, DayRange
  <2> QED
    BY <2>1, <2>2, CalendarAssumption DEF Day
<1> QED
  BY <1>1, <1>2 DEF Pieces

\* They keep every day of the rows that is outside the range.
LEMMA PiecesKeep ==
    ASSUME NEW range \in DayRange, NEW rows \in SUBSET Block, NEW r \in rows,
           NEW d \in Day, Covers(r, d), ~Covers(range, d)
    PROVE  \E x \in Pieces(range, rows) : Covers(x, d)
<1>1. /\ r.from \in Nat /\ r.to \in Nat /\ range.from \in Nat /\ range.to \in Nat
      /\ d \in Nat /\ range.from <= range.to
  BY CalendarAssumption DEF Block, DayRange, Day
<1>2. CASE d < range.from
  <2> DEFINE x == [source |-> r.id, from |-> r.from, to |-> range.from - 1]
  <2>1. r.from < range.from
    BY <1>1, <1>2 DEF Covers
  <2>2. x \in Pieces(range, rows)
    BY <2>1 DEF Pieces, LeftPieces
  <2>3. Covers(x, d)
    BY <1>1, <1>2 DEF Covers
  <2> QED
    BY <2>2, <2>3
<1>3. CASE d > range.to
  <2> DEFINE x == [source |-> r.id, from |-> range.to + 1, to |-> r.to]
  <2>1. r.to > range.to
    BY <1>1, <1>3 DEF Covers
  <2>2. x \in Pieces(range, rows)
    BY <2>1 DEF Pieces, RightPieces
  <2>3. Covers(x, d)
    BY <1>1, <1>3 DEF Covers
  <2> QED
    BY <2>2, <2>3
<1> QED
  BY <1>1, <1>2, <1>3 DEF Covers

-----------------------------------------------------------------------------
(* The rows that an unblocking creates.                                    *)

PieceRows(p) ==
    LET pieces == Pieces(request[p].range, request[p].seen)
    IN  {Row(Naming(pieces)[x], x) : x \in pieces}

\* They are blocks under fresh ids, each its own, and keep every day of the rows
\* read that is outside the range; they have no day of the range.
LEMMA PieceRowsAre ==
    ASSUME TypeOK, NEW p \in Request,
           Injection(Pieces(request[p].range, request[p].seen), RowId \ UsedIds) # {}
    PROVE  /\ PieceRows(p) \subseteq Block
           /\ \A m \in PieceRows(p) : m.id \notin UsedIds
           /\ \A m, n \in PieceRows(p) : m.id = n.id => m = n
           /\ \A r \in request[p].seen, d \in Day :
                 Covers(r, d) /\ ~Covers(request[p].range, d) =>
                    \E m \in PieceRows(p) : Covers(m, d)
           /\ \A m \in PieceRows(p), d \in Day :
                 Covers(m, d) => ~Covers(request[p].range, d)
<1> DEFINE range == request[p].range
           rows == request[p].seen
           pieces == Pieces(range, rows)
           name == Naming(pieces)
<1>1. range \in DayRange /\ rows \in SUBSET Block
  BY FrameParts
<1>2. name \in Injection(pieces, RowId \ UsedIds)
  BY DEF Naming
<1>3. /\ name \in [pieces -> RowId \ UsedIds]
      /\ \A x, y \in pieces : name[x] = name[y] => x = y
  BY <1>2 DEF Injection, IsInjective
<1>4. \A x \in pieces : /\ x.from \in Day /\ x.to \in Day /\ x.from <= x.to
                        /\ x.to < range.from \/ x.from > range.to
  BY <1>1, PieceTypes
<1>5. PieceRows(p) = {Row(name[x], x) : x \in pieces}
  BY DEF PieceRows
<1> HIDE DEF range, rows, pieces, name
<1>6. \A x \in pieces : /\ Row(name[x], x) \in Block
                        /\ Row(name[x], x).id = name[x]
                        /\ Row(name[x], x).from = x.from
                        /\ Row(name[x], x).to = x.to
  <2> SUFFICES ASSUME NEW x \in pieces
               PROVE  /\ Row(name[x], x) \in Block
                      /\ Row(name[x], x).id = name[x]
                      /\ Row(name[x], x).from = x.from
                      /\ Row(name[x], x).to = x.to
    OBVIOUS
  <2>1. name[x] \in RowId
    BY <1>3
  <2> QED
    BY <2>1, <1>4, RowIsBlock
<1>7. PieceRows(p) \subseteq Block /\ \A m \in PieceRows(p) : m.id \notin UsedIds
  BY <1>3, <1>5, <1>6
<1>8. \A m, n \in PieceRows(p) : m.id = n.id => m = n
  BY <1>3, <1>5, <1>6
<1>9. \A r \in request[p].seen, d \in Day :
         Covers(r, d) /\ ~Covers(request[p].range, d) => \E m \in PieceRows(p) : Covers(m, d)
  <2> SUFFICES ASSUME NEW r \in rows, NEW d \in Day, Covers(r, d), ~Covers(range, d)
               PROVE  \E m \in PieceRows(p) : Covers(m, d)
    BY DEF range, rows
  <2>1. PICK x \in pieces : Covers(x, d)
    BY <1>1, PiecesKeep DEF pieces
  <2>2. Covers(Row(name[x], x), d)
    BY <2>1, <1>6 DEF Covers
  <2> QED
    BY <2>2, <1>5
<1>10. \A m \in PieceRows(p), d \in Day : Covers(m, d) => ~Covers(request[p].range, d)
  <2> SUFFICES ASSUME NEW x \in pieces, NEW d \in Day, Covers(Row(name[x], x), d)
               PROVE  ~Covers(range, d)
    BY <1>5 DEF range
  <2>1. x.from <= d /\ d <= x.to
    BY <1>6 DEF Covers
  <2>2. range.from \in Nat /\ range.to \in Nat /\ d \in Nat /\ x.from \in Nat /\ x.to \in Nat
    BY <1>1, <1>4, CalendarAssumption DEF DayRange, Day
  <2> QED
    BY <2>1, <2>2, <1>4 DEF Covers
<1> QED
  BY <1>7, <1>8, <1>9, <1>10

-----------------------------------------------------------------------------
(* Types.                                                                  *)

\* Every step keeps the types.
LEMMA TypeStep == TypeOK /\ [Next]_vars => TypeOK'
<1> SUFFICES ASSUME TypeOK, [Next]_vars PROVE TypeOK'
  OBVIOUS
<1>1. \A p \in Request, f \in Frame :
         Begin(p, f) => request' \in [Request -> Frame]
  BY FrameStep
<1>2. ASSUME NEW p \in Request, NEW range \in DayRange, BlockDates(p, range)
      PROVE  TypeOK'
  <2>1. Working("block_read", range, {}, {}, {}) \in Frame
    BY WorkingIsFrame DEF Label
  <2> QED
    BY <1>1, <1>2, <2>1 DEF BlockDates, TypeOK
<1>3. ASSUME NEW p \in Request, NEW range \in DayRange, NEW forced \in BOOLEAN,
             UnblockDates(p, range, forced)
      PROVE  TypeOK'
  <2>1. Working(IF Booked(range) THEN "forced_read" ELSE "unblock_read", range, {}, {}, {}) \in Frame
    BY WorkingIsFrame DEF Label
  <2> QED
    BY <1>1, <1>3, <2>1 DEF UnblockDates, TypeOK
<1>4. ASSUME NEW p \in Request, ReadForBlock(p) PROVE TypeOK'
  <2>1. Working("block_write", request[p].range, Overlapping(request[p].range), {}, {}) \in Frame
    BY WorkingIsFrame, FrameParts DEF Label, Overlapping, TypeOK
  <2> QED
    BY <1>1, <1>4, <2>1 DEF ReadForBlock, TypeOK
<1>5. ASSUME NEW p \in Request, WriteBlock(p) PROVE TypeOK'
  <2>1. PICK m \in DayRange :
           IF KeepsBookableDay(Others(p) \cup {Row(NewId, m)})
           THEN Begin(p, Working("block_commit", request[p].range, request[p].seen, {Row(NewId, m)}, {}))
           ELSE Return(p)
    BY <1>5 DEF WriteBlock
  <2>2. Row(NewId, m) \in Block
    BY <1>5, NewIdIsFresh, RowIsBlock DEF WriteBlock, DayRange
  <2>3. Working("block_commit", request[p].range, request[p].seen, {Row(NewId, m)}, {}) \in Frame
    BY <2>2, WorkingIsFrame, FrameParts DEF Label
  <2> QED
    BY <1>1, <1>5, <2>1, <2>3, IdleIsFrame DEF WriteBlock, TypeOK
<1>6. ASSUME NEW p \in Request, CommitBlock(p) PROVE TypeOK'
  BY <1>1, <1>6, IdleIsFrame, FrameParts DEF CommitBlock, Others, TypeOK
<1>7. ASSUME NEW p \in Request, ReadForUnblock(p) PROVE TypeOK'
  <2> DEFINE hit == {b \in taken : At(p, "forced_read") /\ Meets(Stay[b], request[p].range)}
  <2>1. Working("unblock_commit", request[p].range, Overlapping(request[p].range), {}, hit) \in Frame
    BY WorkingIsFrame, FrameParts DEF Label, Overlapping, TypeOK
  <2> QED
    BY <1>1, <1>7, <2>1 DEF ReadForUnblock, TypeOK
<1>8. ASSUME NEW p \in Request, CommitUnblock(p) PROVE TypeOK'
  <2>1. PieceRows(p) \subseteq Block /\ blocks' = Others(p) \cup PieceRows(p)
    BY <1>8, PieceRowsAre DEF CommitUnblock, PieceRows
  <2> QED
    BY <1>1, <1>8, <2>1, IdleIsFrame DEF CommitUnblock, Others, TypeOK
<1>9. ASSUME NEW p \in Request, Abort(p) PROVE TypeOK'
  BY <1>1, <1>9, IdleIsFrame DEF Abort, TypeOK
<1>10. ASSUME NEW b \in Booking, Book(b) \/ Leave(b) PROVE TypeOK'
  BY <1>10 DEF Book, Leave, TypeOK
<1>11. CASE UNCHANGED vars
  BY <1>11 DEF vars, TypeOK
<1> QED
  BY <1>2, <1>3, <1>4, <1>5, <1>6, <1>7, <1>8, <1>9, <1>10, <1>11 DEF Next

-----------------------------------------------------------------------------
(* Rows and what is known of them.                                         *)

\* A step that leaves the rows alone keeps what is known of them, when the request
\* it serves knows nothing new.
LEMMA RowsKept ==
    ASSUME IInv, NEW p \in Request, NEW f \in Frame, Begin(p, f), blocks' = blocks,
           \/ f.seen \subseteq request[p].seen
           \/ f.seen \subseteq blocks
    PROVE  RowsInv'
<1>1. /\ request'[p] = f
      /\ \A q \in Request \ {p} : request'[q] = request[q]
  BY FrameStep DEF IInv
<1>2. ASSUME NEW q \in Request, NEW r \in request'[q].seen, NEW s \in blocks, r.id = s.id
      PROVE  r = s
  <2>1. r \in request[q].seen \/ r \in blocks
    BY <1>1, <1>2
  <2> QED
    BY <1>2, <2>1 DEF IInv, RowsInv
<1> QED
  BY <1>2 DEF IInv, RowsInv

\* Every step keeps rows and ids matched.
LEMMA RowsStep == IInv /\ TypeOK' /\ [Next]_vars => RowsInv'
<1> SUFFICES ASSUME IInv, TypeOK', [Next]_vars PROVE RowsInv'
  OBVIOUS
<1> USE DEF IInv
<1>1. ASSUME NEW p \in Request, NEW range \in DayRange, BlockDates(p, range)
      PROVE  RowsInv'
  <2>1. /\ Working("block_read", range, {}, {}, {}) \in Frame
        /\ Working("block_read", range, {}, {}, {}).seen = {}
    BY WorkingIsFrame DEF Label
  <2> QED
    BY <1>1, <2>1, RowsKept DEF BlockDates
<1>2. ASSUME NEW p \in Request, NEW range \in DayRange, NEW forced \in BOOLEAN,
             UnblockDates(p, range, forced)
      PROVE  RowsInv'
  <2> DEFINE f == Working(IF Booked(range) THEN "forced_read" ELSE "unblock_read", range, {}, {}, {})
  <2>1. f \in Frame /\ f.seen = {}
    BY WorkingIsFrame DEF Label
  <2> HIDE DEF f
  <2>2. Begin(p, f) /\ blocks' = blocks
    BY <1>2 DEF UnblockDates, f
  <2> QED
    BY <2>1, <2>2, RowsKept
<1>3. ASSUME NEW p \in Request, ReadForBlock(p) PROVE RowsInv'
  <2> DEFINE f == Working("block_write", request[p].range, Overlapping(request[p].range), {}, {})
  <2>1. f \in Frame /\ f.seen \subseteq blocks
    BY WorkingIsFrame, FrameParts DEF Label, Overlapping, TypeOK
  <2> HIDE DEF f
  <2>2. Begin(p, f) /\ blocks' = blocks
    BY <1>3 DEF ReadForBlock, f
  <2> QED
    BY <2>1, <2>2, RowsKept
<1>4. ASSUME NEW p \in Request, WriteBlock(p) PROVE RowsInv'
  <2>1. PICK m \in DayRange :
           IF KeepsBookableDay(Others(p) \cup {Row(NewId, m)})
           THEN Begin(p, Working("block_commit", request[p].range, request[p].seen, {Row(NewId, m)}, {}))
           ELSE Return(p)
    BY <1>4 DEF WriteBlock
  <2>2. Row(NewId, m) \in Block
    BY <1>4, NewIdIsFresh, RowIsBlock DEF WriteBlock, DayRange
  <2> DEFINE f == Working("block_commit", request[p].range, request[p].seen, {Row(NewId, m)}, {})
  <2>3. f \in Frame /\ f.seen = request[p].seen
    BY <2>2, WorkingIsFrame, FrameParts DEF Label
  <2> HIDE DEF f
  <2>4. Begin(p, f) \/ Begin(p, Idle)
    BY <2>1 DEF f
  <2>5. blocks' = blocks
    BY <1>4 DEF WriteBlock
  <2> QED
    BY <2>3, <2>4, <2>5, RowsKept, IdleIsFrame, IdleParts
<1>5. ASSUME NEW p \in Request, CommitBlock(p) PROVE RowsInv'
  <2>1. /\ blocks' = Others(p) \cup request[p].merged
        /\ request'[p] = Idle
        /\ \A q \in Request \ {p} : request'[q] = request[q]
    BY <1>5, FrameStep, IdleIsFrame DEF CommitBlock
  <2>2. \A r, s \in blocks' : r.id = s.id => r = s
    BY <2>1 DEF Others, RowsInv, MergedInv
  <2>3. ASSUME NEW q \in Request, NEW r \in request'[q].seen, NEW s \in blocks', r.id = s.id
        PROVE  r = s
    <3>1. q # p /\ r \in request[q].seen
      BY <2>1, <2>3, IdleParts
    <3> QED
      BY <2>1, <2>3, <3>1 DEF Others, RowsInv, MergedInv
  <2> QED
    BY <2>2, <2>3 DEF RowsInv
<1>6. ASSUME NEW p \in Request, ReadForUnblock(p) PROVE RowsInv'
  <2> DEFINE hit == {b \in taken : At(p, "forced_read") /\ Meets(Stay[b], request[p].range)}
             f == Working("unblock_commit", request[p].range, Overlapping(request[p].range), {}, hit)
  <2>1. f \in Frame /\ f.seen \subseteq blocks
    BY WorkingIsFrame, FrameParts DEF Label, Overlapping, TypeOK
  <2>2. Begin(p, f) /\ blocks' = blocks
    BY <1>6 DEF ReadForUnblock
  <2> HIDE DEF f
  <2> QED
    BY <2>1, <2>2, RowsKept
<1>7. ASSUME NEW p \in Request, CommitUnblock(p) PROVE RowsInv'
  <2>1. /\ blocks' = Others(p) \cup PieceRows(p)
        /\ request'[p] = Idle
        /\ \A q \in Request \ {p} : request'[q] = request[q]
    BY <1>7, FrameStep, IdleIsFrame DEF CommitUnblock, PieceRows
  <2>2. /\ \A m \in PieceRows(p) : m.id \notin UsedIds
        /\ \A m, n \in PieceRows(p) : m.id = n.id => m = n
    BY <1>7, PieceRowsAre DEF CommitUnblock
  <2>3. \A m \in PieceRows(p) : /\ \A s \in blocks : m.id # s.id
                                /\ \A q \in Request : \A r \in request[q].seen : m.id # r.id
    BY <2>2, FreshMeans
  <2>4. \A r, s \in blocks' : r.id = s.id => r = s
    BY <2>1, <2>2, <2>3 DEF Others, RowsInv
  <2>5. ASSUME NEW q \in Request, NEW r \in request'[q].seen, NEW s \in blocks', r.id = s.id
        PROVE  r = s
    <3>1. q # p /\ r \in request[q].seen
      BY <2>1, <2>5, IdleParts
    <3> QED
      BY <2>1, <2>3, <2>5, <3>1 DEF Others, RowsInv
  <2> QED
    BY <2>4, <2>5 DEF RowsInv
<1>8. ASSUME NEW p \in Request, Abort(p) PROVE RowsInv'
  BY <1>8, RowsKept, IdleIsFrame, IdleParts DEF Abort
<1>9. ASSUME NEW b \in Booking, Book(b) \/ Leave(b) PROVE RowsInv'
  BY <1>9 DEF Book, Leave, RowsInv
<1>10. CASE UNCHANGED vars
  BY <1>10 DEF vars, RowsInv
<1> QED
  BY <1>1, <1>2, <1>3, <1>4, <1>5, <1>6, <1>7, <1>8, <1>9, <1>10 DEF Next

-----------------------------------------------------------------------------
(* The row about to be committed.                                          *)

\* So does a step that leaves the rows alone and has no row to commit.
LEMMA MergedKept ==
    ASSUME IInv, NEW p \in Request, NEW f \in Frame, Begin(p, f), blocks' = blocks,
           f.at # "block_commit", f.merged = {},
           \/ f.seen \subseteq request[p].seen
           \/ f.seen \subseteq blocks
    PROVE  MergedInv'
<1>1. /\ request'[p] = f
      /\ \A q \in Request \ {p} : request'[q] = request[q]
  BY FrameStep DEF IInv
<1> SUFFICES ASSUME NEW q \in Request
             PROVE  /\ request'[q].at = "block_commit" =>
                          \A r \in request'[q].seen :
                             \E m \in request'[q].merged : m.from <= r.from /\ r.to <= m.to
                    /\ \A m \in request'[q].merged :
                          /\ \A s \in blocks : m.id # s.id
                          /\ \A o \in Request : \A r \in request'[o].seen : m.id # r.id
                          /\ \A o \in Request : \A n \in request'[o].merged :
                                m.id = n.id => q = o /\ m = n
  BY DEF MergedInv
<1>2. CASE q = p
  BY <1>1, <1>2
<1>3. CASE q # p
  <2>1. request'[q] = request[q]
    BY <1>1, <1>3
  <2>2. ASSUME NEW m \in request[q].merged, NEW o \in Request, NEW r \in request'[o].seen
        PROVE  m.id # r.id
    <3>1. r \in request[o].seen \/ r \in blocks
      BY <1>1
    <3> QED
      BY <2>2, <3>1 DEF IInv, MergedInv
  <2>3. ASSUME NEW m \in request[q].merged, NEW o \in Request, NEW n \in request'[o].merged,
               m.id = n.id
        PROVE  q = o /\ m = n
    <3>1. n \in request[o].merged
      BY <1>1, <2>3
    <3> QED
      BY <2>3, <3>1 DEF IInv, MergedInv
  <2> QED
    BY <2>1, <2>2, <2>3 DEF IInv, MergedInv
<1> QED
  BY <1>2, <1>3

\* A commit puts rows into the table that no other request knows or is about to
\* commit, and forgets what its own request had.
LEMMA MergedAfterCommit ==
    ASSUME IInv, NEW p \in Request, Begin(p, Idle), NEW new,
           blocks' \subseteq blocks \cup new,
           \A q \in Request \ {p} : \A m \in request[q].merged, n \in new : m.id # n.id
    PROVE  MergedInv'
<1>1. /\ request'[p] = Idle
      /\ \A q \in Request \ {p} : request'[q] = request[q]
  BY FrameStep, IdleIsFrame DEF IInv
<1> SUFFICES ASSUME NEW q \in Request
             PROVE  /\ request'[q].at = "block_commit" =>
                          \A r \in request'[q].seen :
                             \E m \in request'[q].merged : m.from <= r.from /\ r.to <= m.to
                    /\ \A m \in request'[q].merged :
                          /\ \A s \in blocks' : m.id # s.id
                          /\ \A o \in Request : \A r \in request'[o].seen : m.id # r.id
                          /\ \A o \in Request : \A n \in request'[o].merged :
                                m.id = n.id => q = o /\ m = n
  BY DEF MergedInv
<1>2. CASE q = p
  BY <1>1, <1>2, IdleParts
<1>3. CASE q # p
  <2>1. request'[q] = request[q]
    BY <1>1, <1>3
  <2>2. \A m \in request[q].merged, s \in blocks' : m.id # s.id
    BY <1>3 DEF IInv, MergedInv
  <2>3. ASSUME NEW m \in request[q].merged, NEW o \in Request, NEW r \in request'[o].seen
        PROVE  m.id # r.id
    <3>1. r \in request[o].seen
      BY <1>1, IdleParts
    <3> QED
      BY <2>3, <3>1 DEF IInv, MergedInv
  <2>4. ASSUME NEW m \in request[q].merged, NEW o \in Request, NEW n \in request'[o].merged,
               m.id = n.id
        PROVE  q = o /\ m = n
    <3>1. n \in request[o].merged
      BY <1>1, <2>4, IdleParts
    <3> QED
      BY <2>4, <3>1 DEF IInv, MergedInv
  <2> QED
    BY <2>1, <2>2, <2>3, <2>4 DEF IInv, MergedInv
<1> QED
  BY <1>2, <1>3

\* The row that a block is about to commit covers what it was merged from.
LEMMA MergedCovers ==
    ASSUME NEW range \in DayRange, NEW rows \in SUBSET Block, NEW m \in DayRange,
           IsMerged(m, range, rows), NEW r \in rows
    PROVE  m.from <= r.from /\ r.to <= m.to
<1>1. m.to \in Nat /\ r.to \in Nat
  BY CalendarAssumption DEF DayRange, Block, Day
<1> QED
  BY <1>1 DEF IsMerged, IsLeast, IsGreatest

\* Every step keeps what is known of the rows to be committed.
LEMMA MergedStep == IInv /\ [Next]_vars => MergedInv'
<1> SUFFICES ASSUME IInv, [Next]_vars PROVE MergedInv'
  OBVIOUS
<1>0. TypeOK
  BY DEF IInv
<1>1. ASSUME NEW p \in Request, NEW range \in DayRange, BlockDates(p, range)
      PROVE  MergedInv'
  <2> DEFINE f == Working("block_read", range, {}, {}, {})
  <2>1. f \in Frame /\ f.seen = {} /\ f.merged = {} /\ f.at = "block_read"
    BY WorkingIsFrame DEF Label
  <2>2. Begin(p, f) /\ blocks' = blocks
    BY <1>1 DEF BlockDates
  <2> HIDE DEF f
  <2> QED
    BY <2>1, <2>2, MergedKept
<1>2. ASSUME NEW p \in Request, NEW range \in DayRange, NEW forced \in BOOLEAN,
             UnblockDates(p, range, forced)
      PROVE  MergedInv'
  <2> DEFINE f == Working(IF Booked(range) THEN "forced_read" ELSE "unblock_read", range, {}, {}, {})
  <2>1. f \in Frame /\ f.seen = {} /\ f.merged = {} /\ f.at # "block_commit"
    BY WorkingIsFrame DEF Label
  <2>2. Begin(p, f) /\ blocks' = blocks
    BY <1>2 DEF UnblockDates
  <2> HIDE DEF f
  <2> QED
    BY <2>1, <2>2, MergedKept
<1>3. ASSUME NEW p \in Request, ReadForBlock(p) PROVE MergedInv'
  <2> DEFINE f == Working("block_write", request[p].range, Overlapping(request[p].range), {}, {})
  <2>1. f \in Frame /\ f.seen \subseteq blocks /\ f.merged = {} /\ f.at = "block_write"
    BY <1>0, WorkingIsFrame, FrameParts DEF Label, Overlapping, TypeOK
  <2>2. Begin(p, f) /\ blocks' = blocks
    BY <1>3 DEF ReadForBlock
  <2> HIDE DEF f
  <2> QED
    BY <2>1, <2>2, MergedKept
<1>4. ASSUME NEW p \in Request, WriteBlock(p) PROVE MergedInv'
  <2>1. PICK m \in DayRange :
           /\ IsMerged(m, request[p].range, request[p].seen)
           /\ IF KeepsBookableDay(Others(p) \cup {Row(NewId, m)})
              THEN Begin(p, Working("block_commit", request[p].range, request[p].seen, {Row(NewId, m)}, {}))
              ELSE Return(p)
    BY <1>4 DEF WriteBlock
  <2>2. /\ Row(NewId, m) \in Block
        /\ Row(NewId, m).id = NewId /\ Row(NewId, m).from = m.from /\ Row(NewId, m).to = m.to
        /\ NewId \notin UsedIds
    BY <1>4, NewIdIsFresh, RowIsBlock DEF WriteBlock, DayRange
  <2> DEFINE new == Row(NewId, m)
             f == Working("block_commit", request[p].range, request[p].seen, {new}, {})
  <2>3. /\ f \in Frame /\ f.seen = request[p].seen /\ f.merged = {new} /\ f.at = "block_commit"
    BY <1>0, <2>2, WorkingIsFrame, FrameParts DEF Label
  <2>4. blocks' = blocks
    BY <1>4 DEF WriteBlock
  <2>5. /\ \A s \in blocks : new.id # s.id
        /\ \A q \in Request : \A r \in request[q].seen : new.id # r.id
        /\ \A q \in Request : \A n \in request[q].merged : new.id # n.id
    BY <2>2, FreshMeans
  <2>6. \A r \in request[p].seen : new.from <= r.from /\ r.to <= new.to
    BY <1>0, <2>1, <2>2, MergedCovers, FrameParts
  <2>7. Begin(p, f) \/ Begin(p, Idle)
    BY <2>1
  <2> HIDE DEF f, new
  <2>8. CASE Begin(p, Idle)
    BY <2>4, <2>8, MergedKept, IdleIsFrame, IdleParts
  <2>9. CASE Begin(p, f)
    <3>1. /\ request'[p] = f
          /\ \A q \in Request \ {p} : request'[q] = request[q]
      BY <1>0, <2>3, <2>9, FrameStep
    <3>2. \A q \in Request : request'[q].seen = request[q].seen
      BY <2>3, <3>1
    <3>3. \A r \in request'[p].seen :
             \E n \in request'[p].merged : n.from <= r.from /\ r.to <= n.to
      BY <2>3, <2>6, <3>1
    <3>4. ASSUME NEW q \in Request, NEW n \in request'[q].merged
          PROVE  /\ \A s \in blocks' : n.id # s.id
                 /\ \A o \in Request : \A r \in request'[o].seen : n.id # r.id
      BY <2>3, <2>4, <2>5, <3>1, <3>2, <3>4 DEF IInv, MergedInv
    <3>5. ASSUME NEW q \in Request, NEW n \in request'[q].merged,
                 NEW o \in Request, NEW k \in request'[o].merged, n.id = k.id
          PROVE  q = o /\ n = k
      <4>1. CASE q = p /\ o = p
        BY <2>3, <3>1, <3>5, <4>1
      <4>2. CASE q = p /\ o # p
        BY <2>3, <2>5, <3>1, <3>5, <4>2
      <4>3. CASE q # p /\ o = p
        BY <2>3, <2>5, <3>1, <3>5, <4>3
      <4>4. CASE q # p /\ o # p
        BY <3>1, <3>5, <4>4 DEF IInv, MergedInv
      <4> QED
        BY <4>1, <4>2, <4>3, <4>4
    <3>6. ASSUME NEW q \in Request, request'[q].at = "block_commit", NEW r \in request'[q].seen
          PROVE  \E n \in request'[q].merged : n.from <= r.from /\ r.to <= n.to
      <4>1. CASE q = p
        BY <3>3, <3>6, <4>1
      <4>2. CASE q # p
        BY <3>1, <3>6, <4>2 DEF IInv, MergedInv
      <4> QED
        BY <4>1, <4>2
    <3> QED
      BY <3>4, <3>5, <3>6 DEF MergedInv
  <2> QED
    BY <2>7, <2>8, <2>9
<1>5. ASSUME NEW p \in Request, CommitBlock(p) PROVE MergedInv'
  <2>1. blocks' \subseteq blocks \cup request[p].merged /\ Begin(p, Idle)
    BY <1>5 DEF CommitBlock, Others
  <2>2. \A q \in Request \ {p} : \A m \in request[q].merged, n \in request[p].merged : m.id # n.id
    BY DEF IInv, MergedInv
  <2> QED
    BY <2>1, <2>2, MergedAfterCommit
<1>6. ASSUME NEW p \in Request, ReadForUnblock(p) PROVE MergedInv'
  <2> DEFINE hit == {b \in taken : At(p, "forced_read") /\ Meets(Stay[b], request[p].range)}
             f == Working("unblock_commit", request[p].range, Overlapping(request[p].range), {}, hit)
  <2>1. f \in Frame /\ f.seen \subseteq blocks /\ f.merged = {} /\ f.at = "unblock_commit"
    BY <1>0, WorkingIsFrame, FrameParts DEF Label, Overlapping, TypeOK
  <2>2. Begin(p, f) /\ blocks' = blocks
    BY <1>6 DEF ReadForUnblock
  <2> HIDE DEF f
  <2> QED
    BY <2>1, <2>2, MergedKept
<1>7. ASSUME NEW p \in Request, CommitUnblock(p) PROVE MergedInv'
  <2>1. blocks' \subseteq blocks \cup PieceRows(p) /\ Begin(p, Idle)
    BY <1>7 DEF CommitUnblock, PieceRows, Others
  <2>2. \A m \in PieceRows(p) : m.id \notin UsedIds
    BY <1>0, <1>7, PieceRowsAre DEF CommitUnblock
  <2>3. \A q \in Request \ {p} : \A m \in request[q].merged, n \in PieceRows(p) : m.id # n.id
    BY <2>2, FreshMeans
  <2> QED
    BY <2>1, <2>3, MergedAfterCommit
<1>8. ASSUME NEW p \in Request, Abort(p) PROVE MergedInv'
  BY <1>8, MergedKept, IdleIsFrame, IdleParts DEF Abort
<1>9. ASSUME NEW b \in Booking, Book(b) \/ Leave(b) PROVE MergedInv'
  BY <1>9 DEF Book, Leave, MergedInv, IInv
<1>10. CASE UNCHANGED vars
  BY <1>10 DEF vars, MergedInv, IInv
<1> QED
  BY <1>1, <1>2, <1>3, <1>4, <1>5, <1>6, <1>7, <1>8, <1>9, <1>10 DEF Next

-----------------------------------------------------------------------------
(* What an undisturbed request knows.                                      *)

\* A step that leaves rows and bookings alone keeps it for all other requests.
LEMMA UndisturbedKept ==
    ASSUME IInv, NEW p \in Request, NEW f \in Frame, Begin(p, f),
           blocks' = blocks, taken' = taken,
           undisturbed' \subseteq undisturbed \cup {p},
           p \in undisturbed' =>
              /\ f.at \in {"block_read", "block_write", "block_commit"} => ~Booked(f.range)
              /\ f.at = "block_commit" =>
                    KeepsBookableDay({r \in blocks : r.id \notin Ids(f.seen)} \cup f.merged)
              /\ f.at = "unblock_commit" => f.seen = Overlapping(f.range)
    PROVE  UndisturbedInv'
<1>1. /\ request'[p] = f
      /\ \A q \in Request \ {p} : request'[q] = request[q]
  BY FrameStep DEF IInv
<1> SUFFICES ASSUME NEW q \in undisturbed'
             PROVE  /\ (At(q, "block_read") \/ At(q, "block_write") \/ At(q, "block_commit")
                           => ~Booked(request[q].range))'
                    /\ (At(q, "block_commit") =>
                           KeepsBookableDay(Others(q) \cup request[q].merged))'
                    /\ (At(q, "unblock_commit") =>
                           request[q].seen = Overlapping(request[q].range))'
  BY DEF UndisturbedInv
<1>2. CASE q = p
  <2>1. (At(q, "block_read") \/ At(q, "block_write") \/ At(q, "block_commit")
            => ~Booked(request[q].range))'
    BY <1>1, <1>2 DEF Booked
  <2>2. (At(q, "block_commit") => KeepsBookableDay(Others(q) \cup request[q].merged))'
    BY <1>1, <1>2 DEF KeepsBookableDay, Others
  <2>3. (At(q, "unblock_commit") => request[q].seen = Overlapping(request[q].range))'
    BY <1>1, <1>2 DEF Overlapping
  <2> QED
    BY <2>1, <2>2, <2>3
<1>3. CASE q # p
  <2>1. q \in undisturbed /\ q \in Request /\ request'[q] = request[q]
    BY <1>1, <1>3 DEF IInv, TypeOK
  <2>2. (At(q, "block_read") \/ At(q, "block_write") \/ At(q, "block_commit")
            => ~Booked(request[q].range))'
    BY <2>1 DEF Booked, IInv, UndisturbedInv
  <2>3. (At(q, "block_commit") => KeepsBookableDay(Others(q) \cup request[q].merged))'
    BY <2>1 DEF KeepsBookableDay, Others, IInv, UndisturbedInv
  <2>4. (At(q, "unblock_commit") => request[q].seen = Overlapping(request[q].range))'
    BY <2>1 DEF Overlapping, IInv, UndisturbedInv
  <2> QED
    BY <2>2, <2>3, <2>4
<1> QED
  BY <1>2, <1>3


\* Every step keeps it, or leaves no request undisturbed.
LEMMA UndisturbedStep == IInv /\ [Next]_vars => UndisturbedInv'
<1> SUFFICES ASSUME IInv, [Next]_vars PROVE UndisturbedInv'
  OBVIOUS
<1>0. TypeOK
  BY DEF IInv
<1>1. ASSUME NEW p \in Request, NEW range \in DayRange, BlockDates(p, range)
      PROVE  UndisturbedInv'
  <2> DEFINE f == Working("block_read", range, {}, {}, {})
  <2>1. f \in Frame /\ f.range = range /\ f.at = "block_read"
    BY WorkingIsFrame DEF Label
  <2>2. /\ Begin(p, f) /\ blocks' = blocks /\ taken' = taken /\ ~Booked(range)
        /\ undisturbed' = undisturbed \cup {p}
    BY <1>1 DEF BlockDates
  <2> HIDE DEF f
  <2> QED
    BY <2>1, <2>2, UndisturbedKept
<1>2. ASSUME NEW p \in Request, NEW range \in DayRange, NEW forced \in BOOLEAN,
             UnblockDates(p, range, forced)
      PROVE  UndisturbedInv'
  <2> DEFINE f == Working(IF Booked(range) THEN "forced_read" ELSE "unblock_read", range, {}, {}, {})
  <2>1. f \in Frame /\ f.at \in {"forced_read", "unblock_read"}
    BY WorkingIsFrame DEF Label
  <2>2. /\ Begin(p, f) /\ blocks' = blocks /\ taken' = taken
        /\ undisturbed' = undisturbed \cup {p}
    BY <1>2 DEF UnblockDates
  <2> HIDE DEF f
  <2> QED
    BY <2>1, <2>2, UndisturbedKept
<1>3. ASSUME NEW p \in Request, ReadForBlock(p) PROVE UndisturbedInv'
  <2> DEFINE f == Working("block_write", request[p].range, Overlapping(request[p].range), {}, {})
  <2>1. f \in Frame /\ f.range = request[p].range /\ f.at = "block_write"
    BY <1>0, WorkingIsFrame, FrameParts DEF Label, Overlapping, TypeOK
  <2>2. /\ Begin(p, f) /\ blocks' = blocks /\ taken' = taken /\ undisturbed' = undisturbed
        /\ request[p].at = "block_read"
    BY <1>3 DEF ReadForBlock
  <2>3. p \in undisturbed => ~Booked(request[p].range)
    BY <2>2 DEF IInv, UndisturbedInv
  <2> HIDE DEF f
  <2> QED
    BY <2>1, <2>2, <2>3, UndisturbedKept
<1>4. ASSUME NEW p \in Request, WriteBlock(p) PROVE UndisturbedInv'
  <2>1. PICK m \in DayRange :
           IF KeepsBookableDay(Others(p) \cup {Row(NewId, m)})
           THEN Begin(p, Working("block_commit", request[p].range, request[p].seen, {Row(NewId, m)}, {}))
           ELSE Return(p)
    BY <1>4 DEF WriteBlock
  <2> DEFINE new == Row(NewId, m)
             f == Working("block_commit", request[p].range, request[p].seen, {new}, {})
  <2>2. new \in Block
    BY <1>4, NewIdIsFresh, RowIsBlock DEF WriteBlock, DayRange
  <2>3. /\ f \in Frame /\ f.range = request[p].range /\ f.seen = request[p].seen
        /\ f.merged = {new} /\ f.at = "block_commit"
    BY <1>0, <2>2, WorkingIsFrame, FrameParts DEF Label
  <2>4. /\ blocks' = blocks /\ taken' = taken /\ undisturbed' = undisturbed
        /\ request[p].at = "block_write"
    BY <1>4 DEF WriteBlock
  <2>5. p \in undisturbed => ~Booked(request[p].range)
    BY <2>4 DEF IInv, UndisturbedInv
  <2>6. \/ Begin(p, Idle)
        \/ Begin(p, f) /\ KeepsBookableDay(Others(p) \cup {new})
    BY <2>1
  <2> HIDE DEF f, new
  <2>7. CASE Begin(p, Idle)
    BY <2>4, <2>7, UndisturbedKept, IdleIsFrame, IdleParts
  <2>8. CASE Begin(p, f) /\ KeepsBookableDay(Others(p) \cup {new})
    <3>1. KeepsBookableDay({r \in blocks : r.id \notin Ids(f.seen)} \cup f.merged)
      BY <2>3, <2>8 DEF Others
    <3> QED
      BY <2>3, <2>4, <2>5, <2>8, <3>1, UndisturbedKept
  <2> QED
    BY <2>6, <2>7, <2>8
<1>5. ASSUME NEW p \in Request, CommitBlock(p) \/ CommitUnblock(p) PROVE UndisturbedInv'
  BY <1>5 DEF CommitBlock, CommitUnblock, UndisturbedInv
<1>6. ASSUME NEW p \in Request, ReadForUnblock(p) PROVE UndisturbedInv'
  <2> DEFINE hit == {b \in taken : At(p, "forced_read") /\ Meets(Stay[b], request[p].range)}
             f == Working("unblock_commit", request[p].range, Overlapping(request[p].range), {}, hit)
  <2>1. /\ f \in Frame /\ f.range = request[p].range
        /\ f.seen = Overlapping(request[p].range) /\ f.at = "unblock_commit"
    BY <1>0, WorkingIsFrame, FrameParts DEF Label, Overlapping, TypeOK
  <2>2. Begin(p, f) /\ blocks' = blocks /\ taken' = taken /\ undisturbed' = undisturbed
    BY <1>6 DEF ReadForUnblock
  <2> HIDE DEF f
  <2> QED
    BY <2>1, <2>2, UndisturbedKept
<1>7. ASSUME NEW p \in Request, Abort(p) PROVE UndisturbedInv'
  BY <1>7, UndisturbedKept, IdleIsFrame, IdleParts DEF Abort
<1>8. ASSUME NEW b \in Booking, Book(b) PROVE UndisturbedInv'
  BY <1>8 DEF Book, UndisturbedInv
<1>9. ASSUME NEW b \in Booking, Leave(b) PROVE UndisturbedInv'
  <2>1. /\ taken' \subseteq taken
        /\ blocks' = blocks /\ request' = request /\ undisturbed' = undisturbed
    BY <1>9 DEF Leave
  <2> SUFFICES ASSUME NEW q \in undisturbed'
               PROVE  /\ (At(q, "block_read") \/ At(q, "block_write") \/ At(q, "block_commit")
                             => ~Booked(request[q].range))'
                      /\ (At(q, "block_commit") =>
                             KeepsBookableDay(Others(q) \cup request[q].merged))'
                      /\ (At(q, "unblock_commit") =>
                             request[q].seen = Overlapping(request[q].range))'
    BY DEF UndisturbedInv
  <2>2. (At(q, "block_read") \/ At(q, "block_write") \/ At(q, "block_commit")
            => ~Booked(request[q].range))'
    BY <2>1 DEF IInv, UndisturbedInv, Booked
  <2>3. (At(q, "block_commit") => KeepsBookableDay(Others(q) \cup request[q].merged))'
    BY <2>1 DEF IInv, UndisturbedInv, KeepsBookableDay, Others
  <2>4. (At(q, "unblock_commit") => request[q].seen = Overlapping(request[q].range))'
    BY <2>1 DEF IInv, UndisturbedInv, Overlapping
  <2> QED
    BY <2>2, <2>3, <2>4
<1>10. CASE UNCHANGED vars
  BY <1>10 DEF vars, UndisturbedInv, IInv, Booked, Overlapping, KeepsBookableDay, Others
<1> QED
  BY <1>1, <1>2, <1>3, <1>4, <1>5, <1>6, <1>7, <1>8, <1>9, <1>10 DEF Next

-----------------------------------------------------------------------------
(* The theorems.                                                           *)

\* Every behaviour keeps the inductive invariant.
THEOREM CalendarInvariance == Spec => []IInv
<1>1. Init => IInv
  BY IdleIsFrame, IdleParts
     DEF Init, IInv, TypeOK, RowsInv, MergedInv, UndisturbedInv
<1>2. IInv /\ [Next]_vars => IInv'
  <2>1. IInv => TypeOK
    BY DEF IInv
  <2> QED
    BY <2>1, TypeStep, RowsStep, MergedStep, UndisturbedStep DEF IInv
<1> QED
  BY <1>1, <1>2, PTL DEF Spec

\* Blocks stay inside the calendar and are never empty, however they are merged
\* and cut.
THEOREM CalendarTypeCorrect == Spec => []TypeOK
<1>1. IInv => TypeOK
  BY DEF IInv
<1> QED
  BY <1>1, CalendarInvariance, PTL


\* A day outside the lifted range, or any day when a block is made, stays
\* covered: the row that covered it is still there, or it is one of the rows
\* the transaction read and put others in the place of.
LEMMA CommitKeepsDays ==
    ASSUME IInv, NEW p \in Request, NEW new,
           blocks' = Others(p) \cup new,
           NEW d \in Day, Blocked(d),
           \A r \in request[p].seen : Covers(r, d) => \E m \in new : Covers(m, d)
    PROVE  Blocked(d)'
<1>1. PICK s \in blocks : Covers(s, d)
  BY DEF Blocked
<1>2. CASE s \in Others(p)
  BY <1>1, <1>2 DEF Blocked, Covers
<1>3. CASE s \notin Others(p)
  <2>1. PICK r \in request[p].seen : r.id = s.id
    BY <1>3 DEF Others, Ids
  <2>2. r = s
    BY <2>1 DEF IInv, RowsInv
  <2>3. PICK m \in new : Covers(m, d)
    BY <1>1, <2>1, <2>2
  <2> QED
    BY <2>3 DEF Blocked, Covers
<1> QED
  BY <1>2, <1>3

\* A blocked day is freed by lifting a range it lies in, and by nothing else.
THEOREM BlocksAreKept == Spec => OnlyUnblockingFrees
<1>1. ASSUME IInv, [Next]_vars, NEW d \in Day, Blocked(d), ~Blocked(d)'
      PROVE  \E p \in Request : /\ At(p, "unblock_commit") /\ At(p, "idle")'
                                /\ Covers(request[p].range, d)
  <2>0. TypeOK
    BY <1>1 DEF IInv
  <2>1. blocks' # blocks
    BY <1>1 DEF Blocked
  <2>2. PICK p \in Request : CommitBlock(p) \/ CommitUnblock(p)
    BY <1>1, <2>1 DEF Next, vars, BlockDates, UnblockDates, ReadForBlock, WriteBlock,
                      ReadForUnblock, Abort, Book, Leave
  <2>3. CASE CommitBlock(p)
    <3>1. blocks' = Others(p) \cup request[p].merged /\ request[p].at = "block_commit"
      BY <2>3 DEF CommitBlock
    <3>2. ASSUME NEW r \in request[p].seen, Covers(r, d)
          PROVE  \E m \in request[p].merged : Covers(m, d)
      <4>1. PICK m \in request[p].merged : m.from <= r.from /\ r.to <= m.to
        BY <1>1, <3>1 DEF IInv, MergedInv
      <4>2. /\ m.from \in Nat /\ m.to \in Nat /\ r.from \in Nat /\ r.to \in Nat /\ d \in Nat
        BY <2>0, FrameParts, CalendarAssumption DEF Block, Day
      <4> QED
        BY <3>2, <4>1, <4>2 DEF Covers
    <3> QED
      BY <1>1, <3>1, <3>2, CommitKeepsDays
  <2>4. CASE CommitUnblock(p)
    <3>1. /\ blocks' = Others(p) \cup PieceRows(p) /\ request[p].at = "unblock_commit"
          /\ Begin(p, Idle)
          /\ Injection(Pieces(request[p].range, request[p].seen), RowId \ UsedIds) # {}
      BY <2>4 DEF CommitUnblock, PieceRows
    <3>2. request'[p].at = "idle"
      BY <2>0, <3>1, FrameStep, IdleIsFrame, IdleParts
    <3>3. CASE Covers(request[p].range, d)
      BY <3>1, <3>2, <3>3
    <3>4. CASE ~Covers(request[p].range, d)
      <4>1. \A r \in request[p].seen : Covers(r, d) => \E m \in PieceRows(p) : Covers(m, d)
        BY <2>0, <3>1, <3>4, PieceRowsAre
      <4> QED
        BY <1>1, <3>1, <4>1, CommitKeepsDays
    <3> QED
      BY <3>3, <3>4
  <2> QED
    BY <2>2, <2>3, <2>4
<1>2. IInv /\ [Next]_vars =>
         [\A d \in Day : Blocked(d) /\ ~Blocked(d)' =>
             \E p \in Request : /\ At(p, "unblock_commit") /\ At(p, "idle")'
                                /\ Covers(request[p].range, d)]_vars
  BY <1>1
<1> QED
  BY <1>2, CalendarInvariance, PTL DEF Spec, OnlyUnblockingFrees

\* A lift that nothing came in between frees all its days.
THEOREM UndisturbedUnblock == Spec => UndisturbedUnblockFrees
<1>1. ASSUME IInv, NEW p \in undisturbed, CommitUnblock(p),
             NEW d \in Day, Covers(request[p].range, d)
      PROVE  ~Blocked(d)'
  <2>1. TypeOK /\ p \in Request
    BY <1>1 DEF IInv, TypeOK
  <2>2. /\ blocks' = Others(p) \cup PieceRows(p)
        /\ request[p].at = "unblock_commit"
        /\ Injection(Pieces(request[p].range, request[p].seen), RowId \ UsedIds) # {}
    BY <1>1 DEF CommitUnblock, PieceRows
  <2>3. \A m \in PieceRows(p) : ~Covers(m, d)
    BY <1>1, <2>1, <2>2, PieceRowsAre
  <2>4. ASSUME NEW s \in Others(p) PROVE ~Covers(s, d)
    <3>1. s \in blocks /\ s.id \notin Ids(request[p].seen)
      BY <2>4 DEF Others
    <3>2. request[p].seen = Overlapping(request[p].range)
      BY <1>1, <2>2 DEF IInv, UndisturbedInv
    <3>3. ~Meets(s, request[p].range)
      BY <3>1, <3>2 DEF Overlapping, Ids
    <3>4. /\ s.from \in Nat /\ s.to \in Nat /\ d \in Nat
          /\ request[p].range.from \in Nat /\ request[p].range.to \in Nat
      BY <2>1, <3>1, FrameParts, CalendarAssumption DEF TypeOK, Block, DayRange, Day
    <3> QED
      BY <1>1, <3>3, <3>4 DEF Meets, Covers
  <2> QED
    BY <2>2, <2>3, <2>4 DEF Blocked, Covers
<1>2. IInv /\ [Next]_vars =>
         [\A p \in undisturbed : CommitUnblock(p) =>
             \A d \in Day : Covers(request[p].range, d) => ~Blocked(d)']_vars
  BY <1>1
<1> QED
  BY <1>2, CalendarInvariance, PTL DEF Spec, UndisturbedUnblockFrees

\* A block that nothing came in between touches no booking and leaves a day
\* free.
THEOREM UndisturbedBlock == Spec => UndisturbedBlockIsAllowed
<1>1. ASSUME IInv, NEW p \in undisturbed, CommitBlock(p)
      PROVE  /\ \A b \in taken' : ~Meets(Stay[b], request[p].range)
             /\ \E d \in Day : /\ ~Blocked(d)'
                               /\ \A b \in taken' : ~Covers(Stay[b], d)
  <2>1. /\ request[p].at = "block_commit" /\ taken' = taken
        /\ blocks' = Others(p) \cup request[p].merged
    BY <1>1 DEF CommitBlock
  <2>2. ~Booked(request[p].range) /\ KeepsBookableDay(Others(p) \cup request[p].merged)
    BY <1>1, <2>1 DEF IInv, UndisturbedInv
  <2> QED
    BY <2>1, <2>2 DEF Booked, KeepsBookableDay, Blocked, Covers
<1>2. IInv /\ [Next]_vars =>
         [\A p \in undisturbed : CommitBlock(p) =>
             /\ \A b \in taken' : ~Meets(Stay[b], request[p].range)
             /\ \E d \in Day : /\ ~Blocked(d)'
                               /\ \A b \in taken' : ~Covers(Stay[b], d)]_vars
  BY <1>1
<1> QED
  BY <1>2, CalendarInvariance, PTL DEF Spec, UndisturbedBlockIsAllowed

=============================================================================
