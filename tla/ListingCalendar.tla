--------------------------- MODULE ListingCalendar ---------------------------
(***************************************************************************)
(* CalendarService: the manual blocks of one listing's calendar, which the *)
(* owner sets and lifts while renters book the listing.  Several requests  *)
(* of the owner can be in flight; a transaction of one sees the committed  *)
(* work of the others (Read Committed), and its own before it commits.     *)
(*                                                                         *)
(* Bookings are seen from outside, as this component sees them: one that   *)
(* is in a blocking status takes its days.  createBooking does not look at *)
(* the manual blocks at all.  Which bookings can be open together is the   *)
(* business of BookingSystem; here any can.  The reason of a block and the *)
(* passing of time are left out.                                           *)
(***************************************************************************)
EXTENDS Integers, FiniteSets, Functions

CONSTANTS
    LastDay,    \* the last day of the two years in which a day must stay free
    Stay,       \* the days of each booking: from, to
    Booking,    \* booking ids
    Request,    \* the requests of the owner that can be in flight together
    RowId       \* bound: ids for the rows of ListingManualCalendarBlock

ASSUME CalendarAssumption ==
    /\ LastDay \in Nat
    /\ DOMAIN Stay = Booking
    /\ \A b \in Booking : Stay[b].from \in Nat /\ Stay[b].to \in Nat

VARIABLES
    blocks,     \* the rows of ListingManualCalendarBlock
    taken,      \* the bookings in a blocking status
    request,    \* the requests
    undisturbed \* history: requests that read the blocks and the bookings as
                \* they still are

vars == <<blocks, taken, request, undisturbed>>

Day == 0..LastDay

\* A range of days, both ends included.
DayRange == {r \in [from : Day, to : Day] : r.from <= r.to}

Block == {r \in [id : RowId, from : Day, to : Day] : r.from <= r.to}

Row(id, range) == [id |-> id, from |-> range.from, to |-> range.to]

Meets(r, s) == r.from <= s.to /\ r.to >= s.from
Covers(r, d) == r.from <= d /\ d <= r.to

Label == {"idle", "block_read", "block_write", "block_commit",
          "unblock_read", "forced_read", "unblock_commit"}

\* A request carries its range, the blocks its transaction has read, the block
\* it is about to commit and the bookings it is about to cancel.
Frame == [at : Label, range : DayRange, seen : SUBSET Block, merged : SUBSET Block,
          cancels : SUBSET Booking]

Working(label, range, seen, merged, cancels) ==
    [at |-> label, range |-> range, seen |-> seen, merged |-> merged, cancels |-> cancels]

Idle == Working("idle", [from |-> 0, to |-> 0], {}, {}, {})

At(p, label) == request[p].at = label

TypeOK == /\ blocks \subseteq Block
          /\ taken \subseteq Booking
          /\ request \in [Request -> Frame]
          /\ undisturbed \subseteq Request

Init == /\ blocks = {}
        /\ taken = {}
        /\ request = [p \in Request |-> Idle]
        /\ undisturbed = {}

-----------------------------------------------------------------------------

Booked(range) == \E b \in taken : Meets(Stay[b], range)

Ids(rows) == {r.id : r \in rows}

\* Ids are never used twice while anybody remembers them.
UsedIds == Ids(blocks) \cup UNION {Ids(request[p].seen) \cup Ids(request[p].merged) : p \in Request}

\* A request that works on rows another transaction has deleted and not yet
\* committed waits for that commit.
Locked(p, rows) == \E q \in Request \ {p} : /\ At(q, "block_commit")
                                            /\ Ids(request[q].seen) \cap Ids(rows) # {}

Overlapping(range) == {r \in blocks : Meets(r, range)}

IsLeast(n, S) == n \in S /\ \A m \in S : n <= m
IsGreatest(n, S) == n \in S /\ \A m \in S : n >= m

\* Mutant: only the left end is extended.
IsMergedLeft(m, range, rows) ==
    /\ IsLeast(m.from, {range.from} \cup {r.from : r \in rows})
    /\ m.to = range.to

\* The block that takes the place of `rows`, which overlap the range.
IsMerged(m, range, rows) ==
    /\ IsLeast(m.from, {range.from} \cup {r.from : r \in rows})
    /\ IsGreatest(m.to, {range.to} \cup {r.to : r \in rows})

\* assertListingKeepsBookableFutureDay, for the blocks a transaction sees.
KeepsBookableDay(rows) ==
    \E d \in Day : /\ \A r \in rows : ~Covers(r, d)
                   /\ \A b \in taken : ~Covers(Stay[b], d)

Begin(p, frame) == request' = [request EXCEPT ![p] = frame]
Return(p) == Begin(p, Idle)

\* blockDates asks for bookings on these days before its transaction.
BlockDates(p, range) ==
    /\ At(p, "idle")
    /\ ~Booked(range)
    /\ Begin(p, Working("block_read", range, {}, {}, {}))
    /\ undisturbed' = undisturbed \cup {p}
    /\ UNCHANGED <<blocks, taken>>

ReadForBlock(p) ==
    LET range == request[p].range
    IN  /\ At(p, "block_read")
        /\ Begin(p, Working("block_write", range, Overlapping(range), {}, {}))
        /\ UNCHANGED <<blocks, taken, undisturbed>>

\* The rows without those that the transaction of p has read and deleted.
Others(p) == {r \in blocks : r.id \notin Ids(request[p].seen)}

NewId == CHOOSE i \in RowId \ UsedIds : TRUE

\* Mutant: a transaction that leaves no day is committed all the same.
WriteBlockUnchecked(p) ==
    LET range == request[p].range
        seen == request[p].seen
    IN  /\ At(p, "block_write")
        /\ ~Locked(p, seen)
        /\ RowId \ UsedIds # {}
        /\ \E m \in DayRange :
              /\ IsMerged(m, range, seen)
              /\ Begin(p, Working("block_commit", range, seen, {Row(NewId, m)}, {}))
        /\ UNCHANGED <<blocks, taken, undisturbed>>

\* The overlapping rows are deleted, one is created in their place, and the
\* check runs on what the transaction sees then.  It rolls back or goes on.
WriteBlock(p) ==
    LET range == request[p].range
        seen == request[p].seen
    IN  /\ At(p, "block_write")
        /\ ~Locked(p, seen)
        /\ RowId \ UsedIds # {}
        /\ \E m \in DayRange :
              /\ IsMerged(m, range, seen)
              /\ IF KeepsBookableDay(Others(p) \cup {Row(NewId, m)})
                 THEN Begin(p, Working("block_commit", range, seen, {Row(NewId, m)}, {}))
                 ELSE Return(p)
        /\ UNCHANGED <<blocks, taken, undisturbed>>

CommitBlock(p) ==
    /\ At(p, "block_commit")
    /\ blocks' = Others(p) \cup request[p].merged
    /\ Return(p)
    /\ undisturbed' = {}
    /\ UNCHANGED taken

\* unblockDates.  On days with bookings it must be forced, and the owner must
\* have agreed that they are cancelled; otherwise it is refused.
UnblockDates(p, range, forced) ==
    /\ At(p, "idle")
    /\ Booked(range) => forced
    /\ Begin(p, Working(IF Booked(range) THEN "forced_read" ELSE "unblock_read",
                        range, {}, {}, {}))
    /\ undisturbed' = undisturbed \cup {p}
    /\ UNCHANGED <<blocks, taken>>

\* The transaction cancels the bookings on these days, when there were any
\* before it began, and reads the blocks.
ReadForUnblock(p) ==
    LET range == request[p].range
        hit == {b \in taken : At(p, "forced_read") /\ Meets(Stay[b], range)}
    IN  /\ At(p, "unblock_read") \/ At(p, "forced_read")
        /\ Begin(p, Working("unblock_commit", range, Overlapping(range), {}, hit))
        /\ UNCHANGED <<blocks, taken, undisturbed>>

\* Mutant: the left piece keeps a day of the range.
LeftPiecesTouching(range, rows) ==
    {[source |-> r.id, from |-> r.from, to |-> range.from] :
        r \in {row \in rows : row.from < range.from}}

LeftPieces(range, rows) ==
    {[source |-> r.id, from |-> r.from, to |-> range.from - 1] :
        r \in {row \in rows : row.from < range.from}}

RightPieces(range, rows) ==
    {[source |-> r.id, from |-> range.to + 1, to |-> r.to] :
        r \in {row \in rows : row.to > range.to}}

\* What the rows leave on either side of the range.
Pieces(range, rows) == LeftPieces(range, rows) \cup RightPieces(range, rows)

\* Each piece becomes a row of its own.
Naming(pieces) == CHOOSE f \in Injection(pieces, RowId \ UsedIds) : TRUE

CommitUnblock(p) ==
    LET pieces == Pieces(request[p].range, request[p].seen)
    IN  /\ At(p, "unblock_commit")
        /\ ~Locked(p, request[p].seen)
        /\ Injection(pieces, RowId \ UsedIds) # {}
        /\ blocks' = Others(p) \cup {Row(Naming(pieces)[x], x) : x \in pieces}
        /\ taken' = taken \ request[p].cancels
        /\ Return(p)
        /\ undisturbed' = {}

\* A request fails, or the backend goes down with it: the transaction is rolled
\* back.
Abort(p) == /\ ~At(p, "idle")
            /\ Return(p)
            /\ UNCHANGED <<blocks, taken, undisturbed>>

-----------------------------------------------------------------------------
(* Bookings come and go.  A row that a transaction has cancelled and not   *)
(* committed yet is locked.                                                *)

Book(b) == /\ b \notin taken
           /\ taken' = taken \cup {b}
           /\ undisturbed' = {}
           /\ UNCHANGED <<blocks, request>>

Leave(b) == /\ b \in taken
            /\ \A p \in Request : b \notin request[p].cancels
            /\ taken' = taken \ {b}
            /\ UNCHANGED <<blocks, request, undisturbed>>

-----------------------------------------------------------------------------

Next == \/ \E p \in Request :
              \/ \E range \in DayRange :
                    \/ BlockDates(p, range)
                    \/ \E forced \in BOOLEAN : UnblockDates(p, range, forced)
              \/ ReadForBlock(p) \/ WriteBlock(p) \/ CommitBlock(p)
              \/ ReadForUnblock(p) \/ CommitUnblock(p)
              \/ Abort(p)
        \/ \E b \in Booking : Book(b) \/ Leave(b)

Spec == Init /\ [][Next]_vars

-----------------------------------------------------------------------------
(* Safety.                                                                 *)

Blocked(d) == \E r \in blocks : Covers(r, d)

\* A day that the owner has blocked is freed by lifting the block of that day
\* and by nothing else: neither the merging of overlapping blocks nor the
\* cutting of a lifted one loses a day, although both delete and recreate rows
\* that another request may have replaced since they were read.
OnlyUnblockingFrees ==
    [][\A d \in Day : Blocked(d) /\ ~Blocked(d)' =>
          \E p \in Request : /\ At(p, "unblock_commit") /\ At(p, "idle")'
                             /\ Covers(request[p].range, d)]_vars

\* When no other request of the owner and no new booking comes in between, lifting
\* a block frees all of its days.
UndisturbedUnblockFrees ==
    [][\A p \in undisturbed : CommitUnblock(p) =>
          \A d \in Day : Covers(request[p].range, d) => ~Blocked(d)']_vars

\* When none comes in between, a block does not touch a booking and leaves a
\* day free, whatever it was merged with.
UndisturbedBlockIsAllowed ==
    [][\A p \in undisturbed : CommitBlock(p) =>
          /\ \A b \in taken' : ~Meets(Stay[b], request[p].range)
          /\ \E d \in Day : /\ ~Blocked(d)'
                            /\ \A b \in taken' : ~Covers(Stay[b], d)]_vars

-----------------------------------------------------------------------------
(* Why it holds: an inductive invariant.                                   *)

\* A row never changes under its id: what a transaction has read of a row that
\* still exists is what the row says.
RowsInv ==
    /\ \A r, s \in blocks : r.id = s.id => r = s
    /\ \A p \in Request : \A r \in request[p].seen, s \in blocks : r.id = s.id => r = s

\* The row that is about to be committed is new to everybody, and covers the
\* rows it takes the place of.
MergedInv ==
    \A p \in Request :
        /\ At(p, "block_commit") =>
              \A r \in request[p].seen :
                 \E m \in request[p].merged : m.from <= r.from /\ r.to <= m.to
        /\ \A m \in request[p].merged :
              /\ \A s \in blocks : m.id # s.id
              /\ \A q \in Request : \A r \in request[q].seen : m.id # r.id
              /\ \A q \in Request : \A n \in request[q].merged : m.id = n.id => p = q /\ m = n

\* What an undisturbed request has found out is still so.
UndisturbedInv ==
    \A p \in undisturbed :
        /\ request[p].at \in {"block_read", "block_write", "block_commit"} =>
              ~Booked(request[p].range)
        /\ At(p, "block_commit") => KeepsBookableDay(Others(p) \cup request[p].merged)
        /\ At(p, "unblock_commit") => request[p].seen = Overlapping(request[p].range)

IInv == TypeOK /\ RowsInv /\ MergedInv /\ UndisturbedInv
=============================================================================
