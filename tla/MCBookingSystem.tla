--------------------------- MODULE MCBookingSystem ---------------------------
(* Small instances of BookingSystem for TLC. *)
EXTENDS BookingSystem, TLC

CONSTANTS b1, b2, b3, p1, p2, p3, t1, t2

Flat(from, to) == [listing |-> "flat", renter |-> "rita", landlord |-> "lars",
                   from |-> from, to |-> to, rent |-> 2, deposit |-> 1]

\* Two instants a day.  b1 and b2 share an instant, b3 shares a day with b1
\* but no instant, and b2 ends at midnight.
MCTerms == (b1 :> Flat(1, 3)) @@ (b2 :> Flat(2, 4)) @@ (b3 :> Flat(0, 1))

\* Only the first of them.
MCOneTerms == b1 :> Flat(1, 3)

MCTwoTerms == (b1 :> Flat(1, 3)) @@ (b2 :> Flat(2, 4))

\* Every hold has a name of its own.
MCHoldId == {<<k.purpose, k.booking, k.token>> : k \in HoldKey}
MCHoldIdOf == [k \in HoldKey |-> <<k.purpose, k.booking, k.token>>]

\* Holds paid with the same card collide, whatever they are for.
MCOneNameACard == [k \in HoldKey |-> k.token]

ProcessSymmetry == Permutations(Process)

\* Also of cards, where no booking is paid in the first state.
CardSymmetry == Permutations(Process) \cup Permutations(Token)
=============================================================================
