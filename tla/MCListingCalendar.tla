-------------------------- MODULE MCListingCalendar --------------------------
(* A small instance of ListingCalendar for TLC. *)
EXTENDS ListingCalendar, TLC

CONSTANTS p1, p2

\* One booking, in the middle of the calendar.
MCStay == "visit" :> [from |-> 1, to |-> 1]

RequestSymmetry == Permutations(Request)
=============================================================================
