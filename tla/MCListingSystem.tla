--------------------------- MODULE MCListingSystem ---------------------------
(* A small instance of ListingSystem for TLC. *)
EXTENDS ListingSystem, TLC

CONSTANTS p1, p2

\* The third title is gibberish, the second says little and needs the first
\* description.
MCFound == [text \in [title : Title, description : Description] |->
               [flags |-> IF text.title = "t3" THEN {"gibberish"} ELSE {},
                insufficient |-> text.title = "t2" /\ text.description = "d2"]]

MCCreated == {[title |-> "t1", description |-> "d1"], [title |-> "t3", description |-> "d1"]}

ProcessSymmetry == Permutations(Process)
=============================================================================
