------------------------------ MODULE TrustScore ------------------------------
(***************************************************************************)
(* The trust score of a user: TrustScoreService and the daily job.  A      *)
(* recalculation reads the verification and the bookings one after the     *)
(* other, without a transaction, and writes what follows from that.        *)
(***************************************************************************)
EXTENDS AccountTable

Least(a, b) == IF a <= b THEN a ELSE b

\* Mutant: the two readings of the bookings are taken to agree.
LateReturnsAsListed(found) == found.late

\* The bookings are counted and listed by two queries, which may see different ones.
LateReturns(found) == Least(found.total, found.late)

\* A fifth for the verification, three tenths for a rating that is neutral for
\* everybody, one half for the deals that were not late; rounded.
CurrentScore(verified, total, successful) ==
    (IF verified THEN 20 ELSE 0) + 15
    + (IF total > 0 THEN (100 * successful + total) \div (2 * total) ELSE 0)

\* Mutant: the deals that were not late are what is left, without a limit.
CalculatedUnlimited(found) ==
    [exists |-> TRUE, totalDeals |-> found.total, successfulDeals |-> found.total - found.late,
     lateReturns |-> found.late,
     currentScore |-> CurrentScore(found.verified, found.total, found.total - found.late)]

Calculated(found) ==
    LET late == LateReturns(found)
        successful == IF found.total > late THEN found.total - late ELSE 0
    IN  [exists |-> TRUE, totalDeals |-> found.total, successfulDeals |-> successful,
         lateReturns |-> late,
         currentScore |-> CurrentScore(found.verified, found.total, successful)]

\* The daily job, for this user.
Recalculate(p) ==
    /\ At(p, "idle")
    /\ Begin(p, Request("recalculate", Nobody, "read_verification"))
    /\ UNCHANGED tableVars

\* Without a score, reading it calculates it.
ReadScore(p) ==
    /\ At(p, "read_score")
    /\ IF score.exists THEN Answer(p, TRUE) ELSE GoTo(p, "read_verification")
    /\ UNCHANGED tableVars

\* The user is there: no code deletes one.
ReadVerification(p) ==
    /\ At(p, "read_verification")
    /\ process' = [process EXCEPT ![p].at = "read_deals",
                                  ![p].found.verified = verification.status = "VERIFIED"]
    /\ UNCHANGED tableVars

\* The two queries on the bookings run side by side.
CountDeals(p) ==
    /\ process[p].at \in {"read_deals", "count_deals"}
    /\ process' = [process EXCEPT
                      ![p].at = IF At(p, "read_deals") THEN "list_deals" ELSE "write_score",
                      ![p].found.total = deals.completed]
    /\ UNCHANGED tableVars

ListDeals(p) ==
    /\ process[p].at \in {"read_deals", "list_deals"}
    /\ process' = [process EXCEPT
                      ![p].at = IF At(p, "read_deals") THEN "count_deals" ELSE "write_score",
                      ![p].found.late = deals.late]
    /\ UNCHANGED tableVars

\* Mutant: a row that is there is left as it is.
WriteScoreOnce(p) ==
    /\ At(p, "write_score")
    /\ score' = IF score.exists THEN score ELSE Calculated(process[p].found)
    /\ Answer(p, TRUE)
    /\ UNCHANGED <<cards, verification, deals, profile>>

WriteScore(p) ==
    /\ At(p, "write_score")
    /\ score' = Calculated(process[p].found)
    /\ Answer(p, TRUE)
    /\ UNCHANGED <<cards, verification, deals, profile>>

ContinueScore(p) ==
    \/ ReadScore(p) \/ ReadVerification(p) \/ CountDeals(p) \/ ListDeals(p)
    \/ WriteScore(p)

-----------------------------------------------------------------------------
(* What the bookings do meanwhile.                                         *)

CompleteDeal(isLate) ==
    /\ deals.completed < MaxDeals
    /\ deals' = [completed |-> deals.completed + 1,
                 late |-> IF isLate THEN deals.late + 1 ELSE deals.late]
    /\ UNCHANGED <<cards, verification, score, profile, process>>

\* The deposit of a completed booking is settled too late.
SettleLate ==
    /\ deals.late < deals.completed
    /\ deals' = [deals EXCEPT !.late = @ + 1]
    /\ UNCHANGED <<cards, verification, score, profile, process>>

\* A listing is deleted, and a completed booking with it.
DeleteDeal(isLate) ==
    /\ deals.completed > 0
    /\ IF isLate THEN deals.late > 0 ELSE deals.late < deals.completed
    /\ deals' = [completed |-> deals.completed - 1,
                 late |-> IF isLate THEN deals.late - 1 ELSE deals.late]
    /\ UNCHANGED <<cards, verification, score, profile, process>>
=============================================================================
