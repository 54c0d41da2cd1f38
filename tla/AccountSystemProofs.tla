------------------------- MODULE AccountSystemProofs -------------------------
(***************************************************************************)
(* What AccountSystem promises of saves and scores, for any cards,         *)
(* columns, windows, requests and numbers of bookings.                     *)
(***************************************************************************)
EXTENDS AccountSystem, FiniteSetTheorems, TLAPS

-----------------------------------------------------------------------------
(* The numbers of a score.                                                 *)

\* One half of the deals that were not late, in hundredths, rounded.
LEMMA HalfAtMost ==
    ASSUME NEW total \in Nat \ {0}, NEW successful \in 0..total
    PROVE  (100 * successful + total) \div (2 * total) \in 0..50
<1> DEFINE n == 100 * successful + total
           d == 2 * total
           q == n \div d
<1>1. n \in Nat /\ d \in Nat \ {0} /\ n <= 101 * total /\ d = 2 * total
  OBVIOUS
<1> HIDE DEF n, d
<1>2. q \in Int /\ d * q <= n /\ n < d * q + d
  BY <1>1
<1> HIDE DEF q
<1>3. q >= 0
  <2>1. ASSUME q <= -1 PROVE FALSE
    <3>1. d * q <= -d
      BY <1>1, <1>2, <2>1
    <3> QED
      BY <1>1, <1>2, <3>1
  <2> QED
    BY <1>2, <2>1
<1>4. q <= 50
  <2>1. ASSUME q >= 51 PROVE FALSE
    <3>1. d * q >= d * 51
      BY <1>1, <1>2, <2>1
    <3> QED
      BY <1>1, <1>2, <3>1
  <2> QED
    BY <1>2, <2>1
<1> QED
  BY <1>2, <1>3, <1>4 DEF q, n, d

LEMMA CalculatedAddsUp ==
    ASSUME NEW found \in [verified : BOOLEAN, total : Nat, late : Nat]
    PROVE  /\ Calculated(found) \in Score
           /\ Calculated(found).successfulDeals + Calculated(found).lateReturns
                 = Calculated(found).totalDeals
           /\ Calculated(found).currentScore \in 0..100
<1> DEFINE late == LateReturns(found)
           successful == IF found.total > late THEN found.total - late ELSE 0
           current == CurrentScore(found.verified, found.total, successful)
<1>1. /\ found.total \in Nat /\ late \in Nat /\ late <= found.total
      /\ successful \in 0..found.total /\ successful + late = found.total
  BY DEF LateReturns, Least
<1> HIDE DEF late, successful
<1>2. current \in 0..100
  BY <1>1, HalfAtMost DEF CurrentScore
<1>3. Calculated(found) = [exists |-> TRUE, totalDeals |-> found.total,
                           successfulDeals |-> successful, lateReturns |-> late,
                           currentScore |-> current]
  BY DEF Calculated, late, successful
<1> HIDE DEF current
<1> QED
  BY <1>1, <1>2, <1>3 DEF Score

-----------------------------------------------------------------------------
(* Requests.                                                               *)

Fitting(f) == f \in Frame /\ Fits(f)

\* It waits for nothing that Fits speaks of.
Plain(f) == f \in Frame /\ f.at \notin {"callback_write", "save_write"}

LEMMA PlainFits == \A f : Plain(f) => Fitting(f)
BY DEF Plain, Fitting, Fits

LEMMA SomeValue == (CHOOSE v \in Value : TRUE) \in Value
BY AccountAssumption

LEMMA IdleFrame == Idle \in Frame /\ Idle.at = "idle"
<1> DEFINE value == CHOOSE v \in Value : TRUE
           user == [c \in Column |-> value]
<1>1. value \in Value
  BY SomeValue
<1> HIDE DEF value
<1>2. user \in [Column -> Value]
  BY <1>1
<1>3. Idle = [kind |-> "none", at |-> "idle", client |-> Nobody, card |-> NoCard,
              setAsDefault |-> "unsaid", isDefault |-> FALSE, clear |-> {}, next |-> NoCard,
              outcome |-> "none", found |-> NothingFound, body |-> EmptyBody,
              shown |-> NothingShown, typed |-> {}, user |-> user, ok |-> FALSE]
  BY DEF Idle, value
<1>4. /\ NothingFound \in [verified : BOOLEAN, total : Nat, late : Nat]
      /\ EmptyBody \in [Column -> Value \cup {"unsaid"}]
      /\ NothingShown \in Shown
  BY DEF NothingFound, EmptyBody, NothingShown, Shown
<1> HIDE DEF user
<1> QED
  BY <1>2, <1>3, <1>4 DEF Frame, Kind, Label, Outcome

LEMMA RequestFrame ==
    ASSUME NEW kind \in Kind, NEW client \in Window \cup {Nobody}, NEW label \in Label
    PROVE  Request(kind, client, label) \in Frame /\ Request(kind, client, label).at = label
BY IdleFrame DEF Request, Frame

LEMMA AnswerFits ==
    ASSUME NEW f \in Frame, NEW ok \in BOOLEAN
    PROVE  Fitting([f EXCEPT !.at = "answer", !.ok = ok, !.clear = {}, !.next = NoCard,
                             !.outcome = "none", !.found = NothingFound, !.body = EmptyBody,
                             !.typed = {}, !.setAsDefault = "unsaid"])
<1>1. /\ NothingFound \in [verified : BOOLEAN, total : Nat, late : Nat]
      /\ EmptyBody \in [Column -> Value \cup {"unsaid"}]
  BY DEF NothingFound, EmptyBody
<1> DEFINE a == [f EXCEPT !.at = "answer", !.ok = ok, !.clear = {}, !.next = NoCard,
                          !.outcome = "none", !.found = NothingFound, !.body = EmptyBody,
                          !.typed = {}, !.setAsDefault = "unsaid"]
<1>2. a \in Frame /\ a.at = "answer"
  BY <1>1 DEF Frame, Label, Outcome
<1> HIDE DEF a
<1>3. Fitting(a)
  BY <1>2, PlainFits DEF Plain
<1> QED
  BY <1>3 DEF a

Requests == process \in [Process -> Frame] /\ \A p \in Process : Fits(process[p])

LEMMA ItHasRequests == IInv => Requests
BY DEF IInv, TypeOK, TableTypeOK, Requests

LEMMA BeginFits ==
    ASSUME Requests, NEW p \in Process, NEW frame, Fitting(frame), Begin(p, frame)
    PROVE  Requests'
BY DEF Requests, Fitting, Begin

LEMMA AnswerRequests ==
    ASSUME Requests, NEW p \in Process, NEW ok \in BOOLEAN, Answer(p, ok)
    PROVE  Requests'
<1> DEFINE a == [process[p] EXCEPT !.at = "answer", !.ok = ok, !.clear = {}, !.next = NoCard,
                                   !.outcome = "none", !.found = NothingFound, !.body = EmptyBody,
                                   !.typed = {}, !.setAsDefault = "unsaid"]
<1>1. Fitting(a)
  BY AnswerFits DEF Requests
<1>2. Begin(p, a)
  BY DEF Answer, Begin, Requests
<1> HIDE DEF a
<1> QED
  BY <1>1, <1>2, BeginFits

LEMMA GoToRequests ==
    ASSUME Requests, NEW p \in Process, NEW label \in Label \ {"callback_write", "save_write"},
           GoTo(p, label)
    PROVE  Requests'
<1> DEFINE frame == [process[p] EXCEPT !.at = label]
<1>1. frame \in Frame /\ frame.at = label
  BY DEF Requests, Frame
<1>2. Begin(p, frame)
  BY DEF GoTo, Begin, Requests
<1> HIDE DEF frame
<1> QED
  BY <1>1, <1>2, BeginFits, PlainFits DEF Plain

\* The steps that change one field more.
LEMMA DefaultFits ==
    ASSUME NEW f \in Frame, NEW label \in Label \ {"callback_write", "save_write"},
           NEW isDefault \in BOOLEAN
    PROVE  Fitting([f EXCEPT !.at = label, !.isDefault = isDefault])
<1>1. Plain([f EXCEPT !.at = label, !.isDefault = isDefault])
  BY DEF Plain, Frame
<1> QED
  BY <1>1, PlainFits

LEMMA ClearFits ==
    ASSUME NEW f \in Frame, NEW label \in Label \ {"callback_write", "save_write"},
           NEW some \in SUBSET Card
    PROVE  Fitting([f EXCEPT !.at = label, !.clear = some])
<1>1. Plain([f EXCEPT !.at = label, !.clear = some])
  BY DEF Plain, Frame
<1> QED
  BY <1>1, PlainFits

LEMMA NextFits ==
    ASSUME NEW f \in Frame, NEW label \in Label \ {"callback_write", "save_write"},
           NEW c \in Card
    PROVE  Fitting([f EXCEPT !.at = label, !.next = c])
<1>1. Plain([f EXCEPT !.at = label, !.next = c])
  BY DEF Plain, Frame
<1> QED
  BY <1>1, PlainFits

LEMMA ShownFits ==
    ASSUME NEW f \in Frame, NEW label \in Label \ {"callback_write", "save_write"},
           NEW shown \in Shown
    PROVE  Fitting([f EXCEPT !.at = label, !.ok = TRUE, !.shown = shown])
<1>1. Plain([f EXCEPT !.at = label, !.ok = TRUE, !.shown = shown])
  BY DEF Plain, Frame
<1> QED
  BY <1>1, PlainFits

LEMMA ReturnRequests ==
    ASSUME Requests, NEW p \in Process, Return(p)
    PROVE  Requests'
BY IdleFrame, PlainFits, BeginFits DEF Return, Plain

-----------------------------------------------------------------------------
(* Cards.                                                                  *)

Rows == cards \in [Card -> CardRow]

LEMMA FindMethodsKeeps ==
    ASSUME Requests, Rows, NEW p \in Process, FindMethods(p)
    PROVE  Requests' /\ UNCHANGED tableVars
<1> DEFINE shown == [c \in Card |-> IF c \notin Attached THEN "none"
                                    ELSE IF cards[c].isDefault THEN "default" ELSE "plain"]
           frame == [process[p] EXCEPT !.at = "answer", !.ok = TRUE, !.shown = shown]
<1>1. shown \in Shown
  BY DEF Shown
<1>2. Begin(p, frame) /\ UNCHANGED tableVars
  BY DEF FindMethods, Begin, Requests
<1>3. process[p] \in Frame /\ "answer" \in Label \ {"callback_write", "save_write"}
  BY DEF Requests, Label
<1> HIDE DEF shown
<1>4. Fitting(frame)
  BY <1>1, <1>3, ShownFits, Zenon
<1> HIDE DEF frame
<1> QED
  BY <1>2, <1>4, BeginFits

LEMMA FindExistingKeeps ==
    ASSUME Requests, NEW p \in Process, FindExisting(p)
    PROVE  Requests' /\ UNCHANGED tableVars
<1> DEFINE isDefault == process[p].setAsDefault = "yes"
           frame == [process[p] EXCEPT !.at = "reattach_begin", !.isDefault = isDefault]
<1>1. ASSUME process' = [process EXCEPT ![p].at = "reattach_begin", ![p].isDefault = isDefault]
      PROVE  Requests'
  <2>1. Begin(p, frame) /\ isDefault \in BOOLEAN
    BY <1>1 DEF Begin, Requests
  <2>2. process[p] \in Frame /\ "reattach_begin" \in Label \ {"callback_write", "save_write"}
    BY DEF Requests, Label
  <2> HIDE DEF isDefault
  <2>3. Fitting(frame)
    BY <2>1, <2>2, DefaultFits, Zenon
  <2> HIDE DEF frame
  <2> QED
    BY <2>1, <2>3, BeginFits
<1>2. GoTo(p, "attach_count") => Requests'
  BY GoToRequests DEF Label
<1>3. Answer(p, FALSE) => Requests'
  BY AnswerRequests
<1> QED
  BY <1>1, <1>2, <1>3 DEF FindExisting

LEMMA CountExistingKeeps ==
    ASSUME Requests, NEW p \in Process, CountExisting(p)
    PROVE  Requests' /\ UNCHANGED tableVars
<1> DEFINE isDefault == \/ process[p].setAsDefault = "yes"
                        \/ process[p].setAsDefault = "unsaid" /\ Attached = {}
           frame == [process[p] EXCEPT !.at = "attach_begin", !.isDefault = isDefault]
<1>1. Begin(p, frame) /\ isDefault \in BOOLEAN /\ UNCHANGED tableVars
  BY DEF CountExisting, Begin, Requests
<1>2. process[p] \in Frame /\ "attach_begin" \in Label \ {"callback_write", "save_write"}
  BY DEF Requests, Label
<1> HIDE DEF isDefault
<1>3. Fitting(frame)
  BY <1>1, <1>2, DefaultFits, Zenon
<1> HIDE DEF frame
<1> QED
  BY <1>1, <1>3, BeginFits

LEMMA BeginChangeKeeps ==
    ASSUME Requests, NEW p \in Process, BeginChange(p)
    PROVE  Requests' /\ UNCHANGED tableVars
<1>1. ASSUME NEW label \in {"attach_commit", "reattach_commit", "default_commit"},
             ClearDefaults(p, label)
      PROVE  Requests'
  <2> DEFINE clear == IF process[p].isDefault THEN Defaults ELSE {}
             frame == [process[p] EXCEPT !.at = label, !.clear = clear]
  <2>1. Begin(p, frame) /\ clear \in SUBSET Card
    BY <1>1 DEF Begin, Requests, ClearDefaults, Defaults
  <2>2. process[p] \in Frame /\ label \in Label \ {"callback_write", "save_write"}
    BY DEF Requests, Label
  <2> HIDE DEF clear
  <2>3. Fitting(frame)
    BY <2>1, <2>2, ClearFits, Zenon
  <2> HIDE DEF frame
  <2> QED
    BY <2>1, <2>3, BeginFits
<1> QED
  BY <1>1 DEF BeginChange

LEMMA ClearedRows ==
    ASSUME Rows, NEW p \in Process
    PROVE  Cleared(p) \in [Card -> CardRow]
BY DEF Rows, Cleared, CardRow

LEMMA NewRowIsRow ==
    ASSUME NEW isDefault \in BOOLEAN
    PROVE  NewRow(isDefault) \in CardRow
<1>1. Cardinality({c \in Card : cards[c].status # "NONE"}) \in Nat
  BY AccountAssumption, FS_Subset, FS_CardinalityType
<1> QED
  BY <1>1 DEF NewRow, CardRow

LEMMA CreateCardKeeps ==
    ASSUME Requests, Rows, NEW p \in Process, CreateCard(p)
    PROVE  Requests' /\ Rows' /\ UNCHANGED otherTables
<1>1. ASSUME cards' = [Cleared(p) EXCEPT ![process[p].card] = NewRow(process[p].isDefault)]
      PROVE  Rows'
  <2>1. NewRow(process[p].isDefault) \in CardRow
    BY NewRowIsRow DEF Requests, Frame
  <2> QED
    BY <1>1, <2>1, ClearedRows DEF Rows
<1> QED
  BY <1>1, AnswerRequests DEF CreateCard, Rows

LEMMA ReattachCardKeeps ==
    ASSUME Requests, Rows, NEW p \in Process, ReattachCard(p)
    PROVE  Requests' /\ Rows' /\ UNCHANGED otherTables
<1>1. /\ process[p].isDefault \in BOOLEAN
      /\ cards' = [Cleared(p) EXCEPT ![process[p].card].status = "ATTACHED",
                                     ![process[p].card].isDefault = process[p].isDefault]
  BY DEF Requests, Frame, ReattachCard
<1>2. \A row \in CardRow, isDefault \in BOOLEAN :
         [row EXCEPT !.status = "ATTACHED", !.isDefault = isDefault] \in CardRow
  BY DEF CardRow
<1>3. Cleared(p) \in [Card -> CardRow]
  BY ClearedRows
<1>4. Rows'
  BY <1>1, <1>2, <1>3 DEF Rows
<1> QED
  BY <1>4, AnswerRequests DEF ReattachCard

LEMMA MakeDefaultKeeps ==
    ASSUME Requests, Rows, NEW p \in Process, MakeDefault(p)
    PROVE  Requests' /\ Rows' /\ UNCHANGED otherTables
<1>1. \A row \in CardRow : [row EXCEPT !.isDefault = TRUE] \in CardRow
  BY DEF CardRow
<1>2. Cleared(p) \in [Card -> CardRow]
  BY ClearedRows
<1>3. Rows'
  BY <1>1, <1>2 DEF Rows, MakeDefault
<1> QED
  BY <1>3, AnswerRequests DEF MakeDefault

LEMMA FindNextKeeps ==
    ASSUME Requests, NEW p \in Process, FindNext(p)
    PROVE  Requests' /\ UNCHANGED tableVars
<1>1. ASSUME NEW c \in Card,
             process' = [process EXCEPT ![p].at = "remove_commit", ![p].next = c]
      PROVE  Requests'
  <2> DEFINE frame == [process[p] EXCEPT !.at = "remove_commit", !.next = c]
  <2>1. Begin(p, frame)
    BY <1>1 DEF Begin, Requests
  <2>2. process[p] \in Frame /\ "remove_commit" \in Label \ {"callback_write", "save_write"}
    BY DEF Requests, Label
  <2>3. Fitting(frame)
    BY <2>2, NextFits, Zenon
  <2> HIDE DEF frame
  <2> QED
    BY <2>1, <2>3, BeginFits
<1>2. GoTo(p, "remove_commit") => Requests'
  BY GoToRequests DEF Label
<1> QED
  BY <1>1, <1>2 DEF FindNext, Oldest, Attached

LEMMA RevokeCardKeeps ==
    ASSUME Requests, Rows, NEW p \in Process, RevokeCard(p)
    PROVE  Requests' /\ Rows' /\ UNCHANGED otherTables
<1>1. Rows'
  BY DEF Rows, CardRow, RevokeCard
<1> QED
  BY <1>1, AnswerRequests DEF RevokeCard

LEMMA ContinueCardsKeeps ==
    ASSUME Requests, Rows, NEW p \in Process, ContinueCards(p)
    PROVE  Requests' /\ Rows' /\ UNCHANGED otherTables
<1>1. UNCHANGED tableVars => Rows' /\ UNCHANGED otherTables
  BY DEF tableVars, otherTables, Rows
<1> QED
  BY <1>1, FindMethodsKeeps, FindExistingKeeps, CountExistingKeeps, BeginChangeKeeps, CreateCardKeeps,
     ReattachCardKeeps, MakeDefaultKeeps, FindNextKeeps, RevokeCardKeeps DEF ContinueCards

-----------------------------------------------------------------------------
(* Verification and score.                                                 *)

LEMMA ContinueVerificationKeeps ==
    ASSUME Requests, verification \in Verification, NEW p \in Process, ContinueVerification(p)
    PROVE  Requests' /\ verification' \in Verification /\ UNCHANGED tablesButVerification
<1>1. ASSUME WritePending(p)
      PROVE  Requests' /\ verification' \in Verification /\ UNCHANGED tablesButVerification
  BY <1>1, AnswerRequests DEF WritePending, Verification
<1>2. ASSUME WriteOutcome(p)
      PROVE  Requests' /\ verification' \in Verification /\ UNCHANGED tablesButVerification
  <2>1. process[p].outcome \in {"VERIFIED", "REJECTED", "EXPIRED"}
    BY <1>2 DEF Requests, Fits, Frame, Outcome, WriteOutcome, At
  <2>2. verification' \in Verification
    BY <1>2, <2>1 DEF WriteOutcome, Verification
  <2> DEFINE label == AfterCallback(p)
  <2>3. label \in Label \ {"callback_write", "save_write"} /\ GoTo(p, label)
    BY <1>2 DEF AfterCallback, Label, WriteOutcome
  <2> HIDE DEF label
  <2>4. Requests'
    BY <2>3, GoToRequests
  <2> QED
    BY <1>2, <2>2, <2>4 DEF WriteOutcome
<1>3. ASSUME WriteEscalation(p)
      PROVE  Requests' /\ verification' \in Verification /\ UNCHANGED tablesButVerification
  <2>1. verification' \in Verification
    BY <1>3 DEF WriteEscalation, Verification
  <2> QED
    BY <1>3, <2>1, AnswerRequests DEF WriteEscalation
<1> QED
  BY <1>1, <1>2, <1>3 DEF ContinueVerification

Found == [verified : BOOLEAN, total : Nat, late : Nat]

LEMMA FoundFits ==
    ASSUME NEW f \in Frame, NEW label \in Label \ {"callback_write", "save_write"}, NEW found \in Found
    PROVE  Fitting([f EXCEPT !.at = label, !.found = found])
<1>1. Plain([f EXCEPT !.at = label, !.found = found])
  BY DEF Plain, Frame, Found
<1> QED
  BY <1>1, PlainFits

LEMMA FoundRequests ==
    ASSUME Requests, NEW p \in Process, NEW label \in Label \ {"callback_write", "save_write"},
           NEW found \in Found,
           Begin(p, [process[p] EXCEPT !.at = label, !.found = found])
    PROVE  Requests'
<1> DEFINE frame == [process[p] EXCEPT !.at = label, !.found = found]
<1>1. process[p] \in Frame
  BY DEF Requests
<1>2. Fitting(frame)
  BY <1>1, FoundFits, Zenon
<1>3. Begin(p, frame)
  OBVIOUS
<1> HIDE DEF frame
<1> QED
  BY <1>2, <1>3, BeginFits

LEMMA ItFound ==
    ASSUME Requests, NEW p \in Process
    PROVE  process[p].found \in Found
BY DEF Requests, Frame, Found

LEMMA ReadVerificationKeeps ==
    ASSUME Requests, NEW p \in Process, ReadVerification(p)
    PROVE  Requests' /\ UNCHANGED tableVars
<1> DEFINE verified == verification.status = "VERIFIED"
           found == [process[p].found EXCEPT !.verified = verified]
<1>1. Begin(p, [process[p] EXCEPT !.at = "read_deals", !.found = found]) /\ UNCHANGED tableVars
  BY DEF ReadVerification, Begin, Requests
<1>2. verified \in BOOLEAN
  OBVIOUS
<1> HIDE DEF verified
<1>3. found \in Found
  BY <1>2, ItFound DEF Found
<1>4. "read_deals" \in Label \ {"callback_write", "save_write"}
  BY DEF Label
<1> HIDE DEF found
<1> QED
  BY <1>1, <1>3, <1>4, FoundRequests

LEMMA CountDealsKeeps ==
    ASSUME Requests, deals \in Deals, NEW p \in Process, CountDeals(p)
    PROVE  Requests' /\ UNCHANGED tableVars
<1> DEFINE label == IF At(p, "read_deals") THEN "list_deals" ELSE "write_score"
           found == [process[p].found EXCEPT !.total = deals.completed]
<1>1. Begin(p, [process[p] EXCEPT !.at = label, !.found = found]) /\ UNCHANGED tableVars
  BY DEF CountDeals, Begin, Requests
<1>2. found \in Found
  BY ItFound, AccountAssumption DEF Found, Deals
<1>3. label \in Label \ {"callback_write", "save_write"}
  BY DEF Label
<1> HIDE DEF found, label
<1> QED
  BY <1>1, <1>2, <1>3, FoundRequests

LEMMA ListDealsKeeps ==
    ASSUME Requests, deals \in Deals, NEW p \in Process, ListDeals(p)
    PROVE  Requests' /\ UNCHANGED tableVars
<1> DEFINE label == IF At(p, "read_deals") THEN "count_deals" ELSE "write_score"
           found == [process[p].found EXCEPT !.late = deals.late]
<1>1. Begin(p, [process[p] EXCEPT !.at = label, !.found = found]) /\ UNCHANGED tableVars
  BY DEF ListDeals, Begin, Requests
<1>2. found \in Found
  BY ItFound, AccountAssumption DEF Found, Deals
<1>3. label \in Label \ {"callback_write", "save_write"}
  BY DEF Label
<1> HIDE DEF found, label
<1> QED
  BY <1>1, <1>2, <1>3, FoundRequests

LEMMA ContinueScoreKeeps ==
    ASSUME Requests, deals \in Deals, score \in Score, ScoreAddsUp, NEW p \in Process, ContinueScore(p)
    PROVE  /\ Requests' /\ score' \in Score /\ ScoreAddsUp'
           /\ UNCHANGED <<cards, verification, deals, profile>>
<1>1. ASSUME WriteScore(p)
      PROVE  /\ Requests' /\ score' \in Score /\ ScoreAddsUp'
             /\ UNCHANGED <<cards, verification, deals, profile>>
  <2>1. score' \in Score /\ ScoreAddsUp'
    BY <1>1, ItFound, CalculatedAddsUp DEF WriteScore, Found, ScoreAddsUp
  <2> QED
    BY <1>1, <2>1, AnswerRequests DEF WriteScore
<1>2. ASSUME ReadScore(p) PROVE Requests' /\ UNCHANGED tableVars
  BY <1>2, AnswerRequests, GoToRequests DEF ReadScore, Label
<1>3. ASSUME UNCHANGED tableVars
      PROVE  /\ score' \in Score /\ ScoreAddsUp'
             /\ UNCHANGED <<cards, verification, deals, profile>>
  BY <1>3 DEF tableVars, ScoreAddsUp
<1> QED
  BY <1>1, <1>2, <1>3, ReadVerificationKeeps, CountDealsKeeps, ListDealsKeeps DEF ContinueScore

-----------------------------------------------------------------------------
(* The profile.                                                            *)

LEMMA WriteUserKeeps ==
    ASSUME Requests, profile \in [Column -> Value], NEW p \in Process, WriteUser(p)
    PROVE  /\ Requests' /\ profile' \in [Column -> Value]
           /\ UNCHANGED <<cards, verification, deals, score>>
           /\ \A c \in Column : profile'[c] # profile[c] => c \in process[p].typed
<1>1. /\ process[p].body \in [Column -> Value \cup {"unsaid"}]
      /\ \A c \in Column : process[p].body[c] # "unsaid" => c \in process[p].typed
      /\ profile' = [c \in Column |-> IF process[p].body[c] = "unsaid" THEN profile[c]
                                      ELSE process[p].body[c]]
  BY DEF Requests, Frame, Fits, WriteUser, At, Updated
<1>2. profile' \in [Column -> Value]
  BY <1>1
<1>3. Requests'
  BY GoToRequests DEF WriteUser, Label
<1> QED
  BY <1>1, <1>2, <1>3 DEF WriteUser

-----------------------------------------------------------------------------
(* New requests.                                                           *)

Asks(client) == client \in Window \cup {Nobody}

LEMMA PlainRequest ==
    ASSUME Requests, NEW p \in Process, NEW kind \in Kind, NEW client, Asks(client),
           NEW label \in Label \ {"callback_write", "save_write"},
           Begin(p, Request(kind, client, label))
    PROVE  Requests'
<1> DEFINE frame == Request(kind, client, label)
<1>1. frame \in Frame /\ frame.at = label
  BY RequestFrame DEF Asks
<1>2. Begin(p, frame)
  OBVIOUS
<1> HIDE DEF frame
<1> QED
  BY <1>1, <1>2, BeginFits, PlainFits DEF Plain

LEMMA ListMethodsKeeps ==
    ASSUME Requests, NEW p \in Process, NEW client, Asks(client), ListMethods(p, client)
    PROVE  Requests'
BY PlainRequest DEF ListMethods, Kind, Label

LEMMA AddCardKeeps ==
    ASSUME Requests, NEW p \in Process, NEW client, Asks(client), NEW c \in Card,
           NEW flag \in {"yes", "no", "unsaid"}, AddCard(p, client, c, flag)
    PROVE  Requests'
<1> DEFINE request == Request("attach", client, "attach_find")
           frame == [request EXCEPT !.card = c, !.setAsDefault = flag]
<1>1. request \in Frame /\ request.at = "attach_find"
  BY RequestFrame DEF Asks, Kind, Label
<1>2. Begin(p, frame)
  BY DEF AddCard
<1> HIDE DEF request
<1>3. Plain(frame)
  BY <1>1 DEF Plain, Frame
<1> HIDE DEF frame
<1> QED
  BY <1>2, <1>3, BeginFits, PlainFits

\* The change of the default, and the removal, begin alike.
LEMMA CardRequest ==
    ASSUME Requests, NEW p \in Process, NEW kind \in Kind, NEW client, Asks(client),
           NEW label \in Label \ {"callback_write", "save_write"},
           NEW c \in Card, NEW isDefault \in BOOLEAN,
           Begin(p, [Request(kind, client, label) EXCEPT !.card = c, !.isDefault = isDefault])
    PROVE  Requests'
<1> DEFINE request == Request(kind, client, label)
           frame == [request EXCEPT !.card = c, !.isDefault = isDefault]
<1>1. request \in Frame /\ request.at = label
  BY RequestFrame DEF Asks
<1>2. Begin(p, frame)
  OBVIOUS
<1> HIDE DEF request
<1>3. Plain(frame)
  BY <1>1 DEF Plain, Frame
<1> HIDE DEF frame
<1> QED
  BY <1>2, <1>3, BeginFits, PlainFits

LEMMA SetDefaultKeeps ==
    ASSUME Requests, NEW p \in Process, NEW client, Asks(client), NEW c \in Card,
           SetDefault(p, client, c)
    PROVE  Requests'
<1> DEFINE label == IF c \in Attached THEN "default_begin" ELSE "answer"
<1>1. label \in Label \ {"callback_write", "save_write"} /\ "default" \in Kind
  BY DEF Label, Kind
<1>2. Begin(p, [Request("default", client, label) EXCEPT !.card = c, !.isDefault = TRUE])
  BY DEF SetDefault
<1> HIDE DEF label
<1> QED
  BY <1>1, <1>2, CardRequest

LEMMA RemoveCardKeeps ==
    ASSUME Requests, Rows, NEW p \in Process, NEW client, Asks(client), NEW c \in Card,
           RemoveCard(p, client, c)
    PROVE  Requests'
<1> DEFINE label == IF c \in Attached THEN "remove_begin" ELSE "answer"
           isDefault == cards[c].isDefault
<1>1. label \in Label \ {"callback_write", "save_write"} /\ "remove" \in Kind
  BY DEF Label, Kind
<1>2. Begin(p, [Request("remove", client, label) EXCEPT !.card = c, !.isDefault = isDefault])
  BY DEF RemoveCard
<1>3. isDefault \in BOOLEAN
  BY DEF Rows, CardRow
<1> HIDE DEF label, isDefault
<1> QED
  BY <1>1, <1>2, <1>3, CardRequest

LEMMA InitiateKeeps ==
    ASSUME Requests, NEW p \in Process, Initiate(p)
    PROVE  Requests'
<1> DEFINE label == IF verification.status = "VERIFIED" THEN "answer" ELSE "initiate_write"
<1>1. label \in Label \ {"callback_write", "save_write"} /\ "initiate" \in Kind /\ Asks(Nobody)
  BY DEF Label, Kind, Asks
<1>2. Begin(p, Request("initiate", Nobody, label))
  BY DEF Initiate
<1> HIDE DEF label
<1> QED
  BY <1>1, <1>2, PlainRequest

LEMMA CallbackKeeps ==
    ASSUME Requests, NEW p \in Process, NEW isError \in BOOLEAN, Callback(p, isError)
    PROVE  Requests'
<1> DEFINE outcome == IF verification.status = "VERIFIED" THEN "VERIFIED"
                      ELSE IF isError THEN "REJECTED"
                      ELSE IF verification.expired THEN "EXPIRED" ELSE "VERIFIED"
           label == IF verification.status = "VERIFIED" THEN "read_verification" ELSE "callback_write"
           request == Request("callback", Nobody, label)
           frame == [request EXCEPT !.outcome = outcome]
<1>1. /\ label \in {"read_verification", "callback_write"} /\ label \in Label
      /\ outcome \in Outcome \ {"none"}
  BY DEF Label, Outcome
<1>2. Begin(p, frame)
  BY DEF Callback
<1> HIDE DEF label, outcome
<1>3. request \in Frame /\ request.at = label
  BY <1>1, RequestFrame DEF Kind
<1> HIDE DEF request
<1>4. frame \in Frame /\ frame.at = label /\ frame.outcome = outcome
  BY <1>1, <1>3 DEF Frame
<1> HIDE DEF frame
<1>5. Fitting(frame)
  BY <1>1, <1>4 DEF Fitting, Fits
<1> QED
  BY <1>2, <1>5, BeginFits

LEMMA GetCurrentUserFits ==
    ASSUME Requests, profile \in [Column -> Value], NEW p \in Process, NEW client, Asks(client),
           Begin(p, [Request("user", client, "read_score") EXCEPT !.user = profile])
    PROVE  Requests'
<1> DEFINE request == Request("user", client, "read_score")
           frame == [request EXCEPT !.user = profile]
<1>1. request \in Frame /\ request.at = "read_score"
  BY RequestFrame DEF Asks, Kind, Label
<1>2. Begin(p, frame)
  OBVIOUS
<1> HIDE DEF request
<1>3. Plain(frame)
  BY <1>1 DEF Plain, Frame
<1> HIDE DEF frame
<1> QED
  BY <1>2, <1>3, BeginFits, PlainFits

LEMMA UpdateCurrentUserKeeps ==
    ASSUME Requests, NEW p \in Process, NEW client, Asks(client),
           NEW body \in [Column -> Value \cup {"unsaid"}], NEW typed \in SUBSET Column,
           \A c \in Column : body[c] # "unsaid" => c \in typed,
           UpdateCurrentUser(p, client, body, typed)
    PROVE  Requests'
<1> DEFINE request == Request("save", client, "save_write")
           frame == [request EXCEPT !.body = body, !.typed = typed]
<1>1. request \in Frame /\ request.at = "save_write"
  BY RequestFrame DEF Asks, Kind, Label
<1>2. Begin(p, frame)
  BY DEF UpdateCurrentUser
<1> HIDE DEF request
<1>3. /\ frame \in Frame /\ frame.at = "save_write"
      /\ frame.body = body /\ frame.typed = typed
  BY <1>1 DEF Frame
<1> HIDE DEF frame
<1>4. Fitting(frame)
  BY <1>3 DEF Fitting, Fits
<1> QED
  BY <1>2, <1>4, BeginFits

-----------------------------------------------------------------------------
(* The page and its form.                                                  *)

Pages == page \in [Window -> Page]

FormFits(f) == f \in Form /\ \A c \in Column : f.draft[c] # f.user[c] => c \in f.typed
Forms == form \in [Window -> Form] /\ \A w \in Window : FormFits(form[w])

LEMMA ItHasPages == IInv => Pages /\ Forms
BY DEF IInv, TypeOK, PageTypeOK, Pages, Forms, FormFits

LEMMA SetPageKeeps ==
    ASSUME Pages, NEW w \in Window, NEW change \in Page, SetPage(w, change)
    PROVE  Pages'
BY DEF Pages, SetPage

LEMMA SetFormKeeps ==
    ASSUME Forms, NEW w \in Window, NEW change, FormFits(change), SetForm(w, change)
    PROVE  Forms'
BY DEF Forms, FormFits, SetForm

LEMMA ClosedIsPage == Closed \in Page
BY DEF Closed, Page, NothingShown, Shown

LEMMA MountKeeps ==
    ASSUME Pages, NEW w \in Window, Mount(w)
    PROVE  Pages'
<1> DEFINE change == [Closed EXCEPT !.open = TRUE, !.loading = TRUE]
<1>1. change \in Page
  BY ClosedIsPage DEF Page
<1>2. SetPage(w, change)
  BY DEF Mount
<1> HIDE DEF change
<1> QED
  BY <1>1, <1>2, SetPageKeeps

LEMMA LoadCardsKeeps ==
    ASSUME Requests, Pages, NEW w \in Window, NEW p \in Process, LoadCards(w, p)
    PROVE  Requests' /\ Pages'
<1> DEFINE change == [page[w] EXCEPT !.loading = TRUE]
<1>1. change \in Page
  BY DEF Page, Pages
<1>2. SetPage(w, change)
  BY DEF LoadCards
<1> HIDE DEF change
<1> QED
  BY <1>1, <1>2, SetPageKeeps, ListMethodsKeeps DEF LoadCards, Asks

LEMMA CardsLoadedKeeps ==
    ASSUME Requests, Pages, NEW w \in Window, NEW p \in Process, CardsLoaded(w, p)
    PROVE  Requests' /\ Pages'
<1> DEFINE shown == IF process[p].ok THEN process[p].shown ELSE page[w].shown
           change == [page[w] EXCEPT !.loading = FALSE, !.shown = shown]
<1>1. shown \in Shown /\ page[w] \in Page
  BY DEF Requests, Frame, Pages, Page
<1>2. SetPage(w, change)
  BY DEF CardsLoaded
<1> HIDE DEF shown
<1>3. change \in Page
  BY <1>1 DEF Page
<1> HIDE DEF change
<1> QED
  BY <1>2, <1>3, SetPageKeeps, ReturnRequests DEF CardsLoaded

LEMMA WithDefaultIsShown ==
    ASSUME NEW shown \in Shown, NEW c
    PROVE  WithDefault(shown, c) \in Shown
BY DEF WithDefault, Shown

LEMMA CardAddedIsShown ==
    ASSUME Pages, NEW w \in Window, NEW p
    PROVE  CardAdded(w, p) \in Shown
<1> DEFINE added == [page[w].shown EXCEPT ![process[p].card] = "plain"]
<1>1. added \in Shown
  BY DEF Pages, Page, Shown
<1>2. CardAdded(w, p) = IF process[p].isDefault THEN WithDefault(added, process[p].card) ELSE added
  BY DEF CardAdded
<1> HIDE DEF added
<1> QED
  BY <1>1, <1>2, WithDefaultIsShown

\* The list changes, or stays.
LEMMA ShownChanges ==
    ASSUME Pages, NEW w \in Window, NEW ok, NEW shown \in Shown,
           SetPage(w, IF ok THEN [page[w] EXCEPT !.shown = shown] ELSE page[w])
    PROVE  Pages'
<1> DEFINE change == IF ok THEN [page[w] EXCEPT !.shown = shown] ELSE page[w]
<1>1. change \in Page
  BY DEF Pages, Page
<1>2. SetPage(w, change)
  OBVIOUS
<1> HIDE DEF change
<1> QED
  BY <1>1, <1>2, SetPageKeeps

LEMMA CardChangedKeeps ==
    ASSUME Requests, Pages, NEW w \in Window, NEW p \in Process, CardChanged(w, p)
    PROVE  Requests' /\ Pages'
<1> DEFINE ok == process[p].ok
           default == WithDefault(page[w].shown, process[p].card)
           left == [page[w].shown EXCEPT ![process[p].card] = "none"]
           added == CardAdded(w, p)
<1>1. default \in Shown /\ left \in Shown /\ added \in Shown
  <2>1. page[w].shown \in Shown
    BY DEF Pages, Page
  <2> QED
    BY <2>1, WithDefaultIsShown, CardAddedIsShown DEF Shown
<1>2. \/ SetPage(w, IF ok THEN [page[w] EXCEPT !.shown = added] ELSE page[w])
      \/ SetPage(w, IF ok THEN [page[w] EXCEPT !.shown = default] ELSE page[w])
      \/ SetPage(w, IF ok THEN [page[w] EXCEPT !.shown = left] ELSE page[w])
  BY DEF CardChanged, ShownAfter, Changes, Answered
<1> HIDE DEF ok, default, left, added
<1>3. Pages'
  BY <1>1, <1>2, ShownChanges
<1> QED
  BY <1>3, ReturnRequests DEF CardChanged

LEMMA ProfileRefreshedKeeps ==
    ASSUME Requests, Forms, NEW w \in Window, NEW p \in Process, ProfileRefreshed(w, p)
    PROVE  Requests' /\ Forms'
<1> DEFINE user == process[p].user
           change == [form[w] EXCEPT !.user = user, !.draft = user, !.typed = {}]
<1>1. user \in [Column -> Value] /\ form[w] \in Form
  BY DEF Requests, Frame, Forms
<1>2. SetForm(w, change) \/ UNCHANGED form
  BY DEF ProfileRefreshed
<1> HIDE DEF user
<1>3. FormFits(change)
  BY <1>1 DEF FormFits, Form
<1> HIDE DEF change
<1>4. UNCHANGED form => Forms'
  BY DEF Forms
<1> QED
  BY <1>2, <1>3, <1>4, SetFormKeeps, ReturnRequests DEF ProfileRefreshed

LEMMA OpenFormKeeps ==
    ASSUME Forms, NEW w \in Window, OpenForm(w)
    PROVE  Forms'
<1> DEFINE change == [form[w] EXCEPT !.open = TRUE]
<1>1. FormFits(change)
  BY DEF Forms, FormFits, Form
<1>2. SetForm(w, change)
  BY DEF OpenForm
<1> HIDE DEF change
<1> QED
  BY <1>1, <1>2, SetFormKeeps

LEMMA TypeKeeps ==
    ASSUME Forms, NEW w \in Window, NEW c \in Column, NEW v \in Value, Type(w, c, v)
    PROVE  Forms'
<1> DEFINE draft == [form[w].draft EXCEPT ![c] = v]
           typed == form[w].typed \cup {c}
           change == [form[w] EXCEPT !.draft = draft, !.typed = typed]
<1>1. /\ form[w] \in Form /\ draft \in [Column -> Value] /\ typed \in SUBSET Column
      /\ \A d \in Column : draft[d] # form[w].user[d] => d \in typed
  BY DEF Forms, FormFits, Form
<1>2. SetForm(w, change)
  BY DEF Type
<1> HIDE DEF draft, typed
<1>3. /\ change \in Form /\ change.draft = draft /\ change.typed = typed
      /\ change.user = form[w].user
  BY <1>1 DEF Form
<1> HIDE DEF change
<1> QED
  BY <1>1, <1>2, <1>3, SetFormKeeps DEF FormFits

LEMMA ResetFormKeeps ==
    ASSUME Forms, NEW w \in Window, ResetForm(w)
    PROVE  Forms'
<1> DEFINE change == [form[w] EXCEPT !.draft = form[w].user, !.typed = {}]
<1>1. FormFits(change)
  BY DEF Forms, FormFits, Form
<1>2. SetForm(w, change)
  BY DEF ResetForm
<1> HIDE DEF change
<1> QED
  BY <1>1, <1>2, SetFormKeeps

LEMMA ClosedFormFits ==
    ASSUME Forms, NEW w \in Window
    PROVE  FormFits(ClosedForm(w))
BY DEF Forms, FormFits, Form, ClosedForm

LEMMA CloseFormKeeps ==
    ASSUME Forms, NEW w \in Window, CloseForm(w)
    PROVE  Forms'
BY ClosedFormFits, SetFormKeeps DEF CloseForm

LEMMA HandleSaveProfileKeeps ==
    ASSUME Requests, Forms, NEW w \in Window, NEW p \in Process, HandleSaveProfile(w, p)
    PROVE  Requests'
<1> DEFINE body == Changed(w)
           typed == form[w].typed
<1>1. /\ body \in [Column -> Value \cup {"unsaid"}] /\ typed \in SUBSET Column
      /\ \A c \in Column : body[c] # "unsaid" => c \in typed
  BY DEF Forms, FormFits, Form, Changed
<1>2. UpdateCurrentUser(p, w, body, typed) /\ Asks(w)
  BY DEF HandleSaveProfile, Asks
<1> HIDE DEF body, typed
<1> QED
  BY <1>1, <1>2, UpdateCurrentUserKeeps

LEMMA ProfileSavedKeeps ==
    ASSUME Requests, Forms, profile \in [Column -> Value], NEW w \in Window, NEW p \in Process,
           ProfileSaved(w, p)
    PROVE  Requests' /\ Forms'
<1>1. Requests'
  BY GetCurrentUserFits, ReturnRequests DEF ProfileSaved, Asks
<1>2. UNCHANGED form => Forms'
  BY DEF Forms
<1>3. Forms'
  BY <1>2, ClosedFormFits, SetFormKeeps DEF ProfileSaved
<1> QED
  BY <1>1, <1>3

LEMMA LeaveKeeps ==
    ASSUME Requests, Pages, Forms, NEW w \in Window, Leave(w)
    PROVE  Requests' /\ Pages' /\ Forms'
<1>1. Pages' /\ Forms'
  BY ClosedIsPage, ClosedFormFits, SetPageKeeps, SetFormKeeps DEF Leave
<1>2. ASSUME NEW f, Fitting(f)
      PROVE  Fitting([f EXCEPT !.kind = "left"]) /\ Fitting([f EXCEPT !.client = Nobody])
  <2>1. [f EXCEPT !.kind = "left"] \in Frame /\ [f EXCEPT !.client = Nobody] \in Frame
    BY <1>2 DEF Fitting, Frame, Kind
  <2>2. Fits([f EXCEPT !.kind = "left"]) /\ Fits([f EXCEPT !.client = Nobody])
    BY <1>2 DEF Fitting, Fits, Frame
  <2> QED
    BY <2>1, <2>2 DEF Fitting
<1>3. \A p \in Process : Fitting(process[p])
  BY DEF Requests, Fitting
<1>4. /\ process' = [p \in Process |-> process'[p]]
      /\ \A p \in Process : \/ process'[p] = process[p]
                            \/ process'[p] = [process[p] EXCEPT !.kind = "left"]
                            \/ process'[p] = [process[p] EXCEPT !.client = Nobody]
  BY DEF Leave
<1>5. \A p \in Process : Fitting(process'[p])
  BY <1>2, <1>3, <1>4
<1> QED
  BY <1>1, <1>4, <1>5 DEF Requests, Fitting

-----------------------------------------------------------------------------
(* The steps of the system.                                                *)

Tables == /\ verification \in Verification
          /\ deals \in Deals
          /\ score \in Score
          /\ profile \in [Column -> Value]
          /\ ScoreAddsUp

History == workload \subseteq Happening /\ calm \in BOOLEAN /\ missed \subseteq Window

LEMMA ItHasParts == IInv => Requests /\ Rows /\ Tables /\ Pages /\ Forms /\ History
BY DEF IInv, TypeOK, TableTypeOK, PageTypeOK, Requests, Rows, Tables, Pages, Forms, FormFits,
       History

LEMMA PartsMakeIt ==
    ASSUME Requests', Rows', Tables', Pages', Forms', History'
    PROVE  IInv'
BY DEF IInv, TypeOK, TableTypeOK, PageTypeOK, Requests, Rows, Tables, Pages, Forms, FormFits,
       History

LEMMA TablesStay ==
    ASSUME Rows, Tables, UNCHANGED <<cards, verification, deals, score, profile>>
    PROVE  Rows' /\ Tables'
BY DEF Rows, Tables, ScoreAddsUp

LEMMA PageStays ==
    ASSUME Pages, Forms, UNCHANGED pageVars
    PROVE  Pages' /\ Forms'
BY DEF pageVars, Pages, Forms, FormFits

LEMMA StartHistory ==
    ASSUME History, CalmStart, workload' \subseteq Happening, UNCHANGED missed
    PROVE  History'
BY DEF History, CalmStart

LEMMA OnceKeeps ==
    ASSUME History, NEW happening, Once(happening)
    PROVE  workload' \subseteq Happening
BY DEF History, Once

LEMMA ContinueKeeps ==
    ASSUME Requests, Rows, Tables, NEW p \in Process, Continue(p)
    PROVE  Requests' /\ Rows' /\ Tables'
<1>1. CASE ContinueCards(p)
  <2>1. Requests' /\ Rows' /\ UNCHANGED otherTables
    BY <1>1, ContinueCardsKeeps
  <2> QED
    BY <2>1 DEF otherTables, Tables, ScoreAddsUp
<1>2. CASE ContinueVerification(p)
  <2>1. Requests' /\ verification' \in Verification /\ UNCHANGED tablesButVerification
    BY <1>2, ContinueVerificationKeeps DEF Tables
  <2> QED
    BY <2>1 DEF tablesButVerification, Tables, Rows, ScoreAddsUp
<1>3. CASE ContinueScore(p)
  <2>1. /\ Requests' /\ score' \in Score /\ ScoreAddsUp'
        /\ UNCHANGED <<cards, verification, deals, profile>>
    BY <1>3, ContinueScoreKeeps DEF Tables
  <2> QED
    BY <2>1 DEF Tables, Rows
<1>4. CASE WriteUser(p)
  <2>1. /\ Requests' /\ profile' \in [Column -> Value]
        /\ UNCHANGED <<cards, verification, deals, score>>
    BY <1>4, WriteUserKeeps DEF Tables
  <2> QED
    BY <2>1 DEF Tables, Rows, ScoreAddsUp
<1> QED
  BY <1>1, <1>2, <1>3, <1>4 DEF Continue

LEMMA ContinueStepKeeps ==
    ASSUME IInv, NEW p \in Process, ContinueStep(p)
    PROVE  IInv'
<1>1. Requests' /\ Rows' /\ Tables'
  BY ItHasParts, ContinueKeeps DEF ContinueStep
<1>2. Pages' /\ Forms'
  BY ItHasParts, PageStays DEF ContinueStep
<1>3. History'
  BY ItHasParts DEF ContinueStep, History
<1> QED
  BY <1>1, <1>2, <1>3, PartsMakeIt

\* A request starts, goes on or ends; tables and windows stay.
LEMMA RequestsOnly ==
    ASSUME IInv, Requests', UNCHANGED <<tableVars, pageVars>>, History'
    PROVE  IInv'
<1>1. Rows' /\ Tables'
  BY ItHasParts, TablesStay DEF tableVars
<1>2. Pages' /\ Forms'
  BY ItHasParts, PageStays
<1> QED
  BY <1>1, <1>2, PartsMakeIt

LEMMA AnswerDroppedKeeps ==
    ASSUME IInv, NEW p \in Process, AnswerDropped(p)
    PROVE  IInv'
<1>1. Requests' /\ UNCHANGED <<tableVars, pageVars>>
  BY ItHasParts, ReturnRequests DEF AnswerDropped
<1>2. History'
  BY ItHasParts DEF AnswerDropped, History
<1> QED
  BY <1>1, <1>2, RequestsOnly

LEMMA FailStepKeeps ==
    ASSUME IInv, NEW p \in Process, FailStep(p)
    PROVE  IInv'
<1>1. Requests' /\ UNCHANGED <<tableVars, pageVars>>
  BY ItHasParts, AnswerRequests DEF FailStep
<1>2. History'
  BY ItHasParts, OnceKeeps DEF FailStep, History
<1> QED
  BY <1>1, <1>2, RequestsOnly

LEMMA OtherStepKeeps ==
    ASSUME IInv, NEW p \in Process, OtherStep(p)
    PROVE  IInv'
<1>1. CASE Once("api") /\ \E c \in Card : AddCard(p, Nobody, c, "unsaid")
  <2>1. Requests' /\ UNCHANGED tableVars
    BY <1>1, ItHasParts, AddCardKeeps DEF Asks, AddCard
  <2>2. History'
    BY <1>1, ItHasParts, OnceKeeps, StartHistory DEF OtherStep
  <2> QED
    BY <2>1, <2>2, RequestsOnly DEF OtherStep
<1>2. CASE /\ Once("api")
           /\ \E c \in Column, v \in Value :
                 UpdateCurrentUser(p, Nobody, [EmptyBody EXCEPT ![c] = v], {c})
  <2>1. PICK c \in Column, v \in Value :
              UpdateCurrentUser(p, Nobody, [EmptyBody EXCEPT ![c] = v], {c})
    BY <1>2
  <2> DEFINE body == [EmptyBody EXCEPT ![c] = v]
  <2>2. /\ body \in [Column -> Value \cup {"unsaid"}] /\ {c} \in SUBSET Column
        /\ \A d \in Column : body[d] # "unsaid" => d \in {c}
    BY DEF EmptyBody
  <2>3. UpdateCurrentUser(p, Nobody, body, {c})
    BY <2>1
  <2> HIDE DEF body
  <2>4. Requests' /\ UNCHANGED tableVars
    BY <2>2, <2>3, ItHasParts, UpdateCurrentUserKeeps DEF Asks, UpdateCurrentUser
  <2>5. History'
    BY <1>2, ItHasParts, OnceKeeps, StartHistory DEF OtherStep
  <2> QED
    BY <2>4, <2>5, RequestsOnly DEF OtherStep
<1>3. CASE UNCHANGED workload /\ (Initiate(p) \/ \E isError \in BOOLEAN : Callback(p, isError))
  <2>1. Requests' /\ UNCHANGED tableVars
    BY <1>3, ItHasParts, InitiateKeeps, CallbackKeeps DEF Initiate, Callback
  <2>2. workload' \subseteq Happening
    BY <1>3, ItHasParts DEF History
  <2>3. History'
    BY <2>2, ItHasParts, StartHistory DEF OtherStep
  <2> QED
    BY <2>1, <2>3, RequestsOnly DEF OtherStep
<1> QED
  BY <1>1, <1>2, <1>3 DEF OtherStep

LEMMA EscalateStepKeeps ==
    ASSUME IInv, NEW p \in Process, EscalateStep(p)
    PROVE  IInv'
<1>1. Requests' /\ UNCHANGED tableVars
  BY ItHasParts, PlainRequest DEF EscalateStep, Escalate, Asks, Kind, Label
<1>2. History'
  BY ItHasParts, OnceKeeps, StartHistory DEF EscalateStep
<1> QED
  BY <1>1, <1>2, RequestsOnly DEF EscalateStep

LEMMA JobStepKeeps ==
    ASSUME IInv, NEW p \in Process, JobStep(p)
    PROVE  IInv'
<1>1. Requests' /\ UNCHANGED tableVars
  BY ItHasParts, PlainRequest DEF JobStep, Recalculate, Asks, Kind, Label
<1>2. History'
  <2>1. workload' \subseteq Happening
    BY ItHasParts DEF JobStep, History
  <2> QED
    BY <2>1, ItHasParts, StartHistory DEF JobStep
<1> QED
  BY <1>1, <1>2, RequestsOnly DEF JobStep

LEMMA RequestsStay ==
    ASSUME Requests, UNCHANGED process
    PROVE  Requests'
BY DEF Requests

\* The bookings of a user stay within the bound, and the late ones among the completed.
LEMMA DealsChange ==
    ASSUME deals \in Deals,
           \/ SettleLate
           \/ \E isLate \in BOOLEAN : CompleteDeal(isLate) \/ DeleteDeal(isLate)
    PROVE  deals' \in Deals /\ UNCHANGED <<cards, verification, score, profile, process>>
<1>1. /\ deals.completed \in 0..MaxDeals /\ deals.late \in 0..MaxDeals
      /\ deals.late <= deals.completed /\ MaxDeals \in Nat
      /\ deals = [completed |-> deals.completed, late |-> deals.late]
  BY AccountAssumption DEF Deals
<1>2. \A m, n \in 0..MaxDeals : n <= m => [completed |-> m, late |-> n] \in Deals
  BY DEF Deals
<1>3. CASE SettleLate
  <2>1. deals' = [completed |-> deals.completed, late |-> deals.late + 1]
    BY <1>1, <1>3 DEF SettleLate
  <2>2. deals.late + 1 \in 0..MaxDeals /\ deals.late + 1 <= deals.completed
    BY <1>1, <1>3 DEF SettleLate
  <2> QED
    BY <1>1, <1>2, <1>3, <2>1, <2>2 DEF SettleLate
<1>4. ASSUME NEW isLate \in BOOLEAN, CompleteDeal(isLate) PROVE deals' \in Deals
  <2> DEFINE late == IF isLate THEN deals.late + 1 ELSE deals.late
  <2>1. deals' = [completed |-> deals.completed + 1, late |-> late]
    BY <1>4 DEF CompleteDeal
  <2>2. /\ deals.completed + 1 \in 0..MaxDeals
        /\ late \in 0..MaxDeals /\ late <= deals.completed + 1
    BY <1>1, <1>4 DEF CompleteDeal
  <2> HIDE DEF late
  <2> QED
    BY <1>2, <2>1, <2>2
<1>5. ASSUME NEW isLate \in BOOLEAN, DeleteDeal(isLate) PROVE deals' \in Deals
  <2> DEFINE late == IF isLate THEN deals.late - 1 ELSE deals.late
  <2>1. deals' = [completed |-> deals.completed - 1, late |-> late]
    BY <1>5 DEF DeleteDeal
  <2>2. /\ deals.completed - 1 \in 0..MaxDeals
        /\ late \in 0..MaxDeals /\ late <= deals.completed - 1
    BY <1>1, <1>5 DEF DeleteDeal
  <2> HIDE DEF late
  <2> QED
    BY <1>2, <2>1, <2>2
<1> QED
  BY <1>3, <1>4, <1>5 DEF SettleLate, CompleteDeal, DeleteDeal

LEMMA DealStepKeeps ==
    ASSUME IInv, DealStep
    PROVE  IInv'
<1>1. deals' \in Deals /\ UNCHANGED <<cards, verification, score, profile, process>>
  BY ItHasParts, DealsChange DEF DealStep, Tables
<1>2. Requests'
  BY <1>1, ItHasParts, RequestsStay
<1>3. Rows' /\ Tables'
  BY <1>1, ItHasParts DEF Rows, Tables, ScoreAddsUp
<1>4. Pages' /\ Forms'
  BY ItHasParts, PageStays DEF DealStep
<1>5. History'
  BY ItHasParts, OnceKeeps DEF DealStep, History
<1> QED
  BY <1>2, <1>3, <1>4, <1>5, PartsMakeIt

LEMMA TimeStepKeeps ==
    ASSUME IInv, TimeStep
    PROVE  IInv'
<1>1. /\ verification' \in Verification
      /\ UNCHANGED <<cards, deals, score, profile, process>>
  BY ItHasParts DEF TimeStep, ExpireAttempt, tablesButVerification, Verification, Tables
<1>2. Requests'
  BY <1>1, ItHasParts, RequestsStay
<1>3. Rows' /\ Tables'
  BY <1>1, ItHasParts DEF Rows, Tables, ScoreAddsUp
<1>4. Pages' /\ Forms'
  BY ItHasParts, PageStays DEF TimeStep
<1>5. History'
  BY ItHasParts DEF TimeStep, History
<1> QED
  BY <1>2, <1>3, <1>4, <1>5, PartsMakeIt

LEMMA FormStays == ASSUME Forms, UNCHANGED form PROVE Forms'
BY DEF Forms, FormFits

LEMMA OnlyPageStays == ASSUME Pages, UNCHANGED page PROVE Pages'
BY DEF Pages

\* What a window does: the tables stay.
LEMMA WindowOnly ==
    ASSUME IInv, Requests', UNCHANGED tableVars, Pages', Forms', History'
    PROVE  IInv'
<1>1. Rows' /\ Tables'
  BY ItHasParts, TablesStay DEF tableVars
<1> QED
  BY <1>1, PartsMakeIt

LEMMA RequestStepKeeps ==
    ASSUME IInv, NEW w \in Window, NEW p \in Process, RequestStep(w, p)
    PROVE  IInv'
<1>1. History'
  <2>1. workload' \subseteq Happening
    BY ItHasParts DEF RequestStep, History
  <2> QED
    BY <2>1, ItHasParts, StartHistory DEF RequestStep
<1>2. Pages /\ Forms /\ Requests /\ Rows /\ Asks(w)
  BY ItHasParts DEF Asks
<1>3. CASE LoadCards(w, p)
  <2>1. Requests' /\ Pages' /\ UNCHANGED tableVars /\ UNCHANGED form
    BY <1>2, <1>3, LoadCardsKeeps DEF LoadCards, ListMethods
  <2> QED
    BY <1>1, <1>2, <2>1, FormStays, WindowOnly
<1>4. ASSUME NEW c \in Card, NEW flag \in {"yes", "no"}, HandleAttachCard(w, p, c, flag)
      PROVE  IInv'
  <2>1. Requests' /\ UNCHANGED tableVars
    BY <1>2, <1>4, AddCardKeeps DEF HandleAttachCard, AddCard
  <2> QED
    BY <1>1, <1>4, <2>1, RequestsOnly DEF HandleAttachCard
<1>5. ASSUME NEW c \in Card, HandleSetDefaultCard(w, p, c)
      PROVE  IInv'
  <2>1. Requests' /\ UNCHANGED tableVars
    BY <1>2, <1>5, SetDefaultKeeps DEF HandleSetDefaultCard, SetDefault
  <2> QED
    BY <1>1, <1>5, <2>1, RequestsOnly DEF HandleSetDefaultCard
<1>6. ASSUME NEW c \in Card, HandleRemoveCard(w, p, c)
      PROVE  IInv'
  <2>1. Requests' /\ UNCHANGED tableVars
    BY <1>2, <1>6, RemoveCardKeeps DEF HandleRemoveCard, RemoveCard
  <2> QED
    BY <1>1, <1>6, <2>1, RequestsOnly DEF HandleRemoveCard
<1>7. CASE RefreshProfile(w, p)
  <2>1. Begin(p, [Request("user", w, "read_score") EXCEPT !.user = profile]) /\ UNCHANGED tableVars
    BY <1>7 DEF RefreshProfile, GetCurrentUser
  <2>2. Requests'
    BY <1>2, <2>1, ItHasParts, GetCurrentUserFits DEF Tables
  <2> QED
    BY <1>1, <1>7, <2>1, <2>2, RequestsOnly DEF RefreshProfile
<1>8. CASE HandleSaveProfile(w, p)
  <2>1. Requests' /\ UNCHANGED tableVars
    BY <1>2, <1>8, HandleSaveProfileKeeps DEF HandleSaveProfile, UpdateCurrentUser
  <2> QED
    BY <1>1, <1>8, <2>1, RequestsOnly DEF HandleSaveProfile
<1> QED
  BY <1>3, <1>4, <1>5, <1>6, <1>7, <1>8 DEF RequestStep

LEMMA AnswerStepKeeps ==
    ASSUME IInv, NEW w \in Window, NEW p \in Process, AnswerStep(w, p)
    PROVE  IInv'
<1>1. History'
  BY ItHasParts DEF AnswerStep, History
<1>2. Pages /\ Forms /\ Requests /\ profile \in [Column -> Value]
  BY ItHasParts DEF Tables
<1>3. CASE CardsLoaded(w, p)
  BY <1>1, <1>2, <1>3, CardsLoadedKeeps, FormStays, WindowOnly DEF CardsLoaded
<1>4. CASE CardChanged(w, p)
  BY <1>1, <1>2, <1>4, CardChangedKeeps, FormStays, WindowOnly DEF CardChanged
<1>5. CASE ProfileRefreshed(w, p)
  BY <1>1, <1>2, <1>5, ProfileRefreshedKeeps, OnlyPageStays, WindowOnly DEF ProfileRefreshed
<1>6. CASE ProfileSaved(w, p)
  BY <1>1, <1>2, <1>6, ProfileSavedKeeps, OnlyPageStays, WindowOnly DEF ProfileSaved
<1> QED
  BY <1>3, <1>4, <1>5, <1>6 DEF AnswerStep

LEMMA FormStepKeeps ==
    ASSUME IInv, NEW w \in Window, FormStep(w)
    PROVE  IInv'
<1>1. History'
  BY ItHasParts DEF FormStep, History
<1>2. Pages /\ Forms /\ Requests
  BY ItHasParts
<1>3. CASE Mount(w)
  <2>1. Requests' /\ Pages' /\ Forms' /\ UNCHANGED tableVars
    BY <1>2, <1>3, MountKeeps, FormStays, RequestsStay DEF Mount
  <2> QED
    BY <1>1, <2>1, WindowOnly
<1>4. ASSUME Forms', UNCHANGED <<tableVars, process, page>>
      PROVE  IInv'
  <2>1. Requests' /\ Pages'
    BY <1>2, <1>4, OnlyPageStays, RequestsStay
  <2> QED
    BY <1>1, <1>4, <2>1, WindowOnly
<1>5. CASE OpenForm(w)
  BY <1>2, <1>4, <1>5, OpenFormKeeps DEF OpenForm
<1>6. CASE ResetForm(w)
  BY <1>2, <1>4, <1>6, ResetFormKeeps DEF ResetForm
<1>7. CASE CloseForm(w)
  BY <1>2, <1>4, <1>7, CloseFormKeeps DEF CloseForm
<1>8. ASSUME NEW c \in Column, NEW v \in Value, Type(w, c, v) PROVE IInv'
  BY <1>2, <1>4, <1>8, TypeKeeps DEF Type
<1> QED
  BY <1>3, <1>5, <1>6, <1>7, <1>8 DEF FormStep

LEMMA LeaveStepKeeps ==
    ASSUME IInv, NEW w \in Window, LeaveStep(w)
    PROVE  IInv'
<1>1. History'
  BY ItHasParts, OnceKeeps DEF LeaveStep, History
<1>2. Requests' /\ Pages' /\ Forms'
  BY ItHasParts, LeaveKeeps DEF LeaveStep
<1> QED
  BY <1>1, <1>2, WindowOnly DEF LeaveStep, Leave

LEMMA IInvInit == Init => IInv
<1> SUFFICES ASSUME Init PROVE IInv
  OBVIOUS
<1>1. Rows
  BY DEF Init, Rows, NoRow, CardRow
<1>2. score \in Score /\ ScoreAddsUp
  BY DEF Init, NoScore, Score, ScoreAddsUp
<1>3. /\ deals \in Deals /\ verification \in Verification
  BY AccountAssumption DEF Init, Deals, Verification
<1>4. profile \in [Column -> Value]
  BY SomeValue DEF Init
<1>5. Requests
  <2>1. Fits(Idle)
    BY IdleFrame DEF Fits
  <2> QED
    BY <2>1, IdleFrame DEF Init, Requests
<1>6. Pages
  BY ClosedIsPage DEF Init, PageInit, Pages
<1>7. Forms
  BY <1>4 DEF Init, PageInit, Forms, FormFits, Form
<1>8. workload \subseteq Happening /\ calm \in BOOLEAN /\ missed \subseteq Window
  BY WorkloadAssumption DEF Init
<1> QED
  BY <1>1, <1>2, <1>3, <1>4, <1>5, <1>6, <1>7, <1>8
     DEF IInv, TypeOK, TableTypeOK, PageTypeOK, Requests, Rows, Pages, Forms, FormFits

LEMMA IInvStuttering == ASSUME IInv, UNCHANGED vars PROVE IInv'
<1>1. Requests' /\ UNCHANGED <<tableVars, pageVars>>
  BY ItHasParts, RequestsStay DEF vars
<1>2. History'
  BY ItHasParts DEF vars, History
<1> QED
  BY <1>1, <1>2, RequestsOnly

LEMMA IInvNext == IInv /\ [Next]_vars => IInv'
<1> SUFFICES ASSUME IInv, [Next]_vars PROVE IInv'
  OBVIOUS
<1>1. CASE DealStep
  BY <1>1, DealStepKeeps
<1>2. CASE TimeStep
  BY <1>2, TimeStepKeeps
<1>3. ASSUME NEW p \in Process,
             \/ ContinueStep(p) \/ AnswerDropped(p) \/ FailStep(p)
             \/ OtherStep(p) \/ EscalateStep(p) \/ JobStep(p)
      PROVE  IInv'
  BY <1>3, ContinueStepKeeps, AnswerDroppedKeeps, FailStepKeeps, OtherStepKeeps,
     EscalateStepKeeps, JobStepKeeps
<1>4. ASSUME NEW w \in Window, FormStep(w) \/ LeaveStep(w) PROVE IInv'
  BY <1>4, FormStepKeeps, LeaveStepKeeps
<1>5. ASSUME NEW w \in Window, NEW p \in Process, RequestStep(w, p) \/ AnswerStep(w, p)
      PROVE  IInv'
  BY <1>5, RequestStepKeeps, AnswerStepKeeps
<1>6. CASE UNCHANGED vars
  BY <1>6, IInvStuttering
<1> QED
  BY <1>1, <1>2, <1>3, <1>4, <1>5, <1>6 DEF Next

\* The invariant that carries the theorems below.
THEOREM AccountInvariant == Spec => []IInv
BY IInvInit, IInvNext, PTL DEF Spec

\* Cards, verification, score, profile, the requests on them and what the windows show of
\* them have their types, however requests of the windows, the provider, the job and the
\* bookings run into one another.
THEOREM AccountTypeCorrect == Spec => []TypeOK
<1>1. IInv => TypeOK
  BY DEF IInv
<1> QED
  BY <1>1, AccountInvariant, PTL

\* In the row of TrustScore the successful and the late deals are together all deals, and
\* the score is between 0 and 100, although a recalculation counts the completed bookings
\* and lists the late ones by two queries, in any order, between which bookings change.
THEOREM ScoreAlwaysAddsUp == Spec => []ScoreAddsUp
<1>1. IInv => ScoreAddsUp
  BY DEF IInv
<1> QED
  BY <1>1, AccountInvariant, PTL

-----------------------------------------------------------------------------
(* Saves.                                                                  *)

\* Only the statement of a save changes the columns of the profile.
LEMMA OthersKeepProfile == Next => UNCHANGED profile \/ \E p \in Process : WriteUser(p)
<1> SUFFICES ASSUME Next, \A p \in Process : ~WriteUser(p) PROVE UNCHANGED profile
  OBVIOUS
<1> USE DEF tableVars, otherTables, tablesButVerification
<1>1. ASSUME NEW p \in Process, ContinueCards(p) PROVE UNCHANGED profile
  BY <1>1 DEF ContinueCards, FindMethods, FindExisting, CountExisting, BeginChange, CreateCard,
              ReattachCard, MakeDefault, FindNext, RevokeCard
<1>2. ASSUME NEW p \in Process, ContinueVerification(p) PROVE UNCHANGED profile
  BY <1>2 DEF ContinueVerification, WritePending, WriteOutcome, WriteEscalation
<1>3. ASSUME NEW p \in Process, ContinueScore(p) PROVE UNCHANGED profile
  BY <1>3 DEF ContinueScore, ReadScore, ReadVerification, CountDeals, ListDeals, WriteScore
<1>4. ASSUME NEW p \in Process, ContinueStep(p) PROVE UNCHANGED profile
  BY <1>1, <1>2, <1>3, <1>4 DEF ContinueStep, Continue
<1>5. ASSUME NEW p \in Process,
             AnswerDropped(p) \/ FailStep(p) \/ OtherStep(p) \/ EscalateStep(p) \/ JobStep(p)
      PROVE  UNCHANGED profile
  BY <1>5 DEF AnswerDropped, FailStep, OtherStep, EscalateStep, JobStep, AddCard,
              UpdateCurrentUser, Initiate, Callback, Escalate, Recalculate
<1>6. ASSUME DealStep \/ TimeStep PROVE UNCHANGED profile
  BY <1>6 DEF DealStep, TimeStep, SettleLate, CompleteDeal, DeleteDeal, ExpireAttempt
<1>7. ASSUME NEW w \in Window, FormStep(w) \/ LeaveStep(w) PROVE UNCHANGED profile
  BY <1>7 DEF FormStep, LeaveStep, Mount, OpenForm, ResetForm, CloseForm, Type, Leave
<1>8. ASSUME NEW w \in Window, NEW p \in Process, RequestStep(w, p) PROVE UNCHANGED profile
  BY <1>8 DEF RequestStep, LoadCards, HandleAttachCard, HandleSetDefaultCard, HandleRemoveCard,
              RefreshProfile, HandleSaveProfile, ListMethods, AddCard, SetDefault, RemoveCard,
              GetCurrentUser, UpdateCurrentUser
<1>9. ASSUME NEW w \in Window, NEW p \in Process, AnswerStep(w, p) PROVE UNCHANGED profile
  BY <1>9 DEF AnswerStep, CardsLoaded, CardChanged, ProfileRefreshed, ProfileSaved
<1> QED
  BY <1>4, <1>5, <1>6, <1>7, <1>8, <1>9 DEF Next

\* A statement of a save changes only columns that the user typed in, in the form the save
\* came from: a save that was on its way while another window saved, or a form that was open
\* while the profile was loaded again, writes no column back to what it was before.
THEOREM SavesStayTyped == Spec => SavesWhatWasTyped
<1> DEFINE Step == \A c \in Column : profile'[c] # profile[c] =>
                      \E p \in Process : At(p, "save_write") /\ c \in process[p].typed
<1>1. ASSUME IInv, Next PROVE Step
  <2>1. ASSUME NEW p \in Process, WriteUser(p)
        PROVE  Step
    <3>1. \A c \in Column : profile'[c] # profile[c] => c \in process[p].typed
      BY <1>1, <2>1, ItHasParts, WriteUserKeeps DEF Tables
    <3>2. At(p, "save_write")
      BY <2>1 DEF WriteUser
    <3> QED
      BY <3>1, <3>2
  <2>2. CASE UNCHANGED profile
    BY <2>2
  <2> QED
    BY <1>1, <2>1, <2>2, OthersKeepProfile
<1>2. IInv /\ [Next]_vars => [Step]_vars
  BY <1>1
<1> QED
  BY <1>2, AccountInvariant, PTL DEF Spec, SavesWhatWasTyped

-----------------------------------------------------------------------------
(* Cards, as long as it is calm: the steps of a lone request.              *)

\* The others do nothing.
Lonely(p) == \A q \in Process \ {p} : At(q, "idle")

\* The steps of a request leave the others alone, and the calm as it is.
StepOf(p) == /\ \A q \in Process \ {p} : process'[q] = process[q]
             /\ calm' => calm

CardKind == {"list", "attach", "default", "remove"}
CardLabel == Work["list"] \cup Work["attach"] \cup Work["default"] \cup Work["remove"]

LEMMA WorkOfKinds ==
    /\ DOMAIN Work = CardKind
    /\ Work["list"] = {"list"}
    /\ Work["attach"] = {"attach_find", "attach_count", "attach_begin", "attach_commit",
                         "reattach_begin", "reattach_commit"}
    /\ Work["default"] = {"default_begin", "default_commit"}
    /\ Work["remove"] = {"remove_begin", "remove_commit"}
BY DEF Work, CardKind

\* Requests that are not for cards.
LEMMA ElsewhereStage ==
    ASSUME NEW f, f.kind \notin CardKind, f.at \notin CardLabel
    PROVE  Stage(f)
BY WorkOfKinds DEF Stage, CardLabel, CardKind, Changes

LEMMA IdleIsElsewhere == Idle.kind \notin CardKind /\ Idle.at \notin CardLabel
BY WorkOfKinds DEF Idle, CardKind, CardLabel

LEMMA StageElsewhere ==
    ASSUME NEW f, Stage(f), f.at \notin CardLabel, f.at # "answer"
    PROVE  f.kind \notin CardKind
BY WorkOfKinds DEF Stage, CardLabel, CardKind

LEMMA IdleStays ==
    ASSUME CalmInv, calm, NEW q \in Process, At(q, "idle"), process'[q] = process[q]
    PROVE  Stage(process[q])' /\ At(q, "idle")'
<1>1. process[q].kind \notin CardKind /\ process[q].at \notin CardLabel
  BY StageElsewhere, WorkOfKinds DEF CalmInv, At, CardLabel
<1>2. At(q, "idle")'
  BY DEF At
<1>3. Stage(process[q])'
  BY <1>1, <1>2, WorkOfKinds DEF Stage, CardLabel, CardKind, Changes, At
<1> QED
  BY <1>2, <1>3

\* The parts of the invariant that speak of requests.
LEMMA RequestsStayCalm ==
    ASSUME CalmInv, calm, NEW p \in Process, Lonely(p), StepOf(p), Stage(process[p])'
    PROVE  Alone' /\ \A q \in Process : Stage(process[q])'
<1>1. \A q \in Process \ {p} : At(q, "idle")' /\ Stage(process[q])'
  BY IdleStays DEF Lonely, StepOf
<1> QED
  BY <1>1 DEF Alone

LEMMA WhoActsIsLonely ==
    ASSUME CalmInv, calm, NEW p \in Process, ~At(p, "idle")
    PROVE  Lonely(p)
BY DEF CalmInv, Alone, Lonely

LEMMA OnlyTheLonelyIsPending ==
    ASSUME NEW p \in Process, Lonely(p), NEW w \in Window, NEW q \in Process, Pending(w, q)
    PROVE  q = p
BY DEF Lonely, Pending, Answered, At

\* The answer to a change that was made is on its way.
Ended(f) == f.at = "answer" /\ f.ok /\ f.kind \in Changes

LEMMA PendingIsEnded ==
    \A w \in Window, q \in Process : Pending(w, q) <=> Of(w, q) /\ Ended(process[q])
BY DEF Pending, Ended, Answered, At

LEMMA NothingPending ==
    ASSUME NEW p \in Process, Lonely(p), ~Ended(process[p]), NEW w \in Window, NEW q \in Process
    PROVE  ~Pending(w, q)
BY OnlyTheLonelyIsPending, PendingIsEnded

LEMMA SameCards ==
    ASSUME UNCHANGED cards
    PROVE  /\ Attached' = Attached /\ Defaults' = Defaults
           /\ OneDefault' <=> OneDefault
BY DEF Attached, Defaults, OneDefault

\* A window that nobody's answer is coming to.
LEMMA UnansweredWindow ==
    ASSUME NEW w \in Window, \A q \in Process : ~Pending(w, q), Tells(page[w].shown)
    PROVE  UpToDate(w)
BY DEF UpToDate

\* The request goes on, the cards stay, and no change is answered.
LEMMA GoesOnCalmly ==
    ASSUME CalmInv, calm, NEW p \in Process, Lonely(p), StepOf(p), Stage(process[p])',
           ~Ended(process[p]), ~Ended(process[p])', UNCHANGED <<cards, missed>>,
           \A w \in Window : page'[w].open /\ ~page'[w].loading => page'[w] = page[w]
    PROVE  CalmInv'
<1>1. Alone' /\ \A q \in Process : Stage(process[q])'
  BY RequestsStayCalm
<1>2. OneDefault'
  BY SameCards DEF CalmInv
<1>3. Lonely(p)'
  BY DEF Lonely, StepOf, At
<1>4. ASSUME NEW w \in Window, page'[w].open, ~page'[w].loading, w \notin missed'
      PROVE  UpToDate(w)'
  <2>1. page'[w] = page[w] /\ w \notin missed
    BY <1>4
  <2>2. Tells(page[w].shown)
    BY <1>4, <2>1, NothingPending DEF CalmInv, UpToDate
  <2>3. Tells(page[w].shown)'
    BY <2>1, <2>2, SameCards DEF Tells
  <2>4. \A q \in Process : ~Pending(w, q)'
    BY <1>3 DEF Lonely, Pending, Answered, At, Ended
  <2> QED
    BY <2>3, <2>4 DEF UpToDate
<1> QED
  BY <1>1, <1>2, <1>4 DEF CalmInv

\* The request changes the cards.  The other windows that show them do not learn of it.
LEMMA ChangesCalmly ==
    ASSUME CalmInv, calm, NEW p \in Process, Lonely(p), StepOf(p), Stage(process[p])',
           ~Ended(process[p]), UNCHANGED page, process'[p].client = process[p].client,
           Ended(process[p])',
           missed' = IF cards' = cards THEN missed ELSE missed \cup (Window \ {process[p].client}),
           OneDefault',
           \A w \in Window : Of(w, p) /\ Tells(page[w].shown) => Tells(ShownAfter(w, p))'
    PROVE  CalmInv'
<1>1. Alone' /\ \A q \in Process : Stage(process[q])'
  BY RequestsStayCalm
<1>3. Lonely(p)'
  BY DEF Lonely, StepOf, At
<1>4. ASSUME NEW w \in Window, page'[w].open, ~page'[w].loading, w \notin missed'
      PROVE  UpToDate(w)'
  <2>1. page'[w] = page[w] /\ w \notin missed
    BY <1>4
  <2>2. Tells(page[w].shown)
    BY <1>4, <2>1, NothingPending DEF CalmInv, UpToDate
  <2>3. \A q \in Process \ {p} : ~Pending(w, q)'
    BY <1>3 DEF Lonely, Pending, Answered, At, Ended
  <2>4. CASE Of(w, p)
    <3>1. Pending(w, p)' /\ Tells(ShownAfter(w, p))'
      BY <2>2, <2>4 DEF Pending, Answered, At, Of, Ended
    <3> QED
      BY <2>3, <3>1 DEF UpToDate
  <2>5. CASE ~Of(w, p)
    <3>1. ~Pending(w, p)'
      BY <2>5 DEF Pending, Answered, Of
    <3>2. UNCHANGED cards
      BY <1>4, <2>1, <2>5 DEF Of
    <3>3. Tells(page[w].shown)'
      BY <2>1, <2>2, <3>2, SameCards DEF Tells
    <3> QED
      BY <2>3, <3>1, <3>3 DEF UpToDate
  <2> QED
    BY <2>4, <2>5
<1> QED
  BY <1>1, <1>4 DEF CalmInv

\* The answer comes, or nobody waits for it.
LEMMA EndsCalmly ==
    ASSUME CalmInv, calm, NEW p \in Process, Lonely(p), Return(p),
           process \in [Process -> Frame], UNCHANGED <<cards, calm>>,
           \A w \in Window : page'[w].open /\ ~page'[w].loading /\ w \notin missed' =>
              Tells(page'[w].shown)
    PROVE  CalmInv'
<1>1. StepOf(p) /\ process'[p] = Idle
  BY DEF StepOf, Return, Begin
<1>2. Stage(process[p])' /\ At(p, "idle")'
  BY <1>1, IdleIsElsewhere, WorkOfKinds DEF Stage, CardLabel, CardKind, Changes, At, Idle
<1>3. Alone' /\ (\A q \in Process : Stage(process[q])') /\ OneDefault'
  BY <1>1, <1>2, RequestsStayCalm, SameCards DEF CalmInv
<1>4. \A w \in Window, q \in Process : ~Pending(w, q)'
  BY <1>1, <1>2 DEF Lonely, StepOf, Pending, Answered, At
<1>5. \A w \in Window : page'[w].open /\ ~page'[w].loading /\ w \notin missed' => UpToDate(w)'
  BY <1>4, SameCards DEF UpToDate, Tells
<1> QED
  BY <1>3, <1>5 DEF CalmInv

\* What an answer keeps.
LEMMA AnswerKeeps ==
    ASSUME process \in [Process -> Frame], NEW p \in Process, NEW ok, Answer(p, ok)
    PROVE  /\ \A q \in Process \ {p} : process'[q] = process[q]
           /\ process'[p].at = "answer" /\ process'[p].ok = ok
           /\ process'[p].kind = process[p].kind /\ process'[p].client = process[p].client
           /\ process'[p].card = process[p].card /\ process'[p].isDefault = process[p].isDefault
           /\ process'[p].shown = process[p].shown
BY DEF Answer, Frame

LEMMA AnswerStage ==
    ASSUME NEW p \in Process, process'[p].at = "answer",
           process'[p].kind \in Changes => process'[p].card \in Card, process'[p].kind # "list"
    PROVE  Stage(process[p])'
BY WorkOfKinds DEF Stage, Changes

\* A card comes to be attached, or stays it, and may be made the default one.
Sets(c, isDefault) == /\ Attached' = Attached \cup {c}
                      /\ Defaults' = IF isDefault THEN {c} ELSE Defaults

LEMMA ClearedCards ==
    ASSUME Rows, NEW p \in Process, NEW c \in Card
    PROVE  /\ Cleared(p)[c] \in CardRow
           /\ Cleared(p)[c].status = cards[c].status
           /\ Cleared(p)[c].isDefault <=> cards[c].isDefault /\ c \notin process[p].clear
BY DEF Rows, Cleared, CardRow

LEMMA CreateCardSets ==
    ASSUME Rows, CalmInv, calm, NEW p \in Process, CreateCard(p), process[p] \in Frame
    PROVE  /\ Sets(process[p].card, process[p].isDefault) /\ Answer(p, TRUE)
           /\ process[p].kind = "attach" /\ process[p].card \in Card
<1> DEFINE c == process[p].card
           isDefault == process[p].isDefault
<1>1. /\ process[p].kind = "attach" /\ c \in Card /\ cards[c].status = "NONE"
      /\ process[p].clear = IF isDefault THEN Defaults ELSE {}
      /\ c \notin Defaults
  BY WorkOfKinds DEF CreateCard, CalmInv, Stage, At, Changes, CardKind, OneDefault, Attached, Defaults
<1>2. cards' = [Cleared(p) EXCEPT ![c] = NewRow(isDefault)] /\ Answer(p, TRUE)
  BY <1>1 DEF CreateCard
<1>3. NewRow(isDefault).status = "ATTACHED" /\ NewRow(isDefault).isDefault = isDefault
      /\ isDefault \in BOOLEAN
  BY DEF NewRow, Frame
<1>4. cards'[c] = NewRow(isDefault) /\ \A d \in Card \ {c} : cards'[d] = Cleared(p)[d]
  BY <1>1, <1>2 DEF Cleared
<1> HIDE DEF c, isDefault
<1>5. Attached' = Attached \cup {c}
  BY <1>1, <1>3, <1>4, ClearedCards DEF Attached
<1>6. Defaults' = IF isDefault THEN {c} ELSE Defaults
  BY <1>1, <1>3, <1>4, ClearedCards DEF Defaults
<1> QED
  BY <1>1, <1>2, <1>5, <1>6 DEF Sets, c, isDefault

LEMMA ReattachCardSets ==
    ASSUME Rows, CalmInv, calm, NEW p \in Process, ReattachCard(p), process[p] \in Frame
    PROVE  /\ Sets(process[p].card, process[p].isDefault) /\ Answer(p, TRUE)
           /\ process[p].kind = "attach" /\ process[p].card \in Card
<1> DEFINE c == process[p].card
           isDefault == process[p].isDefault
<1>1. /\ process[p].kind = "attach" /\ c \in Card /\ cards[c].status = "REVOKED"
      /\ process[p].clear = IF isDefault THEN Defaults ELSE {}
      /\ c \notin Defaults /\ isDefault \in BOOLEAN
  BY WorkOfKinds
     DEF ReattachCard, CalmInv, Stage, At, Changes, CardKind, OneDefault, Attached, Defaults, Frame
<1>2. /\ cards' = [Cleared(p) EXCEPT ![c].status = "ATTACHED", ![c].isDefault = isDefault]
      /\ Answer(p, TRUE)
  BY <1>1 DEF ReattachCard
<1>3. \A d \in Card \ {c} : cards'[d] = Cleared(p)[d]
  BY <1>1, <1>2 DEF Cleared
<1>4. cards'[c] = [Cleared(p)[c] EXCEPT !.status = "ATTACHED", !.isDefault = isDefault]
  BY <1>1, <1>2 DEF Cleared
<1> HIDE DEF c, isDefault
<1>5. cards'[c].status = "ATTACHED" /\ cards'[c].isDefault = isDefault
  BY <1>1, <1>4, ClearedCards DEF CardRow
<1>6. Attached' = Attached \cup {c}
  BY <1>1, <1>3, <1>5, ClearedCards DEF Attached
<1>7. Defaults' = IF isDefault THEN {c} ELSE Defaults
  BY <1>1, <1>3, <1>5, ClearedCards DEF Defaults
<1> QED
  BY <1>1, <1>2, <1>6, <1>7 DEF Sets, c, isDefault

LEMMA MakeDefaultSets ==
    ASSUME Rows, CalmInv, calm, NEW p \in Process, MakeDefault(p), process[p] \in Frame
    PROVE  /\ Sets(process[p].card, TRUE) /\ Answer(p, TRUE)
           /\ process[p].kind = "default" /\ process[p].card \in Attached
<1> DEFINE c == process[p].card
<1>1. /\ process[p].kind = "default" /\ c \in Card /\ cards[c].status = "ATTACHED"
      /\ process[p].clear = Defaults
  BY WorkOfKinds
     DEF MakeDefault, CalmInv, Stage, At, Changes, CardKind, Attached
<1>2. cards' = [Cleared(p) EXCEPT ![c].isDefault = TRUE] /\ Answer(p, TRUE)
  BY <1>1 DEF MakeDefault
<1>3. \A d \in Card \ {c} : cards'[d] = Cleared(p)[d]
  BY <1>1, <1>2 DEF Cleared
<1>4. cards'[c] = [Cleared(p)[c] EXCEPT !.isDefault = TRUE]
  BY <1>1, <1>2 DEF Cleared
<1> HIDE DEF c
<1>5. cards'[c].status = "ATTACHED" /\ cards'[c].isDefault
  BY <1>1, <1>4, ClearedCards DEF CardRow
<1>6. Attached' = Attached \cup {c}
  BY <1>1, <1>3, <1>5, ClearedCards DEF Attached
<1>7. Defaults' = {c}
  BY <1>1, <1>3, <1>5, ClearedCards DEF Defaults
<1> QED
  BY <1>1, <1>2, <1>6, <1>7 DEF Sets, c, Attached

LEMMA RevokeCardRemoves ==
    ASSUME Rows, CalmInv, calm, NEW p \in Process, RevokeCard(p)
    PROVE  /\ Attached' = Attached \ {process[p].card}
           /\ Defaults \ {process[p].card} \subseteq Defaults'
           /\ OneDefault' /\ Answer(p, TRUE)
           /\ process[p].kind = "remove" /\ process[p].card \in Attached
<1> DEFINE c == process[p].card
           next == process[p].next
<1>1. /\ process[p].kind = "remove" /\ c \in Card /\ c \in Attached
      /\ process[p].isDefault = cards[c].isDefault
      /\ next \in Attached \ {c} \/ next = NoCard
      /\ next # NoCard => process[p].isDefault
      /\ OneDefault
  BY WorkOfKinds, AccountAssumption
     DEF RevokeCard, CalmInv, Stage, At, Changes, CardKind, Attached
<1>2. /\ cards' = [d \in Card |->
                     IF d = c THEN [cards[d] EXCEPT !.status = "REVOKED", !.isDefault = FALSE]
                     ELSE IF d = next THEN [cards[d] EXCEPT !.isDefault = TRUE] ELSE cards[d]]
      /\ Answer(p, TRUE)
  BY DEF RevokeCard
<1> HIDE DEF c, next
<1>3. cards'[c].status = "REVOKED" /\ ~cards'[c].isDefault
  BY <1>1, <1>2 DEF Rows, CardRow
<1>4. \A d \in Card \ {c} : /\ cards'[d].status = cards[d].status
                            /\ cards'[d].isDefault <=> cards[d].isDefault \/ d = next
  BY <1>1, <1>2 DEF Rows, CardRow
<1>5. Attached' = Attached \ {c}
  BY <1>3, <1>4 DEF Attached
<1>6. Defaults' = (Defaults \ {c}) \cup (IF next = NoCard THEN {} ELSE {next})
  <2>1. \A d \in Card : d \in Defaults' <=> d # c /\ (d \in Defaults \/ d = next)
    BY <1>3, <1>4 DEF Defaults
  <2>2. next \in Card \/ next = NoCard
    BY <1>1 DEF Attached
  <2>3. NoCard \notin Card /\ Defaults' \subseteq Card /\ Defaults \subseteq Card
    BY AccountAssumption DEF Defaults
  <2>4. next # c
    BY <1>1, AccountAssumption
  <2> QED
    BY <2>1, <2>2, <2>3, <2>4
<1>7. next # NoCard => Defaults \subseteq {c}
  BY <1>1 DEF OneDefault, Defaults
<1>8. OneDefault'
  <2>1. Defaults' \subseteq Attached'
    BY <1>1, <1>5, <1>6 DEF OneDefault
  <2>2. \A d, e \in Defaults' : d = e
    BY <1>1, <1>6, <1>7 DEF OneDefault
  <2> QED
    BY <2>1, <2>2 DEF OneDefault
<1> QED
  BY <1>1, <1>2, <1>5, <1>6, <1>8 DEF c

-----------------------------------------------------------------------------
(* What a window shows once it knows of a change.                          *)

LEMMA SetsOneDefault ==
    ASSUME OneDefault, NEW c \in Card, NEW isDefault \in BOOLEAN, Sets(c, isDefault)
    PROVE  OneDefault'
<1>1. Defaults' \subseteq Attached'
  BY DEF OneDefault, Sets
<1>2. \A d, e \in Defaults' : d = e
  BY DEF OneDefault, Sets
<1> QED
  BY <1>1, <1>2 DEF OneDefault

LEMMA ToldOfDefault ==
    ASSUME NEW shown \in Shown, NEW c \in Card, Sets(c, TRUE),
           {d \in Card : shown[d] # "none"} = Attached \cup {c}
    PROVE  Tells(WithDefault(shown, c))'
<1> DEFINE after == WithDefault(shown, c)
<1>1. \A d \in Card : after[d] = IF shown[d] = "none" THEN "none"
                                 ELSE IF d = c THEN "default" ELSE "plain"
  BY DEF WithDefault
<1> HIDE DEF after
<1>2. {d \in Card : after[d] # "none"} = Attached \cup {c}
  BY <1>1
<1>3. {d \in Card : after[d] = "default"} \subseteq {c}
  BY <1>1
<1> QED
  BY <1>2, <1>3 DEF Tells, Sets, after

LEMMA ToldOfCard ==
    ASSUME NEW shown \in Shown, NEW c \in Card, Tells(shown)
    PROVE  /\ {d \in Card : [shown EXCEPT ![c] = "plain"][d] # "none"} = Attached \cup {c}
           /\ {d \in Card : [shown EXCEPT ![c] = "plain"][d] = "default"} \subseteq Defaults
           /\ [shown EXCEPT ![c] = "plain"] \in Shown
BY DEF Tells, Shown

LEMMA ToldOfRemoval ==
    ASSUME NEW shown \in Shown, NEW c \in Card, Tells(shown),
           Attached' = Attached \ {c}, Defaults \ {c} \subseteq Defaults'
    PROVE  Tells([shown EXCEPT ![c] = "none"])'
<1> DEFINE after == [shown EXCEPT ![c] = "none"]
<1>1. \A d \in Card : after[d] = IF d = c THEN "none" ELSE shown[d]
  BY DEF Shown
<1> HIDE DEF after
<1>2. {d \in Card : after[d] # "none"} = Attached \ {c}
  BY <1>1 DEF Tells
<1>3. {d \in Card : after[d] = "default"} \subseteq Defaults \ {c}
  BY <1>1 DEF Tells
<1> QED
  BY <1>2, <1>3 DEF Tells, after

-----------------------------------------------------------------------------
(* Cards, as long as it is calm: every step.                               *)

\* What the lemmas on the changes need of the step.
Learns(p) == missed' = IF cards' = cards THEN missed ELSE missed \cup (Window \ {process[p].client})

LEMMA AnsweredChange ==
    ASSUME IInv, CalmInv, calm, NEW p \in Process, ~At(p, "idle"), ~At(p, "answer"),
           process[p].kind \in Changes, Answer(p, TRUE), Learns(p), UNCHANGED <<page, calm>>,
           OneDefault',
           \A w \in Window : Tells(page[w].shown) => Tells(ShownAfter(w, p))'
    PROVE  CalmInv'
<1>1. Lonely(p)
  BY WhoActsIsLonely
<1>2. process \in [Process -> Frame]
  BY ItHasRequests DEF Requests
<1>3. /\ StepOf(p) /\ process'[p].at = "answer" /\ process'[p].ok
      /\ process'[p].kind = process[p].kind /\ process'[p].client = process[p].client
      /\ process'[p].card = process[p].card
  BY <1>2, AnswerKeeps DEF StepOf
<1>4. process[p].card \in Card
  BY DEF CalmInv, Stage
<1>5. Stage(process[p])'
  BY <1>3, <1>4, AnswerStage DEF Changes
<1>6. ~Ended(process[p]) /\ Ended(process[p])'
  BY <1>3 DEF Ended, At
<1> QED
  BY <1>1, <1>3, <1>5, <1>6, ChangesCalmly DEF Learns

LEMMA AttachesCalmly ==
    ASSUME IInv, CalmInv, calm, NEW p \in Process, CreateCard(p) \/ ReattachCard(p),
           Learns(p), UNCHANGED <<page, calm>>
    PROVE  CalmInv'
<1> DEFINE c == process[p].card
           isDefault == process[p].isDefault
<1>1. Rows /\ Pages /\ process \in [Process -> Frame]
  BY ItHasParts DEF Requests
<1>2. /\ Sets(c, isDefault) /\ Answer(p, TRUE) /\ process[p].kind = "attach" /\ c \in Card
      /\ isDefault \in BOOLEAN
  BY <1>1, CreateCardSets, ReattachCardSets DEF Frame
<1>3. OneDefault'
  BY <1>2, SetsOneDefault DEF CalmInv
<1>4. /\ process'[p].kind = "attach" /\ process'[p].card = c /\ process'[p].isDefault = isDefault
  BY <1>1, <1>2, AnswerKeeps
<1>5. ASSUME NEW w \in Window, Tells(page[w].shown)
      PROVE  Tells(ShownAfter(w, p))'
  <2>1. PICK shown \in Shown : shown = page[w].shown
    BY <1>1 DEF Pages, Page
  <2>2. PICK e \in Card : e = c
    BY <1>2
  <2> DEFINE added == [shown EXCEPT ![e] = "plain"]
  <2>3. /\ {d \in Card : added[d] # "none"} = Attached \cup {e}
        /\ {d \in Card : added[d] = "default"} \subseteq Defaults
        /\ added \in Shown
    BY <1>5, <2>1, ToldOfCard
  <2>4. ShownAfter(w, p)' = IF isDefault THEN WithDefault(added, e) ELSE added
    BY <1>4, <2>1, <2>2 DEF ShownAfter, CardAdded, WithDefault
  <2> HIDE DEF added
  <2>5. CASE isDefault
    <3>1. Tells(WithDefault(added, e))'
      BY <1>2, <2>2, <2>3, <2>5, ToldOfDefault
    <3> QED
      BY <2>4, <2>5, <3>1
  <2>6. CASE ~isDefault
    BY <1>2, <2>2, <2>3, <2>4, <2>6 DEF Tells, Sets
  <2> QED
    BY <2>5, <2>6
<1>6. ~At(p, "idle") /\ ~At(p, "answer")
  BY DEF CreateCard, ReattachCard, At
<1> QED
  BY <1>2, <1>3, <1>5, <1>6, AnsweredChange DEF Changes

LEMMA DefaultsCalmly ==
    ASSUME IInv, CalmInv, calm, NEW p \in Process, MakeDefault(p),
           Learns(p), UNCHANGED <<page, calm>>
    PROVE  CalmInv'
<1> DEFINE c == process[p].card
<1>1. Rows /\ Pages /\ process \in [Process -> Frame]
  BY ItHasParts DEF Requests
<1>2. /\ Sets(c, TRUE) /\ Answer(p, TRUE) /\ process[p].kind = "default" /\ c \in Attached
  BY <1>1, MakeDefaultSets
<1>3. OneDefault'
  BY <1>2, SetsOneDefault DEF CalmInv, Attached
<1>4. /\ process'[p].kind = "default" /\ process'[p].card = c
  BY <1>1, <1>2, AnswerKeeps
<1>5. ASSUME NEW w \in Window, Tells(page[w].shown)
      PROVE  Tells(ShownAfter(w, p))'
  <2>1. PICK shown \in Shown : shown = page[w].shown
    BY <1>1 DEF Pages, Page
  <2>2. PICK e \in Card : e = c
    BY <1>2 DEF Attached
  <2>3. {d \in Card : shown[d] # "none"} = Attached \cup {e}
    BY <1>2, <1>5, <2>1, <2>2 DEF Tells
  <2>4. Tells(WithDefault(shown, e))'
    BY <1>2, <2>2, <2>3, ToldOfDefault
  <2>5. ShownAfter(w, p)' = WithDefault(shown, e)
    BY <1>4, <2>1, <2>2 DEF ShownAfter, WithDefault
  <2> QED
    BY <2>4, <2>5
<1>6. ~At(p, "idle") /\ ~At(p, "answer")
  BY DEF MakeDefault, At
<1> QED
  BY <1>2, <1>3, <1>5, <1>6, AnsweredChange DEF Changes

LEMMA RemovesCalmly ==
    ASSUME IInv, CalmInv, calm, NEW p \in Process, RevokeCard(p),
           Learns(p), UNCHANGED <<page, calm>>
    PROVE  CalmInv'
<1> DEFINE c == process[p].card
<1>1. Rows /\ Pages /\ process \in [Process -> Frame]
  BY ItHasParts DEF Requests
<1>2. /\ Attached' = Attached \ {c} /\ Defaults \ {c} \subseteq Defaults'
      /\ OneDefault' /\ Answer(p, TRUE) /\ process[p].kind = "remove" /\ c \in Attached
  BY <1>1, RevokeCardRemoves
<1>4. /\ process'[p].kind = "remove" /\ process'[p].card = c
  BY <1>1, <1>2, AnswerKeeps
<1>5. ASSUME NEW w \in Window, Tells(page[w].shown)
      PROVE  Tells(ShownAfter(w, p))'
  <2>1. PICK shown \in Shown : shown = page[w].shown
    BY <1>1 DEF Pages, Page
  <2>2. PICK e \in Card : e = c
    BY <1>2 DEF Attached
  <2>3. Tells([shown EXCEPT ![e] = "none"])'
    BY <1>2, <1>5, <2>1, <2>2, ToldOfRemoval
  <2>4. ShownAfter(w, p)' = [shown EXCEPT ![e] = "none"]
    BY <1>4, <2>1, <2>2 DEF ShownAfter
  <2> QED
    BY <2>3, <2>4
<1>6. ~At(p, "idle") /\ ~At(p, "answer")
  BY DEF RevokeCard, At
<1> QED
  BY <1>2, <1>5, <1>6, AnsweredChange DEF Changes

\* A request that goes on without a change of the cards.
LEMMA ReadsCalmly ==
    ASSUME IInv, CalmInv, calm, NEW p \in Process, ~At(p, "idle"), ~Ended(process[p]),
           \A q \in Process \ {p} : process'[q] = process[q], Stage(process[p])',
           ~Ended(process[p])', UNCHANGED <<cards, missed, page, calm>>
    PROVE  CalmInv'
BY WhoActsIsLonely, GoesOnCalmly DEF StepOf

LEMMA FindsMethodsCalmly ==
    ASSUME IInv, CalmInv, calm, NEW p \in Process, FindMethods(p), UNCHANGED <<missed, page, calm>>
    PROVE  CalmInv'
<1>1. process \in [Process -> Frame] /\ Rows
  BY ItHasParts DEF Requests
<1>2. process[p].kind = "list" /\ process[p].at = "list" /\ UNCHANGED cards
  BY WorkOfKinds DEF FindMethods, CalmInv, Stage, At, CardKind, tableVars
<1>3. PICK shown \in Shown : shown = [c \in Card |-> IF c \notin Attached THEN "none"
                                                     ELSE IF cards[c].isDefault THEN "default"
                                                     ELSE "plain"]
  BY DEF Shown
<1>4. /\ \A q \in Process \ {p} : process'[q] = process[q]
      /\ process'[p].kind = "list" /\ process'[p].at = "answer" /\ process'[p].ok
      /\ process'[p].shown = shown
  BY <1>1, <1>2, <1>3 DEF FindMethods, Frame
<1>5. Tells(shown)
  BY <1>3 DEF Tells, Attached, Defaults
<1>6. Tells(shown)'
  BY <1>2, <1>5, SameCards DEF Tells
<1>7. Stage(process[p])'
  BY <1>4, <1>6, WorkOfKinds DEF Stage, CardKind, Changes
<1>8. ~At(p, "idle") /\ ~Ended(process[p]) /\ ~Ended(process[p])'
  BY <1>2, <1>4 DEF At, Ended, Changes
<1> QED
  BY <1>2, <1>4, <1>7, <1>8, ReadsCalmly

LEMMA FindsExistingCalmly ==
    ASSUME IInv, CalmInv, calm, NEW p \in Process, FindExisting(p), UNCHANGED <<missed, page, calm>>
    PROVE  CalmInv'
<1>1. process \in [Process -> Frame] /\ Rows
  BY ItHasParts DEF Requests
<1>2. /\ process[p].kind = "attach" /\ process[p].at = "attach_find" /\ UNCHANGED cards
      /\ process[p].card \in Card
  BY WorkOfKinds DEF FindExisting, CalmInv, Stage, At, CardKind, Changes, tableVars
<1>3. cards[process[p].card].status \in {"NONE", "ATTACHED", "REVOKED"}
  BY <1>1, <1>2 DEF Rows, CardRow
<1>4. /\ \A q \in Process \ {p} : process'[q] = process[q]
      /\ process'[p].kind = "attach" /\ process'[p].card = process[p].card
      /\ \/ process'[p].at = "answer" /\ ~process'[p].ok
         \/ process'[p].at = "reattach_begin" /\ cards[process[p].card].status = "REVOKED"
         \/ process'[p].at = "attach_count" /\ cards[process[p].card].status = "NONE"
  <2>1. CASE cards[process[p].card].status = "ATTACHED"
    BY <1>1, <1>2, <2>1, AnswerKeeps DEF FindExisting
  <2>2. CASE cards[process[p].card].status = "REVOKED"
    BY <1>1, <1>2, <2>2 DEF FindExisting, Frame
  <2>3. CASE cards[process[p].card].status = "NONE"
    BY <1>1, <1>2, <2>3 DEF FindExisting, GoTo, Frame
  <2> QED
    BY <1>3, <2>1, <2>2, <2>3
<1>5. Stage(process[p])'
  BY <1>2, <1>4, WorkOfKinds DEF Stage, CardKind, Changes
<1>6. ~At(p, "idle") /\ ~Ended(process[p]) /\ ~Ended(process[p])'
  BY <1>2, <1>4 DEF At, Ended
<1> QED
  BY <1>2, <1>4, <1>5, <1>6, ReadsCalmly

LEMMA CountsExistingCalmly ==
    ASSUME IInv, CalmInv, calm, NEW p \in Process, CountExisting(p), UNCHANGED <<missed, page, calm>>
    PROVE  CalmInv'
<1>1. process \in [Process -> Frame]
  BY ItHasParts DEF Requests
<1>2. /\ process[p].kind = "attach" /\ process[p].at = "attach_count" /\ UNCHANGED cards
      /\ process[p].card \in Card /\ cards[process[p].card].status = "NONE"
  BY WorkOfKinds DEF CountExisting, CalmInv, Stage, At, CardKind, Changes, tableVars
<1>3. /\ \A q \in Process \ {p} : process'[q] = process[q]
      /\ process'[p].kind = "attach" /\ process'[p].card = process[p].card
      /\ process'[p].at = "attach_begin"
  BY <1>1, <1>2 DEF CountExisting, Frame
<1>4. Stage(process[p])'
  BY <1>2, <1>3, WorkOfKinds DEF Stage, CardKind, Changes
<1>5. ~At(p, "idle") /\ ~Ended(process[p]) /\ ~Ended(process[p])'
  BY <1>2, <1>3 DEF At, Ended
<1> QED
  BY <1>2, <1>3, <1>4, <1>5, ReadsCalmly

LEMMA BeginsChangeCalmly ==
    ASSUME IInv, CalmInv, calm, NEW p \in Process, BeginChange(p), UNCHANGED <<missed, page, calm>>
    PROVE  CalmInv'
<1> DEFINE f == process[p]
           clear == IF f.isDefault THEN Defaults ELSE {}
<1>1. process \in [Process -> Frame] /\ UNCHANGED cards /\ Stage(f)
  BY ItHasParts DEF Requests, BeginChange, tableVars, CalmInv
<1>2. PICK label : /\ ClearDefaults(p, label)
                   /\ \/ f.at = "attach_begin" /\ label = "attach_commit"
                      \/ f.at = "reattach_begin" /\ label = "reattach_commit"
                      \/ f.at = "default_begin" /\ label = "default_commit"
  BY DEF BeginChange, At
<1>3. /\ \A q \in Process \ {p} : process'[q] = process[q]
      /\ process'[p].kind = f.kind /\ process'[p].card = f.card /\ process'[p].isDefault = f.isDefault
      /\ process'[p].at = label /\ process'[p].clear = clear
  BY <1>1 , <1>2 DEF ClearDefaults, Frame
<1>4. Attached' = Attached /\ Defaults' = Defaults
  BY <1>1, SameCards
<1>5. clear = IF process'[p].isDefault THEN Defaults' ELSE {}
  BY <1>3, <1>4
<1> HIDE DEF clear
<1>6. Stage(process[p])'
  <2>1. CASE f.at = "attach_begin"
    BY <1>1, <1>2, <1>3, <1>5, <2>1, WorkOfKinds DEF Stage, CardKind, Changes
  <2>2. CASE f.at = "reattach_begin"
    BY <1>1, <1>2, <1>3, <1>5, <2>2, WorkOfKinds DEF Stage, CardKind, Changes
  <2>3. CASE f.at = "default_begin"
    BY <1>1, <1>2, <1>3, <1>4, <1>5, <2>3, WorkOfKinds DEF Stage, CardKind, Changes
  <2> QED
    BY <1>2, <2>1, <2>2, <2>3
<1>7. ~At(p, "idle") /\ ~Ended(process[p]) /\ ~Ended(process[p])'
  BY <1>2, <1>3 DEF At, Ended
<1> QED
  BY <1>1, <1>3, <1>6, <1>7, ReadsCalmly

LEMMA FindsNextCalmly ==
    ASSUME IInv, CalmInv, calm, NEW p \in Process, FindNext(p), UNCHANGED <<missed, page, calm>>
    PROVE  CalmInv'
<1> DEFINE f == process[p]
           left == Attached \ {f.card}
<1>1. process \in [Process -> Frame] /\ UNCHANGED cards
  BY ItHasParts DEF Requests, FindNext, tableVars
<1>2. /\ f.kind = "remove" /\ f.at = "remove_begin" /\ f.card \in Card /\ f.next = NoCard
      /\ f.card \in Attached /\ f.isDefault = cards[f.card].isDefault
  BY WorkOfKinds DEF FindNext, CalmInv, Stage, At, CardKind, Changes
<1>3. /\ \A q \in Process \ {p} : process'[q] = process[q]
      /\ process'[p].kind = f.kind /\ process'[p].card = f.card /\ process'[p].isDefault = f.isDefault
      /\ process'[p].at = "remove_commit"
      /\ IF f.isDefault /\ left # {} THEN process'[p].next \in left ELSE process'[p].next = NoCard
  <2>1. CASE f.isDefault /\ left # {}
    <3>1. PICK c \in Oldest(left) : process' = [process EXCEPT ![p].at = "remove_commit", ![p].next = c]
      BY <2>1 DEF FindNext
    <3> QED
      BY <1>1, <2>1, <3>1 DEF Oldest, Frame
  <2>2. CASE ~(f.isDefault /\ left # {})
    <3>1. GoTo(p, "remove_commit")
      BY <2>2 DEF FindNext
    <3> QED
      BY <1>1, <1>2, <2>2, <3>1 DEF GoTo, Frame
  <2> QED
    BY <2>1, <2>2
<1>4. Attached' = Attached /\ Attached \subseteq Card /\ (left # {} <=> Attached # {f.card})
  BY <1>1, <1>2, SameCards DEF Attached
<1>5. Stage(process[p])'
  BY <1>1, <1>2, <1>3, <1>4, WorkOfKinds DEF Stage, CardKind, Changes
<1>6. ~At(p, "idle") /\ ~Ended(process[p]) /\ ~Ended(process[p])'
  BY <1>2, <1>3 DEF At, Ended
<1> QED
  BY <1>1, <1>3, <1>5, <1>6, ReadsCalmly

LEMMA ContinuesCardsCalmly ==
    ASSUME IInv, CalmInv, calm, NEW p \in Process, ContinueCards(p), Learns(p), UNCHANGED <<page, calm>>
    PROVE  CalmInv'
<1>1. UNCHANGED tableVars => UNCHANGED missed
  BY DEF tableVars, Learns
<1>2. FindMethods(p) \/ FindExisting(p) \/ CountExisting(p) \/ BeginChange(p) \/ FindNext(p)
         => UNCHANGED tableVars
  BY DEF FindMethods, FindExisting, CountExisting, BeginChange, FindNext
<1> QED
  BY <1>1, <1>2, FindsMethodsCalmly, FindsExistingCalmly, CountsExistingCalmly, BeginsChangeCalmly,
     FindsNextCalmly, AttachesCalmly, DefaultsCalmly, RemovesCalmly DEF ContinueCards

\* Requests that are not for cards go on.
LEMMA ContinuesElsewhere ==
    ASSUME IInv, CalmInv, calm, NEW p \in Process, process[p].at \notin CardLabel,
           process[p].at \notin {"idle", "answer"},
           \A q \in Process \ {p} : process'[q] = process[q],
           process'[p].kind = process[p].kind, process'[p].at \notin CardLabel,
           UNCHANGED <<cards, missed, page, calm>>
    PROVE  CalmInv'
<1>1. Stage(process[p])
  BY DEF CalmInv
<1>2. process[p].kind \notin CardKind
  BY <1>1, StageElsewhere
<1>3. Stage(process[p])'
  BY <1>2, WorkOfKinds DEF Stage, CardLabel, CardKind, Changes
<1>4. ~At(p, "idle") /\ ~Ended(process[p]) /\ ~Ended(process[p])'
  BY <1>2 DEF At, Ended, Changes, CardKind
<1> QED
  BY <1>3, <1>4, ReadsCalmly

LEMMA OthersGoOn ==
    ASSUME process \in [Process -> Frame], NEW p \in Process,
           ContinueVerification(p) \/ ContinueScore(p) \/ WriteUser(p)
    PROVE  /\ process[p].at \in {"initiate_write", "callback_write", "escalate", "read_score",
                                 "read_verification", "read_deals", "count_deals", "list_deals",
                                 "write_score", "save_write"}
           /\ process'[p].at \in {"read_score", "read_verification", "read_deals", "count_deals",
                                  "list_deals", "write_score", "answer"}
           /\ process'[p].kind = process[p].kind
           /\ \A q \in Process \ {p} : process'[q] = process[q]
           /\ UNCHANGED cards
<1>1. CASE ContinueVerification(p)
  <2>1. CASE WritePending(p) \/ WriteEscalation(p)
    BY <2>1, AnswerKeeps DEF WritePending, WriteEscalation, At, tablesButVerification
  <2>2. CASE WriteOutcome(p)
    BY <2>2 DEF WriteOutcome, AfterCallback, GoTo, At, Frame, tablesButVerification
  <2> QED
    BY <1>1, <2>1, <2>2 DEF ContinueVerification
<1>2. CASE ContinueScore(p)
  <2>1. CASE ReadScore(p) \/ WriteScore(p)
    <3>1. Answer(p, TRUE) \/ GoTo(p, "read_verification")
      BY <2>1 DEF ReadScore, WriteScore
    <3>2. CASE Answer(p, TRUE)
      BY <2>1, <3>2, AnswerKeeps DEF ReadScore, WriteScore, At, tableVars
    <3>3. CASE GoTo(p, "read_verification")
      BY <2>1, <3>3 DEF ReadScore, WriteScore, At, tableVars, GoTo, Frame
    <3> QED
      BY <3>1, <3>2, <3>3
  <2>2. CASE ReadVerification(p)
    BY <2>2 DEF ReadVerification, At, Frame, tableVars
  <2>3. CASE CountDeals(p)
    BY <2>3 DEF CountDeals, At, Frame, tableVars
  <2>4. CASE ListDeals(p)
    BY <2>4 DEF ListDeals, At, Frame, tableVars
  <2> QED
    BY <1>2, <2>1, <2>2, <2>3, <2>4 DEF ContinueScore
<1>3. CASE WriteUser(p)
  BY <1>3 DEF WriteUser, GoTo, At, Frame
<1> QED
  BY <1>1, <1>2, <1>3

LEMMA ContinueStepCalm ==
    ASSUME IInv, CalmInv, NEW p \in Process, ContinueStep(p)
    PROVE  CalmInv'
<1>1. calm' = calm /\ Learns(p) /\ UNCHANGED page
  BY DEF ContinueStep, pageVars, Learns
<1>2. CASE calm /\ ContinueCards(p)
  BY <1>1, <1>2, ContinuesCardsCalmly
<1>3. CASE calm /\ (ContinueVerification(p) \/ ContinueScore(p) \/ WriteUser(p))
  <2>1. process \in [Process -> Frame]
    BY ItHasParts DEF Requests
  <2>2. UNCHANGED <<cards, missed>>
    BY <1>1, <1>3, <2>1, OthersGoOn DEF Learns
  <2>3. /\ process[p].at \notin CardLabel /\ process[p].at \notin {"idle", "answer"}
        /\ process'[p].at \notin CardLabel
    BY <1>3, <2>1, OthersGoOn, WorkOfKinds DEF CardLabel
  <2> QED
    BY <1>1, <1>3, <2>1, <2>2, <2>3, OthersGoOn, ContinuesElsewhere
<1>4. CASE ~calm
  BY <1>1, <1>4 DEF CalmInv
<1> QED
  BY <1>2, <1>3, <1>4 DEF ContinueStep, Continue

LEMMA AnswerDroppedCalm ==
    ASSUME IInv, CalmInv, NEW p \in Process, AnswerDropped(p)
    PROVE  CalmInv'
<1>1. /\ process \in [Process -> Frame] /\ UNCHANGED <<cards, calm, page, missed>> /\ Return(p)
      /\ ~At(p, "idle") /\ process[p].client = Nobody
  BY ItHasParts DEF Requests, AnswerDropped, tableVars, pageVars, At
<1>2. CASE calm
  <2>1. Lonely(p)
    BY <1>1, <1>2, WhoActsIsLonely
  <2>2. \A w \in Window, q \in Process : ~Pending(w, q)
    BY <1>1, <2>1, OnlyTheLonelyIsPending, AccountAssumption DEF Pending, Answered, Of
  <2>3. \A w \in Window : page'[w].open /\ ~page'[w].loading /\ w \notin missed' => Tells(page'[w].shown)
    BY <1>1, <1>2, <2>2 DEF CalmInv, UpToDate
  <2> QED
    BY <1>1, <1>2, <2>1, <2>3, EndsCalmly
<1>3. CASE ~calm
  BY <1>1, <1>3 DEF CalmInv
<1> QED
  BY <1>2, <1>3

LEMMA FailStepCalm ==
    ASSUME NEW p \in Process, FailStep(p) PROVE CalmInv'
BY DEF FailStep, CalmInv

-----------------------------------------------------------------------------
(* Cards, as long as it is calm: requests begin.                           *)

LEMMA StartsCalmly ==
    ASSUME IInv, CalmInv, NEW p \in Process, CalmStart,
           \A q \in Process \ {p} : process'[q] = process[q],
           Stage(process[p])', ~Ended(process[p])', UNCHANGED <<cards, missed>>,
           \A w \in Window : page'[w].open /\ ~page'[w].loading => page'[w] = page[w]
    PROVE  CalmInv'
<1>1. CASE calm'
  <2>1. calm /\ \A q \in Process : At(q, "idle")
    BY <1>1 DEF CalmStart
  <2>2. Lonely(p) /\ StepOf(p) /\ ~Ended(process[p])
    BY <2>1 DEF Lonely, StepOf, Ended, At
  <2> QED
    BY <2>1, <2>2, GoesOnCalmly
<1>2. CASE ~calm'
  BY <1>2 DEF CalmInv
<1> QED
  BY <1>1, <1>2

LEMMA StartsElsewhere ==
    ASSUME IInv, CalmInv, NEW p \in Process, CalmStart,
           \A q \in Process \ {p} : process'[q] = process[q],
           process'[p].kind \notin CardKind, process'[p].at \notin CardLabel,
           UNCHANGED <<cards, missed, page>>
    PROVE  CalmInv'
<1>1. Stage(process[p])'
  BY WorkOfKinds DEF Stage, CardLabel, CardKind, Changes
<1>2. ~Ended(process[p])'
  BY DEF Ended, Changes, CardKind
<1> QED
  BY <1>1, <1>2, StartsCalmly

LEMMA RequestFields ==
    ASSUME NEW kind, NEW client, NEW label
    PROVE  /\ Request(kind, client, label).kind = kind /\ Request(kind, client, label).at = label
           /\ Request(kind, client, label).client = client
           /\ ~Request(kind, client, label).ok /\ Request(kind, client, label).next = NoCard
BY DEF Request, Idle

\* How a request for the cards begins.
LEMMA AddCardBegins ==
    ASSUME IInv, NEW p \in Process, NEW client, NEW c \in Card, NEW flag, AddCard(p, client, c, flag)
    PROVE  /\ \A q \in Process \ {p} : process'[q] = process[q]
           /\ Stage(process[p])' /\ ~Ended(process[p])' /\ UNCHANGED cards
<1>1. process \in [Process -> Frame]
  BY ItHasParts DEF Requests
<1>2. /\ \A q \in Process \ {p} : process'[q] = process[q]
      /\ process'[p].kind = "attach" /\ process'[p].at = "attach_find" /\ process'[p].card = c
      /\ UNCHANGED cards
  BY <1>1 DEF AddCard, Begin, Request, Idle, tableVars
<1>3. Stage(process[p])'
  BY <1>2, WorkOfKinds DEF Stage, CardKind, Changes
<1> QED
  BY <1>2, <1>3 DEF Ended

LEMMA SetDefaultBegins ==
    ASSUME IInv, NEW p \in Process, NEW client, NEW c \in Card, SetDefault(p, client, c)
    PROVE  /\ \A q \in Process \ {p} : process'[q] = process[q]
           /\ Stage(process[p])' /\ ~Ended(process[p])' /\ UNCHANGED cards
<1>1. process \in [Process -> Frame]
  BY ItHasParts DEF Requests
<1>2. /\ \A q \in Process \ {p} : process'[q] = process[q]
      /\ process'[p].kind = "default" /\ process'[p].card = c /\ process'[p].isDefault = TRUE
      /\ ~process'[p].ok
      /\ process'[p].at = IF c \in Attached THEN "default_begin" ELSE "answer"
      /\ UNCHANGED cards
  BY <1>1 DEF SetDefault, Begin, Request, Idle, tableVars
<1>3. Attached' = Attached
  BY <1>2, SameCards
<1>4. Stage(process[p])'
  BY <1>2, <1>3, WorkOfKinds DEF Stage, CardKind, Changes
<1> QED
  BY <1>2, <1>4 DEF Ended

LEMMA RemoveCardBegins ==
    ASSUME IInv, NEW p \in Process, NEW client, NEW c \in Card, RemoveCard(p, client, c)
    PROVE  /\ \A q \in Process \ {p} : process'[q] = process[q]
           /\ Stage(process[p])' /\ ~Ended(process[p])' /\ UNCHANGED cards
<1>1. process \in [Process -> Frame]
  BY ItHasParts DEF Requests
<1>2. /\ \A q \in Process \ {p} : process'[q] = process[q]
      /\ process'[p].kind = "remove" /\ process'[p].card = c /\ process'[p].next = NoCard
      /\ process'[p].isDefault = cards[c].isDefault /\ ~process'[p].ok
      /\ process'[p].at = IF c \in Attached THEN "remove_begin" ELSE "answer"
      /\ UNCHANGED cards
  BY <1>1 DEF RemoveCard, Begin, Request, Idle, tableVars
<1>3. Attached' = Attached
  BY <1>2, SameCards
<1>4. Stage(process[p])'
  BY <1>2, <1>3, WorkOfKinds DEF Stage, CardKind, Changes
<1> QED
  BY <1>2, <1>4 DEF Ended

LEMMA ListMethodsBegins ==
    ASSUME IInv, NEW p \in Process, NEW client, ListMethods(p, client)
    PROVE  /\ \A q \in Process \ {p} : process'[q] = process[q]
           /\ Stage(process[p])' /\ ~Ended(process[p])' /\ UNCHANGED cards
<1>1. process \in [Process -> Frame]
  BY ItHasParts DEF Requests
<1>2. /\ \A q \in Process \ {p} : process'[q] = process[q]
      /\ process'[p].kind = "list" /\ process'[p].at = "list" /\ UNCHANGED cards
  BY <1>1 DEF ListMethods, Begin, Request, Idle, tableVars
<1>3. Stage(process[p])'
  BY <1>2, WorkOfKinds DEF Stage, CardKind, Changes
<1> QED
  BY <1>2, <1>3 DEF Ended

\* How another one does.
LEMMA OthersBegin ==
    ASSUME process \in [Process -> Frame], NEW p \in Process,
           \/ \E client, body, typed : UpdateCurrentUser(p, client, body, typed)
           \/ \E client : GetCurrentUser(p, client)
           \/ Initiate(p) \/ Escalate(p) \/ Recalculate(p)
           \/ \E isError \in BOOLEAN : Callback(p, isError)
    PROVE  /\ \A q \in Process \ {p} : process'[q] = process[q]
           /\ process'[p].kind \notin CardKind /\ process'[p].at \notin CardLabel
           /\ UNCHANGED cards
<1> USE WorkOfKinds DEF CardKind, CardLabel, Begin, Request, Idle, tableVars
<1>1. ASSUME NEW client, NEW body, NEW typed, UpdateCurrentUser(p, client, body, typed)
      PROVE  /\ \A q \in Process \ {p} : process'[q] = process[q]
             /\ process'[p].kind = "save" /\ process'[p].at = "save_write" /\ UNCHANGED cards
  BY <1>1 DEF UpdateCurrentUser
<1>2. ASSUME NEW client, GetCurrentUser(p, client)
      PROVE  /\ \A q \in Process \ {p} : process'[q] = process[q]
             /\ process'[p].kind = "user" /\ process'[p].at = "read_score" /\ UNCHANGED cards
  BY <1>2 DEF GetCurrentUser
<1>3. CASE Initiate(p)
  BY <1>3 DEF Initiate
<1>4. CASE Escalate(p)
  BY <1>4 DEF Escalate
<1>5. CASE Recalculate(p)
  BY <1>5 DEF Recalculate
<1>6. ASSUME NEW isError \in BOOLEAN, Callback(p, isError)
      PROVE  /\ \A q \in Process \ {p} : process'[q] = process[q]
             /\ process'[p].kind = "callback"
             /\ process'[p].at \in {"read_verification", "callback_write"} /\ UNCHANGED cards
  BY <1>6 DEF Callback
<1> QED
  BY <1>1, <1>2, <1>3, <1>4, <1>5, <1>6

LEMMA OtherStepCalm ==
    ASSUME IInv, CalmInv, NEW p \in Process, OtherStep(p) \/ EscalateStep(p) \/ JobStep(p)
    PROVE  CalmInv'
<1>1. process \in [Process -> Frame] /\ CalmStart /\ UNCHANGED <<missed, page>>
  BY ItHasParts DEF Requests, OtherStep, EscalateStep, JobStep, pageVars
<1>2. \/ \E c \in Card : AddCard(p, Nobody, c, "unsaid")
      \/ \E client, body, typed : UpdateCurrentUser(p, client, body, typed)
      \/ Initiate(p) \/ Escalate(p) \/ Recalculate(p)
      \/ \E isError \in BOOLEAN : Callback(p, isError)
  BY DEF OtherStep, EscalateStep, JobStep
<1>3. CASE \E c \in Card : AddCard(p, Nobody, c, "unsaid")
  BY <1>1, <1>3, AddCardBegins, StartsCalmly
<1>4. CASE ~ \E c \in Card : AddCard(p, Nobody, c, "unsaid")
  BY <1>1, <1>2, <1>4, OthersBegin, StartsElsewhere
<1> QED
  BY <1>3, <1>4

LEMMA RequestStepCalm ==
    ASSUME IInv, CalmInv, NEW w \in Window, NEW p \in Process, RequestStep(w, p)
    PROVE  CalmInv'
<1>1. /\ process \in [Process -> Frame] /\ page \in [Window -> Page]
      /\ CalmStart /\ UNCHANGED missed
  BY ItHasParts DEF Requests, Pages, RequestStep
<1>2. CASE LoadCards(w, p)
  <2>1. ListMethods(p, w) /\ page' = [page EXCEPT ![w] = [page[w] EXCEPT !.loading = TRUE]]
    BY <1>2 DEF LoadCards, SetPage
  <2>2. page'[w].loading /\ \A v \in Window \ {w} : page'[v] = page[v]
    BY <1>1, <2>1 DEF Page
  <2> QED
    BY <1>1, <2>1, <2>2, ListMethodsBegins, StartsCalmly
<1>3. ASSUME NEW c \in Card, NEW flag, HandleAttachCard(w, p, c, flag)
      PROVE  CalmInv'
  BY <1>1, <1>3, AddCardBegins, StartsCalmly DEF HandleAttachCard, pageVars
<1>4. ASSUME NEW c \in Card, HandleSetDefaultCard(w, p, c)
      PROVE  CalmInv'
  BY <1>1, <1>4, SetDefaultBegins, StartsCalmly DEF HandleSetDefaultCard, pageVars
<1>5. ASSUME NEW c \in Card, HandleRemoveCard(w, p, c)
      PROVE  CalmInv'
  BY <1>1, <1>5, RemoveCardBegins, StartsCalmly DEF HandleRemoveCard, pageVars
<1>6. CASE RefreshProfile(w, p) \/ HandleSaveProfile(w, p)
  <2>1. /\ \E client, body, typed : UpdateCurrentUser(p, client, body, typed) \/ GetCurrentUser(p, client)
        /\ UNCHANGED page
    BY <1>6 DEF RefreshProfile, HandleSaveProfile, pageVars
  <2> QED
    BY <1>1, <2>1, OthersBegin, StartsElsewhere
<1> QED
  BY <1>2, <1>3, <1>4, <1>5, <1>6 DEF RequestStep

-----------------------------------------------------------------------------
(* Cards, as long as it is calm: answers, and what windows do by themselves. *)

LEMMA CardsLoadedCalm ==
    ASSUME IInv, CalmInv, calm, NEW w \in Window, NEW p \in Process, CardsLoaded(w, p),
           missed' = missed \ {w}, UNCHANGED calm
    PROVE  CalmInv'
<1>1. /\ process \in [Process -> Frame] /\ page \in [Window -> Page]
      /\ process[p].at = "answer" /\ process[p].kind = "list" /\ Return(p) /\ UNCHANGED cards
  BY ItHasParts DEF Requests, Pages, CardsLoaded, Answered, At, tableVars
<1>2. Lonely(p)
  BY <1>1, WhoActsIsLonely DEF At
<1>3. process[p].ok /\ Tells(process[p].shown)
  BY <1>1 DEF CalmInv, Stage
<1>4. /\ page'[w].shown = process[p].shown
      /\ \A v \in Window \ {w} : page'[v] = page[v]
  BY <1>1, <1>3 DEF CardsLoaded, SetPage, Page
<1>5. ASSUME NEW v \in Window, page'[v].open, ~page'[v].loading, v \notin missed'
      PROVE  Tells(page'[v].shown)
  <2>1. CASE v = w
    BY <1>3, <1>4, <2>1
  <2>2. CASE v # w
    <3>1. \A q \in Process : ~Pending(v, q)
      BY <1>1, <1>2, NothingPending DEF Ended, Changes
    <3> QED
      BY <1>4, <1>5, <2>2, <3>1 DEF CalmInv, UpToDate
  <2> QED
    BY <2>1, <2>2
<1> QED
  BY <1>1, <1>2, <1>5, EndsCalmly

LEMMA CardChangedCalm ==
    ASSUME IInv, CalmInv, calm, NEW w \in Window, NEW p \in Process, CardChanged(w, p),
           UNCHANGED <<missed, calm>>
    PROVE  CalmInv'
<1>1. /\ process \in [Process -> Frame] /\ page \in [Window -> Page]
      /\ \E change \in Changes : Answered(w, p, change)
      /\ Return(p) /\ UNCHANGED cards
  BY ItHasParts DEF Requests, Pages, CardChanged, tableVars
<1>2. Lonely(p)
  BY <1>1, WhoActsIsLonely DEF At, Answered
<1>3. /\ page'[w].open = page[w].open /\ page'[w].loading = page[w].loading
      /\ page'[w].shown = IF process[p].ok THEN ShownAfter(w, p) ELSE page[w].shown
      /\ \A v \in Window \ {w} : page'[v] = page[v]
  <2>1. page[w] \in Page /\ page' = [page EXCEPT ![w] =
           IF process[p].ok THEN [page[w] EXCEPT !.shown = ShownAfter(w, p)] ELSE page[w]]
    BY <1>1 DEF CardChanged, SetPage
  <2> QED
    BY <1>1, <2>1 DEF Page
<1>4. ASSUME NEW v \in Window, page'[v].open, ~page'[v].loading, v \notin missed'
      PROVE  Tells(page'[v].shown)
  <2>1. UpToDate(v)
    BY <1>3, <1>4 DEF CalmInv
  <2>2. CASE v = w /\ process[p].ok
    <3>1. Pending(w, p)
      BY <1>1, <2>2 DEF Pending
    <3> QED
      BY <1>3, <2>1, <2>2, <3>1 DEF UpToDate
  <2>3. CASE ~(v = w /\ process[p].ok)
    <3>1. \A q \in Process : ~Pending(v, q)
      BY <1>1, <1>2, <2>3, OnlyTheLonelyIsPending DEF Pending, Answered, Of
    <3> QED
      BY <1>3, <2>1, <2>3, <3>1 DEF UpToDate
  <2> QED
    BY <2>2, <2>3
<1> QED
  BY <1>1, <1>2, <1>4, EndsCalmly

LEMMA ProfileAnsweredCalm ==
    ASSUME IInv, CalmInv, calm, NEW w \in Window, NEW p \in Process,
           ProfileRefreshed(w, p) \/ ProfileSaved(w, p), UNCHANGED <<missed, calm>>
    PROVE  CalmInv'
<1>1. /\ process \in [Process -> Frame] /\ ~At(p, "idle")
      /\ process[p].kind \notin CardKind /\ UNCHANGED <<cards, page>>
  BY ItHasParts
     DEF Requests, ProfileRefreshed, ProfileSaved, Answered, At, CardKind, tableVars
<1>2. Lonely(p) /\ ~Ended(process[p])
  BY <1>1, WhoActsIsLonely DEF Ended, Changes, CardKind
<1>3. CASE Return(p)
  <2>1. \A v \in Window, q \in Process : ~Pending(v, q)
    BY <1>2, NothingPending
  <2>2. \A v \in Window : page'[v].open /\ ~page'[v].loading /\ v \notin missed' => Tells(page'[v].shown)
    BY <1>1, <2>1 DEF CalmInv, UpToDate
  <2> QED
    BY <1>1, <1>2, <1>3, <2>2, EndsCalmly
<1>4. CASE Begin(p, [Request("user", w, "read_score") EXCEPT !.user = profile])
  <2>1. /\ \A q \in Process \ {p} : process'[q] = process[q]
        /\ process'[p].kind = "user" /\ process'[p].at = "read_score"
    BY <1>1, <1>4 DEF Begin, Request, Idle
  <2>2. Stage(process[p])' /\ ~Ended(process[p])'
    BY <2>1, WorkOfKinds DEF Stage, CardKind, Changes, Ended
  <2> QED
    BY <1>1, <1>2, <2>1, <2>2, ReadsCalmly
<1> QED
  BY <1>3, <1>4 DEF ProfileRefreshed, ProfileSaved

LEMMA AnswerStepCalm ==
    ASSUME IInv, CalmInv, NEW w \in Window, NEW p \in Process, AnswerStep(w, p)
    PROVE  CalmInv'
<1>1. CASE calm
  BY <1>1, CardsLoadedCalm, CardChangedCalm, ProfileAnsweredCalm DEF AnswerStep
<1>2. CASE ~calm
  BY <1>2 DEF CalmInv, AnswerStep
<1> QED
  BY <1>1, <1>2

\* Nothing that the invariant speaks of changes.
LEMMA StaysCalm ==
    ASSUME CalmInv, UNCHANGED <<process, page, cards, missed, calm>>
    PROVE  CalmInv'
<1>1. CASE calm
  <2>1. /\ Attached' = Attached /\ Defaults' = Defaults
        /\ \A shown : Tells(shown)' <=> Tells(shown)
    BY SameCards DEF Tells
  <2>2. Alone' /\ OneDefault'
    BY <1>1, SameCards DEF CalmInv, Alone, At
  <2>3. \A p \in Process : Stage(process[p])'
    BY <1>1, <2>1 DEF CalmInv, Stage, Tells
  <2>4. \A w \in Window : UpToDate(w)' <=> UpToDate(w)
    BY <2>1 DEF UpToDate, Pending, Answered, At, Of, ShownAfter, CardAdded, WithDefault, Tells
  <2> QED
    BY <1>1, <2>2, <2>3, <2>4 DEF CalmInv
<1>2. CASE ~calm
  BY <1>2 DEF CalmInv
<1> QED
  BY <1>1, <1>2

\* A window that loads its list is not asked what it shows, and one that is closed is not either.
LEMMA FormStepCalm ==
    ASSUME IInv, CalmInv, NEW w \in Window, FormStep(w)
    PROVE  CalmInv'
<1>1. UNCHANGED <<process, cards, missed, calm>> /\ page \in [Window -> Page]
  BY ItHasParts DEF FormStep, Mount, OpenForm, ResetForm, CloseForm, Type, tableVars, Pages
<1>2. CASE UNCHANGED page
  BY <1>1, <1>2, StaysCalm
<1>3. CASE calm /\ Mount(w)
  <2>1. page'[w].loading /\ \A v \in Window \ {w} : page'[v] = page[v]
    BY <1>1, <1>3 DEF Mount, SetPage, Closed
  <2>2. /\ Attached' = Attached /\ Defaults' = Defaults
    BY <1>1, SameCards
  <2>3. Alone' /\ OneDefault'
    BY <1>1, <1>3, SameCards DEF CalmInv, Alone, At
  <2>4. \A p \in Process : Stage(process[p])'
    BY <1>1, <1>3, <2>2 DEF CalmInv, Stage, Tells
  <2>5. ASSUME NEW v \in Window \ {w}, UpToDate(v) PROVE UpToDate(v)'
    <3>1. \A q \in Process : Pending(v, q)' <=> Pending(v, q)
      BY <1>1 DEF Pending, Answered, At, Of
    <3>2. \A q \in Process : ShownAfter(v, q)' = ShownAfter(v, q)
      BY <1>1, <2>1 DEF ShownAfter, CardAdded, WithDefault
    <3> QED
      BY <2>1, <2>2, <2>5, <3>1, <3>2 DEF UpToDate, Tells
  <2> QED
    BY <1>1, <1>3, <2>1, <2>3, <2>4, <2>5 DEF CalmInv
<1>4. CASE ~calm
  BY <1>1, <1>4 DEF CalmInv
<1> QED
  BY <1>2, <1>3, <1>4 DEF FormStep, OpenForm, ResetForm, CloseForm, Type

LEMMA LeaveStepCalm ==
    ASSUME IInv, CalmInv, NEW w \in Window, LeaveStep(w)
    PROVE  CalmInv'
<1>1. /\ UNCHANGED <<cards, missed, calm>> /\ page \in [Window -> Page]
      /\ process \in [Process -> Frame] /\ Leave(w)
  BY ItHasParts DEF LeaveStep, Leave, tableVars, Pages, Requests
<1>2. CASE ~calm
  BY <1>1, <1>2 DEF CalmInv
<1>3. CASE calm
  <2>1. ~page'[w].open /\ \A v \in Window \ {w} : page'[v] = page[v]
    BY <1>1 DEF Leave, SetPage, Closed
  <2>2. \A q \in Process :
           /\ process'[q].at = process[q].at /\ process'[q].ok = process[q].ok
           /\ process'[q].card = process[q].card /\ process'[q].isDefault = process[q].isDefault
           /\ process'[q].clear = process[q].clear /\ process'[q].next = process[q].next
           /\ process'[q].shown = process[q].shown
           /\ \/ process'[q].kind = process[q].kind
              \/ process[q].kind = "save" /\ process'[q].kind = "left"
           /\ ~Of(w, q) => process'[q] = process[q]
           /\ Of(w, q) => process'[q].client \in {w, Nobody}
    BY <1>1 DEF Leave, Of, Frame
  <2>3. /\ Attached' = Attached /\ Defaults' = Defaults
    BY <1>1, SameCards
  <2>4. Alone' /\ OneDefault'
    BY <1>1, <1>3, <2>2, SameCards DEF CalmInv, Alone, At
  <2>5. ASSUME NEW q \in Process PROVE Stage(process[q])'
    <3>1. Stage(process[q])
      BY <1>3 DEF CalmInv
    <3>2. CASE process'[q].kind = process[q].kind
      BY <1>1, <2>2, <2>3, <3>1, <3>2 DEF Stage, Tells
    <3>3. CASE process[q].kind = "save" /\ process'[q].kind = "left"
      BY <1>1, <2>2, <2>3, <3>1, <3>3, WorkOfKinds DEF Stage, CardKind, Changes
    <3> QED
      BY <2>2, <3>2, <3>3
  <2>6. ASSUME NEW v \in Window \ {w}, UpToDate(v) PROVE UpToDate(v)'
    <3>1. \A q \in Process : Pending(v, q)' <=> Pending(v, q) /\ process'[q] = process[q]
      BY <2>2, AccountAssumption DEF Pending, Answered, At, Of
    <3>2. \A q \in Process : Pending(v, q) => process'[q] = process[q]
      BY <2>2 DEF Pending, Answered, Of
    <3>3. page'[v] = page[v]
      BY <2>1
    <3>4. \A q \in Process : process'[q] = process[q] => ShownAfter(v, q)' = ShownAfter(v, q)
      BY <3>3 DEF ShownAfter, CardAdded, WithDefault
    <3> QED
      BY <2>3, <2>6, <3>1, <3>2, <3>3, <3>4 DEF UpToDate, Tells
  <2> QED
    BY <1>1, <1>3, <2>1, <2>4, <2>5, <2>6 DEF CalmInv
<1> QED
  BY <1>2, <1>3

LEMMA CalmInit == Init => CalmInv
<1> SUFFICES ASSUME Init PROVE CalmInv
  OBVIOUS
<1>1. Attached = {} /\ Defaults = {}
  BY DEF Init, Attached, Defaults, NoRow
<1>2. \A p \in Process : Stage(process[p]) /\ At(p, "idle")
  <2>1. Stage(Idle)
    BY IdleIsElsewhere, ElsewhereStage
  <2> QED
    BY <2>1 DEF Init, At, Idle
<1>3. \A w \in Window : ~page[w].open
  BY DEF Init, PageInit, Closed
<1> QED
  BY <1>1, <1>2, <1>3 DEF CalmInv, Alone, OneDefault

LEMMA CalmNext == IInv /\ CalmInv /\ [Next]_vars => CalmInv'
<1> SUFFICES ASSUME IInv, CalmInv, [Next]_vars PROVE CalmInv'
  OBVIOUS
<1>1. CASE DealStep \/ TimeStep \/ UNCHANGED vars
  <2>1. UNCHANGED <<process, page, cards, missed, calm>>
    BY <1>1 DEF DealStep, SettleLate, CompleteDeal, DeleteDeal, TimeStep, ExpireAttempt, vars,
                tableVars, pageVars, tablesButVerification
  <2> QED
    BY <2>1, StaysCalm
<1>2. CASE \E p \in Process : \/ ContinueStep(p) \/ AnswerDropped(p) \/ FailStep(p)
                              \/ OtherStep(p) \/ EscalateStep(p) \/ JobStep(p)
  BY <1>2, ContinueStepCalm, AnswerDroppedCalm, FailStepCalm, OtherStepCalm
<1>3. CASE \E w \in Window : \/ FormStep(w) \/ LeaveStep(w)
                             \/ \E p \in Process : RequestStep(w, p) \/ AnswerStep(w, p)
  BY <1>3, FormStepCalm, LeaveStepCalm, RequestStepCalm, AnswerStepCalm
<1> QED
  BY <1>1, <1>2, <1>3 DEF Next

\* When one request was made after the other and none failed, at most one card is the default
\* one and it is attached; and a window whose list has been loaded, and for which nothing is on
\* its way, shows the cards there are and no default card that is not one, unless another client
\* has changed them since: what the page works out for itself from the answers to its requests
\* is what the backend has.
THEOREM CardsAreRight == Spec => []CalmCards
<1>1. IInv /\ CalmInv => CalmCards
  <2> SUFFICES ASSUME IInv, CalmInv, calm PROVE CalmCards
    BY DEF CalmCards
  <2>1. ASSUME NEW w \in Window, page[w].open, Quiet(w), w \notin missed
        PROVE  Tells(page[w].shown)
    <3>1. \A p \in Process : ~Pending(w, p)
      BY <2>1 DEF Quiet, Pending, Answered
    <3> QED
      BY <2>1, <3>1 DEF Quiet, CalmInv, UpToDate
  <2> QED
    BY <2>1 DEF CalmCards, CalmInv
<1>2. Spec => []CalmInv
  <2>1. IInv /\ IInv' /\ CalmInv /\ [Next]_vars => CalmInv'
    BY CalmNext
  <2> QED
    BY <2>1, CalmInit, AccountInvariant, PTL DEF Spec
<1> QED
  BY <1>1, <1>2, AccountInvariant, PTL
=============================================================================
