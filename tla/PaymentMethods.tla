---------------------------- MODULE PaymentMethods ----------------------------
(***************************************************************************)
(* The cards of a user: PaymentMethodsService.  A change runs in a         *)
(* transaction at Read Committed; it finds the default cards that are      *)
(* committed when its updateMany begins, clears those and no others, and   *)
(* is seen when it commits.  What it decides on was read before it began.  *)
(***************************************************************************)
EXTENDS AccountTable

otherTables == <<verification, deals, score, profile>>

ListMethods(p, client) ==
    /\ At(p, "idle")
    /\ Begin(p, Request("list", client, "list"))
    /\ UNCHANGED tableVars

FindMethods(p) ==
    /\ At(p, "list")
    /\ process' = [process EXCEPT ![p].at = "answer", ![p].ok = TRUE,
                      ![p].shown = [c \in Card |-> IF c \notin Attached THEN "none"
                                                   ELSE IF cards[c].isDefault THEN "default"
                                                   ELSE "plain"]]
    /\ UNCHANGED tableVars

-----------------------------------------------------------------------------

\* The gateway verifies the token first.
AddCard(p, client, c, setAsDefault) ==
    /\ At(p, "idle")
    /\ Begin(p, [Request("attach", client, "attach_find") EXCEPT !.card = c,
                                                                 !.setAsDefault = setAsDefault])
    /\ UNCHANGED tableVars

FindExisting(p) ==
    /\ At(p, "attach_find")
    /\ LET status == cards[process[p].card].status
       IN  IF status = "ATTACHED" THEN Answer(p, FALSE)
           ELSE IF status = "REVOKED"
           THEN process' = [process EXCEPT ![p].at = "reattach_begin",
                                           ![p].isDefault = process[p].setAsDefault = "yes"]
           ELSE GoTo(p, "attach_count")
    /\ UNCHANGED tableVars

\* setAsDefault ?? hasExistingCards === 0
CountExisting(p) ==
    /\ At(p, "attach_count")
    /\ process' = [process EXCEPT ![p].at = "attach_begin",
                      ![p].isDefault = \/ process[p].setAsDefault = "yes"
                                       \/ process[p].setAsDefault = "unsaid" /\ Attached = {}]
    /\ UNCHANGED tableVars

\* A transaction begins with the default cards it will clear, if it makes one the default.
ClearDefaults(p, next) ==
    process' = [process EXCEPT ![p].at = next,
                               ![p].clear = IF process[p].isDefault THEN Defaults ELSE {}]

BeginChange(p) ==
    /\ \/ At(p, "attach_begin") /\ ClearDefaults(p, "attach_commit")
       \/ At(p, "reattach_begin") /\ ClearDefaults(p, "reattach_commit")
       \/ At(p, "default_begin") /\ ClearDefaults(p, "default_commit")
    /\ UNCHANGED tableVars

Cleared(p) == [c \in Card |-> IF c \in process[p].clear
                              THEN [cards[c] EXCEPT !.isDefault = FALSE] ELSE cards[c]]

NewRow(isDefault) == [status |-> "ATTACHED", isDefault |-> isDefault,
                      addedAt |-> 1 + Cardinality({c \in Card : cards[c].status # "NONE"})]

\* The token may have been attached meanwhile, which the unique index refuses.
CreateCard(p) ==
    /\ At(p, "attach_commit")
    /\ LET c == process[p].card
       IN  IF cards[c].status # "NONE"
           THEN Answer(p, FALSE) /\ UNCHANGED cards
           ELSE /\ cards' = [Cleared(p) EXCEPT ![c] = NewRow(process[p].isDefault)]
                /\ Answer(p, TRUE)
    /\ UNCHANGED otherTables

\* A card that was removed keeps its place in the order.
ReattachCard(p) ==
    /\ At(p, "reattach_commit")
    /\ cards' = [Cleared(p) EXCEPT ![process[p].card].status = "ATTACHED",
                                   ![process[p].card].isDefault = process[p].isDefault]
    /\ Answer(p, TRUE)
    /\ UNCHANGED otherTables

-----------------------------------------------------------------------------

SetDefault(p, client, c) ==
    /\ At(p, "idle")
    /\ Begin(p, [Request("default", client, IF c \in Attached THEN "default_begin" ELSE "answer")
                    EXCEPT !.card = c, !.isDefault = TRUE])
    /\ UNCHANGED tableVars

MakeDefault(p) ==
    /\ At(p, "default_commit")
    /\ cards' = [Cleared(p) EXCEPT ![process[p].card].isDefault = TRUE]
    /\ Answer(p, TRUE)
    /\ UNCHANGED otherTables

RemoveCard(p, client, c) ==
    /\ At(p, "idle")
    /\ Begin(p, [Request("remove", client, IF c \in Attached THEN "remove_begin" ELSE "answer")
                    EXCEPT !.card = c, !.isDefault = cards[c].isDefault])
    /\ UNCHANGED tableVars

Oldest(some) == {c \in some : \A d \in some : cards[c].addedAt <= cards[d].addedAt}

\* If the card was the default when it was read, the oldest one that is left is promoted.
FindNext(p) ==
    /\ At(p, "remove_begin")
    /\ LET left == Attached \ {process[p].card}
       IN  IF process[p].isDefault /\ left # {}
           THEN \E c \in Oldest(left) : process' = [process EXCEPT ![p].at = "remove_commit",
                                                                   ![p].next = c]
           ELSE GoTo(p, "remove_commit")
    /\ UNCHANGED tableVars

\* Mutant: a removed card stays the default.
RevokeOnly(p) ==
    /\ At(p, "remove_commit")
    /\ cards' = [c \in Card |->
                    IF c = process[p].card THEN [cards[c] EXCEPT !.status = "REVOKED"]
                    ELSE IF c = process[p].next THEN [cards[c] EXCEPT !.isDefault = TRUE]
                    ELSE cards[c]]
    /\ Answer(p, TRUE)
    /\ UNCHANGED otherTables

RevokeCard(p) ==
    /\ At(p, "remove_commit")
    /\ cards' = [c \in Card |->
                    IF c = process[p].card
                    THEN [cards[c] EXCEPT !.status = "REVOKED", !.isDefault = FALSE]
                    ELSE IF c = process[p].next THEN [cards[c] EXCEPT !.isDefault = TRUE]
                    ELSE cards[c]]
    /\ Answer(p, TRUE)
    /\ UNCHANGED otherTables

ContinueCards(p) ==
    \/ FindMethods(p) \/ FindExisting(p) \/ CountExisting(p) \/ BeginChange(p)
    \/ CreateCard(p) \/ ReattachCard(p) \/ MakeDefault(p)
    \/ FindNext(p) \/ RevokeCard(p)
=============================================================================
