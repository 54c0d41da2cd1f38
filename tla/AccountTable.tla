----------------------------- MODULE AccountTable -----------------------------
(***************************************************************************)
(* The account of one user of Rento: payment cards, identity verification, *)
(* trust score and profile, and the requests that work on them.  Accounts  *)
(* do not depend on one another.  The profile's own requests are here, the *)
(* others in modules of their own.                                         *)
(***************************************************************************)
EXTENDS Integers, FiniteSets

CONSTANTS
    Card,               \* the cards, each known by its token
    NoCard,
    Column, Value,      \* the columns of the profile, and what is written there
    MaxDeals,           \* bound: the completed bookings
    Window, Nobody,     \* the browser windows; nobody waits for the answer
    Process             \* the requests that can be in flight together

VARIABLES
    cards,          \* the rows of UserPaymentMethod
    verification,   \* the row of IdentityVerification
    deals,          \* what the bookings say of the user
    score,          \* the row of TrustScore
    profile,        \* the columns of User that the user edits
    process         \* the requests

tableVars == <<cards, verification, deals, score, profile>>

ASSUME AccountAssumption ==
    /\ NoCard \notin Card /\ IsFiniteSet(Card)
    /\ MaxDeals \in Nat
    /\ Nobody \notin Window
    /\ Value # {}

\* addedAt is the place of the row in the order of creation; 0 is no row.
CardRow == [status : {"NONE", "ATTACHED", "REVOKED"}, isDefault : BOOLEAN, addedAt : Nat]
NoRow == [status |-> "NONE", isDefault |-> FALSE, addedAt |-> 0]

\* expired tells that expiresAt has passed.
Verification == [status : {"NONE", "PENDING", "VERIFIED", "REJECTED", "EXPIRED"},
                 expired : BOOLEAN]

\* The completed bookings, and those of them that count as returned late.
Deals == {d \in [completed : 0..MaxDeals, late : 0..MaxDeals] : d.late <= d.completed}

\* Before the first calculation there is no row.
Score == [exists : BOOLEAN, totalDeals : Nat, successfulDeals : Nat, lateReturns : Nat,
          currentScore : Int]
NoScore == [exists |-> FALSE, totalDeals |-> 0, successfulDeals |-> 0, lateReturns |-> 0,
            currentScore |-> 0]

\* What a list of cards shows of each: it is not there, it is, it is the default one.
Shown == [Card -> {"none", "plain", "default"}]
NothingShown == [c \in Card |-> "none"]

Kind == {"none", "list", "attach", "default", "remove", "initiate", "callback", "escalate",
         "recalculate", "user", "save", "left"}

Label == {"idle", "list", "attach_find", "attach_count", "attach_begin", "attach_commit",
          "reattach_begin", "reattach_commit",
          "default_begin", "default_commit", "remove_begin", "remove_commit",
          "initiate_write", "callback_write", "escalate",
          "read_score", "read_verification", "read_deals", "count_deals",
          "list_deals", "write_score",
          "save_write", "answer"}

Outcome == {"none", "VERIFIED", "REJECTED", "EXPIRED"}

Frame == [kind : Kind,
          at : Label,
          client : Window \cup {Nobody},
          card : Card \cup {NoCard},
          setAsDefault : {"yes", "no", "unsaid"},
          isDefault : BOOLEAN,          \* the card was the default, or is to be
          clear : SUBSET Card,          \* the rows an updateMany has found
          next : Card \cup {NoCard},    \* the card that is promoted
          outcome : Outcome,            \* of a callback
          found : [verified : BOOLEAN, total : Nat, late : Nat],
          body : [Column -> Value \cup {"unsaid"}],
          shown : Shown,                \* the answer of a list
          user : [Column -> Value],     \* the profile that was read
          typed : SUBSET Column,        \* history: what was typed in the form that is saved
          ok : BOOLEAN]                 \* the answer is not an error

NothingFound == [verified |-> FALSE, total |-> 0, late |-> 0]
EmptyBody == [c \in Column |-> "unsaid"]

Idle == [kind |-> "none", at |-> "idle", client |-> Nobody, card |-> NoCard,
         setAsDefault |-> "unsaid", isDefault |-> FALSE, clear |-> {}, next |-> NoCard,
         outcome |-> "none", found |-> NothingFound, body |-> EmptyBody,
         shown |-> NothingShown, typed |-> {}, user |-> [c \in Column |-> CHOOSE v \in Value : TRUE],
         ok |-> FALSE]

TableTypeOK == /\ cards \in [Card -> CardRow]
               /\ verification \in Verification
               /\ deals \in Deals
               /\ score \in Score
               /\ profile \in [Column -> Value]
               /\ process \in [Process -> Frame]

At(p, label) == process[p].at = label

Begin(p, frame) == process' = [process EXCEPT ![p] = frame]
GoTo(p, label) == process' = [process EXCEPT ![p].at = label]

\* What the answer does not tell is forgotten.
Answer(p, ok) ==
    process' = [process EXCEPT ![p] = [@ EXCEPT !.at = "answer", !.ok = ok, !.clear = {},
                                                !.next = NoCard, !.outcome = "none",
                                                !.found = NothingFound, !.body = EmptyBody,
                                                !.typed = {}, !.setAsDefault = "unsaid"]]
Return(p) == Begin(p, Idle)

Request(kind, client, label) ==
    [Idle EXCEPT !.kind = kind, !.client = client, !.at = label]

Attached == {c \in Card : cards[c].status = "ATTACHED"}
Defaults == {c \in Card : cards[c].isDefault}

-----------------------------------------------------------------------------
(* UsersService: the columns of the user's row that the user edits.  What  *)
(* is answered is the row as it was read or written; then the trust score  *)
(* is read, which may calculate it.                                        *)

GetCurrentUser(p, client) ==
    /\ At(p, "idle")
    /\ Begin(p, [Request("user", client, "read_score") EXCEPT !.user = profile])
    /\ UNCHANGED tableVars

UpdateCurrentUser(p, client, body, typed) ==
    /\ At(p, "idle")
    /\ Begin(p, [Request("save", client, "save_write") EXCEPT !.body = body, !.typed = typed])
    /\ UNCHANGED tableVars

\* Columns that the body does not name stay.
Updated(body) == [c \in Column |-> IF body[c] = "unsaid" THEN profile[c] ELSE body[c]]

WriteUser(p) ==
    /\ At(p, "save_write")
    /\ profile' = Updated(process[p].body)
    /\ GoTo(p, "read_score")
    /\ UNCHANGED <<cards, verification, deals, score>>
=============================================================================
