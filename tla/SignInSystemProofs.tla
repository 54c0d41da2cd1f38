-------------------------- MODULE SignInSystemProofs --------------------------
(***************************************************************************)
(* What SignInSystem promises, for any addresses, Telegram accounts,       *)
(* windows, credentials and requests.                                      *)
(***************************************************************************)
EXTENDS SignInSystem, FiniteSetTheorems, TLAPS

-----------------------------------------------------------------------------
(* What a step does to the requests.                                       *)

LEMMA IdleFrame == Idle \in Frame /\ Fits(Idle) /\ ~Works(Idle) /\ ~Earns(Idle)
BY AuthAssumption DEF Idle, Frame, Kind, Label, Fits, Works, IsConfirming, Earns, Spending, Granting

LEMMA RequestFrame ==
    ASSUME NEW kind \in Kind, NEW client \in Window \cup Telegram \cup {Nobody}, NEW label \in Label
    PROVE  /\ Request(kind, client, label) \in Frame
           /\ Request(kind, client, label).kind = kind
           /\ Request(kind, client, label).at = label
           /\ Request(kind, client, label).client = client
           /\ Request(kind, client, label).key = NoKey
           /\ Request(kind, client, label).user = NoUser
           /\ Request(kind, client, label).telegram = NoTelegram
           /\ ~Request(kind, client, label).ok
           /\ Request(kind, client, label).mounted <=> client \in Window
<1> DEFINE mounted == client \in Window
<1>1. mounted \in BOOLEAN
  OBVIOUS
<1>2. Request(kind, client, label) =
          [Idle EXCEPT !.kind = kind, !.at = label, !.client = client, !.mounted = mounted]
  BY DEF Request
<1>3. mounted <=> client \in Window
  OBVIOUS
<1> HIDE DEF mounted
<1>4. /\ Request(kind, client, label) \in Frame
      /\ Request(kind, client, label).kind = kind
      /\ Request(kind, client, label).at = label
      /\ Request(kind, client, label).client = client
      /\ Request(kind, client, label).key = NoKey
      /\ Request(kind, client, label).user = NoUser
      /\ Request(kind, client, label).telegram = NoTelegram
      /\ ~Request(kind, client, label).ok
      /\ Request(kind, client, label).mounted = mounted
  BY <1>1, <1>2 DEF Idle, Frame
<1> QED
  BY <1>3, <1>4

Fields(f, kind, client, label, k, u, t) ==
    /\ f \in Frame
    /\ f.kind = kind /\ f.at = label /\ f.client = client
    /\ f.key = k /\ f.user = u /\ f.telegram = t /\ ~f.ok
    /\ f.mounted <=> client \in Window

\* A request that brings a key, and knows a user and a Telegram account.
LEMMA RequestFields ==
    ASSUME NEW kind \in Kind, NEW client \in Window \cup Telegram \cup {Nobody}, NEW label \in Label,
           NEW k \in Key \cup {NoKey}, NEW u \in User \cup {NoUser},
           NEW t \in Telegram \cup {NoTelegram}
    PROVE  /\ Fields(Request(kind, client, label), kind, client, label, NoKey, NoUser, NoTelegram)
           /\ Fields([Request(kind, client, label) EXCEPT !.key = k],
                     kind, client, label, k, NoUser, NoTelegram)
           /\ Fields([Request(kind, client, label) EXCEPT !.user = u],
                     kind, client, label, NoKey, u, NoTelegram)
           /\ Fields([Request(kind, client, label) EXCEPT !.telegram = t],
                     kind, client, label, NoKey, NoUser, t)
           /\ Fields([Request(kind, client, label) EXCEPT !.key = k, !.user = u],
                     kind, client, label, k, u, NoTelegram)
           /\ Fields([Request(kind, client, label) EXCEPT !.key = k, !.telegram = t],
                     kind, client, label, k, NoUser, t)
           /\ Fields([Request(kind, client, label) EXCEPT !.key = k, !.user = u, !.telegram = t],
                     kind, client, label, k, u, t)
<1> DEFINE request == Request(kind, client, label)
<1>1. Fields(request, kind, client, label, NoKey, NoUser, NoTelegram)
  BY RequestFrame DEF Fields
<1> HIDE DEF request
<1>2. /\ Fields([request EXCEPT !.key = k], kind, client, label, k, NoUser, NoTelegram)
      /\ Fields([request EXCEPT !.user = u], kind, client, label, NoKey, u, NoTelegram)
      /\ Fields([request EXCEPT !.telegram = t], kind, client, label, NoKey, NoUser, t)
  BY <1>1 DEF Fields, Frame
<1>3. /\ Fields([request EXCEPT !.key = k, !.user = u], kind, client, label, k, u, NoTelegram)
      /\ Fields([request EXCEPT !.key = k, !.telegram = t], kind, client, label, k, NoUser, t)
      /\ Fields([request EXCEPT !.key = k, !.user = u, !.telegram = t],
                kind, client, label, k, u, t)
  BY <1>1 DEF Fields, Frame
<1> QED
  BY <1>1, <1>2, <1>3, Zenon DEF request

LEMMA BeginStep ==
    ASSUME process \in [Process -> Frame], NEW p \in Process, NEW frame \in Frame, Begin(p, frame)
    PROVE  /\ process' \in [Process -> Frame]
           /\ process'[p] = frame
           /\ \A q \in Process \ {p} : process'[q] = process[q]
BY DEF Begin

LEMMA GoToStep ==
    ASSUME process \in [Process -> Frame], NEW p \in Process, NEW label \in Label, GoTo(p, label)
    PROVE  /\ process' \in [Process -> Frame]
           /\ process'[p] = [process[p] EXCEPT !.at = label]
           /\ \A q \in Process \ {p} : process'[q] = process[q]
BY DEF GoTo, Frame

LEMMA AnswerStep ==
    ASSUME process \in [Process -> Frame], NEW p \in Process, NEW ok \in BOOLEAN, Answer(p, ok)
    PROVE  /\ process' \in [Process -> Frame]
           /\ process'[p].at = "answer" /\ process'[p].ok = ok
           /\ process'[p].kind = process[p].kind /\ process'[p].client = process[p].client
           /\ process'[p].user = process[p].user /\ process'[p].key = process[p].key
           /\ process'[p].telegram = process[p].telegram
           /\ process'[p].mounted = process[p].mounted
           /\ \A q \in Process \ {p} : process'[q] = process[q]
BY DEF Answer, Frame, Label

-----------------------------------------------------------------------------
(* A request is as it was, except for who waits for it; or it has changed  *)
(* in a way that the part of the invariant allows.                         *)

Kept(q) ==
    /\ process'[q].kind = process[q].kind
    /\ process'[q].at = process[q].at
    /\ process'[q].user = process[q].user
    /\ process'[q].telegram = process[q].telegram
    /\ process'[q].key = process[q].key
    /\ process'[q].ok = process[q].ok
    /\ process'[q].client \in {process[q].client, Nobody}

FrameRenewed(q) ==
    /\ Fits(process'[q])
    /\ Works(process'[q]) =>
           process'[q].key \in Key /\ credential'[process'[q].key].kind # "none"

EarnsRenewed(q) ==
    Earns(process'[q]) /\ process'[q].user \in Email => users'[process'[q].user].confirmed

Same(q) == process[q].at \in Spending /\ process'[q].key = process[q].key

HoldsRenewed(q) ==
    /\ process'[q].at \in Spending => Same(q) \/ ~credential[process'[q].key].used
    /\ process'[q].at = "issue" /\ process'[q].key \in Key =>
           Same(q) /\ credential'[process'[q].key].used


ConfirmingRenewed(q) ==
    IsConfirming(process'[q]) => IsConfirming(process[q]) /\ process'[q].key = process[q].key

LEMMA FrameKept ==
    ASSUME TypeOK, FrameInv,
           \A q \in Process : Kept(q) \/ FrameRenewed(q),
           \A k \in Key : credential'[k].kind = "none" => credential'[k] = credential[k],
           \A w \in Window : window'[w].status = "mounting" => window'[w].key \in Key
    PROVE  FrameInv'
<1>1. ASSUME NEW q \in Process PROVE Fits(process'[q])
  BY <1>1, AuthAssumption DEF FrameInv, FrameRenewed, Kept, Fits
<1>2. ASSUME NEW q \in Process, Works(process'[q])
      PROVE  process'[q].key \in Key /\ credential'[process'[q].key].kind # "none"
  <2>1. CASE Kept(q)
    <3>1. Works(process[q]) /\ process'[q].key = process[q].key
      BY <1>2, <2>1 DEF Kept, Works, IsConfirming
    <3> QED
      BY <3>1 DEF FrameInv, Its
  <2> QED
    BY <1>2, <2>1 DEF FrameRenewed
<1>3. \A k \in Key : credential'[k].kind = "none" => credential'[k] = NoCredential
  BY DEF FrameInv
<1> QED
  BY <1>1, <1>2, <1>3 DEF FrameInv, Its

LEMMA ConfirmedKept ==
    ASSUME TypeOK, ConfirmedInv,
           \A q \in Process : Kept(q) \/ EarnsRenewed(q),
           \A u \in Email : \/ users'[u] = users[u]
                            \/ users'[u].confirmed /\ users'[u].status = "ACTIVE"
                            \/ ~users[u].confirmed /\ users'[u] = EmailRow,
           \A k \in Key : \/ credential'[k].kind = credential[k].kind
                             /\ credential'[k].user = credential[k].user
                          \/ credential'[k].kind \in {"link", "exchange"} =>
                             /\ credential'[k].user \in Email =>
                                    users'[credential'[k].user].confirmed,
           signedIn' = signedIn \/ (signedIn' \in Email => users'[signedIn'].confirmed)
    PROVE  ConfirmedInv'
<1>1. \A u \in Email : users[u].confirmed => users'[u].confirmed
  BY DEF ConfirmedInv
<1>2. \A u \in Email : \/ users'[u].confirmed /\ users'[u].status = "ACTIVE"
                       \/ /\ ~users'[u].confirmed /\ users'[u].status # "ACTIVE"
                          /\ users'[u].telegramId = NoTelegram
  BY DEF ConfirmedInv, EmailRow, AbsentRow
<1>3. ASSUME NEW q \in Process, Earns(process'[q]), process'[q].user \in Email
      PROVE  users'[process'[q].user].confirmed
  <2>1. CASE Kept(q)
    <3>1. Earns(process[q]) /\ process'[q].user = process[q].user
      BY <1>3, <2>1 DEF Kept, Earns
    <3> QED
      BY <1>1, <1>3, <3>1 DEF ConfirmedInv
  <2> QED
    BY <1>3, <2>1 DEF EarnsRenewed
<1>4. \A k \in Key : credential'[k].kind \in {"link", "exchange"} /\ credential'[k].user \in Email =>
          users'[credential'[k].user].confirmed
  BY <1>1 DEF ConfirmedInv
<1>5. signedIn' \in Email => users'[signedIn'].confirmed
  BY <1>1 DEF ConfirmedInv
<1> QED
  BY <1>2, <1>3, <1>4, <1>5 DEF ConfirmedInv

LEMMA HoldersFinite ==
    \A k \in Key : /\ IsFiniteSet(Holders(k)) /\ Cardinality(Holders(k)) \in Nat
                   /\ Cardinality(Holders(k)) <= Cardinality(Process)
                   /\ Cardinality(Process) \in Nat
BY AuthAssumption, FS_Subset, FS_CardinalityType DEF Holders

LEMMA HoldersFiniteNext ==
    \A k \in Key : /\ IsFiniteSet(Holders(k)') /\ Cardinality(Holders(k)') \in Nat
                   /\ Cardinality(Holders(k)') <= Cardinality(Process)
BY AuthAssumption, FS_Subset, FS_CardinalityType DEF Holders

LEMMA GrantKept ==
    ASSUME TypeOK, GrantInv, granted' = granted,
           \A q \in Process : Kept(q) \/ HoldsRenewed(q),
           \A k \in Key : credential[k].used => credential'[k].used
    PROVE  GrantInv'
<1> SUFFICES ASSUME NEW k \in Key
             PROVE  /\ ~credential'[k].used =>
                          /\ granted[k] = 0
                          /\ \A q \in Process : process'[q].at = "issue" => process'[q].key # k
                    /\ granted[k] + Cardinality(Holders(k)') <= Cardinality(Process)
  BY DEF GrantInv, At, Its
<1>1. ASSUME ~credential'[k].used, NEW q \in Process, process'[q].at = "issue"
      PROVE  process'[q].key # k
  BY <1>1 DEF GrantInv, Kept, HoldsRenewed, Same, At, Its
<1>2. CASE credential[k].used
  <2>1. Holders(k)' \subseteq Holders(k)
    BY <1>2 DEF Holders, Kept, HoldsRenewed, Same, At, Its
  <2>2. Cardinality(Holders(k)') <= Cardinality(Holders(k))
    BY <2>1, HoldersFinite, FS_Subset
  <2> QED
    BY <1>1, <1>2, <2>2, HoldersFinite, HoldersFiniteNext DEF GrantInv, TypeOK, AuthTypeOK
<1>3. CASE ~credential[k].used
  BY <1>1, <1>3, HoldersFiniteNext, HoldersFinite DEF GrantInv
<1> QED
  BY <1>2, <1>3

LEMMA ConfirmingFinite ==
    \A k \in Key : IsFiniteSet(Confirming(k)) /\ Cardinality(Confirming(k)) \in Nat
BY AuthAssumption, FS_Subset, FS_CardinalityType DEF Confirming

LEMMA CodesKept ==
    ASSUME TypeOK, CodeInv, starts' = starts,
           \A q \in Process : Kept(q) \/ ConfirmingRenewed(q),
           \A k \in Key : credential'[k].attempt = credential[k].attempt,
           pendingLogin' = pendingLogin \/ pendingLogin' = [telegram \in Telegram |-> NoKey]
    PROVE  CodeInv'
<1> SUFFICES ASSUME NEW k \in Key
             PROVE  /\ IsFiniteSet(Wanted(k)') /\ IsFiniteSet(Codes(k)')
                    /\ Cardinality(Wanted(k)') + Cardinality(Confirming(k)')
                          + Cardinality(Codes(k)') <= starts[k]
  BY DEF CodeInv
<1>1. Codes(k)' = Codes(k)
  BY DEF Codes
<1>2. Wanted(k)' \subseteq Wanted(k)
  BY AuthAssumption DEF Wanted
<1>3. Confirming(k)' \subseteq Confirming(k)
  BY DEF Confirming, Kept, ConfirmingRenewed, IsConfirming, Its
<1>4. IsFiniteSet(Wanted(k)) /\ IsFiniteSet(Codes(k))
  BY DEF CodeInv
<1>5. /\ IsFiniteSet(Wanted(k)') /\ Cardinality(Wanted(k)') <= Cardinality(Wanted(k))
      /\ Cardinality(Wanted(k)') \in Nat /\ Cardinality(Wanted(k)) \in Nat
  BY <1>2, <1>4, FS_Subset, FS_CardinalityType
<1>6. /\ Cardinality(Confirming(k)') <= Cardinality(Confirming(k))
      /\ Cardinality(Confirming(k)') \in Nat
  BY <1>3, ConfirmingFinite, FS_Subset, FS_CardinalityType
<1>7. Cardinality(Codes(k)) \in Nat
  BY <1>4, FS_CardinalityType
<1> QED
  BY <1>1, <1>4, <1>5, <1>6, <1>7, ConfirmingFinite DEF CodeInv, TypeOK, BotTypeOK

Moved(q) == FrameRenewed(q) /\ EarnsRenewed(q) /\ HoldsRenewed(q) /\ ConfirmingRenewed(q)

Goes == process' \in [Process -> Frame] /\ \A q \in Process : Kept(q) \/ Moved(q)

\* The users, the credentials and what was granted stay.
LEMMA QuietStep ==
    ASSUME IInv, Goes,
           UNCHANGED <<users, credential, granted, starts>>, known' \subseteq Key,
           pendingLogin' = pendingLogin \/ pendingLogin' = [telegram \in Telegram |-> NoKey],
           window' \in [Window -> Shown],
           \A w \in Window : window'[w].status = "mounting" => window'[w].key \in Key,
           signedIn' \in User \cup {NoUser},
           signedIn' = signedIn \/ (signedIn' \in Email => users[signedIn'].confirmed),
           workload' \subseteq Happening, calm' \in BOOLEAN
    PROVE  IInv'
<1>1. TypeOK'
  BY DEF IInv, TypeOK, AuthTypeOK, BotTypeOK, PagesTypeOK, Goes
<1>2. FrameInv'
  BY FrameKept DEF IInv, Goes, Moved
<1>3. ConfirmedInv'
  BY ConfirmedKept DEF IInv, Goes, Moved
<1>4. GrantInv'
  BY GrantKept DEF IInv, Goes, Moved
<1>5. CodeInv'
  BY CodesKept DEF IInv, Goes, Moved
<1> QED
  BY <1>1, <1>2, <1>3, <1>4, <1>5 DEF IInv

\* Nothing moves.
LEMMA StillGoes ==
    ASSUME IInv, UNCHANGED process
    PROVE  Goes
BY DEF Goes, Kept, IInv, TypeOK, AuthTypeOK

LEMMA OneGoes ==
    ASSUME process' \in [Process -> Frame], NEW p \in Process, Moved(p),
           \A q \in Process \ {p} : process'[q] = process[q]
    PROVE  Goes
BY DEF Goes, Kept

LEMMA ReturnGoes ==
    ASSUME IInv, NEW p \in Process, Return(p)
    PROVE  Goes
<1>1. process \in [Process -> Frame]
  BY DEF IInv, TypeOK, AuthTypeOK
<1>2. /\ process' \in [Process -> Frame] /\ process'[p] = Idle
      /\ \A q \in Process \ {p} : process'[q] = process[q]
  BY <1>1, IdleFrame, BeginStep DEF Return
<1>3. Moved(p)
  BY <1>2, IdleFrame DEF Moved, FrameRenewed, EarnsRenewed, HoldsRenewed, ConfirmingRenewed,
     IsConfirming, Idle, Spending
<1> QED
  BY <1>2, <1>3, OneGoes

\* A request goes on with an error.
LEMMA ErrorGoes ==
    ASSUME IInv, NEW p \in Process, Answer(p, FALSE)
    PROVE  Goes
<1>1. process \in [Process -> Frame] /\ Fits(process[p])
  BY DEF IInv, TypeOK, AuthTypeOK, FrameInv
<1>2. /\ process' \in [Process -> Frame]
      /\ process'[p].at = "answer" /\ process'[p].ok = FALSE
      /\ process'[p].kind = process[p].kind /\ process'[p].client = process[p].client
      /\ process'[p].user = process[p].user /\ process'[p].key = process[p].key
      /\ \A q \in Process \ {p} : process'[q] = process[q]
  BY <1>1, AnswerStep
<1>3. Moved(p)
  BY <1>1, <1>2 DEF Moved, FrameRenewed, EarnsRenewed, HoldsRenewed, ConfirmingRenewed,
     IsConfirming, Spending, Fits, Works, Earns
<1> QED
  BY <1>2, <1>3, OneGoes

-----------------------------------------------------------------------------
(* What a new request may be, so that the invariant has nothing to say of  *)
(* it but what it has just read.                                           *)

Acceptable(f) ==
    /\ Fits(f) /\ ~IsConfirming(f)
    /\ Works(f) => /\ f.key \in Key /\ credential[f.key].kind # "none"
                   /\ ~credential[f.key].used
    /\ f.at = "issue" => f.key = NoKey
    /\ Earns(f) /\ f.user \in Email => users[f.user].confirmed

\* The request brings the key k, and has found it good if it goes on.
Begun(p, kind, client, k) ==
    \E frame \in Frame :
       /\ Begin(p, frame) /\ Acceptable(frame)
       /\ frame.kind = kind /\ frame.client = client /\ frame.key = k
       /\ frame.mounted <=> client \in Window
       /\ kind \in Link /\ frame.at = "answer" => ~IsGood(k, LinkOf(kind))

LEMMA BegunGoes ==
    ASSUME IInv, NEW p \in Process, UNCHANGED <<users, credential>>,
           NEW kind, NEW client, NEW k, Begun(p, kind, client, k)
    PROVE  Goes
<1>0. PICK frame \in Frame : Begin(p, frame) /\ Acceptable(frame)
  BY DEF Begun
<1>1. process \in [Process -> Frame]
  BY DEF IInv, TypeOK, AuthTypeOK
<1>2. /\ process' \in [Process -> Frame] /\ process'[p] = frame
      /\ \A q \in Process \ {p} : process'[q] = process[q]
  BY <1>0, <1>1, BeginStep
<1>3. Moved(p)
  BY <1>0, <1>2, AuthAssumption DEF Acceptable, Moved, FrameRenewed, EarnsRenewed, HoldsRenewed,
     ConfirmingRenewed, Works
<1> QED
  BY <1>2, <1>3, OneGoes

LEMMA RefuseBegins ==
    ASSUME IInv, NEW p \in Process, NEW kind \in Kind \ {"auth"},
           NEW client \in Window \cup Telegram \cup {Nobody}, NEW k \in Key \cup {NoKey},
           client \in Telegram => kind = "login_confirm", kind = "login" => k = NoKey,
           kind \in Link => ~IsGood(k, LinkOf(kind)),
           Refuse(p, kind, client, k)
    PROVE  Begun(p, kind, client, k)
<1> DEFINE frame == [Request(kind, client, "answer") EXCEPT !.key = k]
<1>1. Fields(frame, kind, client, "answer", k, NoUser, NoTelegram)
  BY RequestFields, Zenon DEF Label
<1>2. Begin(p, frame)
  BY DEF Refuse
<1> HIDE DEF frame
<1>3. frame \in Frame /\ Acceptable(frame)
  BY <1>1 DEF Fields, Acceptable, Fits, IsConfirming, Works, Earns, Spending
<1> QED
  BY <1>1, <1>2, <1>3, Zenon DEF Begun, Fields, Link

LEMMA RegisterBegins ==
    ASSUME IInv, NEW p \in Process, NEW client \in Window, NEW email \in Email,
           Register(p, client, email)
    PROVE  Begun(p, "register", client, NoKey)
<1>1. CASE Exists(email)
  BY <1>1, RefuseBegins, AuthAssumption DEF Link, LinkOf, Register, Kind
<1>2. CASE ~Exists(email)
  <2> DEFINE frame == [Request("register", client, "create_user") EXCEPT !.user = email]
  <2>1. Fields(frame, "register", client, "create_user", NoKey, email, NoTelegram)
    BY RequestFields, Zenon DEF Kind, Label, User
  <2>2. Begin(p, frame)
    BY <1>2 DEF Register
  <2> HIDE DEF frame
  <2>3. frame \in Frame /\ Acceptable(frame)
    BY <2>1, AuthAssumption DEF Fields, Acceptable, Fits, IsConfirming, Works, Earns, Spending
  <2> QED
    BY <2>1, <2>2, <2>3, Zenon DEF Begun, Fields, Link
<1> QED
  BY <1>1, <1>2

LEMMA ResendBegins ==
    ASSUME IInv, NEW p \in Process, NEW client \in Window, NEW email \in Email,
           ResendConfirmation(p, client, email)
    PROVE  Begun(p, "resend", client, NoKey)
<1>1. CASE Exists(email) /\ ~users[email].confirmed
  <2> DEFINE frame == [Request("resend", client, "create_token") EXCEPT !.user = email]
  <2>1. Fields(frame, "resend", client, "create_token", NoKey, email, NoTelegram)
    BY RequestFields, Zenon DEF Kind, Label, User
  <2>2. Begin(p, frame)
    BY <1>1 DEF ResendConfirmation
  <2> HIDE DEF frame
  <2>3. frame \in Frame /\ Acceptable(frame)
    BY <2>1, AuthAssumption DEF Fields, Acceptable, Fits, IsConfirming, Works, Earns, Spending
  <2> QED
    BY <2>1, <2>2, <2>3, Zenon DEF Begun, Fields, Link
<1>2. CASE ~(Exists(email) /\ ~users[email].confirmed)
  BY <1>2, RefuseBegins, AuthAssumption DEF Link, LinkOf, ResendConfirmation, Kind
<1> QED
  BY <1>1, <1>2

LEMMA LoginBegins ==
    ASSUME IInv, NEW p \in Process, NEW client \in Window, NEW email \in Email,
           Login(p, client, email)
    PROVE  Begun(p, "login", client, NoKey)
<1>1. CASE users[email].status = "ACTIVE"
  <2> DEFINE frame == [Request("login", client, "issue") EXCEPT !.user = email]
  <2>1. Fields(frame, "login", client, "issue", NoKey, email, NoTelegram)
    BY RequestFields, Zenon DEF Kind, Label, User
  <2>2. Begin(p, frame)
    BY <1>1 DEF Login
  <2>3. users[email].confirmed
    BY <1>1 DEF IInv, ConfirmedInv
  <2> HIDE DEF frame
  <2>4. frame \in Frame /\ Acceptable(frame)
    BY <2>1, <2>3, AuthAssumption DEF Fields, Acceptable, Fits, IsConfirming, Works, Earns, Spending,
       Granting
  <2> QED
    BY <2>1, <2>2, <2>4, Zenon DEF Begun, Fields, Link
<1>2. CASE users[email].status # "ACTIVE"
  BY <1>2, RefuseBegins, AuthAssumption DEF Link, LinkOf, Login, Kind
<1> QED
  BY <1>1, <1>2

LEMMA ConfirmEmailBegins ==
    ASSUME IInv, NEW p \in Process, NEW client \in Window, NEW k \in Key,
           ConfirmEmail(p, client, k)
    PROVE  Begun(p, "confirm", client, k)
<1>1. CASE IsGood(k, "email")
  <2> DEFINE frame == [Request("confirm", client, "confirm_write")
                         EXCEPT !.key = k, !.user = credential[k].user]
  <2>0. credential[k].user \in User \cup {NoUser}
    BY DEF IInv, TypeOK, AuthTypeOK, Credential
  <2>1. Fields(frame, "confirm", client, "confirm_write", k, credential[k].user, NoTelegram)
    BY <2>0, RequestFields, Zenon DEF Kind, Label
  <2>2. Begin(p, frame)
    BY <1>1 DEF ConfirmEmail
  <2> HIDE DEF frame
  <2>3. frame \in Frame /\ Acceptable(frame)
    BY <1>1, <2>1, AuthAssumption DEF Fields, Acceptable, Fits, IsConfirming, Works, Earns, Spending,
       IsGood
  <2> QED
    BY <2>1, <2>2, <2>3, Zenon DEF Begun, Fields, Link
<1>2. CASE ~IsGood(k, "email")
  BY <1>2, RefuseBegins, AuthAssumption DEF Link, LinkOf, ConfirmEmail, Kind
<1> QED
  BY <1>1, <1>2

LEMMA GenerateLinkBegins ==
    ASSUME IInv, NEW p \in Process, NEW user \in User, GenerateTelegramLink(p, Nobody, user)
    PROVE  Begun(p, "link", Nobody, NoKey)
<1>1. CASE users[user].confirmed /\ users[user].telegramId = NoTelegram
  <2> DEFINE frame == [Request("link", Nobody, "create_link") EXCEPT !.user = user]
  <2>1. Fields(frame, "link", Nobody, "create_link", NoKey, user, NoTelegram)
    BY RequestFields, Zenon DEF Kind, Label
  <2>2. Begin(p, frame)
    BY <1>1 DEF GenerateTelegramLink
  <2> HIDE DEF frame
  <2>3. frame \in Frame /\ Acceptable(frame)
    BY <1>1, <2>1, AuthAssumption DEF Fields, Acceptable, Fits, IsConfirming, Works, Earns, Spending
  <2> QED
    BY <2>1, <2>2, <2>3, Zenon DEF Begun, Fields, Link
<1>2. CASE ~(users[user].confirmed /\ users[user].telegramId = NoTelegram)
  BY <1>2, RefuseBegins, AuthAssumption DEF Link, LinkOf, GenerateTelegramLink, Kind
<1> QED
  BY <1>1, <1>2

LEMMA VerifyTelegramBegins ==
    ASSUME IInv, NEW p \in Process, NEW k \in Key, NEW telegram \in Telegram,
           VerifyTelegram(p, k, telegram)
    PROVE  Begun(p, "verify", Nobody, k)
<1>1. CASE IsGood(k, "link")
  <2> DEFINE frame == [Request("verify", Nobody, "link_check")
                         EXCEPT !.key = k, !.user = credential[k].user, !.telegram = telegram]
  <2>0. credential[k].user \in User \cup {NoUser}
    BY DEF IInv, TypeOK, AuthTypeOK, Credential
  <2>1. Fields(frame, "verify", Nobody, "link_check", k, credential[k].user, telegram)
    BY <2>0, RequestFields, Zenon DEF Kind, Label
  <2>2. Begin(p, frame)
    BY <1>1 DEF VerifyTelegram
  <2>3. credential[k].user \in Email => users[credential[k].user].confirmed
    BY <1>1 DEF IInv, ConfirmedInv, IsGood
  <2> HIDE DEF frame
  <2>4. frame \in Frame /\ Acceptable(frame)
    BY <1>1, <2>1, <2>3, AuthAssumption DEF Fields, Acceptable, Fits, IsConfirming, Works, Earns,
       Spending, IsGood
  <2> QED
    BY <2>1, <2>2, <2>4, Zenon DEF Begun, Fields, Link
<1>2. CASE ~IsGood(k, "link")
  BY <1>2, RefuseBegins, AuthAssumption DEF Link, LinkOf, VerifyTelegram, Kind
<1> QED
  BY <1>1, <1>2

LEMMA StartLoginBegins ==
    ASSUME IInv, NEW p \in Process, NEW client \in Window, StartTelegramLogin(p, client)
    PROVE  Begun(p, "start", client, NoKey)
<1> DEFINE frame == Request("start", client, "create_attempt")
<1>1. Fields(frame, "start", client, "create_attempt", NoKey, NoUser, NoTelegram)
  BY RequestFields, Zenon DEF Kind, Label
<1>2. Begin(p, frame)
  BY DEF StartTelegramLogin
<1> HIDE DEF frame
<1>3. frame \in Frame /\ Acceptable(frame)
  BY <1>1, AuthAssumption DEF Fields, Acceptable, Fits, IsConfirming, Works, Earns, Spending
<1> QED
  BY <1>1, <1>2, <1>3, Zenon DEF Begun, Fields, Link

LEMMA TelegramAuthBegins ==
    ASSUME IInv, NEW p \in Process, NEW telegram \in Telegram, TelegramAuth(p, telegram)
    PROVE  Begun(p, "auth", Nobody, NoKey)
<1> DEFINE frame == [Request("auth", Nobody, "find_user") EXCEPT !.telegram = telegram]
<1>1. Fields(frame, "auth", Nobody, "find_user", NoKey, NoUser, telegram)
  BY RequestFields, Zenon DEF Kind, Label
<1>2. Begin(p, frame)
  BY DEF TelegramAuth
<1> HIDE DEF frame
<1>3. frame \in Frame /\ Acceptable(frame)
  BY <1>1, AuthAssumption DEF Fields, Acceptable, Fits, IsConfirming, Works, Earns, Spending
<1> QED
  BY <1>1, <1>2, <1>3, Zenon DEF Begun, Fields, Link

LEMMA ExchangeBegins ==
    ASSUME IInv, NEW p \in Process, NEW client \in Window, NEW k \in Key,
           ExchangeTelegramLogin(p, client, k)
    PROVE  Begun(p, "exchange", client, k)
<1>1. CASE IsGood(k, "exchange")
  <2> DEFINE frame == [Request("exchange", client, "exchange_write")
                         EXCEPT !.key = k, !.user = credential[k].user]
  <2>0. credential[k].user \in User \cup {NoUser}
    BY DEF IInv, TypeOK, AuthTypeOK, Credential
  <2>1. Fields(frame, "exchange", client, "exchange_write", k, credential[k].user, NoTelegram)
    BY <2>0, RequestFields, Zenon DEF Kind, Label
  <2>2. Begin(p, frame)
    BY <1>1 DEF ExchangeTelegramLogin
  <2>3. credential[k].user \in Email => users[credential[k].user].confirmed
    BY <1>1 DEF IInv, ConfirmedInv, IsGood
  <2> HIDE DEF frame
  <2>4. frame \in Frame /\ Acceptable(frame)
    BY <1>1, <2>1, <2>3, AuthAssumption DEF Fields, Acceptable, Fits, IsConfirming, Works, Earns,
       Spending, IsGood
  <2> QED
    BY <2>1, <2>2, <2>4, Zenon DEF Begun, Fields, Link
<1>2. CASE ~IsGood(k, "exchange")
  BY <1>2, RefuseBegins, AuthAssumption DEF Link, LinkOf, ExchangeTelegramLogin, Kind
<1> QED
  BY <1>1, <1>2

-----------------------------------------------------------------------------
(* The steps of a request that change no row.                              *)

Typed == process \in [Process -> Frame]

LEMMA ItIsTyped == IInv => Typed
BY DEF IInv, TypeOK, AuthTypeOK, Typed

LEMMA SendMailGoes ==
    ASSUME IInv, NEW p \in Process, SendConfirmationEmail(p)
    PROVE  Goes /\ known' \subseteq Key
<1>1. /\ Fits(process[p]) /\ Typed /\ process[p].at = "send_mail" /\ Answer(p, TRUE)
      /\ known' = known \cup {process[p].key} /\ known \subseteq Key
  BY ItIsTyped DEF IInv, FrameInv, SendConfirmationEmail, At, Its, TypeOK, AuthTypeOK
<1>2. /\ process' \in [Process -> Frame]
      /\ process'[p].at = "answer" /\ process'[p].ok = TRUE
      /\ process'[p].kind = process[p].kind /\ process'[p].client = process[p].client
      /\ process'[p].key = process[p].key
      /\ \A q \in Process \ {p} : process'[q] = process[q]
  BY <1>1, AnswerStep DEF Typed
<1>3. Moved(p)
  BY <1>1, <1>2 DEF Moved, FrameRenewed, EarnsRenewed, HoldsRenewed, ConfirmingRenewed,
     IsConfirming, Spending, Fits, Works, Earns, Granting
<1> QED
  BY <1>1, <1>2, <1>3, OneGoes DEF Fits

LEMMA CheckLinkedGoes ==
    ASSUME IInv, NEW p \in Process, CheckLinked(p)
    PROVE  Goes
<1>1. CASE Answer(p, FALSE)
  BY <1>1, ErrorGoes
<1>2. CASE GoTo(p, "link_write")
  <2>1. /\ Fits(process[p]) /\ Typed /\ process[p].at = "link_check"
        /\ process[p].key \in Key /\ credential[process[p].key].kind # "none"
        /\ process[p].user \in Email => users[process[p].user].confirmed
        /\ UNCHANGED <<users, credential>>
    BY ItIsTyped DEF IInv, FrameInv, ConfirmedInv, CheckLinked, At, Its, Works, Spending, Earns,
       dataVars
  <2>2. /\ process' \in [Process -> Frame]
        /\ process'[p] = [process[p] EXCEPT !.at = "link_write"]
        /\ \A q \in Process \ {p} : process'[q] = process[q]
    BY <1>2, <2>1, GoToStep DEF Typed, Label
  <2>3. /\ process'[p].at = "link_write" /\ process'[p].kind = process[p].kind
        /\ process'[p].key = process[p].key /\ process'[p].user = process[p].user
        /\ process'[p].client = process[p].client
    BY <2>1, <2>2 DEF Typed, Frame
  <2>4. Moved(p)
    BY <2>1, <2>3 DEF Moved, FrameRenewed, EarnsRenewed, HoldsRenewed, ConfirmingRenewed, Same,
       IsConfirming, Spending, Fits, Works, Earns
  <2> QED
    BY <2>2, <2>4, OneGoes
<1> QED
  BY <1>1, <1>2 DEF CheckLinked

LEMMA FindUserGoes ==
    ASSUME IInv, NEW p \in Process, FindTelegramUser(p)
    PROVE  Goes
<1>1. /\ Fits(process[p]) /\ Typed /\ process[p].at = "find_user"
      /\ process[p].kind = "login_confirm" =>
             process[p].key \in Key /\ credential[process[p].key].kind # "none"
      /\ process[p].kind \in {"auth", "login_confirm"} /\ process[p].telegram \in Telegram
      /\ UNCHANGED <<users, credential>>
  BY ItIsTyped DEF IInv, FrameInv, FindTelegramUser, At, Its, Works, IsConfirming, Fits, dataVars
<1>2. CASE GoTo(p, "create_user")
  <2>1. /\ process' \in [Process -> Frame]
        /\ process'[p] = [process[p] EXCEPT !.at = "create_user"]
        /\ \A q \in Process \ {p} : process'[q] = process[q]
    BY <1>1, <1>2, GoToStep DEF Typed, Label
  <2>2. /\ process'[p].at = "create_user" /\ process'[p].kind = process[p].kind
        /\ process'[p].key = process[p].key /\ process'[p].telegram = process[p].telegram
        /\ process'[p].client = process[p].client
    BY <1>1, <2>1 DEF Typed, Frame
  <2>3. Moved(p)
    BY <1>1, <2>2 DEF Moved, FrameRenewed, EarnsRenewed, HoldsRenewed, ConfirmingRenewed,
       IsConfirming, Spending, Fits, Works, Earns
  <2> QED
    BY <2>1, <2>3, OneGoes
<1>3. ASSUME NEW u \in WithTelegram(process[p].telegram),
             process' = [process EXCEPT ![p].at = AfterUser(p), ![p].user = u]
      PROVE  Goes
  <2>1. u \in User /\ (u \in Email => users[u].confirmed)
    BY <1>1, <1>3, AuthAssumption DEF WithTelegram, IInv, ConfirmedInv
  <2>2. AfterUser(p) \in {"issue", "login_write"}
        /\ (AfterUser(p) = "issue" <=> process[p].kind = "auth")
    BY DEF AfterUser
  <2>3. /\ process' \in [Process -> Frame]
        /\ process'[p].at = AfterUser(p) /\ process'[p].kind = process[p].kind
        /\ process'[p].key = process[p].key /\ process'[p].telegram = process[p].telegram
        /\ process'[p].client = process[p].client /\ process'[p].user = u
        /\ \A q \in Process \ {p} : process'[q] = process[q]
    <3> DEFINE label == AfterUser(p)
    <3>1. label \in Label
      BY <2>2 DEF Label
    <3>2. process' = [process EXCEPT ![p].at = label, ![p].user = u]
      BY <1>3
    <3> HIDE DEF label
    <3>3. /\ process' \in [Process -> Frame]
          /\ process'[p].at = label /\ process'[p].kind = process[p].kind
          /\ process'[p].key = process[p].key /\ process'[p].telegram = process[p].telegram
          /\ process'[p].client = process[p].client /\ process'[p].user = u
          /\ \A q \in Process \ {p} : process'[q] = process[q]
      BY <1>1, <2>1, <3>1, <3>2 DEF Typed, Frame
    <3> QED
      BY <3>3 DEF label
  <2>4. Moved(p)
    BY <1>1, <2>1, <2>2, <2>3, AuthAssumption DEF Moved, FrameRenewed, EarnsRenewed, HoldsRenewed,
       ConfirmingRenewed, IsConfirming, Spending, Fits, Works, Earns, Granting
  <2> QED
    BY <2>3, <2>4, OneGoes
<1> QED
  BY <1>2, <1>3 DEF FindTelegramUser

-----------------------------------------------------------------------------
(* The steps that change rows.                                             *)

UsersRenewed ==
    /\ users' \in [User -> UserRow]
    /\ \A u \in Email : \/ users'[u] = users[u]
                        \/ users'[u].confirmed /\ users'[u].status = "ACTIVE"
                        \/ ~users[u].confirmed /\ users'[u] = EmailRow

CredentialsRenewed ==
    /\ credential' \in [Key -> Credential]
    /\ \A k \in Key :
          /\ credential'[k].kind = "none" => credential'[k] = credential[k]
          /\ credential'[k].attempt = credential[k].attempt
          /\ credential[k].used => credential'[k].used
          /\ \/ credential'[k].kind = credential[k].kind
                /\ credential'[k].user = credential[k].user
             \/ credential'[k].kind \in {"link", "exchange"} =>
                   /\ credential'[k].user \in Email =>
                          users'[credential'[k].user].confirmed

LEMMA DataStep ==
    ASSUME IInv, Goes, UsersRenewed, CredentialsRenewed,
           UNCHANGED <<known, granted, botVars, pageVars>>,
           workload' \subseteq Happening, calm' \in BOOLEAN
    PROVE  IInv'
<1>1. TypeOK'
  BY DEF IInv, TypeOK, AuthTypeOK, BotTypeOK, PagesTypeOK, Goes, UsersRenewed, CredentialsRenewed, botVars, pageVars
<1>2. FrameInv'
  BY FrameKept DEF IInv, Goes, Moved, FrameInv, CredentialsRenewed, pageVars
<1>3. ConfirmedInv'
  BY ConfirmedKept DEF IInv, Goes, Moved, UsersRenewed, CredentialsRenewed, pageVars
<1>4. GrantInv'
  BY GrantKept DEF IInv, Goes, Moved, CredentialsRenewed
<1>5. CodeInv'
  BY CodesKept DEF IInv, Goes, Moved, CredentialsRenewed, botVars
<1> QED
  BY <1>1, <1>2, <1>3, <1>4, <1>5 DEF IInv

\* The requests after a step of p, which is now at the label and keeps the rest.
LEMMA GoToFields ==
    ASSUME IInv, NEW p \in Process, NEW label \in Label, GoTo(p, label)
    PROVE  /\ process' \in [Process -> Frame]
           /\ process'[p].at = label /\ process'[p].kind = process[p].kind
           /\ process'[p].key = process[p].key /\ process'[p].user = process[p].user
           /\ process'[p].telegram = process[p].telegram /\ process'[p].client = process[p].client
           /\ process'[p].mounted = process[p].mounted
           /\ \A q \in Process \ {p} : process'[q] = process[q]
<1>1. /\ process \in [Process -> Frame]
      /\ process' \in [Process -> Frame] /\ process'[p] = [process[p] EXCEPT !.at = label]
      /\ \A q \in Process \ {p} : process'[q] = process[q]
  BY ItIsTyped, GoToStep DEF Typed
<1> QED
  BY <1>1 DEF Frame

\* It answers with the key that it has made.
LEMMA MadeFields ==
    ASSUME IInv, NEW p \in Process, NEW k \in Key,
           process' = [process EXCEPT ![p].at = "answer", ![p].ok = TRUE, ![p].key = k]
    PROVE  /\ process' \in [Process -> Frame]
           /\ process'[p].at = "answer" /\ process'[p].kind = process[p].kind
           /\ process'[p].key = k /\ process'[p].user = process[p].user
           /\ process'[p].client = process[p].client
           /\ process'[p].mounted = process[p].mounted /\ process'[p].ok
           /\ \A q \in Process \ {p} : process'[q] = process[q]
<1>1. /\ process \in [Process -> Frame] /\ process[p] \in Frame
      /\ process' = [process EXCEPT ![p] = [process[p] EXCEPT !.at = "answer", !.ok = TRUE, !.key = k]]
  BY ItIsTyped DEF Typed
<1>2. \A f \in Frame : LET made == [f EXCEPT !.at = "answer", !.ok = TRUE, !.key = k]
                       IN  /\ made \in Frame
                           /\ made.at = "answer" /\ made.kind = f.kind
                           /\ made.key = k /\ made.user = f.user /\ made.client = f.client
                           /\ made.mounted = f.mounted /\ made.ok
  BY DEF Frame, Label
<1> DEFINE made == [process[p] EXCEPT !.at = "answer", !.ok = TRUE, !.key = k]
<1>3. /\ made \in Frame
      /\ made.at = "answer" /\ made.kind = process[p].kind
      /\ made.key = k /\ made.user = process[p].user /\ made.client = process[p].client
      /\ made.mounted = process[p].mounted /\ made.ok
  BY <1>1, <1>2, Zenon
<1>4. process' = [process EXCEPT ![p] = made]
  BY <1>1
<1> HIDE DEF made
<1> QED
  BY <1>1, <1>3, <1>4

Around == UNCHANGED <<botVars, pageVars, workload, calm>>

\* Nothing but the requests changes, and what is known.
LEMMA AroundStep ==
    ASSUME IInv, Goes, UNCHANGED <<users, credential, granted>>, known' \subseteq Key, Around
    PROVE  IInv'
<1>1. /\ UNCHANGED <<users, credential, granted, starts>>
      /\ pendingLogin' = pendingLogin /\ window' = window /\ signedIn' = signedIn
      /\ workload' = workload /\ calm' = calm
  BY DEF Around, botVars, pageVars
<1>2. /\ window' \in [Window -> Shown] /\ signedIn' \in User \cup {NoUser}
      /\ \A w \in Window : window'[w].status = "mounting" => window'[w].key \in Key
      /\ workload' \subseteq Happening /\ calm' \in BOOLEAN
  BY <1>1 DEF IInv, TypeOK, PagesTypeOK, FrameInv
<1> QED
  BY <1>1, <1>2, QuietStep

LEMMA AroundData ==
    ASSUME IInv, Goes, UsersRenewed, CredentialsRenewed, UNCHANGED <<known, granted>>, Around
    PROVE  IInv'
<1>1. /\ UNCHANGED <<known, granted, botVars, pageVars>>
      /\ workload' \subseteq Happening /\ calm' \in BOOLEAN
  BY DEF Around, IInv, TypeOK
<1> QED
  BY <1>1, DataStep

\* A good credential is used; a new one is issued.
LEMMA UsedRenews ==
    ASSUME IInv, NEW k \in Key, credential[k].kind # "none", credential' = Use(k)
    PROVE  CredentialsRenewed /\ credential'[k].used /\ credential'[k].kind # "none"
<1>1. /\ credential \in [Key -> Credential]
      /\ credential' = [credential EXCEPT ![k] = [credential[k] EXCEPT !.used = TRUE]]
  BY DEF IInv, TypeOK, AuthTypeOK, Use
<1>2. \A c \in Credential : LET used == [c EXCEPT !.used = TRUE]
                            IN  /\ used \in Credential /\ used.used
                                /\ used.kind = c.kind /\ used.user = c.user
                                /\ used.attempt = c.attempt
  BY DEF Credential
<1> DEFINE used == [credential[k] EXCEPT !.used = TRUE]
<1>3. /\ used \in Credential /\ used.used
      /\ used.kind = credential[k].kind /\ used.user = credential[k].user
      /\ used.attempt = credential[k].attempt
  BY <1>1, <1>2, Zenon
<1>4. credential' = [credential EXCEPT ![k] = used]
  BY <1>1
<1> HIDE DEF used
<1> QED
  BY <1>1, <1>3, <1>4 DEF CredentialsRenewed

LEMMA IssuedFields ==
    ASSUME NEW kind \in {"email", "link", "attempt", "exchange"}, NEW u \in User \cup {NoUser},
           NEW j \in Key \cup {NoKey}
    PROVE  /\ Issued(kind, u, j) \in Credential
           /\ Issued(kind, u, j).kind = kind /\ Issued(kind, u, j).user = u
           /\ Issued(kind, u, j).attempt = j /\ ~Issued(kind, u, j).used
BY DEF Issued, NoCredential, Credential

LEMMA IssuedRenews ==
    ASSUME IInv, NEW k \in Key, IsNew(k),
           NEW kind \in {"email", "link", "attempt", "exchange"}, NEW u \in User \cup {NoUser},
           credential' = [credential EXCEPT ![k] = Issued(kind, u, NoKey)],
           kind \in {"link", "exchange"} /\ u \in Email => users'[u].confirmed
    PROVE  CredentialsRenewed /\ credential'[k].kind = kind
<1>1. /\ credential \in [Key -> Credential] /\ credential[k] = NoCredential
  BY DEF IInv, TypeOK, AuthTypeOK, IsNew, FrameInv
<1> DEFINE issued == Issued(kind, u, NoKey)
<1>2. /\ issued \in Credential /\ issued.kind = kind /\ issued.user = u /\ issued.attempt = NoKey
  BY IssuedFields
<1>3. credential' = [credential EXCEPT ![k] = issued]
  OBVIOUS
<1> HIDE DEF issued
<1>4. /\ credential' \in [Key -> Credential] /\ credential'[k] = issued
      /\ \A j \in Key \ {k} : credential'[j] = credential[j]
  BY <1>1, <1>2, <1>3
<1>5. /\ credential[k].attempt = NoKey /\ credential[k].used = FALSE
  BY <1>1 DEF NoCredential
<1> QED
  BY <1>2, <1>4, <1>5 DEF CredentialsRenewed

LEMMA CreateEmailUserKeeps ==
    ASSUME IInv, NEW p \in Process, CreateEmailUser(p), Around
    PROVE  IInv'
<1>1. CASE Answer(p, FALSE) /\ UNCHANGED users
  <2>1. known' \subseteq Key /\ UNCHANGED <<users, credential, granted>>
    BY <1>1 DEF CreateEmailUser, IInv, TypeOK, AuthTypeOK
  <2> QED
    BY <1>1, <2>1, ErrorGoes, AroundStep
<1>2. CASE ~Exists(process[p].user) /\ users' = [users EXCEPT ![process[p].user] = EmailRow]
           /\ GoTo(p, "create_token")
  <2>1. /\ process[p].kind = "register" /\ Fits(process[p])
        /\ users \in [User -> UserRow] /\ EmailRow \in UserRow
        /\ UNCHANGED <<credential, known, granted>>
    BY DEF CreateEmailUser, IInv, FrameInv, TypeOK, AuthTypeOK, EmailRow, AbsentRow, UserRow
  <2>2. /\ process' \in [Process -> Frame]
        /\ process'[p].at = "create_token" /\ process'[p].kind = "register"
        /\ process'[p].key = process[p].key /\ process'[p].client = process[p].client
        /\ \A q \in Process \ {p} : process'[q] = process[q]
    BY <1>2, <2>1, GoToFields DEF Label
  <2>3. Moved(p)
    BY <2>1, <2>2, AuthAssumption DEF Moved, FrameRenewed, EarnsRenewed, HoldsRenewed,
       ConfirmingRenewed, IsConfirming, Spending, Fits, Works, Earns
  <2>5. \A u \in Email : users'[u] = users[u] \/ (~users[u].confirmed /\ users'[u] = EmailRow)
    <3>1. \A u \in Email : users[u].status = "ABSENT" => ~users[u].confirmed
      BY DEF IInv, ConfirmedInv
    <3>2. users[process[p].user].status = "ABSENT"
      BY <1>2 DEF Exists
    <3>3. \A u \in Email : users'[u] = users[u] \/ (u = process[p].user /\ users'[u] = EmailRow)
      BY <1>2, <2>1 DEF User
    <3> QED
      BY <3>1, <3>2, <3>3
  <2>6. UsersRenewed /\ CredentialsRenewed
    BY <1>2, <2>1, <2>5 DEF IInv, TypeOK, AuthTypeOK, UsersRenewed, CredentialsRenewed
  <2> QED
    BY <2>1, <2>2, <2>3, <2>6, OneGoes, AroundData
<1> QED
  BY <1>1, <1>2 DEF CreateEmailUser

LEMMA ConfirmUserKeeps ==
    ASSUME IInv, NEW p \in Process, ConfirmUser(p), Around
    PROVE  IInv'
<1>1. /\ process[p].at = "confirm_write" /\ GoTo(p, "issue") /\ Fits(process[p])
      /\ process[p].key \in Key /\ credential[process[p].key].kind # "none"
      /\ credential' = Use(process[p].key) /\ UNCHANGED <<known, granted>>
      /\ users \in [User -> UserRow]
      /\ users' = [users EXCEPT ![process[p].user].confirmed = TRUE,
                                ![process[p].user].status = "ACTIVE"]
  BY DEF ConfirmUser, IInv, FrameInv, Works, Spending, At, Its, TypeOK, AuthTypeOK
<1>2. /\ process' \in [Process -> Frame]
      /\ process'[p].at = "issue" /\ process'[p].kind = process[p].kind
      /\ process'[p].key = process[p].key /\ process'[p].user = process[p].user
      /\ process'[p].client = process[p].client
      /\ \A q \in Process \ {p} : process'[q] = process[q]
  BY <1>1, GoToFields DEF Label
<1>3. CredentialsRenewed /\ credential'[process[p].key].used
  BY <1>1, UsedRenews
<1>4. /\ users' \in [User -> UserRow]
      /\ process[p].user \in User =>
            users'[process[p].user].confirmed /\ users'[process[p].user].status = "ACTIVE"
      /\ \A u \in User \ {process[p].user} : users'[u] = users[u]
  BY <1>1 DEF UserRow
<1>5. UsersRenewed
  <2>1. ASSUME NEW u \in Email
        PROVE  \/ users'[u] = users[u]
               \/ users'[u].confirmed /\ users'[u].status = "ACTIVE"
    BY <1>4 DEF User
  <2> QED
    BY <1>4, <2>1 DEF UsersRenewed
<1>6. Moved(p)
  <2>1. FrameRenewed(p) /\ ConfirmingRenewed(p)
    BY <1>1, <1>2 DEF FrameRenewed, ConfirmingRenewed, IsConfirming, Spending, Fits, Works, Granting
  <2>2. EarnsRenewed(p)
    BY <1>2, <1>4 DEF EarnsRenewed, User
  <2>3. HoldsRenewed(p)
    BY <1>1, <1>2, <1>3 DEF HoldsRenewed, Same, Spending
  <2> QED
    BY <2>1, <2>2, <2>3 DEF Moved
<1> QED
  BY <1>1, <1>2, <1>3, <1>5, <1>6, OneGoes, AroundData

LEMMA CreateTokenKeeps ==
    ASSUME IInv, NEW p \in Process, NEW k \in Key, CreateEmailConfirmationToken(p, k), Around
    PROVE  IInv'
<1>1. /\ process[p].at = "create_token" /\ Fits(process[p]) /\ Typed
      /\ IsNew(k) /\ credential' = [credential EXCEPT ![k] = Issued("email", process[p].user, NoKey)]
      /\ process' = [process EXCEPT ![p].at = "send_mail", ![p].key = k]
      /\ UNCHANGED <<users, known, granted>>
  BY ItIsTyped DEF CreateEmailConfirmationToken, IInv, FrameInv, At
<1>2. process[p].user \in User \cup {NoUser}
  BY <1>1 DEF Typed, Frame
<1>3. CredentialsRenewed
  BY <1>1, <1>2, IssuedRenews
<1>4. /\ process' \in [Process -> Frame]
      /\ process'[p].at = "send_mail" /\ process'[p].kind = process[p].kind
      /\ process'[p].key = k /\ process'[p].client = process[p].client
      /\ \A q \in Process \ {p} : process'[q] = process[q]
  BY <1>1 DEF Typed, Frame, Label
<1>5. Moved(p)
  BY <1>1, <1>4 DEF Moved, FrameRenewed, EarnsRenewed, HoldsRenewed, ConfirmingRenewed,
     IsConfirming, Spending, Fits, Works, Earns
<1>6. UsersRenewed
  BY <1>1 DEF UsersRenewed, IInv, TypeOK, AuthTypeOK
<1> QED
  BY <1>1, <1>3, <1>4, <1>5, <1>6, OneGoes, AroundData

LEMMA CreateLinkCodeKeeps ==
    ASSUME IInv, NEW p \in Process, NEW k \in Key, CreateLinkCode(p, k), Around
    PROVE  IInv'
<1>1. /\ process[p].at = "create_link" /\ Fits(process[p]) /\ Typed
      /\ IsNew(k) /\ credential' = [credential EXCEPT ![k] = Issued("link", process[p].user, NoKey)]
      /\ process' = [process EXCEPT ![p].at = "answer", ![p].ok = TRUE, ![p].key = k]
      /\ UNCHANGED <<users, known, granted>>
      /\ process[p].user \in Email => users[process[p].user].confirmed
  BY ItIsTyped DEF CreateLinkCode, IInv, FrameInv, At, ConfirmedInv, Earns
<1>2. process[p].user \in User \cup {NoUser}
  BY <1>1 DEF Typed, Frame
<1>3. CredentialsRenewed
  BY <1>1, <1>2, IssuedRenews
<1>4. /\ process' \in [Process -> Frame]
      /\ process'[p].at = "answer" /\ process'[p].kind = process[p].kind
      /\ process'[p].key = k /\ process'[p].client = process[p].client
      /\ \A q \in Process \ {p} : process'[q] = process[q]
  BY <1>1, MadeFields
<1>5. Moved(p)
  BY <1>1, <1>4 DEF Moved, FrameRenewed, EarnsRenewed, HoldsRenewed, ConfirmingRenewed,
     IsConfirming, Spending, Fits, Works, Earns, Granting
<1>6. UsersRenewed
  BY <1>1 DEF UsersRenewed, IInv, TypeOK, AuthTypeOK
<1> QED
  BY <1>1, <1>3, <1>4, <1>5, <1>6, OneGoes, AroundData

LEMMA CreateAttemptKeeps ==
    ASSUME IInv, NEW p \in Process, NEW k \in Key, CreateAttempt(p, k), Around
    PROVE  IInv'
<1>1. /\ process[p].at = "create_attempt" /\ Fits(process[p]) /\ Typed
      /\ IsNew(k) /\ credential' = [credential EXCEPT ![k] = Issued("attempt", NoUser, NoKey)]
      /\ process' = [process EXCEPT ![p].at = "answer", ![p].ok = TRUE, ![p].key = k]
      /\ UNCHANGED <<users, known, granted>>
  BY ItIsTyped DEF CreateAttempt, IInv, FrameInv, At
<1>3. CredentialsRenewed
  BY <1>1, IssuedRenews
<1>4. /\ process' \in [Process -> Frame]
      /\ process'[p].at = "answer" /\ process'[p].kind = process[p].kind
      /\ process'[p].key = k /\ process'[p].client = process[p].client
      /\ \A q \in Process \ {p} : process'[q] = process[q]
  BY <1>1, MadeFields
<1>5. Moved(p)
  BY <1>1, <1>4 DEF Moved, FrameRenewed, EarnsRenewed, HoldsRenewed, ConfirmingRenewed,
     IsConfirming, Spending, Fits, Works, Earns, Granting
<1>6. UsersRenewed
  BY <1>1 DEF UsersRenewed, IInv, TypeOK, AuthTypeOK
<1> QED
  BY <1>1, <1>3, <1>4, <1>5, <1>6, OneGoes, AroundData

LEMMA LinkTelegramKeeps ==
    ASSUME IInv, NEW p \in Process, LinkTelegram(p), Around
    PROVE  IInv'
<1>1. CASE Answer(p, FALSE) /\ UNCHANGED <<users, credential>>
  <2>1. known' \subseteq Key /\ UNCHANGED <<users, credential, granted>>
    BY <1>1 DEF LinkTelegram, IInv, TypeOK, AuthTypeOK
  <2> QED
    BY <1>1, <2>1, ErrorGoes, AroundStep
<1>2. CASE /\ credential' = Use(Its(p))
           /\ users' = [users EXCEPT ![process[p].user].telegramId = process[p].telegram,
                                     ![process[p].user].status = "ACTIVE"]
           /\ GoTo(p, "issue")
  <2>1. /\ process[p].at = "link_write" /\ Fits(process[p]) /\ Typed
        /\ process[p].key \in Key /\ credential[process[p].key].kind # "none"
        /\ credential' = Use(process[p].key) /\ UNCHANGED <<known, granted>>
        /\ users \in [User -> UserRow]
        /\ process[p].user \in Email => users[process[p].user].confirmed
    BY <1>2, ItIsTyped DEF LinkTelegram, IInv, FrameInv, ConfirmedInv, Works, Spending, Earns, At, Its,
       TypeOK, AuthTypeOK
  <2>2. /\ process' \in [Process -> Frame]
        /\ process'[p].at = "issue" /\ process'[p].kind = process[p].kind
        /\ process'[p].key = process[p].key /\ process'[p].user = process[p].user
        /\ process'[p].client = process[p].client
        /\ \A q \in Process \ {p} : process'[q] = process[q]
    BY <1>2, <2>1, GoToFields DEF Label
  <2>3. CredentialsRenewed /\ credential'[process[p].key].used
    BY <2>1, UsedRenews
  <2>4. process[p].telegram \in Telegram \cup {NoTelegram}
    BY <2>1 DEF Typed, Frame
  <2>5. /\ users' \in [User -> UserRow]
        /\ process[p].user \in User =>
              /\ users'[process[p].user].confirmed = users[process[p].user].confirmed
              /\ users'[process[p].user].status = "ACTIVE"
        /\ \A u \in User \ {process[p].user} : users'[u] = users[u]
    BY <1>2, <2>1, <2>4 DEF UserRow
  <2>6. UsersRenewed
    <3>1. ASSUME NEW u \in Email
          PROVE  \/ users'[u] = users[u]
                 \/ users'[u].confirmed /\ users'[u].status = "ACTIVE"
      BY <2>1, <2>5 DEF User
    <3> QED
      BY <2>5, <3>1 DEF UsersRenewed
  <2>7. FrameRenewed(p) /\ ConfirmingRenewed(p)
    BY <2>1, <2>2 DEF FrameRenewed, ConfirmingRenewed, IsConfirming, Spending, Fits, Works, Granting
  <2>8. EarnsRenewed(p)
    BY <2>1, <2>2, <2>5 DEF EarnsRenewed, User
  <2>9. HoldsRenewed(p)
    BY <2>1, <2>2, <2>3 DEF HoldsRenewed, Same, Spending
  <2> QED
    BY <2>1, <2>2, <2>3, <2>6, <2>7, <2>8, <2>9, OneGoes, AroundData DEF Moved
<1> QED
  BY <1>1, <1>2 DEF LinkTelegram

LEMMA CreateTelegramUserKeeps ==
    ASSUME IInv, NEW p \in Process, CreateTelegramUser(p), Around
    PROVE  IInv'
<1> DEFINE telegram == process[p].telegram
           label == AfterUser(p)
<1>1. CASE Answer(p, FALSE) /\ UNCHANGED users
  <2>1. known' \subseteq Key /\ UNCHANGED <<users, credential, granted>>
    BY <1>1 DEF CreateTelegramUser, IInv, TypeOK, AuthTypeOK
  <2> QED
    BY <1>1, <2>1, ErrorGoes, AroundStep
<1>2. CASE /\ users' = [users EXCEPT ![telegram] = TelegramRow(telegram)]
           /\ process' = [process EXCEPT ![p].at = label, ![p].user = telegram]
  <2>1. /\ process[p].at = "create_user" /\ Fits(process[p]) /\ Typed
        /\ process[p].kind \in {"auth", "login_confirm"} /\ telegram \in Telegram
        /\ process[p].kind = "login_confirm" =>
               process[p].key \in Key /\ credential[process[p].key].kind # "none"
        /\ UNCHANGED <<credential, known, granted>>
        /\ users \in [User -> UserRow] /\ credential \in [Key -> Credential]
    BY ItIsTyped DEF CreateTelegramUser, IInv, FrameInv, Works, IsConfirming, Fits, At, Its, TypeOK, AuthTypeOK
  <2>2. /\ label \in {"issue", "login_write"} /\ label \in Label
        /\ label = "issue" <=> process[p].kind = "auth"
    BY DEF AfterUser, Label
  <2>3. TelegramRow(telegram) \in UserRow
    BY <2>1 DEF TelegramRow, AbsentRow, UserRow
  <2>4. UsersRenewed
    BY <1>2, <2>1, <2>3, AuthAssumption DEF UsersRenewed, User
  <2>5. CredentialsRenewed
    BY <2>1 DEF CredentialsRenewed
  <2> HIDE DEF telegram, label
  <2>6. /\ process' \in [Process -> Frame]
        /\ process'[p].at = label /\ process'[p].kind = process[p].kind
        /\ process'[p].key = process[p].key /\ process'[p].user = telegram
        /\ process'[p].client = process[p].client
        /\ \A q \in Process \ {p} : process'[q] = process[q]
    BY <1>2, <2>1, <2>2 DEF Typed, Frame, User
  <2>7. Moved(p)
    BY <2>1, <2>2, <2>6, AuthAssumption DEF Moved, FrameRenewed, EarnsRenewed, HoldsRenewed,
       ConfirmingRenewed, IsConfirming, Spending, Fits, Works, Earns, Granting
  <2> QED
    BY <2>1, <2>4, <2>5, <2>6, <2>7, OneGoes, AroundData
<1> QED
  BY <1>1, <1>2 DEF CreateTelegramUser

LEMMA SpendExchangeCodeKeeps ==
    ASSUME IInv, NEW p \in Process, SpendExchangeCode(p), Around
    PROVE  IInv'
<1>1. /\ process[p].at = "exchange_write" /\ GoTo(p, "issue") /\ Fits(process[p])
      /\ process[p].key \in Key /\ credential[process[p].key].kind # "none"
      /\ credential' = Use(process[p].key) /\ UNCHANGED <<users, known, granted>>
      /\ process[p].user \in Email => users[process[p].user].confirmed
  BY DEF SpendExchangeCode, IInv, FrameInv, ConfirmedInv, Works, Earns, Spending, At, Its
<1>2. /\ process' \in [Process -> Frame]
      /\ process'[p].at = "issue" /\ process'[p].kind = process[p].kind
      /\ process'[p].key = process[p].key /\ process'[p].user = process[p].user
      /\ process'[p].client = process[p].client
      /\ \A q \in Process \ {p} : process'[q] = process[q]
  BY <1>1, GoToFields DEF Label
<1>3. CredentialsRenewed /\ credential'[process[p].key].used
  BY <1>1, UsedRenews
<1>4. UsersRenewed
  BY <1>1 DEF UsersRenewed, IInv, TypeOK, AuthTypeOK
<1>5. FrameRenewed(p) /\ ConfirmingRenewed(p)
  BY <1>1, <1>2 DEF FrameRenewed, ConfirmingRenewed, IsConfirming, Spending, Fits, Works, Granting
<1>6. EarnsRenewed(p) /\ HoldsRenewed(p)
  BY <1>1, <1>2, <1>3 DEF EarnsRenewed, HoldsRenewed, Same, Spending
<1> QED
  BY <1>1, <1>2, <1>3, <1>4, <1>5, <1>6, OneGoes, AroundData DEF Moved

LEMMA ExpireKeeps ==
    ASSUME IInv, NEW k \in Key, Expire(k), UNCHANGED <<botVars, pageVars>>,
           workload' \subseteq Happening, calm' \in BOOLEAN
    PROVE  IInv'
<1>1. /\ credential \in [Key -> Credential] /\ credential[k].kind # "none"
      /\ credential' = [credential EXCEPT ![k] = [credential[k] EXCEPT !.expired = TRUE]]
      /\ UNCHANGED <<users, known, granted, process>>
  BY DEF IInv, TypeOK, AuthTypeOK, Expire
<1> DEFINE expired == [credential[k] EXCEPT !.expired = TRUE]
<1>2. \A c \in Credential : LET it == [c EXCEPT !.expired = TRUE]
                            IN  /\ it \in Credential
                                /\ it.used <=> c.used
                                /\ it.kind = c.kind /\ it.user = c.user /\ it.attempt = c.attempt
  BY DEF Credential
<1>3. /\ expired \in Credential
      /\ expired.used <=> credential[k].used
      /\ expired.kind = credential[k].kind /\ expired.user = credential[k].user
      /\ expired.attempt = credential[k].attempt
  BY <1>1, <1>2, Zenon
<1>4. credential' = [credential EXCEPT ![k] = expired]
  BY <1>1
<1> HIDE DEF expired
<1>5. CredentialsRenewed
  BY <1>1, <1>3, <1>4 DEF CredentialsRenewed
<1>6. UsersRenewed
  BY <1>1 DEF UsersRenewed, IInv, TypeOK, AuthTypeOK
<1> QED
  BY <1>1, <1>5, <1>6, StillGoes, DataStep

\* A session is given: the request leaves those that hold its credential.
LEMMA IssueKeeps ==
    ASSUME IInv, NEW p \in Process, IssueAuthResponse(p), Around
    PROVE  IInv'
<1>1. /\ process[p].at = "issue" /\ Fits(process[p]) /\ Answer(p, TRUE) /\ Typed
      /\ granted' = IF process[p].key = NoKey THEN granted ELSE [granted EXCEPT ![process[p].key] = @ + 1]
      /\ UNCHANGED <<users, credential, known>>
      /\ process[p].user \in Email => users[process[p].user].confirmed
      /\ granted \in [Key -> Nat]
  BY ItIsTyped DEF IssueAuthResponse, IInv, FrameInv, ConfirmedInv, Earns, At, Its, TypeOK, AuthTypeOK
<1>2. /\ process' \in [Process -> Frame]
      /\ process'[p].at = "answer"
      /\ process'[p].kind = process[p].kind /\ process'[p].client = process[p].client
      /\ process'[p].user = process[p].user /\ process'[p].key = process[p].key
      /\ \A q \in Process \ {p} : process'[q] = process[q]
  BY <1>1, AnswerStep DEF Typed
<1>3. Moved(p)
  BY <1>1, <1>2 DEF Moved, FrameRenewed, EarnsRenewed, HoldsRenewed, ConfirmingRenewed,
     IsConfirming, Spending, Fits, Works, Earns, Granting
<1>4. Goes
  BY <1>2, <1>3, OneGoes
<1>5. /\ UNCHANGED <<pendingLogin, starts, window, signedIn, workload, calm>>
  BY DEF Around, botVars, pageVars
<1>6. granted' \in [Key -> Nat]
  <2>1. CASE process[p].key = NoKey
    BY <1>1, <2>1
  <2>2. CASE process[p].key # NoKey
    <3>1. process[p].key \in Key /\ granted' = [granted EXCEPT ![process[p].key] = @ + 1]
      BY <1>1, <2>2 DEF Typed, Frame
    <3> QED
      BY <1>1, <3>1
  <2> QED
    BY <2>1, <2>2
<1>7. TypeOK'
  BY <1>1, <1>4, <1>5, <1>6 DEF IInv, TypeOK, AuthTypeOK, BotTypeOK, PagesTypeOK, Goes
<1>8. FrameInv'
  BY <1>1, <1>4, <1>5, FrameKept DEF IInv, Goes, Moved, FrameInv
<1>9. ConfirmedInv'
  BY <1>1, <1>4, <1>5, ConfirmedKept DEF IInv, Goes, Moved
<1>10. CodeInv'
  BY <1>1, <1>4, <1>5, CodesKept DEF IInv, Goes, Moved
<1>11. GrantInv'
  <2> SUFFICES ASSUME NEW k \in Key
               PROVE  /\ ~credential'[k].used =>
                            /\ granted'[k] = 0
                            /\ \A q \in Process : process'[q].at = "issue" => process'[q].key # k
                      /\ granted'[k] + Cardinality(Holders(k)') <= Cardinality(Process)
    BY DEF GrantInv, At, Its
  <2>1. /\ ~credential[k].used =>
              /\ granted[k] = 0 /\ \A q \in Process : process[q].at = "issue" => process[q].key # k
        /\ granted[k] + Cardinality(Holders(k)) <= Cardinality(Process) /\ granted[k] \in Nat
    BY <1>1 DEF IInv, GrantInv, At, Its
  <2>2. Holders(k)' \subseteq Holders(k) \ {p}
    BY <1>2 DEF Holders, At, Its, Spending
  <2>3. CASE process[p].key = k
    <3>1. p \in Holders(k)
      BY <1>1, <2>3 DEF Holders, At, Its
    <3>2. Cardinality(Holders(k) \ {p}) = Cardinality(Holders(k)) - 1
          /\ IsFiniteSet(Holders(k) \ {p})
      BY <3>1, HoldersFinite, FS_RemoveElement
    <3>3. Cardinality(Holders(k)') <= Cardinality(Holders(k)) - 1
      BY <2>2, <3>2, FS_Subset
    <3>4. granted'[k] = granted[k] + 1 /\ credential'[k].used
      BY <1>1, <2>1, <2>3, AuthAssumption
    <3> QED
      BY <2>1, <3>3, <3>4, HoldersFinite, HoldersFiniteNext
  <2>4. CASE process[p].key # k
    <3>1. granted'[k] = granted[k] /\ credential'[k] = credential[k]
      BY <1>1, <2>4
    <3>2. Cardinality(Holders(k)') <= Cardinality(Holders(k))
      BY <2>2, HoldersFinite, FS_Subset
    <3>3. \A q \in Process : process'[q].at = "issue" => q # p /\ process'[q] = process[q]
      BY <1>2
    <3> QED
      BY <2>1, <3>1, <3>2, <3>3, HoldersFinite, HoldersFiniteNext
  <2> QED
    BY <2>3, <2>4
<1> QED
  BY <1>7, <1>8, <1>9, <1>10, <1>11 DEF IInv

\* An attempt is confirmed: the request gives way to the code.
LEMMA CreateExchangeCodeKeeps ==
    ASSUME IInv, NEW p \in Process, NEW k \in Key, CreateExchangeCode(p, k), Around
    PROVE  IInv'
<1> DEFINE attempt == process[p].key
           issued == Issued("exchange", process[p].user, attempt)
<1>1. /\ process[p].at = "login_write" /\ process[p].kind = "login_confirm"
      /\ Fits(process[p]) /\ Typed
      /\ attempt \in Key /\ credential[attempt].kind # "none"
      /\ credential[k] = NoCredential /\ credential[k].kind = "none"
      /\ credential' = [Use(attempt) EXCEPT ![k] = issued]
      /\ process' = [process EXCEPT ![p].at = "answer", ![p].ok = TRUE, ![p].key = k]
      /\ UNCHANGED <<users, known, granted>>
      /\ process[p].user \in Email => users[process[p].user].confirmed
      /\ credential \in [Key -> Credential]
  BY ItIsTyped DEF CreateExchangeCode, IInv, FrameInv, ConfirmedInv, Fits, Works, IsConfirming, Earns, At, Its,
     IsNew, TypeOK, AuthTypeOK
<1>2. process[p].user \in User \cup {NoUser}
  BY <1>1 DEF Typed, Frame
<1>3. /\ issued \in Credential /\ issued.kind = "exchange" /\ issued.user = process[p].user
      /\ issued.attempt = attempt /\ ~issued.used
  BY <1>1, <1>2, IssuedFields
<1>4. /\ process' \in [Process -> Frame]
      /\ process'[p].at = "answer" /\ process'[p].kind = process[p].kind
      /\ process'[p].key = k /\ process'[p].client = process[p].client
      /\ \A q \in Process \ {p} : process'[q] = process[q]
  BY <1>1, MadeFields
<1>5. Moved(p)
  BY <1>1, <1>4 DEF Moved, FrameRenewed, EarnsRenewed, HoldsRenewed, ConfirmingRenewed,
     IsConfirming, Spending, Fits, Works, Earns, Granting
<1>6. Goes
  BY <1>4, <1>5, OneGoes
<1> HIDE DEF attempt, issued
<1> DEFINE used == [credential[attempt] EXCEPT !.used = TRUE]
<1>7. /\ used \in Credential /\ used.used
      /\ used.kind = credential[attempt].kind /\ used.user = credential[attempt].user
      /\ used.attempt = credential[attempt].attempt
  BY <1>1 DEF Credential
<1>8. credential' = [[credential EXCEPT ![attempt] = used] EXCEPT ![k] = issued]
  BY <1>1 DEF Use
<1> HIDE DEF used
<1>9. /\ credential' \in [Key -> Credential]
      /\ credential'[k] = issued /\ k # attempt /\ credential'[attempt] = used
      /\ \A j \in Key \ {k, attempt} : credential'[j] = credential[j]
  BY <1>1, <1>3, <1>7, <1>8
<1>10. UNCHANGED <<pendingLogin, starts, window, signedIn, workload, calm>>
  BY DEF Around, botVars, pageVars
<1>11. TypeOK'
  BY <1>1, <1>6, <1>9, <1>10 DEF IInv, TypeOK, AuthTypeOK, BotTypeOK, PagesTypeOK, Goes
<1>12. \A j \in Key : credential'[j].kind = "none" => credential'[j] = credential[j]
  BY <1>1, <1>3, <1>7, <1>9
<1>13. FrameInv'
  BY <1>6, <1>10, <1>12, FrameKept DEF IInv, Goes, Moved, FrameInv
<1>14. \A j \in Key : \/ credential'[j].kind = credential[j].kind
                         /\ credential'[j].user = credential[j].user
                      \/ credential'[j].kind \in {"link", "exchange"} =>
                            /\ credential'[j].user \in Email =>
                                   users'[credential'[j].user].confirmed
  BY <1>1, <1>3, <1>7, <1>9
<1>15. ConfirmedInv'
  BY <1>1, <1>6, <1>10, <1>14, ConfirmedKept DEF IInv, Goes, Moved
<1>16. \A j \in Key : credential[j].used => credential'[j].used
  BY <1>1, <1>7, <1>9 DEF NoCredential
<1>17. GrantInv'
  BY <1>1, <1>6, <1>16, GrantKept DEF IInv, Goes, Moved
<1>18. CodeInv'
  <2> SUFFICES ASSUME NEW j \in Key
               PROVE  /\ IsFiniteSet(Wanted(j)') /\ IsFiniteSet(Codes(j)')
                      /\ Cardinality(Wanted(j)') + Cardinality(Confirming(j)')
                            + Cardinality(Codes(j)') <= starts[j]
    BY <1>10 DEF CodeInv
  <2>1. /\ IsFiniteSet(Wanted(j)) /\ IsFiniteSet(Codes(j))
        /\ Cardinality(Wanted(j)) + Cardinality(Confirming(j)) + Cardinality(Codes(j)) <= starts[j]
        /\ starts[j] \in Nat
    BY DEF IInv, CodeInv, TypeOK, BotTypeOK
  <2>2. Wanted(j)' = Wanted(j)
    BY <1>10 DEF Wanted
  <2>3. /\ Cardinality(Wanted(j)) \in Nat /\ Cardinality(Codes(j)) \in Nat
        /\ IsFiniteSet(Confirming(j)) /\ Cardinality(Confirming(j)) \in Nat
    BY <2>1, ConfirmingFinite, FS_CardinalityType
  <2>4. Confirming(j)' \subseteq Confirming(j) \ {p}
    BY <1>4 DEF Confirming, IsConfirming, Its
  <2>5. credential[k].attempt = NoKey
    BY <1>1 DEF NoCredential
  <2>6. CASE j = attempt
    <3>1. p \in Confirming(j)
      BY <1>1, <2>6 DEF Confirming, IsConfirming, Its, attempt
    <3>2. Cardinality(Confirming(j) \ {p}) = Cardinality(Confirming(j)) - 1
          /\ IsFiniteSet(Confirming(j) \ {p})
      BY <2>3, <3>1, FS_RemoveElement
    <3>3. Cardinality(Confirming(j)') <= Cardinality(Confirming(j)) - 1
          /\ Cardinality(Confirming(j)') \in Nat
      BY <2>4, <3>2, FS_Subset, FS_CardinalityType
    <3>4. Codes(j)' = Codes(j) \cup {k} /\ k \notin Codes(j)
      <4>1. \A i \in Key : credential'[i].attempt = j <=> i = k \/ credential[i].attempt = j
        BY <1>1, <1>3, <1>7, <1>9, <2>5, <2>6
      <4>2. credential[k].attempt # j
        BY <2>5, AuthAssumption
      <4> QED
        BY <4>1, <4>2 DEF Codes
    <3>5. IsFiniteSet(Codes(j)') /\ Cardinality(Codes(j)') = Cardinality(Codes(j)) + 1
      BY <2>1, <3>4, FS_AddElement
    <3> QED
      BY <2>1, <2>2, <2>3, <3>3, <3>5
  <2>7. CASE j # attempt
    <3>1. Codes(j)' = Codes(j)
      BY <1>3, <1>7, <1>9, <2>5, <2>7, AuthAssumption DEF Codes
    <3>2. Cardinality(Confirming(j)') <= Cardinality(Confirming(j))
          /\ Cardinality(Confirming(j)') \in Nat
      BY <2>3, <2>4, FS_Subset, FS_CardinalityType
    <3> QED
      BY <2>1, <2>2, <2>3, <3>1, <3>2
  <2> QED
    BY <2>6, <2>7
<1> QED
  BY <1>11, <1>13, <1>15, <1>17, <1>18 DEF IInv

-----------------------------------------------------------------------------
(* The bot.                                                                *)

LEMMA OneMore ==
    ASSUME NEW S, NEW x, IsFiniteSet(S)
    PROVE  IsFiniteSet(S \cup {x}) /\ Cardinality(S \cup {x}) <= Cardinality(S) + 1
<1>1. /\ IsFiniteSet(S \cup {x})
      /\ Cardinality(S \cup {x}) = IF x \in S THEN Cardinality(S) ELSE Cardinality(S) + 1
  BY FS_AddElement, Zenon
<1>2. Cardinality(S) \in Nat
  BY FS_CardinalityType
<1> QED
  BY <1>1, <1>2

LEMMA WantedFinite ==
    ASSUME IInv, NEW k \in Key
    PROVE  /\ IsFiniteSet(Wanted(k)) /\ Cardinality(Wanted(k)) \in Nat
           /\ IsFiniteSet(Codes(k)) /\ Cardinality(Codes(k)) \in Nat
           /\ IsFiniteSet(Confirming(k)) /\ Cardinality(Confirming(k)) \in Nat
           /\ Cardinality(Wanted(k)) + Cardinality(Confirming(k)) + Cardinality(Codes(k)) <= starts[k]
           /\ starts[k] \in Nat
BY ConfirmingFinite, FS_CardinalityType DEF IInv, CodeInv, TypeOK, BotTypeOK

LEMMA StartKeeps ==
    ASSUME IInv, NEW telegram \in Telegram, NEW k \in Key, Start(telegram, k),
           UNCHANGED <<pageVars, workload, calm>>
    PROVE  IInv'
<1>1. /\ pendingLogin' = [pendingLogin EXCEPT ![telegram] = k]
      /\ starts' = [starts EXCEPT ![k] = @ + 1]
      /\ pendingLogin \in [Telegram -> Key \cup {NoKey}] /\ starts \in [Key -> Nat]
      /\ UNCHANGED <<users, credential, known, granted, process, window, signedIn, workload, calm>>
  BY DEF Start, authVars, pageVars, IInv, TypeOK, BotTypeOK
<1>2. Goes
  BY <1>1, StillGoes
<1>3. TypeOK'
  BY <1>1 DEF IInv, TypeOK, AuthTypeOK, BotTypeOK, PagesTypeOK
<1>4. FrameInv'
  BY <1>1, <1>2, FrameKept DEF IInv, Goes, Moved, FrameInv
<1>5. ConfirmedInv'
  BY <1>1, <1>2, ConfirmedKept DEF IInv, Goes, Moved
<1>6. GrantInv'
  BY <1>1, <1>2, GrantKept DEF IInv, Goes, Moved
<1>7. CodeInv'
  <2> SUFFICES ASSUME NEW j \in Key
               PROVE  /\ IsFiniteSet(Wanted(j)') /\ IsFiniteSet(Codes(j)')
                      /\ Cardinality(Wanted(j)') + Cardinality(Confirming(j)')
                            + Cardinality(Codes(j)') <= starts'[j]
    BY DEF CodeInv
  <2>1. Codes(j)' = Codes(j) /\ Confirming(j)' = Confirming(j)
    BY <1>1 DEF Codes, Confirming, Its
  <2>2. CASE j = k
    <3>1. /\ IsFiniteSet(Wanted(j) \cup {telegram})
          /\ Cardinality(Wanted(j) \cup {telegram}) <= Cardinality(Wanted(j)) + 1
      BY WantedFinite, OneMore
    <3>2. Wanted(j)' \subseteq Wanted(j) \cup {telegram}
      BY <1>1, <2>2 DEF Wanted
    <3>3. /\ IsFiniteSet(Wanted(j)') /\ Cardinality(Wanted(j)') \in Nat
          /\ Cardinality(Wanted(j)') <= Cardinality(Wanted(j) \cup {telegram})
          /\ Cardinality(Wanted(j) \cup {telegram}) \in Nat
      BY <3>1, <3>2, FS_Subset, FS_CardinalityType
    <3>4. starts'[j] = starts[j] + 1
      BY <1>1, <2>2
    <3> QED
      BY <2>1, <3>1, <3>3, <3>4, WantedFinite
  <2>3. CASE j # k
    <3>1. Wanted(j)' \subseteq Wanted(j)
      BY <1>1, <2>3 DEF Wanted
    <3>2. /\ IsFiniteSet(Wanted(j)') /\ Cardinality(Wanted(j)') \in Nat
          /\ Cardinality(Wanted(j)') <= Cardinality(Wanted(j))
      BY <3>1, WantedFinite, FS_Subset, FS_CardinalityType
    <3>3. starts'[j] = starts[j]
      BY <1>1, <2>3
    <3> QED
      BY <2>1, <3>2, <3>3, WantedFinite
  <2> QED
    BY <2>2, <2>3
<1> QED
  BY <1>3, <1>4, <1>5, <1>6, <1>7 DEF IInv

\* The bot forgets the attempt and calls the backend, which begins to confirm it.
LEMMA ConfirmBegins ==
    ASSUME IInv, NEW p \in Process, NEW telegram \in Telegram, Confirm(p, telegram)
    PROVE  /\ pendingLogin[telegram] \in Key
           /\ \E frame \in Frame :
                 /\ Begin(p, frame) /\ Fits(frame) /\ ~Earns(frame)
                 /\ frame.at \notin Spending /\ frame.at # "issue"
                 /\ frame.kind = "login_confirm" /\ frame.client = telegram
                 /\ frame.key = pendingLogin[telegram]
                 /\ Works(frame) => credential[frame.key].kind = "attempt"
<1> DEFINE k == pendingLogin[telegram]
<1>1. k \in Key
  BY DEF Confirm, IInv, TypeOK, BotTypeOK
<1>2. CASE IsGood(k, "attempt")
  <2> DEFINE frame == [Request("login_confirm", telegram, "find_user")
                         EXCEPT !.key = k, !.telegram = telegram]
  <2>1. Fields(frame, "login_confirm", telegram, "find_user", k, NoUser, telegram)
    BY <1>1, RequestFields, Zenon DEF Kind, Label
  <2>2. Begin(p, frame)
    BY <1>2 DEF Confirm, ConfirmTelegramLogin
  <2> HIDE DEF frame, k
  <2>3. /\ frame \in Frame /\ Fits(frame) /\ ~Earns(frame)
        /\ frame.at \notin Spending /\ frame.at # "issue"
        /\ frame.kind = "login_confirm" /\ frame.client = telegram /\ frame.key = k
    BY <2>1 DEF Fields, Fits, Earns, Spending
  <2> QED
    BY <1>1, <1>2, <2>2, <2>3 DEF IsGood, k
<1>3. CASE ~IsGood(k, "attempt")
  <2> DEFINE frame == [Request("login_confirm", telegram, "answer") EXCEPT !.key = k]
  <2>1. Fields(frame, "login_confirm", telegram, "answer", k, NoUser, NoTelegram)
    BY <1>1, RequestFields, Zenon DEF Kind, Label
  <2>2. Begin(p, frame)
    BY <1>3 DEF Confirm, ConfirmTelegramLogin, Refuse
  <2> HIDE DEF frame, k
  <2>3. /\ frame \in Frame /\ Fits(frame) /\ ~Earns(frame) /\ ~Works(frame)
        /\ frame.at \notin Spending /\ frame.at # "issue"
        /\ frame.kind = "login_confirm" /\ frame.client = telegram /\ frame.key = k
    BY <2>1 DEF Fields, Fits, Earns, Works, IsConfirming, Spending
  <2> QED
    BY <1>1, <2>2, <2>3 DEF k
<1> QED
  BY <1>2, <1>3

LEMMA ConfirmKeeps ==
    ASSUME IInv, NEW p \in Process, NEW telegram \in Telegram, Confirm(p, telegram),
           UNCHANGED <<pageVars, workload>>, calm' \in BOOLEAN
    PROVE  IInv'
<1> DEFINE k == pendingLogin[telegram]
<1>1. /\ k \in Key /\ process[p].at = "idle" /\ Typed
      /\ pendingLogin' = [pendingLogin EXCEPT ![telegram] = NoKey]
      /\ pendingLogin \in [Telegram -> Key \cup {NoKey}]
      /\ UNCHANGED <<users, credential, known, granted, starts, window, signedIn, workload>>
  BY ItIsTyped DEF Confirm, ConfirmTelegramLogin, IInv, TypeOK, BotTypeOK, At, dataVars, pageVars
<1>2. PICK frame \in Frame :
          /\ Begin(p, frame) /\ Fits(frame) /\ ~Earns(frame) /\ frame.at # "issue"
          /\ frame.at \notin Spending /\ frame.key = k
          /\ Works(frame) => credential[frame.key].kind = "attempt"
  BY ConfirmBegins
<1> HIDE DEF k
<1>3. /\ process' \in [Process -> Frame] /\ process'[p] = frame
      /\ \A q \in Process \ {p} : process'[q] = process[q]
  BY <1>1, <1>2, BeginStep DEF Typed
<1>4. FrameRenewed(p) /\ EarnsRenewed(p) /\ HoldsRenewed(p)
  BY <1>1, <1>2, <1>3 DEF FrameRenewed, EarnsRenewed, HoldsRenewed
<1>5. \A q \in Process \ {p} : Kept(q)
  BY <1>3 DEF Kept
<1>6. TypeOK'
  BY <1>1, <1>3 DEF IInv, TypeOK, AuthTypeOK, BotTypeOK, PagesTypeOK
<1>7. FrameInv'
  BY <1>1, <1>4, <1>5, FrameKept DEF IInv, FrameInv
<1>8. ConfirmedInv'
  BY <1>1, <1>4, <1>5, ConfirmedKept DEF IInv
<1>9. GrantInv'
  BY <1>1, <1>4, <1>5, GrantKept DEF IInv
<1>10. CodeInv'
  <2> SUFFICES ASSUME NEW j \in Key
               PROVE  /\ IsFiniteSet(Wanted(j)') /\ IsFiniteSet(Codes(j)')
                      /\ Cardinality(Wanted(j)') + Cardinality(Confirming(j)')
                            + Cardinality(Codes(j)') <= starts[j]
    BY <1>1 DEF CodeInv
  <2>1. Codes(j)' = Codes(j)
    BY <1>1 DEF Codes
  <2>2. CASE j = k
    <3>1. /\ IsFiniteSet(Confirming(j) \cup {p})
          /\ Cardinality(Confirming(j) \cup {p}) <= Cardinality(Confirming(j)) + 1
      BY WantedFinite, OneMore
    <3>2. Confirming(j)' \subseteq Confirming(j) \cup {p}
      BY <1>3 DEF Confirming, Its
    <3>3. /\ Cardinality(Confirming(j)') \in Nat
          /\ Cardinality(Confirming(j)') <= Cardinality(Confirming(j) \cup {p})
          /\ Cardinality(Confirming(j) \cup {p}) \in Nat
      BY <3>1, <3>2, FS_Subset, FS_CardinalityType
    <3>4. telegram \in Wanted(j)
      BY <2>2 DEF Wanted, k
    <3>5. /\ IsFiniteSet(Wanted(j) \ {telegram})
          /\ Cardinality(Wanted(j) \ {telegram}) = Cardinality(Wanted(j)) - 1
      BY <3>4, WantedFinite, FS_RemoveElement
    <3>6. Wanted(j)' = Wanted(j) \ {telegram}
      BY <1>1, AuthAssumption DEF Wanted
    <3> QED
      BY <2>1, <3>1, <3>3, <3>5, <3>6, WantedFinite
  <2>3. CASE j # k
    <3>1. Wanted(j)' \subseteq Wanted(j) /\ Confirming(j)' \subseteq Confirming(j)
      BY <1>1, <1>2, <1>3, <2>3, AuthAssumption DEF Wanted, Confirming, Its
    <3>2. /\ IsFiniteSet(Wanted(j)') /\ Cardinality(Wanted(j)') \in Nat
          /\ Cardinality(Wanted(j)') <= Cardinality(Wanted(j))
          /\ Cardinality(Confirming(j)') \in Nat
          /\ Cardinality(Confirming(j)') <= Cardinality(Confirming(j))
      BY <3>1, WantedFinite, FS_Subset, FS_CardinalityType
    <3> QED
      BY <2>1, <3>2, WantedFinite
  <2> QED
    BY <2>2, <2>3
<1> QED
  BY <1>6, <1>7, <1>8, <1>9, <1>10 DEF IInv

LEMMA ReplyKeeps ==
    ASSUME IInv, NEW p \in Process, Reply(p), UNCHANGED <<pageVars, workload, calm>>
    PROVE  IInv'
<1>1. known' \subseteq Key
  BY DEF Reply, IInv, TypeOK, AuthTypeOK, FrameInv, Fits, At, Its
<1>2. Around /\ UNCHANGED <<users, credential, granted>>
  BY DEF Reply, Around
<1> QED
  BY <1>1, <1>2, ReturnGoes, AroundStep DEF Reply

LEMMA LinkAnsweredKeeps ==
    ASSUME IInv, NEW p \in Process, LinkAnswered(p), Around
    PROVE  IInv'
<1>1. known' \subseteq Key
  BY DEF LinkAnswered, IInv, TypeOK, AuthTypeOK, FrameInv, Fits, At, Its
<1> QED
  BY <1>1, ReturnGoes, AroundStep DEF LinkAnswered

\* The Map of the bot is gone.
LEMMA RestartKeeps ==
    ASSUME IInv, Restart, UNCHANGED <<pageVars, calm>>, workload' \subseteq Happening
    PROVE  IInv'
<1>1. Typed /\ Nobody \in Window \cup Telegram \cup {Nobody}
  BY ItIsTyped
<1>2. process' \in [Process -> Frame]
  BY <1>1 DEF Restart, Typed, Frame
<1>3. \A q \in Process : Kept(q)
  BY <1>1 DEF Restart, Typed, Frame, Kept
<1>4. Goes
  BY <1>2, <1>3 DEF Goes
<1>5. /\ UNCHANGED <<users, credential, granted, starts, known, window, signedIn, calm>>
      /\ pendingLogin' = [telegram \in Telegram |-> NoKey]
  BY DEF Restart, pageVars
<1>6. /\ known' \subseteq Key /\ window' \in [Window -> Shown] /\ signedIn' \in User \cup {NoUser}
      /\ \A w \in Window : window'[w].status = "mounting" => window'[w].key \in Key
      /\ calm' \in BOOLEAN
  BY <1>5 DEF IInv, TypeOK, AuthTypeOK, PagesTypeOK, FrameInv
<1> QED
  BY <1>4, <1>5, <1>6, QuietStep, Zenon

-----------------------------------------------------------------------------
(* The windows.                                                            *)

LEMMA ShowStep ==
    ASSUME IInv, NEW w \in Window, NEW shown \in Shown, shown.status = "mounting" => shown.key \in Key,
           Show(w, shown)
    PROVE  /\ window' \in [Window -> Shown]
           /\ \A v \in Window : window'[v].status = "mounting" => window'[v].key \in Key
BY DEF IInv, TypeOK, PagesTypeOK, FrameInv, Show

LEMMA HomeShown == Home \in Shown /\ Home.status = "idle"
BY DEF Home, Shown, View

LEMMA UnmountGoes ==
    ASSUME IInv, NEW w \in Window, process' = Unmount(w)
    PROVE  Goes
<1>1. Typed
  BY ItIsTyped
<1>2. process' \in [Process -> Frame]
  BY <1>1 DEF Unmount, Typed, Frame
<1>3. \A q \in Process : Kept(q)
  BY <1>1 DEF Unmount, Typed, Frame, Kept
<1> QED
  BY <1>2, <1>3 DEF Goes

LEMMA UnloadGoes ==
    ASSUME IInv, NEW w \in Window, process' = Unload(w)
    PROVE  Goes
<1>1. Typed
  BY ItIsTyped
<1>2. process' \in [Process -> Frame]
  BY <1>1 DEF Unload, Typed, Frame
<1>3. \A q \in Process : Kept(q)
  BY <1>1 DEF Unload, Typed, Frame, Kept
<1> QED
  BY <1>2, <1>3 DEF Goes

LEMMA UnloadReturnGoes ==
    ASSUME IInv, NEW w \in Window, NEW p \in Process, process' = [Unload(w) EXCEPT ![p] = Idle]
    PROVE  Goes
<1>1. Typed
  BY ItIsTyped
<1>2. Unload(w) \in [Process -> Frame]
  BY <1>1 DEF Unload, Typed, Frame
<1>3. process' \in [Process -> Frame] /\ process'[p] = Idle
  BY <1>2, IdleFrame
<1>4. \A q \in Process \ {p} : Kept(q)
  BY <1>1 DEF Unload, Typed, Frame, Kept
<1>5. Moved(p)
  BY <1>3, IdleFrame DEF Moved, FrameRenewed, EarnsRenewed, HoldsRenewed, ConfirmingRenewed,
     IsConfirming, Idle, Spending
<1> QED
  BY <1>3, <1>4, <1>5 DEF Goes

\* Windows and pages change no row.
LEMMA PageStep ==
    ASSUME IInv, Goes, UNCHANGED <<users, credential, granted, botVars>>, known' \subseteq Key,
           window' \in [Window -> Shown],
           \A w \in Window : window'[w].status = "mounting" => window'[w].key \in Key,
           signedIn' = signedIn
              \/ (signedIn' \in User \cup {NoUser} /\ (signedIn' \in Email => users[signedIn'].confirmed)),
           workload' \subseteq Happening, calm' \in BOOLEAN
    PROVE  IInv'
<1>1. UNCHANGED <<users, credential, granted, starts>> /\ pendingLogin' = pendingLogin
  BY DEF botVars
<1>2. signedIn' \in User \cup {NoUser}
  BY DEF IInv, TypeOK, PagesTypeOK
<1> QED
  BY <1>1, <1>2, QuietStep, Zenon

\* The window stays.
LEMMA WindowStays ==
    ASSUME IInv, UNCHANGED window
    PROVE  /\ window' \in [Window -> Shown]
           /\ \A w \in Window : window'[w].status = "mounting" => window'[w].key \in Key
BY DEF IInv, TypeOK, PagesTypeOK, FrameInv

\* An answer that signs in.
LEMMA AnswerSignsIn ==
    ASSUME IInv, NEW w \in Window, NEW p \in Process, NEW kind \in Granting, Answered(w, p, kind),
           process[p].ok
    PROVE  /\ process[p].user \in User \cup {NoUser}
           /\ process[p].user \in Email => users[process[p].user].confirmed
<1>1. /\ Typed /\ process[p].at = "answer" /\ process[p].ok /\ process[p].kind \in Granting
  BY ItIsTyped DEF Answered, At
<1>2. Earns(process[p])
  BY <1>1 DEF Earns
<1> QED
  BY <1>1, <1>2 DEF Typed, Frame, IInv, ConfirmedInv

LEMMA WindowStepKeeps ==
    ASSUME IInv, NEW w \in Window, WindowStep(w)
    PROVE  IInv'
<1>0. /\ known \subseteq Key /\ signedIn \in User \cup {NoUser} /\ window \in [Window -> Shown]
      /\ workload' \subseteq Happening /\ calm' \in BOOLEAN
  BY DEF IInv, TypeOK, AuthTypeOK, PagesTypeOK, WindowStep
<1>1. ASSUME NEW view \in View, SwitchTab(w, view) PROVE IInv'
  <2>1. [Home EXCEPT !.view = view] \in Shown /\ [Home EXCEPT !.view = view].status = "idle"
    BY DEF Home, Shown
  <2>2. /\ window' \in [Window -> Shown]
        /\ \A v \in Window : window'[v].status = "mounting" => window'[v].key \in Key
    BY <1>1, <2>1, ShowStep DEF SwitchTab
  <2> QED
    BY <1>0, <1>1, <2>2, UnmountGoes, PageStep DEF SwitchTab, unchangedData, dataVars
<1>2. ASSUME NEW k \in Key, OpenLink(w, k) PROVE IInv'
  <2> DEFINE shown == [view |-> IF credential[k].kind = "email" THEN "confirm" ELSE "callback",
                       status |-> "mounting", key |-> k]
  <2>1. shown \in Shown /\ shown.key \in Key
    BY DEF Shown, View
  <2>2. Show(w, shown)
    BY <1>2 DEF OpenLink
  <2> HIDE DEF shown
  <2>3. /\ window' \in [Window -> Shown]
        /\ \A v \in Window : window'[v].status = "mounting" => window'[v].key \in Key
    BY <2>1, <2>2, ShowStep
  <2> QED
    BY <1>0, <1>2, <2>3, UnloadGoes, PageStep DEF OpenLink, unchangedData, dataVars
<1>3. ASSUME NEW p \in Process, LoginAnswered(w, p) PROVE IInv'
  <2>1. /\ signedIn' \in User \cup {NoUser}
        /\ signedIn' \in Email => users[signedIn'].confirmed
    BY <1>3, AnswerSignsIn DEF LoginAnswered, Granting
  <2>2. /\ window' \in [Window -> Shown]
        /\ \A v \in Window : window'[v].status = "mounting" => window'[v].key \in Key
    BY <1>3, HomeShown, ShowStep DEF LoginAnswered
  <2> QED
    BY <1>0, <1>3, <2>1, <2>2, UnloadReturnGoes, PageStep DEF LoginAnswered, unchangedData, dataVars
<1>4. ASSUME NEW p \in Process, RegisterAnswered(w, p) PROVE IInv'
  <2>1. [Home EXCEPT !.view = "sent"] \in Shown /\ [Home EXCEPT !.view = "sent"].status = "idle"
    BY DEF Home, Shown, View
  <2>2. /\ window' \in [Window -> Shown]
        /\ \A v \in Window : window'[v].status = "mounting" => window'[v].key \in Key
    BY <1>4, <2>1, ShowStep, WindowStays DEF RegisterAnswered
  <2> QED
    BY <1>0, <1>4, <2>2, ReturnGoes, PageStep DEF RegisterAnswered, unchangedData, dataVars
<1>5. ASSUME NEW p \in Process, ResendAnswered(w, p) \/ FormRefused(w, p) PROVE IInv'
  <2>1. UNCHANGED <<users, credential, granted, known, botVars, window, signedIn>> /\ Return(p)
    BY <1>5 DEF ResendAnswered, FormRefused, unchangedData, dataVars, pageVars
  <2> QED
    BY <1>0, <2>1, ReturnGoes, WindowStays, PageStep
<1>6. ASSUME NEW p \in Process, TelegramStartAnswered(w, p) PROVE IInv'
  <2>1. /\ UNCHANGED <<users, credential, granted, botVars, window, signedIn>> /\ Return(p)
        /\ known' = known \cup {process[p].key} /\ process[p].at = "answer" /\ process[p].ok
        /\ process[p].kind = "start"
    BY <1>6 DEF TelegramStartAnswered, pageVars, Answered, At, Its
  <2>2. process[p].key \in Key
    BY <2>1 DEF IInv, FrameInv, Fits
  <2> QED
    BY <1>0, <2>1, <2>2, ReturnGoes, WindowStays, PageStep
<1>7. ASSUME NEW p \in Process, NEW kind \in {"confirm", "exchange"}, Answered(w, p, kind), Return(p),
             unchangedData, signedIn' = IF process[p].ok THEN process[p].user ELSE signedIn,
             \/ UNCHANGED window
             \/ Show(w, [window[w] EXCEPT !.status = IF process[p].ok THEN "ok" ELSE "err"])
      PROVE  IInv'
  <2> DEFINE status == IF process[p].ok THEN "ok" ELSE "err"
  <2>1. status \in {"ok", "err"}
    OBVIOUS
  <2>2. UNCHANGED window \/ Show(w, [window[w] EXCEPT !.status = status])
    BY <1>7
  <2> HIDE DEF status
  <2>3. [window[w] EXCEPT !.status = status] \in Shown
        /\ [window[w] EXCEPT !.status = status].status # "mounting"
    BY <1>0, <2>1 DEF Shown
  <2>4. /\ window' \in [Window -> Shown]
        /\ \A v \in Window : window'[v].status = "mounting" => window'[v].key \in Key
    BY <2>2, <2>3, ShowStep, WindowStays
  <2>5. \/ signedIn' = signedIn
        \/ /\ signedIn' \in User \cup {NoUser}
           /\ signedIn' \in Email => users[signedIn'].confirmed
    BY <1>7, AnswerSignsIn DEF Granting
  <2> QED
    BY <1>0, <1>7, <2>4, <2>5, ReturnGoes, PageStep DEF unchangedData, dataVars
<1> QED
  BY <1>1, <1>2, <1>3, <1>4, <1>5, <1>6, <1>7 DEF WindowStep, ConfirmAnswered, ExchangeAnswered

LEMMA LeaveStepKeeps ==
    ASSUME IInv, NEW w \in Window, LeaveStep(w)
    PROVE  IInv'
<1>1. /\ known' \subseteq Key /\ workload' \subseteq Happening /\ calm' \in BOOLEAN
  BY DEF IInv, TypeOK, AuthTypeOK, LeaveStep, Once, Reload, unchangedData, dataVars
<1>2. /\ window' \in [Window -> Shown]
      /\ \A v \in Window : window'[v].status = "mounting" => window'[v].key \in Key
  BY HomeShown, ShowStep DEF LeaveStep, Reload
<1> QED
  BY <1>1, <1>2, UnloadGoes, PageStep DEF LeaveStep, Reload, unchangedData, dataVars

LEMMA RequestStepKeeps ==
    ASSUME IInv, NEW w \in Window, NEW p \in Process, RequestStep(w, p)
    PROVE  IInv'
<1>1. /\ known \subseteq Key /\ window \in [Window -> Shown]
      /\ workload' \subseteq Happening /\ calm' \in BOOLEAN
  BY DEF IInv, TypeOK, AuthTypeOK, PagesTypeOK, RequestStep, CalmStart
<1>2. ASSUME NEW email \in Email, SubmitLogin(w, p, email) PROVE IInv'
  <2>1. Goes /\ UNCHANGED <<users, credential, granted, known, botVars, window, signedIn>>
    BY <1>2, LoginBegins, BegunGoes DEF SubmitLogin, Login, dataVars, pageVars
  <2> QED
    BY <1>1, <2>1, WindowStays, PageStep
<1>3. ASSUME NEW email \in Email, SubmitRegister(w, p, email) PROVE IInv'
  <2>1. Goes /\ UNCHANGED <<users, credential, granted, known, botVars, window, signedIn>>
    BY <1>3, RegisterBegins, BegunGoes DEF SubmitRegister, Register, dataVars, pageVars
  <2> QED
    BY <1>1, <2>1, WindowStays, PageStep
<1>4. ASSUME NEW email \in Email, OnResend(w, p, email) PROVE IInv'
  <2>1. Goes /\ UNCHANGED <<users, credential, granted, known, botVars, window, signedIn>>
    BY <1>4, ResendBegins, BegunGoes DEF OnResend, ResendConfirmation, dataVars, pageVars
  <2> QED
    BY <1>1, <2>1, WindowStays, PageStep
<1>5. ASSUME OnTelegramStart(w, p) PROVE IInv'
  <2>1. Goes /\ UNCHANGED <<users, credential, granted, known, botVars, window, signedIn>>
    BY <1>5, StartLoginBegins, BegunGoes DEF OnTelegramStart, StartTelegramLogin, dataVars, pageVars
  <2> QED
    BY <1>1, <2>1, WindowStays, PageStep
<1>6. ASSUME Mount(w, p) PROVE IInv'
  <2>1. /\ window[w].key \in Key /\ UNCHANGED <<botVars, signedIn>>
        /\ Show(w, [window[w] EXCEPT !.status = "loading"])
    BY <1>6 DEF Mount, IInv, FrameInv
  <2>2. /\ [window[w] EXCEPT !.status = "loading"] \in Shown
        /\ [window[w] EXCEPT !.status = "loading"].status = "loading"
    BY <1>1 DEF Shown
  <2>3. /\ window' \in [Window -> Shown]
        /\ \A v \in Window : window'[v].status = "mounting" => window'[v].key \in Key
    BY <2>1, <2>2, ShowStep
  <2>4. Goes /\ UNCHANGED <<users, credential, granted, known>>
    BY <1>6, <2>1, ConfirmEmailBegins, ExchangeBegins, BegunGoes
       DEF Mount, ConfirmEmail, ExchangeTelegramLogin, dataVars
  <2> QED
    BY <1>1, <2>1, <2>3, <2>4, PageStep
<1> QED
  BY <1>2, <1>3, <1>4, <1>5, <1>6 DEF RequestStep

-----------------------------------------------------------------------------
(* The steps of the system.                                                *)

LEMMA BackendStepKeeps ==
    ASSUME IInv, NEW p \in Process, BackendStep(p)
    PROVE  IInv'
<1>0. Around /\ known \subseteq Key
  BY DEF BackendStep, Around, IInv, TypeOK, AuthTypeOK
<1>1. ASSUME SendConfirmationEmail(p) PROVE IInv'
  BY <1>0, <1>1, SendMailGoes, AroundStep DEF SendConfirmationEmail
<1>2. ASSUME CheckLinked(p) PROVE IInv'
  BY <1>0, <1>2, CheckLinkedGoes, AroundStep DEF CheckLinked, dataVars
<1>3. ASSUME FindTelegramUser(p) PROVE IInv'
  BY <1>0, <1>3, FindUserGoes, AroundStep DEF FindTelegramUser, dataVars
<1>4. ASSUME AnswerDropped(p) PROVE IInv'
  BY <1>0, <1>4, ReturnGoes, AroundStep DEF AnswerDropped, dataVars
<1>5. ASSUME LinkAnswered(p) PROVE IInv'
  BY <1>0, <1>5, LinkAnsweredKeeps
<1>6. ASSUME NEW k \in Key,
             \/ CreateEmailConfirmationToken(p, k) \/ CreateLinkCode(p, k)
             \/ CreateAttempt(p, k) \/ CreateExchangeCode(p, k)
      PROVE  IInv'
  BY <1>0, <1>6, CreateTokenKeeps, CreateLinkCodeKeeps, CreateAttemptKeeps, CreateExchangeCodeKeeps
<1> QED
  BY <1>0, <1>1, <1>2, <1>3, <1>4, <1>5, <1>6, CreateEmailUserKeeps, ConfirmUserKeeps, LinkTelegramKeeps,
     CreateTelegramUserKeeps, SpendExchangeCodeKeeps, IssueKeeps DEF BackendStep, Continue

LEMMA OtherStepKeeps ==
    ASSUME IInv, NEW p \in Process, OtherStep(p)
    PROVE  IInv'
<1>1. /\ known \subseteq Key /\ signedIn \in User \cup {NoUser} /\ calm' \in BOOLEAN
      /\ UNCHANGED <<botVars, window, signedIn>> /\ workload' \subseteq Happening
  BY DEF OtherStep, CalmStart, pageVars, IInv, TypeOK, AuthTypeOK, PagesTypeOK
<1>2. Goes /\ UNCHANGED <<users, credential, granted, known>>
  BY <1>1, GenerateLinkBegins, TelegramAuthBegins, VerifyTelegramBegins, BegunGoes
     DEF OtherStep, GenerateTelegramLink, TelegramAuth, VerifyTelegram, dataVars
<1> QED
  BY <1>1, <1>2, WindowStays, PageStep

LEMMA FailStepKeeps ==
    ASSUME IInv, NEW p \in Process, FailStep(p)
    PROVE  IInv'
<1>1. /\ known \subseteq Key /\ calm' \in BOOLEAN
      /\ UNCHANGED <<users, credential, granted, known, botVars, window, signedIn>>
      /\ workload' \subseteq Happening /\ Answer(p, FALSE)
  BY DEF FailStep, RequestFails, Once, dataVars, pageVars, IInv, TypeOK, AuthTypeOK
<1> QED
  BY <1>1, ErrorGoes, WindowStays, PageStep

LEMMA NextKeeps ==
    ASSUME IInv, Next
    PROVE  IInv'
<1>0. workload \subseteq Happening /\ calm \in BOOLEAN
  BY DEF IInv, TypeOK
<1>1. ASSUME BotStep PROVE IInv'
  <2>1. UNCHANGED <<pageVars, workload, calm>>
    BY <1>1 DEF BotStep
  <2> QED
    BY <1>1, <2>1, StartKeeps, ReplyKeeps DEF BotStep
<1>2. ASSUME RestartStep PROVE IInv'
  BY <1>0, <1>2, RestartKeeps DEF RestartStep, Once
<1>3. ASSUME NEW k \in Key, ExpireStep(k) PROVE IInv'
  BY <1>0, <1>3, ExpireKeeps DEF ExpireStep, Once
<1>4. ASSUME NEW p \in Process, NEW telegram \in Telegram, ConfirmStep(p, telegram) PROVE IInv'
  <2>1. calm' \in BOOLEAN
    BY <1>0, <1>4 DEF ConfirmStep, CalmStart
  <2> QED
    BY <1>4, <2>1, ConfirmKeeps DEF ConfirmStep
<1> QED
  BY <1>1, <1>2, <1>3, <1>4, BackendStepKeeps, FailStepKeeps, OtherStepKeeps, WindowStepKeeps,
     LeaveStepKeeps, RequestStepKeeps DEF Next

LEMMA NothingHappens ==
    ASSUME IInv, UNCHANGED vars
    PROVE  IInv'
<1>1. /\ UNCHANGED <<users, credential, granted, known, process, botVars, window, signedIn>>
      /\ workload' = workload /\ calm' = calm
  BY DEF vars, authVars, pageVars
<1>2. /\ known' \subseteq Key /\ workload' \subseteq Happening /\ calm' \in BOOLEAN
  BY <1>1 DEF IInv, TypeOK, AuthTypeOK
<1> QED
  BY <1>1, <1>2, StillGoes, WindowStays, PageStep

LEMMA InitKeeps == Init => IInv
<1> SUFFICES ASSUME Init PROVE IInv
  OBVIOUS
<1>1. PICK confirmed \in SUBSET Confirmed :
         /\ users = [u \in User |->
                        IF u \in confirmed
                        THEN [EmailRow EXCEPT !.status = "ACTIVE", !.confirmed = TRUE]
                        ELSE AbsentRow]
         /\ signedIn \in confirmed \cup {NoUser}
  BY DEF Init
<1>2. confirmed \subseteq Email /\ confirmed \subseteq User
  BY SystemAssumption DEF User
<1>3. /\ credential = [k \in Key |-> NoCredential] /\ known = {}
      /\ granted = [k \in Key |-> 0] /\ process = [p \in Process |-> Idle]
      /\ pendingLogin = [telegram \in Telegram |-> NoKey] /\ starts = [k \in Key |-> 0]
      /\ window = [w \in Window |-> Home] /\ workload \subseteq Happening /\ calm = TRUE
  BY SystemAssumption DEF Init, AuthInit, BotInit, PagesInit
<1> DEFINE active == [EmailRow EXCEPT !.status = "ACTIVE", !.confirmed = TRUE]
<1>4. /\ active \in UserRow /\ active.confirmed /\ active.status = "ACTIVE"
      /\ AbsentRow \in UserRow /\ ~AbsentRow.confirmed /\ AbsentRow.status = "ABSENT"
      /\ AbsentRow.telegramId = NoTelegram
  BY DEF EmailRow, AbsentRow, UserRow
<1>5. users = [u \in User |-> IF u \in confirmed THEN active ELSE AbsentRow]
  BY <1>1
<1> HIDE DEF active
<1>6. NoCredential \in Credential
  BY DEF NoCredential, Credential
<1>7. TypeOK
  <2>1. AuthTypeOK
    BY <1>3, <1>4, <1>5, <1>6, IdleFrame DEF AuthTypeOK
  <2>2. BotTypeOK /\ PagesTypeOK
    BY <1>1, <1>2, <1>3, HomeShown DEF BotTypeOK, PagesTypeOK
  <2> QED
    BY <1>3, <2>1, <2>2 DEF TypeOK
<1>8. FrameInv
  BY <1>3, IdleFrame, HomeShown DEF FrameInv
<1>9. ConfirmedInv
  <2>1. \A u \in Email : \/ users[u].confirmed /\ users[u].status = "ACTIVE"
                         \/ /\ ~users[u].confirmed /\ users[u].status # "ACTIVE"
                            /\ users[u].telegramId = NoTelegram
    BY <1>4, <1>5 DEF User
  <2>2. signedIn \in Email => users[signedIn].confirmed
    BY <1>1, <1>2, <1>4, <1>5, AuthAssumption DEF User
  <2>3. \A k \in Key : credential[k].kind = "none"
    BY <1>3 DEF NoCredential
  <2> QED
    BY <1>3, <2>1, <2>2, <2>3, IdleFrame DEF ConfirmedInv
<1>10. GrantInv
  <2>1. \A k \in Key : granted[k] = 0 /\ Cardinality(Holders(k)) <= Cardinality(Process)
    BY <1>3, HoldersFinite
  <2>2. \A p \in Process : process[p].at = "idle"
    BY <1>3 DEF Idle
  <2> QED
    BY <2>1, <2>2, HoldersFinite DEF GrantInv, At
<1>11. CodeInv
  <2> SUFFICES ASSUME NEW k \in Key
               PROVE  /\ IsFiniteSet(Wanted(k)) /\ IsFiniteSet(Codes(k))
                      /\ Cardinality(Wanted(k)) + Cardinality(Confirming(k)) + Cardinality(Codes(k))
                            <= starts[k]
    BY DEF CodeInv
  <2>1. Wanted(k) = {} /\ Codes(k) = {} /\ Confirming(k) = {}
    BY <1>3, AuthAssumption DEF Wanted, Codes, Confirming, IsConfirming, NoCredential, Idle
  <2> QED
    BY <1>3, <2>1, FS_EmptySet
<1> QED
  BY <1>7, <1>8, <1>9, <1>10, <1>11 DEF IInv

LEMMA Inductive == Spec => []IInv
<1>1. IInv /\ [Next]_vars => IInv'
  BY NextKeeps, NothingHappens
<1> QED
  BY InitKeeps, <1>1, PTL DEF Spec

-----------------------------------------------------------------------------

\* Users, credentials, requests, the Map of the bot and the windows have their types.
THEOREM SignInTypeCorrect == Spec => []TypeOK
<1>1. IInv => TypeOK
  BY DEF IInv
<1> QED
  BY Inductive, <1>1, PTL

\* Whoever has a session and an address has confirmed the address.
THEOREM SessionsConfirmed == Spec => []SessionsAreConfirmed
<1>1. IInv => SessionsAreConfirmed
  BY DEF IInv, ConfirmedInv, SessionsAreConfirmed, Earns, Granting, At
<1> QED
  BY Inductive, <1>1, PTL

\* A credential gives no more sessions than requests can be in flight together, however
\* many arrive in all.
THEOREM GrantsStayBounded == Spec => []GrantsBounded
<1>1. IInv => GrantsBounded
  <2> SUFFICES ASSUME IInv, NEW k \in Key PROVE granted[k] <= Cardinality(Process)
    BY DEF GrantsBounded
  <2>1. granted[k] + Cardinality(Holders(k)) <= Cardinality(Process) /\ granted[k] \in Nat
    BY DEF IInv, GrantInv, TypeOK, AuthTypeOK
  <2> QED
    BY <2>1, HoldersFinite
<1> QED
  BY Inductive, <1>1, PTL

\* An attempt to log in with Telegram gives no more codes than it was opened there.
THEOREM CodesAreAskedFor == Spec => []CodesNeedStarts
<1>1. IInv => CodesNeedStarts
  <2> SUFFICES ASSUME IInv, NEW k \in Key PROVE Cardinality(Codes(k)) <= starts[k]
    BY DEF CodesNeedStarts
  <2> QED
    BY WantedFinite
<1> QED
  BY Inductive, <1>1, PTL

-----------------------------------------------------------------------------
(* A window waits for its own link.                                        *)

\* An issued credential stays what it is.
KindsStay == \A k \in Key : credential[k].kind # "none" => credential'[k].kind = credential[k].kind

\* A request is waited for as it was, if it still is; or by no window.
Follows(q) ==
    /\ process'[q].kind = process[q].kind
    /\ process'[q].kind \in Link => process'[q].key = process[q].key
    /\ \A w \in Window : Shows(w, q)' => Shows(w, q)
    /\ process'[q].kind = "confirm" /\ process'[q].client \in Window =>
           process'[q].client = process[q].client /\ process'[q].mounted = process[q].mounted
    /\ IsConfirming(process'[q]) => IsConfirming(process[q]) /\ process'[q].key = process[q].key

Unwatched(q) ==
    /\ process'[q].client \notin Window
    /\ IsConfirming(process'[q]) => credential'[process'[q].key].kind = "attempt"

\* What a window may show when no request of its own is out.
Fitting(shown) ==
    /\ shown.status # "idle" => shown.view \in {"confirm", "callback"}
    /\ shown.status = "mounting" => credential'[shown.key].kind = LinkOf(shown.view)

LEMMA WindowKept ==
    ASSUME IInv, WindowInv, KindsStay,
           \A q \in Process : Follows(q) \/ Unwatched(q),
           \A w \in Window : \/ window'[w] = window[w]
                             \/ Fitting(window'[w]) /\ \A q \in Process : ~Shows(w, q)'
    PROVE  WindowInv'
<1>1. ASSUME NEW w \in Window
      PROVE  /\ window'[w].status # "idle" => window'[w].view \in {"confirm", "callback"}
             /\ window'[w].status = "mounting" =>
                    credential'[window'[w].key].kind = LinkOf(window'[w].view)
  <2>1. CASE window'[w] = window[w]
    <3>1. window[w].status = "mounting" =>
             /\ window[w].key \in Key
             /\ credential[window[w].key].kind = LinkOf(window[w].view)
      BY DEF IInv, FrameInv, WindowInv
    <3>2. LinkOf(window[w].view) # "none"
      BY DEF LinkOf
    <3> QED
      BY <2>1, <3>1, <3>2 DEF WindowInv, KindsStay
  <2> QED
    BY <2>1 DEF Fitting
<1>2. ASSUME NEW q \in Process, process'[q].kind = "confirm", process'[q].client \in Window
      PROVE  process'[q].mounted
  BY <1>2 DEF Follows, Unwatched, WindowInv
<1>3. ASSUME NEW q \in Process, IsConfirming(process'[q])
      PROVE  credential'[process'[q].key].kind = "attempt"
  <2>1. CASE Follows(q)
    <3>1. /\ process'[q].key = process[q].key /\ process[q].key \in Key
          /\ credential[process[q].key].kind = "attempt"
      BY <1>3, <2>1 DEF Follows, IInv, FrameInv, WindowInv, Works, Its
    <3> QED
      BY <3>1 DEF KindsStay
  <2> QED
    BY <1>3, <2>1 DEF Unwatched
<1>4. ASSUME NEW w \in Window, NEW q \in Process, Shows(w, q)'
      PROVE  /\ Shows(w, q) /\ window'[w] = window[w]
             /\ process'[q].kind = process[q].kind
             /\ process'[q].kind \in Link => process'[q].key = process[q].key
  BY <1>4 DEF Follows, Unwatched, Shows
<1>5. ASSUME NEW w \in Window, NEW q \in Process, Shows(w, q)'
      PROVE  /\ IF process'[q].kind \in Link
                THEN window'[w].status = "loading" /\ window'[w].key = process'[q].key
                ELSE window'[w].status = "idle"
             /\ \A r \in Process : Shows(w, r)' => r = q
  BY <1>4, <1>5 DEF WindowInv, Its
<1> QED
  BY <1>1, <1>2, <1>3, <1>5 DEF WindowInv, Its

\* A form or a link asks for its answer.
LEMMA WindowBegins ==
    ASSUME IInv, WindowInv, UNCHANGED credential, NEW w \in Window, NEW p \in Process, NEW kind, NEW k,
           Begun(p, kind, w, k), \A q \in Process : ~Shows(w, q),
           \/ kind \notin Link /\ window[w].status = "idle" /\ UNCHANGED window
           \/ /\ kind \in Link /\ window[w].status = "mounting" /\ window[w].key = k
              /\ Show(w, [window[w] EXCEPT !.status = "loading"])
    PROVE  WindowInv'
<1>1. PICK frame \in Frame :
         /\ Begin(p, frame) /\ Acceptable(frame)
         /\ frame.kind = kind /\ frame.client = w /\ frame.key = k /\ frame.mounted
  BY DEF Begun
<1>2. /\ process \in [Process -> Frame] /\ process' \in [Process -> Frame] /\ process'[p] = frame
      /\ \A q \in Process \ {p} : process'[q] = process[q]
  BY <1>1, ItIsTyped, BeginStep DEF Typed
<1>3. /\ window \in [Window -> Shown] /\ \A v \in Window \ {w} : window'[v] = window[v]
      /\ window'[w].view = window[w].view /\ window'[w].key = window[w].key
      /\ kind \notin Link => window'[w].status = "idle" /\ window[w].status = "idle"
      /\ kind \in Link => window'[w].status = "loading" /\ window[w].status = "mounting"
  BY DEF IInv, TypeOK, PagesTypeOK, Show, Shown
<1>4. \A v \in Window, q \in Process :
         Shows(v, q)' <=> (v = w /\ q = p) \/ (v # w /\ q # p /\ Shows(v, q))
  BY <1>1, <1>2 DEF Shows
<1>5. ASSUME NEW v \in Window
      PROVE  /\ window'[v].status # "idle" => window'[v].view \in {"confirm", "callback"}
             /\ window'[v].status = "mounting" =>
                    credential'[window'[v].key].kind = LinkOf(window'[v].view)
  BY <1>3 DEF WindowInv
<1>6. ASSUME NEW q \in Process
      PROVE  /\ process'[q].kind = "confirm" /\ process'[q].client \in Window => process'[q].mounted
             /\ IsConfirming(process'[q]) => credential'[process'[q].key].kind = "attempt"
  BY <1>1, <1>2 DEF WindowInv, Acceptable, Its
<1>7. ASSUME NEW v \in Window, NEW q \in Process, Shows(v, q)'
      PROVE  /\ IF process'[q].kind \in Link
                THEN window'[v].status = "loading" /\ window'[v].key = process'[q].key
                ELSE window'[v].status = "idle"
             /\ \A r \in Process : Shows(v, r)' => r = q
  <2>1. CASE v = w /\ q = p
    BY <1>1, <1>2, <1>3, <1>4, <2>1
  <2>2. CASE v # w /\ q # p /\ Shows(v, q)
    BY <1>2, <1>3, <1>4, <2>2 DEF WindowInv, Its
  <2> QED
    BY <1>4, <1>7, <2>1, <2>2
<1> QED
  BY <1>5, <1>6, <1>7 DEF WindowInv, Its

-----------------------------------------------------------------------------
(* A credential is used without a session only on the way to it.           *)

\* What was spent stays so.
SpentStays == \A k \in Key : /\ credential[k].expired => credential'[k].expired
                             /\ granted'[k] = granted[k] \/ granted'[k] = 1

LEMMA SpentKept ==
    ASSUME SpentStays, NEW k, Spent(k)
    PROVE  Spent(k)'
BY DEF SpentStays, Spent

\* Whoever waits for an answer, and what is shown.
LEMMA CalmQuiet ==
    ASSUME IInv, CalmInv, calm' => calm, granted' = granted, KindsStay, SpentStays,
           \A k \in Key : credential'[k].used = credential[k].used,
           \A q \in Process : Kept(q) \/ (~Busy(q) /\ process'[q] = Idle),
           \A w \in Window : calm /\ window'[w].status = "err" =>
               \/ window[w].status = "err" /\ window'[w].key = window[w].key
               \/ Spent(window[w].key)'
    PROVE  CalmInv'
<1> SUFFICES ASSUME calm', calm PROVE CalmInv'
  BY DEF CalmInv
<1>1. ASSUME NEW q \in Process, Busy(q)'
      PROVE  /\ Busy(q) /\ process'[q].at = process[q].at /\ process'[q].key = process[q].key
  BY <1>1 DEF Kept, Busy, Idle
<1>2. ASSUME NEW p \in Process, Busy(p)' PROVE Alone(p)'
  <2>1. Alone(p)
    BY <1>1, <1>2 DEF CalmInv
  <2>2. process[p].at \in Spending => process[p].key \in Key
    BY DEF IInv, FrameInv, Works, Its
  <2> QED
    BY <1>1, <1>2, <2>1, <2>2 DEF Alone, At, Its
<1>3. ASSUME NEW p \in Process, process'[p].at = "answer", ~process'[p].ok, process'[p].kind \in Link
      PROVE  Spent(process[p].key)'
  <2>1. Kept(p)
    BY <1>3 DEF Idle
  <2>2. Spent(process[p].key)
    BY <1>3, <2>1 DEF CalmInv, Kept, At, Its
  <2> QED
    BY <2>1, <2>2, SpentKept DEF Kept
<1>4. ASSUME NEW w \in Window, window'[w].status = "err" PROVE Spent(window[w].key)'
  BY <1>4, SpentKept DEF CalmInv
<1>5. ASSUME NEW k \in Key, credential'[k].used, credential'[k].kind \in {"email", "exchange"}
      PROVE  granted'[k] = 1 \/ \E p \in Process : process'[p].at = "issue" /\ process'[p].key = k
  <2>1. credential[k].used /\ credential[k].kind = credential'[k].kind
    BY <1>5 DEF IInv, FrameInv, NoCredential, KindsStay
  <2>2. CASE granted[k] = 1
    BY <2>2
  <2>3. ASSUME NEW p \in Process, process[p].at = "issue", process[p].key = k
        PROVE  process'[p].at = "issue" /\ process'[p].key = k
    BY <2>3 DEF Kept, Busy
  <2> QED
    BY <1>5, <2>1, <2>2, <2>3 DEF CalmInv, At, Its
<1> QED
  BY <1>2, <1>3, <1>4, <1>5 DEF CalmInv, At, Its

\* A request begins while no other is at work.
LEMMA CalmBegins ==
    ASSUME IInv, CalmInv, NEW p \in Process, CalmStart, UNCHANGED <<credential, granted>>,
           NEW frame \in Frame, Begin(p, frame),
           frame.at \in Spending => ~credential[frame.key].used,
           frame.at = "issue" => frame.key = NoKey,
           frame.at = "answer" /\ frame.kind \in Link =>
               /\ frame.key \in Key /\ ~IsGood(frame.key, LinkOf(frame.kind))
               /\ credential[frame.key].kind = LinkOf(frame.kind),
           \A w \in Window : window'[w].status = "err" =>
               window[w].status = "err" /\ window'[w].key = window[w].key
    PROVE  CalmInv'
<1> SUFFICES ASSUME calm' PROVE CalmInv'
  BY DEF CalmInv
<1>0. calm /\ \A q \in Process : ~Busy(q)
  BY DEF CalmStart, Overlaps, Busy
<1>1. /\ process'[p] = frame /\ \A q \in Process \ {p} : process'[q] = process[q]
  BY ItIsTyped, BeginStep DEF Typed
<1>2. \A q \in Process : Busy(q)' => q = p
  BY <1>0, <1>1 DEF Busy
<1>3. Alone(p)'
  BY <1>1, <1>2, AuthAssumption DEF Alone, At, Its
<1>4. ASSUME NEW k \in Key, credential[k].used, credential[k].kind \in {"email", "exchange"}
      PROVE  granted[k] = 1
  BY <1>0, <1>4 DEF CalmInv, Busy, At
<1>5. ASSUME NEW q \in Process, process'[q].at = "answer", ~process'[q].ok, process'[q].kind \in Link
      PROVE  Spent(process[q].key)'
  <2>1. CASE q = p
    <3>1. /\ frame.key \in Key /\ ~IsGood(frame.key, LinkOf(frame.kind))
          /\ credential[frame.key].kind = LinkOf(frame.kind)
      BY <1>1, <1>5, <2>1
    <3>2. credential[frame.key].used \/ credential[frame.key].expired
      BY <3>1 DEF IsGood
    <3>3. LinkOf(frame.kind) \in {"email", "exchange"}
      BY DEF LinkOf
    <3> QED
      BY <1>1, <1>4, <2>1, <3>1, <3>2, <3>3 DEF Spent
  <2>2. CASE q # p
    BY <1>0, <1>1, <1>5, <2>2 DEF CalmInv, Spent, At, Its
  <2> QED
    BY <2>1, <2>2
<1>6. ASSUME NEW w \in Window, window'[w].status = "err" PROVE Spent(window[w].key)'
  BY <1>0, <1>6 DEF CalmInv, Spent
<1> QED
  BY <1>0, <1>2, <1>3, <1>4, <1>5, <1>6 DEF CalmInv, At, Its

\* The request p goes on, with its own key at a step of its own.
GoesOn(p) ==
    /\ process[p].at \notin {"idle", "answer"}
    /\ \A q \in Process \ {p} : process'[q] = process[q]
    /\ process'[p].kind = process[p].kind /\ process'[p].client = process[p].client
    /\ process'[p].mounted = process[p].mounted
    /\ process'[p].kind \in Link => process'[p].key = process[p].key
    /\ IsConfirming(process'[p]) => IsConfirming(process[p]) /\ process'[p].key = process[p].key

\* What it finds and leaves, as the one request at work.
WorksAlone(p) ==
    /\ process'[p].at \in Spending => ~credential'[process'[p].key].used
    /\ process'[p].at = "issue" /\ process'[p].key \in Key => granted'[process'[p].key] = 0
    /\ process'[p].at = "answer" /\ ~process'[p].ok => process'[p].kind \notin Link
    /\ \A k \in Key : credential'[k].used /\ credential'[k].kind \in {"email", "exchange"} =>
          \/ granted'[k] = 1
          \/ process'[p].at = "issue" /\ process'[p].key = k
          \/ /\ credential[k].used /\ credential[k].kind = credential'[k].kind
             /\ ~(process[p].at = "issue" /\ process[p].key = k)

LEMMA CalmWorks ==
    ASSUME IInv, WindowInv, CalmInv, NEW p \in Process, GoesOn(p), KindsStay, Around,
           calm => SpentStays /\ WorksAlone(p)
    PROVE  WindowInv' /\ CalmInv'
<1>1. window' = window /\ calm' = calm
  BY DEF Around, pageVars
<1>2. WindowInv'
  <2>1. \A q \in Process : Follows(q)
    BY DEF GoesOn, Follows, Shows
  <2> QED
    BY <1>1, <2>1, WindowKept
<1>3. ASSUME calm PROVE CalmInv'
  <2>1. Alone(p) /\ SpentStays /\ WorksAlone(p)
    BY <1>3 DEF GoesOn, CalmInv, Busy
  <2>2. \A q \in Process : Busy(q)' => q = p
    BY <2>1 DEF GoesOn, Alone, Busy
  <2>3. Alone(p)'
    BY <2>1, <2>2 DEF Alone, WorksAlone, At, Its
  <2>4. ASSUME NEW q \in Process, process'[q].at = "answer", ~process'[q].ok, process'[q].kind \in Link
        PROVE  Spent(process[q].key)'
    <3>1. q # p
      BY <2>1, <2>4 DEF WorksAlone
    <3>2. process'[q] = process[q] /\ Spent(process[q].key)
      BY <1>3, <2>4, <3>1 DEF GoesOn, CalmInv, At, Its
    <3> QED
      BY <2>1, <3>2, SpentKept
  <2>5. ASSUME NEW w \in Window, window'[w].status = "err" PROVE Spent(window[w].key)'
    BY <1>1, <1>3, <2>1, <2>5, SpentKept DEF CalmInv
  <2>6. ASSUME NEW k \in Key PROVE granted'[k] <= 1
    BY <1>3, <2>1 DEF CalmInv, SpentStays
  <2>7. ASSUME NEW k \in Key, credential'[k].used, credential'[k].kind \in {"email", "exchange"}
        PROVE  granted'[k] = 1 \/ \E q \in Process : process'[q].at = "issue" /\ process'[q].key = k
    <3>1. ASSUME credential[k].used, credential[k].kind = credential'[k].kind,
                 ~(process[p].at = "issue" /\ process[p].key = k)
          PROVE  granted'[k] = 1
      <4>1. granted[k] = 1 \/ \E q \in Process : process[q].at = "issue" /\ process[q].key = k
        BY <1>3, <2>7, <3>1 DEF CalmInv, At, Its
      <4>2. \A q \in Process : process[q].at = "issue" => q = p
        BY <2>1 DEF Alone, Busy
      <4> QED
        BY <2>1, <3>1, <4>1, <4>2 DEF SpentStays
    <3> QED
      BY <2>1, <2>7, <3>1 DEF WorksAlone
  <2> QED
    BY <2>2, <2>3, <2>4, <2>5, <2>6, <2>7 DEF CalmInv, At, Its
<1> QED
  BY <1>1, <1>2, <1>3 DEF CalmInv

\* It reads, or issues a credential, or writes a user.
LEMMA CalmReads ==
    ASSUME IInv, WindowInv, CalmInv, NEW p \in Process, GoesOn(p), Around, granted' = granted,
           \A k \in Key : \/ credential'[k] = credential[k]
                          \/ credential[k].kind = "none" /\ ~credential'[k].used,
           process[p].at # "issue",
           calm /\ process'[p].at \in Spending =>
               process[p].at \in Spending /\ process'[p].key = process[p].key,
           process'[p].at = "issue" => process'[p].key = NoKey,
           process'[p].at = "answer" /\ ~process'[p].ok => process'[p].kind \notin Link
    PROVE  WindowInv' /\ CalmInv'
<1>1. \A k \in Key : credential[k].kind = "none" => ~credential[k].used /\ ~credential[k].expired
  BY DEF IInv, FrameInv, NoCredential
<1>2. KindsStay /\ SpentStays
  BY <1>1 DEF KindsStay, SpentStays
<1>3. ASSUME calm PROVE WorksAlone(p)
  <2>1. Alone(p)
    BY <1>3 DEF GoesOn, CalmInv, Busy
  <2>2. process[p].at \in Spending => process[p].key \in Key /\ credential[process[p].key].kind # "none"
    BY DEF IInv, FrameInv, Works, Its
  <2>3. process'[p].at \in Spending => ~credential'[process'[p].key].used
    BY <1>3, <2>1, <2>2 DEF Alone, Its
  <2> QED
    BY <2>3, AuthAssumption DEF WorksAlone
<1> QED
  BY <1>2, <1>3, CalmWorks

-----------------------------------------------------------------------------
(* The steps of a request, one by one.                                     *)

LEMMA AnswerGoesOn ==
    ASSUME IInv, NEW p \in Process, process[p].at \notin {"idle", "answer"},
           NEW ok \in BOOLEAN, Answer(p, ok)
    PROVE  /\ GoesOn(p) /\ process'[p].at = "answer" /\ process'[p].ok = ok
           /\ process'[p].kind = process[p].kind /\ process'[p].key = process[p].key
BY ItIsTyped, AnswerStep DEF Typed, GoesOn, IsConfirming

LEMMA GoToGoesOn ==
    ASSUME IInv, NEW p \in Process, process[p].at \notin {"idle", "answer"},
           NEW label \in Label, label # "find_user", GoTo(p, label),
           label \in {"create_user", "login_write"} => IsConfirming(process[p]) \/ process[p].kind = "auth"
    PROVE  /\ GoesOn(p) /\ process'[p].at = label
           /\ process'[p].kind = process[p].kind /\ process'[p].key = process[p].key
BY GoToFields DEF GoesOn, IsConfirming

LEMMA MadeGoesOn ==
    ASSUME IInv, NEW p \in Process, process[p].at \notin {"idle", "answer"},
           process[p].kind \notin Link, NEW k \in Key,
           process' = [process EXCEPT ![p].at = "answer", ![p].ok = TRUE, ![p].key = k]
    PROVE  GoesOn(p) /\ process'[p].at = "answer" /\ process'[p].ok
BY MadeFields DEF GoesOn, IsConfirming

LEMMA UserGoesOn ==
    ASSUME IInv, NEW p \in Process, process[p].at \in {"find_user", "create_user"},
           process[p].kind \in {"auth", "login_confirm"}, NEW u \in User,
           process' = [process EXCEPT ![p].at = AfterUser(p), ![p].user = u]
    PROVE  /\ GoesOn(p) /\ process'[p].at = AfterUser(p)
           /\ process'[p].kind = process[p].kind /\ process'[p].key = process[p].key
<1> DEFINE label == AfterUser(p)
<1>1. /\ label \in {"issue", "login_write"} /\ (label = "issue" <=> process[p].kind = "auth")
  BY DEF AfterUser
<1>2. process' = [process EXCEPT ![p].at = label, ![p].user = u]
  OBVIOUS
<1> HIDE DEF label
<1>3. /\ process'[p].at = label
      /\ process'[p].kind = process[p].kind /\ process'[p].key = process[p].key
      /\ process'[p].client = process[p].client /\ process'[p].mounted = process[p].mounted
      /\ \A q \in Process \ {p} : process'[q] = process[q]
  BY <1>2, ItIsTyped DEF Typed, Frame
<1>4. GoesOn(p)
  BY <1>1, <1>3 DEF GoesOn, IsConfirming
<1> QED
  BY <1>3, <1>4 DEF label

LEMMA CreateEmailUserCalm ==
    ASSUME IInv, WindowInv, CalmInv, NEW p \in Process, CreateEmailUser(p), Around
    PROVE  WindowInv' /\ CalmInv'
<1>1. process[p].at = "create_user" /\ process[p].kind = "register" /\ UNCHANGED <<credential, granted>>
  BY DEF CreateEmailUser, At
<1>2. CASE Answer(p, FALSE)
  BY <1>1, <1>2, AnswerGoesOn, CalmReads DEF Link, Spending
<1>3. CASE GoTo(p, "create_token")
  BY <1>1, <1>3, GoToGoesOn, CalmReads DEF Label, Spending
<1> QED
  BY <1>2, <1>3 DEF CreateEmailUser

LEMMA SendMailCalm ==
    ASSUME IInv, WindowInv, CalmInv, NEW p \in Process, SendConfirmationEmail(p), Around
    PROVE  WindowInv' /\ CalmInv'
<1>1. process[p].at = "send_mail" /\ UNCHANGED <<credential, granted>> /\ Answer(p, TRUE)
  BY DEF SendConfirmationEmail, At
<1> QED
  BY <1>1, AnswerGoesOn, CalmReads DEF Spending

LEMMA CheckLinkedCalm ==
    ASSUME IInv, WindowInv, CalmInv, NEW p \in Process, CheckLinked(p), Around
    PROVE  WindowInv' /\ CalmInv'
<1>1. /\ process[p].at = "link_check" /\ process[p].kind = "verify" /\ UNCHANGED <<credential, granted>>
  BY DEF CheckLinked, At, IInv, FrameInv, Fits, dataVars
<1>2. CASE Answer(p, FALSE)
  BY <1>1, <1>2, AnswerGoesOn, CalmReads DEF Link, Spending
<1>3. CASE GoTo(p, "link_write")
  BY <1>1, <1>3, GoToGoesOn, CalmReads DEF Label, Spending
<1> QED
  BY <1>2, <1>3 DEF CheckLinked

LEMMA FindUserCalm ==
    ASSUME IInv, WindowInv, CalmInv, NEW p \in Process, FindTelegramUser(p), Around
    PROVE  WindowInv' /\ CalmInv'
<1>1. /\ process[p].at = "find_user" /\ process[p].kind \in {"auth", "login_confirm"}
      /\ process[p].kind = "auth" => process[p].key = NoKey
      /\ UNCHANGED <<credential, granted>>
  BY DEF FindTelegramUser, At, IInv, FrameInv, Fits, dataVars
<1>2. CASE GoTo(p, "create_user")
  BY <1>1, <1>2, GoToGoesOn, CalmReads DEF Label, Spending, IsConfirming
<1>3. ASSUME NEW u \in WithTelegram(process[p].telegram),
             process' = [process EXCEPT ![p].at = AfterUser(p), ![p].user = u]
      PROVE  WindowInv' /\ CalmInv'
  <2>1. u \in User
    BY <1>3 DEF WithTelegram
  <2>2. /\ GoesOn(p) /\ process'[p].at = AfterUser(p)
        /\ process'[p].kind = process[p].kind /\ process'[p].key = process[p].key
    BY <1>1, <1>3, <2>1, UserGoesOn
  <2> QED
    BY <1>1, <2>2, CalmReads DEF AfterUser, Spending
<1> QED
  BY <1>2, <1>3 DEF FindTelegramUser

LEMMA CreateTelegramUserCalm ==
    ASSUME IInv, WindowInv, CalmInv, NEW p \in Process, CreateTelegramUser(p), Around
    PROVE  WindowInv' /\ CalmInv'
<1>1. /\ process[p].at = "create_user" /\ process[p].kind \in {"auth", "login_confirm"}
      /\ process[p].kind = "auth" => process[p].key = NoKey
      /\ process[p].telegram \in User /\ UNCHANGED <<credential, granted>>
  BY DEF CreateTelegramUser, At, IInv, FrameInv, Fits, User
<1>2. CASE Answer(p, FALSE)
  BY <1>1, <1>2, AnswerGoesOn, CalmReads DEF Link, Spending
<1>3. CASE process' = [process EXCEPT ![p].at = AfterUser(p), ![p].user = process[p].telegram]
  <2>1. /\ GoesOn(p) /\ process'[p].at = AfterUser(p)
        /\ process'[p].kind = process[p].kind /\ process'[p].key = process[p].key
    BY <1>1, <1>3, UserGoesOn
  <2> QED
    BY <1>1, <2>1, CalmReads DEF AfterUser, Spending
<1> QED
  BY <1>2, <1>3 DEF CreateTelegramUser

\* A credential is issued.
LEMMA IssuedCalm ==
    ASSUME IInv, NEW k \in Key, IsNew(k), NEW kind \in {"email", "link", "attempt", "exchange"},
           NEW u \in User \cup {NoUser},
           credential' = [credential EXCEPT ![k] = Issued(kind, u, NoKey)]
    PROVE  \A j \in Key : \/ credential'[j] = credential[j]
                          \/ credential[j].kind = "none" /\ ~credential'[j].used
<1> DEFINE issued == Issued(kind, u, NoKey)
<1>1. ~issued.used
  BY IssuedFields
<1>2. /\ credential' = [credential EXCEPT ![k] = issued] /\ credential[k].kind = "none"
      /\ credential \in [Key -> Credential]
  BY DEF IsNew, IInv, TypeOK, AuthTypeOK
<1> HIDE DEF issued
<1> QED
  BY <1>1, <1>2

LEMMA CreateTokenCalm ==
    ASSUME IInv, WindowInv, CalmInv, NEW p \in Process, NEW k \in Key,
           CreateEmailConfirmationToken(p, k), Around
    PROVE  WindowInv' /\ CalmInv'
<1>1. /\ process[p].at = "create_token" /\ process[p].kind \in {"register", "resend"} /\ Typed
      /\ IsNew(k) /\ credential' = [credential EXCEPT ![k] = Issued("email", process[p].user, NoKey)]
      /\ process' = [process EXCEPT ![p].at = "send_mail", ![p].key = k]
      /\ granted' = granted
  BY ItIsTyped DEF CreateEmailConfirmationToken, IInv, FrameInv, Fits, At
<1>2. process[p].user \in User \cup {NoUser}
  BY <1>1 DEF Typed, Frame
<1>3. /\ process'[p].at = "send_mail" /\ process'[p].kind = process[p].kind
      /\ process'[p].client = process[p].client /\ process'[p].mounted = process[p].mounted
      /\ \A q \in Process \ {p} : process'[q] = process[q]
  BY <1>1 DEF Typed, Frame, Label
<1>4. GoesOn(p)
  BY <1>1, <1>3 DEF GoesOn, Link, IsConfirming
<1>5. \A j \in Key : \/ credential'[j] = credential[j]
                     \/ credential[j].kind = "none" /\ ~credential'[j].used
  BY <1>1, <1>2, IssuedCalm
<1> QED
  BY <1>1, <1>3, <1>4, <1>5, CalmReads DEF Spending

LEMMA CreateLinkCodeCalm ==
    ASSUME IInv, WindowInv, CalmInv, NEW p \in Process, NEW k \in Key,
           CreateLinkCode(p, k) \/ CreateAttempt(p, k), Around
    PROVE  WindowInv' /\ CalmInv'
<1>1. /\ process[p].at \in {"create_link", "create_attempt"} /\ process[p].kind \in {"link", "start"}
      /\ IsNew(k) /\ Typed /\ granted' = granted
      /\ process' = [process EXCEPT ![p].at = "answer", ![p].ok = TRUE, ![p].key = k]
      /\ \/ credential' = [credential EXCEPT ![k] = Issued("link", process[p].user, NoKey)]
         \/ credential' = [credential EXCEPT ![k] = Issued("attempt", NoUser, NoKey)]
  BY ItIsTyped DEF CreateLinkCode, CreateAttempt, IInv, FrameInv, Fits, At
<1>2. process[p].user \in User \cup {NoUser}
  BY <1>1 DEF Typed, Frame
<1>3. GoesOn(p) /\ process'[p].at = "answer" /\ process'[p].ok
  BY <1>1, MadeGoesOn DEF Link
<1>4. \A j \in Key : \/ credential'[j] = credential[j]
                     \/ credential[j].kind = "none" /\ ~credential'[j].used
  BY <1>1, <1>2, IssuedCalm
<1> QED
  BY <1>1, <1>3, <1>4, CalmReads DEF Spending

\* The credential is marked, and the session comes next.
LEMMA SpendsCalm ==
    ASSUME IInv, WindowInv, CalmInv, NEW p \in Process, process[p].at \in Spending,
           credential' = Use(Its(p)), GoTo(p, "issue"), granted' = granted, Around
    PROVE  WindowInv' /\ CalmInv'
<1> DEFINE k == process[p].key
<1>1. /\ k \in Key /\ credential[k].kind # "none" /\ process[p].at \notin {"idle", "answer", "issue"}
      /\ credential \in [Key -> Credential] /\ credential' = [credential EXCEPT ![k].used = TRUE]
  BY DEF IInv, FrameInv, TypeOK, AuthTypeOK, Works, Spending, Use, Its
<1>2. GoesOn(p) /\ process'[p].at = "issue" /\ process'[p].key = k
  BY <1>1, GoToGoesOn DEF Label
<1> HIDE DEF k
<1>3. /\ \A j \in Key \ {k} : credential'[j] = credential[j]
      /\ credential'[k].kind = credential[k].kind /\ credential'[k].expired = credential[k].expired
  BY <1>1 DEF Credential
<1>4. KindsStay /\ SpentStays
  BY <1>3 DEF KindsStay, SpentStays
<1>5. ASSUME calm PROVE WorksAlone(p)
  <2>1. ~credential[k].used
    BY <1>1, <1>5 DEF CalmInv, Busy, Alone, Its, k
  <2>2. granted[k] = 0
    BY <1>1, <2>1 DEF IInv, GrantInv
  <2> QED
    BY <1>1, <1>2, <1>3, <2>2 DEF WorksAlone, Spending
<1> QED
  BY <1>2, <1>4, <1>5, CalmWorks

LEMMA SpendingCalm ==
    ASSUME IInv, WindowInv, CalmInv, NEW p \in Process,
           ConfirmUser(p) \/ LinkTelegram(p) \/ SpendExchangeCode(p), Around
    PROVE  WindowInv' /\ CalmInv'
<1>1. CASE process[p].at = "link_write" /\ process[p].kind = "verify" /\ Answer(p, FALSE)
           /\ UNCHANGED <<credential, granted>>
  BY <1>1, AnswerGoesOn, CalmReads DEF Link, Spending
<1>2. CASE process[p].at \in Spending /\ credential' = Use(Its(p)) /\ GoTo(p, "issue")
           /\ granted' = granted
  BY <1>2, SpendsCalm
<1>3. process[p].at = "link_write" => process[p].kind = "verify"
  BY DEF IInv, FrameInv, Fits
<1> QED
  BY <1>1, <1>2, <1>3 DEF ConfirmUser, LinkTelegram, SpendExchangeCode, At, Spending

LEMMA IssueCalm ==
    ASSUME IInv, WindowInv, CalmInv, NEW p \in Process, IssueAuthResponse(p), Around
    PROVE  WindowInv' /\ CalmInv'
<1> DEFINE k == process[p].key
<1>1. /\ process[p].at = "issue" /\ Answer(p, TRUE) /\ credential' = credential
      /\ granted' = IF k = NoKey THEN granted ELSE [granted EXCEPT ![k] = @ + 1]
      /\ granted \in [Key -> Nat] /\ k \in Key \cup {NoKey}
  BY ItIsTyped DEF IssueAuthResponse, At, Its, IInv, TypeOK, AuthTypeOK, Typed, Frame
<1>2. GoesOn(p) /\ process'[p].at = "answer" /\ process'[p].ok
  BY <1>1, AnswerGoesOn
<1>3. \A j \in Key : granted'[j] = IF j = k THEN granted[j] + 1 ELSE granted[j]
  BY <1>1, AuthAssumption
<1>4. calm /\ k \in Key => granted[k] = 0
  BY <1>1 DEF CalmInv, Busy, Alone, At, Its
<1> HIDE DEF k
<1>5. KindsStay /\ (calm => SpentStays)
  BY <1>1, <1>3, <1>4 DEF KindsStay, SpentStays
<1>6. calm => WorksAlone(p)
  BY <1>1, <1>2, <1>3, <1>4 DEF WorksAlone, Spending, k
<1> QED
  BY <1>2, <1>5, <1>6, CalmWorks

LEMMA CreateExchangeCodeCalm ==
    ASSUME IInv, WindowInv, CalmInv, NEW p \in Process, NEW k \in Key, CreateExchangeCode(p, k), Around
    PROVE  WindowInv' /\ CalmInv'
<1> DEFINE attempt == process[p].key
           issued == Issued("exchange", process[p].user, attempt)
<1>1. /\ process[p].at = "login_write" /\ process[p].kind = "login_confirm" /\ Typed
      /\ attempt \in Key /\ credential[attempt].kind = "attempt"
      /\ credential[k].kind = "none" /\ credential[k] = NoCredential
      /\ credential' = [[credential EXCEPT ![attempt].used = TRUE] EXCEPT ![k] = issued]
      /\ process' = [process EXCEPT ![p].at = "answer", ![p].ok = TRUE, ![p].key = k]
      /\ granted' = granted /\ credential \in [Key -> Credential]
  BY ItIsTyped DEF CreateExchangeCode, IInv, FrameInv, WindowInv, Fits, Works, IsConfirming, At, Its,
     IsNew, Use, TypeOK, AuthTypeOK
<1>2. process[p].user \in User \cup {NoUser}
  BY <1>1 DEF Typed, Frame
<1>3. ~issued.used
  BY <1>1, <1>2, IssuedFields
<1>4. GoesOn(p) /\ process'[p].at = "answer" /\ process'[p].ok
  BY <1>1, MadeGoesOn DEF Link
<1> HIDE DEF attempt, issued
<1>5. /\ credential'[k] = issued /\ k # attempt
      /\ credential'[attempt].kind = "attempt"
      /\ credential'[attempt].expired = credential[attempt].expired
      /\ \A j \in Key \ {k, attempt} : credential'[j] = credential[j]
      /\ ~credential[k].expired
  BY <1>1 DEF Credential, NoCredential
<1>6. KindsStay /\ SpentStays
  BY <1>1, <1>5 DEF KindsStay, SpentStays
<1>7. WorksAlone(p)
  BY <1>1, <1>3, <1>4, <1>5 DEF WorksAlone, Spending
<1> QED
  BY <1>4, <1>6, <1>7, CalmWorks

\* An answer goes to nobody, to the bot or to whoever asked for a link.
LEMMA ReturnCalm ==
    ASSUME IInv, WindowInv, CalmInv, NEW p \in Process, process[p].at = "answer", Return(p),
           UNCHANGED <<credential, granted, window>>, calm' = calm
    PROVE  WindowInv' /\ CalmInv'
<1>1. /\ process'[p] = Idle /\ \A q \in Process \ {p} : process'[q] = process[q]
  BY ItIsTyped, IdleFrame, BeginStep DEF Return, Typed
<1>2. Unwatched(p) /\ \A q \in Process \ {p} : Follows(q)
  BY <1>1, AuthAssumption DEF Unwatched, Follows, Idle, IsConfirming, Shows
<1>3. KindsStay /\ SpentStays
  BY DEF KindsStay, SpentStays
<1>4. WindowInv'
  BY <1>2, <1>3, WindowKept
<1>5. \A q \in Process : Kept(q) \/ (~Busy(q) /\ process'[q] = Idle)
  BY <1>1 DEF Kept, Busy
<1>6. CalmInv'
  BY <1>3, <1>5, CalmQuiet
<1> QED
  BY <1>4, <1>6

LEMMA BackendStepCalm ==
    ASSUME IInv, WindowInv, CalmInv, NEW p \in Process, BackendStep(p)
    PROVE  WindowInv' /\ CalmInv'
<1>1. Around
  BY DEF BackendStep, Around
<1>2. ASSUME AnswerDropped(p) \/ LinkAnswered(p) PROVE WindowInv' /\ CalmInv'
  BY <1>1, <1>2, ReturnCalm DEF AnswerDropped, LinkAnswered, dataVars, Around, pageVars, At
<1>3. ASSUME NEW k \in Key,
             \/ CreateEmailConfirmationToken(p, k) \/ CreateLinkCode(p, k)
             \/ CreateAttempt(p, k) \/ CreateExchangeCode(p, k)
      PROVE  WindowInv' /\ CalmInv'
  BY <1>1, <1>3, CreateTokenCalm, CreateLinkCodeCalm, CreateExchangeCodeCalm
<1> QED
  BY <1>1, <1>2, <1>3, CreateEmailUserCalm, SendMailCalm, SpendingCalm, CheckLinkedCalm, FindUserCalm,
     CreateTelegramUserCalm, IssueCalm DEF BackendStep, Continue

-----------------------------------------------------------------------------
(* The other steps: failures, the bot, and the windows.                    *)

LEMMA FailStepCalm ==
    ASSUME IInv, WindowInv, CalmInv, NEW p \in Process, FailStep(p)
    PROVE  WindowInv' /\ CalmInv'
<1>1. Answer(p, FALSE) /\ UNCHANGED <<credential, window>> /\ calm' = FALSE
  BY DEF FailStep, RequestFails, dataVars, pageVars
<1>2. /\ process'[p].at = "answer" /\ process'[p].kind = process[p].kind
      /\ process'[p].client = process[p].client /\ process'[p].key = process[p].key
      /\ process'[p].mounted = process[p].mounted
      /\ \A q \in Process \ {p} : process'[q] = process[q]
  BY <1>1, ItIsTyped, AnswerStep DEF Typed
<1>3. \A q \in Process : Follows(q)
  BY <1>2 DEF Follows, Shows, IsConfirming
<1>4. WindowInv'
  BY <1>1, <1>3, WindowKept DEF KindsStay
<1> QED
  BY <1>1, <1>4 DEF CalmInv

\* No request goes on.
LEMMA StillCalm ==
    ASSUME IInv, WindowInv, CalmInv, UNCHANGED <<process, granted, window, calm>>,
           \A k \in Key : /\ credential'[k].kind = credential[k].kind
                          /\ credential'[k].used = credential[k].used
                          /\ credential[k].expired => credential'[k].expired
    PROVE  WindowInv' /\ CalmInv'
<1>1. KindsStay /\ SpentStays
  BY DEF KindsStay, SpentStays
<1>2. \A q \in Process : Follows(q) /\ Kept(q)
  BY DEF Follows, Shows, Kept
<1>3. WindowInv'
  BY <1>1, <1>2, WindowKept
<1>4. CalmInv'
  BY <1>1, <1>2, CalmQuiet
<1> QED
  BY <1>3, <1>4

LEMMA ExpireStepCalm ==
    ASSUME IInv, WindowInv, CalmInv, NEW k \in Key, ExpireStep(k)
    PROVE  WindowInv' /\ CalmInv'
<1>1. /\ UNCHANGED <<process, granted, window, calm>> /\ credential \in [Key -> Credential]
      /\ credential' = [credential EXCEPT ![k].expired = TRUE]
  BY DEF ExpireStep, Expire, pageVars, IInv, TypeOK, AuthTypeOK
<1>2. \A j \in Key : /\ credential'[j].kind = credential[j].kind
                     /\ credential'[j].used = credential[j].used
                     /\ credential[j].expired => credential'[j].expired
  BY <1>1 DEF Credential
<1> QED
  BY <1>1, <1>2, StillCalm

\* A request that no window waits for, and that no link has sent.
LEMMA BeginsCalm ==
    ASSUME IInv, WindowInv, CalmInv, NEW p \in Process, CalmStart,
           UNCHANGED <<credential, granted, window>>,
           NEW frame \in Frame, Begin(p, frame), frame.client \notin Window, frame.kind \notin Link,
           frame.at \in Spending => ~credential[frame.key].used,
           frame.at = "issue" => frame.key = NoKey,
           IsConfirming(frame) => credential[frame.key].kind = "attempt"
    PROVE  WindowInv' /\ CalmInv'
<1>1. /\ process'[p] = frame /\ \A q \in Process \ {p} : process'[q] = process[q]
  BY ItIsTyped, BeginStep DEF Typed
<1>2. Unwatched(p) /\ \A q \in Process \ {p} : Follows(q)
  BY <1>1 DEF Unwatched, Follows, Shows
<1>3. WindowInv'
  BY <1>2, WindowKept DEF KindsStay
<1>4. CalmInv'
  BY CalmBegins
<1> QED
  BY <1>3, <1>4

LEMMA OtherStepCalm ==
    ASSUME IInv, WindowInv, CalmInv, NEW p \in Process, OtherStep(p)
    PROVE  WindowInv' /\ CalmInv'
<1>1. CalmStart /\ UNCHANGED <<credential, granted, window>> /\ signedIn \in User \cup {NoUser}
  BY DEF OtherStep, GenerateTelegramLink, TelegramAuth, VerifyTelegram, dataVars, pageVars,
     IInv, TypeOK, PagesTypeOK
<1>2. PICK kind \in {"link", "auth", "verify"}, k \in Key \cup {NoKey} : Begun(p, kind, Nobody, k)
  BY <1>1, GenerateLinkBegins, TelegramAuthBegins, VerifyTelegramBegins DEF OtherStep, IInv,
     TypeOK, AuthTypeOK
<1>3. PICK frame \in Frame : /\ Begin(p, frame) /\ Acceptable(frame)
                             /\ frame.kind = kind /\ frame.client = Nobody
  BY <1>2 DEF Begun
<1>4. frame.client \notin Window /\ frame.kind \notin Link
  BY <1>3, AuthAssumption DEF Link
<1> QED
  BY <1>1, <1>3, <1>4, BeginsCalm DEF Acceptable, Works

LEMMA ConfirmStepCalm ==
    ASSUME IInv, WindowInv, CalmInv, NEW p \in Process, NEW telegram \in Telegram,
           ConfirmStep(p, telegram)
    PROVE  WindowInv' /\ CalmInv'
<1>1. CalmStart /\ UNCHANGED <<credential, granted, window>> /\ Confirm(p, telegram)
  BY DEF ConfirmStep, Confirm, ConfirmTelegramLogin, dataVars, pageVars
<1>2. PICK frame \in Frame :
         /\ Begin(p, frame) /\ frame.at \notin Spending /\ frame.at # "issue"
         /\ frame.kind = "login_confirm" /\ frame.client = telegram
         /\ Works(frame) => credential[frame.key].kind = "attempt"
  BY <1>1, ConfirmBegins
<1>3. frame.client \notin Window /\ frame.kind \notin Link
  BY <1>2, AuthAssumption DEF Link
<1> QED
  BY <1>1, <1>2, <1>3, BeginsCalm DEF Works

LEMMA BotStepCalm ==
    ASSUME IInv, WindowInv, CalmInv, BotStep
    PROVE  WindowInv' /\ CalmInv'
<1>1. ASSUME NEW telegram \in Telegram, NEW k \in Key, Start(telegram, k) PROVE WindowInv' /\ CalmInv'
  BY <1>1, StillCalm DEF BotStep, Start, authVars, pageVars
<1>2. ASSUME NEW p \in Process, Reply(p) PROVE WindowInv' /\ CalmInv'
  BY <1>2, ReturnCalm DEF BotStep, Reply, At, pageVars
<1> QED
  BY <1>1, <1>2 DEF BotStep

LEMMA RestartStepCalm ==
    ASSUME IInv, WindowInv, CalmInv, RestartStep
    PROVE  WindowInv' /\ CalmInv'
<1>1. /\ UNCHANGED <<credential, granted, window, calm>> /\ Typed
      /\ process' = [p \in Process |-> IF process[p].client \in Telegram
                                       THEN [process[p] EXCEPT !.client = Nobody]
                                       ELSE process[p]]
  BY ItIsTyped DEF RestartStep, Restart, pageVars
<1>2. ASSUME NEW q \in Process
      PROVE  /\ Kept(q) /\ process'[q].mounted = process[q].mounted
             /\ process'[q].client \in Window => process'[q].client = process[q].client
  BY <1>1, AuthAssumption DEF Typed, Frame, Kept
<1>3. \A q \in Process : Follows(q) /\ Kept(q)
  BY <1>2 DEF Follows, Shows, Kept, IsConfirming
<1>4. KindsStay /\ SpentStays
  BY <1>1 DEF KindsStay, SpentStays
<1>5. WindowInv'
  BY <1>1, <1>3, <1>4, WindowKept
<1>6. CalmInv'
  BY <1>1, <1>3, <1>4, CalmQuiet
<1> QED
  BY <1>5, <1>6

\* A window shows something else, for which no answer is out.
LEMMA ShowCalm ==
    ASSUME IInv, WindowInv, CalmInv, UNCHANGED <<credential, granted, calm>>,
           NEW w \in Window, NEW shown, Show(w, shown), Fitting(shown),
           \A q \in Process : /\ Follows(q) \/ Unwatched(q)
                              /\ Kept(q) \/ (~Busy(q) /\ process'[q] = Idle)
                              /\ ~Shows(w, q)',
           calm /\ shown.status = "err" => Spent(shown.key)
    PROVE  WindowInv' /\ CalmInv'
<1>1. /\ window'[w] = shown /\ \A v \in Window \ {w} : window'[v] = window[v]
  BY DEF Show, IInv, TypeOK, PagesTypeOK
<1>2. KindsStay /\ SpentStays
  BY DEF KindsStay, SpentStays
<1>3. WindowInv'
  BY <1>1, <1>2, WindowKept
<1>4. ASSUME NEW v \in Window, calm, window'[v].status = "err"
      PROVE  \/ window[v].status = "err" /\ window'[v].key = window[v].key
             \/ Spent(window[v].key)'
  <2>1. CASE v = w
    BY <1>1, <1>4, <2>1 DEF Spent
  <2>2. CASE v # w
    BY <1>1, <1>4, <2>2
  <2> QED
    BY <2>1, <2>2
<1>5. CalmInv'
  BY <1>2, <1>4, CalmQuiet
<1> QED
  BY <1>3, <1>5

LEMMA UnmountLeaves ==
    ASSUME IInv, NEW w \in Window, process' = Unmount(w)
    PROVE  \A q \in Process : Follows(q) /\ Kept(q) /\ ~Shows(w, q)'
<1>1. process \in [Process -> Frame] /\ Nobody \notin Window
  BY AuthAssumption, ItIsTyped DEF Typed
<1>2. ASSUME NEW q \in Process
      PROVE  /\ Kept(q)
             /\ \/ process'[q] = process[q] /\ process[q].client # w
                \/ process[q].client = w /\ process'[q].mounted = FALSE
                   /\ (process'[q].kind = "confirm" => process'[q].client = Nobody)
  BY <1>1 DEF Unmount, Frame, Kept
<1> SUFFICES ASSUME NEW q \in Process PROVE Follows(q) /\ Kept(q) /\ ~Shows(w, q)'
  OBVIOUS
<1>3. CASE process'[q] = process[q] /\ process[q].client # w
  BY <1>2, <1>3 DEF Follows, Shows
<1>4. CASE /\ process[q].client = w /\ process'[q].mounted = FALSE
           /\ process'[q].kind = "confirm" => process'[q].client = Nobody
  <2>1. \A v : ~Shows(v, q)'
    BY <1>4 DEF Shows
  <2> QED
    BY <1>1, <1>2, <1>4, <2>1 DEF Follows, Kept, IsConfirming
<1> QED
  BY <1>2, <1>3, <1>4

LEMMA UnloadLeaves ==
    ASSUME IInv, NEW w \in Window, NEW q \in Process, process'[q] = Unload(w)[q]
    PROVE  Follows(q) /\ Kept(q) /\ ~Shows(w, q)'
<1>1. process \in [Process -> Frame] /\ Nobody \notin Window
  BY AuthAssumption, ItIsTyped DEF Typed
<1>2. /\ Kept(q)
      /\ \/ process'[q] = process[q] /\ process[q].client # w
         \/ process'[q].client = Nobody
  BY <1>1 DEF Unload, Frame, Kept
<1> QED
  BY <1>1, <1>2 DEF Follows, Shows, Kept, IsConfirming

\* The answer that a window waits for is the one it gets.
LEMMA ReturnLeaves ==
    ASSUME IInv, WindowInv, NEW p \in Process, process[p].at = "answer", Return(p),
           NEW w \in Window, Shows(w, p)
    PROVE  \A q \in Process : /\ Follows(q) \/ Unwatched(q)
                              /\ Kept(q) \/ (~Busy(q) /\ process'[q] = Idle)
                              /\ ~Shows(w, q)'
<1>1. /\ process'[p] = Idle /\ \A q \in Process \ {p} : process'[q] = process[q]
  BY ItIsTyped, IdleFrame, BeginStep DEF Return, Typed
<1>2. Unwatched(p) /\ ~Shows(w, p)' /\ ~Busy(p)
  BY <1>1, AuthAssumption DEF Unwatched, Idle, IsConfirming, Shows, Busy
<1>3. \A q \in Process \ {p} : Follows(q) /\ Kept(q)
  BY <1>1 DEF Follows, Kept, Shows
<1>4. \A q \in Process \ {p} : ~Shows(w, q)'
  BY <1>1 DEF WindowInv, Shows
<1> QED
  BY <1>1, <1>2, <1>3, <1>4

LEMMA HomeFits == \A view \in View : Fitting([Home EXCEPT !.view = view])
                                     /\ [Home EXCEPT !.view = view].status = "idle"
BY DEF Home, Fitting

LEMMA AnsweredCalm ==
    ASSUME IInv, WindowInv, CalmInv, NEW w \in Window, NEW p \in Process,
           ConfirmAnswered(w, p) \/ (ExchangeAnswered(w, p) /\ Shows(w, p)),
           UNCHANGED <<credential, granted, calm>>
    PROVE  WindowInv' /\ CalmInv'
<1> DEFINE shown == [window[w] EXCEPT !.status = IF process[p].ok THEN "ok" ELSE "err"]
<1>1. /\ process[p].at = "answer" /\ process[p].client = w /\ process[p].kind \in Link /\ Return(p)
      /\ Show(w, shown)
  BY DEF ConfirmAnswered, ExchangeAnswered, Answered, At, Link
<1>2. Shows(w, p)
  BY <1>1 DEF ConfirmAnswered, Answered, WindowInv, Shows
<1>3. /\ window[w].status = "loading" /\ window[w].key = process[p].key
      /\ window[w].view \in {"confirm", "callback"}
  BY <1>1, <1>2 DEF WindowInv, Its
<1>4. /\ shown.view = window[w].view /\ shown.key = window[w].key
      /\ shown.status = IF process[p].ok THEN "ok" ELSE "err"
  BY DEF IInv, TypeOK, PagesTypeOK, Shown
<1> HIDE DEF shown
<1>5. Fitting(shown)
  BY <1>3, <1>4 DEF Fitting
<1>6. calm /\ shown.status = "err" => Spent(shown.key)
  BY <1>1, <1>3, <1>4 DEF CalmInv, At, Its
<1> QED
  BY <1>1, <1>2, <1>5, <1>6, ReturnLeaves, ShowCalm

LEMMA WindowStepCalm ==
    ASSUME IInv, WindowInv, CalmInv, NEW w \in Window, WindowStep(w)
    PROVE  WindowInv' /\ CalmInv'
<1>0. calm' = calm
  BY DEF WindowStep
<1>1. ASSUME NEW view \in View, SwitchTab(w, view) PROVE WindowInv' /\ CalmInv'
  <2> DEFINE shown == [Home EXCEPT !.view = view]
  <2>1. Fitting(shown) /\ shown.status = "idle"
    BY HomeFits
  <2>2. /\ UNCHANGED <<credential, granted>> /\ Show(w, shown) /\ process' = Unmount(w)
    BY <1>1 DEF SwitchTab, unchangedData, dataVars
  <2> HIDE DEF shown
  <2> QED
    BY <1>0, <2>1, <2>2, UnmountLeaves, ShowCalm
<1>2. ASSUME NEW k \in Key, OpenLink(w, k) PROVE WindowInv' /\ CalmInv'
  <2> DEFINE shown == [view |-> IF credential[k].kind = "email" THEN "confirm" ELSE "callback",
                       status |-> "mounting", key |-> k]
  <2>1. /\ UNCHANGED <<credential, granted>> /\ Show(w, shown) /\ process' = Unload(w)
        /\ credential[k].kind \in {"email", "exchange"}
    BY <1>2 DEF OpenLink, unchangedData, dataVars
  <2>2. Fitting(shown) /\ shown.status = "mounting"
    BY <2>1 DEF Fitting, LinkOf
  <2> HIDE DEF shown
  <2> QED
    BY <1>0, <2>1, <2>2, UnloadLeaves, ShowCalm
<1>3. ASSUME NEW p \in Process, LoginAnswered(w, p) PROVE WindowInv' /\ CalmInv'
  <2>1. /\ UNCHANGED <<credential, granted>> /\ Show(w, Home) /\ process[p].at = "answer"
        /\ process' = [Unload(w) EXCEPT ![p] = Idle]
    BY <1>3 DEF LoginAnswered, unchangedData, dataVars, Answered, At
  <2>2. process'[p] = Idle /\ \A q \in Process \ {p} : process'[q] = Unload(w)[q]
    BY <2>1 DEF Unload
  <2>3. Unwatched(p) /\ ~Shows(w, p)' /\ ~Busy(p)
    BY <2>1, <2>2, AuthAssumption DEF Unwatched, Idle, IsConfirming, Shows, Busy
  <2>4. Fitting(Home) /\ Home.status = "idle"
    BY HomeShown DEF Fitting
  <2> QED
    BY <1>0, <2>1, <2>2, <2>3, <2>4, UnloadLeaves, ShowCalm
<1>4. ASSUME NEW p \in Process, RegisterAnswered(w, p) PROVE WindowInv' /\ CalmInv'
  <2>1. UNCHANGED <<credential, granted>> /\ Return(p) /\ process[p].at = "answer"
    BY <1>4 DEF RegisterAnswered, unchangedData, dataVars, Answered, At
  <2>2. CASE Shows(w, p)
    <3> DEFINE shown == [Home EXCEPT !.view = "sent"]
    <3>1. Fitting(shown) /\ shown.status = "idle"
      BY HomeFits DEF View
    <3>2. Show(w, shown)
      BY <1>4, <2>2 DEF RegisterAnswered
    <3> HIDE DEF shown
    <3> QED
      BY <1>0, <2>1, <2>2, <3>1, <3>2, ReturnLeaves, ShowCalm
  <2>3. CASE ~Shows(w, p)
    BY <1>0, <1>4, <2>1, <2>3, ReturnCalm DEF RegisterAnswered
  <2> QED
    BY <2>2, <2>3
<1>5. ASSUME NEW p \in Process,
             \/ ResendAnswered(w, p) \/ FormRefused(w, p) \/ TelegramStartAnswered(w, p)
             \/ ExchangeAnswered(w, p) /\ ~Shows(w, p)
      PROVE  WindowInv' /\ CalmInv'
  <2>1. UNCHANGED <<credential, granted, window>> /\ Return(p) /\ process[p].at = "answer"
    BY <1>5 DEF ResendAnswered, FormRefused, TelegramStartAnswered, ExchangeAnswered, unchangedData,
       dataVars, pageVars, Answered, At
  <2> QED
    BY <1>0, <2>1, ReturnCalm
<1>6. ASSUME NEW p \in Process, ConfirmAnswered(w, p) \/ (ExchangeAnswered(w, p) /\ Shows(w, p))
      PROVE  WindowInv' /\ CalmInv'
  <2>1. UNCHANGED <<credential, granted>>
    BY <1>6 DEF ConfirmAnswered, ExchangeAnswered, unchangedData, dataVars
  <2> QED
    BY <1>0, <1>6, <2>1, AnsweredCalm
<1> QED
  BY <1>1, <1>2, <1>3, <1>4, <1>5, <1>6 DEF WindowStep

LEMMA LeaveStepCalm ==
    ASSUME IInv, WindowInv, CalmInv, NEW w \in Window, LeaveStep(w)
    PROVE  WindowInv' /\ CalmInv'
<1>1. UNCHANGED <<credential, granted, calm>> /\ Show(w, Home) /\ process' = Unload(w)
  BY DEF LeaveStep, Reload, unchangedData, dataVars
<1>2. Fitting(Home) /\ Home.status = "idle"
  BY HomeShown DEF Fitting
<1> QED
  BY <1>1, <1>2, UnloadLeaves, ShowCalm

\* A form asks when no answer of its window is out; a link when it is opened.
LEMMA FormCalm ==
    ASSUME IInv, WindowInv, CalmInv, CalmStart, UNCHANGED <<credential, granted, window>>,
           NEW w \in Window, NEW p \in Process, ~Pending(w),
           window[w].view \in {"login", "register", "sent", "telegram"},
           NEW kind \in {"login", "register", "resend", "start"}, Begun(p, kind, w, NoKey)
    PROVE  WindowInv' /\ CalmInv'
<1>1. PICK frame \in Frame : Begin(p, frame) /\ Acceptable(frame) /\ frame.kind = kind
  BY DEF Begun
<1>2. kind \notin Link
  BY DEF Link
<1>3. CalmInv'
  BY <1>1, <1>2, CalmBegins DEF Acceptable, Works
<1>4. window[w].status = "idle" /\ \A q \in Process : ~Shows(w, q)
  BY DEF Pending, WindowInv
<1> QED
  BY <1>2, <1>3, <1>4, WindowBegins

LEMMA MountCalm ==
    ASSUME IInv, WindowInv, CalmInv, CalmStart, NEW w \in Window, NEW p \in Process, Mount(w, p)
    PROVE  WindowInv' /\ CalmInv'
<1> DEFINE k == window[w].key
           kind == IF window[w].view = "confirm" THEN "confirm" ELSE "exchange"
<1>1. /\ window[w].status = "mounting" /\ Show(w, [window[w] EXCEPT !.status = "loading"])
      /\ k \in Key /\ credential[k].kind = LinkOf(kind) /\ kind \in Link
      /\ UNCHANGED <<credential, granted>> /\ window \in [Window -> Shown]
  BY DEF Mount, IInv, FrameInv, TypeOK, PagesTypeOK, WindowInv, LinkOf, Link, ConfirmEmail,
     ExchangeTelegramLogin, dataVars
<1>2. Begun(p, kind, w, k)
  BY <1>1, ConfirmEmailBegins, ExchangeBegins DEF Mount
<1> HIDE DEF k, kind
<1>3. PICK frame \in Frame : /\ Begin(p, frame) /\ Acceptable(frame)
                             /\ frame.kind = kind /\ frame.key = k
                             /\ frame.at = "answer" => ~IsGood(k, LinkOf(kind))
  BY <1>1, <1>2 DEF Begun
<1>4. \A q \in Process : ~Shows(w, q)
  BY <1>1 DEF WindowInv
<1>5. WindowInv'
  BY <1>1, <1>2, <1>4, WindowBegins DEF k
<1>6. \A v \in Window : window'[v].status = "err" =>
          window[v].status = "err" /\ window'[v].key = window[v].key
  BY <1>1 DEF Show, Shown
<1>7. CalmInv'
  BY <1>1, <1>3, <1>6, CalmBegins DEF Acceptable, Works
<1> QED
  BY <1>5, <1>7

LEMMA RequestStepCalm ==
    ASSUME IInv, WindowInv, CalmInv, NEW w \in Window, NEW p \in Process, RequestStep(w, p)
    PROVE  WindowInv' /\ CalmInv'
<1>0. CalmStart
  BY DEF RequestStep
<1>1. ASSUME NEW email \in Email,
             SubmitLogin(w, p, email) \/ SubmitRegister(w, p, email) \/ OnResend(w, p, email)
      PROVE  WindowInv' /\ CalmInv'
  <2>1. UNCHANGED <<credential, granted, window>> /\ ~Pending(w)
    BY <1>1 DEF SubmitLogin, Login, SubmitRegister, Register, OnResend, ResendConfirmation, dataVars,
       pageVars
  <2>2. \/ window[w].view = "login" /\ Begun(p, "login", w, NoKey)
        \/ window[w].view = "register" /\ Begun(p, "register", w, NoKey)
        \/ window[w].view = "sent" /\ Begun(p, "resend", w, NoKey)
    BY <1>1, LoginBegins, RegisterBegins, ResendBegins DEF SubmitLogin, SubmitRegister, OnResend
  <2> QED
    BY <1>0, <2>1, <2>2, FormCalm
<1>2. ASSUME OnTelegramStart(w, p) PROVE WindowInv' /\ CalmInv'
  <2>1. /\ UNCHANGED <<credential, granted, window>> /\ ~Pending(w)
        /\ window[w].view = "telegram" /\ Begun(p, "start", w, NoKey)
    BY <1>2, StartLoginBegins DEF OnTelegramStart, StartTelegramLogin, dataVars, pageVars
  <2> QED
    BY <1>0, <2>1, FormCalm
<1> QED
  BY <1>0, <1>1, <1>2, MountCalm DEF RequestStep

LEMMA CalmInitially == Init => WindowInv /\ CalmInv
<1> SUFFICES ASSUME Init PROVE WindowInv /\ CalmInv
  OBVIOUS
<1>1. /\ credential = [k \in Key |-> NoCredential] /\ granted = [k \in Key |-> 0]
      /\ process = [p \in Process |-> Idle] /\ window = [w \in Window |-> Home]
  BY DEF Init, AuthInit, PagesInit
<1>2. ~NoCredential.used /\ Home.status = "idle" /\ Idle.client \notin Window /\ Idle.at = "idle"
  BY AuthAssumption DEF NoCredential, Home, Idle
<1>3. WindowInv
  BY <1>1, <1>2 DEF WindowInv, Shows, IsConfirming
<1>4. CalmInv
  BY <1>1, <1>2 DEF CalmInv, Busy, At
<1> QED
  BY <1>3, <1>4

LEMMA CalmInductive == Spec => [](IInv /\ WindowInv /\ CalmInv)
<1>1. IInv /\ WindowInv /\ CalmInv /\ Next => WindowInv' /\ CalmInv'
  BY BackendStepCalm, FailStepCalm, ExpireStepCalm, OtherStepCalm, ConfirmStepCalm, BotStepCalm,
     RestartStepCalm, WindowStepCalm, LeaveStepCalm, RequestStepCalm DEF Next
<1>2. IInv /\ WindowInv /\ CalmInv /\ UNCHANGED vars => WindowInv' /\ CalmInv'
  BY StillCalm DEF vars, authVars, pageVars
<1>3. IInv /\ WindowInv /\ CalmInv /\ [Next]_vars => (IInv /\ WindowInv /\ CalmInv)'
  BY <1>1, <1>2, NextKeeps, NothingHappens
<1> QED
  BY InitKeeps, CalmInitially, <1>3, PTL DEF Spec

\* When no requests overlapped and none failed, a credential gives one session at most,
\* and the page of a link fails only when the link has given its session or is too old.
THEOREM LinkWorksOnce == Spec => []CalmLinkWorksOnce
<1>1. CalmInv => CalmLinkWorksOnce
  BY DEF CalmInv, Spent, CalmLinkWorksOnce
<1> QED
  BY CalmInductive, <1>1, PTL
=============================================================================
