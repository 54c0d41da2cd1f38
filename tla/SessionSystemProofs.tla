------------------------- MODULE SessionSystemProofs -------------------------
(***************************************************************************)
(* What SessionSystem promises, for any number of pages, requests and      *)
(* tokens.                                                                 *)
(***************************************************************************)
EXTENDS SessionSystem, FiniteSetTheorems, TLAPS

USE DEF At, Its

-----------------------------------------------------------------------------
(* What a step does to the requests of the backend.                        *)

\* A request that goes on keeps all but its label.
LEMMA GoToStep ==
    ASSUME process \in [Process -> Frame], NEW p \in Process, NEW label \in Label, GoTo(p, label)
    PROVE  /\ process' \in [Process -> Frame]
           /\ process'[p].at = label
           /\ process'[p].kind = process[p].kind
           /\ process'[p].client = process[p].client
           /\ process'[p].token = process[p].token
           /\ process'[p].new = process[p].new
           /\ \A q \in Process \ {p} : process'[q] = process[q]
BY DEF GoTo, Frame

\* An idle one carries nothing.
LEMMA IdleParts ==
    /\ Idle \in Frame
    /\ Idle.at = "idle" /\ Idle.kind = "login" /\ Idle.client = Nobody
    /\ Idle.token = NoToken /\ Idle.new = NoToken
BY DEF Idle, Starting, Frame, Label, Kind

\* A request that is done becomes idle.
LEMMA ReturnStep ==
    ASSUME process \in [Process -> Frame], NEW p \in Process, Return(p)
    PROVE  /\ process' \in [Process -> Frame]
           /\ process'[p] = Idle
           /\ \A q \in Process \ {p} : process'[q] = process[q]
BY IdleParts DEF Return

\* A new request is put in the place of an idle one.
LEMMA PostStep ==
    ASSUME process \in [Process -> Frame], NEW label \in Label, NEW kind \in Kind,
           NEW tab \in Tab \cup {Nobody}, NEW token \in Token \cup {NoToken},
           Post(label, kind, tab, token)
    PROVE  \E p \in Process :
              /\ process[p].at = "idle"
              /\ process' \in [Process -> Frame]
              /\ process'[p].at = label /\ process'[p].kind = kind
              /\ process'[p].client = tab /\ process'[p].token = token
              /\ process'[p].new = NoToken
              /\ \A q \in Process \ {p} : process'[q] = process[q]
              /\ UNCHANGED <<issued, rows, sessions, isReady>>
<1> DEFINE f == Starting(label, kind, tab, token)
<1>1. /\ f \in Frame
      /\ f.at = label /\ f.kind = kind /\ f.client = tab /\ f.token = token /\ f.new = NoToken
  BY DEF Starting, Frame
<1>2. PICK p \in Process : /\ process[p].at = "idle"
                           /\ process' = [process EXCEPT ![p] = f]
                           /\ UNCHANGED <<issued, rows, sessions, isReady>>
  BY DEF Post
<1> HIDE DEF f
<1>3. /\ process' \in [Process -> Frame]
      /\ process'[p] = f
      /\ \A q \in Process \ {p} : process'[q] = process[q]
  BY <1>1, <1>2
<1> QED
  BY <1>1, <1>2, <1>3


-----------------------------------------------------------------------------
(* The steps of the backend.                                               *)

\* A step from one label to another, with the stores as they are.  It must not
\* make the request one whose tokens are on their way.
LEMMA LabelKeeps ==
    ASSUME IInv, NEW p \in Process, NEW label \in Label, GoTo(p, label),
           process[p].at \notin LogoutLabel, process[p].at # "idle",
           label \notin LogoutLabel \cup {"idle", "check", "store", "answered"},
           label \in {"delete", "revoke"} => At(p, "check"),
           UNCHANGED <<issued, rows, sessions, isReady, clientVars, history>>
    PROVE  IInv'
<1>1. /\ process' \in [Process -> Frame]
      /\ process'[p].at = label
      /\ process'[p].kind = process[p].kind
      /\ process'[p].client = process[p].client
      /\ process'[p].token = process[p].token
      /\ process'[p].new = process[p].new
      /\ \A q \in Process \ {p} : process'[q] = process[q]
  BY GoToStep DEF IInv, TypeOK, BackendTypeOK
<1>2. TypeOK'
  BY <1>1 DEF IInv, TypeOK, BackendTypeOK, ClientTypeOK, clientVars, history
<1>3. FrameInv'
  BY <1>1 DEF IInv, FrameInv, clientVars, history, LogoutLabel
<1>4. NewInv'
  BY <1>1 DEF IInv, NewInv, clientVars, history, IssuedLabel, Accepted
<1>5. LogoutInv'
  BY <1>1 DEF IInv, FrameInv, LogoutInv, clientVars, history
<1>6. LoggedOutIsOver'
  BY DEF IInv, LoggedOutIsOver, history
<1>7. HeldInv'
  BY <1>1 DEF IInv, HeldInv, BeingReplaced, Accepted, clientVars, history
<1> QED
  BY <1>2, <1>3, <1>4, <1>5, <1>6, <1>7 DEF IInv

\* The old token of a refresh is removed from one of the stores.
LEMMA RemoveKeeps ==
    ASSUME IInv, NEW p \in Process, DeleteSession(p) \/ RevokeRow(p),
           UNCHANGED <<clientVars, history>>
    PROVE  IInv'
<1>0. /\ GoTo(p, "create") /\ process[p].at \in {"delete", "revoke"}
      /\ rows' \subseteq rows /\ sessions' \subseteq sessions
      /\ rows \ {Its(p)} \subseteq rows' /\ sessions \ {Its(p)} \subseteq sessions'
      /\ UNCHANGED <<issued, isReady>>
  BY DEF DeleteSession, RevokeRow, Deleted
<1>1. /\ process' \in [Process -> Frame]
      /\ process'[p].at = "create"
      /\ process'[p].kind = process[p].kind
      /\ process'[p].client = process[p].client
      /\ process'[p].token = process[p].token
      /\ process'[p].new = process[p].new
      /\ \A q \in Process \ {p} : process'[q] = process[q]
  BY <1>0, GoToStep DEF IInv, TypeOK, BackendTypeOK, Label
<1>2. TypeOK'
  BY <1>0, <1>1 DEF IInv, TypeOK, BackendTypeOK, ClientTypeOK, clientVars, history
<1>3. FrameInv'
  BY <1>0, <1>1 DEF IInv, FrameInv, clientVars, history, LogoutLabel
<1>4. NewInv'
  BY <1>0, <1>1 DEF IInv, NewInv, clientVars, history, IssuedLabel, Accepted
<1>5. LogoutInv'
  BY <1>0, <1>1 DEF IInv, LogoutInv, clientVars, history
<1>6. LoggedOutIsOver'
  BY <1>0 DEF IInv, LoggedOutIsOver, history
<1>7. HeldInv'
  <2>1. process[p].kind = "refresh" /\ process[p].client \in Tab \cup {Nobody}
        /\ (process[p].client = Nobody => Its(p) \in orphaned)
    BY <1>0 DEF IInv, FrameInv, TypeOK, BackendTypeOK, Frame
  <2>2. CASE stored = Its(p)
    BY <1>0, <1>1, <2>1, <2>2 DEF HeldInv, BeingReplaced, clientVars, history
  <2>3. CASE stored # Its(p)
    <3>1. stored \in Accepted => stored \in Accepted'
      BY <1>0, <2>3 DEF Accepted
    <3>2. BeingReplaced(stored) => BeingReplaced(stored)'
      BY <1>0, <1>1, <2>3 DEF BeingReplaced, clientVars
    <3> QED
      BY <3>1, <3>2 DEF IInv, HeldInv, clientVars, history
  <2> QED
    BY <2>2, <2>3
<1> QED
  BY <1>2, <1>3, <1>4, <1>5, <1>6, <1>7 DEF IInv


\* A row is created under a token that did not exist.
LEMMA CreateKeeps ==
    ASSUME IInv, NEW p \in Process, CreateRow(p), UNCHANGED <<clientVars, history>>
    PROVE  IInv'
<1>0. PICK token \in Token \ issued :
         /\ At(p, "create")
         /\ issued' = issued \cup {token}
         /\ rows' = rows \cup {token}
         /\ process' = [process EXCEPT ![p].at = "store", ![p].new = token]
         /\ UNCHANGED <<sessions, isReady>>
  BY DEF CreateRow
<1>1. /\ process' \in [Process -> Frame]
      /\ process'[p].at = "store"
      /\ process'[p].kind = process[p].kind
      /\ process'[p].client = process[p].client
      /\ process'[p].token = process[p].token
      /\ process'[p].new = token
      /\ \A q \in Process \ {p} : process'[q] = process[q]
  BY <1>0 DEF IInv, TypeOK, BackendTypeOK, Frame, Label
<1>2. TypeOK'
  BY <1>0, <1>1 DEF IInv, TypeOK, BackendTypeOK, ClientTypeOK, clientVars, history
<1>3. FrameInv'
  BY <1>0, <1>1 DEF IInv, FrameInv, clientVars, history, LogoutLabel
<1>4. NewInv'
  <2>1. /\ token # stored /\ token \notin ended /\ token \notin rows
        /\ \A q \in Process : Its(q) # token
    BY <1>0, SessionAssumption DEF IInv, TypeOK, BackendTypeOK, FrameInv
  <2>2. \A q \in Process \ {p} : process[q].at \in IssuedLabel => process[q].new # token
    BY <2>1 DEF IInv, NewInv
  <2> QED
    BY <1>0, <1>1, <2>1, <2>2 DEF IInv, NewInv, clientVars, history, IssuedLabel, Accepted
<1>5. LogoutInv'
  BY <1>0, <1>1 DEF IInv, FrameInv, LogoutInv, LogoutLabel, clientVars, history
<1>6. LoggedOutIsOver'
  BY <1>0 DEF IInv, FrameInv, LoggedOutIsOver, history
<1>7. HeldInv'
  BY <1>0, <1>1 DEF IInv, HeldInv, BeingReplaced, Accepted, clientVars, history
<1> QED
  BY <1>2, <1>3, <1>4, <1>5, <1>6, <1>7 DEF IInv

\* A session is stored under a token that nobody can have removed.
LEMMA StoreKeeps ==
    ASSUME IInv, NEW p \in Process, StoreSession(p), UNCHANGED <<clientVars, history>>
    PROVE  IInv'
<1>0. /\ GoTo(p, "answered") /\ At(p, "store")
      /\ sessions' = IF isReady THEN sessions \cup {process[p].new} ELSE sessions
      /\ UNCHANGED <<issued, rows, isReady>>
  BY DEF StoreSession, Stored
<1>1. /\ process' \in [Process -> Frame]
      /\ process'[p].at = "answered"
      /\ process'[p].kind = process[p].kind
      /\ process'[p].client = process[p].client
      /\ process'[p].token = process[p].token
      /\ process'[p].new = process[p].new
      /\ \A q \in Process \ {p} : process'[q] = process[q]
  BY <1>0, GoToStep DEF IInv, TypeOK, BackendTypeOK, Label
<1>a. /\ process[p].new \in rows \ ended
      /\ process[p].new # stored
      /\ \A q \in Process : Its(q) # process[p].new
  BY <1>0 DEF IInv, NewInv, IssuedLabel
<1>2. TypeOK'
  BY <1>0, <1>1, <1>a DEF IInv, TypeOK, BackendTypeOK, ClientTypeOK, clientVars, history
<1>3. FrameInv'
  BY <1>0, <1>1 DEF IInv, FrameInv, clientVars, history, LogoutLabel
<1>4. NewInv'
  BY <1>0, <1>1, <1>a DEF IInv, NewInv, clientVars, history, IssuedLabel, Accepted
<1>5. LogoutInv'
  BY <1>0, <1>1, <1>a DEF IInv, FrameInv, LogoutInv, LogoutLabel, clientVars, history
<1>6. LoggedOutIsOver'
  BY <1>0, <1>a DEF IInv, LoggedOutIsOver, history
<1>7. HeldInv'
  BY <1>0, <1>1 DEF IInv, HeldInv, BeingReplaced, Accepted, clientVars, history
<1> QED
  BY <1>2, <1>3, <1>4, <1>5, <1>6, <1>7 DEF IInv

\* A logout deletes its session first, when Redis is ready.
LEMMA LogoutSessionKeeps ==
    ASSUME IInv, NEW p \in Process, LogoutSession(p), UNCHANGED <<clientVars, history>>
    PROVE  IInv'
<1>0. /\ GoTo(p, "logout_revoke") /\ At(p, "logout_delete")
      /\ sessions' = IF isReady THEN sessions \ {Its(p)} ELSE sessions
      /\ UNCHANGED <<issued, rows, isReady>>
  BY DEF LogoutSession, Deleted
<1>1. /\ process' \in [Process -> Frame]
      /\ process'[p].at = "logout_revoke"
      /\ process'[p].kind = process[p].kind
      /\ process'[p].client = process[p].client
      /\ process'[p].token = process[p].token
      /\ process'[p].new = process[p].new
      /\ \A q \in Process \ {p} : process'[q] = process[q]
  BY <1>0, GoToStep DEF IInv, TypeOK, BackendTypeOK, Label
<1>a. Its(p) # stored /\ process[p].kind = "logout"
  BY <1>0 DEF IInv, FrameInv, LogoutInv, LogoutLabel
<1>2. TypeOK'
  BY <1>0, <1>1 DEF IInv, TypeOK, BackendTypeOK, ClientTypeOK, clientVars, history
<1>3. FrameInv'
  BY <1>0, <1>1 DEF IInv, FrameInv, clientVars, history, LogoutLabel
<1>4. NewInv'
  BY <1>0, <1>1 DEF IInv, NewInv, clientVars, history, IssuedLabel, Accepted
<1>5. LogoutInv'
  BY <1>0, <1>1 DEF IInv, LogoutInv, clientVars, history
<1>6. LoggedOutIsOver'
  BY <1>0 DEF IInv, LoggedOutIsOver, history
<1>7. HeldInv'
  BY <1>0, <1>1, <1>a DEF IInv, HeldInv, BeingReplaced, Accepted, clientVars, history
<1> QED
  BY <1>2, <1>3, <1>4, <1>5, <1>6, <1>7 DEF IInv

\* Then it revokes the row, and is complete.
LEMMA LogoutRowKeeps ==
    ASSUME IInv, NEW p \in Process, LogoutRow(p), ended' = ended \cup Ends(p),
           UNCHANGED <<clientVars, redisChanges, loads, logins, orphaned>>
    PROVE  IInv'
<1>0. /\ Return(p) /\ At(p, "logout_revoke")
      /\ rows' = rows \ {Its(p)}
      /\ UNCHANGED <<issued, sessions, isReady>>
      /\ ended' = ended \/ (ended' = ended \cup {Its(p)} /\ isReady /\ redisChanges = 0)
  BY DEF LogoutRow, Ends
<1>1. /\ process' \in [Process -> Frame]
      /\ process'[p] = Idle
      /\ \A q \in Process \ {p} : process'[q] = process[q]
  BY <1>0, ReturnStep DEF IInv, TypeOK, BackendTypeOK
<1>a. /\ Its(p) # stored /\ Its(p) # NoToken /\ Its(p) \in issued
      /\ process[p].kind = "logout"
      /\ isReady /\ redisChanges = 0 => Its(p) \notin sessions
  BY <1>0 DEF IInv, FrameInv, LogoutInv, LogoutLabel
<1>2. TypeOK'
  BY <1>0, <1>1, <1>a DEF IInv, TypeOK, BackendTypeOK, ClientTypeOK, clientVars
<1>3. FrameInv'
  BY <1>0, <1>1, <1>a, IdleParts DEF IInv, FrameInv, clientVars, LogoutLabel
<1>4. NewInv'
  <2>1. \A q \in Process : process[q].at \in IssuedLabel =>
           process[q].new # NoToken /\ process[q].new # Its(p)
    BY SessionAssumption DEF IInv, NewInv, TypeOK, BackendTypeOK
  <2> QED
    BY <1>0, <1>1, <1>a, <2>1, IdleParts DEF IInv, NewInv, clientVars, IssuedLabel, Accepted
<1>5. LogoutInv'
  BY <1>0, <1>1, IdleParts DEF IInv, LogoutInv, clientVars
<1>6. LoggedOutIsOver'
  BY <1>0, <1>a DEF IInv, LoggedOutIsOver
<1>7. HeldInv'
  BY <1>0, <1>1, <1>a DEF IInv, HeldInv, BeingReplaced, Accepted, clientVars
<1> QED
  BY <1>2, <1>3, <1>4, <1>5, <1>6, <1>7 DEF IInv


\* A request that comes to nothing leaves the stores alone.
LEMMA FailKeeps ==
    ASSUME IInv, NEW p \in Process, RequestFails(p), UNCHANGED <<clientVars, history>>
    PROVE  IInv'
<1>0. /\ process[p].at \notin {"idle", "refused"}
      /\ IF process[p].kind = "logout" THEN Return(p) ELSE GoTo(p, "refused")
      /\ UNCHANGED <<issued, rows, sessions, isReady>>
  BY DEF RequestFails
<1>1. CASE process[p].kind = "logout"
  <2>1. /\ process' \in [Process -> Frame]
        /\ process'[p] = Idle
        /\ \A q \in Process \ {p} : process'[q] = process[q]
    BY <1>0, <1>1, ReturnStep DEF IInv, TypeOK, BackendTypeOK
  <2>2. TypeOK'
    BY <1>0, <2>1 DEF IInv, TypeOK, BackendTypeOK, ClientTypeOK, clientVars, history
  <2>3. FrameInv'
    BY <1>0, <2>1, IdleParts DEF IInv, FrameInv, clientVars, history, LogoutLabel
  <2>4. NewInv'
    <3>1. \A q \in Process : process[q].at \in IssuedLabel => process[q].new # NoToken
      BY SessionAssumption DEF IInv, NewInv, TypeOK, BackendTypeOK
    <3> QED
      BY <1>0, <2>1, <3>1, IdleParts DEF IInv, NewInv, clientVars, history, IssuedLabel, Accepted
  <2>5. LogoutInv'
    BY <1>0, <2>1, IdleParts DEF IInv, LogoutInv, clientVars, history
  <2>6. LoggedOutIsOver'
    BY <1>0 DEF IInv, LoggedOutIsOver, history
  <2>7. HeldInv'
    BY <1>0, <1>1, <2>1 DEF IInv, HeldInv, BeingReplaced, Accepted, clientVars, history
  <2> QED
    BY <2>2, <2>3, <2>4, <2>5, <2>6, <2>7 DEF IInv
<1>2. CASE process[p].kind # "logout"
  <2>1. process[p].at \notin LogoutLabel
    BY <1>2 DEF IInv, FrameInv
  <2> QED
    BY <1>0, <1>2, <2>1, LabelKeeps DEF Label, LogoutLabel
<1> QED
  BY <1>1, <1>2

\* Every step of the backend keeps the invariant.
LEMMA BackendKeeps == ASSUME IInv, NEW p \in Process, BackendStep(p) PROVE IInv'
<1>1. CASE RequestFails(p) /\ UNCHANGED ended
  BY <1>1, FailKeeps DEF BackendStep, history
<1>2. CASE LogoutRow(p) /\ ended' = ended \cup Ends(p)
  BY <1>2, LogoutRowKeeps DEF BackendStep
<1>3. ASSUME ended' = ended \cup Ends(p), ~At(p, "logout_revoke"), Continue(p)
      PROVE  IInv'
  <2>1. UNCHANGED <<clientVars, history>>
    BY <1>3 DEF Ends, BackendStep, history
  <2>2. CASE Check(p)
    <3> DEFINE label == IF isReady THEN "delete" ELSE "revoke"
    <3>1. /\ GoTo(p, label) /\ process[p].at = "check" /\ label \in Label
          /\ label \in {"delete", "revoke"}
          /\ UNCHANGED <<issued, rows, sessions, isReady>>
      BY <2>2 DEF Check, Label
    <3> HIDE DEF label
    <3> QED
      BY <2>1, <3>1, LabelKeeps DEF LogoutLabel
  <2>3. CASE CheckRefused(p)
    BY <2>1, <2>3, LabelKeeps DEF CheckRefused, Label, LogoutLabel
  <2>4. CASE DeleteSession(p) \/ RevokeRow(p)
    BY <2>1, <2>4, RemoveKeeps
  <2>5. CASE CreateRow(p)
    BY <2>1, <2>5, CreateKeeps
  <2>6. CASE StoreSession(p)
    BY <2>1, <2>6, StoreKeeps
  <2>7. CASE LogoutSession(p)
    BY <2>1, <2>7, LogoutSessionKeeps
  <2>8. ~LogoutRow(p)
    BY <1>3 DEF LogoutRow
  <2> QED
    BY <1>3, <2>2, <2>3, <2>4, <2>5, <2>6, <2>7, <2>8 DEF Continue
<1>4. At(p, "logout_revoke") /\ Continue(p) => LogoutRow(p)
  BY DEF Continue, Check, CheckRefused, DeleteSession, RevokeRow, CreateRow, StoreSession,
         LogoutSession
<1> QED
  BY <1>1, <1>2, <1>3, <1>4 DEF BackendStep

\* Once Redis has gone or come back, nothing is claimed of what is held.
LEMMA RedisKeeps == ASSUME IInv, RedisStep PROVE IInv'
<1>1. /\ redisChanges \in Nat /\ redisChanges' = redisChanges + 1
      /\ redisChanges' \in 0..MaxRedisChanges /\ redisChanges' # 0
  BY SystemAssumption DEF RedisStep, IInv, TypeOK
<1>2. UNCHANGED <<issued, rows, sessions, process, clientVars, loads, logins, orphaned, ended>>
      /\ isReady' \in BOOLEAN
  BY DEF RedisStep, RedisChanges, IInv, TypeOK, BackendTypeOK
<1>3. TypeOK'
  BY <1>1, <1>2 DEF IInv, TypeOK, BackendTypeOK, ClientTypeOK, clientVars
<1>4. FrameInv'
  BY <1>2 DEF IInv, FrameInv, clientVars
<1>5. NewInv'
  BY <1>1, <1>2 DEF IInv, NewInv, clientVars
<1>6. LogoutInv'
  BY <1>1, <1>2 DEF IInv, LogoutInv, clientVars
<1>7. LoggedOutIsOver' /\ HeldInv'
  BY <1>1, <1>2 DEF IInv, LoggedOutIsOver, HeldInv
<1> QED
  BY <1>3, <1>4, <1>5, <1>6, <1>7 DEF IInv

-----------------------------------------------------------------------------
(* The steps of the pages.                                                 *)

\* A step of a page that leaves the backend alone and may clear the session.
LEMMA PageKeeps ==
    ASSUME IInv, UNCHANGED backendVars, UNCHANGED history,
           ClientTypeOK', stored' \in {stored, NoToken}
    PROVE  IInv'
<1>1. TypeOK'
  BY DEF IInv, TypeOK, BackendTypeOK, backendVars, history
<1>2. FrameInv'
  BY DEF IInv, FrameInv, backendVars, history
<1>3. NewInv'
  <2>1. \A q \in Process : process[q].at \in IssuedLabel => process[q].new # NoToken
    BY SessionAssumption DEF IInv, NewInv, TypeOK, BackendTypeOK
  <2> QED
    BY <2>1 DEF IInv, NewInv, backendVars, history, Accepted
<1>4. LogoutInv'
  BY DEF IInv, LogoutInv, FrameInv, backendVars, history
<1>5. LoggedOutIsOver' /\ HeldInv'
  BY DEF IInv, LoggedOutIsOver, HeldInv, BeingReplaced, Accepted, backendVars, history
<1> QED
  BY <1>1, <1>2, <1>3, <1>4, <1>5 DEF IInv


\* A page that posts a request: a login, a refresh of the held token, or a
\* logout of the token that was held.
LEMMA PostKeeps ==
    ASSUME IInv, NEW label \in Label, NEW kind \in Kind, NEW tab \in Tab \cup {Nobody},
           NEW token \in issued \cup {NoToken}, Post(label, kind, tab, token),
           label \in {"check", "create", "logout_delete"},
           kind = "logout" <=> label = "logout_delete",
           label = "check" => kind = "refresh",
           kind \in {"refresh", "logout"} => token = stored /\ token # NoToken,
           kind = "refresh" => tab # Nobody,
           kind = "login" => token = NoToken,
           stored' = IF kind = "logout" THEN NoToken ELSE stored,
           TypeOK', UNCHANGED <<redisChanges, orphaned, ended>>
    PROVE  IInv'
<1>1. PICK p \in Process :
         /\ process[p].at = "idle"
         /\ process' \in [Process -> Frame]
         /\ process'[p].at = label /\ process'[p].kind = kind
         /\ process'[p].client = tab /\ process'[p].token = token
         /\ process'[p].new = NoToken
         /\ \A q \in Process \ {p} : process'[q] = process[q]
         /\ UNCHANGED <<issued, rows, sessions, isReady>>
  <2>1. process \in [Process -> Frame] /\ token \in Token \cup {NoToken}
    BY DEF IInv, TypeOK, BackendTypeOK
  <2> QED
    BY <2>1, PostStep
<1>2. TypeOK'
  OBVIOUS
<1>3. process[p].token = NoToken /\ process[p].kind = "login"
  BY <1>1, IdleParts DEF IInv, FrameInv
<1>4. FrameInv'
  BY <1>1 DEF IInv, FrameInv, LogoutLabel, Kind
<1>5. NewInv'
  <2>1. \A q \in Process : process[q].at \in IssuedLabel =>
           process[q].new # NoToken /\ process[q].new # token /\ process[q].new # stored
    <3>1. token = NoToken \/ token = stored
      BY DEF Kind
    <3> QED
      BY <3>1, SessionAssumption DEF IInv, NewInv, TypeOK, BackendTypeOK
  <2>2. label \notin IssuedLabel
    BY DEF IssuedLabel
  <2>3. stored' \in {stored, NoToken}
    OBVIOUS
  <2> QED
    BY <1>1, <2>1, <2>2, <2>3 DEF IInv, NewInv, Accepted
<1>6. LogoutInv'
  <2>1. ASSUME NEW q \in Process, q # p, process[q].kind = "logout"
        PROVE  process[q].token # stored'
    BY <2>1 DEF IInv, FrameInv, LogoutInv
  <2>2. kind = "logout" => token # stored' /\ label # "logout_revoke"
    OBVIOUS
  <2> QED
    BY <1>1, <2>1, <2>2 DEF IInv, LogoutInv
<1>7. LoggedOutIsOver'
  BY <1>1 DEF IInv, LoggedOutIsOver
<1>8. HeldInv'
  <2>1. BeingReplaced(stored) => BeingReplaced(stored)' \/ stored' = NoToken
    BY <1>1, <1>3 DEF BeingReplaced
  <2> QED
    BY <1>1, <2>1 DEF IInv, HeldInv, Accepted
<1> QED
  BY <1>2, <1>4, <1>5, <1>6, <1>7, <1>8 DEF IInv

\* An answer is taken up, or dropped: the session becomes the new one, or is
\* cleared, or stays if it is not the one that was being refreshed.
LEMMA AnswerKeeps ==
    ASSUME IInv, NEW p \in Process, Return(p), process[p].at \notin LogoutLabel,
           UNCHANGED <<issued, rows, sessions, isReady>>, UNCHANGED history,
           ClientTypeOK',
           \/ stored' = stored /\ ~(process[p].kind = "refresh" /\ process[p].client \in Tab)
           \/ stored' = NoToken
           \/ At(p, "answered") /\ stored' = process[p].new
    PROVE  IInv'
<1>1. /\ process' \in [Process -> Frame]
      /\ process'[p] = Idle
      /\ \A q \in Process \ {p} : process'[q] = process[q]
  BY ReturnStep DEF IInv, TypeOK, BackendTypeOK
<1>2. TypeOK'
  BY <1>1 DEF IInv, TypeOK, BackendTypeOK, history
<1>3. /\ \A q \in Process : process[q].at \in IssuedLabel => process[q].new # NoToken
      /\ \A q \in Process \ {p} : process[q].at \in IssuedLabel => process[q].new # stored'
      /\ \A q \in Process : process[q].kind = "logout" => process[q].token # stored'
      /\ stored' \in issued \cup {NoToken}
  BY SessionAssumption
     DEF IInv, NewInv, FrameInv, LogoutInv, TypeOK, BackendTypeOK, IssuedLabel
<1>4. FrameInv'
  BY <1>1, <1>3, IdleParts DEF IInv, FrameInv, history, LogoutLabel
<1>5. NewInv'
  BY <1>1, <1>3, IdleParts DEF IInv, NewInv, history, IssuedLabel, Accepted
<1>6. LogoutInv'
  BY <1>1, <1>3, IdleParts DEF IInv, LogoutInv, history
<1>7. LoggedOutIsOver'
  BY DEF IInv, LoggedOutIsOver, history
<1>8. HeldInv'
  <2>1. CASE stored' = stored /\ ~(process[p].kind = "refresh" /\ process[p].client \in Tab)
    BY <1>1, <2>1 DEF IInv, HeldInv, BeingReplaced, Accepted, history
  <2>2. CASE stored' = NoToken
    BY <2>2 DEF HeldInv
  <2>3. CASE At(p, "answered") /\ stored' = process[p].new
    BY <2>3 DEF IInv, NewInv, IssuedLabel, HeldInv, Accepted, history
  <2> QED
    BY <2>1, <2>2, <2>3
<1> QED
  BY <1>2, <1>4, <1>5, <1>6, <1>7, <1>8 DEF IInv


\* A page that is loaded leaves its refreshes to nobody.
LEMMA LoadKeeps == ASSUME IInv, NEW tab \in Tab, LoadStep(tab) PROVE IInv'
<1>0. /\ Load(tab) /\ loads' = loads + 1 /\ loads < MaxLoads
      /\ orphaned' = orphaned \cup Refreshing(tab)
      /\ UNCHANGED <<stored, issued, rows, sessions, isReady, redisChanges, logins, ended>>
  BY DEF LoadStep, Load
<1>1. process \in [Process -> Frame]
  BY DEF IInv, TypeOK, BackendTypeOK
<1>2. /\ process' \in [Process -> Frame]
      /\ \A p \in Process :
            /\ process'[p].at = process[p].at /\ process'[p].kind = process[p].kind
            /\ process'[p].token = process[p].token /\ process'[p].new = process[p].new
            /\ process[p].client # tab => process'[p] = process[p]
            /\ process[p].client = tab => process'[p].client = Nobody
  BY <1>0, <1>1 DEF Load, Frame
<1>3. \A p \in Process : process[p].kind = "refresh" /\ process[p].client = tab =>
                            process[p].token \in orphaned'
  BY <1>0 DEF Refreshing
<1>4. orphaned \subseteq orphaned' /\ orphaned' \subseteq Token
  <2>1. \A p \in Process : process[p].kind = "refresh" => process[p].token \in Token
    BY <1>1 DEF IInv, FrameInv, Frame
  <2> QED
    BY <1>0, <2>1 DEF Refreshing, IInv, TypeOK
<1>5. ClientTypeOK'
  BY <1>0 DEF Load, IInv, TypeOK, ClientTypeOK, RequestLabel
<1>6. TypeOK'
  BY <1>0, <1>2, <1>4, <1>5, SystemAssumption DEF IInv, TypeOK, BackendTypeOK
<1>7. FrameInv'
  <2>1. \A p \in Process : process[p].at = "idle" => process[p].client # tab
    BY IdleParts, SessionAssumption DEF IInv, FrameInv
  <2> QED
    BY <1>0, <1>2, <1>3, <1>4, <2>1 DEF IInv, FrameInv
<1>8. NewInv'
  BY <1>0, <1>2 DEF IInv, NewInv, Accepted
<1>9. LogoutInv'
  BY <1>0, <1>2 DEF IInv, LogoutInv
<1>10. LoggedOutIsOver'
  BY <1>0 DEF IInv, LoggedOutIsOver
<1>11. HeldInv'
  <2>1. BeingReplaced(stored) => BeingReplaced(stored)' \/ stored \in orphaned'
    BY <1>0, <1>2, <1>3 DEF BeingReplaced
  <2> QED
    BY <1>0, <1>4, <2>1 DEF IInv, HeldInv, Accepted
<1> QED
  BY <1>6, <1>7, <1>8, <1>9, <1>10, <1>11 DEF IInv

\* An answer given to a request of a page is one of the labels.
LEMMA AnswerTypes ==
    ASSUME ClientTypeOK, NEW tab \in Tab, NEW role \in Role, NEW label \in RequestLabel,
           Answer(tab, role, label)
    PROVE  request' \in [Tab \X Role -> RequestLabel]
BY DEF Answer, ClientTypeOK

\* A login is posted.
LEMMA LoginKeeps == ASSUME IInv, NEW tab \in Tab, LoginStep(tab) PROVE IInv'
<1>1. /\ Post("create", "login", tab, NoToken)
      /\ UNCHANGED clientVars /\ UNCHANGED <<redisChanges, loads, orphaned, ended>>
      /\ logins' = logins + 1 /\ logins < MaxLogins
  BY DEF LoginStep, Login
<1>2. process \in [Process -> Frame] /\ "create" \in Label /\ "login" \in Kind
  BY DEF IInv, TypeOK, BackendTypeOK, Label, Kind
<1>3. process' \in [Process -> Frame] /\ UNCHANGED <<issued, rows, sessions, isReady>>
  BY <1>1, <1>2, PostStep
<1>4. TypeOK'
  BY <1>1, <1>3, SystemAssumption DEF IInv, TypeOK, BackendTypeOK, ClientTypeOK, clientVars
<1> QED
  BY <1>1, <1>2, <1>4, PostKeeps DEF clientVars

\* A logout clears the session and posts the token.
LEMMA LogoutKeeps == ASSUME IInv, NEW tab \in Tab, Logout(tab), UNCHANGED history PROVE IInv'
<1>1. /\ stored' = NoToken /\ signedIn' = signedIn \ {tab}
      /\ UNCHANGED <<refreshInFlight, request>>
  BY DEF Logout, ClearSession
<1>2. ClientTypeOK'
  BY <1>1 DEF IInv, TypeOK, ClientTypeOK
<1>3. CASE stored = NoToken
  BY <1>1, <1>2, <1>3, PageKeeps DEF Logout
<1>4. CASE stored # NoToken
  <2>1. Post("logout_delete", "logout", Nobody, stored)
    BY <1>4 DEF Logout
  <2>2. /\ process \in [Process -> Frame] /\ "logout_delete" \in Label /\ "logout" \in Kind
        /\ stored \in issued \cup {NoToken} /\ stored \in Token \cup {NoToken}
    BY DEF IInv, TypeOK, BackendTypeOK, FrameInv, Label, Kind
  <2>3. process' \in [Process -> Frame] /\ UNCHANGED <<issued, rows, sessions, isReady>>
    BY <2>1, <2>2, PostStep
  <2>4. TypeOK'
    BY <1>2, <2>3 DEF IInv, TypeOK, BackendTypeOK, history
  <2> QED
    BY <1>1, <1>4, <2>1, <2>2, <2>4, PostKeeps DEF history
<1> QED
  BY <1>3, <1>4

\* A refresh of the held token is posted.
LEMMA BeginRefreshKeeps ==
    ASSUME IInv, NEW tab \in Tab, NEW role \in Role, BeginRefresh(tab, role), UNCHANGED history
    PROVE  IInv'
<1>1. /\ Post("check", "refresh", tab, stored) /\ stored # NoToken
      /\ refreshInFlight' = [refreshInFlight EXCEPT ![tab] = "running"]
      /\ Answer(tab, role, "waiting")
      /\ UNCHANGED <<stored, signedIn>>
  BY DEF BeginRefresh
<1>2. /\ process \in [Process -> Frame] /\ "check" \in Label /\ "refresh" \in Kind
      /\ stored \in issued \cup {NoToken} /\ stored \in Token \cup {NoToken}
  BY DEF IInv, TypeOK, BackendTypeOK, FrameInv, Label, Kind
<1>3. process' \in [Process -> Frame] /\ UNCHANGED <<issued, rows, sessions, isReady>>
  BY <1>1, <1>2, PostStep
<1>4. request' \in [Tab \X Role -> RequestLabel]
  BY <1>1, AnswerTypes DEF IInv, TypeOK, RequestLabel
<1>5. TypeOK'
  BY <1>1, <1>3, <1>4 DEF IInv, TypeOK, BackendTypeOK, ClientTypeOK, history
<1>6. tab # Nobody
  BY SessionAssumption
<1> QED
  BY <1>1, <1>2, <1>5, <1>6, PostKeeps DEF history


\* A page goes on without the backend.
LEMMA PageStepKeeps ==
    ASSUME IInv, NEW tab \in Tab, NEW role \in Role, UNCHANGED history,
           \/ Send(tab) \/ RequestOk(tab, role) \/ RequestThrows(tab, role)
           \/ NothingToRefresh(tab, role) \/ JoinRefresh(tab, role)
    PROVE  IInv'
<1>0. ClientTypeOK /\ "page" \in Role /\ {"idle", "sent", "waiting"} \subseteq RequestLabel
  BY DEF IInv, TypeOK, Role, RequestLabel
<1>1. /\ UNCHANGED backendVars
      /\ stored' \in {stored, NoToken}
      /\ signedIn' \subseteq signedIn \cup {tab}
      /\ \/ refreshInFlight' = refreshInFlight
         \/ refreshInFlight' = [refreshInFlight EXCEPT ![tab] = "null"]
      /\ \E r \in Role, label \in RequestLabel : Answer(tab, r, label)
  BY <1>0 DEF Send, RequestOk, RequestThrows, NothingToRefresh, JoinRefresh, Throw, ClearSession
<1>2. request' \in [Tab \X Role -> RequestLabel]
  BY <1>0, <1>1, AnswerTypes
<1>3. ClientTypeOK'
  BY <1>0, <1>1, <1>2 DEF ClientTypeOK
<1> QED
  BY <1>1, <1>3, PageKeeps

\* A page takes up an answer, or nobody does.
LEMMA TakeUpKeeps ==
    ASSUME IInv, NEW p \in Process, UNCHANGED history,
           \/ AnswerDropped(p)
           \/ \E tab \in Tab : \/ LoginAnswered(tab, p)
                               \/ RefreshAnswered(tab, p) \/ RefreshRefused(tab, p)
    PROVE  IInv'
<1>0. ClientTypeOK /\ process \in [Process -> Frame]
  BY DEF IInv, TypeOK, BackendTypeOK
<1>1. CASE AnswerDropped(p)
  <2>1. ClientTypeOK'
    BY <1>0, <1>1 DEF AnswerDropped, clientVars, ClientTypeOK
  <2> QED
    BY <1>1, <2>1, AnswerKeeps, SessionAssumption DEF AnswerDropped, clientVars, LogoutLabel
<1>2. ASSUME NEW tab \in Tab, LoginAnswered(tab, p) PROVE IInv'
  <2>1. /\ Return(p) /\ process[p].kind = "login" /\ process[p].at \in {"answered", "refused"}
        /\ stored' = stored \/ (At(p, "answered") /\ stored' = process[p].new)
        /\ signedIn' \subseteq signedIn \cup {tab}
        /\ UNCHANGED <<refreshInFlight, request, issued, rows, sessions, isReady>>
    BY <1>2 DEF LoginAnswered, SaveSession
  <2>2. ClientTypeOK'
    BY <1>0, <2>1 DEF ClientTypeOK, Frame
  <2> QED
    BY <2>1, <2>2, AnswerKeeps DEF LogoutLabel
<1>3. ASSUME NEW tab \in Tab, RefreshAnswered(tab, p) \/ RefreshRefused(tab, p) PROVE IInv'
  <2>1. /\ Return(p) /\ process[p].at \in {"answered", "refused"}
        /\ stored' = NoToken \/ (At(p, "answered") /\ stored' = process[p].new)
        /\ signedIn' \subseteq signedIn \cup {tab}
        /\ refreshInFlight' = [refreshInFlight EXCEPT ![tab] = "none"]
        /\ UNCHANGED <<issued, rows, sessions, isReady>>
    BY <1>3 DEF RefreshAnswered, RefreshRefused, SaveSession, ClearSession
  <2>2. request' \in [Tab \X Role -> RequestLabel]
    BY <1>0, <1>3 DEF RefreshAnswered, RefreshRefused, ClientTypeOK, RequestLabel
  <2>3. ClientTypeOK'
    BY <1>0, <2>1, <2>2 DEF ClientTypeOK, Frame
  <2> QED
    BY <2>1, <2>3, AnswerKeeps DEF LogoutLabel
<1> QED
  BY <1>1, <1>2, <1>3

-----------------------------------------------------------------------------
(* The theorems.                                                           *)

\* Every behaviour keeps the inductive invariant.
THEOREM SessionInvariance == Spec => []IInv
<1>1. Init => IInv
  <2> SUFFICES ASSUME Init PROVE IInv
    OBVIOUS
  <2>1. TypeOK
    BY IdleParts, SystemAssumption
       DEF Init, TypeOK, BackendTypeOK, ClientTypeOK, RequestLabel
  <2>2. FrameInv /\ NewInv /\ LogoutInv
    BY IdleParts DEF Init, FrameInv, NewInv, LogoutInv, LogoutLabel, IssuedLabel
  <2>3. LoggedOutIsOver /\ HeldInv
    BY DEF Init, LoggedOutIsOver, HeldInv, Accepted
  <2> QED
    BY <2>1, <2>2, <2>3 DEF IInv
<1>2. IInv /\ [Next]_vars => IInv'
  <2> SUFFICES ASSUME IInv, [Next]_vars PROVE IInv'
    OBVIOUS
  <2>1. CASE RedisStep
    BY <2>1, RedisKeeps
  <2>2. ASSUME NEW p \in Process, BackendStep(p) PROVE IInv'
    BY <2>2, BackendKeeps
  <2>3. ASSUME NEW p \in Process, DropStep(p) PROVE IInv'
    BY <2>3, TakeUpKeeps DEF DropStep
  <2>4. ASSUME NEW tab \in Tab, LoadStep(tab) PROVE IInv'
    BY <2>4, LoadKeeps
  <2>5. ASSUME NEW tab \in Tab, LoginStep(tab) PROVE IInv'
    BY <2>5, LoginKeeps
  <2>6. ASSUME NEW tab \in Tab, ClientStep(tab) PROVE IInv'
    <3>1. CASE Logout(tab)
      BY <2>6, <3>1, LogoutKeeps DEF ClientStep
    <3>2. CASE Send(tab)
      BY <2>6, <3>2, PageStepKeeps DEF ClientStep, Role
    <3>3. ASSUME NEW role \in Role,
                 \/ RequestOk(tab, role) \/ RequestThrows(tab, role)
                 \/ NothingToRefresh(tab, role) \/ JoinRefresh(tab, role)
          PROVE  IInv'
      BY <2>6, <3>3, PageStepKeeps DEF ClientStep
    <3>4. ASSUME NEW role \in Role, BeginRefresh(tab, role) PROVE IInv'
      BY <2>6, <3>4, BeginRefreshKeeps DEF ClientStep
    <3>5. ASSUME NEW p \in Process,
                 LoginAnswered(tab, p) \/ RefreshAnswered(tab, p) \/ RefreshRefused(tab, p)
          PROVE  IInv'
      BY <2>6, <3>5, TakeUpKeeps DEF ClientStep
    <3> QED
      BY <2>6, <3>1, <3>2, <3>3, <3>4, <3>5 DEF ClientStep
  <2>7. CASE UNCHANGED vars
    BY <2>7, PageKeeps DEF vars, IInv, TypeOK, ClientTypeOK, clientVars
  <2> QED
    BY <2>1, <2>2, <2>3, <2>4, <2>5, <2>6, <2>7 DEF Next
<1> QED
  BY <1>1, <1>2, PTL DEF Spec

\* Requests, stores and pages keep their types.
THEOREM SessionTypeCorrect == Spec => []TypeOK
<1>1. IInv => TypeOK
  BY DEF IInv
<1> QED
  BY <1>1, SessionInvariance, PTL

\* A token logged out with Redis ready all along stays out of both stores.
THEOREM LogoutIsFinal == Spec => []LoggedOutIsOver
<1>1. IInv => LoggedOutIsOver
  BY DEF IInv
<1> QED
  BY <1>1, SessionInvariance, PTL

\* The token that a browser is left with is one that the backend takes.
THEOREM HeldTokenIsAccepted == Spec => []HeldIsAccepted
<1>1. IInv => HeldIsAccepted
  <2> SUFFICES ASSUME IInv, redisChanges = 0, stored # NoToken, stored \notin orphaned,
                      Finished(stored)
               PROVE  stored \in Accepted
    BY DEF HeldIsAccepted
  <2>1. \A p \in Process : process[p].kind = "refresh" => process[p].at # "idle"
    BY IdleParts DEF IInv, FrameInv
  <2>2. ~BeingReplaced(stored)
    BY <2>1 DEF BeingReplaced, Finished
  <2> QED
    BY <2>2 DEF IInv, HeldInv
<1> QED
  BY <1>1, SessionInvariance, PTL

-----------------------------------------------------------------------------
(* The refresh that the requests of a page share.                          *)

\* A step that neither begins nor ends a refresh.
LEMMA SharedStays ==
    ASSUME SharedInv,
           \A tab \in Tab, p \in Process : RefreshOf(tab, p)' <=> RefreshOf(tab, p),
           \A tab \in Tab :
               /\ refreshInFlight'[tab] = "running" <=> refreshInFlight[tab] = "running"
               /\ \A role \in Role : request'[<<tab, role>>] = "waiting" =>
                     \/ request[<<tab, role>>] = "waiting"
                     \/ refreshInFlight[tab] = "running"
    PROVE  SharedInv'
BY DEF SharedInv

\* A page takes part in no other page's requests.
LEMMA AnswerTo ==
    ASSUME ClientTypeOK, NEW tab \in Tab, NEW role \in Role, NEW label, Answer(tab, role, label)
    PROVE  /\ request'[<<tab, role>>] = label
           /\ \A x \in Tab \X Role : x # <<tab, role>> => request'[x] = request[x]
BY DEF Answer, ClientTypeOK

\* The backend works on a request for the page that sent it.
LEMMA BackendShares == ASSUME IInv, SharedInv, NEW p \in Process, BackendStep(p) PROVE SharedInv'
<1>1. process \in [Process -> Frame] /\ UNCHANGED <<refreshInFlight, request>>
  BY DEF IInv, TypeOK, BackendTypeOK, BackendStep, clientVars
<1>2. CASE \E label \in Label : GoTo(p, label)
  <2>1. \A q \in Process : /\ process'[q].kind = process[q].kind
                           /\ process'[q].client = process[q].client
    BY <1>1, <1>2, GoToStep
  <2> QED
    BY <1>1, <2>1, SharedStays DEF RefreshOf
<1>3. CASE Return(p) /\ process[p].kind = "logout"
  <2>1. \A tab \in Tab, q \in Process : RefreshOf(tab, q)' <=> RefreshOf(tab, q)
    BY <1>1, <1>3, ReturnStep, IdleParts DEF RefreshOf
  <2> QED
    BY <1>1, <2>1, SharedStays
<1>4. CASE CreateRow(p)
  <2>1. \A q \in Process : /\ process'[q].kind = process[q].kind
                           /\ process'[q].client = process[q].client
    BY <1>1, <1>4 DEF CreateRow, Frame
  <2> QED
    BY <1>1, <2>1, SharedStays DEF RefreshOf
<1>5. LogoutRow(p) => process[p].kind = "logout" /\ Return(p)
  BY DEF LogoutRow, IInv, FrameInv, LogoutLabel
<1>6. RequestFails(p) => \/ process[p].kind = "logout" /\ Return(p)
                         \/ GoTo(p, "refused")
  BY DEF RequestFails
<1>7. Continue(p) => \/ CreateRow(p) \/ LogoutRow(p)
                     \/ \E label \in Label : GoTo(p, label)
  BY DEF Continue, Check, CheckRefused, DeleteSession, RevokeRow, StoreSession, LogoutSession,
         Label
<1>8. "refused" \in Label
  BY DEF Label
<1> QED
  BY <1>2, <1>3, <1>4, <1>5, <1>6, <1>7, <1>8 DEF BackendStep

\* A login or a logout refreshes nothing.
LEMMA PostShares ==
    ASSUME IInv, SharedInv, NEW label \in Label, NEW kind \in {"login", "logout"},
           NEW tab \in Tab \cup {Nobody}, NEW token \in Token \cup {NoToken},
           Post(label, kind, tab, token), UNCHANGED <<refreshInFlight, request>>
    PROVE  SharedInv'
<1>1. process \in [Process -> Frame] /\ kind \in Kind
  BY DEF IInv, TypeOK, BackendTypeOK, Kind
<1>2. PICK p \in Process : /\ process[p].at = "idle" /\ process'[p].kind = kind
                           /\ \A q \in Process \ {p} : process'[q] = process[q]
  BY <1>1, PostStep
<1>3. process[p].kind = "login"
  BY <1>2, IdleParts DEF IInv, FrameInv
<1>4. \A t \in Tab, q \in Process : RefreshOf(t, q)' <=> RefreshOf(t, q)
  BY <1>2, <1>3 DEF RefreshOf
<1> QED
  BY <1>4, SharedStays

\* A page begins a refresh only when none of its own runs.
LEMMA BeginShares ==
    ASSUME IInv, SharedInv, NEW tab \in Tab, NEW role \in Role, BeginRefresh(tab, role)
    PROVE  SharedInv'
<1>1. /\ process \in [Process -> Frame] /\ ClientTypeOK
      /\ "check" \in Label /\ "refresh" \in Kind /\ stored \in Token \cup {NoToken}
  BY DEF IInv, TypeOK, BackendTypeOK, ClientTypeOK, Label, Kind
<1>2. PICK p \in Process :
         /\ process[p].at = "idle"
         /\ process'[p].kind = "refresh" /\ process'[p].client = tab
         /\ \A q \in Process \ {p} : process'[q] = process[q]
  BY <1>1, PostStep DEF BeginRefresh
<1>3. process[p].kind = "login"
  BY <1>2, IdleParts DEF IInv, FrameInv
<1>4. /\ refreshInFlight[tab] = "none"
      /\ refreshInFlight'[tab] = "running"
      /\ \A t \in Tab \ {tab} : refreshInFlight'[t] = refreshInFlight[t]
      /\ \A t \in Tab \ {tab}, r \in Role : request'[<<t, r>>] = request[<<t, r>>]
  BY <1>1, AnswerTo DEF BeginRefresh, ClientTypeOK
<1>5. \A q \in Process : ~RefreshOf(tab, q)
  BY <1>4 DEF SharedInv
<1>6. RefreshOf(tab, p)' /\ \A q \in Process \ {p} : ~RefreshOf(tab, q)'
  BY <1>2, <1>5 DEF RefreshOf
<1>7. \A t \in Tab \ {tab}, q \in Process : RefreshOf(t, q)' <=> RefreshOf(t, q)
  BY <1>2, <1>3 DEF RefreshOf
<1> QED
  BY <1>4, <1>6, <1>7 DEF SharedInv

\* The answer to the refresh is for all who wait.
LEMMA AnswerShares ==
    ASSUME IInv, SharedInv, NEW tab \in Tab, NEW p \in Process,
           RefreshAnswered(tab, p) \/ RefreshRefused(tab, p)
    PROVE  SharedInv'
<1>1. process \in [Process -> Frame] /\ ClientTypeOK
  BY DEF IInv, TypeOK, BackendTypeOK
<1>2. /\ RefreshOf(tab, p) /\ Return(p)
      /\ refreshInFlight' = [refreshInFlight EXCEPT ![tab] = "none"]
      /\ \E label \in {"retried", "idle"} :
            request' = [x \in Tab \X Role |->
                IF x[1] = tab /\ x[2] \in Waiting(tab) THEN label ELSE request[x]]
  BY DEF RefreshAnswered, RefreshRefused, RefreshOf
<1>3. /\ process'[p] = Idle
      /\ \A q \in Process \ {p} : process'[q] = process[q]
  BY <1>1, <1>2, ReturnStep
<1>4. /\ refreshInFlight'[tab] = "none"
      /\ \A t \in Tab \ {tab} : refreshInFlight'[t] = refreshInFlight[t]
      /\ \A r \in Role : request'[<<tab, r>>] # "waiting"
      /\ \A t \in Tab \ {tab}, r \in Role : request'[<<t, r>>] = request[<<t, r>>]
  BY <1>1, <1>2 DEF ClientTypeOK, Waiting
<1>5. \A q \in Process \ {p} : ~RefreshOf(tab, q)
  BY <1>2 DEF SharedInv
<1>6. \A q \in Process : ~RefreshOf(tab, q)'
  BY <1>3, <1>5, IdleParts DEF RefreshOf
<1>7. \A t \in Tab \ {tab}, q \in Process : RefreshOf(t, q)' <=> RefreshOf(t, q)
  BY <1>2, <1>3, IdleParts DEF RefreshOf
<1> QED
  BY <1>4, <1>6, <1>7 DEF SharedInv

\* An answer that is no refresh's, or nobody's.
LEMMA OtherAnswerShares ==
    ASSUME IInv, SharedInv, NEW p \in Process,
           AnswerDropped(p) \/ \E tab \in Tab : LoginAnswered(tab, p)
    PROVE  SharedInv'
<1>1. process \in [Process -> Frame]
  BY DEF IInv, TypeOK, BackendTypeOK
<1>2. /\ Return(p) /\ UNCHANGED <<refreshInFlight, request>>
      /\ process[p].kind = "login" \/ process[p].client = Nobody
  BY DEF AnswerDropped, LoginAnswered, clientVars
<1>3. \A tab \in Tab, q \in Process : RefreshOf(tab, q)' <=> RefreshOf(tab, q)
  BY <1>1, <1>2, ReturnStep, IdleParts, SessionAssumption DEF RefreshOf
<1> QED
  BY <1>2, <1>3, SharedStays

\* A page that is loaded again begins without a refresh; the one that it had is
\* nobody's.
LEMMA LoadShares == ASSUME IInv, SharedInv, NEW tab \in Tab, Load(tab) PROVE SharedInv'
<1>1. process \in [Process -> Frame] /\ ClientTypeOK
  BY DEF IInv, TypeOK, BackendTypeOK
<1>2. /\ refreshInFlight'[tab] = "none"
      /\ \A t \in Tab \ {tab} : refreshInFlight'[t] = refreshInFlight[t]
      /\ \A r \in Role : request'[<<tab, r>>] # "waiting"
      /\ \A t \in Tab \ {tab}, r \in Role : request'[<<t, r>>] = request[<<t, r>>]
  BY <1>1 DEF Load, ClientTypeOK
<1>3. \A p \in Process : /\ process'[p].kind = process[p].kind
                         /\ process[p].client # tab => process'[p].client = process[p].client
                         /\ process[p].client = tab => process'[p].client = Nobody
  BY <1>1 DEF Load, Frame
<1>4. /\ \A q \in Process : ~RefreshOf(tab, q)'
      /\ \A t \in Tab \ {tab}, q \in Process : RefreshOf(t, q)' <=> RefreshOf(t, q)
  BY <1>3, SessionAssumption DEF RefreshOf
<1> QED
  BY <1>2, <1>4 DEF SharedInv

\* A page's own steps begin no refresh, and wait only for one that runs.
LEMMA PageShares ==
    ASSUME IInv, SharedInv, NEW tab \in Tab, NEW role \in Role,
           \/ Send(tab) \/ RequestOk(tab, role) \/ RequestThrows(tab, role)
           \/ NothingToRefresh(tab, role) \/ JoinRefresh(tab, role)
    PROVE  SharedInv'
<1>1. ClientTypeOK /\ "page" \in Role
  BY DEF IInv, TypeOK, Role
<1>2. UNCHANGED process
  BY DEF Send, RequestOk, RequestThrows, NothingToRefresh, JoinRefresh, backendVars
<1>3. \A t \in Tab : refreshInFlight'[t] = "running" <=> refreshInFlight[t] = "running"
  BY <1>1 DEF Send, RequestOk, RequestThrows, NothingToRefresh, JoinRefresh, ClientTypeOK
<1>4. \E r \in Role, label \in {"idle", "sent", "waiting"} :
         /\ Answer(tab, r, label)
         /\ label = "waiting" => refreshInFlight[tab] = "running"
  BY <1>1 DEF Send, RequestOk, RequestThrows, NothingToRefresh, JoinRefresh, Throw
<1>5. \A t \in Tab, r \in Role : request'[<<t, r>>] = "waiting" =>
         request[<<t, r>>] = "waiting" \/ refreshInFlight[t] = "running"
  BY <1>1, <1>4, AnswerTo
<1> QED
  BY <1>2, <1>3, <1>5, SharedStays DEF RefreshOf

\* The requests of a page share one refresh: as long as it runs it is one request
\* of the backend, and none of them waits for a refresh that does not run.
THEOREM RefreshIsShared == Spec => []OneRefresh
<1>1. Init => SharedInv
  BY IdleParts DEF Init, SharedInv, RefreshOf
<1>2. IInv /\ SharedInv /\ [Next]_vars => SharedInv'
  <2> SUFFICES ASSUME IInv, SharedInv, [Next]_vars PROVE SharedInv'
    OBVIOUS
  <2>1. CASE RedisStep \/ UNCHANGED vars
    <3>1. UNCHANGED <<process, refreshInFlight, request>>
      BY <2>1 DEF RedisStep, RedisChanges, vars, backendVars, clientVars
    <3> QED
      BY <3>1 DEF SharedInv, RefreshOf
  <2>2. ASSUME NEW p \in Process, BackendStep(p) PROVE SharedInv'
    BY <2>2, BackendShares
  <2>3. ASSUME NEW p \in Process, DropStep(p) PROVE SharedInv'
    BY <2>3, OtherAnswerShares DEF DropStep
  <2>4. ASSUME NEW tab \in Tab, LoadStep(tab) PROVE SharedInv'
    BY <2>4, LoadShares DEF LoadStep
  <2>5. ASSUME NEW tab \in Tab, LoginStep(tab) PROVE SharedInv'
    BY <2>5, PostShares DEF LoginStep, Login, clientVars, Label
  <2>6. ASSUME NEW tab \in Tab, ClientStep(tab) PROVE SharedInv'
    <3>1. CASE Logout(tab)
      <4>1. CASE UNCHANGED backendVars
        BY <3>1, <4>1 DEF Logout, backendVars, SharedInv, RefreshOf
      <4>2. CASE Post("logout_delete", "logout", Nobody, stored)
        <5>1. "logout_delete" \in Label /\ stored \in Token \cup {NoToken}
          BY DEF Label, IInv, TypeOK, ClientTypeOK
        <5> QED
          BY <3>1, <4>2, <5>1, PostShares DEF Logout
      <4> QED
        BY <3>1, <4>1, <4>2 DEF Logout
    <3>2. CASE Send(tab)
      BY <3>2, PageShares DEF Role
    <3>3. ASSUME NEW role \in Role,
                 \/ RequestOk(tab, role) \/ RequestThrows(tab, role)
                 \/ NothingToRefresh(tab, role) \/ JoinRefresh(tab, role)
          PROVE  SharedInv'
      BY <3>3, PageShares
    <3>4. ASSUME NEW role \in Role, BeginRefresh(tab, role) PROVE SharedInv'
      BY <3>4, BeginShares
    <3>5. ASSUME NEW p \in Process, RefreshAnswered(tab, p) \/ RefreshRefused(tab, p)
          PROVE  SharedInv'
      BY <3>5, AnswerShares
    <3>6. ASSUME NEW p \in Process, LoginAnswered(tab, p) PROVE SharedInv'
      BY <3>6, OtherAnswerShares
    <3> QED
      BY <2>6, <3>1, <3>2, <3>3, <3>4, <3>5, <3>6 DEF ClientStep
  <2> QED
    BY <2>1, <2>2, <2>3, <2>4, <2>5, <2>6 DEF Next
<1>3. SharedInv => OneRefresh
  <2> SUFFICES ASSUME SharedInv, NEW tab \in Tab
               PROVE  LET calls == {p \in Process : process[p].kind = "refresh" /\ process[p].client = tab}
                      IN  IF refreshInFlight[tab] = "running" THEN Cardinality(calls) = 1
                                                              ELSE calls = {} /\ Waiting(tab) = {}
    BY DEF OneRefresh
  <2> DEFINE calls == {p \in Process : process[p].kind = "refresh" /\ process[p].client = tab}
  <2>1. CASE refreshInFlight[tab] = "running"
    <3>1. PICK p \in Process : RefreshOf(tab, p) /\ \A q \in Process \ {p} : ~RefreshOf(tab, q)
      BY <2>1 DEF SharedInv
    <3>2. calls = {p}
      BY <3>1 DEF RefreshOf
    <3> QED
      BY <2>1, <3>2, FS_Singleton
  <2>2. CASE refreshInFlight[tab] # "running"
    BY <2>2 DEF SharedInv, RefreshOf, Waiting
  <2> QED
    BY <2>1, <2>2
<1> QED
  BY <1>1, <1>2, <1>3, SessionInvariance, PTL DEF Spec

=============================================================================
