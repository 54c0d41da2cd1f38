--------------------------- MODULE RefreshSessions ---------------------------
(***************************************************************************)
(* JwtTokenService: the refresh tokens of one user.  A token is recorded   *)
(* twice, as a row of RefreshToken in Postgres and, under the session id   *)
(* it carries, as a session in Redis.  Which of the two decides depends on *)
(* whether Redis is ready at that moment; RedisService turns reads and     *)
(* writes into no-ops while it is not.                                     *)
(*                                                                         *)
(* A token stands for its hash and its session id, which belong to it      *)
(* alone.  Tokens live longer than the behaviours looked at here, so their *)
(* expiry is left out; an outage of Redis keeps its data.                  *)
(***************************************************************************)
EXTENDS Integers, FiniteSets

CONSTANTS
    Token,      \* bound: the refresh tokens that can be issued
    NoToken,
    Tab,        \* the pages of the web client, which share one storage
    Nobody,     \* the client of a request whose page has gone
    Process     \* the requests the backend can work on together

ASSUME SessionAssumption == /\ NoToken \notin Token
                            /\ Nobody \notin Tab

VARIABLES
    issued,     \* tokens that exist
    rows,       \* tokens with a RefreshToken row that is not revoked
    sessions,   \* tokens with a session in Redis
    isReady,    \* Redis is connected
    process     \* the requests

backendVars == <<issued, rows, sessions, isReady, process>>

Kind == {"login", "refresh", "logout"}

Label == {"idle", "check", "delete", "revoke", "create", "store", "answered", "refused",
          "logout_delete", "logout_revoke"}

Frame == [at : Label, kind : Kind, client : Tab \cup {Nobody},
          token : Token \cup {NoToken}, new : Token \cup {NoToken}]

Starting(label, kind, client, token) ==
    [at |-> label, kind |-> kind, client |-> client, token |-> token, new |-> NoToken]

Idle == Starting("idle", "login", Nobody, NoToken)

BackendTypeOK == /\ issued \subseteq Token
                 /\ rows \subseteq issued
                 /\ sessions \subseteq issued
                 /\ isReady \in BOOLEAN
                 /\ process \in [Process -> Frame]

At(p, label) == process[p].at = label
Its(p) == process[p].token

GoTo(p, label) == process' = [process EXCEPT ![p].at = label]
Return(p) == process' = [process EXCEPT ![p] = Idle]

\* What the backend takes for a valid refresh token now.
Accepted == IF isReady THEN sessions ELSE rows

-----------------------------------------------------------------------------
(* RedisService.                                                           *)

Deleted(token) == IF isReady THEN sessions \ {token} ELSE sessions
Stored(token) == IF isReady THEN sessions \cup {token} ELSE sessions

RedisChanges == /\ isReady' = ~isReady
                /\ UNCHANGED <<issued, rows, sessions, process>>

-----------------------------------------------------------------------------
(* refreshTokenPair.                                                       *)

\* The session in Redis decides when Redis is ready, the row otherwise.
Check(p) ==
    /\ At(p, "check")
    /\ Its(p) \in Accepted
    /\ GoTo(p, IF isReady THEN "delete" ELSE "revoke")
    /\ UNCHANGED <<issued, rows, sessions, isReady>>

CheckRefused(p) ==
    /\ At(p, "check")
    /\ Its(p) \notin Accepted
    /\ GoTo(p, "refused")
    /\ UNCHANGED <<issued, rows, sessions, isReady>>

DeleteSession(p) ==
    /\ At(p, "delete")
    /\ sessions' = Deleted(Its(p))
    /\ GoTo(p, "create")
    /\ UNCHANGED <<issued, rows, isReady>>

RevokeRow(p) ==
    /\ At(p, "revoke")
    /\ rows' = rows \ {Its(p)}
    /\ GoTo(p, "create")
    /\ UNCHANGED <<issued, sessions, isReady>>

-----------------------------------------------------------------------------
(* issueTokenPairWithSession.                                              *)

CreateRow(p) ==
    \E token \in Token \ issued :
        /\ At(p, "create")
        /\ issued' = issued \cup {token}
        /\ rows' = rows \cup {token}
        /\ process' = [process EXCEPT ![p].at = "store", ![p].new = token]
        /\ UNCHANGED <<sessions, isReady>>

\* Mutant: the session of the old token is kept up instead.
StoreOldSession(p) ==
    /\ At(p, "store")
    /\ sessions' = Stored(Its(p))
    /\ GoTo(p, "answered")
    /\ UNCHANGED <<issued, rows, isReady>>

StoreSession(p) ==
    /\ At(p, "store")
    /\ sessions' = Stored(process[p].new)
    /\ GoTo(p, "answered")
    /\ UNCHANGED <<issued, rows, isReady>>

-----------------------------------------------------------------------------
(* revokeRefreshToken.  Nobody waits for its answer.                       *)

LogoutSession(p) ==
    /\ At(p, "logout_delete")
    /\ sessions' = Deleted(Its(p))
    /\ GoTo(p, "logout_revoke")
    /\ UNCHANGED <<issued, rows, isReady>>

\* Mutant: a logout that has ended the session leaves the row alone.
LogoutRowKept(p) ==
    /\ At(p, "logout_revoke")
    /\ Return(p)
    /\ UNCHANGED <<issued, rows, sessions, isReady>>

LogoutRow(p) ==
    /\ At(p, "logout_revoke")
    /\ rows' = rows \ {Its(p)}
    /\ Return(p)
    /\ UNCHANGED <<issued, sessions, isReady>>

-----------------------------------------------------------------------------

\* A call to Postgres or Redis fails, the backend goes down, or the answer is
\* lost on its way.
RequestFails(p) ==
    /\ process[p].at \notin {"idle", "refused"}
    /\ IF process[p].kind = "logout" THEN Return(p) ELSE GoTo(p, "refused")
    /\ UNCHANGED <<issued, rows, sessions, isReady>>

Continue(p) ==
    \/ Check(p) \/ CheckRefused(p) \/ DeleteSession(p) \/ RevokeRow(p)
    \/ CreateRow(p) \/ StoreSession(p)
    \/ LogoutSession(p) \/ LogoutRow(p)
=============================================================================
