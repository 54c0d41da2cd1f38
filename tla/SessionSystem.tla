---------------------------- MODULE SessionSystem ----------------------------
(***************************************************************************)
(* One user's sessions, from the pages of a browser to the two stores of   *)
(* the backend.                                                            *)
(***************************************************************************)
EXTENDS WebClientSession
LOCAL INSTANCE TLC

CONSTANTS
    MaxRedisChanges,    \* bound: how often Redis goes or comes back
    MaxLoads,           \* bound: how often a page is loaded
    MaxLogins,          \* bound: how often the user logs in
    Sender,             \* bound: the pages that send requests of their own
    First               \* the token of a session from before, or NoToken

ASSUME SystemAssumption == /\ MaxRedisChanges \in Nat /\ MaxLoads \in Nat
                           /\ MaxLogins \in Nat
                           /\ Sender \subseteq Tab
                           /\ First \in Token \cup {NoToken}

VARIABLES
    redisChanges,   \* history: how often it did
    loads, logins,  \* history: how often a page was loaded, and the user logged in
    orphaned,       \* history: tokens that a page was refreshing when it went
    ended           \* history: tokens logged out, with Redis ready all along

history == <<redisChanges, loads, logins, orphaned, ended>>

vars == <<backendVars, clientVars, history>>

TypeOK == /\ BackendTypeOK
          /\ ClientTypeOK
          /\ redisChanges \in 0..MaxRedisChanges
          /\ loads \in 0..MaxLoads /\ logins \in 0..MaxLogins
          /\ orphaned \subseteq Token
          /\ ended \subseteq Token

\* The backend has been running with or without Redis, and the browser may have
\* a session from then, which its pages are using.
Init == /\ isReady \in BOOLEAN
        /\ issued = {First} \ {NoToken}
        /\ rows = issued
        /\ sessions = IF isReady THEN issued ELSE {}
        /\ process = [p \in Process |-> Idle]
        /\ stored = First
        /\ signedIn = IF First = NoToken THEN {} ELSE Tab
        /\ refreshInFlight = [tab \in Tab |-> "none"]
        /\ request = [x \in Tab \X Role |-> "idle"]
        /\ redisChanges = 0
        /\ loads = 0 /\ logins = 0
        /\ orphaned = {}
        /\ ended = {}

Refreshing(tab) == {Its(p) : p \in {q \in Process : /\ process[q].client = tab
                                                    /\ process[q].kind = "refresh"}}

\* A logout is complete with its last step.
Ends(p) == IF At(p, "logout_revoke") /\ isReady /\ redisChanges = 0 THEN {Its(p)} ELSE {}

RedisStep == /\ redisChanges < MaxRedisChanges
             /\ RedisChanges
             /\ redisChanges' = redisChanges + 1
             /\ UNCHANGED <<clientVars, loads, logins, orphaned, ended>>

BackendStep(p) == /\ \/ Continue(p) /\ ended' = ended \cup Ends(p)
                     \/ RequestFails(p) /\ UNCHANGED ended
                  /\ UNCHANGED clientVars
                  /\ UNCHANGED <<redisChanges, loads, logins, orphaned>>

LoadStep(tab) == /\ loads < MaxLoads
                 /\ Load(tab)
                 /\ loads' = loads + 1
                 /\ orphaned' = orphaned \cup Refreshing(tab)
                 /\ UNCHANGED <<redisChanges, logins, ended>>

LoginStep(tab) == /\ logins < MaxLogins
                  /\ Login(tab)
                  /\ logins' = logins + 1
                  /\ UNCHANGED <<redisChanges, loads, orphaned, ended>>

ClientStep(tab) ==
    /\ \/ Logout(tab)
       \/ tab \in Sender /\ Send(tab)
       \/ \E role \in Role : \/ RequestOk(tab, role) \/ RequestThrows(tab, role)
                             \/ BeginRefresh(tab, role) \/ NothingToRefresh(tab, role)
                             \/ JoinRefresh(tab, role)
       \/ \E p \in Process : \/ LoginAnswered(tab, p)
                             \/ RefreshAnswered(tab, p) \/ RefreshRefused(tab, p)
    /\ UNCHANGED history

DropStep(p) == AnswerDropped(p) /\ UNCHANGED history

Next == \/ RedisStep
        \/ \E p \in Process : BackendStep(p) \/ DropStep(p)
        \/ \E tab \in Tab : LoadStep(tab) \/ LoginStep(tab) \/ ClientStep(tab)

Spec == Init /\ [][Next]_vars

-----------------------------------------------------------------------------
(* Safety.                                                                 *)

Finished(token) == \A p \in Process : ~At(p, "idle") => Its(p) # token

\* docs/redis-plan.md: after a logout the token is not accepted.  So it is when
\* Redis has been ready up to the logout, whatever becomes of Redis after that,
\* and whatever refresh of the token is still under way: neither store keeps it
\* or gets it back.
LoggedOutIsOver == ended \cap (rows \cup sessions) = {}

\* The browser is never left with a token the backend does not take, whatever
\* its pages do at once, unless a page was left in the middle of a refresh.
\* This is so as long as Redis neither goes nor comes back.
HeldIsAccepted ==
    /\ redisChanges = 0
    /\ stored # NoToken
    /\ stored \notin orphaned
    /\ Finished(stored)
    => stored \in Accepted

\* The requests of a page share one refresh: while it runs, one request of that
\* page is with the backend, and no request waits for a refresh that is not
\* running.
OneRefresh ==
    \A tab \in Tab :
        LET calls == {p \in Process : process[p].kind = "refresh" /\ process[p].client = tab}
        IN  IF refreshInFlight[tab] = "running" THEN Cardinality(calls) = 1
                                                ELSE calls = {} /\ Waiting(tab) = {}

-----------------------------------------------------------------------------
(* Why it holds: an inductive invariant.                                   *)

LogoutLabel == {"logout_delete", "logout_revoke"}
IssuedLabel == {"store", "answered"}

\* A request works for what it came for, on a token that exists.  A refresh that
\* no page waits for was orphaned.
FrameInv ==
    /\ stored \in issued \cup {NoToken}
    /\ ended \subseteq issued
    /\ \A p \in Process :
          /\ At(p, "idle") => process[p] = Idle
          /\ Its(p) \in issued \cup {NoToken}
          /\ process[p].kind = "logout" <=> process[p].at \in LogoutLabel
          /\ process[p].kind = "logout" => Its(p) # NoToken
          /\ process[p].at \in {"check", "delete", "revoke"} => process[p].kind = "refresh"
          /\ process[p].kind = "refresh" =>
                Its(p) # NoToken /\ (process[p].client = Nobody => Its(p) \in orphaned)

\* A token that was issued and is on its way is known to nobody yet, and so
\* cannot be removed.
NewInv ==
    \A p \in Process : process[p].at \in IssuedLabel =>
        /\ process[p].new \in rows \ ended
        /\ process[p].new # stored
        /\ \A q \in Process : Its(q) # process[p].new
        /\ \A q \in Process \ {p} :
              process[q].at \in IssuedLabel => process[q].new # process[p].new
        /\ At(p, "answered") /\ redisChanges = 0 => process[p].new \in Accepted

\* A token that is being logged out is not held any more, and its session goes
\* first.
LogoutInv ==
    \A p \in Process : process[p].kind = "logout" =>
        /\ Its(p) # stored
        /\ At(p, "logout_revoke") /\ isReady /\ redisChanges = 0 => Its(p) \notin sessions

\* The held token is accepted, or the page that had it removed has yet to hear.
BeingReplaced(token) ==
    \E p \in Process : /\ process[p].kind = "refresh" /\ process[p].client \in Tab
                       /\ process[p].at # "check" /\ Its(p) = token

HeldInv == redisChanges = 0 /\ stored # NoToken =>
               stored \in Accepted \cup orphaned \/ BeingReplaced(stored)

\* The refresh that a page has begun is one request of the backend, and the
\* others of that page wait for nothing else.
RefreshOf(tab, p) == process[p].kind = "refresh" /\ process[p].client = tab

SharedInv ==
    \A tab \in Tab :
        IF refreshInFlight[tab] = "running"
        THEN \E p \in Process : /\ RefreshOf(tab, p)
                               /\ \A q \in Process \ {p} : ~RefreshOf(tab, q)
        ELSE /\ \A p \in Process : ~RefreshOf(tab, p)
             /\ \A role \in Role : request[<<tab, role>>] # "waiting"

IInv == TypeOK /\ FrameInv /\ NewInv /\ LogoutInv /\ LoggedOutIsOver /\ HeldInv

-----------------------------------------------------------------------------
(* What the documentation says and the code does not keep.                 *)

\* docs/redis-plan.md: a user stays signed in, the refresh works.  A page that
\* gets a 401 while the browser has a session refreshes it.
RefusedTriesRefresh ==
    [][\A tab \in Tab : stored # NoToken =>
          \A role \in Role : JoinRefresh(tab, role) => request'[<<tab, role>>] = "waiting"]_vars

-----------------------------------------------------------------------------
\* For TLC: requests of the backend have no names.
ProcessSymmetry == Permutations(Process)
=============================================================================
