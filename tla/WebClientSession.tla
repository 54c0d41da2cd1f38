--------------------------- MODULE WebClientSession ---------------------------
(***************************************************************************)
(* The web client's side of a session: the stored token pair              *)
(* (authStorage), the requests of a page and the silent refresh they share *)
(* (apiClient), and the sign-in state of each page (AuthContext).          *)
(*                                                                         *)
(* A browser has several pages on one storage.  The event that tells       *)
(* AuthContext of a change reaches the page that made it and no other.  An *)
(* access token may have run out whenever it is used.                      *)
(***************************************************************************)
EXTENDS RefreshSessions

VARIABLES
    stored,         \* the refresh token in localStorage
    signedIn,       \* pages that hold an access token in their state
    refreshInFlight,\* each page's promise of a refresh: none, running, or
                    \* one that has been settled with null and is kept
    request         \* the requests of the pages

clientVars == <<stored, signedIn, refreshInFlight, request>>

\* AuthProvider asks for the current user when a page is loaded; the page has
\* other requests of its own.
Role == {"mount", "page"}

RequestLabel == {"idle", "sent", "waiting", "retried"}

ClientTypeOK == /\ stored \in Token \cup {NoToken}
                /\ signedIn \subseteq Tab
                /\ refreshInFlight \in [Tab -> {"none", "running", "null"}]
                /\ request \in [Tab \X Role -> RequestLabel]

Answer(tab, role, label) == request' = [request EXCEPT ![<<tab, role>>] = label]

\* One free process of the backend takes the request up.
Post(label, kind, tab, token) ==
    \E p \in Process :
        /\ At(p, "idle")
        /\ process' = [process EXCEPT ![p] = Starting(label, kind, tab, token)]
        /\ UNCHANGED <<issued, rows, sessions, isReady>>

\* clearSession and saveSession, with the event they fire in this page.
ClearSession(tab) == stored' = NoToken /\ signedIn' = signedIn \ {tab}
SaveSession(tab, token) == stored' = token /\ signedIn' = signedIn \cup {tab}

\* A page is loaded, for the first time or again.  What it was waiting for goes
\* nowhere.
Load(tab) ==
    LET loaded == [role \in Role |-> IF role = "mount" /\ stored # NoToken THEN "sent" ELSE "idle"]
    IN  /\ signedIn' = IF stored = NoToken THEN signedIn \ {tab} ELSE signedIn \cup {tab}
        /\ refreshInFlight' = [refreshInFlight EXCEPT ![tab] = "none"]
        /\ request' = [x \in Tab \X Role |-> IF x[1] = tab THEN loaded[x[2]] ELSE request[x]]
        /\ process' = [p \in Process |->
               IF process[p].client = tab THEN [process[p] EXCEPT !.client = Nobody] ELSE process[p]]
        /\ UNCHANGED <<stored, issued, rows, sessions, isReady>>

\* login, up to the issue of the tokens.  A page offers it when it is not signed
\* in, one at a time.
Login(tab) ==
    /\ tab \notin signedIn
    /\ \A p \in Process : ~(process[p].kind = "login" /\ process[p].client = tab)
    /\ Post("create", "login", tab, NoToken)
    /\ UNCHANGED clientVars

LoginAnswered(tab, p) ==
    /\ process[p].kind = "login" /\ process[p].client = tab
    /\ \/ At(p, "answered") /\ SaveSession(tab, process[p].new)
       \/ At(p, "refused") /\ UNCHANGED <<stored, signedIn>>
    /\ Return(p)
    /\ UNCHANGED <<refreshInFlight, request, issued, rows, sessions, isReady>>

\* logout ends the session on this side at once and does not wait for the
\* backend.
Logout(tab) ==
    /\ tab \in signedIn
    /\ ClearSession(tab)
    /\ IF stored = NoToken THEN UNCHANGED backendVars
                           ELSE Post("logout_delete", "logout", Nobody, stored)
    /\ UNCHANGED <<refreshInFlight, request>>

-----------------------------------------------------------------------------
(* apiRequest.                                                             *)

Send(tab) ==
    /\ tab \in signedIn
    /\ request[<<tab, "page">>] = "idle"
    /\ Answer(tab, "page", "sent")
    /\ UNCHANGED <<stored, signedIn, refreshInFlight, backendVars>>

\* The request is done.  The first one of a page marks it signed in.
RequestOk(tab, role) ==
    /\ request[<<tab, role>>] \in {"sent", "retried"}
    /\ Answer(tab, role, "idle")
    /\ signedIn' = IF role = "mount" THEN signedIn \cup {tab} ELSE signedIn
    /\ UNCHANGED <<stored, refreshInFlight, backendVars>>

\* An error reaches the caller: AuthProvider takes it for the end of the
\* session.
Throw(tab, role) ==
    /\ Answer(tab, role, "idle")
    /\ IF role = "mount" THEN ClearSession(tab) ELSE UNCHANGED <<stored, signedIn>>

\* Any error but a 401, or a 401 after the refresh.
RequestThrows(tab, role) ==
    /\ request[<<tab, role>>] \in {"sent", "retried"}
    /\ Throw(tab, role)
    /\ UNCHANGED <<refreshInFlight, backendVars>>

\* A 401, with a refresh to begin.
BeginRefresh(tab, role) ==
    /\ request[<<tab, role>>] = "sent"
    /\ refreshInFlight[tab] = "none"
    /\ stored # NoToken
    /\ Post("check", "refresh", tab, stored)
    /\ refreshInFlight' = [refreshInFlight EXCEPT ![tab] = "running"]
    /\ Answer(tab, role, "waiting")
    /\ UNCHANGED <<stored, signedIn>>

\* A 401, with nothing to refresh: the promise is settled before it is assigned
\* to refreshInFlight, and stays there.
NothingToRefresh(tab, role) ==
    /\ request[<<tab, role>>] = "sent"
    /\ refreshInFlight[tab] = "none"
    /\ stored = NoToken
    /\ refreshInFlight' = [refreshInFlight EXCEPT ![tab] = "null"]
    /\ Throw(tab, role)
    /\ UNCHANGED backendVars

\* A 401, with a refresh that another request has begun.
JoinRefresh(tab, role) ==
    /\ request[<<tab, role>>] = "sent"
    /\ \/ /\ refreshInFlight[tab] = "running"
          /\ Answer(tab, role, "waiting")
          /\ UNCHANGED <<stored, signedIn>>
       \/ /\ refreshInFlight[tab] = "null"
          /\ Throw(tab, role)
    /\ UNCHANGED <<refreshInFlight, backendVars>>

Waiting(tab) == {role \in Role : request[<<tab, role>>] = "waiting"}

\* The refresh went well: the session is stored and the requests are sent again.
RefreshAnswered(tab, p) ==
    /\ process[p].kind = "refresh" /\ process[p].client = tab
    /\ At(p, "answered")
    /\ SaveSession(tab, process[p].new)
    /\ refreshInFlight' = [refreshInFlight EXCEPT ![tab] = "none"]
    /\ request' = [x \in Tab \X Role |->
           IF x[1] = tab /\ x[2] \in Waiting(tab) THEN "retried" ELSE request[x]]
    /\ Return(p)
    /\ UNCHANGED <<issued, rows, sessions, isReady>>

\* Mutant: the promise is kept.
RefreshRefusedForGood(tab, p) ==
    /\ process[p].kind = "refresh" /\ process[p].client = tab
    /\ At(p, "refused")
    /\ ClearSession(tab)
    /\ UNCHANGED <<refreshInFlight, request>>
    /\ Return(p)
    /\ UNCHANGED <<issued, rows, sessions, isReady>>

\* It did not: the session is cleared, and each request throws.
RefreshRefused(tab, p) ==
    /\ process[p].kind = "refresh" /\ process[p].client = tab
    /\ At(p, "refused")
    /\ ClearSession(tab)
    /\ refreshInFlight' = [refreshInFlight EXCEPT ![tab] = "none"]
    /\ request' = [x \in Tab \X Role |->
           IF x[1] = tab /\ x[2] \in Waiting(tab) THEN "idle" ELSE request[x]]
    /\ Return(p)
    /\ UNCHANGED <<issued, rows, sessions, isReady>>

\* The answer to a page that has gone.
AnswerDropped(p) ==
    /\ process[p].client = Nobody
    /\ process[p].at \in {"answered", "refused"}
    /\ Return(p)
    /\ UNCHANGED <<clientVars, issued, rows, sessions, isReady>>
=============================================================================
