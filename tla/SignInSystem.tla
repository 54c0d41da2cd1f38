----------------------------- MODULE SignInSystem -----------------------------
(***************************************************************************)
(* Registration and signing in, from the windows of a browser and the      *)
(* Telegram bot to the users and credentials of the backend.               *)
(***************************************************************************)
EXTENDS SignInPages

CONSTANTS
    Workload,       \* the sets of things that happen in one behaviour
    Confirmed       \* the addresses that may be registered and confirmed already

VARIABLES
    workload,       \* what happens in this behaviour
    calm            \* history: no two requests overlapped, and none failed

vars == <<authVars, botVars, pageVars, workload, calm>>

\* The requests of others than windows and bot, and what may go wrong.
Happening == {"email", "telegram", "link", "auth", "expire", "fail", "leave", "restart"}

ASSUME SystemAssumption == /\ Workload \subseteq SUBSET Happening
                           /\ Confirmed \subseteq Email

TypeOK == /\ AuthTypeOK
          /\ BotTypeOK
          /\ PagesTypeOK
          /\ workload \subseteq Happening
          /\ calm \in BOOLEAN

Init == /\ \E confirmed \in SUBSET Confirmed :
              /\ users = [u \in User |->
                             IF u \in confirmed
                             THEN [EmailRow EXCEPT !.status = "ACTIVE", !.confirmed = TRUE]
                             ELSE AbsentRow]
              /\ signedIn \in confirmed \cup {NoUser}
        /\ AuthInit
        /\ BotInit
        /\ PagesInit
        /\ workload \in Workload
        /\ calm = TRUE

Does(happening) == happening \in workload

\* bound: what goes wrong goes wrong once
Once(happening) == Does(happening) /\ workload' = workload \ {happening}

\* A request begins while another one is at work.
Overlaps == \E q \in Process : process[q].at \notin {"idle", "answer"}
CalmStart == calm' = (calm /\ ~Overlaps)

-----------------------------------------------------------------------------

BackendStep(p) == /\ \/ Continue(p) \/ AnswerDropped(p) \/ LinkAnswered(p)
                  /\ UNCHANGED <<botVars, pageVars, workload, calm>>

FailStep(p) == /\ Once("fail") /\ RequestFails(p)
               /\ calm' = FALSE
               /\ UNCHANGED <<botVars, pageVars>>

ExpireStep(k) == /\ Once("expire") /\ Expire(k)
                 /\ UNCHANGED <<botVars, pageVars, calm>>

\* Requests that no page and no bot of the repository sends.
OtherStep(p) ==
    /\ \/ Does("link") /\ signedIn # NoUser /\ GenerateTelegramLink(p, Nobody, signedIn)
       \/ \E telegram \in Telegram :
             \/ Does("auth") /\ TelegramAuth(p, telegram)
             \/ Does("link") /\ \E k \in known : VerifyTelegram(p, k, telegram)
    /\ CalmStart
    /\ UNCHANGED <<botVars, pageVars, workload>>

BotStep == /\ Does("telegram")
           /\ \/ \E telegram \in Telegram, k \in Key : Start(telegram, k)
              \/ \E p \in Process : Reply(p)
           /\ UNCHANGED <<pageVars, workload, calm>>

RestartStep == Once("restart") /\ Restart /\ UNCHANGED <<pageVars, calm>>

ConfirmStep(p, telegram) == /\ Does("telegram") /\ Confirm(p, telegram) /\ CalmStart
                            /\ UNCHANGED <<pageVars, workload>>

Offered(view) == \/ view = "home"
                 \/ view = "telegram" /\ Does("telegram")
                 \/ view \in {"login", "register"} /\ Does("email")

WindowStep(w) ==
    /\ \/ \E view \in View : Offered(view) /\ SwitchTab(w, view)
       \/ \E k \in Key : OpenLink(w, k)
       \/ \E p \in Process : \/ LoginAnswered(w, p) \/ RegisterAnswered(w, p)
                             \/ ResendAnswered(w, p) \/ TelegramStartAnswered(w, p)
                             \/ FormRefused(w, p)
                             \/ ConfirmAnswered(w, p) \/ ExchangeAnswered(w, p)
    /\ UNCHANGED <<workload, calm>>

LeaveStep(w) == Once("leave") /\ Reload(w) /\ UNCHANGED calm

RequestStep(w, p) ==
    /\ \/ \E email \in Email : SubmitLogin(w, p, email) \/ SubmitRegister(w, p, email)
                                 \/ OnResend(w, p, email)
       \/ OnTelegramStart(w, p)
       \/ Mount(w, p)
    /\ CalmStart
    /\ UNCHANGED workload

Next == \/ BotStep \/ RestartStep
        \/ \E k \in Key : ExpireStep(k)
        \/ \E p \in Process : BackendStep(p) \/ FailStep(p) \/ OtherStep(p)
        \/ \E p \in Process, telegram \in Telegram : ConfirmStep(p, telegram)
        \/ \E w \in Window : WindowStep(w) \/ LeaveStep(w) \/ \E p \in Process : RequestStep(w, p)

Spec == Init /\ [][Next]_vars

-----------------------------------------------------------------------------
(* Safety.                                                                 *)

\* Whoever has a session and an address has confirmed the address, whatever letters,
\* links and forms overlapped: the answers of the backend on their way included.
SessionsAreConfirmed ==
    /\ signedIn \in Email => users[signedIn].confirmed
    /\ \A p \in Process :
          (At(p, "issue") \/ (At(p, "answer") /\ process[p].ok
                              /\ process[p].kind \in {"login", "confirm", "verify",
                                                      "auth", "exchange"}))
          /\ process[p].user \in Email
          => users[process[p].user].confirmed

\* A credential is good once.  Requests that overlap may each find it unused, so that
\* it can give as many sessions as there are requests at a time, and no more.
GrantsBounded == \A k \in Key : granted[k] <= Cardinality(Process)

\* When no requests overlapped and none failed, a credential gives one session at
\* most, and a page that a link has opened fails only when its link has given one,
\* or its time is over.
CalmLinkWorksOnce ==
    calm => /\ \A k \in Key : granted[k] <= 1
            /\ \A w \in Window : window[w].status = "err" =>
                  LET k == window[w].key IN granted[k] = 1 \/ credential[k].expired

\* The codes that sign a browser in with Telegram are as many as were asked for in
\* Telegram, by opening the link of the attempt there: neither the button pressed
\* twice, nor two calls that overlap, nor a restart makes a second one.
Codes(k) == {j \in Key : credential[j].attempt = k}
CodesNeedStarts == \A k \in Key : Cardinality(Codes(k)) <= starts[k]

-----------------------------------------------------------------------------
(* Why they hold: an inductive invariant, in five parts.                   *)

Granting == {"login", "confirm", "verify", "auth", "exchange"}

\* The steps that work on a credential which was found good.
Spending == {"confirm_write", "link_check", "link_write", "exchange_write"}

\* A request is at a step of its own kind, with the key and the account that it takes.
Fits(f) ==
    /\ f.at \in {"create_token", "send_mail"} => f.kind \in {"register", "resend"}
    /\ f.at = "confirm_write" => f.kind = "confirm"
    /\ f.at = "create_link" => f.kind = "link"
    /\ f.at \in {"link_check", "link_write"} => f.kind = "verify"
    /\ f.at = "create_attempt" => f.kind = "start"
    /\ f.at = "create_user" => f.kind \in {"register", "auth", "login_confirm"}
    /\ f.at = "find_user" => f.kind \in {"auth", "login_confirm"}
    /\ f.at = "login_write" => f.kind = "login_confirm"
    /\ f.at = "exchange_write" => f.kind = "exchange"
    /\ f.at = "issue" => f.kind \in Granting
    /\ f.kind \in {"auth", "login"} => f.key = NoKey
    /\ f.client \in Telegram => f.kind = "login_confirm"
    /\ f.at \in {"find_user", "create_user"} /\ f.kind \in {"auth", "login_confirm"} =>
           f.telegram \in Telegram
    /\ f.at = "answer" /\ f.ok /\ f.kind \in {"start", "link", "login_confirm"} => f.key \in Key
    /\ f.at = "send_mail" => f.key \in Key

\* An attempt is being confirmed.
IsConfirming(f) == f.kind = "login_confirm" /\ f.at \in {"find_user", "create_user", "login_write"}

\* It works on a credential that was issued.
Works(f) == f.at \in Spending \/ IsConfirming(f)

FrameInv ==
    /\ \A p \in Process : Fits(process[p])
    /\ \A p \in Process : Works(process[p]) =>
           Its(p) \in Key /\ credential[Its(p)].kind # "none"
    /\ \A k \in Key : credential[k].kind = "none" => credential[k] = NoCredential
    /\ \A w \in Window : window[w].status = "mounting" => window[w].key \in Key

\* Whoever is on the way to a session, or got a Telegram account, has confirmed.
Earns(f) == \/ f.at \in {"create_link", "link_check", "link_write", "login_write",
                         "exchange_write", "issue"}
            \/ f.at = "answer" /\ f.ok /\ f.kind \in Granting

ConfirmedInv ==
    /\ \A u \in Email : \/ users[u].confirmed /\ users[u].status = "ACTIVE"
                        \/ /\ ~users[u].confirmed /\ users[u].status # "ACTIVE"
                           /\ users[u].telegramId = NoTelegram
    /\ \A p \in Process : Earns(process[p]) /\ process[p].user \in Email =>
           users[process[p].user].confirmed
    /\ \A k \in Key : credential[k].kind \in {"link", "exchange"} /\ credential[k].user \in Email =>
           users[credential[k].user].confirmed
    /\ signedIn \in Email => users[signedIn].confirmed

\* The requests that have found the credential good.  None has got as far as a session
\* before the credential was marked.
Holders(k) == {p \in Process : (process[p].at \in Spending \/ At(p, "issue")) /\ Its(p) = k}

GrantInv ==
    \A k \in Key :
        /\ ~credential[k].used => granted[k] = 0 /\ \A p \in Process : At(p, "issue") => Its(p) # k
        /\ granted[k] + Cardinality(Holders(k)) <= Cardinality(Process)

\* An attempt that was started is about to be confirmed, being confirmed, or has its code.
Wanted(k) == {telegram \in Telegram : pendingLogin[telegram] = k}
Confirming(k) == {p \in Process : IsConfirming(process[p]) /\ Its(p) = k}

CodeInv ==
    \A k \in Key :
        /\ IsFiniteSet(Wanted(k)) /\ IsFiniteSet(Codes(k))
        /\ Cardinality(Wanted(k)) + Cardinality(Confirming(k)) + Cardinality(Codes(k)) <= starts[k]

IInv == TypeOK /\ FrameInv /\ ConfirmedInv /\ GrantInv /\ CodeInv

-----------------------------------------------------------------------------
(* Why a link works once as long as it is calm.                            *)

\* The requests that a link sends, and what it brings to such a request, or to its page.
Link == {"confirm", "exchange"}
LinkOf(view) == IF view = "confirm" THEN "email" ELSE "exchange"

\* A window waits for its own link only, and for one answer at a time.
WindowInv ==
    /\ \A w \in Window :
          /\ window[w].status # "idle" => window[w].view \in {"confirm", "callback"}
          /\ window[w].status = "mounting" =>
                 credential[window[w].key].kind = LinkOf(window[w].view)
    /\ \A p \in Process :
          /\ process[p].kind = "confirm" /\ process[p].client \in Window => process[p].mounted
          /\ IsConfirming(process[p]) => credential[Its(p)].kind = "attempt"
    /\ \A w \in Window, p \in Process : Shows(w, p) =>
          /\ IF process[p].kind \in Link
             THEN window[w].status = "loading" /\ window[w].key = Its(p)
             ELSE window[w].status = "idle"
          /\ \A q \in Process : Shows(w, q) => q = p

\* A link that has given its session, or cannot give one any more.
Spent(k) == k \in Key /\ (granted[k] = 1 \/ credential[k].expired)

\* The one request at work finds its credential as it was when it began, and a
\* credential is used without a session only until that request gives it.
Busy(p) == process[p].at \notin {"idle", "answer"}

Alone(p) ==
    /\ \A q \in Process : Busy(q) => q = p
    /\ process[p].at \in Spending => ~credential[Its(p)].used
    /\ At(p, "issue") /\ Its(p) \in Key => granted[Its(p)] = 0

CalmInv ==
    calm => /\ \A p \in Process : Busy(p) => Alone(p)
            /\ \A p \in Process :
                  At(p, "answer") /\ ~process[p].ok /\ process[p].kind \in Link => Spent(Its(p))
            /\ \A w \in Window : window[w].status = "err" => Spent(window[w].key)
            /\ \A k \in Key :
                  /\ granted[k] <= 1
                  /\ credential[k].used /\ credential[k].kind \in {"email", "exchange"} =>
                        granted[k] = 1 \/ \E p \in Process : At(p, "issue") /\ Its(p) = k
=============================================================================
