----------------------------- MODULE AuthService -----------------------------
(***************************************************************************)
(* Registration and signing in: the users, and the secrets that are sent   *)
(* to them and that they bring back.                                       *)
(*                                                                         *)
(* A user is known by what the row was created with, an address or a       *)
(* Telegram account.  A credential is a row of one of four tables: a       *)
(* confirmation token ("email"), a code that links a Telegram account      *)
(* ("link"), an attempt to log in with Telegram ("attempt") and the code   *)
(* that ends such an attempt ("exchange").  Credentials are random and     *)
(* never equal.                                                            *)
(***************************************************************************)
EXTENDS FiniteSets, Integers

CONSTANTS
    Email, Telegram,    \* the addresses and the Telegram accounts
    NoUser, NoTelegram,
    Key,                \* bound: the credentials that can be issued, in this order
    NoKey,
    Window, Nobody,     \* the browser windows; nobody waits for the answer
    Process             \* the requests that can be in flight together

User == Email \cup Telegram

ASSUME AuthAssumption ==
    /\ Email \cap Telegram = {}
    /\ NoUser \notin User /\ NoTelegram \notin Telegram
    /\ Key \subseteq Nat /\ NoKey \notin Key
    /\ IsFiniteSet(Process)
    /\ Nobody \notin Window \cup Telegram /\ Window \cap Telegram = {}

VARIABLES
    users,      \* the rows of User
    credential, \* the rows of the four tables
    known,      \* the credentials that were mailed, shown or answered
    granted,    \* history: how many sessions each credential has given
    process     \* the requests

dataVars == <<users, credential, known, granted>>
authVars == <<users, credential, known, granted, process>>

\* A row cannot be refused its unique columns: the address it is named after, and
\* telegramId.
UserRow == [status : {"ABSENT", "PENDING_EMAIL_CONFIRMATION", "ACTIVE"},
            confirmed : BOOLEAN,
            telegramId : Telegram \cup {NoTelegram}]

AbsentRow == [status |-> "ABSENT", confirmed |-> FALSE, telegramId |-> NoTelegram]
EmailRow == [AbsentRow EXCEPT !.status = "PENDING_EMAIL_CONFIRMATION"]
TelegramRow(telegram) == [AbsentRow EXCEPT !.status = "ACTIVE", !.telegramId = telegram]

\* "none" is a credential that is still to be issued.
Credential == [kind : {"none", "email", "link", "attempt", "exchange"},
               user : User \cup {NoUser},
               attempt : Key \cup {NoKey},
               used : BOOLEAN,
               expired : BOOLEAN]

NoCredential == [kind |-> "none", user |-> NoUser, attempt |-> NoKey,
                 used |-> FALSE, expired |-> FALSE]

Issued(kind, user, attempt) ==
    [NoCredential EXCEPT !.kind = kind, !.user = user, !.attempt = attempt]

Kind == {"none", "register", "resend", "login", "confirm", "link", "verify", "auth",
         "start", "login_confirm", "exchange"}

Label == {"idle", "create_user", "create_token", "send_mail",
          "confirm_write", "create_link", "link_check", "link_write",
          "find_user", "create_attempt", "login_write", "exchange_write",
          "issue", "answer"}

Frame == [kind : Kind,
          at : Label,
          client : Window \cup Telegram \cup {Nobody},
          mounted : BOOLEAN,                    \* the component that asked is still shown
          user : User \cup {NoUser},
          telegram : Telegram \cup {NoTelegram},
          key : Key \cup {NoKey},               \* the credential that was brought or made
          ok : BOOLEAN]                         \* the answer is not an error

Idle == [kind |-> "none", at |-> "idle", client |-> Nobody, mounted |-> FALSE,
         user |-> NoUser, telegram |-> NoTelegram, key |-> NoKey, ok |-> FALSE]

At(p, label) == process[p].at = label
Its(p) == process[p].key

Begin(p, frame) == process' = [process EXCEPT ![p] = frame]
GoTo(p, label) == process' = [process EXCEPT ![p].at = label]
Return(p) == Begin(p, Idle)

Answer(p, ok) == process' = [process EXCEPT ![p].at = "answer", ![p].ok = ok]

Request(kind, client, label) ==
    [Idle EXCEPT !.kind = kind, !.at = label, !.client = client, !.mounted = client \in Window]

Exists(user) == users[user].status # "ABSENT"

\* The user with this telegramId, if there is one; the column is unique.
WithTelegram(telegram) == {u \in User : users[u].telegramId = telegram}

IsNew(k) == /\ credential[k].kind = "none"
            /\ \A j \in Key : credential[j].kind = "none" => k <= j

\* findFirst with usedAt null, and the check of expiresAt.
IsGood(k, kind) == /\ credential[k].kind = kind
                   /\ ~credential[k].used /\ ~credential[k].expired

Use(k) == [credential EXCEPT ![k].used = TRUE]

\* A request that is refused by what it has read first.
Refuse(p, kind, client, k) ==
    Begin(p, [Request(kind, client, "answer") EXCEPT !.key = k])

AuthInit == /\ credential = [k \in Key |-> NoCredential]
            /\ known = {}
            /\ granted = [k \in Key |-> 0]
            /\ process = [p \in Process |-> Idle]

AuthTypeOK == /\ users \in [User -> UserRow]
              /\ credential \in [Key -> Credential]
              /\ known \subseteq Key
              /\ granted \in [Key -> Nat]
              /\ process \in [Process -> Frame]

-----------------------------------------------------------------------------
(* An address: registration, its confirmation, and the password.           *)

Register(p, client, email) ==
    /\ At(p, "idle")
    /\ IF Exists(email)
       THEN Refuse(p, "register", client, NoKey)
       ELSE Begin(p, [Request("register", client, "create_user") EXCEPT !.user = email])
    /\ UNCHANGED dataVars

CreateEmailUser(p) ==
    /\ At(p, "create_user") /\ process[p].kind = "register"
    /\ IF Exists(process[p].user)
       THEN Answer(p, FALSE) /\ UNCHANGED users
       ELSE /\ users' = [users EXCEPT ![process[p].user] = EmailRow]
            /\ GoTo(p, "create_token")
    /\ UNCHANGED <<credential, known, granted>>

ResendConfirmation(p, client, email) ==
    /\ At(p, "idle")
    /\ IF Exists(email) /\ ~users[email].confirmed
       THEN Begin(p, [Request("resend", client, "create_token") EXCEPT !.user = email])
       ELSE Refuse(p, "resend", client, NoKey)
    /\ UNCHANGED dataVars

CreateEmailConfirmationToken(p, k) ==
    /\ At(p, "create_token") /\ IsNew(k)
    /\ credential' = [credential EXCEPT ![k] = Issued("email", process[p].user, NoKey)]
    /\ process' = [process EXCEPT ![p].at = "send_mail", ![p].key = k]
    /\ UNCHANGED <<users, known, granted>>

SendConfirmationEmail(p) ==
    /\ At(p, "send_mail")
    /\ known' = known \cup {Its(p)}
    /\ Answer(p, TRUE)
    /\ UNCHANGED <<users, credential, granted>>

ConfirmEmail(p, client, k) ==
    /\ At(p, "idle")
    /\ IF IsGood(k, "email")
       THEN Begin(p, [Request("confirm", client, "confirm_write")
                         EXCEPT !.key = k, !.user = credential[k].user])
       ELSE Refuse(p, "confirm", client, k)
    /\ UNCHANGED dataVars

\* Mutant: the row of the token is left as it is.
ConfirmUserOnly(p) ==
    /\ At(p, "confirm_write")
    /\ users' = [users EXCEPT ![process[p].user].confirmed = TRUE,
                              ![process[p].user].status = "ACTIVE"]
    /\ GoTo(p, "issue")
    /\ UNCHANGED <<credential, known, granted>>

ConfirmUser(p) ==
    /\ At(p, "confirm_write")
    /\ credential' = Use(Its(p))
    /\ users' = [users EXCEPT ![process[p].user].confirmed = TRUE,
                              ![process[p].user].status = "ACTIVE"]
    /\ GoTo(p, "issue")
    /\ UNCHANGED <<known, granted>>

\* Mutant: whoever has registered may log in.
LoginUnconfirmed(p, client, email) ==
    /\ At(p, "idle")
    /\ IF Exists(email)
       THEN Begin(p, [Request("login", client, "issue") EXCEPT !.user = email])
       ELSE Refuse(p, "login", client, NoKey)
    /\ UNCHANGED dataVars

\* With the right password; a wrong one is refused like an unknown address.
Login(p, client, email) ==
    /\ At(p, "idle")
    /\ IF users[email].status = "ACTIVE"
       THEN Begin(p, [Request("login", client, "issue") EXCEPT !.user = email])
       ELSE Refuse(p, "login", client, NoKey)
    /\ UNCHANGED dataVars

-----------------------------------------------------------------------------
(* A Telegram account linked to a user who has an address.                 *)

GenerateTelegramLink(p, client, user) ==
    /\ At(p, "idle")
    /\ IF users[user].confirmed /\ users[user].telegramId = NoTelegram
       THEN Begin(p, [Request("link", client, "create_link") EXCEPT !.user = user])
       ELSE Refuse(p, "link", client, NoKey)
    /\ UNCHANGED dataVars

CreateLinkCode(p, k) ==
    /\ At(p, "create_link") /\ IsNew(k)
    /\ credential' = [credential EXCEPT ![k] = Issued("link", process[p].user, NoKey)]
    /\ process' = [process EXCEPT ![p].at = "answer", ![p].ok = TRUE, ![p].key = k]
    /\ UNCHANGED <<users, known, granted>>

VerifyTelegram(p, k, telegram) ==
    /\ At(p, "idle")
    /\ IF IsGood(k, "link")
       THEN Begin(p, [Request("verify", Nobody, "link_check")
                         EXCEPT !.key = k, !.user = credential[k].user, !.telegram = telegram])
       ELSE Refuse(p, "verify", Nobody, k)
    /\ UNCHANGED dataVars

CheckLinked(p) ==
    /\ At(p, "link_check")
    /\ IF WithTelegram(process[p].telegram) \subseteq {process[p].user}
       THEN GoTo(p, "link_write")
       ELSE Answer(p, FALSE)
    /\ UNCHANGED dataVars

LinkTelegram(p) ==
    /\ At(p, "link_write")
    /\ IF WithTelegram(process[p].telegram) \subseteq {process[p].user}
       THEN /\ credential' = Use(Its(p))
            /\ users' = [users EXCEPT ![process[p].user].telegramId = process[p].telegram,
                                      ![process[p].user].status = "ACTIVE"]
            /\ GoTo(p, "issue")
       ELSE Answer(p, FALSE) /\ UNCHANGED <<users, credential>>
    /\ UNCHANGED <<known, granted>>

-----------------------------------------------------------------------------
(* Logging in with Telegram.                                               *)

StartTelegramLogin(p, client) ==
    /\ At(p, "idle")
    /\ Begin(p, Request("start", client, "create_attempt"))
    /\ UNCHANGED dataVars

CreateAttempt(p, k) ==
    /\ At(p, "create_attempt") /\ IsNew(k)
    /\ credential' = [credential EXCEPT ![k] = Issued("attempt", NoUser, NoKey)]
    /\ process' = [process EXCEPT ![p].at = "answer", ![p].ok = TRUE, ![p].key = k]
    /\ UNCHANGED <<users, known, granted>>

\* Both ways begin with the user of the Telegram account, who is created if need be.
TelegramAuth(p, telegram) ==
    /\ At(p, "idle")
    /\ Begin(p, [Request("auth", Nobody, "find_user") EXCEPT !.telegram = telegram])
    /\ UNCHANGED dataVars

ConfirmTelegramLogin(p, client, k, telegram) ==
    /\ At(p, "idle")
    /\ IF IsGood(k, "attempt")
       THEN Begin(p, [Request("login_confirm", client, "find_user")
                         EXCEPT !.key = k, !.telegram = telegram])
       ELSE Refuse(p, "login_confirm", client, k)
    /\ UNCHANGED dataVars

AfterUser(p) == IF process[p].kind = "auth" THEN "issue" ELSE "login_write"

FindTelegramUser(p) ==
    /\ At(p, "find_user")
    /\ LET user == WithTelegram(process[p].telegram)
       IN  IF user = {}
           THEN GoTo(p, "create_user")
           ELSE \E u \in user :
                    process' = [process EXCEPT ![p].at = AfterUser(p), ![p].user = u]
    /\ UNCHANGED dataVars

CreateTelegramUser(p) ==
    /\ At(p, "create_user") /\ process[p].kind \in {"auth", "login_confirm"}
    /\ LET telegram == process[p].telegram
       IN  IF WithTelegram(telegram) # {}
           THEN Answer(p, FALSE) /\ UNCHANGED users
           ELSE /\ users' = [users EXCEPT ![telegram] = TelegramRow(telegram)]
                /\ process' = [process EXCEPT ![p].at = AfterUser(p), ![p].user = telegram]
    /\ UNCHANGED <<credential, known, granted>>

\* The attempt is used, and a code for the browser created, in one transaction.
CreateExchangeCode(p, k) ==
    /\ At(p, "login_write") /\ IsNew(k)
    /\ credential' = [Use(Its(p)) EXCEPT ![k] = Issued("exchange", process[p].user, Its(p))]
    /\ process' = [process EXCEPT ![p].at = "answer", ![p].ok = TRUE, ![p].key = k]
    /\ UNCHANGED <<users, known, granted>>

ExchangeTelegramLogin(p, client, k) ==
    /\ At(p, "idle")
    /\ IF IsGood(k, "exchange")
       THEN Begin(p, [Request("exchange", client, "exchange_write")
                         EXCEPT !.key = k, !.user = credential[k].user])
       ELSE Refuse(p, "exchange", client, k)
    /\ UNCHANGED dataVars

\* Mutant: the code stays as it is.
SpendNoCode(p) ==
    /\ At(p, "exchange_write")
    /\ GoTo(p, "issue")
    /\ UNCHANGED dataVars

SpendExchangeCode(p) ==
    /\ At(p, "exchange_write")
    /\ credential' = Use(Its(p))
    /\ GoTo(p, "issue")
    /\ UNCHANGED <<users, known, granted>>

-----------------------------------------------------------------------------

\* A session for the user; RefreshSessions follows it from here.
IssueAuthResponse(p) ==
    /\ At(p, "issue")
    /\ granted' = IF Its(p) = NoKey THEN granted ELSE [granted EXCEPT ![Its(p)] = @ + 1]
    /\ Answer(p, TRUE)
    /\ UNCHANGED <<users, credential, known>>

\* The time of a credential runs out.  It does for one that was used, too, which nobody
\* can tell.
Expire(k) ==
    /\ credential[k].kind # "none" /\ ~credential[k].expired /\ ~credential[k].used
    /\ credential' = [credential EXCEPT ![k].expired = TRUE]
    /\ UNCHANGED <<users, known, granted, process>>

\* A store fails, the process ends or the connection breaks, before a step or after
\* the last one: the client gets an error.
RequestFails(p) ==
    /\ ~At(p, "idle") /\ ~(At(p, "answer") /\ ~process[p].ok)
    /\ Answer(p, FALSE)
    /\ UNCHANGED dataVars

\* The answer reaches nobody.
AnswerDropped(p) ==
    /\ At(p, "answer") /\ process[p].client = Nobody
    /\ Return(p)
    /\ UNCHANGED dataVars

\* A code that links an account is passed on by whoever asked for it.
LinkAnswered(p) ==
    /\ At(p, "answer") /\ process[p].kind = "link"
    /\ known' = IF process[p].ok THEN known \cup {Its(p)} ELSE known
    /\ Return(p)
    /\ UNCHANGED <<users, credential, granted>>

\* A request goes on with its next step.
Continue(p) ==
    \/ CreateEmailUser(p) \/ SendConfirmationEmail(p) \/ ConfirmUser(p)
    \/ CheckLinked(p) \/ LinkTelegram(p)
    \/ FindTelegramUser(p) \/ CreateTelegramUser(p) \/ SpendExchangeCode(p)
    \/ IssueAuthResponse(p)
    \/ \E k \in Key : \/ CreateEmailConfirmationToken(p, k) \/ CreateLinkCode(p, k)
                      \/ CreateAttempt(p, k) \/ CreateExchangeCode(p, k)
=============================================================================
