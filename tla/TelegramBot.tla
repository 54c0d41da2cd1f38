----------------------------- MODULE TelegramBot -----------------------------
(***************************************************************************)
(* The Telegram bot, in which a user confirms an attempt to log in.  It    *)
(* remembers in a Map what each account is about to confirm, and forgets   *)
(* that before it calls the backend.                                       *)
(***************************************************************************)
EXTENDS AuthService, Functions

CONSTANT MaxStarts      \* bound: how often /start is sent

ASSUME BotAssumption == MaxStarts \in Nat

VARIABLES
    pendingLogin,       \* the attempt that an account is about to confirm
    starts              \* history: how often /start was sent with an attempt

botVars == <<pendingLogin, starts>>

BotInit == /\ pendingLogin = [telegram \in Telegram |-> NoKey]
           /\ starts = [k \in Key |-> 0]

BotTypeOK == /\ pendingLogin \in [Telegram -> Key \cup {NoKey}]
             /\ starts \in [Key -> Nat]

\* The link that a window has opened, in Telegram; Telegram may deliver a message
\* twice.
Start(telegram, k) ==
    /\ k \in known /\ credential[k].kind = "attempt"
    /\ FoldFunction(+, 0, starts) < MaxStarts
    /\ pendingLogin' = [pendingLogin EXCEPT ![telegram] = k]
    /\ starts' = [starts EXCEPT ![k] = @ + 1]
    /\ UNCHANGED authVars

\* Mutant: the attempt is forgotten only when the backend has confirmed it.
ConfirmAndKeep(p, telegram) ==
    /\ pendingLogin[telegram] # NoKey
    /\ ConfirmTelegramLogin(p, telegram, pendingLogin[telegram], telegram)
    /\ UNCHANGED botVars

\* The phone number, or the button that skips it.  Without a pending attempt the bot
\* says that it knows of none.
Confirm(p, telegram) ==
    /\ pendingLogin[telegram] # NoKey
    /\ pendingLogin' = [pendingLogin EXCEPT ![telegram] = NoKey]
    /\ ConfirmTelegramLogin(p, telegram, pendingLogin[telegram], telegram)
    /\ UNCHANGED starts

\* A button that brings the user back with the code; or the error, as a message.
Reply(p) ==
    /\ At(p, "answer") /\ process[p].client \in Telegram
    /\ known' = IF process[p].ok THEN known \cup {Its(p)} ELSE known
    /\ Return(p)
    /\ UNCHANGED <<users, credential, granted, botVars>>

\* The Map is gone, and nobody waits for the answers of the backend.
Restart ==
    /\ pendingLogin' = [telegram \in Telegram |-> NoKey]
    /\ process' = [p \in Process |-> IF process[p].client \in Telegram
                                     THEN [process[p] EXCEPT !.client = Nobody]
                                     ELSE process[p]]
    /\ UNCHANGED <<users, credential, known, granted, starts>>
=============================================================================
