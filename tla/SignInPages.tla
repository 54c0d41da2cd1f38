----------------------------- MODULE SignInPages -----------------------------
(***************************************************************************)
(* The forms in which a user registers and signs in, and the two pages     *)
(* that a link from a letter or from the bot opens.  A page waits for its  *)
(* answer without a timeout.  A form that is closed ignores the answer, as *)
(* far as it shows something; what the answer does beyond the form is done *)
(* none the less.                                                          *)
(***************************************************************************)
EXTENDS TelegramBot

VARIABLES
    window,     \* what each window shows
    signedIn    \* the user whose session the browser has stored

pageVars == <<window, signedIn>>

Tab == {"login", "register", "telegram"}
View == Tab \cup {"home", "sent", "confirm", "callback"}

Shown == [view : View,
          status : {"idle", "mounting", "loading", "ok", "err"},
          key : Key \cup {NoKey}]

Home == [view |-> "home", status |-> "idle", key |-> NoKey]

PagesInit == window = [w \in Window |-> Home]

PagesTypeOK == /\ window \in [Window -> Shown]
               /\ signedIn \in User \cup {NoUser}

Show(w, shown) == window' = [window EXCEPT ![w] = shown]

\* The component that sent the request of p is still shown in w.
Shows(w, p) == process[p].client = w /\ process[p].mounted

\* The button of a form is disabled while an answer is out.
Pending(w) == \E p \in Process : Shows(w, p)

\* The component in w is taken away.  The page of a letter aborts its request, the
\* others let it go on.
Unmount(w) ==
    [p \in Process |->
        IF process[p].client # w THEN process[p]
        ELSE IF process[p].kind = "confirm" THEN [process[p] EXCEPT !.client = Nobody,
                                                                    !.mounted = FALSE]
        ELSE [process[p] EXCEPT !.mounted = FALSE]]

\* The document is loaded anew: nobody waits for the answers that are out.
Unload(w) ==
    [p \in Process |-> IF process[p].client # w THEN process[p]
                       ELSE [process[p] EXCEPT !.client = Nobody, !.mounted = FALSE]]

unchangedData == UNCHANGED <<dataVars, botVars>>

\* Another tab of the modal, or the modal closed.
SwitchTab(w, view) ==
    /\ view \in Tab \cup {"home"} /\ view # window[w].view
    /\ Show(w, [Home EXCEPT !.view = view])
    /\ process' = Unmount(w)
    /\ UNCHANGED signedIn /\ unchangedData

Reload(w) ==
    /\ Show(w, Home)
    /\ process' = Unload(w)
    /\ UNCHANGED signedIn /\ unchangedData

\* A form is submitted.
SubmitLogin(w, p, email) ==
    /\ ~Pending(w) /\ window[w].view = "login"
    /\ Login(p, w, email)
    /\ UNCHANGED <<botVars, pageVars>>

SubmitRegister(w, p, email) ==
    /\ ~Pending(w) /\ window[w].view = "register"
    /\ Register(p, w, email)
    /\ UNCHANGED <<botVars, pageVars>>

OnResend(w, p, email) ==
    /\ ~Pending(w) /\ window[w].view = "sent"
    /\ ResendConfirmation(p, w, email)
    /\ UNCHANGED <<botVars, pageVars>>

OnTelegramStart(w, p) ==
    /\ ~Pending(w) /\ window[w].view = "telegram"
    /\ StartTelegramLogin(p, w)
    /\ UNCHANGED <<botVars, pageVars>>

\* A link is opened, or its page loaded again.
OpenLink(w, k) ==
    /\ k \in known
    /\ Show(w, [view |-> IF credential[k].kind = "email" THEN "confirm" ELSE "callback",
                status |-> "mounting", key |-> k])
    /\ credential[k].kind \in {"email", "exchange"}
    /\ process' = Unload(w)
    /\ UNCHANGED signedIn /\ unchangedData

\* The page sends its request when it is mounted.
Mount(w, p) ==
    /\ window[w].status = "mounting"
    /\ Show(w, [window[w] EXCEPT !.status = "loading"])
    /\ IF window[w].view = "confirm"
       THEN ConfirmEmail(p, w, window[w].key)
       ELSE ExchangeTelegramLogin(p, w, window[w].key)
    /\ UNCHANGED <<botVars, signedIn>>

-----------------------------------------------------------------------------
(* Answers.  What a form says of an error is left out.                     *)

Answered(w, p, kind) ==
    At(p, "answer") /\ process[p].client = w /\ process[p].kind = kind

\* The user is signed in and the document loaded anew, whatever is shown by now.
LoginAnswered(w, p) ==
    /\ Answered(w, p, "login") /\ process[p].ok
    /\ signedIn' = process[p].user
    /\ Show(w, Home)
    /\ process' = [Unload(w) EXCEPT ![p] = Idle]
    /\ unchangedData

RegisterAnswered(w, p) ==
    /\ Answered(w, p, "register") /\ process[p].ok
    /\ IF Shows(w, p) THEN Show(w, [Home EXCEPT !.view = "sent"]) ELSE UNCHANGED window
    /\ Return(p)
    /\ UNCHANGED signedIn /\ unchangedData

ResendAnswered(w, p) ==
    /\ Answered(w, p, "resend") /\ process[p].ok
    /\ Return(p)
    /\ UNCHANGED pageVars /\ unchangedData

\* Mutant: whatever is answered is taken for a link.
TelegramStartTrusted(w, p) ==
    /\ Answered(w, p, "start")
    /\ known' = known \cup {Its(p)}
    /\ Return(p)
    /\ UNCHANGED <<users, credential, granted, botVars, pageVars>>

\* The deep link is opened, in a window of its own.
TelegramStartAnswered(w, p) ==
    /\ Answered(w, p, "start") /\ process[p].ok
    /\ known' = known \cup {Its(p)}
    /\ Return(p)
    /\ UNCHANGED <<users, credential, granted, botVars, pageVars>>

FormRefused(w, p) ==
    /\ \E kind \in {"login", "register", "resend", "start"} : Answered(w, p, kind)
    /\ ~process[p].ok
    /\ Return(p)
    /\ UNCHANGED pageVars /\ unchangedData

\* Left in the meantime, the page does not get here.
ConfirmAnswered(w, p) ==
    /\ Answered(w, p, "confirm")
    /\ signedIn' = IF process[p].ok THEN process[p].user ELSE signedIn
    /\ Show(w, [window[w] EXCEPT !.status = IF process[p].ok THEN "ok" ELSE "err"])
    /\ Return(p)
    /\ unchangedData

\* The request is not aborted with the page: its session is stored all the same.
ExchangeAnswered(w, p) ==
    /\ Answered(w, p, "exchange")
    /\ signedIn' = IF process[p].ok THEN process[p].user ELSE signedIn
    /\ IF Shows(w, p)
       THEN Show(w, [window[w] EXCEPT !.status = IF process[p].ok THEN "ok" ELSE "err"])
       ELSE UNCHANGED window
    /\ Return(p)
    /\ unchangedData
=============================================================================
