----------------------------- MODULE ProfilePage -----------------------------
(***************************************************************************)
(* The profile page, in several windows: the list of cards with its form   *)
(* and its buttons, and the form in which the user edits the profile.      *)
(* Answers change what is shown without asking what was shown before, and  *)
(* nothing cancels a request.                                              *)
(***************************************************************************)
EXTENDS PaymentMethods

VARIABLES
    page,       \* the list of cards, in each window
    form        \* the profile as it is known in each window, and the form to edit it

pageVars == <<page, form>>

Page == [open : BOOLEAN,
         loading : BOOLEAN,     \* cardsLoading
         shown : Shown]

Form == [open : BOOLEAN,
         user : [Column -> Value],          \* the user of AuthContext
         draft : [Column -> Value],
         typed : SUBSET Column]             \* history: the columns the user has typed in

Closed == [open |-> FALSE, loading |-> FALSE, shown |-> NothingShown]

PageTypeOK == /\ page \in [Window -> Page]
              /\ form \in [Window -> Form]

PageInit == /\ page = [w \in Window |-> Closed]
            /\ form = [w \in Window |-> [open |-> FALSE, user |-> profile, draft |-> profile,
                                         typed |-> {}]]

Of(w, p) == process[p].client = w

\* cardActionLoading, profileSaving
Changes == {"attach", "default", "remove"}
Acting(w) == \E p \in Process : Of(w, p) /\ process[p].kind \in Changes
Saving(w) == \E p \in Process : Of(w, p) /\ process[p].kind = "save"

SetPage(w, change) == page' = [page EXCEPT ![w] = change]
SetForm(w, change) == form' = [form EXCEPT ![w] = change]

\* The list is loading from the first moment.
Mount(w) ==
    /\ ~page[w].open
    /\ SetPage(w, [Closed EXCEPT !.open = TRUE, !.loading = TRUE])
    /\ UNCHANGED <<tableVars, process, form>>

-----------------------------------------------------------------------------
(* Cards.                                                                  *)

\* The effect runs when the page is mounted, and again with every new access token.
LoadCards(w, p) ==
    /\ page[w].open
    /\ SetPage(w, [page[w] EXCEPT !.loading = TRUE])
    /\ ListMethods(p, w)
    /\ UNCHANGED form

HandleAttachCard(w, p, c, setAsDefault) ==
    /\ page[w].open /\ ~Acting(w)
    /\ AddCard(p, w, c, setAsDefault)
    /\ UNCHANGED pageVars

\* The buttons of a card.  In the list of all cards they are there while it loads again.
HandleSetDefaultCard(w, p, c) ==
    /\ page[w].open /\ ~Acting(w)
    /\ page[w].shown[c] = "plain"
    /\ SetDefault(p, w, c)
    /\ UNCHANGED pageVars

HandleRemoveCard(w, p, c) ==
    /\ page[w].open /\ ~Acting(w)
    /\ page[w].shown[c] # "none"
    /\ RemoveCard(p, w, c)
    /\ UNCHANGED pageVars

Answered(w, p, kind) == At(p, "answer") /\ Of(w, p) /\ process[p].kind = kind

\* With an error the list that was there stays.
CardsLoaded(w, p) ==
    /\ Answered(w, p, "list")
    /\ SetPage(w, [page[w] EXCEPT !.loading = FALSE,
                                  !.shown = IF process[p].ok THEN process[p].shown ELSE @])
    /\ Return(p)
    /\ UNCHANGED <<tableVars, form>>

\* The card is shown as the default one, if it is there, and no other is.
WithDefault(shown, c) ==
    [d \in Card |-> IF shown[d] = "none" THEN "none" ELSE IF d = c THEN "default" ELSE "plain"]

CardAdded(w, p) ==
    LET c == process[p].card
        added == [page[w].shown EXCEPT ![c] = "plain"]
    IN  IF process[p].isDefault THEN WithDefault(added, c) ELSE added

\* What is shown once the answer has come.
ShownAfter(w, p) ==
    CASE process[p].kind = "attach"  -> CardAdded(w, p)
      [] process[p].kind = "default" -> WithDefault(page[w].shown, process[p].card)
      [] process[p].kind = "remove"  -> [page[w].shown EXCEPT ![process[p].card] = "none"]

CardChanged(w, p) ==
    /\ \E change \in Changes : Answered(w, p, change)
    /\ SetPage(w, IF process[p].ok THEN [page[w] EXCEPT !.shown = ShownAfter(w, p)] ELSE page[w])
    /\ Return(p)
    /\ UNCHANGED <<tableVars, form>>

-----------------------------------------------------------------------------
(* The profile.                                                            *)

\* The effect of the page, and the end of a save.
RefreshProfile(w, p) ==
    /\ page[w].open
    /\ GetCurrentUser(p, w)
    /\ UNCHANGED pageVars

\* Opening the form takes the user as the draft, so that none is kept before.
ClosedForm(w) == [form[w] EXCEPT !.open = FALSE, !.draft = form[w].user, !.typed = {}]

\* Mutant: what is being edited stays as it is.
ProfileRefreshedBehind(w, p) ==
    /\ Answered(w, p, "user")
    /\ IF process[p].ok
       THEN SetForm(w, [form[w] EXCEPT !.user = process[p].user,
                                       !.draft = IF form[w].open THEN @ ELSE process[p].user])
       ELSE UNCHANGED form
    /\ Return(p)
    /\ UNCHANGED <<tableVars, page>>

\* A new user object fills an open form again; a closed one has no draft of its own.
ProfileRefreshed(w, p) ==
    /\ Answered(w, p, "user")
    /\ LET user == process[p].user
       IN  IF process[p].ok
           THEN SetForm(w, [form[w] EXCEPT !.user = user, !.draft = user, !.typed = {}])
           ELSE UNCHANGED form
    /\ Return(p)
    /\ UNCHANGED <<tableVars, page>>

OpenForm(w) ==
    /\ page[w].open /\ ~form[w].open
    /\ SetForm(w, [form[w] EXCEPT !.open = TRUE])
    /\ UNCHANGED <<tableVars, process, page>>

Type(w, c, v) ==
    /\ form[w].open /\ v # form[w].draft[c]
    /\ SetForm(w, [form[w] EXCEPT !.draft[c] = v, !.typed = @ \cup {c}])
    /\ UNCHANGED <<tableVars, process, page>>

ResetForm(w) ==
    /\ form[w].open /\ ~Saving(w) /\ form[w].draft # form[w].user
    /\ SetForm(w, [form[w] EXCEPT !.draft = form[w].user, !.typed = {}])
    /\ UNCHANGED <<tableVars, process, page>>

\* Only what differs from the user as it is known here.
Changed(w) == [c \in Column |-> IF form[w].draft[c] # form[w].user[c]
                                THEN form[w].draft[c] ELSE "unsaid"]

HandleSaveProfile(w, p) ==
    /\ form[w].open /\ ~Saving(w)
    /\ form[w].draft # form[w].user
    /\ UpdateCurrentUser(p, w, Changed(w), form[w].typed)
    /\ UNCHANGED pageVars

\* The profile is asked for again; then the form closes, whatever that answers.  A page
\* that has been left has no form to close.
ProfileSaved(w, p) ==
    /\ Answered(w, p, "save") \/ Answered(w, p, "left")
    /\ IF process[p].ok
       THEN Begin(p, [Request("user", w, "read_score") EXCEPT !.user = profile])
       ELSE Return(p)
    /\ IF process[p].ok /\ process[p].kind = "save" THEN SetForm(w, ClosedForm(w))
                                                   ELSE UNCHANGED form
    /\ UNCHANGED <<tableVars, page>>

CloseForm(w) ==
    /\ form[w].open
    /\ SetForm(w, ClosedForm(w))
    /\ UNCHANGED <<tableVars, process, page>>

\* The page is left: what happens to the cards shows nowhere.  The user of AuthContext
\* stays, and a profile that was saved is asked for.
Leave(w) ==
    /\ page[w].open
    /\ SetPage(w, Closed)
    /\ SetForm(w, ClosedForm(w))
    /\ process' = [p \in Process |->
                      IF ~Of(w, p) \/ process[p].kind = "user" THEN process[p]
                      ELSE IF process[p].kind = "save" THEN [process[p] EXCEPT !.kind = "left"]
                      ELSE [process[p] EXCEPT !.client = Nobody]]
    /\ UNCHANGED tableVars
=============================================================================
