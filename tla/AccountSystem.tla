---------------------------- MODULE AccountSystem ----------------------------
(***************************************************************************)
(* The account of a user: the windows with its profile page, the outside   *)
(* provider, the daily job and the bookings, on the tables of the backend. *)
(***************************************************************************)
EXTENDS ProfilePage, IdentityVerification, TrustScore

CONSTANTS Workload      \* the sets of things that happen in one behaviour

VARIABLES
    workload,       \* what happens in this behaviour
    calm,           \* history: no two requests were in flight together, and none failed
    missed          \* history: the windows whose list of cards others have changed since

vars == <<tableVars, process, pageVars, workload, calm, missed>>

\* What the user, the provider, the bookings and the job do, and what may go wrong.
Happening == {"cards", "api", "profile", "verify", "escalate", "deals", "delete", "job",
              "leave", "fail"}

ASSUME WorkloadAssumption == Workload \subseteq SUBSET Happening

TypeOK == /\ TableTypeOK
          /\ PageTypeOK
          /\ workload \subseteq Happening
          /\ calm \in BOOLEAN
          /\ missed \subseteq Window

Init == /\ cards = [c \in Card |-> NoRow]
        /\ verification = [status |-> "NONE", expired |-> FALSE]
        /\ deals = [completed |-> 0, late |-> 0]
        /\ score = NoScore
        /\ profile = [c \in Column |-> CHOOSE v \in Value : TRUE]
        /\ process = [p \in Process |-> Idle]
        /\ PageInit
        /\ workload \in Workload
        /\ calm = TRUE
        /\ missed = {}

Does(happening) == happening \in workload

\* bound: this happens once
Once(happening) == Does(happening) /\ workload' = workload \ {happening}

CalmStart == calm' = (calm /\ \A q \in Process : At(q, "idle"))

-----------------------------------------------------------------------------

Continue(p) == \/ ContinueCards(p) \/ ContinueVerification(p) \/ ContinueScore(p)
               \/ WriteUser(p)

\* Windows that did not ask for a change of the cards do not learn of it.
ContinueStep(p) ==
    /\ Continue(p)
    /\ missed' = IF cards' = cards THEN missed ELSE missed \cup (Window \ {process[p].client})
    /\ UNCHANGED <<pageVars, workload, calm>>

\* Nobody waits for the answer.
AnswerDropped(p) == /\ At(p, "answer") /\ process[p].client = Nobody
                    /\ Return(p)
                    /\ UNCHANGED <<tableVars, pageVars, workload, calm, missed>>

\* A call of the database fails, or the process ends.
FailStep(p) == /\ Once("fail")
               /\ process[p].at \notin {"idle", "answer"}
               /\ Answer(p, FALSE)
               /\ calm' = FALSE
               /\ UNCHANGED <<tableVars, pageVars, missed>>

\* Requests that no window of the model sends: other clients, the provider.
OtherStep(p) ==
    /\ \/ /\ Once("api") /\ Does("cards")
          /\ \E c \in Card : AddCard(p, Nobody, c, "unsaid")
       \/ /\ Once("api") /\ Does("profile")
          /\ \E c \in Column, v \in Value :
                UpdateCurrentUser(p, Nobody, [EmptyBody EXCEPT ![c] = v], {c})
       \/ /\ Does("verify") /\ UNCHANGED workload
          /\ Initiate(p) \/ \E isError \in BOOLEAN : Callback(p, isError)
    /\ CalmStart
    /\ UNCHANGED <<pageVars, missed>>

EscalateStep(p) == /\ Once("escalate") /\ Escalate(p)
                   /\ CalmStart
                   /\ UNCHANGED <<pageVars, missed>>

JobStep(p) == /\ Does("job") /\ Recalculate(p)
              /\ CalmStart
              /\ UNCHANGED <<pageVars, workload, missed>>

DealStep == \/ /\ Does("deals")
               /\ SettleLate \/ \E isLate \in BOOLEAN : CompleteDeal(isLate)
               /\ UNCHANGED <<pageVars, workload, calm, missed>>
            \/ /\ Once("delete")
               /\ \E isLate \in BOOLEAN : DeleteDeal(isLate)
               /\ UNCHANGED <<pageVars, calm, missed>>

TimeStep == ExpireAttempt /\ UNCHANGED <<pageVars, workload, calm, missed>>

RequestStep(w, p) ==
    /\ \/ /\ Does("cards")
          /\ \/ LoadCards(w, p)
             \/ \E c \in Card : \/ \E flag \in {"yes", "no"} : HandleAttachCard(w, p, c, flag)
                                \/ HandleSetDefaultCard(w, p, c)
                                \/ HandleRemoveCard(w, p, c)
       \/ Does("profile") /\ (RefreshProfile(w, p) \/ HandleSaveProfile(w, p))
    /\ CalmStart
    /\ UNCHANGED <<workload, missed>>

AnswerStep(w, p) ==
    \/ CardsLoaded(w, p) /\ missed' = missed \ {w} /\ UNCHANGED <<workload, calm>>
    \/ /\ CardChanged(w, p) \/ ProfileRefreshed(w, p) \/ ProfileSaved(w, p)
       /\ UNCHANGED <<workload, calm, missed>>

FormStep(w) ==
    /\ \/ Mount(w)
       \/ Does("profile") /\ (OpenForm(w) \/ ResetForm(w) \/ CloseForm(w))
       \/ Does("profile") /\ \E c \in Column, v \in Value : Type(w, c, v)
    /\ UNCHANGED <<workload, calm, missed>>

LeaveStep(w) == Once("leave") /\ Leave(w) /\ UNCHANGED <<calm, missed>>

Next == \/ DealStep \/ TimeStep
        \/ \E p \in Process : \/ ContinueStep(p) \/ AnswerDropped(p) \/ FailStep(p)
                              \/ OtherStep(p) \/ EscalateStep(p) \/ JobStep(p)
        \/ \E w \in Window : \/ FormStep(w) \/ LeaveStep(w)
                             \/ \E p \in Process : RequestStep(w, p) \/ AnswerStep(w, p)

Spec == Init /\ [][Next]_vars

\* Requests are answered, and the job comes to the user every day.
FairSpec == /\ Spec
            /\ \A p \in Process : WF_vars(ContinueStep(p) \/ AnswerDropped(p))
            /\ \A p \in Process, w \in Window : WF_vars(AnswerStep(w, p))
            /\ SF_vars(\E p \in Process : JobStep(p))

-----------------------------------------------------------------------------
(* Safety.                                                                 *)

\* When one request was made after the other, at most one card is the default one and
\* it is attached; and a window shows the cards there are, and none as the default one
\* that is not, as long as no other client has changed them since the list was loaded.
Quiet(w) == ~page[w].loading /\ \A p \in Process : ~Of(w, p)
Tells(shown) == /\ {c \in Card : shown[c] # "none"} = Attached
                /\ {c \in Card : shown[c] = "default"} \subseteq Defaults
OneDefault == /\ Defaults \subseteq Attached
              /\ \A c, d \in Defaults : c = d
CalmCards ==
    calm => /\ OneDefault
            /\ \A w \in Window : page[w].open /\ Quiet(w) /\ w \notin missed => Tells(page[w].shown)

\* A save changes only columns that were typed in, in the form it came from: it undoes
\* nothing that another window has saved meanwhile, however the profile was refreshed
\* while the form was open.
SavesWhatWasTyped ==
    [][\A c \in Column : profile'[c] # profile[c] =>
          \E p \in Process : At(p, "save_write") /\ c \in process[p].typed]_vars

\* The numbers of a score belong together although the bookings are read by two
\* queries, between which they change.
ScoreAddsUp == /\ score.successfulDeals + score.lateReturns = score.totalDeals
               /\ score.currentScore \in 0..100

\* Why they hold: a callback has an outcome to write, a save is of columns that were
\* typed in, and so is what differs in a form.
Fits(f) == /\ f.at = "callback_write" => f.outcome # "none"
           /\ f.at = "save_write" => \A c \in Column : f.body[c] # "unsaid" => c \in f.typed

IInv == /\ TypeOK
        /\ \A p \in Process : Fits(process[p])
        /\ \A w \in Window, c \in Column : form[w].draft[c] # form[w].user[c] => c \in form[w].typed
        /\ ScoreAddsUp

-----------------------------------------------------------------------------
(* Why the cards are right as long as it is calm.  A request is alone, so  *)
(* that what it has read stays true until it is answered; and a window     *)
(* tells of the cards what there is, or what was there before the change   *)
(* whose answer it waits for.                                              *)

Alone == \A p, q \in Process : ~At(p, "idle") /\ ~At(q, "idle") => p = q

\* Where a request for the cards can be.
Work == [list    |-> {"list"},
         attach  |-> {"attach_find", "attach_count", "attach_begin", "attach_commit",
                      "reattach_begin", "reattach_commit"},
         default |-> {"default_begin", "default_commit"},
         remove  |-> {"remove_begin", "remove_commit"}]

Stage(f) ==
    /\ \A kind \in DOMAIN Work : f.at # "answer" => (f.kind = kind <=> f.at \in Work[kind])
    /\ f.kind \in Changes => f.card \in Card
    /\ f.at \in {"attach_count", "attach_begin", "attach_commit"} => cards[f.card].status = "NONE"
    /\ f.at \in {"reattach_begin", "reattach_commit"} => cards[f.card].status = "REVOKED"
    /\ f.at \in Work["default"] => f.isDefault /\ f.card \in Attached
    /\ f.at \in {"attach_commit", "reattach_commit", "default_commit"} =>
          f.clear = IF f.isDefault THEN Defaults ELSE {}
    /\ f.at \in Work["remove"] => f.isDefault = cards[f.card].isDefault /\ f.card \in Attached
    /\ f.at = "remove_begin" => f.next = NoCard
    /\ f.at = "remove_commit" => IF f.isDefault /\ Attached # {f.card}
                                 THEN f.next \in Attached \ {f.card} ELSE f.next = NoCard
    /\ f.kind = "list" /\ f.at = "answer" => f.ok /\ Tells(f.shown)

\* The cards have changed, and the window does not know yet.
Pending(w, p) == \E change \in Changes : Answered(w, p, change) /\ process[p].ok

UpToDate(w) == /\ (\A p \in Process : ~Pending(w, p)) => Tells(page[w].shown)
               /\ \A p \in Process : Pending(w, p) => Tells(ShownAfter(w, p))

CalmInv ==
    calm => /\ Alone
            /\ OneDefault
            /\ \A p \in Process : Stage(process[p])
            /\ \A w \in Window : page[w].open /\ ~page[w].loading /\ w \notin missed => UpToDate(w)

-----------------------------------------------------------------------------
(* Liveness.                                                               *)

Current == [verified |-> verification.status = "VERIFIED",
            total |-> deals.completed, late |-> deals.late]

\* Unless the bookings and the verification change for ever, the score comes to say what
\* they say: a late write of an old calculation, or a verification that was taken back
\* without one, is corrected by the daily job.
ScoreCatchesUp ==
    Does("job") => \/ []<><<Current' # Current>>_vars
                   \/ <>[](score = Calculated(Current))
=============================================================================
