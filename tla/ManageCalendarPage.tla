------------------------- MODULE ManageCalendarPage -------------------------
(***************************************************************************)
(* The calendar of a listing: the months that are shown, the range that is *)
(* selected, and the buttons that block it, unblock it, and after a        *)
(* warning unblock it against the bookings.                                *)
(***************************************************************************)
EXTENDS PageRequests

CONSTANTS
    Month,
    Day         \* the days of the grid that are clicked

ASSUME DayAssumption == Day \subseteq Int

VARIABLES calendar

DayRange == Day \X Day

Calendar == [open : BOOLEAN, isOwner : BOOLEAN,
             month : Month \cup {Nothing},
             slots : Month \cup {Nothing},          \* the month they were asked for
             loading : BOOLEAN,
             start : Day \cup {Nothing}, end : Day \cup {Nothing},
             warning : DayRange \cup {Nothing},     \* what conflictWarning was about
             changed : BOOLEAN]                     \* history: a day was clicked while an
                                                    \* action was pending

CalendarClosed == [open |-> FALSE, isOwner |-> FALSE, month |-> Nothing, slots |-> Nothing,
                   loading |-> FALSE, start |-> Nothing, end |-> Nothing,
                   warning |-> Nothing, changed |-> FALSE]

CalendarTypeOK == calendar \in Calendar
CalendarRequestsOK == RequestTypeOK(Month \cup DayRange, BOOLEAN)
CalendarInit == calendar = CalendarClosed

MetaLoads == {"getOwnedListingForEdit", "getListingDetails"}
Actions == {"checkAvailability", "blockDates", "unblockDates"}
actionPending == Waiting(Actions)

\* Mutant: a range of one day has no end.
SelectedOpen == <<calendar.start, calendar.end>>

\* The day that was clicked first is the end as well, until there is another.
Selected == <<calendar.start, IF calendar.end = Nothing THEN calendar.start ELSE calendar.end>>
PanelShown == calendar.open /\ calendar.isOwner /\ calendar.start # Nothing

Set(change) == calendar' = change
Cleared == [calendar EXCEPT !.start = Nothing, !.end = Nothing, !.warning = Nothing]

-----------------------------------------------------------------------------

OpenCalendar(p, q, m) ==
    /\ ~calendar.open /\ p # q /\ At(p, "idle") /\ At(q, "idle")
    /\ Set([CalendarClosed EXCEPT !.open = TRUE, !.month = m, !.loading = TRUE])
    /\ request' = [request EXCEPT ![p] = Request("getOwnedListingForEdit", Nothing, Nothing),
                                  ![q] = Request("getCalendar", m, Nothing)]

CalendarNewToken(p) ==
    /\ calendar.open
    /\ AskAnew(p, MetaLoads, "getOwnedListingForEdit", Nothing)
    /\ UNCHANGED calendar

\* Who is not the owner of the listing finds it among the public ones.
MetaLoaded(p, outcome) ==
    /\ Asked(p, "getOwnedListingForEdit") \/ Asked(p, "getListingDetails")
    /\ Live(p)
    /\ IF request[p].kind = "getOwnedListingForEdit" /\ outcome = "missing"
       THEN Begin(p, Request("getListingDetails", Nothing, Nothing)) /\ UNCHANGED calendar
       ELSE /\ Set([calendar EXCEPT !.isOwner =
                       outcome = "ok" /\ request[p].kind = "getOwnedListingForEdit"])
            /\ Return(p)

ShowMonth(p, m) ==
    /\ calendar.open /\ m # calendar.month
    /\ Set([calendar EXCEPT !.month = m, !.loading = TRUE])
    /\ Ask(p, "getCalendar", m, Nothing)

\* Nothing is cancelled, and the first answer ends the loading.
CalendarCame(p, outcome) ==
    /\ Asked(p, "getCalendar")
    /\ Set([calendar EXCEPT !.slots = IF outcome = "ok" THEN request[p].about ELSE @,
                            !.loading = FALSE])
    /\ Return(p)

-----------------------------------------------------------------------------

\* The first click starts a range, the second ends it, in whichever order.
AfterClick(d) ==
    IF calendar.start = Nothing \/ calendar.end # Nothing
    THEN [calendar EXCEPT !.start = d, !.end = Nothing]
    ELSE IF calendar.start > d
    THEN [calendar EXCEPT !.start = d, !.end = calendar.start]
    ELSE [calendar EXCEPT !.end = d]

\* Mutant: the warning stays when the range changes.
DayClickKeepsWarning(d) ==
    /\ calendar.open /\ calendar.isOwner /\ ~calendar.loading
    /\ Set([AfterClick(d) EXCEPT !.changed = @ \/ actionPending])
    /\ UNCHANGED request

HandleDayClick(d) ==
    /\ calendar.open /\ calendar.isOwner /\ ~calendar.loading
    /\ Set([AfterClick(d) EXCEPT !.warning = Nothing, !.changed = @ \/ actionPending])
    /\ UNCHANGED request

HandleBlock(p) ==
    /\ PanelShown /\ calendar.warning = Nothing /\ ~actionPending
    /\ Set([calendar EXCEPT !.changed = FALSE])
    /\ Ask(p, "checkAvailability", Selected, Nothing)

\* "Force" is the only button of the warning that unblocks.
HandleUnblock(p) ==
    /\ PanelShown /\ ~actionPending
    /\ Set([calendar EXCEPT !.changed = @ /\ calendar.warning # Nothing])
    /\ Ask(p, "unblockDates", Selected, calendar.warning # Nothing)

ClearSelection ==
    /\ PanelShown /\ ~actionPending
    /\ Set(Cleared)
    /\ UNCHANGED request

\* The range that was checked is blocked.
Checked(p, outcome) ==
    /\ Asked(p, "checkAvailability")
    /\ IF outcome = "ok" THEN Begin(p, Request("blockDates", request[p].about, Nothing))
                         ELSE Return(p)
    /\ IF outcome = "conflict" THEN Set([calendar EXCEPT !.warning = request[p].about])
                               ELSE UNCHANGED calendar

\* The selection that is there now is cleared, or warned about.
DatesChanged(p, outcome) ==
    /\ Asked(p, "blockDates") \/ Asked(p, "unblockDates")
    /\ CASE outcome = "ok" -> Set(Cleared)
         [] outcome = "conflict" ->
               Set([calendar EXCEPT !.warning = request[p].about])
         [] OTHER -> UNCHANGED calendar
    /\ Return(p)

LeaveCalendar == calendar.open /\ Set(CalendarClosed) /\ Abandon({})

-----------------------------------------------------------------------------

CalendarIgnores(p) == Ignored(p, MetaLoads)

CalendarAsks(p) ==
    \/ \E m \in Month : ShowMonth(p, m)
    \/ CalendarNewToken(p) \/ HandleBlock(p) \/ HandleUnblock(p)

\* Bookings are no conflict for one who forces.
CalendarAnswered(p, outcome) ==
    \/ outcome \in {"ok", "missing", "error"} /\ MetaLoaded(p, outcome)
    \/ outcome \in {"ok", "error"} /\ CalendarCame(p, outcome)
    \/ outcome \in {"ok", "conflict", "error"} /\ Checked(p, outcome)
    \/ /\ outcome \in {"ok", "error"} \/ (outcome = "conflict" /\ request[p].data # TRUE)
       /\ DatesChanged(p, outcome)

CalendarTouched == LeaveCalendar \/ ClearSelection \/ \E d \in Day : HandleDayClick(d)

-----------------------------------------------------------------------------
(* What the page shows.                                                    *)

\* When the months were loaded one after the other, the days have the states of the
\* month above them.
MonthIsCurrent ==
    calendar.open /\ ~Waiting({"getCalendar"}) => calendar.slots = calendar.month

\* What a forced unblocking would unblock is what the warning was about, unless a day was
\* clicked while the action was pending that led to the warning.
ForcedRangeWasWarned ==
    PanelShown /\ calendar.warning # Nothing /\ ~calendar.changed =>
        Selected = calendar.warning

-----------------------------------------------------------------------------
(* Why that is so.                                                         *)

\* One action is pending at a time, and it is about the selected range, unless a day has
\* been clicked since.
Acts(p) == At(p, "asked") /\ request[p].kind \in Actions

CalendarInv ==
    /\ \A p \in Process : ~At(p, "answer") /\ (Live(p) => At(p, "asked"))
    /\ ~calendar.open => CalendarInit /\ \A p \in Process : At(p, "idle")
    /\ \A p \in Process : Asked(p, "getCalendar") => Live(p) /\ request[p].about \in Month
    /\ \A p \in Process : Acts(p) =>
          /\ Live(p) /\ request[p].about \in DayRange
          /\ ~calendar.changed => calendar.start # Nothing /\ request[p].about = Selected
    /\ \A p, q \in Process : Acts(p) /\ Acts(q) => p = q
    /\ calendar.warning # Nothing /\ ~calendar.changed =>
          calendar.start # Nothing /\ Selected = calendar.warning

\* When requests did not overlap, one month at most is on its way, the one that is shown.
MonthInv ==
    /\ \A p, q \in Process : Asked(p, "getCalendar") /\ Asked(q, "getCalendar") => p = q
    /\ \A p \in Process : Asked(p, "getCalendar") => request[p].about = calendar.month
    /\ (\A p \in Process : ~Asked(p, "getCalendar")) => calendar.slots = calendar.month
=============================================================================
