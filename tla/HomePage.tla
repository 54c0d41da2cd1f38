------------------------------ MODULE HomePage ------------------------------
(***************************************************************************)
(* The catalog on the home page: the words that are searched for, the      *)
(* suggestions for them, and the category that is chosen.                  *)
(***************************************************************************)
EXTENDS PageRequests

CONSTANTS Words, Category

VARIABLES catalog

\* What a search is for: words, or none, in a category, or in all.
Query == (Words \cup {Nothing}) \X (Category \cup {Nothing})

ASSUME QueryAssumption == Nothing \notin Query

Catalog == [open : BOOLEAN,
            q : Words \cup {Nothing},
            categoryId : Category \cup {Nothing},
            items : Query \cup {Nothing},               \* the search they came from
            timer : BOOLEAN,                            \* of the suggestions
            suggestions : Words \cup {Nothing},         \* the words they are for
            autocompleteOpen : BOOLEAN]

CatalogClosed == [open |-> FALSE, q |-> Nothing, categoryId |-> Nothing, items |-> Nothing,
                  timer |-> FALSE, suggestions |-> Nothing, autocompleteOpen |-> FALSE]

CatalogTypeOK == catalog \in Catalog
CatalogRequestsOK == RequestTypeOK(Query, {})
CatalogInit == catalog = CatalogClosed

LoadCatalog(p, q, categoryId) == Ask(p, "searchCatalog", <<q, categoryId>>, Nothing)

OpenHome(p) ==
    /\ ~catalog.open
    /\ catalog' = [CatalogClosed EXCEPT !.open = TRUE]
    /\ LoadCatalog(p, Nothing, Nothing)

\* Nothing is cancelled: the search that is answered last is shown.
CatalogCame(p, outcome) ==
    /\ Asked(p, "searchCatalog")
    /\ catalog' = [catalog EXCEPT !.items = IF outcome = "ok" THEN request[p].about ELSE Nothing]
    /\ Return(p)

-----------------------------------------------------------------------------

\* The words as they are now.  New ones start the timer again.
Typed(w) == [catalog EXCEPT !.q = w,
                            !.timer = IF w = catalog.q THEN @ ELSE w # Nothing]

HandleSearchInputChange(w) ==
    /\ catalog.open /\ w # catalog.q
    /\ catalog' = IF w = Nothing
                  THEN [Typed(w) EXCEPT !.suggestions = Nothing, !.autocompleteOpen = FALSE]
                  ELSE Typed(w)
    /\ UNCHANGED request

TimerFires(p) ==
    /\ catalog.timer
    /\ catalog' = [catalog EXCEPT !.timer = FALSE]
    /\ Ask(p, "autocompleteCatalog", <<catalog.q, Nothing>>, Nothing)

\* The list opens whatever the words are by now.
SuggestionsCame(p, outcome) ==
    /\ Asked(p, "autocompleteCatalog")
    /\ catalog' = [catalog EXCEPT !.suggestions = IF outcome = "ok" THEN request[p].about[1] ELSE Nothing,
                                  !.autocompleteOpen = (outcome = "ok")]
    /\ Return(p)

OnSubmitSearch(p) ==
    /\ catalog.open
    /\ catalog' = [catalog EXCEPT !.autocompleteOpen = FALSE]
    /\ LoadCatalog(p, catalog.q, catalog.categoryId)

\* The words become the suggested ones, but the search still has those from before.
ApplyAutocomplete(p, w) ==
    /\ catalog.open /\ catalog.autocompleteOpen
    /\ catalog' = [Typed(w) EXCEPT !.autocompleteOpen = FALSE]
    /\ LoadCatalog(p, catalog.q, catalog.categoryId)

Toggled(c) == IF catalog.categoryId = c THEN Nothing ELSE c

ToggleCategory(p, c) ==
    /\ catalog.open
    /\ catalog' = [catalog EXCEPT !.categoryId = Toggled(c)]
    /\ LoadCatalog(p, catalog.q, Toggled(c))

LeaveHome == catalog.open /\ catalog' = CatalogClosed /\ Abandon({})

-----------------------------------------------------------------------------

CatalogAsks(p) ==
    \/ OpenHome(p) \/ TimerFires(p) \/ OnSubmitSearch(p)
    \/ \E w \in Words : ApplyAutocomplete(p, w)
    \/ \E c \in Category : ToggleCategory(p, c)

CatalogAnswered(p, outcome) ==
    /\ outcome \in {"ok", "error"}
    /\ CatalogCame(p, outcome) \/ SuggestionsCame(p, outcome)

CatalogTouched ==
    LeaveHome \/ \E w \in Words \cup {Nothing} : HandleSearchInputChange(w)

\* When the searches came one after the other, the catalog is that of the category that
\* is marked.
CategoryIsCurrent ==
    catalog.open /\ ~Waiting({"searchCatalog"}) =>
        catalog.items # Nothing /\ catalog.items[2] = catalog.categoryId

-----------------------------------------------------------------------------
(* Why that is so.                                                         *)

CatalogInv ==
    \A p \in Process : /\ ~At(p, "answer")
                       /\ At(p, "asked") => Live(p) /\ request[p].about \in Query

\* When requests did not overlap and none failed, the search that is on its way, or else
\* the catalog, is of the category that is marked.
CategoryInv ==
    /\ \A p, q \in Process : ~At(p, "idle") /\ ~At(q, "idle") => p = q
    /\ \A p \in Process : Asked(p, "searchCatalog") => request[p].about[2] = catalog.categoryId
    /\ catalog.open /\ (\A p \in Process : ~Asked(p, "searchCatalog")) =>
          catalog.items # Nothing /\ catalog.items[2] = catalog.categoryId
=============================================================================
