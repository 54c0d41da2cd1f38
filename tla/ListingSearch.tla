---------------------------- MODULE ListingSearch ----------------------------
(***************************************************************************)
(* ListingSearchIndexService, which brings the index into line with the    *)
(* row, and SearchService, which answers from the index or the database    *)
(* and keeps its answers in Redis for a while.  Every query looked at here *)
(* matches the listing, whatever its text.                                 *)
(***************************************************************************)
EXTENDS ListingTable

\* indexListing reads the row.
IndexRead(p) ==
    /\ At(p, "index_read")
    /\ Begin(p, IF listing.status = "ACTIVE"
                THEN [Idle EXCEPT !.at = "index_write", !.text = listing.text]
                ELSE [Idle EXCEPT !.at = "unindex"])
    /\ UNCHANGED <<listingVars, searchVars>>

IndexWrite(p) ==
    /\ At(p, "index_write")
    /\ document' = process[p].text
    /\ GoTo(p, "invalidate")
    /\ UNCHANGED <<listingVars, cache>>

\* Mutant: the answers that show the listing stay in the cache.
UnindexOnly(p) ==
    /\ At(p, "unindex")
    /\ document' = NoText
    /\ Return(p)
    /\ UNCHANGED <<listingVars, cache>>

\* removeListing.  What is not in the index needs no invalidation (404).
Unindex(p) ==
    /\ At(p, "unindex")
    /\ document' = NoText
    /\ IF document = NoText THEN Return(p) ELSE GoTo(p, "invalidate")
    /\ UNCHANGED <<listingVars, cache>>

Forget(queries) ==
    cache' = [q \in Query |-> IF q \in queries THEN NoAnswer ELSE cache[q]]

\* invalidateSearchCache: the results first, then the suggestions.
Invalidate(p) ==
    /\ \/ /\ At(p, "invalidate")
          /\ Forget(Query \ {"prefix"})
          /\ GoTo(p, "invalidate_prefix")
       \/ /\ At(p, "invalidate_prefix")
          /\ Forget({"prefix"})
          /\ Return(p)
    /\ UNCHANGED <<listingVars, document>>

\* reindexAllActiveListings, run by a script.
Reindex(p) ==
    /\ At(p, "idle")
    /\ listing.status = "ACTIVE"
    /\ IndexIf(p, TRUE)
    /\ UNCHANGED <<listingVars, searchVars>>

-----------------------------------------------------------------------------

Shown == [title |-> listing.text.title, description |-> listing.text.description,
          photos |-> {photo.id : photo \in photos}]

Suggestion(text) == [title |-> text.title, description |-> NoDescription, photos |-> {}]

Answering(p, answer) ==
    Begin(p, [process[p] EXCEPT !.at = "search_store", !.answer = answer])

\* search and autocomplete, when the answer is not in the cache.
Search(p, query) ==
    /\ At(p, "idle")
    /\ cache[query] = NoAnswer
    /\ Begin(p, [Idle EXCEPT !.at = IF query = "letter" THEN "search_database" ELSE "search_index",
                             !.query = query])
    /\ UNCHANGED <<listingVars, searchVars>>

\* Elasticsearch finds the document.  A suggestion is taken from it; a result is
\* read from the database, whatever its status is by then.
SearchHit(p) ==
    /\ At(p, "search_index")
    /\ document # NoText
    /\ IF process[p].query = "prefix" THEN Answering(p, Suggestion(document))
                                      ELSE GoTo(p, "search_hydrate")
    /\ UNCHANGED <<listingVars, searchVars>>

\* Mutant: results are taken from the index.
HydrateFromIndex(p) ==
    /\ At(p, "search_hydrate")
    /\ Answering(p, IF document = NoText THEN Empty
                    ELSE [title |-> document.title, description |-> document.description,
                          photos |-> {}])
    /\ UNCHANGED <<listingVars, searchVars>>

\* hydrateListings
Hydrate(p) ==
    /\ At(p, "search_hydrate")
    /\ Answering(p, IF Exists THEN Shown ELSE Empty)
    /\ UNCHANGED <<listingVars, searchVars>>

\* It does not: words are looked for in the database.
SearchMiss(p) ==
    /\ At(p, "search_index")
    /\ document = NoText
    /\ IF process[p].query = "words" THEN GoTo(p, "search_database") ELSE Answering(p, Empty)
    /\ UNCHANGED <<listingVars, searchVars>>

\* Elasticsearch fails: a search goes to the database, autocomplete answers nothing.
SearchUnavailable(p) ==
    /\ At(p, "search_index")
    /\ IF process[p].query = "prefix" THEN Return(p) ELSE GoTo(p, "search_database")
    /\ UNCHANGED <<listingVars, searchVars>>

\* Mutant: drafts are found too.
SearchAnyStatus(p) ==
    /\ At(p, "search_database")
    /\ Answering(p, IF Exists THEN Shown ELSE Empty)
    /\ UNCHANGED <<listingVars, searchVars>>

\* searchFromDatabase
SearchDatabase(p) ==
    /\ At(p, "search_database")
    /\ Answering(p, IF listing.status = "ACTIVE" THEN Shown ELSE Empty)
    /\ UNCHANGED <<listingVars, searchVars>>

StoreAnswer(p) ==
    /\ At(p, "search_store")
    /\ cache' = [cache EXCEPT ![process[p].query] = process[p].answer]
    /\ Return(p)
    /\ UNCHANGED <<listingVars, document>>

\* The time to live of an answer is over.
Expire(query) ==
    /\ cache[query] # NoAnswer
    /\ Forget({query})
    /\ UNCHANGED <<listingVars, document, process>>

SearchStep(p) ==
    \/ IndexRead(p) \/ IndexWrite(p) \/ Unindex(p) \/ Invalidate(p)
    \/ SearchHit(p) \/ Hydrate(p) \/ SearchMiss(p)
    \/ SearchDatabase(p) \/ StoreAnswer(p)
=============================================================================
