--------------------------- MODULE CatalogBrowser ---------------------------
(***************************************************************************)
(* The filters of /games: the address holds the query, a filter patches    *)
(* the latest query the component knows of and pushes the result to the    *)
(* router.  Source: features/catalog/catalog-browser.tsx, lib/routes.ts.   *)
(* The router is external: a push is rendered some time later, and a later *)
(* navigation discards it.  The result list is a KeyedFetch of the query.  *)
(***************************************************************************)
EXTENDS KeyedFetch

CONSTANTS Facets, Values, NoValue, Pages,
          NoQuery,
          Discards,    \* whether a link or the back button can overtake a push
          MaxPushes    \* bound on navigations

\* Facets stands for search text, taxonomies and sort.
Queries == [facets : [Facets -> Values \cup {NoValue}], page : Pages]
DefaultQuery == [facets |-> [f \in Facets |-> NoValue], page |-> 1]

VARIABLES
    latest,     \* latestQueryRef
    pending,    \* pendingHrefRef
    push,       \* a router.push that is not rendered yet
    stale,      \* the query effect has not run since the query changed
    pushes

vars == <<fetchVars, latest, pending, push, stale, pushes>>

\* const query = queryResult.ok ? queryResult.value : defaultQuery
Query == IF wanted = Invalid THEN DefaultQuery ELSE wanted

-----------------------------------------------------------------------------
\* A filter, the sort order or the search form: the patch starts from the latest query.
Navigate ==
    /\ pushes < MaxPushes /\ wanted # Invalid
    /\ \E f \in Facets, value \in Values \cup {NoValue} :
         LET next == [facets |-> [latest.facets EXCEPT ![f] = value], page |-> 1]
         IN  latest' = next /\ pending' = next /\ push' = next
    /\ pushes' = pushes + 1
    /\ UNCHANGED <<fetchVars, stale>>

\* The router renders the pushed address.
Render ==
    /\ push # NoQuery
    /\ Want(push)
    /\ push' = NoQuery
    /\ stale' = (stale \/ push # wanted)
    /\ UNCHANGED <<latest, pending, pushes>>

\* A link ("Clear all", a page of the results) or the back and forward buttons: another
\* address, without navigate().
Elsewhere ==
    /\ pushes < MaxPushes
    /\ push = NoQuery \/ Discards
    /\ \E q \in Queries \cup {Invalid} : q # wanted /\ Want(q)
    /\ push' = NoQuery
    /\ stale' = TRUE
    /\ pushes' = pushes + 1
    /\ UNCHANGED <<latest, pending>>

Mut_AlwaysSync ==
    /\ stale
    /\ stale' = FALSE
    /\ latest' = Query /\ pending' = NoQuery
    /\ UNCHANGED <<fetchVars, push, pushes>>

\* The effect on [query]: it waits for the pushed address before it follows the query.
SyncQuery ==
    /\ stale
    /\ stale' = FALSE
    /\ IF pending # NoQuery /\ pending # Query THEN UNCHANGED <<latest, pending>>
       ELSE latest' = Query /\ pending' = NoQuery
    /\ UNCHANGED <<fetchVars, push, pushes>>

Init ==
    /\ FetchInit
    /\ latest = Query
    /\ pending = NoQuery /\ push = NoQuery
    /\ stale = FALSE
    /\ pushes = 0

Fetches == FetchStep /\ UNCHANGED <<latest, pending, push, stale, pushes>>

BrowserNext == Navigate \/ Render \/ Elsewhere \/ SyncQuery \/ Fetches

BrowserSpec == Init /\ [][BrowserNext]_vars

-----------------------------------------------------------------------------
TypeOK ==
    /\ FetchTypeOK
    /\ latest \in Queries /\ pending \in Queries \cup {NoQuery}
    /\ push \in Queries \cup {NoQuery} /\ stale \in BOOLEAN

\* Rapid clicks compose: while an address is on its way, the next click starts from it
\* and not from the address that is still rendered.
RapidClicksCompose == push # NoQuery => latest = push

\* Why: the query effect, as long as it has to run, finds the address of the push pending.
PushIsPending == push # NoQuery => latest = push /\ (stale => pending = push)

\* "Search, taxonomy filters, sort, and page belong in the URL": with nothing on its way
\* and the effects run, a click changes the query the address shows.
ClickStartsFromAddress ==
    (push = NoQuery /\ ~stale /\ wanted # Invalid) => latest = wanted
=============================================================================
