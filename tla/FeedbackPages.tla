---------------------------- MODULE FeedbackPages ----------------------------
(***************************************************************************)
(* Loading the whole feedback list page by page while other tabs change    *)
(* it.  Sources: loadAllFeedback of persistent-recommendation-flow.tsx,    *)
(* FeedbackService.list and replace, InteractionRepository.                *)
(*                                                                         *)
(* rows[g] holds the times of the active rows of game g.  A change keeps   *)
(* some of them and may add rows of now, so a game moves to the front of   *)
(* the list when rows are added and back when its latest row is closed.    *)
(* Operators named Mut_... are seeded bugs the specification never uses.   *)
(***************************************************************************)
EXTENDS Integers, FiniteSets

CONSTANTS Games,      \* game ids: naturals, the tie-break of the order
          PageSize,   \* FEEDBACK_PAGE_SIZE
          MaxItems,   \* MAX_REHYDRATED_FEEDBACK_ITEMS
          InitialRows, \* the lists a load may start with: functions Games -> times
          MaxTime     \* bound: one change at each of the times 1 .. MaxTime

\* A load begins at the time 0, with rows of earlier times.
ASSUME PagesAssumption ==
    /\ Games \subseteq Nat /\ IsFiniteSet(Games)
    /\ PageSize \in Nat \ {0} /\ MaxItems \in Nat
    /\ InitialRows \subseteq [Games -> SUBSET {t \in Int : t <= 0}]

VARIABLES rows, now, loader,
          untouched,   \* history: games whose feedback has not changed since the load began
          twice        \* history: some game's feedback has changed more than once since then

vars == <<rows, now, loader, untouched, twice>>

Listed == {g \in Games : rows[g] # {}}

Latest(g) == CHOOSE t \in rows[g] : \A u \in rows[g] : u <= t

\* ORDER BY occurred_at DESC, game id
Before(g, h) == Latest(g) > Latest(h) \/ (Latest(g) = Latest(h) /\ g < h)

Rank(g) == 1 + Cardinality({h \in Listed : Before(h, g)})

\* The items and the total of page n, read in one snapshot.
Page(n) == [total |-> Cardinality(Listed),
            items |-> {g \in Listed : (n - 1) * PageSize < Rank(g) /\ Rank(g) <= n * PageSize}]

Loading == [page : Nat, total : Nat, got : SUBSET Games,
            result : {"loading", "accepted", "rejected", "abandoned"}]

-----------------------------------------------------------------------------
\* Another tab's change while the load runs, replace_game_state: an identical replacement changes nothing; clear keeps no row.
Change(g) ==
    /\ now < MaxTime /\ loader.result = "loading"
    /\ now' = now + 1
    /\ \E kept \in SUBSET rows[g], added \in {{}, {now'}} :
         /\ kept \cup added # rows[g]
         /\ rows' = [rows EXCEPT ![g] = kept \cup added]
    /\ untouched' = untouched \ {g}
    /\ twice' = (twice \/ g \notin untouched)
    /\ UNCHANGED loader

\* Math.max(1, Math.ceil(total / FEEDBACK_PAGE_SIZE))
ExpectedPages(total) == IF total = 0 THEN 1 ELSE (total + PageSize - 1) \div PageSize

\* The first page fixes the total; a page with another one rejects the load.
Acceptable(page) == IF loader.page = 1 THEN page.total <= MaxItems ELSE page.total = loader.total

Mut_AnyNumber(l) == "accepted"
\* feedbackByGame.size !== firstPage.total: an item came twice.
Conclusion(l) == IF Cardinality(l.got) = l.total THEN "accepted" ELSE "rejected"

ReadPage ==
    /\ loader.result = "loading"
    /\ LET page == Page(loader.page)
           next == [page |-> loader.page + 1, total |-> page.total,
                    got |-> loader.got \cup page.items, result |-> "loading"]
       IN  \/ /\ ~Acceptable(page)
              /\ loader' = [loader EXCEPT !.result = "rejected"]
           \/ /\ Acceptable(page) /\ loader.page < ExpectedPages(page.total)
              /\ loader' = next
           \/ /\ Acceptable(page) /\ loader.page >= ExpectedPages(page.total)
              /\ loader' = [next EXCEPT !.result = Conclusion(next)]
    /\ UNCHANGED <<rows, now, untouched, twice>>

\* A request fails, or the page has moved on to another epoch.
GiveUp ==
    /\ loader.result = "loading"
    /\ \E result \in {"rejected", "abandoned"} : loader' = [loader EXCEPT !.result = result]
    /\ UNCHANGED <<rows, now, untouched, twice>>

Init ==
    /\ rows \in InitialRows
    /\ now = 0
    /\ loader = [page |-> 1, total |-> 0, got |-> {}, result |-> "loading"]
    /\ untouched = Games
    /\ twice = FALSE

Next == (\E g \in Games : Change(g)) \/ ReadPage \/ GiveUp

Spec == Init /\ [][Next]_vars

-----------------------------------------------------------------------------
\* The loader stays within the pages a list of all games can have.
TypeOK == /\ rows \in [Games -> SUBSET {t \in Int : t <= now}]
          /\ loader \in Loading
          /\ loader.page > 2 => (loader.page - 2) * PageSize < Cardinality(Games)
          /\ untouched \subseteq Games /\ twice \in BOOLEAN

\* A list that is accepted has as many items as the server counted on every page and, as
\* long as no game changed twice under the load, misses none that did not change.  (A game
\* that moves to the front and falls back between two pages can hide another one: the
\* totals agree and no item comes twice.)
ListIsComplete ==
    loader.result = "accepted" =>
        /\ Cardinality(loader.got) = loader.total
        /\ ~twice => (untouched \cap Listed) \subseteq loader.got
=============================================================================
