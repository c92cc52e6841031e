------------------------- MODULE RecommendationForm -------------------------
(***************************************************************************)
(* The request-only recommendation form: load the options, select, review, *)
(* submit, read the results, adjust or start over.  Source:                *)
(* features/recommendations/recommendation-flow.tsx.                       *)
(* Mut_... operators are seeded bugs the specification never uses.         *)
(***************************************************************************)
EXTENDS Integers, FiniteSets

CONSTANTS
    Families, Primary,   \* games, genres, tags, platforms; all but platforms give context
    Items, FamilyOf,     \* what can be chosen
    Paged, PageLength,   \* families of which the form has only the first page: games
    Limit,               \* choices per family
    NoSelection,
    MaxSubmits, MaxLoads \* bounds

VARIABLES
    options,     \* [loading, error, have]: what can be chosen from
    awaited,     \* families of the running options load that have not settled
    fetched,     \* families that have settled with a list
    listed,      \* what these lists hold
    step,        \* "select", "review" or "results"
    selection,   \* gameIds, genres, tags, platforms
    result,      \* the selection the results were computed for
    submitting, failed,
    key,         \* submissionKey
    calls,       \* submissions not settled: [key, body, aborted]
    loads

optionVars == <<options, awaited, fetched, listed, loads>>
formVars   == <<step, selection, result, submitting, failed, key, calls>>
vars == <<optionVars, formVars>>

-----------------------------------------------------------------------------
\* The options load: four requests, each settling on its own, then one update.
StartLoad == awaited' = Families /\ fetched' = {} /\ listed' = {}

Of(f) == {i \in Items : FamilyOf[i] = f}

\* What the API can answer: the catalog only grows (the seeder deletes nothing), so a list
\* holds what the last one did, unless it is the first page of a longer one.
Lists(f) == {l \in SUBSET Of(f) : /\ f \in Paged => Cardinality(l) <= PageLength
                                  /\ \/ options.have \cap Of(f) \subseteq l
                                     \/ f \in Paged /\ Cardinality(l) = PageLength}

\* A family that fails to load keeps the options it has.
Mut_FailureEmpties(families) == {}
Kept(families) == {i \in options.have : FamilyOf[i] \notin families}

\* The last of the four puts the options of all in place.
Settled(families, lists) ==
    IF awaited' # {} THEN fetched' = families /\ listed' = lists /\ UNCHANGED options
    ELSE /\ fetched' = {} /\ listed' = {}
         /\ options' = [loading |-> FALSE, error |-> families # Families,
                        have |-> Kept(families) \cup lists]

OptionSettles(f) ==
    /\ f \in awaited
    /\ awaited' = awaited \ {f}
    /\ \/ Settled(fetched, listed)
       \/ \E l \in Lists(f) : Settled(fetched \cup {f}, listed \cup l)
    /\ UNCHANGED <<loads, formVars>>

RetryOptions ==
    /\ options.error /\ ~options.loading /\ step = "select" /\ loads < MaxLoads
    /\ loads' = loads + 1
    /\ options' = [options EXCEPT !.loading = TRUE]
    /\ StartLoad
    /\ UNCHANGED formVars

\* hasUsableOptions: without it a load or an error is shown instead of the form.
Usable == \E i \in options.have : FamilyOf[i] \in Primary

Rendered == Usable \/ ~(options.loading \/ options.error)

HasPrimaryContext == \E i \in selection : FamilyOf[i] \in Primary

-----------------------------------------------------------------------------
\* toggleNumber and toggleString: remove, or add below the limit.
Toggle(i) ==
    /\ step = "select" /\ Rendered /\ i \in options.have
    /\ \/ i \in selection /\ selection' = selection \ {i}
       \/ /\ i \notin selection
          /\ Cardinality({j \in selection : FamilyOf[j] = FamilyOf[i]}) < Limit
          /\ selection' = selection \cup {i}
    /\ UNCHANGED <<optionVars, step, result, submitting, failed, key, calls>>

Review ==
    /\ step = "select" /\ Rendered /\ HasPrimaryContext
    /\ step' = "review"
    /\ UNCHANGED <<optionVars, selection, result, submitting, failed, key, calls>>

Edit ==
    /\ step = "review" /\ ~submitting
    /\ step' = "select"
    /\ UNCHANGED <<optionVars, selection, result, submitting, failed, key, calls>>

Adjust ==
    /\ step = "results"
    /\ step' = "select"
    /\ UNCHANGED <<optionVars, selection, result, submitting, failed, key, calls>>

Aborted == {[c EXCEPT !.aborted = TRUE] : c \in calls}

\* A second click can come before the button is rendered disabled.
Submit ==
    /\ step = "review" /\ HasPrimaryContext /\ key < MaxSubmits
    /\ key' = key + 1
    /\ calls' = Aborted \cup {[key |-> key + 1, body |-> selection, aborted |-> FALSE]}
    /\ submitting' = TRUE /\ failed' = FALSE
    /\ UNCHANGED <<optionVars, step, selection, result>>

StartOver ==
    /\ step \in {"select", "review", "results"} /\ Rendered /\ key < MaxSubmits
    /\ key' = key + 1
    /\ calls' = Aborted
    /\ selection' = {} /\ result' = NoSelection
    /\ submitting' = FALSE /\ failed' = FALSE /\ step' = "select"
    /\ UNCHANGED optionVars

Mut_AnyAnswer(c) == TRUE
\* !controller.signal.aborted && key === submissionKey.current
Heard(c) == ~c.aborted /\ c.key = key

Answer(c) ==
    /\ c \in calls
    /\ calls' = calls \ {c}
    /\ \/ /\ Heard(c)
          /\ \/ result' = c.body /\ step' = "results" /\ UNCHANGED failed
             \/ failed' = TRUE /\ UNCHANGED <<result, step>>
       \/ ~Heard(c) /\ UNCHANGED <<result, step, failed>>
    /\ submitting' = IF c.key = key THEN FALSE ELSE submitting
    /\ UNCHANGED <<optionVars, selection, key>>

Init ==
    /\ options = [loading |-> TRUE, error |-> FALSE, have |-> {}]
    /\ awaited = Families /\ fetched = {} /\ listed = {} /\ loads = 1
    /\ step = "select" /\ selection = {} /\ result = NoSelection
    /\ submitting = FALSE /\ failed = FALSE /\ key = 0 /\ calls = {}

Next == \/ \E f \in Families : OptionSettles(f)
        \/ RetryOptions \/ Review \/ Edit \/ Adjust \/ Submit \/ StartOver
        \/ \E i \in Items : Toggle(i)
        \/ \E c \in calls : Answer(c)

Spec == Init /\ [][Next]_vars

-----------------------------------------------------------------------------
TypeOK ==
    /\ options \in [loading : BOOLEAN, error : BOOLEAN, have : SUBSET Items]
    /\ awaited \subseteq Families /\ fetched \subseteq Families /\ listed \subseteq Items
    /\ step \in {"select", "review", "results"} /\ selection \subseteq Items
    /\ submitting \in BOOLEAN /\ failed \in BOOLEAN /\ key \in Nat
    /\ calls \subseteq [key : Nat, body : SUBSET Items, aborted : BOOLEAN]

\* The results on display are those of the selection the form holds, and it gives context:
\* neither a double submission nor an answer after "Start over" shows other results.
ResultMatchesSelection ==
    step = "results" => result = selection /\ HasPrimaryContext

\* The form says that it is ranking exactly while the latest submission is unanswered.
SubmittingIsTrue == submitting <=> \E c \in calls : c.key = key /\ ~c.aborted

\* What is selected stays among the options, and so in sight, whichever requests of a reload
\* fail; only a full page of games may be without one of them.
SelectionIsOffered ==
    \A i \in selection :
        \/ i \in options.have
        \/ FamilyOf[i] \in Paged /\ Cardinality(options.have \cap Of(FamilyOf[i])) = PageLength

\* Why: the one submission that is not aborted is the latest one; it was sent from the
\* review of the selection as it still is.
SubmissionsFit ==
    /\ \A c \in calls : c.key <= key /\ (c.aborted <=> c.key < key)
    /\ \A c, d \in calls : ~c.aborted /\ ~d.aborted => c = d
    /\ \A c \in calls : ~c.aborted => step = "review" /\ c.body = selection
    /\ step = "review" => HasPrimaryContext

\* Of a load: the lists it has are of the families that have answered, and possible ones.
ListsFit == /\ awaited \cap fetched = {} /\ \A i \in listed : FamilyOf[i] \in fetched
            /\ \A f \in fetched : listed \cap Of(f) \in Lists(f)
            /\ \A f \in Paged : Cardinality(options.have \cap Of(f)) <= PageLength

\* What the form shows is true of what it has asked for and of what can be chosen.
FormIsHonest == ResultMatchesSelection /\ SubmittingIsTrue /\ SelectionIsOffered
=============================================================================
