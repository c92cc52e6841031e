----------------------------- MODULE KeyedFetch -----------------------------
(***************************************************************************)
(* A page that shows the answer to "the request of this key": the game     *)
(* detail page, and the result list of the catalog browser, which extends  *)
(* this module.  Sources: features/game-detail/game-detail-view.tsx and    *)
(* the fetch effect of features/catalog/catalog-browser.tsx.               *)
(*                                                                         *)
(* What is wanted changes with the address; React renders the change at    *)
(* once and runs the effect, which aborts the old request and issues the   *)
(* new one, a little later: an answer can come in between.  An aborted     *)
(* request may still be answered.  Mut_... operators are seeded bugs the   *)
(* specification never uses.                                               *)
(***************************************************************************)
EXTENDS Naturals

CONSTANTS
    Subjects,     \* what can be asked for: game ids, or catalog queries
    Invalid,      \* an address that does not parse: nothing is requested
    Outcomes,     \* what a request can end with, besides "ready"
    MaxRetries    \* bound on "Try again"

VARIABLES
    wanted,       \* the subject in the address
    retry,        \* the retry counter, part of the key
    effect,       \* the effect of the last render has not run yet
    shown,        \* the state an answer sets: [status, key, of]
    calls         \* requests not settled: [key, aborted]

fetchVars == <<wanted, retry, effect, shown, calls>>

Key(subject, number) == <<subject, number>>

\* The state is shown only for the key of this render; otherwise the page is loading.
Visible == IF shown.key = Key(wanted, retry) THEN shown
           ELSE [status |-> "loading", key |-> Key(wanted, retry), of |-> wanted]

-----------------------------------------------------------------------------
\* The cleanup aborts, then the effect asks for what is wanted now.
RunEffect ==
    /\ effect
    /\ effect' = FALSE
    /\ calls' = {[c EXCEPT !.aborted = TRUE] : c \in calls} \cup
                (IF wanted = Invalid THEN {}
                 ELSE {[key |-> Key(wanted, retry), aborted |-> FALSE]})
    /\ UNCHANGED <<wanted, retry, shown>>

Mut_LateAnswer(c) == TRUE
\* controller.signal.aborted is checked before the state is set.
Heard(c) == ~c.aborted

Settle(c) ==
    /\ c \in calls
    /\ calls' = calls \ {c}
    /\ \E status \in {"ready"} \cup Outcomes :
         shown' = IF Heard(c) THEN [status |-> status, key |-> c.key, of |-> c.key[1]] ELSE shown
    /\ UNCHANGED <<wanted, retry, effect>>

TryAgain ==
    /\ Visible.status = "error" /\ wanted # Invalid
    /\ retry < MaxRetries
    /\ retry' = retry + 1
    /\ effect' = TRUE
    /\ UNCHANGED <<wanted, shown, calls>>

\* The address changes: the effect has to run again.
Want(subject) ==
    /\ wanted' = subject
    /\ effect' = (effect \/ subject # wanted)
    /\ UNCHANGED <<retry, shown, calls>>

FetchInit ==
    /\ wanted \in Subjects \cup {Invalid}
    /\ retry = 0
    /\ effect = TRUE
    /\ shown = [status |-> "loading", key |-> <<>>, of |-> Invalid]
    /\ calls = {}

FetchStep == RunEffect \/ (\E c \in calls : Settle(c)) \/ TryAgain

-----------------------------------------------------------------------------
FetchTypeOK ==
    /\ wanted \in Subjects \cup {Invalid}
    /\ retry \in 0 .. MaxRetries /\ effect \in BOOLEAN
    /\ shown.status \in {"loading", "ready"} \cup Outcomes
    /\ calls \subseteq [key : Subjects \X (0 .. MaxRetries), aborted : BOOLEAN]

\* An answer is shown only while what it answers is still wanted, however the answers of
\* superseded requests are ordered.
ShownBelongs == Visible.status # "loading" => Visible.of = wanted

\* Once no live request is left the page shows an outcome: a late answer never takes the
\* place of the one that was wanted.
SettledIsShown ==
    (wanted # Invalid /\ ~effect /\ \A c \in calls : c.aborted) => Visible.status # "loading"

\* Why: once the effect has run, a request that can still be heard is the one that is
\* wanted, and it is there until its answer is shown.
RequestsFit ==
    /\ shown.status # "loading" => shown.of = shown.key[1]
    /\ ~effect => /\ \A c \in calls : c.aborted \/ c.key = Key(wanted, retry)
                  /\ \/ wanted = Invalid \/ Visible.status # "loading"
                     \/ \E c \in calls : ~c.aborted

\* The page shows the answer that is wanted, as soon as there is one, and no other.
WantedIsShown == ShownBelongs /\ SettledIsShown
=============================================================================
