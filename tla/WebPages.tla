------------------------------ MODULE WebPages ------------------------------
(***************************************************************************)
(* Three parts of the web client that share no state: the feedback list    *)
(* (FeedbackPages), the result list and the filters of /games              *)
(* (CatalogBrowser) and the request-only form (RecommendationForm).  The   *)
(* initial state picks the one that is open, and only that one takes       *)
(* steps.  The feedback list is loaded in pages of PageSize or of one.     *)
(***************************************************************************)
EXTENDS FeedbackPages

CONSTANTS
    Facets, Values, NoValue, NoQuery, Invalid,   \* of CatalogBrowser
    Pages, Outcomes,
    Families, Primary, Items, FamilyOf, Limit,   \* of RecommendationForm
    Paged, PageLength, NoSelection,
    MaxRetries, MaxPushes, MaxSubmits, MaxLoads  \* bounds

ASSUME BrowserAssumption ==
    /\ 1 \in Pages /\ "loading" \notin Outcomes
    /\ Invalid \notin [facets : [Facets -> Values \cup {NoValue}], page : Pages]
    /\ MaxRetries \in Nat

ASSUME FormAssumption ==
    IsFiniteSet(Items) /\ FamilyOf \in [Items -> Families] /\ PageLength \in Nat

VARIABLES
    open,                                                  \* the part that is open
    wanted, retry, effect, shown, requests,                \* KeyedFetch
    latest, pending, push, stale, pushes,                  \* CatalogBrowser
    options, awaited, fetched, listed, step, selection,    \* RecommendationForm
    result, submitting, failed, key, submissions, loads

listVars == <<rows, now, loader, untouched, twice>>
browserVars == <<wanted, retry, effect, shown, requests, latest, pending, push, stale, pushes>>
formVars == <<options, awaited, fetched, listed, step, selection, result, submitting, failed, key,
              submissions, loads>>
allVars == <<open, listVars, browserVars, formVars>>

Searches == [facets : [Facets -> Values \cup {NoValue}], page : Pages]

Browser == INSTANCE CatalogBrowser
           WITH Subjects <- Searches, Discards <- TRUE, calls <- requests

Form == INSTANCE RecommendationForm WITH calls <- submissions

OneByOne == INSTANCE FeedbackPages WITH PageSize <- 1

-----------------------------------------------------------------------------
\* A part that is closed stays in one of its initial states.
WebInit ==
    /\ open \in {"list", "one by one", "browser", "form"}
    /\ Init /\ Browser!Init /\ Form!Init
    /\ open # "browser" => wanted = Invalid

WebNext ==
    \/ open = "list" /\ Next /\ UNCHANGED <<open, browserVars, formVars>>
    \/ open = "one by one" /\ OneByOne!Next /\ UNCHANGED <<open, browserVars, formVars>>
    \/ open = "browser" /\ Browser!BrowserNext /\ UNCHANGED <<open, listVars, formVars>>
    \/ open = "form" /\ Form!Next /\ UNCHANGED <<open, listVars, browserVars>>

WebSpec == WebInit /\ [][WebNext]_allVars

-----------------------------------------------------------------------------
\* The types of every part, with what makes the other invariants inductive; and a feedback
\* list that is accepted after its pages were read one by one has what the server counted
\* and no unchanged item is missing.
WebInv == /\ Browser!TypeOK /\ Browser!RequestsFit /\ Browser!PushIsPending
          /\ Form!TypeOK /\ Form!SubmissionsFit /\ Form!ListsFit
          /\ IF open = "one by one" THEN OneByOne!TypeOK ELSE TypeOK
          /\ ListIsComplete

\* Of the result list and the game page: the wanted answer is shown, and no other,
\* however late the answers of superseded requests come.
WantedIsShown == Browser!WantedIsShown

\* Of the filters: while an address is on its way, the next click starts from it.
RapidClicksCompose == Browser!RapidClicksCompose

\* Of the form: the results on display are those of the selection it holds, it says that
\* it is ranking exactly while its submission is unanswered, and what is selected stays
\* among the options.
FormIsHonest == Form!FormIsHonest
=============================================================================
