--------------------------- MODULE WebPagesProofs ---------------------------
(***************************************************************************)
(* Proofs about the parts of WebPages for any facets, values, choices and  *)
(* any number of clicks, retries, submissions and late answers, and for    *)
(* feedback lists of any length, in pages of any size.                     *)
(***************************************************************************)
EXTENDS WebPages, FiniteSetTheorems, TLAPS

-----------------------------------------------------------------------------
(* The result list and the filters. *)

BrowserInv == Browser!TypeOK /\ Browser!RequestsFit /\ Browser!PushIsPending

\* The queries of the browser are the searches, and the address holds one of them.
LEMMA QueryIsASearch ==
    /\ Browser!Queries = Searches
    /\ wanted \in Searches \cup {Invalid} => Browser!Query \in Searches
BY BrowserAssumption, SMT DEF Browser!Query, Browser!DefaultQuery, Searches, Browser!Queries

LEMMA BrowserStarts == Browser!Init => BrowserInv
<1> SUFFICES ASSUME Browser!Init PROVE BrowserInv
  OBVIOUS
<1>1. /\ wanted \in Searches \cup {Invalid} /\ retry = 0 /\ effect = TRUE /\ requests = {}
      /\ shown.status = "loading" /\ latest = Browser!Query /\ pending = NoQuery
      /\ push = NoQuery /\ stale = FALSE
  BY Zenon DEF Browser!Init, Browser!FetchInit
<1>2. latest \in Browser!Queries /\ 0 \in 0 .. MaxRetries
  BY <1>1, QueryIsASearch, BrowserAssumption
<1>3. Browser!FetchTypeOK
  BY <1>1, <1>2, Zenon DEF Browser!FetchTypeOK
<1>4. Browser!TypeOK
  BY <1>1, <1>2, <1>3, Zenon DEF Browser!TypeOK
<1>5. Browser!RequestsFit /\ Browser!PushIsPending
  BY <1>1, Zenon DEF Browser!RequestsFit, Browser!PushIsPending
<1> QED BY <1>4, <1>5 DEF BrowserInv

\* The address changes, to a query or to one that does not parse.
LEMMA WantKeeps ==
    ASSUME BrowserInv, NEW q \in Searches \cup {Invalid}, Browser!Want(q)
    PROVE  Browser!FetchTypeOK' /\ Browser!RequestsFit'
<1>1. /\ wanted' = q /\ effect' = (effect \/ q # wanted)
      /\ UNCHANGED <<retry, shown, requests>>
  BY Zenon DEF Browser!Want
<1>2. Browser!FetchTypeOK'
  BY <1>1, Zenon DEF BrowserInv, Browser!TypeOK, Browser!FetchTypeOK
<1>3. Browser!RequestsFit
  BY DEF BrowserInv
<1>4. CASE effect'
  BY <1>1, <1>2, <1>3, <1>4 DEF Browser!RequestsFit
<1>5. CASE ~effect'
  <2>1. wanted' = wanted /\ ~effect
    BY <1>1, <1>5
  <2>2. Browser!Visible' = Browser!Visible
    BY <1>1, <2>1 DEF Browser!Visible, Browser!Key
  <2> QED BY <1>1, <1>2, <1>3, <2>1, <2>2 DEF Browser!RequestsFit, Browser!Key
<1> QED BY <1>2, <1>4, <1>5

\* The effect aborts what was requested and asks for what is wanted.
LEMMA RunEffectKeeps ==
    ASSUME BrowserInv, Browser!RunEffect
    PROVE  Browser!FetchTypeOK' /\ Browser!RequestsFit'
<1> DEFINE live == [key |-> Browser!Key(wanted, retry), aborted |-> FALSE]
           Calls == [key : Searches \X (0 .. MaxRetries), aborted : BOOLEAN]
<1>1. /\ effect' = FALSE /\ UNCHANGED <<wanted, retry, shown>>
      /\ requests' = {[c EXCEPT !.aborted = TRUE] : c \in requests} \cup
                     (IF wanted = Invalid THEN {} ELSE {live})
  BY Zenon DEF Browser!RunEffect
<1>2. Browser!FetchTypeOK /\ Browser!RequestsFit
  BY DEF BrowserInv, Browser!TypeOK
<1>3. requests \subseteq Calls /\ wanted \in Searches \cup {Invalid} /\ retry \in 0 .. MaxRetries
  BY <1>2, Zenon DEF Browser!FetchTypeOK
<1>4. \A c \in requests : [c EXCEPT !.aborted = TRUE] \in Calls
                         /\ [c EXCEPT !.aborted = TRUE].aborted
  <2> SUFFICES ASSUME NEW c \in Calls
               PROVE  [c EXCEPT !.aborted = TRUE] \in Calls /\ [c EXCEPT !.aborted = TRUE].aborted
    BY <1>3, Zenon
  <2> QED BY Zenon
<1>5. /\ wanted # Invalid => live \in Calls
      /\ ~live.aborted /\ live.key = Browser!Key(wanted, retry)
  BY <1>3, SMT DEF Browser!Key
<1> HIDE DEF live
<1>6. requests' \subseteq Calls
  BY <1>1, <1>4, <1>5, Zenon
<1> HIDE DEF Calls
<1>7. \A c \in requests' : c.aborted \/ c.key = Browser!Key(wanted, retry)
  BY <1>1, <1>4, <1>5, Zenon
<1>8. wanted # Invalid => \E c \in requests' : ~c.aborted
  BY <1>1, <1>5, Zenon
<1>9. Browser!FetchTypeOK'
  BY <1>1, <1>2, <1>6, Zenon DEF Browser!FetchTypeOK, Calls
<1>10. Browser!RequestsFit'
  BY <1>1, <1>2, <1>7, <1>8, Zenon DEF Browser!RequestsFit, Browser!Key
<1> QED BY <1>9, <1>10

\* An answer comes: it is shown unless its request was aborted.
LEMMA SettleKeeps ==
    ASSUME BrowserInv, NEW c \in requests, Browser!Settle(c)
    PROVE  Browser!FetchTypeOK' /\ Browser!RequestsFit'
<1>1. PICK status \in {"ready"} \cup Outcomes :
         shown' = IF Browser!Heard(c) THEN [status |-> status, key |-> c.key, of |-> c.key[1]]
                  ELSE shown
  BY Zenon DEF Browser!Settle
<1>2. requests' = requests \ {c} /\ UNCHANGED <<wanted, retry, effect>>
  BY Zenon DEF Browser!Settle
<1>3. Browser!FetchTypeOK /\ Browser!RequestsFit
  BY DEF BrowserInv, Browser!TypeOK
<1>4. status # "loading"
  BY BrowserAssumption
<1>5. Browser!FetchTypeOK'
  BY <1>1, <1>2, <1>3, Zenon DEF Browser!FetchTypeOK
<1>6. CASE c.aborted
  <2>1. shown' = shown
    BY <1>1, <1>6, Zenon DEF Browser!Heard
  <2>2. Browser!Visible' = Browser!Visible
    BY <1>2, <2>1, Zenon DEF Browser!Visible, Browser!Key
  <2> QED BY <1>2, <1>3, <1>5, <1>6, <2>1, <2>2, Zenon DEF Browser!RequestsFit, Browser!Key
<1>7. CASE ~c.aborted
  <2>1. shown' = [status |-> status, key |-> c.key, of |-> c.key[1]]
    BY <1>1, <1>7, Zenon DEF Browser!Heard
  <2>2. shown'.status # "loading" /\ shown'.key = c.key /\ shown'.of = shown'.key[1]
    BY <1>4, <2>1
  <2>3. ~effect => Browser!Visible'.status # "loading"
    <3> SUFFICES ASSUME ~effect PROVE Browser!Visible'.status # "loading"
      OBVIOUS
    <3>1. c.key = Browser!Key(wanted, retry)
      BY <1>3, <1>7, Zenon DEF Browser!RequestsFit
    <3>2. Browser!Visible' = shown'
      BY <1>2, <2>2, <3>1, Zenon DEF Browser!Visible, Browser!Key
    <3> QED BY <2>2, <3>2
  <2> QED BY <1>2, <1>3, <1>5, <2>2, <2>3, Zenon DEF Browser!RequestsFit, Browser!Key
<1> QED BY <1>6, <1>7

\* "Try again" asks for the same subject with another key.
LEMMA TryAgainKeeps ==
    ASSUME BrowserInv, Browser!TryAgain
    PROVE  Browser!FetchTypeOK' /\ Browser!RequestsFit'
<1>1. /\ retry < MaxRetries /\ retry' = retry + 1 /\ effect' = TRUE
      /\ UNCHANGED <<wanted, shown, requests>>
  BY Zenon DEF Browser!TryAgain
<1>2. Browser!FetchTypeOK /\ Browser!RequestsFit
  BY DEF BrowserInv, Browser!TypeOK
<1>3. retry' \in 0 .. MaxRetries
  BY <1>1, <1>2, BrowserAssumption DEF Browser!FetchTypeOK
<1>4. Browser!FetchTypeOK'
  BY <1>1, <1>2, <1>3, Zenon DEF Browser!FetchTypeOK
<1>5. Browser!RequestsFit'
  BY <1>1, <1>2, Zenon DEF Browser!RequestsFit
<1> QED BY <1>4, <1>5

\* Every step of the browser keeps the invariant.
LEMMA BrowserKeeps == ASSUME BrowserInv, Browser!BrowserNext PROVE BrowserInv'
<1>1. Browser!FetchTypeOK /\ Browser!RequestsFit /\ Browser!PushIsPending
  BY DEF BrowserInv, Browser!TypeOK
<1>2. /\ latest \in Searches /\ pending \in Searches \cup {NoQuery}
      /\ push \in Searches \cup {NoQuery} /\ stale \in BOOLEAN
      /\ wanted \in Searches \cup {Invalid}
  BY QueryIsASearch, Zenon DEF BrowserInv, Browser!TypeOK, Browser!FetchTypeOK
<1> DEFINE ClicksOK == /\ latest \in Searches /\ pending \in Searches \cup {NoQuery}
                       /\ push \in Searches \cup {NoQuery} /\ stale \in BOOLEAN
<1>3. SUFFICES /\ Browser!FetchTypeOK' /\ Browser!RequestsFit' /\ Browser!PushIsPending'
               /\ ClicksOK'
  BY QueryIsASearch, Zenon DEF BrowserInv, Browser!TypeOK, Browser!Queries, Searches
<1>4. CASE Browser!Navigate
  <2>1. PICK f \in Facets, value \in Values \cup {NoValue} :
           LET next == [facets |-> [latest.facets EXCEPT ![f] = value], page |-> 1]
           IN  latest' = next /\ pending' = next /\ push' = next
    BY <1>4, Zenon DEF Browser!Navigate
  <2>2. UNCHANGED <<wanted, retry, effect, shown, requests, stale>>
    BY <1>4 DEF Browser!Navigate, Browser!fetchVars
  <2>3. [facets |-> [latest.facets EXCEPT ![f] = value], page |-> 1] \in Searches
    BY <1>2, BrowserAssumption, SMT DEF Searches
  <2>4. ClicksOK' /\ Browser!PushIsPending'
    BY <1>2, <2>1, <2>2, <2>3, Zenon DEF Browser!PushIsPending
  <2>5. Browser!FetchTypeOK' /\ Browser!RequestsFit'
    BY <1>1, <2>2, Zenon
       DEF Browser!FetchTypeOK, Browser!RequestsFit, Browser!Visible, Browser!Key
  <2> QED BY <2>4, <2>5
<1>5. CASE Browser!Render
  <2>1. /\ push \in Searches \cup {Invalid} /\ Browser!Want(push) /\ push' = NoQuery
        /\ stale' \in BOOLEAN /\ UNCHANGED <<latest, pending>>
    BY <1>2, <1>5, Zenon DEF Browser!Render
  <2> QED BY <1>2, <2>1, WantKeeps, Zenon DEF Browser!PushIsPending
<1>6. CASE Browser!Elsewhere
  <2>1. PICK q \in Searches \cup {Invalid} : Browser!Want(q)
    BY <1>6, QueryIsASearch, Zenon DEF Browser!Elsewhere
  <2>2. push' = NoQuery /\ stale' = TRUE /\ UNCHANGED <<latest, pending>>
    BY <1>6, Zenon DEF Browser!Elsewhere
  <2> QED BY <1>2, <2>1, <2>2, WantKeeps, Zenon DEF Browser!PushIsPending
<1>7. CASE Browser!SyncQuery
  <2>1. UNCHANGED <<wanted, retry, effect, shown, requests, push>> /\ stale /\ ~stale'
    BY <1>7 DEF Browser!SyncQuery, Browser!fetchVars
  <2>2. Browser!Query \in Searches
    BY <1>2, QueryIsASearch
  <2>3. \/ UNCHANGED <<latest, pending>>
        \/ latest' = Browser!Query /\ pending' = NoQuery
           /\ (pending # NoQuery => pending = Browser!Query)
    BY <1>7, Zenon DEF Browser!SyncQuery
  <2>4. ClicksOK' /\ Browser!PushIsPending'
    BY <1>1, <1>2, <2>1, <2>2, <2>3, <1>7 DEF Browser!PushIsPending, Browser!SyncQuery
  <2>5. Browser!FetchTypeOK' /\ Browser!RequestsFit'
    BY <1>1, <2>1, Zenon
       DEF Browser!FetchTypeOK, Browser!RequestsFit, Browser!Visible, Browser!Key
  <2> QED BY <2>4, <2>5
<1>8. CASE Browser!Fetches
  <2>1. UNCHANGED <<latest, pending, push, stale>> /\ Browser!FetchStep
    BY <1>8 DEF Browser!Fetches
  <2>2. ClicksOK' /\ Browser!PushIsPending'
    BY <1>1, <1>2, <2>1, Zenon DEF Browser!PushIsPending
  <2> QED BY <2>1, <2>2, RunEffectKeeps, SettleKeeps, TryAgainKeeps, Zenon DEF Browser!FetchStep
<1> QED BY <1>4, <1>5, <1>6, <1>7, <1>8 DEF Browser!BrowserNext

\* A step that does not concern the browser leaves it as it is.
LEMMA BrowserStays == ASSUME BrowserInv, UNCHANGED browserVars PROVE BrowserInv'
<1>1. UNCHANGED <<wanted, retry, effect, shown, requests, latest, pending, push, stale>>
  BY DEF browserVars
<1>2. Browser!TypeOK'
  BY <1>1, Zenon DEF BrowserInv, Browser!TypeOK, Browser!FetchTypeOK
<1>3. Browser!RequestsFit' /\ Browser!PushIsPending'
  BY <1>1, Zenon
     DEF BrowserInv, Browser!RequestsFit, Browser!PushIsPending, Browser!Visible, Browser!Key
<1> QED BY <1>2, <1>3 DEF BrowserInv

\* The result list of /games, the game page and the filters, in their types and with what
\* makes the two theorems below inductive: a request that can still be heard is for the
\* key of the last render (the cleanup of the fetch effect aborts the others), and a push
\* that is on its way is the pending address as long as the query effect has to run.
THEOREM BrowserInvHolds == WebSpec => []BrowserInv
<1>1. WebInit => BrowserInv
  BY BrowserStarts DEF WebInit
<1>2. BrowserInv /\ [WebNext]_allVars => BrowserInv'
  <2> SUFFICES ASSUME BrowserInv, [WebNext]_allVars PROVE BrowserInv'
    OBVIOUS
  <2>1. CASE Browser!BrowserNext
    BY <2>1, BrowserKeeps
  <2>2. CASE UNCHANGED browserVars
    BY <2>2, BrowserStays
  <2>3. WebNext => Browser!BrowserNext \/ UNCHANGED browserVars
    BY Zenon DEF WebNext
  <2>4. UNCHANGED allVars => UNCHANGED browserVars
    BY DEF allVars
  <2> QED BY <2>1, <2>2, <2>3, <2>4
<1> QED BY <1>1, <1>2, PTL DEF WebSpec

\* The page shows an answer only while it is what the address asks for, and once no
\* request is left that can be heard it shows one, for any order of late answers.
THEOREM WantedIsAlwaysShown == WebSpec => []WantedIsShown
<1>1. BrowserInv => WantedIsShown
  <2> SUFFICES ASSUME BrowserInv PROVE WantedIsShown
    OBVIOUS
  <2>1. Browser!RequestsFit
    BY DEF BrowserInv
  <2>2. Browser!ShownBelongs
    <3> SUFFICES ASSUME Browser!Visible.status # "loading" PROVE Browser!Visible.of = wanted
      BY DEF Browser!ShownBelongs
    <3>1. shown.key = <<wanted, retry>> => shown.key[1] = wanted
      OBVIOUS
    <3>2. CASE shown.key = Browser!Key(wanted, retry)
      <4>1. Browser!Visible = shown
        BY <3>2, Zenon DEF Browser!Visible
      <4> QED BY <2>1, <3>1, <3>2, <4>1 DEF Browser!Key, Browser!RequestsFit
    <3>3. CASE shown.key # Browser!Key(wanted, retry)
      BY <3>3 DEF Browser!Visible
    <3> QED BY <3>2, <3>3
  <2>3. Browser!SettledIsShown
    BY <2>1, Zenon DEF Browser!SettledIsShown, Browser!RequestsFit
  <2> QED BY <2>2, <2>3 DEF WantedIsShown, Browser!WantedIsShown
<1> QED BY <1>1, BrowserInvHolds, PTL

\* While an address is on its way to the router, the next filter starts from it
\* (latestQueryRef) and not from the address that is still rendered.
THEOREM ClicksCompose == WebSpec => []RapidClicksCompose
<1>1. BrowserInv => RapidClicksCompose
  BY Zenon DEF BrowserInv, Browser!PushIsPending, RapidClicksCompose,
       Browser!RapidClicksCompose
<1> QED BY <1>1, BrowserInvHolds, PTL

-----------------------------------------------------------------------------
(* The request-only form. *)

FormInv == Form!TypeOK /\ Form!SubmissionsFit /\ Form!ListsFit /\ Form!FormIsHonest

Submissions == [key : Nat, body : SUBSET Items, aborted : BOOLEAN]

LEMMA FormCounts == \A S \in SUBSET Items : Form!Cardinality(S) = Cardinality(S)
BY Zenon DEF Form!Cardinality, Cardinality

LEMMA FormStarts == Form!Init => FormInv
<1> SUFFICES ASSUME Form!Init PROVE FormInv
  OBVIOUS
<1>1. /\ options = [loading |-> TRUE, error |-> FALSE, have |-> {}]
      /\ awaited = Families /\ fetched = {} /\ listed = {} /\ step = "select" /\ selection = {}
      /\ submitting = FALSE /\ failed = FALSE /\ key = 0 /\ submissions = {}
  BY Zenon DEF Form!Init
<1>2. Form!TypeOK
  <2>1. [loading |-> TRUE, error |-> FALSE, have |-> {}]
          \in [loading : BOOLEAN, error : BOOLEAN, have : SUBSET Items]
    BY Zenon
  <2>2. 0 \in Nat
    OBVIOUS
  <2> QED BY <1>1, <2>1, <2>2, Zenon DEF Form!TypeOK
<1>3. Form!SubmissionsFit
  BY <1>1, SMT DEF Form!SubmissionsFit
<1>4. Form!FormIsHonest
  BY <1>1, SMT DEF Form!FormIsHonest, Form!ResultMatchesSelection, Form!SubmittingIsTrue,
     Form!SelectionIsOffered
<1>5. Form!ListsFit
  <2>1. \A f : options.have \cap Form!Of(f) = {}
    BY <1>1, Zenon
  <2>2. Cardinality({}) = 0 /\ PageLength \in Nat
    BY FormAssumption, FS_EmptySet
  <2>3. \A f : Form!Cardinality(options.have \cap Form!Of(f)) = 0
    BY <2>1, <2>2, FormCounts, Zenon
  <2> QED BY <1>1, <2>2, <2>3 DEF Form!ListsFit
<1> QED BY <1>2, <1>3, <1>4, <1>5 DEF FormInv

\* The lists of a load when one more family has settled.
LEMMA OneSettles ==
    ASSUME FormInv, NEW f \in Families, Form!OptionSettles(f)
    PROVE  \E families \in SUBSET Families : \E lists \in SUBSET Items :
             /\ Form!Settled(families, lists) /\ families \cap awaited' = {}
             /\ \A i \in lists : FamilyOf[i] \in families
             /\ \A g \in families : lists \cap Form!Of(g) \in Form!Lists(g)
<1>1. /\ awaited \subseteq Families /\ fetched \subseteq Families /\ listed \subseteq Items
      /\ awaited \cap fetched = {} /\ \A i \in listed : FamilyOf[i] \in fetched
      /\ \A g \in fetched : listed \cap Form!Of(g) \in Form!Lists(g)
  BY Zenon DEF FormInv, Form!TypeOK, Form!ListsFit
<1>2. f \in awaited /\ awaited' = awaited \ {f}
  BY Zenon DEF Form!OptionSettles
<1>3. CASE Form!Settled(fetched, listed)
  <2>1. fetched \cap awaited' = {}
    BY <1>1, <1>2
  <2> QED BY <1>1, <1>3, <2>1, Zenon
<1>4. CASE \E l \in Form!Lists(f) : Form!Settled(fetched \cup {f}, listed \cup l)
  <2>1. PICK l \in Form!Lists(f) : Form!Settled(fetched \cup {f}, listed \cup l)
    BY <1>4
  <2>2. l \subseteq Items /\ \A i \in l : FamilyOf[i] = f
    BY Zenon DEF Form!Lists, Form!Of
  <2>3. f \notin fetched
    BY <1>1, <1>2
  <2> DEFINE families == fetched \cup {f}
             lists == listed \cup l
  <2>4. lists \cap Form!Of(f) = l
    BY <1>1, <2>2, <2>3 DEF Form!Of
  <2>5. \A g \in fetched : lists \cap Form!Of(g) = listed \cap Form!Of(g)
    BY <2>2, <2>3 DEF Form!Of
  <2>6. \A g \in families : lists \cap Form!Of(g) \in Form!Lists(g)
    <3> HIDE DEF lists
    <3> QED BY <1>1, <2>1, <2>4, <2>5, Zenon
  <2>7. /\ families \in SUBSET Families /\ lists \in SUBSET Items
        /\ families \cap awaited' = {} /\ \A i \in lists : FamilyOf[i] \in families
    BY <1>1, <1>2, <2>2
  <2> QED BY <2>1, <2>6, <2>7, Zenon
<1> QED BY <1>3, <1>4, Zenon DEF Form!OptionSettles

\* A list replaces what its family had: all that was selected of it is there, or the page
\* is full.
LEMMA OfferedStays ==
    ASSUME FormInv, NEW i \in selection, NEW g, g = FamilyOf[i],
           NEW l \in Form!Lists(g)
    PROVE  i \in l \/ (g \in Paged /\ Form!Cardinality(l) = PageLength)
<1> DEFINE old == options.have \cap Form!Of(g)
<1>1. i \in Items /\ i \in Form!Of(g)
  BY Zenon DEF FormInv, Form!TypeOK, Form!Of
<1>2. i \in options.have \/ (g \in Paged /\ Form!Cardinality(old) = PageLength)
  BY Zenon DEF FormInv, Form!FormIsHonest, Form!SelectionIsOffered
<1>3. /\ l \subseteq Items /\ (g \in Paged => Form!Cardinality(l) <= PageLength)
      /\ old \subseteq l \/ (g \in Paged /\ Form!Cardinality(l) = PageLength)
  BY Zenon DEF Form!Lists, Form!Of
<1>4. CASE old \subseteq l /\ i \notin options.have
  <2>1. Form!Cardinality(old) = Cardinality(old) /\ Form!Cardinality(l) = Cardinality(l)
    BY <1>3, <1>4, FormCounts
  <2>2. IsFiniteSet(l)
    BY <1>3, FormAssumption, FS_Subset
  <2> HIDE DEF old
  <2>3. /\ Cardinality(old) <= Cardinality(l)
        /\ Cardinality(l) \in Nat
    BY <1>4, <2>2, FS_Subset, FS_CardinalityType
  <2> QED BY <1>2, <1>3, <1>4, <2>1, <2>3, FormAssumption
<1> QED BY <1>1, <1>2, <1>3, <1>4

\* The options of a load: what has failed to load keeps what it has.
LEMMA OptionsKeep ==
    ASSUME FormInv, (\E f \in Families : Form!OptionSettles(f)) \/ Form!RetryOptions
    PROVE  FormInv'
<1> DEFINE Options == [loading : BOOLEAN, error : BOOLEAN, have : SUBSET Items]
           Listing == /\ options' \in Options /\ awaited' \subseteq Families
                      /\ fetched' \subseteq Families /\ listed' \subseteq Items
<1>1. UNCHANGED <<step, selection, result, submitting, failed, key, submissions>>
  BY Zenon DEF Form!OptionSettles, Form!RetryOptions, Form!formVars
<1>2. /\ options \in Options /\ options.have \subseteq Items /\ selection \subseteq Items
      /\ awaited \subseteq Families /\ Form!ListsFit /\ Form!SelectionIsOffered
  BY Zenon DEF FormInv, Form!TypeOK, Form!FormIsHonest
<1>3. Listing /\ Form!ListsFit' /\ Form!SelectionIsOffered'
  <2>1. CASE Form!RetryOptions
    <3>1. /\ options' = [options EXCEPT !.loading = TRUE]
          /\ awaited' = Families /\ fetched' = {} /\ listed' = {}
      BY <2>1, Zenon DEF Form!RetryOptions, Form!StartLoad
    <3>2. options'.have = options.have /\ options' \in Options
      BY <1>2, <3>1
    <3>3. Form!ListsFit'
      BY <1>2, <3>1, <3>2 DEF Form!ListsFit
    <3>4. Form!SelectionIsOffered'
      BY <1>1, <1>2, <3>2, Zenon DEF Form!SelectionIsOffered
    <3> QED BY <3>1, <3>2, <3>3, <3>4
  <2>2. ASSUME NEW f \in Families, Form!OptionSettles(f)
        PROVE  Listing /\ Form!ListsFit' /\ Form!SelectionIsOffered'
    <3>1. PICK families \in SUBSET Families, lists \in SUBSET Items :
             /\ Form!Settled(families, lists) /\ families \cap awaited' = {}
             /\ \A i \in lists : FamilyOf[i] \in families
             /\ \A g \in families : lists \cap Form!Of(g) \in Form!Lists(g)
      BY <2>2, OneSettles, Zenon
    <3>2. awaited' \subseteq Families
      BY <1>2, <2>2 DEF Form!OptionSettles
    <3>3. CASE awaited' # {}
      <4>1. fetched' = families /\ listed' = lists /\ options' = options
        BY <3>1, <3>3, Zenon DEF Form!Settled
      <4>2. \A g \in families : Form!Lists(g)' = Form!Lists(g)
        BY <4>1, Zenon DEF Form!Lists
      <4>3. Form!ListsFit'
        <5>1. awaited' \cap fetched' = {}
          BY <3>1, <4>1
        <5> QED BY <1>2, <3>1, <4>1, <4>2, <5>1, Zenon DEF Form!ListsFit
      <4>4. Form!SelectionIsOffered'
        BY <1>1, <1>2, <4>1, Zenon DEF Form!SelectionIsOffered
      <4> QED BY <1>2, <3>1, <3>2, <4>1, <4>3, <4>4
    <3>4. CASE awaited' = {}
      <4> DEFINE have == Form!Kept(families) \cup lists
      <4>1. /\ fetched' = {} /\ listed' = {}
            /\ options' = [loading |-> FALSE, error |-> families # Families, have |-> have]
        BY <3>1, <3>4, Zenon DEF Form!Settled
      <4>2. have \subseteq Items
        BY <1>2, <3>1, Zenon DEF Form!Kept
      <4>3. \A g : have \cap Form!Of(g) = IF g \in families THEN lists \cap Form!Of(g)
                                          ELSE options.have \cap Form!Of(g)
        BY <3>1 DEF Form!Kept, Form!Of
      <4> HIDE DEF have
      <4>4. options'.have = have /\ options' \in Options
        BY <4>1, <4>2
      <4>5. Form!ListsFit'
        <5>1. \A g \in Paged : Form!Cardinality(have \cap Form!Of(g)) <= PageLength
          BY <1>2, <3>1, <4>3, Zenon DEF Form!ListsFit, Form!Lists
        <5> QED BY <4>1, <4>4, <5>1 DEF Form!ListsFit
      <4>6. ASSUME NEW i \in selection
            PROVE  \/ i \in have
                   \/ /\ FamilyOf[i] \in Paged
                      /\ Form!Cardinality(have \cap Form!Of(FamilyOf[i])) = PageLength
        <5>1. i \in Form!Of(FamilyOf[i])
          BY <1>2, Zenon DEF Form!Of
        <5>2. CASE FamilyOf[i] \in families
          BY <3>1, <4>3, <5>2, OfferedStays, Zenon
        <5>3. CASE FamilyOf[i] \notin families
          BY <1>2, <4>3, <5>1, <5>3, Zenon DEF Form!SelectionIsOffered
        <5> QED BY <5>2, <5>3
      <4>7. Form!SelectionIsOffered'
        BY <1>1, <4>4, <4>6, Zenon DEF Form!SelectionIsOffered
      <4> QED BY <3>2, <4>1, <4>4, <4>5, <4>7
    <3> QED BY <3>3, <3>4
  <2> QED BY <2>1, <2>2
<1>4. Form!TypeOK'
  BY <1>1, <1>3, Zenon DEF FormInv, Form!TypeOK
<1>5. Form!SubmissionsFit'
  BY <1>1, Zenon DEF FormInv, Form!SubmissionsFit, Form!HasPrimaryContext
<1>6. Form!FormIsHonest'
  BY <1>1, <1>3, Zenon
     DEF FormInv, Form!FormIsHonest, Form!ResultMatchesSelection, Form!SubmittingIsTrue,
         Form!HasPrimaryContext
<1> QED BY <1>3, <1>4, <1>5, <1>6 DEF FormInv

\* A step that leaves the options alone leaves them fit.
LEMMA ListsStay ==
    ASSUME FormInv, UNCHANGED <<options, awaited, fetched, listed>>
    PROVE  Form!ListsFit'
<1>1. \A f : Form!Lists(f)' = Form!Lists(f)
  BY Zenon DEF Form!Lists
<1> QED BY <1>1, Zenon DEF FormInv, Form!ListsFit

\* Aborting changes nothing else of the submissions, and leaves none that can be heard.
LEMMA Aborting ==
    ASSUME FormInv
    PROVE  /\ Form!Aborted \subseteq Submissions
           /\ \A c \in Form!Aborted : c.aborted /\ c.key <= key
<1>1. submissions \subseteq Submissions /\ \A c \in submissions : c.key <= key
  BY Zenon DEF FormInv, Form!TypeOK, Form!SubmissionsFit, Submissions
<1>2. ASSUME NEW c \in submissions
      PROVE  [c EXCEPT !.aborted = TRUE] \in Submissions /\ [c EXCEPT !.aborted = TRUE].aborted
             /\ [c EXCEPT !.aborted = TRUE].key = c.key
  <2>1. c \in Submissions
    BY <1>1
  <2> QED BY <2>1, Zenon DEF Submissions
<1> QED BY <1>1, <1>2, Zenon DEF Form!Aborted

\* A submission that can be heard is of the latest key.
LEMMA LiveIsLatest ==
    ASSUME FormInv, NEW c \in submissions
    PROVE  /\ ~c.aborted <=> c.key = key
           /\ submitting <=> \E d \in submissions : ~d.aborted
<1>1. /\ key \in Nat /\ \A d \in submissions : d.key \in Nat
      /\ \A d \in submissions : d.key <= key /\ (d.aborted <=> d.key < key)
  BY SMT DEF FormInv, Form!TypeOK, Form!SubmissionsFit
<1>2. \A d \in submissions : ~(d.key < key) <=> d.key = key
  BY <1>1, SMT
<1>3. submitting <=> \E d \in submissions : d.key = key /\ ~d.aborted
  BY Zenon DEF FormInv, Form!FormIsHonest, Form!SubmittingIsTrue
<1> QED BY <1>1, <1>2, <1>3, Zenon

\* What is selected, reviewed and adjusted while no submission can be heard.
LEMMA SelectingKeeps ==
    ASSUME FormInv,
           (\E i \in Items : Form!Toggle(i)) \/ Form!Review \/ Form!Edit \/ Form!Adjust
    PROVE  FormInv'
<1>1. /\ UNCHANGED <<options, awaited, fetched, listed, submitting, failed, key, submissions,
                  result>>
      /\ step' \in {"select", "review"}
  <2>1. CASE \E i \in Items : Form!Toggle(i)
    BY <2>1 DEF Form!Toggle, Form!optionVars
  <2>2. CASE Form!Review
    BY <2>2 DEF Form!Review, Form!optionVars
  <2>3. CASE Form!Edit
    BY <2>3 DEF Form!Edit, Form!optionVars
  <2>4. CASE Form!Adjust
    BY <2>4 DEF Form!Adjust, Form!optionVars
  <2> QED BY <2>1, <2>2, <2>3, <2>4
<1>2. \A c \in submissions : c.aborted
  <2>1. CASE step # "review"
    BY <2>1, Zenon DEF FormInv, Form!SubmissionsFit
  <2>2. CASE step = "review"
    <3>1. ~submitting
      BY <2>2, Zenon DEF Form!Toggle, Form!Review, Form!Edit, Form!Adjust
    <3> QED BY <3>1, LiveIsLatest, Zenon
  <2> QED BY <2>1, <2>2
<1>3. /\ selection' \subseteq Items
      /\ \A i \in selection' : i \in selection \/ i \in options.have
  <2>1. selection \subseteq Items
    BY Zenon DEF FormInv, Form!TypeOK
  <2>2. CASE \E i \in Items : Form!Toggle(i)
    BY <2>1, <2>2, Zenon DEF Form!Toggle
  <2>3. CASE UNCHANGED selection
    BY <2>1, <2>3
  <2> QED BY <2>2, <2>3, Zenon DEF Form!Review, Form!Edit, Form!Adjust
<1>4. step' = "review" => Form!HasPrimaryContext'
  BY Zenon DEF Form!Toggle, Form!Review, Form!Edit, Form!Adjust, Form!HasPrimaryContext
<1>5. Form!TypeOK'
  BY <1>1, <1>3, Zenon DEF FormInv, Form!TypeOK
<1>6. Form!SubmissionsFit'
  BY <1>1, <1>2, <1>4, Zenon DEF FormInv, Form!SubmissionsFit
<1>7. Form!FormIsHonest'
  <2>1. Form!ResultMatchesSelection'
    BY <1>1 DEF Form!ResultMatchesSelection
  <2>2. Form!SubmittingIsTrue'
    BY <1>1, Zenon DEF FormInv, Form!FormIsHonest, Form!SubmittingIsTrue
  <2>3. Form!SelectionIsOffered'
    BY <1>1, <1>3, Zenon DEF FormInv, Form!FormIsHonest, Form!SelectionIsOffered
  <2> QED BY <2>1, <2>2, <2>3 DEF Form!FormIsHonest
<1> QED BY <1>1, <1>5, <1>6, <1>7, ListsStay DEF FormInv

\* A submission aborts the ones before it, also that of a first click of two.
LEMMA SubmitKeeps == ASSUME FormInv, Form!Submit PROVE FormInv'
<1> DEFINE live == [key |-> key + 1, body |-> selection, aborted |-> FALSE]
<1>1. /\ step = "review" /\ Form!HasPrimaryContext /\ key' = key + 1
      /\ submissions' = Form!Aborted \cup {live} /\ submitting' = TRUE /\ failed' = FALSE
      /\ UNCHANGED <<options, awaited, fetched, listed, step, selection, result>>
  BY DEF Form!Submit, Form!optionVars
<1>2. Form!TypeOK /\ key \in Nat /\ selection \in SUBSET Items
  BY DEF FormInv, Form!TypeOK
<1>3. /\ Form!Aborted \subseteq Submissions
      /\ \A c \in Form!Aborted : c.aborted /\ c.key <= key
  BY Aborting
<1>4. live \in Submissions /\ live.key = key' /\ live.body = selection
  BY <1>1, <1>2 DEF Submissions
<1>5. ~live.aborted
  OBVIOUS
<1> HIDE DEF live
<1>6. submissions' \subseteq Submissions /\ key' \in Nat
  BY <1>1, <1>2, <1>3, <1>4
<1>7. \A c \in Form!Aborted : c.key <= key' /\ c.key < key'
  BY <1>1, <1>2, <1>3, SMT DEF Submissions
<1>8. live.key <= key' /\ ~(live.key < key')
  BY <1>4, <1>6
<1>9. Form!TypeOK'
  BY <1>1, <1>2, <1>6, Zenon DEF Form!TypeOK, Submissions
<1>10. Form!SubmissionsFit'
  BY <1>1, <1>3, <1>4, <1>5, <1>7, <1>8, Zenon DEF Form!SubmissionsFit, Form!HasPrimaryContext
<1>11. Form!FormIsHonest'
  <2>1. Form!ResultMatchesSelection'
    BY <1>1 DEF Form!ResultMatchesSelection
  <2>2. Form!SubmittingIsTrue'
    BY <1>1, <1>4, <1>5, Zenon DEF Form!SubmittingIsTrue
  <2>3. Form!SelectionIsOffered'
    BY <1>1, Zenon DEF FormInv, Form!FormIsHonest, Form!SelectionIsOffered
  <2> QED BY <2>1, <2>2, <2>3 DEF Form!FormIsHonest
<1> QED BY <1>1, <1>9, <1>10, <1>11, ListsStay DEF FormInv

\* "Start over" aborts what is on its way and forgets the selection and the results.
LEMMA StartOverKeeps == ASSUME FormInv, Form!StartOver PROVE FormInv'
<1>1. /\ key' = key + 1 /\ submissions' = Form!Aborted /\ selection' = {}
      /\ submitting' = FALSE /\ failed' = FALSE /\ step' = "select"
      /\ UNCHANGED <<options, awaited, fetched, listed>>
  BY DEF Form!StartOver, Form!optionVars
<1>2. Form!TypeOK /\ key \in Nat
  BY DEF FormInv, Form!TypeOK
<1>3. /\ Form!Aborted \subseteq Submissions
      /\ \A c \in Form!Aborted : c.aborted /\ c.key <= key
  BY Aborting
<1>4. \A c \in Form!Aborted : c.key <= key' /\ c.key < key'
  BY <1>1, <1>2, <1>3, SMT DEF Submissions
<1>5. key' \in Nat
  BY <1>1, <1>2
<1>6. Form!TypeOK'
  BY <1>1, <1>2, <1>3, <1>5, Zenon DEF Form!TypeOK, Submissions
<1>7. Form!SubmissionsFit'
  BY <1>1, <1>3, <1>4, Zenon DEF Form!SubmissionsFit
<1>8. Form!FormIsHonest'
  BY <1>1, <1>3, Zenon
     DEF Form!FormIsHonest, Form!ResultMatchesSelection, Form!SubmittingIsTrue,
         Form!SelectionIsOffered
<1> QED BY <1>1, <1>6, <1>7, <1>8, ListsStay DEF FormInv

\* Only the answer to the latest submission is heard.
LEMMA AnswerKeeps == ASSUME FormInv, NEW c \in submissions, Form!Answer(c) PROVE FormInv'
<1>1. /\ submissions' = submissions \ {c}
      /\ UNCHANGED <<options, awaited, fetched, listed, selection, key>>
      /\ submitting' = IF c.key = key THEN FALSE ELSE submitting
  BY DEF Form!Answer, Form!optionVars
<1>2. Form!TypeOK /\ Form!SubmissionsFit /\ Form!FormIsHonest
  BY DEF FormInv
<1>3. \A d \in submissions : ~d.aborted <=> d.key = key
  BY LiveIsLatest
<1>4. Form!SelectionIsOffered'
  BY <1>1, <1>2, Zenon DEF Form!FormIsHonest, Form!SelectionIsOffered
<1>5. CASE c.key = key
  <2>1. ~c.aborted /\ Form!Heard(c)
    BY <1>3, <1>5, Zenon DEF Form!Heard
  <2>2. /\ step = "review" /\ c.body = selection /\ Form!HasPrimaryContext
        /\ \A d \in submissions' : d.aborted
    BY <1>1, <1>2, <2>1, Zenon DEF Form!SubmissionsFit
  <2>3. \/ result' = c.body /\ step' = "results" /\ UNCHANGED failed
        \/ failed' = TRUE /\ UNCHANGED <<result, step>>
    BY <2>1, Zenon DEF Form!Answer
  <2>4. Form!TypeOK'
    <3>1. step' \in {"select", "review", "results"} /\ failed' \in BOOLEAN
      BY <1>2, <2>3, Zenon DEF Form!TypeOK
    <3> QED BY <1>1, <1>2, <1>5, <3>1, Zenon DEF Form!TypeOK
  <2>5. Form!SubmissionsFit'
    BY <1>1, <1>2, <2>2, <2>3, Zenon DEF Form!SubmissionsFit, Form!HasPrimaryContext
  <2>6. Form!SubmittingIsTrue'
    BY <1>1, <1>5, <2>2, Zenon DEF Form!SubmittingIsTrue
  <2>7. Form!ResultMatchesSelection'
    BY <1>1, <2>2, <2>3, Zenon DEF Form!ResultMatchesSelection, Form!HasPrimaryContext
  <2> QED BY <1>1, <1>4, <2>4, <2>5, <2>6, <2>7, ListsStay DEF FormInv, Form!FormIsHonest
<1>6. CASE c.key # key
  <2>1. c.aborted /\ ~Form!Heard(c)
    BY <1>3, <1>6, Zenon DEF Form!Heard
  <2>2. UNCHANGED <<result, step, failed, submitting>>
    BY <1>1, <1>6, <2>1, Zenon DEF Form!Answer
  <2>3. Form!TypeOK'
    BY <1>1, <1>2, <2>2, Zenon DEF Form!TypeOK
  <2>4. Form!SubmissionsFit'
    BY <1>1, <1>2, <2>2, Zenon DEF Form!SubmissionsFit, Form!HasPrimaryContext
  <2>5. Form!SubmittingIsTrue'
    <3>1. submitting <=> \E d \in submissions : d.key = key /\ ~d.aborted
      BY <1>2, Zenon DEF Form!FormIsHonest, Form!SubmittingIsTrue
    <3>2. (submitting' <=> submitting) /\ key' = key
      <4>1. submitting' = submitting /\ key' = key
        BY <1>1, <2>2
      <4> QED BY <4>1, Zenon
    <3>3. (\E d \in submissions : d.key = key /\ ~d.aborted)
             <=> \E d \in submissions' : d.key = key /\ ~d.aborted
      BY <1>1, <2>1, Zenon
    <3> QED BY <3>1, <3>2, <3>3, Zenon DEF Form!SubmittingIsTrue
  <2>6. Form!ResultMatchesSelection'
    BY <1>1, <1>2, <2>2, Zenon
       DEF Form!FormIsHonest, Form!ResultMatchesSelection, Form!HasPrimaryContext
  <2> QED BY <1>1, <1>4, <2>3, <2>4, <2>5, <2>6, ListsStay DEF FormInv, Form!FormIsHonest
<1> QED BY <1>5, <1>6

\* A step that does not concern the form leaves it as it is.
LEMMA FormStays == ASSUME FormInv, UNCHANGED formVars PROVE FormInv'
<1>1. UNCHANGED <<options, awaited, fetched, listed, step, selection, result, submitting, failed,
                  key, submissions>>
  BY DEF formVars
<1>2. Form!TypeOK' /\ Form!SubmissionsFit'
  BY <1>1, Zenon DEF FormInv, Form!TypeOK, Form!SubmissionsFit, Form!HasPrimaryContext
<1>3. Form!FormIsHonest'
  BY <1>1, Zenon
     DEF FormInv, Form!FormIsHonest, Form!ResultMatchesSelection, Form!SubmittingIsTrue,
         Form!SelectionIsOffered, Form!HasPrimaryContext
<1> QED BY <1>1, <1>2, <1>3, ListsStay DEF FormInv

\* What makes the form's theorem inductive: at most the latest submission can be heard.
LEMMA FormInvHolds == WebSpec => []FormInv
<1>1. WebInit => FormInv
  BY FormStarts DEF WebInit
<1>2. FormInv /\ [WebNext]_allVars => FormInv'
  <2> SUFFICES ASSUME FormInv, [WebNext]_allVars PROVE FormInv'
    OBVIOUS
  <2>1. CASE Form!Next
    BY <2>1, OptionsKeep, SelectingKeeps, SubmitKeeps, StartOverKeeps, AnswerKeeps, Zenon
       DEF Form!Next
  <2>2. CASE UNCHANGED formVars
    BY <2>2, FormStays
  <2>3. WebNext => Form!Next \/ UNCHANGED formVars
    BY Zenon DEF WebNext
  <2>4. UNCHANGED allVars => UNCHANGED formVars
    BY DEF allVars
  <2> QED BY <2>1, <2>2, <2>3, <2>4
<1> QED BY <1>1, <1>2, PTL DEF WebSpec

\* For any families, choices and limits, and any number of submissions, double clicks,
\* failed loads and late answers: the results on display are those of the selection the
\* form holds, it says that it is ranking exactly while its latest submission is
\* unanswered, and what is selected stays among the options (submissionKey and the
\* AbortController of recommendation-flow.tsx).
THEOREM FormStaysHonest == WebSpec => []FormIsHonest
<1>1. FormInv => FormIsHonest
  BY DEF FormInv, FormIsHonest
<1> QED BY <1>1, FormInvHolds, PTL

-----------------------------------------------------------------------------
(* The feedback list, in pages of p games: WebPages has it with two page sizes. *)

\* The games whose feedback was added to since the load began are at the front of the list.
Moved == {g \in Games : \E t \in rows[g] : t > 0}

\* The number of places that the pages read so far have covered.
Border(p) == (loader.page - 1) * p

\* The saved rows and the history.
RowsFit ==
    /\ now \in Nat /\ rows \in [Games -> SUBSET {t \in Int : t <= now}]
    /\ untouched \subseteq Games /\ twice \in BOOLEAN
    /\ \A g \in untouched : \A t \in rows[g] : t <= 0

\* What was read and has been cleared since is made up for by games that came to the front
\* and were missed, as many as keep the count of the server.
Balanced ==
    Cardinality(loader.got \ Listed) + Cardinality(Listed)
        <= Cardinality(Moved \ loader.got) + loader.total

\* A load in which every page brought new games only; when more games have moved than it has
\* passed places, all it has passed have.
LoadFits(p) ==
    /\ Cardinality(loader.got) <= Border(p)
    /\ loader.page > 1 => Border(p) < loader.total /\ loader.total <= Cardinality(Games)
    /\ loader.page > 1 /\ ~twice /\ Cardinality(loader.got) = Border(p) =>
         Border(p) <= Cardinality(Moved) \/ Balanced

ListFits(p) ==
    /\ RowsFit
    /\ loader \in Loading /\ loader.page > 0
    /\ loader.page > 2 => (loader.page - 2) * p < Cardinality(Games)
    /\ loader.got \cap untouched \subseteq Listed
    /\ loader.result = "loading" => LoadFits(p)
    /\ ListIsComplete

\* ReadPage with pages of p games.
PageOf(p, n) ==
    [total |-> Cardinality(Listed),
     items |-> {g \in Listed : (n - 1) * p < Rank(g) /\ Rank(g) <= n * p}]

Expected(p, total) == IF total = 0 THEN 1 ELSE (total + p - 1) \div p

NextLoader(p) ==
    [page |-> loader.page + 1, total |-> PageOf(p, loader.page).total,
     got |-> loader.got \cup PageOf(p, loader.page).items, result |-> "loading"]

ReadOf(p) ==
    /\ loader.result = "loading"
    /\ \/ loader' = [loader EXCEPT !.result = "rejected"]
       \/ /\ Acceptable(PageOf(p, loader.page))
          /\ loader.page < Expected(p, PageOf(p, loader.page).total)
          /\ loader' = NextLoader(p)
       \/ /\ Acceptable(PageOf(p, loader.page))
          /\ loader' = [NextLoader(p) EXCEPT !.result = Conclusion(NextLoader(p))]
    /\ UNCHANGED <<rows, now, untouched, twice>>

LEMMA BothRead == /\ ReadPage => ReadOf(PageSize)
                  /\ OneByOne!ReadPage => ReadOf(1)
<1>1. ReadPage => ReadOf(PageSize)
  BY Zenon DEF ReadPage, ReadOf, Page, PageOf, ExpectedPages, Expected, NextLoader
<1>2. /\ \A page : OneByOne!Acceptable(page) <=> Acceptable(page)
      /\ \A l : OneByOne!Conclusion(l) = Conclusion(l)
      /\ \A n : OneByOne!ExpectedPages(n) = Expected(1, n)
      /\ \A n : OneByOne!Page(n) = PageOf(1, n)
  <2>1. \A S : OneByOne!Cardinality(S) = Cardinality(S)
    BY Zenon DEF OneByOne!Cardinality, Cardinality
  <2>2. OneByOne!Listed = Listed
    BY Zenon DEF OneByOne!Listed, Listed
  <2>3. \A g : OneByOne!Rank(g) = Rank(g)
    BY <2>1, <2>2, Zenon
       DEF OneByOne!Rank, Rank, OneByOne!Before, Before, OneByOne!Latest, Latest
  <2>4. \A n : OneByOne!Page(n) = PageOf(1, n)
    BY <2>1, <2>2, <2>3, SMT DEF OneByOne!Page, PageOf
  <2>5. \A page : OneByOne!Acceptable(page) <=> Acceptable(page)
    BY Zenon DEF OneByOne!Acceptable, Acceptable
  <2>6. \A l : OneByOne!Conclusion(l) = Conclusion(l)
    BY <2>1, Zenon DEF OneByOne!Conclusion, Conclusion
  <2>7. \A n : OneByOne!ExpectedPages(n) = Expected(1, n)
    BY Zenon DEF OneByOne!ExpectedPages, Expected
  <2> QED BY <2>4, <2>5, <2>6, <2>7
<1>3. OneByOne!ReadPage => ReadOf(1)
  BY <1>2, Zenon DEF OneByOne!ReadPage, ReadOf, NextLoader
<1> QED BY <1>1, <1>3

-----------------------------------------------------------------------------
\* Sets of natural numbers have a least member.
LEMMA LeastNatural ==
    ASSUME NEW T, T \subseteq Nat, T # {} PROVE \E x \in T : \A y \in T : x <= y
<1> DEFINE R == OpToRel(<, Nat)
<1>1. IsWellFoundedOn(R, Nat)
  BY NatLessThanWellFounded
<1>2. \A x, y \in Nat : x < y => <<x, y>> \in R
  BY DEF OpToRel
<1> HIDE DEF R
<1>3. PICK x \in T : \A y \in T : ~ (<<y, x>> \in R)
  BY <1>1, WFMin
<1>4. \A y \in T : ~(y < x)
  BY <1>2, <1>3
<1> QED BY <1>4

LEMMA LatestIs ==
    ASSUME RowsFit, NEW g \in Listed
    PROVE  Latest(g) \in Int /\ Latest(g) \in rows[g] /\ \A t \in rows[g] : t <= Latest(g)
<1>1. now \in Nat /\ rows[g] \subseteq {t \in Int : t <= now} /\ rows[g] # {}
  BY DEF RowsFit, Listed
<1> DEFINE T == {now - t : t \in rows[g]}
<1>2. T \subseteq Nat /\ T # {}
  BY <1>1
<1>3. PICK x \in T : \A y \in T : x <= y
  BY <1>2, LeastNatural
<1>4. PICK t \in rows[g] : x = now - t
  BY <1>3
<1>5. \A u \in rows[g] : now - t <= now - u
  BY <1>3, <1>4
<1>6. \A u \in rows[g] : u <= t
  BY <1>1, <1>5
<1>7. Latest(g) \in rows[g] /\ \A u \in rows[g] : u <= Latest(g)
  BY <1>6, Zenon DEF Latest
<1> QED BY <1>1, <1>7

\* The order of the list is total, and games that moved are in front of the others.
LEMMA BeforeIsTotal ==
    ASSUME RowsFit
    PROVE  /\ \A g \in Listed : ~Before(g, g)
           /\ \A g, h \in Listed : g # h => Before(g, h) \/ Before(h, g)
           /\ \A g, h, i \in Listed : Before(g, h) /\ Before(h, i) => Before(g, i)
           /\ \A g \in Moved : g \in Listed
           /\ \A g \in Moved : \A h \in Listed \ Moved : Before(g, h) /\ ~Before(h, g)
<1>1. \A g \in Listed : Latest(g) \in Int /\ g \in Nat
  BY LatestIs, PagesAssumption DEF Listed
<1>2. /\ \A g \in Listed : ~Before(g, g)
      /\ \A g, h \in Listed : g # h => Before(g, h) \/ Before(h, g)
      /\ \A g, h, i \in Listed : Before(g, h) /\ Before(h, i) => Before(g, i)
  BY <1>1 DEF Before
<1>3. \A g \in Moved : g \in Listed
  BY DEF Moved, Listed
<1>4. ASSUME NEW g \in Moved, NEW h \in Listed \ Moved PROVE Latest(g) > 0 /\ Latest(h) <= 0
  <2>1. PICK t \in rows[g] : t > 0
    BY DEF Moved
  <2>2. Latest(g) >= t /\ t \in Int
    BY <1>3, <2>1, LatestIs DEF RowsFit, Moved
  <2>3. ~(Latest(h) > 0)
    BY LatestIs, Zenon DEF Moved, Listed
  <2> QED BY <1>1, <1>3, <2>1, <2>2, <2>3
<1>5. ASSUME NEW g \in Moved, NEW h \in Listed \ Moved PROVE Before(g, h) /\ ~Before(h, g)
  BY <1>1, <1>3, <1>4 DEF Before
<1> QED BY <1>2, <1>3, <1>5, Zenon

\* The places of the listed games are 1, 2, ... and each is taken once.
LEMMA RanksAreDistinct ==
    ASSUME RowsFit
    PROVE  /\ IsFiniteSet(Listed) /\ Cardinality(Listed) \in Nat
           /\ [g \in Listed |-> Rank(g)] \in Injection(Listed, 1..Cardinality(Listed))
<1> DEFINE above(g) == {h \in Listed : Before(h, g)}
<1>1. IsFiniteSet(Listed) /\ Cardinality(Listed) \in Nat
  BY PagesAssumption, FS_Subset, FS_CardinalityType, Listed \subseteq Games DEF Listed
<1>2. ASSUME NEW g \in Listed
      PROVE  /\ IsFiniteSet(above(g)) /\ Cardinality(above(g)) \in Nat
             /\ Cardinality(above(g)) < Cardinality(Listed)
  <2>1. above(g) \subseteq Listed \ {g}
    BY BeforeIsTotal
  <2>2. IsFiniteSet(Listed \ {g}) /\ Cardinality(Listed \ {g}) = Cardinality(Listed) - 1
    BY <1>1, FS_RemoveElement
  <2>3. IsFiniteSet(above(g)) /\ Cardinality(above(g)) <= Cardinality(Listed) - 1
    BY <2>1, <2>2, FS_Subset
  <2>4. Cardinality(above(g)) \in Nat
    BY <2>3, FS_CardinalityType
  <2> QED BY <1>1, <2>3, <2>4
<1>3. ASSUME NEW g \in Listed, NEW h \in Listed, Before(g, h)
      PROVE  Cardinality(above(g)) < Cardinality(above(h))
  <2>1. above(g) \subseteq above(h)
    BY <1>3, BeforeIsTotal, Zenon
  <2>2. g \in above(h) /\ g \notin above(g)
    BY <1>3, BeforeIsTotal
  <2>3. /\ Cardinality(above(g)) <= Cardinality(above(h))
        /\ Cardinality(above(g)) # Cardinality(above(h))
    BY <1>2, <2>1, <2>2, FS_Subset
  <2> QED BY <1>2, <2>3
<1>4. \A g \in Listed : Rank(g) = 1 + Cardinality(above(g))
  BY DEF Rank
<1> HIDE DEF above
<1>5. \A g \in Listed : Rank(g) \in 1..Cardinality(Listed)
  BY <1>1, <1>2, <1>4
<1>6. ASSUME NEW g \in Listed, NEW h \in Listed, Rank(g) = Rank(h) PROVE g = h
  <2>1. Cardinality(above(g)) = Cardinality(above(h))
    BY <1>2, <1>4, <1>6
  <2>2. Cardinality(above(g)) \in Nat
    BY <1>2
  <2>3. ~Before(g, h) /\ ~Before(h, g)
    BY <1>3, <2>1, <2>2
  <2> QED BY <2>3, BeforeIsTotal
<1> DEFINE rank == [g \in Listed |-> Rank(g)]
<1>7. /\ rank \in [Listed -> 1..Cardinality(Listed)]
      /\ \A g, h \in Listed : rank[g] = rank[h] => g = h
  BY <1>5, <1>6
<1> HIDE DEF rank
<1>8. rank \in Injection(Listed, 1..Cardinality(Listed))
  BY <1>7 DEF Injection, IsInjective
<1> QED BY <1>1, <1>8 DEF rank

LEMMA RanksAreInt == ASSUME RowsFit PROVE \A g \in Listed : Rank(g) \in Int /\ Rank(g) >= 1
<1> DEFINE rank == [g \in Listed |-> Rank(g)]
<1>1. rank \in Injection(Listed, 1..Cardinality(Listed))
  BY RanksAreDistinct
<1>2. rank \in [Listed -> 1..Cardinality(Listed)]
  <2> HIDE DEF rank
  <2> QED BY <1>1 DEF Injection, IsInjective
<1> QED BY <1>2, RanksAreDistinct

\* The games at the places after a, up to b: no more than places, and none left out in front.
LEMMA PlacesAre ==
    ASSUME RowsFit, NEW a \in Nat, NEW b \in Nat, a <= b
    PROVE  LET at == {g \in Listed : a < Rank(g) /\ Rank(g) <= b}
           IN  /\ IsFiniteSet(at) /\ Cardinality(at) \in Nat
               /\ Cardinality(at) <= b - a
               /\ a <= Cardinality(Listed) => Cardinality(at) <= Cardinality(Listed) - a
               /\ a = 0 /\ b <= Cardinality(Listed) => b <= Cardinality(at)
<1> DEFINE at == {g \in Listed : a < Rank(g) /\ Rank(g) <= b}
           n == Cardinality(Listed)
           rank == [g \in Listed |-> Rank(g)]
           part == [g \in at |-> Rank(g)]
<1>1. /\ IsFiniteSet(Listed) /\ n \in Nat /\ rank \in Injection(Listed, 1..n)
      /\ IsFiniteSet(1..n) /\ Cardinality(1..n) = n
  BY RanksAreDistinct, FS_Interval
<1>2. /\ \A g \in Listed : Rank(g) \in 1..n
      /\ \A g, h \in Listed : Rank(g) = Rank(h) => g = h
  <2>1. /\ rank \in [Listed -> 1..n]
        /\ \A g, h \in Listed : rank[g] = rank[h] => g = h
    <3> HIDE DEF rank, n
    <3> QED BY <1>1 DEF Injection, IsInjective
  <2> QED BY <2>1
<1>3. IsFiniteSet(at) /\ Cardinality(at) \in Nat
  BY <1>1, FS_Subset, FS_CardinalityType, at \subseteq Listed
<1>4. Cardinality(at) <= b - a
  <2>1. IsFiniteSet((a + 1)..b) /\ Cardinality((a + 1)..b) = b - a
    <3>1. a + 1 \in Int /\ b \in Int
      OBVIOUS
    <3>2. /\ IsFiniteSet((a + 1)..b)
          /\ Cardinality((a + 1)..b) = IF a + 1 > b THEN 0 ELSE b - (a + 1) + 1
      BY <3>1, FS_Interval
    <3> QED BY <3>2
  <2>2. part \in [at -> (a + 1)..b] /\ \A g, h \in at : part[g] = part[h] => g = h
    BY <1>2
  <2> HIDE DEF part, at
  <2>3. part \in Injection(at, (a + 1)..b)
    BY <2>2 DEF Injection, IsInjective
  <2> QED BY <2>1, <2>3, FS_Injection
<1>5. ASSUME a <= n PROVE Cardinality(at) <= n - a
  <2>1. IsFiniteSet((a + 1)..n) /\ Cardinality((a + 1)..n) = n - a
    <3>1. a + 1 \in Int /\ n \in Int
      BY <1>1
    <3>2. /\ IsFiniteSet((a + 1)..n)
          /\ Cardinality((a + 1)..n) = IF a + 1 > n THEN 0 ELSE n - (a + 1) + 1
      BY <3>1, FS_Interval
    <3> HIDE DEF n
    <3> QED BY <1>1, <1>5, <3>2
  <2>2. part \in [at -> (a + 1)..n] /\ \A g, h \in at : part[g] = part[h] => g = h
    BY <1>1, <1>2
  <2> HIDE DEF part, at, n
  <2>3. part \in Injection(at, (a + 1)..n)
    BY <2>2 DEF Injection, IsInjective
  <2> QED BY <2>1, <2>3, FS_Injection
<1>6. ASSUME a = 0, b <= n PROVE b <= Cardinality(at)
  <2>1. IsFiniteSet(1..b) /\ Cardinality(1..b) = b
    BY FS_Interval, SMT
  <2>2. rank \in Surjection(Listed, 1..n)
    <3> HIDE DEF rank, n
    <3> QED BY <1>1, FS_Injection DEF n
  <2>3. \A i \in 1..n : \E g \in Listed : Rank(g) = i
    <3>1. \A i \in 1..n : \E g \in Listed : rank[g] = i
      <4> HIDE DEF rank, n
      <4> QED BY <2>2 DEF Surjection
    <3> QED BY <3>1
  <2>4. part \in [at -> 1..b] /\ \A i \in 1..b : \E g \in at : part[g] = i
    <3>1. part \in [at -> 1..b]
      BY <1>2, <1>6
    <3>2. ASSUME NEW i \in 1..b PROVE \E g \in at : part[g] = i
      <4>1. i \in 1..n
        BY <1>1, <1>6
      <4>2. PICK g \in Listed : Rank(g) = i
        BY <2>3, <4>1
      <4>3. g \in at
        BY <1>6, <4>2
      <4> QED BY <4>2, <4>3
    <3> QED BY <3>1, <3>2
  <2> HIDE DEF part, at, n
  <2>5. part \in Surjection(at, 1..b)
    BY <2>4 DEF Surjection
  <2> QED BY <1>3, <2>1, <2>5, FS_Surjection
<1> QED BY <1>3, <1>4, <1>5, <1>6

\* Games that moved have the first places.
LEMMA MovedAreFirst ==
    ASSUME RowsFit
    PROVE  /\ IsFiniteSet(Moved) /\ Cardinality(Moved) \in Nat
           /\ Cardinality(Moved) <= Cardinality(Listed)
           /\ \A g \in Moved : Rank(g) <= Cardinality(Moved)
           /\ \A g \in Listed \ Moved : Rank(g) > Cardinality(Moved)
<1> DEFINE above(g) == {h \in Listed : Before(h, g)}
           m == Cardinality(Moved)
<1>1. IsFiniteSet(Listed)
  BY RanksAreDistinct
<1>2. Moved \subseteq Listed
  BY BeforeIsTotal
<1>3. /\ IsFiniteSet(Moved) /\ m \in Nat /\ m <= Cardinality(Listed)
  BY <1>1, <1>2, FS_Subset, FS_CardinalityType
<1>4. ASSUME NEW g \in Moved PROVE Rank(g) <= m
  <2>1. above(g) \subseteq Moved \ {g}
    BY <1>2, BeforeIsTotal
  <2>2. IsFiniteSet(Moved \ {g}) /\ Cardinality(Moved \ {g}) = m - 1
    BY <1>3, FS_RemoveElement
  <2>3. Cardinality(above(g)) <= m - 1 /\ Cardinality(above(g)) \in Nat
    BY <2>1, <2>2, FS_Subset, FS_CardinalityType
  <2>4. Rank(g) = 1 + Cardinality(above(g))
    BY DEF Rank
  <2> HIDE DEF above, m
  <2> QED BY <1>3, <2>3, <2>4
<1>5. ASSUME NEW g \in Listed \ Moved PROVE Rank(g) > m
  <2>1. Moved \subseteq above(g)
    BY <1>2, BeforeIsTotal
  <2>2. IsFiniteSet(above(g)) /\ above(g) \subseteq Listed
    BY <1>1, FS_Subset
  <2>3. m <= Cardinality(above(g)) /\ Cardinality(above(g)) \in Nat
    BY <2>1, <2>2, FS_Subset, FS_CardinalityType
  <2>4. Rank(g) = 1 + Cardinality(above(g))
    BY DEF Rank
  <2> HIDE DEF above, m
  <2> QED BY <1>3, <2>3, <2>4
<1> QED BY <1>3, <1>4, <1>5

-----------------------------------------------------------------------------
\* The load begins with nothing.
LEMMA ListStarts == ASSUME Init, NEW p \in Nat \ {0} PROVE ListFits(p)
<1>1. /\ rows \in [Games -> SUBSET {t \in Int : t <= 0}] /\ now = 0
      /\ loader = [page |-> 1, total |-> 0, got |-> {}, result |-> "loading"]
      /\ untouched = Games /\ twice = FALSE
  BY PagesAssumption DEF Init
<1>2. RowsFit
  BY <1>1 DEF RowsFit
<1>3. loader \in Loading /\ loader.page = 1 /\ loader.got = {} /\ loader.result = "loading"
  BY <1>1 DEF Loading
<1>4. Border(p) = 0
  BY <1>3 DEF Border
<1>5. LoadFits(p)
  BY <1>3, <1>4, FS_EmptySet DEF LoadFits
<1> QED BY <1>2, <1>3, <1>5, SMT DEF ListFits, ListIsComplete

\* A load that has ended stays as it is.
LEMMA EndedFits ==
    ASSUME NEW p \in Nat \ {0}, ListFits(p), NEW r \in {"rejected", "abandoned"},
           loader' = [loader EXCEPT !.result = r], UNCHANGED <<rows, now, untouched, twice>>
    PROVE  ListFits(p)'
<1>1. loader' \in Loading /\ loader'.page = loader.page /\ loader'.got = loader.got
      /\ loader'.result = r
  BY DEF ListFits, Loading
<1>2. RowsFit' /\ Listed' = Listed
  BY DEF ListFits, RowsFit, Listed
<1> QED BY <1>1, <1>2, SMT DEF ListFits, ListIsComplete

LEMMA GiveUpFits ==
    ASSUME NEW p \in Nat \ {0}, ListFits(p), GiveUp PROVE ListFits(p)'
BY EndedFits, Zenon DEF GiveUp

LEMMA ListStays ==
    ASSUME NEW p \in Nat \ {0}, ListFits(p), UNCHANGED listVars PROVE ListFits(p)'
<1>1. UNCHANGED <<rows, now, loader, untouched, twice>>
  BY DEF listVars
<1>2. Listed' = Listed /\ Moved' = Moved
  BY <1>1 DEF Listed, Moved
<1>3. RowsFit' /\ LoadFits(p)' = LoadFits(p) /\ (ListIsComplete' <=> ListIsComplete)
  BY <1>1, <1>2, Zenon DEF ListFits, RowsFit, LoadFits, Border, Balanced, ListIsComplete
<1> QED BY <1>1, <1>2, <1>3, Zenon DEF ListFits

\* The sets that the balance counts.
LEMMA Counted ==
    ASSUME RowsFit, loader \in Loading
    PROVE  /\ IsFiniteSet(Games) /\ Cardinality(Games) \in Nat
           /\ \A S \in SUBSET Games : IsFiniteSet(S) /\ Cardinality(S) \in Nat
           /\ Moved \subseteq Listed /\ Listed \subseteq Games /\ loader.got \subseteq Games
BY PagesAssumption, FS_Subset, FS_CardinalityType, BeforeIsTotal DEF Listed, Loading

\* Another tab's change: as long as no game changes twice, who moved stays in front, and
\* what is cleared is no more than what the list is shorter.
LEMMA ChangeFits ==
    ASSUME NEW p \in Nat \ {0}, ListFits(p), NEW g \in Games, Change(g)
    PROVE  ListFits(p)'
<1>1. PICK kept \in SUBSET rows[g], added \in {{}, {now'}} :
         /\ kept \cup added # rows[g]
         /\ rows' = [rows EXCEPT ![g] = kept \cup added]
  BY Zenon DEF Change
<1>2. /\ now' = now + 1 /\ untouched' = untouched \ {g}
      /\ (twice' <=> twice \/ g \notin untouched)
      /\ UNCHANGED loader /\ loader.result = "loading"
  BY Zenon DEF Change
<1>3. /\ RowsFit /\ loader \in Loading /\ LoadFits(p) /\ loader.page > 0
      /\ loader.page > 2 => (loader.page - 2) * p < Cardinality(Games)
      /\ loader.got \cap untouched \subseteq Listed
  BY <1>2, Zenon DEF ListFits
<1>4. /\ rows'[g] = kept \cup added
      /\ \A h \in Games \ {g} : rows'[h] = rows[h]
      /\ rows' \in [Games -> SUBSET {t \in Int : t <= now'}]
      /\ now' \in Nat
  <2>1. rows \in [Games -> SUBSET {t \in Int : t <= now}] /\ now \in Nat
    BY <1>3, Zenon DEF RowsFit
  <2>2. \A t \in Int : t <= now => t <= now'
    BY <1>2, <2>1
  <2>3. kept \cup added \in SUBSET {t \in Int : t <= now'}
    <3>1. rows[g] \subseteq {t \in Int : t <= now}
      BY <2>1
    <3>2. kept \subseteq {t \in Int : t <= now'}
      BY <2>2, <3>1
    <3>3. now' \in Int /\ now' <= now'
      BY <1>2, <2>1
    <3> QED BY <3>2, <3>3
  <2>4. \A h \in Games : rows[h] \in SUBSET {t \in Int : t <= now'}
    BY <2>1, <2>2
  <2> QED BY <1>1, <1>2, <2>1, <2>3, <2>4
<1>5. RowsFit'
  <2>1. untouched' \subseteq Games \ {g} /\ twice' \in BOOLEAN
    BY <1>2, <1>3, Zenon DEF RowsFit
  <2>2. \A h \in untouched' : rows'[h] = rows[h] /\ h \in untouched
    BY <1>2, <1>4, <2>1
  <2>3. \A h \in untouched' : \A t \in rows'[h] : t <= 0
    BY <1>3, <2>2, Zenon DEF RowsFit
  <2> QED BY <1>4, <2>1, <2>3, Zenon DEF RowsFit
<1>6. loader.got \cap untouched' \subseteq Listed'
  BY <1>2, <1>3, <1>4, Zenon DEF Listed
<1>7. ASSUME loader.page > 1, ~twice', Cardinality(loader.got) = Border(p)
      PROVE  Border(p) <= Cardinality(Moved') \/ Balanced'
  <2>1. g \in untouched /\ ~twice
    BY <1>2, <1>7
  <2>2. \A t \in rows[g] : t <= 0
    BY <1>3, <2>1 DEF RowsFit
  <2>3. g \notin Moved
    BY <1>3, <2>2 DEF Moved, RowsFit
  <2>4. /\ Moved \subseteq Games /\ Listed \subseteq Games
        /\ \A S \in SUBSET Games : IsFiniteSet(S) /\ Cardinality(S) \in Nat
        /\ IsFiniteSet(Moved) /\ Cardinality(Moved) \in Nat
        /\ IsFiniteSet(Listed) /\ Cardinality(Listed) \in Nat
        /\ IsFiniteSet(Moved \ loader.got) /\ Cardinality(Moved \ loader.got) \in Nat
        /\ IsFiniteSet(loader.got \ Listed) /\ Cardinality(loader.got \ Listed) \in Nat
    <3>1. /\ \A S \in SUBSET Games : IsFiniteSet(S) /\ Cardinality(S) \in Nat
          /\ Moved \subseteq Games /\ Listed \subseteq Games /\ loader.got \subseteq Games
      BY <1>3, Counted
    <3>2. Moved \ loader.got \subseteq Games /\ loader.got \ Listed \subseteq Games
      BY <3>1
    <3> QED BY <3>1, <3>2
  <2>5. Border(p) \in Int
    BY <1>3, SMT DEF Border, Loading
  <2>6. loader.total \in Nat
    BY <1>3 DEF Loading
  <2>7. Border(p) <= Cardinality(Moved) \/ Balanced
    BY <1>3, <1>7, <2>1, Zenon DEF LoadFits
  <2>8. CASE added = {now'}
    <3>1. Moved' = Moved \cup {g} /\ Listed' = Listed \cup {g}
      BY <1>2, <1>3, <1>4, <2>8 DEF Moved, Listed, RowsFit
    <3>2. Cardinality(Moved') = Cardinality(Moved) + 1
      BY <2>3, <2>4, <3>1, FS_AddElement
    <3>3. CASE Border(p) <= Cardinality(Moved)
      BY <2>4, <2>5, <3>2, <3>3
    <3>4. CASE Balanced /\ g \in Listed
      <4>1. Listed' = Listed
        BY <3>1, <3>4
      <4>2. Moved \ loader.got \subseteq Moved' \ loader.got
        BY <3>1
      <4>3. Moved' \ loader.got \subseteq Games
        BY <2>4, <3>1
      <4>4. Cardinality(Moved \ loader.got) <= Cardinality(Moved' \ loader.got)
        BY <2>4, <4>2, <4>3, FS_Subset
      <4> QED BY <1>2, <2>4, <2>6, <3>4, <4>1, <4>3, <4>4, SMT DEF Balanced
    <3>5. CASE Balanced /\ g \notin Listed
      <4>1. g \notin loader.got
        BY <1>3, <2>1, <3>5
      <4>2. /\ loader.got \ Listed' = loader.got \ Listed
            /\ Moved' \ loader.got = (Moved \ loader.got) \cup {g}
        BY <3>1, <4>1
      <4>3. Cardinality(Listed') = Cardinality(Listed) + 1
        BY <2>4, <3>1, <3>5, FS_AddElement
      <4>4. Cardinality(Moved' \ loader.got) = Cardinality(Moved \ loader.got) + 1
        BY <2>3, <2>4, <4>2, FS_AddElement
      <4>5. Balanced' <=> Cardinality(loader.got \ Listed') + Cardinality(Listed')
                            <= Cardinality(Moved' \ loader.got) + loader.total
        BY <1>2, Zenon DEF Balanced
      <4>6. Cardinality(loader.got \ Listed') = Cardinality(loader.got \ Listed)
        BY <4>2
      <4>7. Cardinality(loader.got \ Listed) + Cardinality(Listed)
              <= Cardinality(Moved \ loader.got) + loader.total
        BY <3>5 DEF Balanced
      <4> QED BY <2>4, <2>6, <4>3, <4>4, <4>5, <4>6, <4>7
    <3> QED BY <2>7, <3>3, <3>4, <3>5
  <2>9. CASE added = {}
    <3>1. Moved' = Moved
      BY <1>3, <1>4, <2>2, <2>3, <2>9 DEF Moved, RowsFit
    <3>2. CASE Border(p) <= Cardinality(Moved)
      BY <3>1, <3>2
    <3>3. CASE Balanced /\ kept # {}
      <4>1. Listed' = Listed
        BY <1>4, <2>9, <3>3, <1>1 DEF Listed
      <4> QED BY <1>2, <3>1, <3>3, <4>1, Zenon DEF Balanced
    <3>4. CASE Balanced /\ kept = {}
      <4>1. g \in Listed /\ Listed' = Listed \ {g}
        BY <1>1, <1>4, <2>9, <3>4 DEF Listed
      <4>2. Cardinality(Listed') = Cardinality(Listed) - 1
        BY <2>4, <4>1, FS_RemoveElement
      <4>3. /\ IsFiniteSet((loader.got \ Listed) \cup {g})
            /\ Cardinality((loader.got \ Listed) \cup {g}) = Cardinality(loader.got \ Listed) + 1
        BY <2>4, <4>1, FS_AddElement
      <4>4. loader.got \ Listed' \subseteq (loader.got \ Listed) \cup {g}
        BY <4>1
      <4>5. /\ Cardinality(loader.got \ Listed') <= Cardinality(loader.got \ Listed) + 1
            /\ Cardinality(loader.got \ Listed') \in Nat
        BY <4>3, <4>4, FS_Subset, FS_CardinalityType
      <4> QED BY <1>2, <2>4, <2>6, <3>1, <3>4, <4>2, <4>5, SMT DEF Balanced
    <3> QED BY <2>7, <3>2, <3>3, <3>4
  <2> QED BY <2>8, <2>9
<1>8. LoadFits(p)'
  <2>1. Border(p)' = Border(p)
    BY <1>2 DEF Border
  <2> QED BY <1>2, <1>3, <1>7, <2>1, Zenon DEF LoadFits
<1>9. ListIsComplete'
  BY <1>2, SMT DEF ListIsComplete
<1> QED BY <1>2, <1>3, <1>5, <1>6, <1>8, <1>9, Zenon DEF ListFits

\* As many pages as the first one promised reach beyond no more places than there are games.
LEMMA ExpectedIs ==
    ASSUME NEW p \in Nat \ {0}, NEW total \in Nat, NEW n \in Nat \ {0}, n < Expected(p, total)
    PROVE  n * p < total
<1>1. total # 0 /\ n < (total + p - 1) \div p
  BY DEF Expected
<1> DEFINE q == (total + p - 1) \div p
<1>2. q \in Int /\ q * p <= total + p - 1
  BY SMT
<1>3. n + 1 <= q
  BY <1>1, <1>2
<1> HIDE DEF q
<1>4. (n + 1) * p <= q * p
  BY <1>2, <1>3, SMT
<1>5. (n + 1) * p = n * p + p
  BY SMT
<1> QED BY <1>2, <1>4, <1>5

\* The next page: its items are new to the list or not, and if all it has read are new, what
\* it misses of the games that moved makes up for what was cleared.
LEMMA ReadingFits ==
    ASSUME NEW p \in Nat \ {0}, ListFits(p), loader.result = "loading",
           Acceptable(PageOf(p, loader.page))
    PROVE  LET got == loader.got \cup PageOf(p, loader.page).items
               total == Cardinality(Listed)
           IN  /\ got \subseteq Games /\ got \cap untouched \subseteq Listed
               /\ Cardinality(got) <= Border(p) + p /\ Cardinality(got) <= total
               /\ ~twice /\ (Cardinality(got) = Border(p) + p \/ Cardinality(got) = total)
                    => Cardinality(got \ Listed) <= Cardinality(Moved \ got)
<1> DEFINE b == Border(p)
           total == Cardinality(Listed)
           items == PageOf(p, loader.page).items
           old == loader.got
           got == old \cup items
           top == {g \in Listed : 0 < Rank(g) /\ Rank(g) <= b}
<1>1. /\ RowsFit /\ loader \in Loading /\ LoadFits(p) /\ loader.page > 0
      /\ old \cap untouched \subseteq Listed
  BY Zenon DEF ListFits
<1>2. /\ \A S \in SUBSET Games : IsFiniteSet(S) /\ Cardinality(S) \in Nat
      /\ Moved \subseteq Listed /\ Listed \subseteq Games /\ old \subseteq Games
  BY <1>1, Counted
<1>3. b \in Nat /\ loader.page * p = b + p
  <2>1. loader.page - 1 \in Nat /\ loader.page \in Nat
    BY <1>1 DEF Loading
  <2> QED BY <2>1, SMT DEF Border
<1>4. total \in Nat /\ b <= total /\ (loader.page > 1 => loader.total = total)
  <2>1. total \in Nat
    BY <1>2
  <2>2. CASE loader.page = 1
    BY <2>1, <2>2, SMT DEF Border
  <2>3. CASE loader.page > 1
    BY <1>1, <1>3, <2>1, <2>3, SMT DEF Acceptable, PageOf, LoadFits, Loading
  <2> QED BY <1>1, <2>1, <2>2, <2>3 DEF Loading
<1>5. items = {g \in Listed : b < Rank(g) /\ Rank(g) <= b + p}
  BY <1>3, Zenon DEF PageOf, Border
<1>6. /\ items \subseteq Listed /\ IsFiniteSet(items) /\ Cardinality(items) \in Nat
      /\ Cardinality(items) <= p /\ Cardinality(items) <= total - b
  <2>1. b + p \in Nat /\ b <= b + p /\ (b + p) - b = p
    BY <1>3
  <2> HIDE DEF b
  <2> QED BY <1>1, <1>3, <1>4, <1>5, <2>1, PlacesAre
<1>7. Cardinality(old) \in Nat /\ Cardinality(old) <= b
  BY <1>1, <1>2 DEF LoadFits
<1>8. Cardinality(got) \in Nat /\ Cardinality(got) <= Cardinality(old) + Cardinality(items)
  <2>1. /\ Cardinality(got) = Cardinality(old) + Cardinality(items) - Cardinality(old \cap items)
        /\ Cardinality(old \cap items) \in Nat
    BY <1>2, <1>6, FS_Union, FS_CardinalityType, FS_Intersection
  <2>2. Cardinality(got) \in Nat
    BY <1>2, <1>6
  <2> HIDE DEF items, got, old
  <2> QED BY <1>6, <1>7, <2>1, <2>2
<1>9. ASSUME ~twice, Cardinality(old) = b
      PROVE  Cardinality(got \ Listed) <= Cardinality(Moved \ got)
  <2>1. got \ Listed = old \ Listed
    BY <1>6
  <2>2. /\ Cardinality(old \ Listed) \in Nat /\ Cardinality(Moved \ got) \in Nat
        /\ Cardinality(Moved) \in Nat
    <3>1. old \ Listed \subseteq Games /\ Moved \ got \subseteq Games /\ Moved \subseteq Games
      BY <1>2
    <3> QED BY <1>2, <3>1
  <2>3. CASE b <= Cardinality(Moved)
    <3>1. Cardinality(Moved) <= total
      BY <1>1, MovedAreFirst
    <3>2. IsFiniteSet(top) /\ Cardinality(top) \in Nat /\ b <= Cardinality(top)
      <4>1. 0 \in Nat /\ 0 <= b /\ 0 = 0 /\ b <= total
        BY <1>3, <1>4
      <4> HIDE DEF b
      <4> QED BY <1>1, <1>3, <4>1, PlacesAre
    <3>3. top \ old \subseteq Moved \ got
      <4>1. \A g \in top : g \in Moved
        BY <1>1, <1>3, <2>2, <2>3, MovedAreFirst, RanksAreInt
      <4>2. \A g \in top : g \notin items
        BY <1>1, <1>3, <1>5, RanksAreInt
      <4> HIDE DEF top, items
      <4> QED BY <4>1, <4>2
    <3>4. Cardinality(top \ old) <= Cardinality(Moved \ got)
      <4>1. Moved \ got \subseteq Games
        BY <1>2
      <4> HIDE DEF top, got, old
      <4> QED BY <1>2, <3>3, <4>1, FS_Subset
    <3>5. /\ Cardinality(top \ old) = Cardinality(top) - Cardinality(top \cap old)
          /\ Cardinality(old \ Listed) = Cardinality(old) - Cardinality(old \cap Listed)
      <4>1. IsFiniteSet(old)
        BY <1>2
      <4> HIDE DEF top, old
      <4> QED BY <3>2, <4>1, FS_Difference
    <3>6. /\ Cardinality(top \cap old) <= Cardinality(old \cap Listed)
          /\ Cardinality(top \cap old) \in Nat /\ Cardinality(old \cap Listed) \in Nat
      <4>1. top \cap old \subseteq old \cap Listed /\ old \cap Listed \subseteq Games
        BY <1>2
      <4>2. top \cap old \subseteq Games
        BY <4>1
      <4> HIDE DEF top, old
      <4> QED BY <1>2, <4>1, <4>2, FS_Subset
    <3>7. Cardinality(top \ old) \in Nat
      <4>1. top \ old \subseteq Games
        BY <1>2
      <4> QED BY <1>2, <4>1
    <3>8. Cardinality(old) = b
      BY <1>9
    <3> HIDE DEF top, got, old, items, b
    <3>9. Cardinality(old \ Listed) <= Cardinality(Moved \ got)
      BY <1>3, <2>2, <3>2, <3>4, <3>5, <3>6, <3>7, <3>8
    <3> QED BY <2>1, <3>9, Zenon
  <2>4. CASE Balanced /\ loader.page > 1 /\ Cardinality(Moved) < b
    <3>1. Moved \ got = Moved \ old
      <4>1. \A g \in items : g \notin Moved
        BY <1>1, <1>3, <1>5, <2>2, <2>4, MovedAreFirst, RanksAreInt
      <4> HIDE DEF items
      <4> QED BY <4>1
    <3>2. Cardinality(old \ Listed) + total <= Cardinality(Moved \ old) + total
      BY <1>4, <2>4 DEF Balanced
    <3> HIDE DEF got, old, total
    <3>3. Cardinality(Moved \ old) \in Nat
      BY <2>2, <3>1, Zenon
    <3>4. Cardinality(old \ Listed) <= Cardinality(Moved \ old)
      BY <1>4, <2>2, <3>2, <3>3
    <3> QED BY <2>1, <3>1, <3>4, Zenon
  <2>5. CASE loader.page = 1
    <3>1. b = 0
      BY <2>5, SMT DEF Border
    <3>2. old = {}
      BY <1>2, <1>9, <3>1, FS_EmptySet
    <3>3. Cardinality(old \ Listed) = 0
      BY <3>2, FS_EmptySet
    <3> HIDE DEF got, old
    <3> QED BY <2>1, <2>2, <3>3
  <2>6. loader.page = 1 \/ (loader.page > 1 /\ (b <= Cardinality(Moved) \/ Balanced))
    <3>1. loader.page = 1 \/ loader.page > 1
      BY <1>1 DEF Loading
    <3> QED BY <1>1, <1>9, <3>1, Zenon DEF LoadFits
  <2>7. b <= Cardinality(Moved) \/ Cardinality(Moved) < b
    BY <1>3, <2>2
  <2> QED BY <2>3, <2>4, <2>5, <2>6, <2>7
<1>10. got \subseteq Games /\ got \cap untouched \subseteq Listed
  BY <1>1, <1>2, <1>6
<1> HIDE DEF b, total, items, old
<1>11. Cardinality(got) <= b + p /\ Cardinality(got) <= total
  BY <1>3, <1>4, <1>6, <1>7, <1>8
<1>12. ASSUME Cardinality(got) = b + p \/ Cardinality(got) = total
       PROVE  Cardinality(old) = b
  BY <1>3, <1>4, <1>6, <1>7, <1>8, <1>12
<1> QED BY <1>9, <1>10, <1>11, <1>12 DEF b, total, items, old

\* As many games as are listed, with what was cleared made up for by games that moved: only
\* games that moved are missing.
LEMMA OnlyMovedAreMissing ==
    ASSUME RowsFit, NEW got \in SUBSET Games, Cardinality(got) = Cardinality(Listed),
           Cardinality(got \ Listed) <= Cardinality(Moved \ got)
    PROVE  untouched \cap Listed \subseteq got
<1>1. /\ \A S \in SUBSET Games : IsFiniteSet(S) /\ Cardinality(S) \in Nat
      /\ Moved \subseteq Listed /\ Listed \subseteq Games
  BY PagesAssumption, FS_Subset, FS_CardinalityType, BeforeIsTotal DEF Listed
<1>2. /\ IsFiniteSet(got) /\ IsFiniteSet(Listed) /\ Cardinality(Listed) \in Nat
      /\ IsFiniteSet(Listed \ got) /\ Cardinality(Listed \ got) \in Nat
      /\ IsFiniteSet(Moved \ got) /\ Cardinality(Moved \ got) \in Nat
      /\ Cardinality(got \cap Listed) \in Nat /\ Cardinality(got \ Listed) \in Nat
  <2>1. /\ Listed \ got \subseteq Games /\ Moved \ got \subseteq Games
        /\ got \cap Listed \subseteq Games /\ got \ Listed \subseteq Games
    BY <1>1
  <2> QED BY <1>1, <2>1
<1>3. /\ Cardinality(got \ Listed) = Cardinality(got) - Cardinality(got \cap Listed)
      /\ Cardinality(Listed \ got) = Cardinality(Listed) - Cardinality(Listed \cap got)
  BY <1>2, FS_Difference
<1>4. Cardinality(Listed \cap got) = Cardinality(got \cap Listed)
  <2>1. Listed \cap got = got \cap Listed
    OBVIOUS
  <2> QED BY <2>1, Zenon
<1>5. Cardinality(Listed \ got) <= Cardinality(Moved \ got)
  BY <1>2, <1>3, <1>4
<1>6. Moved \ got \subseteq Listed \ got
  BY <1>1
<1>7. Cardinality(Moved \ got) <= Cardinality(Listed \ got)
  BY <1>2, <1>6, FS_Subset
<1>8. Listed \ got = Moved \ got
  BY <1>2, <1>5, <1>6, <1>7, FS_Subset
<1>9. untouched \cap Moved = {}
  BY DEF RowsFit, Moved
<1> QED BY <1>8, <1>9

LEMMA ReadFits == ASSUME NEW p \in Nat \ {0}, ListFits(p), ReadOf(p) PROVE ListFits(p)'
<1> DEFINE got == loader.got \cup PageOf(p, loader.page).items
           total == Cardinality(Listed)
           next == NextLoader(p)
<1>1. /\ RowsFit /\ loader \in Loading /\ LoadFits(p) /\ loader.page > 0
      /\ loader.result = "loading" /\ UNCHANGED <<rows, now, untouched, twice>>
  BY Zenon DEF ListFits, ReadOf
<1>2. /\ RowsFit' /\ Listed' = Listed /\ Moved' = Moved
  <2>1. RowsFit'
    BY <1>1, SMT DEF RowsFit
  <2> QED BY <1>1, <2>1 DEF Listed, Moved
<1>3. CASE loader' = [loader EXCEPT !.result = "rejected"]
  BY <1>1, <1>3, EndedFits
<1>4. ASSUME Acceptable(PageOf(p, loader.page)),
             \/ loader' = next /\ loader.page < Expected(p, total)
             \/ loader' = [next EXCEPT !.result = Conclusion(next)]
      PROVE  ListFits(p)'
  <2>1. /\ got \subseteq Games /\ got \cap untouched \subseteq Listed
        /\ Cardinality(got) <= Border(p) + p /\ Cardinality(got) <= total
        /\ ~twice /\ (Cardinality(got) = Border(p) + p \/ Cardinality(got) = total)
             => Cardinality(got \ Listed) <= Cardinality(Moved \ got)
    BY <1>1, <1>4, ReadingFits
  <2>2. total \in Nat /\ total <= Cardinality(Games)
    BY <1>1, Counted, FS_Subset
  <2>3. next = [page |-> loader.page + 1, total |-> total, got |-> got, result |-> "loading"]
    BY Zenon DEF NextLoader, PageOf
  <2>4. Conclusion(next) = IF Cardinality(got) = total THEN "accepted" ELSE "rejected"
    BY <2>3 DEF Conclusion
  <2> HIDE DEF got, total, next
  <2>5. /\ loader'.page = loader.page + 1 /\ loader'.total = total /\ loader'.got = got
        /\ loader' \in Loading
        /\ \/ loader'.result = "loading" /\ loader.page < Expected(p, total)
           \/ loader'.result = "accepted" /\ Cardinality(got) = total
           \/ loader'.result = "rejected"
    BY <1>1, <1>4, <2>1, <2>2, <2>3, <2>4 DEF Loading
  <2>6. Border(p)' = Border(p) + p /\ Border(p) = (loader'.page - 2) * p /\ Border(p) \in Nat
    <3>1. loader.page - 1 \in Nat /\ loader'.page - 2 = loader.page - 1
      BY <1>1, <2>5 DEF Loading
    <3>2. /\ Border(p)' = (loader'.page - 1) * p
          /\ Border(p) = (loader.page - 1) * p
      BY DEF Border
    <3>3. loader'.page - 1 = (loader.page - 1) + 1
      BY <3>1, <2>5, <1>1 DEF Loading
    <3>4. \A n \in Nat : (n + 1) * p = n * p + p /\ n * p \in Nat
      BY SMT
    <3> QED BY <3>1, <3>2, <3>3, <3>4
  <2>7. loader'.page > 2 => (loader'.page - 2) * p < Cardinality(Games)
    <3>1. loader'.page > 2 => loader.page > 1
      BY <1>1, <2>5 DEF Loading
    <3>2. loader.page > 1 => Border(p) < loader.total /\ loader.total <= Cardinality(Games)
      BY <1>1 DEF LoadFits
    <3>3. loader.total \in Nat /\ Cardinality(Games) \in Nat
      BY <1>1, Counted DEF Loading
    <3> QED BY <2>6, <3>1, <3>2, <3>3
  <2>8. ASSUME loader'.result = "loading" PROVE LoadFits(p)'
    <3>1. loader.page * p < total
      BY <1>1, <2>2, <2>5, <2>8, ExpectedIs DEF Loading
    <3>2. Border(p)' = loader.page * p
      BY <1>1, <2>5, SMT DEF Border, Loading
    <3>3. Cardinality(got) <= Border(p)'
      BY <2>1, <2>6
    <3>4. ASSUME ~twice', Cardinality(got) = Border(p)' PROVE Balanced'
      <4>1. Cardinality(got \ Listed) <= Cardinality(Moved \ got)
        BY <1>1, <2>1, <2>6, <3>4
      <4>2. Balanced' <=> Cardinality(got \ Listed) + total <= Cardinality(Moved \ got) + total
        BY <1>2, <2>5, Zenon DEF Balanced, total
      <4>3. Cardinality(got \ Listed) \in Nat /\ Cardinality(Moved \ got) \in Nat
        <5>1. got \ Listed \subseteq Games /\ Moved \ got \subseteq Games
          BY <2>1 DEF Moved
        <5> QED BY <1>1, <5>1, Counted
      <4> QED BY <2>2, <4>1, <4>2, <4>3
    <3> QED BY <2>2, <2>5, <3>1, <3>2, <3>3, <3>4, Zenon DEF LoadFits
  <2>9. ListIsComplete'
    <3>1. CASE loader'.result # "accepted"
      BY <3>1 DEF ListIsComplete
    <3>2. CASE loader'.result = "accepted"
      <4>1. Cardinality(got) = total
        BY <2>5, <3>2
      <4>2. ASSUME ~twice PROVE untouched \cap Listed \subseteq got
        <5>1. Cardinality(got \ Listed) <= Cardinality(Moved \ got)
          BY <2>1, <4>1, <4>2
        <5> QED BY <1>1, <2>1, <4>1, <5>1, OnlyMovedAreMissing DEF total
      <4> QED BY <1>1, <1>2, <2>5, <4>1, <4>2, Zenon DEF ListIsComplete
    <3> QED BY <3>1, <3>2
  <2> QED
    <3>1. got \cap untouched' \subseteq Listed' /\ loader'.got = got
      BY <1>1, <1>2, <2>1, <2>5, Zenon
    <3>2. loader'.page > 0 /\ loader' \in Loading
      BY <1>1, <2>5 DEF Loading
    <3> QED BY <1>2, <2>7, <2>8, <2>9, <3>1, <3>2, Zenon DEF ListFits
<1> QED BY <1>1, <1>3, <1>4, Zenon DEF ReadOf, PageOf

-----------------------------------------------------------------------------
(* The parts together. *)

ListInv == ListFits(IF open = "one by one" THEN 1 ELSE PageSize)

LEMMA SizeIs == PageSize \in Nat \ {0} /\ 1 \in Nat \ {0}
BY PagesAssumption

LEMMA ListKeeps ==
    ASSUME NEW p \in Nat \ {0}, ListFits(p), ReadOf(p) \/ GiveUp \/ \E g \in Games : Change(g)
    PROVE  ListFits(p)'
BY ReadFits, GiveUpFits, ChangeFits, Zenon

LEMMA ListInvHolds == WebSpec => []ListInv
<1>1. WebInit => ListInv
  BY ListStarts, SizeIs, Zenon DEF WebInit, ListInv
<1>2. ListInv /\ [WebNext]_allVars => ListInv'
  <2> SUFFICES ASSUME ListInv, [WebNext]_allVars PROVE ListInv'
    OBVIOUS
  <2>1. CASE open = "list" /\ Next /\ open' = open
    <3>1. ReadOf(PageSize) \/ GiveUp \/ \E g \in Games : Change(g)
      BY <2>1, BothRead, Zenon DEF Next
    <3> QED BY <2>1, <3>1, ListKeeps, SizeIs DEF ListInv
  <2>2. CASE open = "one by one" /\ OneByOne!Next /\ open' = open
    <3>1. OneByOne!GiveUp => GiveUp
      BY Zenon DEF OneByOne!GiveUp, GiveUp
    <3>2. \A g \in Games : OneByOne!Change(g) => Change(g)
      BY Zenon DEF OneByOne!Change, Change
    <3>3. ReadOf(1) \/ GiveUp \/ \E g \in Games : Change(g)
      BY <2>2, <3>1, <3>2, BothRead, Zenon DEF OneByOne!Next
    <3> QED BY <2>2, <3>3, ListKeeps, SizeIs DEF ListInv
  <2>3. CASE UNCHANGED <<open, listVars>>
    BY <2>3, ListStays, SizeIs DEF ListInv
  <2>4. WebNext => \/ open = "list" /\ Next /\ open' = open
                   \/ open = "one by one" /\ OneByOne!Next /\ open' = open
                   \/ UNCHANGED <<open, listVars>>
    BY Zenon DEF WebNext
  <2>5. UNCHANGED allVars => UNCHANGED <<open, listVars>>
    BY DEF allVars
  <2> QED BY <2>1, <2>2, <2>3, <2>4, <2>5
<1> QED BY <1>1, <1>2, PTL DEF WebSpec

\* For pages of any size and any number of changes of other tabs while they are read
\* (loadAllFeedback against FeedbackService.list): a feedback list that is accepted has as
\* many items as the server counted and misses none that did not change, unless a game
\* changed twice; and the types and supports of the theorems above.
THEOREM WebInvHolds == WebSpec => []WebInv
<1>1. BrowserInv /\ FormInv /\ ListInv => WebInv
  <2> SUFFICES ASSUME BrowserInv, FormInv, ListInv PROVE WebInv
    OBVIOUS
  <2>1. ASSUME NEW p \in Nat \ {0}, ListFits(p)
        PROVE  /\ rows \in [Games -> SUBSET {t \in Int : t <= now}] /\ loader \in Loading
               /\ loader.page > 2 => (loader.page - 2) * p < Cardinality(Games)
               /\ untouched \subseteq Games /\ twice \in BOOLEAN /\ ListIsComplete
    BY <2>1, Zenon DEF ListFits, RowsFit
  <2>2. CASE open = "one by one"
    <3>1. ListFits(1)
      BY <2>2 DEF ListInv
    <3>2. OneByOne!TypeOK
      <4>1. OneByOne!Loading = Loading
        BY Zenon DEF OneByOne!Loading, Loading
      <4>2. OneByOne!Cardinality(Games) = Cardinality(Games)
        BY Zenon DEF OneByOne!Cardinality, Cardinality
      <4> QED BY <2>1, <3>1, <4>1, <4>2, SizeIs, Zenon DEF OneByOne!TypeOK
    <3> QED BY <2>1, <2>2, <3>1, <3>2, SizeIs, Zenon DEF WebInv, BrowserInv, FormInv
  <2>3. CASE open # "one by one"
    <3>1. ListFits(PageSize)
      BY <2>3 DEF ListInv
    <3>2. TypeOK
      BY <2>1, <3>1, SizeIs, Zenon DEF TypeOK
    <3> QED BY <2>1, <2>3, <3>1, <3>2, SizeIs, Zenon DEF WebInv, BrowserInv, FormInv
  <2> QED BY <2>2, <2>3
<1> QED BY <1>1, BrowserInvHolds, FormInvHolds, ListInvHolds, PTL
=============================================================================
