---------------------------- MODULE ProfileStore ----------------------------
(***************************************************************************)
(* The saved profile of an anonymous session: the rows that hang off one   *)
(* "users" row of PostgreSQL (saved preferences, game feedback history,    *)
(* recommendation events) and the HTTP requests that change them           *)
(* concurrently.  Sources: services/anonymous_identity.py,                 *)
(* services/feedback.py, services/preferences.py,                          *)
(* services/personalized_recommendation.py and the repositories they call. *)
(*                                                                         *)
(* A request runs one transaction.  READ COMMITTED requests lock the user  *)
(* row (SELECT ... FOR UPDATE), then read, then commit; a generation runs  *)
(* REPEATABLE READ: its snapshot is taken by its first statement and a     *)
(* user row updated since then is a serialization failure.  Writes of an   *)
(* open transaction are invisible to the others, so a transaction keeps    *)
(* what it read ("view") and changes the tables only when it commits.      *)
(*                                                                         *)
(* Operators whose name starts with "Mut_" are seeded bugs: the            *)
(* specification never uses them, they show that the properties can fail.  *)
(***************************************************************************)
EXTENDS Integers, FiniteSets

CONSTANTS
    Users,             \* credentials; one raw token has one digest and at most one row
    Requests,          \* HTTP requests, each used once
    Games,             \* game ids
    Slugs,             \* preference values (family and slug)
    ContentSlugs,      \* the games, genres and tags among them (the rest are platforms)
    PreferenceBodies,  \* bodies of PUT /me/preferences
    FeedbackBodies,    \* bodies of PUT /me/feedback/{game}
    Ratings,           \* half-step ratings, as 2 * rating + 1 (0 stands for NULL)
    InitialRows,       \* user rows the database may start with
    Ttl,               \* settings.anonymous_session_ttl_seconds
    CollisionRetries,  \* TOKEN_COLLISION_RETRIES
    MaxTime,           \* bound: the clock stops here
    NoUser, NoGame, NoRequest

Null == 0              \* a NULL timestamp, rating or interaction value

StateTypes == {"liked", "disliked", "played", "wishlisted", "rated"}
Reactions  == {"liked", "disliked"}
Values     == Ratings \cup {Null}

UserRow == [state   : {"none", "live", "gone"},   \* never inserted, present, deleted
            consent : {"null", "outdated", "current"},
            expires : Nat,                        \* expires_at, Null when NULL
            revoked : BOOLEAN,                    \* revoked_at IS NOT NULL
            xmin    : Nat]                        \* version of the row: +1 per committed UPDATE

NoRow == [state |-> "none", consent |-> "null", expires |-> Null,
          revoked |-> FALSE, xmin |-> 0]

\* users_consent_lifecycle_valid: consent fields are all present or all NULL, and only
\* revoked legacy rows have them NULL.
ConsentLifecycleValid(row) ==
    row.state = "live" => /\ row.consent = "null" <=> row.expires = Null
                          /\ row.consent = "null" => row.revoked

FeedbackBody == [reaction : Reactions \cup {"none"}, played : BOOLEAN,
                 wishlisted : BOOLEAN, rating : Values]

InteractionRow == [user : Users, game : Games, type : StateTypes, value : Values,
                   occurred_at : Nat, superseded_at : Nat]

ASSUME ConstantsAssumption ==
    /\ ContentSlugs \subseteq Slugs
    /\ PreferenceBodies \subseteq SUBSET Slugs
    /\ \A body \in PreferenceBodies : body \cap ContentSlugs # {}
    /\ FeedbackBodies \subseteq FeedbackBody
    /\ Ratings \subseteq Nat \ {Null}
    /\ InitialRows \subseteq {row \in UserRow : row.state # "gone"}
    /\ \A row \in InitialRows : ConsentLifecycleValid(row)
    /\ Ttl \in Nat \ {0}
    /\ CollisionRetries \in Nat \ {0}
    /\ MaxTime \in Nat
    /\ NoUser \notin Users /\ NoGame \notin Games /\ NoRequest \notin Requests

-----------------------------------------------------------------------------
VARIABLES
    clock,         \* utc_now()
    users,         \* the users table
    prefs,         \* user_preferences: the values saved for each user
    interactions,  \* interactions: active and superseded rows of all users
    events,        \* recommendation_events
    lock,          \* which request's transaction holds each user row FOR UPDATE
    pc,            \* how far each request has got
    call,          \* what each request asks for
    stamp,         \* the clock value a request works with
    view,          \* what a request's transaction has read of its user
    tries,         \* insert attempts of a request that creates a session
    answer         \* what each request was answered

tables == <<users, prefs, interactions, events>>
vars   == <<clock, users, prefs, interactions, events, lock, pc, call, stamp,
            view, tries, answer>>

\* Operations on data the session owns: they need a current consent version.
OwnedOps == {"feedback", "preferences", "generate"}
Ops      == OwnedOps \cup {"delete", "consent", "create", "none"}

Answers == {"ok", "unauthenticated", "outdated", "rejected", "unavailable",
            "outcome_unknown", "error"}

Call  == [op : Ops, user : Users \cup {NoUser}, game : Games \cup {NoGame},
          desired : SUBSET (StateTypes \X Values), slugs : SUBSET Slugs]
View  == [row : UserRow, slugs : SUBSET Slugs, rows : SUBSET InteractionRow]
Event == [generation : Requests, user : Users, slugs : SUBSET Slugs,
          rows : SUBSET InteractionRow]

NoCall == [op |-> "none", user |-> NoUser, game |-> NoGame, desired |-> {}, slugs |-> {}]
NoView == [row |-> NoRow, slugs |-> {}, rows |-> {}]

\* The active interactions of one user.
ActiveRows(u) == {i \in interactions : i.user = u /\ i.superseded_at = Null}

Profile(u) == [row |-> users[u], slugs |-> prefs[u], rows |-> ActiveRows(u)]

\* The (type, value) pairs that rows give to one game.
Pairs(rows, g) == {<<i.type, i.value>> : i \in {j \in rows : j.game = g}}

\* The same for the body of a request: what the game's active rows must become.
Desired(body) ==
    {e \in StateTypes \X Values :
        \/ e[1] \in Reactions /\ e[1] = body.reaction /\ e[2] = Null
        \/ e[1] = "played" /\ body.played /\ e[2] = Null
        \/ e[1] = "wishlisted" /\ body.wishlisted /\ e[2] = Null
        \/ e[1] = "rated" /\ e[2] = body.rating /\ e[2] # Null}

Init ==
    /\ clock = 1
    /\ users \in [Users -> InitialRows]
    /\ prefs \in [Users -> PreferenceBodies \cup {{}}]
    /\ \A u \in Users : users[u].state # "live" => prefs[u] = {}
    /\ interactions = {}
    /\ events = {}
    /\ lock = [u \in Users |-> NoRequest]
    /\ pc = [r \in Requests |-> "idle"]
    /\ call = [r \in Requests |-> NoCall]
    /\ stamp = [r \in Requests |-> Null]
    /\ view = [r \in Requests |-> NoView]
    /\ tries = [r \in Requests |-> 0]
    /\ answer = [r \in Requests |-> "none"]

-----------------------------------------------------------------------------
(* Helpers of the steps. *)

\* anonymous_identity._require_unexpired
Unexpired(row, now) == row.state = "live" /\ ~row.revoked /\ row.expires > now

\* create_or_reconsent calls clock() first of all; the other handlers read the clock
\* once they hold the row lock.
Mut_FeedbackClockFirst(op) == op \in {"consent", "create", "feedback"}
ClockBeforeLock(op) == op \in {"consent", "create"}

Now(r) == IF ClockBeforeLock(call[r].op) THEN stamp[r] ELSE clock

\* SELECT ... FOR UPDATE waits for the transaction that holds the row.
Mut_NoRowLock(r) == TRUE
RowFree(r) == lock[call[r].user] = NoRequest

\* REPEATABLE READ: the row in the snapshot was updated or deleted since.
Mut_NoConflict(r) == FALSE
SerializationConflict(r) == /\ call[r].op = "generate"
                            /\ view[r].row.state = "live"
                            /\ users[call[r].user] # view[r].row

\* The row the lookup finds: the snapshot's, or the newest one.
FoundRow(r) == IF call[r].op = "generate" THEN view[r].row ELSE users[call[r].user]

Mut_AnyConsent(r) == TRUE
ConsentSuffices(r) == call[r].op \in OwnedOps => FoundRow(r).consent = "current"

\* The transaction ends: its locks are gone and the session forgets what it read.
Mut_KeepLock(r) == lock
Released(r) == [u \in Users |-> IF lock[u] = r THEN NoRequest ELSE lock[u]]

Finish(r, a) ==
    /\ pc' = [pc EXCEPT ![r] = "done"]
    /\ answer' = [answer EXCEPT ![r] = a]
    /\ lock' = Released(r)
    /\ view' = [view EXCEPT ![r] = NoView]
    /\ stamp' = [stamp EXCEPT ![r] = Null]
    /\ UNCHANGED <<clock, call, tries>>

-----------------------------------------------------------------------------
(* A request arrives. *)

Begin(r, c) ==
    /\ pc[r] = "idle"
    /\ pc' = [pc EXCEPT ![r] = "begun"]
    /\ call' = [call EXCEPT ![r] = c]
    /\ stamp' = [stamp EXCEPT ![r] = IF ClockBeforeLock(c.op) THEN clock ELSE Null]
    /\ UNCHANGED <<clock, tables, lock, tries, answer>>

\* PUT and DELETE /me/feedback/{game}; DELETE sends the empty body.
BeginFeedback(r) ==
    \E u \in Users, g \in Games, body \in FeedbackBodies :
        /\ Begin(r, [op |-> "feedback", user |-> u, game |-> g,
                     desired |-> Desired(body), slugs |-> {}])
        /\ UNCHANGED view

\* PUT /me/preferences, and DELETE, which leaves no value.
BeginPreferences(r) ==
    \E u \in Users, body \in PreferenceBodies \cup {{}} :
        /\ Begin(r, [op |-> "preferences", user |-> u, game |-> NoGame,
                     desired |-> {}, slugs |-> body])
        /\ UNCHANGED view

\* POST /me/recommendations: the first statement takes the snapshot of the transaction.
BeginGeneration(r) ==
    \E u \in Users :
        /\ Begin(r, [op |-> "generate", user |-> u, game |-> NoGame,
                     desired |-> {}, slugs |-> {}])
        /\ view' = [view EXCEPT ![r] = Profile(u)]

\* DELETE /me, and POST /anonymous-sessions with a credential.
BeginLifecycle(r) ==
    \E u \in Users, op \in {"delete", "consent"} :
        /\ Begin(r, [op |-> op, user |-> u, game |-> NoGame, desired |-> {}, slugs |-> {}])
        /\ UNCHANGED view

\* Bound: Users is finite, so a session is created only while it still holds a token
\* that was never issued for each request that may draw one.
FreshTokenRemains ==
    Cardinality({u \in Users : users[u].state = "none"}) >
        Cardinality({q \in Requests : pc[q] = "begun" /\ call[q].op = "create"})

\* POST /anonymous-sessions without one.
BeginCreate(r) == /\ FreshTokenRemains
                  /\ Begin(r, [NoCall EXCEPT !.op = "create"])
                  /\ UNCHANGED view

\* No transaction at all: origin or CSRF refused (403), no credential (401), another
\* version than settings.consent_version (409), model not ready (503).
RefuseEarly(r) ==
    /\ pc[r] = "idle"
    /\ \E a \in {"rejected", "unauthenticated", "outdated", "unavailable"} : Finish(r, a)
    /\ UNCHANGED tables

-----------------------------------------------------------------------------
(* find_by_digest(lock=True) and the checks on the row it returns. *)

LookingUp(r) == pc[r] = "begun" /\ call[r].op # "create" /\ RowFree(r)

\* PostgreSQL aborts the generation; the API answers 503 database_unavailable.
LookupConflict(r) ==
    /\ LookingUp(r) /\ SerializationConflict(r)
    /\ Finish(r, "unavailable")
    /\ UNCHANGED tables

LookupUnauthenticated(r) ==
    /\ LookingUp(r) /\ ~SerializationConflict(r)
    /\ ~Unexpired(FoundRow(r), Now(r))
    /\ Finish(r, "unauthenticated")
    /\ UNCHANGED tables

LookupOutdated(r) ==
    /\ LookingUp(r) /\ ~SerializationConflict(r)
    /\ Unexpired(FoundRow(r), Now(r)) /\ ~ConsentSuffices(r)
    /\ Finish(r, "outdated")
    /\ UNCHANGED tables

\* Feedback and preferences have statements to run before they write; the other
\* operations have all they need.
LookupGranted(r) ==
    /\ LookingUp(r) /\ ~SerializationConflict(r)
    /\ Unexpired(FoundRow(r), Now(r)) /\ ConsentSuffices(r)
    /\ lock' = [lock EXCEPT ![call[r].user] = r]
    /\ pc' = [pc EXCEPT ![r] = IF call[r].op \in {"feedback", "preferences"}
                               THEN "locked" ELSE "staged"]
    /\ UNCHANGED <<clock, tables, call, stamp, view, tries, answer>>

\* The catalog rows are locked FOR SHARE, the clock is read (feedback) and the
\* current rows are selected.
ReadProfile(r) ==
    /\ pc[r] = "locked"
    /\ view' = [view EXCEPT ![r] = Profile(call[r].user)]
    /\ stamp' = [stamp EXCEPT ![r] = IF call[r].op = "feedback" THEN Now(r) ELSE Null]
    /\ pc' = [pc EXCEPT ![r] = "staged"]
    /\ UNCHANGED <<clock, tables, lock, call, tries, answer>>

-----------------------------------------------------------------------------
(* What the transaction writes when it commits. *)

\* user.updated_at = now: a new version of the row, whatever else the write changes.
Mut_NoTouch(u) == users
Touched(u) == [users EXCEPT ![u].xmin = @ + 1]

\* InteractionRepository.replace_game_state
Mut_SameTypeOnly(r) == {i \in view[r].rows : /\ i.game = call[r].game
                                             /\ \E e \in call[r].desired : e[1] = i.type
                                             /\ <<i.type, i.value>> \notin call[r].desired}
Superseded(r) == {i \in view[r].rows : /\ i.game = call[r].game
                                       /\ <<i.type, i.value>> \notin call[r].desired}

Mut_Discard(rows, now) == {}
Closed(rows, now) == {[i EXCEPT !.superseded_at = now] : i \in rows}

Added(r) == {[user |-> call[r].user, game |-> call[r].game, type |-> e[1], value |-> e[2],
              occurred_at |-> stamp[r], superseded_at |-> Null] :
             e \in call[r].desired \ Pairs(view[r].rows, call[r].game)}

WriteFeedback(r) ==
    /\ call[r].op = "feedback"
    /\ Pairs(view[r].rows, call[r].game) # call[r].desired
    /\ interactions' = (interactions \ Superseded(r))
                       \cup Closed(Superseded(r), stamp[r]) \cup Added(r)
    /\ users' = Touched(call[r].user)
    /\ UNCHANGED <<prefs, events>>

\* PreferenceRepository.replace deletes the values it found and does not want and
\* inserts the missing ones; clear deletes all.
WritePreferences(r) ==
    LET wanted == call[r].slugs
        found  == view[r].slugs
    IN  /\ call[r].op = "preferences"
        /\ found # wanted
        /\ prefs' = [prefs EXCEPT ![call[r].user] =
                        (@ \ (found \ wanted)) \cup (wanted \ found)]
        /\ users' = Touched(call[r].user)
        /\ UNCHANGED <<interactions, events>>

\* The event of a generation; without a content signal there is none (422).
WriteGeneration(r) ==
    /\ call[r].op = "generate"
    /\ view[r].slugs \cap ContentSlugs # {}
    /\ events' = events \cup {[generation |-> r, user |-> call[r].user,
                               slugs |-> view[r].slugs, rows |-> view[r].rows]}
    /\ users' = Touched(call[r].user)
    /\ UNCHANGED <<prefs, interactions>>

\* The row goes and the foreign keys cascade.
Mut_DeleteKeepsEvents(r) ==
    /\ call[r].op = "delete"
    /\ users' = [users EXCEPT ![call[r].user] = [NoRow EXCEPT !.state = "gone"]]
    /\ prefs' = [prefs EXCEPT ![call[r].user] = {}]
    /\ interactions' = {i \in interactions : i.user # call[r].user}
    /\ UNCHANGED events
WriteDelete(r) ==
    /\ call[r].op = "delete"
    /\ users' = [users EXCEPT ![call[r].user] = [NoRow EXCEPT !.state = "gone"]]
    /\ prefs' = [prefs EXCEPT ![call[r].user] = {}]
    /\ interactions' = {i \in interactions : i.user # call[r].user}
    /\ events' = {e \in events : e.user # call[r].user}

AlreadyCurrent(r) == users[call[r].user].consent = "current"

Renewed(row, now) == [row EXCEPT !.consent = "current", !.expires = now + Ttl]

WriteConsent(r) ==
    /\ call[r].op = "consent"
    /\ ~AlreadyCurrent(r)
    /\ users' = [Touched(call[r].user) EXCEPT ![call[r].user] = Renewed(@, stamp[r])]
    /\ UNCHANGED <<prefs, interactions, events>>

Write(r) == \/ WriteFeedback(r) \/ WritePreferences(r) \/ WriteGeneration(r)
            \/ WriteDelete(r) \/ WriteConsent(r)

\* Nothing to change: the handler answers 200 and rolls back, the touch included.
NothingToWrite(r) ==
    \/ call[r].op = "feedback" /\ Pairs(view[r].rows, call[r].game) = call[r].desired
    \/ call[r].op = "preferences" /\ view[r].slugs = call[r].slugs
    \/ call[r].op = "consent" /\ AlreadyCurrent(r)

-----------------------------------------------------------------------------
(* How a transaction ends. *)

Commit(r) == pc[r] = "staged" /\ Write(r) /\ Finish(r, "ok")

RollbackUnchanged(r) ==
    /\ pc[r] = "staged" /\ NothingToWrite(r)
    /\ Finish(r, "ok")
    /\ UNCHANGED tables

\* 422 saved_preferences_required
NoContentSignal(r) ==
    /\ pc[r] = "staged" /\ call[r].op = "generate"
    /\ view[r].slugs \cap ContentSlugs = {}
    /\ Finish(r, "rejected")
    /\ UNCHANGED tables

\* The commit is sent and its acknowledgement lost: it may or may not have been applied.
LostAnswer(op) == IF op = "generate" THEN "outcome_unknown" ELSE "unavailable"

CommitUnacknowledged(r) ==
    /\ pc[r] = "staged"
    /\ \/ Write(r)
       \/ UNCHANGED tables /\ ~NothingToWrite(r)
    /\ Finish(r, LostAnswer(call[r].op))

\* A check fails after the lookup: CSRF token (403), unknown game or value (404, 422),
\* stale preferences or catalog (409, 503), too little context (422).
Refuse(r) ==
    /\ pc[r] \in {"locked", "staged"}
    /\ Finish(r, "rejected")
    /\ UNCHANGED tables

\* The connection or the process fails before the commit: PostgreSQL rolls back.
Abort(r) ==
    /\ pc[r] \in {"begun", "locked", "staged"}
    /\ Finish(r, "unavailable")
    /\ UNCHANGED tables

\* anonymous_identity._create: one attempt.
InsertedRow(r) == [state |-> "live", consent |-> "current", expires |-> stamp[r] + Ttl,
                   revoked |-> FALSE, xmin |-> 1]

CreateSession(r) ==
    /\ pc[r] = "begun" /\ call[r].op = "create"
    /\ tries[r] < CollisionRetries
    /\ \E u \in Users : /\ users[u].state = "none"
                        /\ users' = [users EXCEPT ![u] = InsertedRow(r)]
    /\ UNCHANGED <<prefs, interactions, events>>
    /\ \/ Finish(r, "ok")
       \/ Finish(r, "unavailable")   \* committed, and the acknowledgement lost

\* IntegrityError: the digest exists; at most CollisionRetries attempts.
CreateCollision(r) ==
    /\ pc[r] = "begun" /\ call[r].op = "create"
    /\ tries[r] < CollisionRetries
    /\ \E u \in Users : users[u].state = "live"
    /\ tries' = [tries EXCEPT ![r] = @ + 1]
    /\ UNCHANGED <<clock, tables, lock, pc, call, stamp, view, answer>>

CreateExhausted(r) ==
    /\ pc[r] = "begun" /\ call[r].op = "create"
    /\ tries[r] = CollisionRetries
    /\ Finish(r, "error")
    /\ UNCHANGED tables

-----------------------------------------------------------------------------
Tick == /\ clock < MaxTime
        /\ clock' = clock + 1
        /\ UNCHANGED <<tables, lock, pc, call, stamp, view, tries, answer>>

Arrive(r) == \/ BeginFeedback(r) \/ BeginPreferences(r) \/ BeginGeneration(r)
             \/ BeginLifecycle(r) \/ BeginCreate(r) \/ RefuseEarly(r)

\* The steps a request takes when nothing fails: they are what a server must go on doing.
Progress(r) == \/ LookupConflict(r) \/ LookupUnauthenticated(r) \/ LookupOutdated(r)
               \/ LookupGranted(r) \/ ReadProfile(r)
               \/ Commit(r) \/ RollbackUnchanged(r) \/ NoContentSignal(r)
               \/ CreateSession(r) \/ CreateCollision(r) \/ CreateExhausted(r)

Failure(r) == Refuse(r) \/ CommitUnacknowledged(r) \/ Abort(r)

\* The run is over: every request is answered and the clock has reached its bound.
Quiescent == /\ clock = MaxTime
             /\ \A r \in Requests : pc[r] = "done"
             /\ UNCHANGED vars

Next == \/ \E r \in Requests : Arrive(r) \/ Progress(r) \/ Failure(r)
        \/ Tick
        \/ Quiescent

Spec == Init /\ [][Next]_vars

\* A worker thread runs its handler to the end and PostgreSQL hands a freed row lock
\* to a waiter; requests need not arrive, time need not pass, nothing need fail.
FairSpec == Spec /\ \A r \in Requests : WF_vars(Progress(r))

-----------------------------------------------------------------------------
TypeOK ==
    /\ clock \in Nat
    /\ users \in [Users -> UserRow]
    /\ prefs \in [Users -> SUBSET Slugs]
    /\ interactions \subseteq InteractionRow
    /\ events \subseteq Event
    /\ lock \in [Users -> Requests \cup {NoRequest}]
    /\ pc \in [Requests -> {"idle", "begun", "locked", "staged", "done"}]
    /\ call \in [Requests -> Call]
    /\ stamp \in [Requests -> Nat]
    /\ view \in [Requests -> View]
    /\ tries \in [Requests -> 0 .. CollisionRetries]
    /\ answer \in [Requests -> Answers \cup {"none"}]

\* Who holds a row lock is a request between its lookup and its end, and the row it holds
\* still passes the checks of the lookup.
LockDiscipline ==
    /\ \A u \in Users : lock[u] # NoRequest =>
          pc[lock[u]] \in {"locked", "staged"} /\ call[lock[u]].user = u
    /\ \A r \in Requests : pc[r] \in {"locked", "staged"} =>
          LET row == users[call[r].user] IN
          /\ call[r].user \in Users /\ lock[call[r].user] = r
          /\ row.state = "live" /\ ~row.revoked
          /\ call[r].op \in OwnedOps => row.consent = "current"

\* What a transaction has read is what is still there: for the holder of the lock, and
\* for a snapshot whose user row has not moved on.
SnapshotOf(r, u) == pc[r] = "begun" /\ call[r].op = "generate" /\ view[r].row = users[u]
ViewsAreCurrent ==
    \A r \in Requests, u \in Users :
        (/\ call[r].user = u /\ users[u].state = "live"
         /\ \/ pc[r] = "staged" /\ call[r].op \in OwnedOps
            \/ SnapshotOf(r, u))
        => view[r] = Profile(u)

\* Requests that need a session or a game name one.
CallsNameTargets ==
    \A r \in Requests : /\ call[r].op \notin {"create", "none"} => call[r].user \in Users
                        /\ call[r].op = "feedback" => call[r].game \in Games

\* Only some operations have statements to run between lookup and write.
StagesMatchOperations ==
    \A r \in Requests :
        /\ pc[r] = "begun" => call[r].op # "none"
        /\ pc[r] = "locked" => call[r].op \in {"feedback", "preferences"}
        /\ pc[r] = "staged" => call[r].op \in Ops \ {"create", "none"}

\* A user row only gains versions, and is not there again once it was deleted.
SnapshotsOnlyAge ==
    \A r \in Requests, u \in Users :
        (/\ call[r].user = u /\ pc[r] = "begun" /\ call[r].op = "generate"
         /\ view[r].row.state = "live")
        => \/ users[u].state = "gone"
           \/ users[u].state = "live" /\ view[r].row.xmin <= users[u].xmin

\* The inductive invariant: whoever holds a row lock works on what is there, and a
\* snapshot whose user row has its newest version holds the newest data, because every
\* write to what a user owns makes a new version of the user row.
Inv == /\ TypeOK /\ CallsNameTargets /\ StagesMatchOperations
       /\ LockDiscipline /\ SnapshotsOnlyAge /\ ViewsAreCurrent

\* A generation records, and answers with, the preferences and the active feedback its
\* user has at the very commit, although it ranked them from a snapshot that other
\* requests may have outrun.
GenerationUsesCurrentProfile ==
    [][\A e \in events' \ events : /\ e.slugs = prefs[e.user]
                                   /\ e.rows = ActiveRows(e.user)]_vars

\* A PUT answered 200 leaves exactly what its body says, whatever ran beside it: no
\* lost update and no merge of two bodies (docs: "PUT means complete replacement").
AnswersOk(r) == pc[r] = "staged" /\ pc'[r] = "done" /\ answer'[r] = "ok"
ReplacementIsExact ==
    [][\A r \in Requests : AnswersOk(r) =>
        LET c == call[r] IN
        /\ c.op = "feedback" => Pairs(ActiveRows(c.user), c.game)' = c.desired
        /\ c.op = "preferences" => prefs'[c.user] = c.slugs]_vars

\* The partial unique indexes are never what saves the history: at most one reaction and
\* one row of each other type is active for a user and a game.
SameDimension(t1, t2) == t1 = t2 \/ {t1, t2} \subseteq Reactions
OneActiveRowPerDimension ==
    \A i, j \in interactions :
        (/\ i.superseded_at = Null /\ j.superseded_at = Null
         /\ i.user = j.user /\ i.game = j.game
         /\ SameDimension(i.type, j.type)) => i = j

\* Nor is the check constraint: no row is superseded before it occurred, although the
\* clock is read by requests that wait for each other.
HistoryIsOrdered ==
    \A i \in interactions : i.superseded_at = Null \/ i.occurred_at <= i.superseded_at

\* Why it holds: the clock a feedback request stamps its rows with was read while the row
\* lock kept every other writer of this user away.
StampsFollowHistory ==
    /\ clock >= 1
    /\ \A i \in interactions : i.occurred_at <= clock
    /\ \A r \in Requests : (pc[r] = "staged" /\ call[r].op = "feedback") =>
          /\ stamp[r] \in 1 .. clock
          /\ \A i \in interactions : i.user = call[r].user => i.occurred_at <= stamp[r]

\* What a body asks of a game is one row of each kind, and at most one reaction.
CallsAreFunctional ==
    \A r \in Requests : \A e, f \in call[r].desired : SameDimension(e[1], f[1]) => e = f

\* With Inv, an inductive invariant of the feedback history.
HistoryInv == StampsFollowHistory /\ CallsAreFunctional
              /\ HistoryIsOrdered /\ OneActiveRowPerDimension

\* Feedback history is append-only while its user exists: a row stays as it is, or is
\* closed once.
HistoryIsKept ==
    [][\A i \in interactions : users'[i.user].state = "live" =>
        \/ i \in interactions'
        \/ /\ i.superseded_at = Null
           /\ \E j \in interactions' : /\ j.superseded_at # Null
                                       /\ j = [i EXCEPT !.superseded_at = j.superseded_at]
      ]_vars

\* A deleted session leaves no preference, interaction or event, and no request that was
\* under way brings one back (docs: "no orphan event or post-delete owned row").
DeletionIsComplete ==
    \A u \in Users : users[u].state # "live" =>
        /\ prefs[u] = {}
        /\ \A i \in interactions : i.user # u
        /\ \A e \in events : e.user # u

\* What a session owns changes only while its row is there, not revoked and on the current
\* consent version - at the commit, not just when the request looked.
OwnedDataNeedsConsent ==
    [][\A u \in Users :
        (\/ prefs'[u] # prefs[u]
         \/ {i \in interactions' : i.user = u} # {i \in interactions : i.user = u}
         \/ {e \in events' : e.user = u} # {e \in events : e.user = u})
        => \/ users[u].state = "live" /\ users[u].consent = "current" /\ ~users[u].revoked
           \/ users'[u].state = "gone"]_vars

\* The docs say "Expired authentication cannot [...] re-consent into the old identity".
NoRenewalAfterExpiry ==
    [][\A r \in Requests : (call[r].op = "consent" /\ pc[r] = "begun" /\ pc'[r] = "staged")
                              => users[call[r].user].expires > clock]_vars

\* What the store promises, as one atomic step per request: see ProfileAtomic.
Atomic == INSTANCE ProfileAtomic WITH
    sessions <- [u \in Users |-> [state |-> users[u].state, consent |-> users[u].consent,
                                  revoked |-> users[u].revoked]],
    saved    <- prefs,
    feedback <- [u \in Users |-> [g \in Games |-> Pairs(ActiveRows(u), g)]],
    generations <- {[generation |-> e.generation, user |-> e.user, slugs |-> e.slugs,
                     feedback |-> [g \in Games |-> Pairs(e.rows, g)]] : e \in events},
    asked    <- call

\* Locks, snapshots, row versions, timestamps, retries and failures of the transactions
\* are invisible: each request behaves as if it ran alone, at one moment, or not at all.
ImplementsAtomicProfile == Atomic!Spec

\* Every request is answered: no transaction waits for a row forever.
EveryRequestIsAnswered ==
    \A r \in Requests : pc[r] = "begun" ~> pc[r] = "done"
=============================================================================
