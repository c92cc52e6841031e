----------------------------- MODULE Retention -----------------------------
(***************************************************************************)
(* The operator's commands beside the live requests of ProfileStore:       *)
(* purging old events, expired and revoked sessions, and revoking the      *)
(* sessions of a creation cohort (services/retention.py).                  *)
(*                                                                         *)
(* A run works in batches, each a transaction of its own: it selects and   *)
(* locks rows FOR UPDATE SKIP LOCKED, deletes or revokes them, commits.  A *)
(* request whose session is in a batch waits; a run never waits for a      *)
(* request.  An operator may interrupt a run and start another one.        *)
(***************************************************************************)
EXTENDS ProfileStore

CONSTANTS
    Runs,       \* executions of the two commands, each used once
    BatchSize,
    Jobs        \* what the operator may ask for

\* A purge has cutoffs for events and expired sessions, and perhaps (not Null) one for
\* revoked sessions; a revocation has a cutoff for the creation time.
Job == [kind : {"purge", "revoke"}, events : Nat, expired : Nat, revoked : Nat, created : Nat]

NoJob == [kind |-> "purge", events |-> Null, expired |-> Null, revoked |-> Null,
          created |-> Null]

ASSUME RetentionAssumption == BatchSize \in Nat \ {0} /\ Jobs \subseteq Job

VARIABLES
    created,     \* users.created_at
    revokedAt,   \* users.revoked_at, Null when NULL
    started,     \* when the transaction of a generation began: its event's generated_at
    issuing,     \* the API creates and renews sessions (with the secret to be retired)
    cutover,     \* the time the operator noted once that had ended, Null before
    phase,       \* how far each run has got
    job,         \* what each run was asked for
    now,         \* the clock value a revocation works with
    batchUsers,  \* rows of users a run has locked
    batchEvents, \* rows of recommendation_events a run has locked
    complete,    \* the run reported that no eligible row remains
    retiring     \* the run was started to retire the secret: with the noted time or later

runVars  == <<phase, job, now, batchUsers, batchEvents, complete, retiring>>
rowVars  == <<created, revokedAt, started>>
allVars  == <<vars, rowVars, issuing, cutover, runVars>>

Working == {"events", "expired", "revoked", "revoke"}

RetentionInit ==
    /\ Init
    /\ created = [u \in Users |-> 1]
    /\ revokedAt = [u \in Users |-> IF users[u].revoked THEN 1 ELSE Null]
    /\ started = [r \in Requests |-> Null]
    /\ issuing = TRUE /\ cutover = Null
    /\ phase = [o \in Runs |-> "idle"]
    /\ job = [o \in Runs |-> NoJob]
    /\ now = [o \in Runs |-> Null]
    /\ batchUsers = [o \in Runs |-> {}]
    /\ batchEvents = [o \in Runs |-> {}]
    /\ complete = [o \in Runs |-> FALSE]
    /\ retiring = [o \in Runs |-> FALSE]

-----------------------------------------------------------------------------
(* Requests beside a run. *)

\* A look-up FOR UPDATE waits for the batch its session is in; the cascade of DELETE /me
\* waits for events in a batch.
WaitsForBatch(r) ==
    \E o \in Runs :
        \/ pc[r] = "begun" /\ call[r].user \in batchUsers[o]
        \/ /\ pc[r] = "staged" /\ call[r].op = "delete"
           /\ \E e \in batchEvents[o] : e.user = call[r].user

Arrives(r) ==
    /\ Arrive(r)
    /\ ClockBeforeLock(call'[r].op) => issuing
    /\ started' = IF call'[r].op = "generate" THEN [started EXCEPT ![r] = clock] ELSE started
    /\ UNCHANGED <<created, revokedAt, issuing, cutover, runVars>>

\* created_at is when the inserting transaction began: between the first look at the
\* clock and the commit.
Proceeds(r) ==
    /\ Progress(r) \/ Refuse(r) \/ CommitUnacknowledged(r)
    /\ ~WaitsForBatch(r)
    /\ \/ ~CreateSession(r) /\ UNCHANGED created
       \/ /\ CreateSession(r)
          /\ \E at \in stamp[r] .. clock :
                created' = [u \in Users |-> IF users'[u] = users[u] THEN created[u] ELSE at]
    /\ UNCHANGED <<revokedAt, started, issuing, cutover, runVars>>

Aborts(r) == Abort(r) /\ UNCHANGED <<rowVars, issuing, cutover, runVars>>

TimePasses == Tick /\ UNCHANGED <<rowVars, issuing, cutover, runVars>>

-----------------------------------------------------------------------------
(* Retiring a secret: the operator stops creation and renewal, lets the requests under   *)
(* way end, and notes the time.                                                           *)

Quiesce == /\ issuing /\ issuing' = FALSE
           /\ UNCHANGED <<vars, rowVars, cutover, runVars>>

Drained == \A r \in Requests : pc[r] \in {"idle", "done"} \/ ~ClockBeforeLock(call[r].op)

NoteCutover == /\ ~issuing /\ cutover = Null /\ Drained
               /\ cutover' = clock
               /\ UNCHANGED <<vars, rowVars, issuing, runVars>>

-----------------------------------------------------------------------------
(* The rows a run is for. *)

\* RetentionService.purge, the second and third filter
Mut_AnyExpired(u, before) == /\ users[u].state = "live" /\ users[u].consent # "null"
                             /\ users[u].expires <= clock /\ ~users[u].revoked
Expired(u, before) == /\ users[u].state = "live" /\ users[u].consent # "null"
                      /\ users[u].expires <= before /\ ~users[u].revoked

RevokedBefore(u, before) == /\ users[u].state = "live" /\ users[u].revoked
                            /\ revokedAt[u] <= before

\* AnonymousSessionRevocationService._active_filters
Mut_CurrentConsentOnly(u, before, at) ==
    /\ users[u].state = "live" /\ users[u].consent = "current"
    /\ created[u] <= before /\ users[u].expires > at /\ ~users[u].revoked
Active(u, before, at) ==
    /\ users[u].state = "live" /\ users[u].consent # "null"
    /\ created[u] <= before /\ users[u].expires > at /\ ~users[u].revoked

TargetUsers(o) ==
    {u \in Users : \/ phase[o] = "expired" /\ Expired(u, job[o].expired)
                   \/ phase[o] = "revoked" /\ RevokedBefore(u, job[o].revoked)
                   \/ phase[o] = "revoke" /\ Active(u, job[o].created, now[o])}

TargetEvents(o) ==
    {e \in events : phase[o] = "events" /\ started[e.generation] <= job[o].events}

\* SKIP LOCKED: a row in a transaction of anyone else is passed over.
Mut_NotSkipped(o) == TargetUsers(o)
FreeUsers(o) == {u \in TargetUsers(o) : /\ lock[u] = NoRequest
                                        /\ \A p \in Runs : u \notin batchUsers[p]}

FreeEvents(o) == {e \in TargetEvents(o) : \A p \in Runs : e \notin batchEvents[p]}

-----------------------------------------------------------------------------
(* The steps of a run. *)

\* _validate_cutoffs
Mut_FutureAllowed(j) == TRUE
CutoffsPast(j) == \A t \in {j.events, j.expired, j.revoked, j.created} : t <= clock

\* Whether a job is the last step of retiring the secret.
Retires(j) == j.kind = "revoke" /\ cutover # Null /\ cutover <= j.created

Start(o) ==
    /\ phase[o] = "idle"
    /\ \E j \in Jobs : /\ CutoffsPast(j)
                       /\ job' = [job EXCEPT ![o] = j]
                       /\ phase' = [phase EXCEPT ![o] = IF j.kind = "purge" THEN "events"
                                                        ELSE "revoke"]
                       /\ retiring' = [retiring EXCEPT ![o] = Retires(j)]
    /\ now' = [now EXCEPT ![o] = clock]
    /\ UNCHANGED <<vars, rowVars, issuing, cutover, batchUsers, batchEvents, complete>>

\* SELECT ... LIMIT batch_size FOR UPDATE SKIP LOCKED; which rows come first is open.
Batches(rows) == {b \in SUBSET rows : \/ Cardinality(b) = BatchSize
                                      \/ b = rows /\ Cardinality(b) < BatchSize}

HoldsNothing(o) == batchUsers[o] = {} /\ batchEvents[o] = {}

Select(o) ==
    /\ phase[o] \in Working /\ HoldsNothing(o)
    /\ FreeUsers(o) # {} \/ FreeEvents(o) # {}
    /\ \E b \in Batches(FreeUsers(o)) : batchUsers' = [batchUsers EXCEPT ![o] = b]
    /\ \E b \in Batches(FreeEvents(o)) : batchEvents' = [batchEvents EXCEPT ![o] = b]
    /\ UNCHANGED <<vars, rowVars, issuing, cutover, phase, job, now, complete, retiring>>

\* Nothing was selected: the next kind of row, at last the count of what remains.
NextPhase(o) ==
    LET p == phase[o] IN
    IF p = "events" THEN "expired"
    ELSE IF p = "expired" /\ job[o].revoked # Null THEN "revoked"
    ELSE "count"

Exhausted(o) ==
    /\ phase[o] \in Working /\ HoldsNothing(o)
    /\ FreeUsers(o) = {} /\ FreeEvents(o) = {}
    /\ phase' = [phase EXCEPT ![o] = NextPhase(o)]
    /\ UNCHANGED <<vars, rowVars, issuing, cutover, job, now, batchUsers, batchEvents,
                   complete, retiring>>

\* The transaction of the batch ends.
Mut_StaysOpen(o) == UNCHANGED <<batchUsers, batchEvents>>
ReleaseBatch(o) == /\ batchUsers' = [batchUsers EXCEPT ![o] = {}]
                   /\ batchEvents' = [batchEvents EXCEPT ![o] = {}]

EndBatch(o) ==
    /\ ReleaseBatch(o)
    /\ UNCHANGED <<clock, lock, pc, call, stamp, view, tries, answer, created, started,
                   issuing, cutover, phase, job, now, complete, retiring>>

DeleteEvents(o) ==
    /\ batchEvents[o] # {}
    /\ events' = events \ (batchEvents[o] \cap TargetEvents(o))
    /\ EndBatch(o)
    /\ UNCHANGED <<users, prefs, interactions, revokedAt>>

\* The foreign keys cascade, as in DELETE /me, and wait for events in another batch.
Mut_EventsStay(gone) == events
EventsAfter(gone) == {e \in events : e.user \notin gone}

DeleteUsers(o) ==
    LET gone == batchUsers[o] \cap TargetUsers(o) IN
    /\ batchUsers[o] # {} /\ phase[o] # "revoke"
    /\ \A p \in Runs : \A e \in batchEvents[p] : e.user \notin gone
    /\ users' = [u \in Users |-> IF u \in gone THEN [NoRow EXCEPT !.state = "gone"]
                                 ELSE users[u]]
    /\ prefs' = [u \in Users |-> IF u \in gone THEN {} ELSE prefs[u]]
    /\ interactions' = {i \in interactions : i.user \notin gone}
    /\ events' = EventsAfter(gone)
    /\ EndBatch(o)
    /\ UNCHANGED revokedAt

Revoked(u) == [Touched(u)[u] EXCEPT !.revoked = TRUE]

RevokeUsers(o) ==
    LET chosen == batchUsers[o] \cap TargetUsers(o) IN
    /\ batchUsers[o] # {} /\ phase[o] = "revoke"
    /\ users' = [u \in Users |-> IF u \in chosen THEN Revoked(u) ELSE users[u]]
    /\ revokedAt' = [u \in Users |-> IF u \in chosen THEN now[o] ELSE revokedAt[u]]
    /\ EndBatch(o)
    /\ UNCHANGED <<prefs, interactions, events>>

\* The report: what is still eligible, whoever holds it.
Remains(o) ==
    LET j == job[o] IN
    IF j.kind = "purge"
    THEN \/ \E e \in events : started[e.generation] <= j.events
         \/ \E u \in Users : Expired(u, j.expired)
         \/ j.revoked # Null /\ \E u \in Users : RevokedBefore(u, j.revoked)
    ELSE \E u \in Users : Active(u, j.created, now[o])

Report(o) ==
    /\ phase[o] = "count"
    /\ phase' = [phase EXCEPT ![o] = "done"]
    /\ complete' = [complete EXCEPT ![o] = ~Remains(o)]
    /\ UNCHANGED <<vars, rowVars, issuing, cutover, job, now, batchUsers, batchEvents,
                   retiring>>

\* The operator or a failure stops the run: an open batch is rolled back.
Interrupt(o) ==
    /\ phase[o] \in Working \cup {"count"}
    /\ phase' = [phase EXCEPT ![o] = "stopped"]
    /\ ReleaseBatch(o)
    /\ UNCHANGED <<vars, rowVars, issuing, cutover, job, now, complete, retiring>>

-----------------------------------------------------------------------------
Work(o) == \/ Select(o) \/ Exhausted(o) \/ DeleteEvents(o) \/ DeleteUsers(o)
           \/ RevokeUsers(o) \/ Report(o)

AllDone == /\ clock = MaxTime
           /\ \A r \in Requests : pc[r] = "done"
           /\ \A o \in Runs : phase[o] \in {"done", "stopped"}
           /\ UNCHANGED allVars

RetentionNext ==
    \/ \E r \in Requests : Arrives(r) \/ Proceeds(r) \/ Aborts(r)
    \/ \E o \in Runs : Start(o) \/ Work(o) \/ Interrupt(o)
    \/ Quiesce \/ NoteCutover \/ TimePasses \/ AllDone

RetentionSpec == RetentionInit /\ [][RetentionNext]_allVars

\* A started command runs, and the API serves; nobody need start or interrupt anything.
FairRetentionSpec == /\ RetentionSpec
                     /\ \A o \in Runs : WF_allVars(Work(o))
                     /\ \A r \in Requests : WF_allVars(Proceeds(r))
-----------------------------------------------------------------------------
RetentionTypeOK ==
    /\ created \in [Users -> Nat] /\ revokedAt \in [Users -> Nat]
    /\ started \in [Requests -> Nat]
    /\ issuing \in BOOLEAN /\ cutover \in Nat
    /\ phase \in [Runs -> Working \cup {"idle", "count", "done", "stopped"}]
    /\ job \in [Runs -> Job] /\ now \in [Runs -> Nat]
    /\ batchUsers \in [Runs -> SUBSET Users]
    /\ batchEvents \in [Runs -> SUBSET Event]
    /\ complete \in [Runs -> BOOLEAN] /\ retiring \in [Runs -> BOOLEAN]

\* No row is in two hands, and a selected row is still what the filters of its run are for
\* when the batch is carried out, although the filters ran earlier.
BatchesStayEligible ==
    \A o \in Runs :
        /\ batchUsers[o] \subseteq TargetUsers(o)
        /\ batchEvents[o] \subseteq TargetEvents(o)
        /\ \A u \in batchUsers[o] : lock[u] = NoRequest
        /\ \A p \in Runs \ {o} : /\ batchUsers[o] \cap batchUsers[p] = {}
                                 /\ batchEvents[o] \cap batchEvents[p] = {}

\* The event of a generation that has begun: what is noted of it does not change any more.
\* A run is in the phase its job has, with cutoffs that were past when it started.
RunsFollowJobs ==
    /\ \A e \in events : pc[e.generation] # "idle"
    /\ \A o \in Runs : /\ CutoffsPast(job[o]) /\ now[o] <= clock
                       /\ phase[o] = "revoked" => job[o].revoked # Null

\* Once the time of retirement is noted nothing can create or renew a session: every
\* session was created by then, and a usable one is what a retiring run still counts.
RetirementInv ==
    /\ \A u \in Users : users[u].state = "live" =>
          created[u] <= clock /\ (users[u].consent = "null" => users[u].revoked)
    /\ \A r \in Requests : stamp[r] <= clock
    /\ cutover # Null => /\ ~issuing /\ Drained
                         /\ \A u \in Users : users[u].state = "live" => created[u] <= cutover
    /\ \A o \in Runs : retiring[o] =>
          /\ cutover # Null /\ cutover <= job[o].created
          /\ job[o].kind = "revoke" /\ phase[o] # "idle"
          /\ (phase[o] = "done" /\ complete[o]) => \A u \in Users : ~Unexpired(users[u], clock)

\* The inductive invariant: that of the profile store, and exclusive batches.
RetentionInv == /\ Inv /\ RetentionTypeOK /\ BatchesStayEligible
                /\ RunsFollowJobs /\ RetirementInv

\* A session disappears by its own DELETE /me or out of the batch of a purge.  The purge was
\* then at its expired sessions, and the session is not revoked and has expired, by the
\* clock and by the cutoff given for these; or it was at its revoked sessions, and this one
\* was revoked up to the cutoff given for those.  An
\* event of a session that stays leaves out of the batch of a purge with an old enough
\* cutoff for events (docs: "Execute deletes only events/users at or before the documented
\* cutoff and leaves newer state untouched").
PurgeStaysInScope ==
    [][/\ \A u \in Users : (users[u].state = "live" /\ users'[u].state = "gone") =>
             \/ \E r \in Requests : /\ pc[r] = "staged" /\ pc'[r] = "done"
                                    /\ call[r].op = "delete" /\ call[r].user = u
             \/ /\ ~users[u].revoked /\ users[u].expires <= clock
                /\ \E o \in Runs : /\ phase[o] = "expired" /\ u \in batchUsers[o]
                                   /\ users[u].expires <= job[o].expired
             \/ /\ users[u].revoked
                /\ \E o \in Runs : /\ phase[o] = "revoked" /\ u \in batchUsers[o]
                                   /\ job[o].revoked # Null /\ revokedAt[u] <= job[o].revoked
       /\ \A e \in events \ events' : users'[e.user].state = "live" =>
             \E o \in Runs : /\ phase[o] = "events" /\ e \in batchEvents[o]
                             /\ started[e.generation] <= job[o].events
      ]_allVars

\* Revocation is final and touches nothing else: whatever request was under way, a revoked
\* session is not renewed or revived, nothing is added to or changed in what it owns, and
\* only a purge takes anything from it (docs: "restoring an old HMAC secret cannot
\* reactivate revoked rows", "It preserves owned data until explicit deletion/retention").
RevocationIsFinal ==
    [][\A u \in Users : (users[u].state = "live" /\ users[u].revoked) =>
          \/ users'[u].state = "gone"
          \/ /\ users'[u] = users[u] /\ revokedAt'[u] = revokedAt[u]
             /\ prefs'[u] = prefs[u]
             /\ {i \in interactions' : i.user = u} = {i \in interactions : i.user = u}
             /\ {e \in events' : e.user = u} \subseteq events
      ]_allVars

\* The key-retirement procedure: once issuing is quiesced and drained, a revocation with
\* the noted time or a later one that reports remaining = 0 leaves no usable session,
\* and none comes back (docs: "until `remaining` is zero before retiring the old secret").
RetiredCohortIsGone ==
    \A o \in Runs :
        (retiring[o] /\ phase[o] = "done" /\ complete[o])
            => \A u \in Users : ~Unexpired(users[u], clock)

\* A run that nobody interrupts ends, whatever the requests beside it do: SKIP LOCKED
\* keeps it from waiting, and no row is selected again and again.
EveryRunEnds ==
    \A o \in Runs : phase[o] \in Working ~> phase[o] \in {"done", "stopped"}
=============================================================================
