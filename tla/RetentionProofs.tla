-------------------------- MODULE RetentionProofs --------------------------
(***************************************************************************)
(* Theorems of Retention: what holds of the profile store holds beside any *)
(* number of purges and revocations, which stay in their scope.            *)
(***************************************************************************)
EXTENDS Retention, ProfileStoreProofs

-----------------------------------------------------------------------------
\* The initial states satisfy the invariant.
LEMMA RetentionInitInv == RetentionInit => RetentionInv
<1> SUFFICES ASSUME RetentionInit PROVE RetentionInv
  OBVIOUS
<1>1. Inv
  BY InitInv DEF RetentionInit
<1>2. NoJob \in Job
  BY DEF NoJob, Job, Null
<1>3. RetentionTypeOK
  BY <1>2 DEF RetentionInit, RetentionTypeOK, Null
<1>4. BatchesStayEligible
  BY DEF RetentionInit, BatchesStayEligible
<1>5. RunsFollowJobs
  BY DEF RetentionInit, Init, RunsFollowJobs, CutoffsPast, NoJob, Null
<1>6. RetirementInv
  <2>1. ASSUME NEW u \in Users, users[u].state = "live", users[u].consent = "null"
        PROVE  users[u].revoked
    BY <2>1, ConstantsAssumption DEF RetentionInit, Init, ConsentLifecycleValid
  <2> QED
    BY <2>1 DEF RetentionInit, Init, RetirementInv, Null
<1> QED
  BY <1>1, <1>3, <1>4, <1>5, <1>6 DEF RetentionInv

-----------------------------------------------------------------------------
(* Requests. *)

\* A step of a request, or of time, is one of the profile store.
LEMMA LiveSteps ==
    /\ \A r \in Requests : Arrives(r) \/ Proceeds(r) \/ Aborts(r) => Next
    /\ TimePasses => Next
BY DEF Arrives, Proceeds, Aborts, TimePasses, Next, Failure

\* A request that goes on beside a batch has none of its rows, and takes none of them.
LEMMA BesideBatches ==
    ASSUME RetentionInv, NEW r \in Requests, Proceeds(r) \/ Aborts(r),
           NEW o \in Runs
    PROVE  /\ \A u \in batchUsers[o] : users'[u] = users[u] /\ lock'[u] = NoRequest
           /\ batchEvents[o] \subseteq events'
<1>1. \A u \in batchUsers[o] : u \in Users /\ lock[u] = NoRequest /\ users[u].state = "live"
  BY DEF RetentionInv, BatchesStayEligible, TargetUsers, Expired, RevokedBefore, Active
<1>2. batchEvents[o] \subseteq events
  BY DEF RetentionInv, BatchesStayEligible, TargetEvents
<1>3. CASE UNCHANGED tables
  <2>1. lock' = Released(r) \/ lock' = lock \/ LookupGranted(r)
    BY <1>3 DEF Proceeds, Aborts, Abort, Progress, Refuse, CommitUnacknowledged, Finish,
       LookupConflict, LookupUnauthenticated, LookupOutdated, ReadProfile, Commit,
       RollbackUnchanged, NoContentSignal, CreateSession, CreateCollision, CreateExhausted
  <2>2. LookupGranted(r) => call[r].user \notin batchUsers[o] /\ call[r].user \in Users
    <3> SUFFICES ASSUME LookupGranted(r)
                 PROVE  call[r].user \notin batchUsers[o] /\ call[r].user \in Users
      OBVIOUS
    <3>1. pc[r] = "begun" /\ pc'[r] # "done" /\ call[r].op # "create"
      BY DEF LookupGranted, LookingUp, RetentionInv, Inv, TypeOK
    <3>2. ~WaitsForBatch(r)
      BY <3>1 DEF Proceeds, Aborts, Abort, Finish, RetentionInv, Inv, TypeOK
    <3>3. call[r].user \in Users
      BY <3>1 DEF RetentionInv, Inv, CallsNameTargets, StagesMatchOperations
    <3> QED
      BY <3>1, <3>2, <3>3 DEF WaitsForBatch
  <2>3. LookupGranted(r) => \A u \in Users : u # call[r].user => lock'[u] = lock[u]
    BY DEF LookupGranted, RetentionInv, Inv, TypeOK
  <2> QED
    BY <1>1, <1>2, <1>3, <2>1, <2>2, <2>3 DEF tables, Released
<1>4. CASE Proceeds(r) /\ pc[r] = "staged" /\ Write(r) /\ lock' = Released(r)
  <2>1. ~WaitsForBatch(r) /\ Inv
    BY <1>4 DEF Proceeds, RetentionInv
  <2>2. \A u \in batchUsers[o] : u # call[r].user
    BY <1>1, <1>4, <2>1, StagedFacts, ConstantsAssumption
  <2>3. \A u \in batchUsers[o] : users'[u] = users[u]
    BY <1>1, <1>4, <2>1, <2>2, WriteFrame
  <2>4. batchEvents[o] \subseteq events'
    BY <1>2, <1>4, <2>1 DEF Write, WriteFeedback, WritePreferences, WriteGeneration,
       WriteDelete, WriteConsent, WaitsForBatch
  <2> QED
    BY <1>1, <1>4, <2>3, <2>4 DEF Released
<1>5. CASE CreateSession(r)
  BY <1>1, <1>2, <1>5 DEF CreateSession, Finish, Released, RetentionInv, Inv, TypeOK
<1>6. \/ UNCHANGED tables
      \/ Proceeds(r) /\ pc[r] = "staged" /\ Write(r) /\ lock' = Released(r)
      \/ CreateSession(r)
  BY DEF Proceeds, Aborts, Abort, Progress, Refuse, CommitUnacknowledged, Finish, tables,
     LookupConflict, LookupUnauthenticated, LookupOutdated, LookupGranted, ReadProfile,
     Commit, RollbackUnchanged, NoContentSignal, CreateCollision, CreateExhausted
<1> QED
  BY <1>3, <1>4, <1>5, <1>6

\* What a step of a request does besides: the clock stands, nobody is idle again, and what
\* was noted of a generation that has begun, or of a row that is there, stays.
LEMMA LiveFrame ==
    ASSUME RetentionInv, NEW r \in Requests, Arrives(r) \/ Proceeds(r) \/ Aborts(r)
    PROVE  /\ clock' = clock
           /\ \A q \in Requests : pc'[q] = "idle" => pc[q] = "idle"
           /\ \A q \in Requests : pc[q] # "idle" => started'[q] = started[q]
           /\ \A u \in Users : users[u].state = "live" => created'[u] = created[u]
           /\ started' \in [Requests -> Nat] /\ created' \in [Users -> Nat]
<1>1. CASE Arrives(r)
  <2>1. /\ clock' = clock /\ clock \in Nat /\ pc[r] = "idle"
        /\ \A q \in Requests : pc'[q] = "idle" => pc[q] = "idle"
    BY <1>1 DEF Arrives, Arrive, BeginFeedback, BeginPreferences, BeginGeneration,
       BeginLifecycle, BeginCreate, RefuseEarly, Begin, Finish, RetentionInv, Inv, TypeOK
  <2> QED
    BY <1>1, <2>1 DEF Arrives, RetentionInv, RetentionTypeOK
<1>2. CASE Proceeds(r) \/ Aborts(r)
  <2>1. /\ clock' = clock
        /\ \A q \in Requests : pc'[q] = "idle" => pc[q] = "idle"
    BY <1>2 DEF Proceeds, Aborts, Abort, Progress, Refuse, CommitUnacknowledged, Finish,
       LookupConflict, LookupUnauthenticated, LookupOutdated, LookupGranted, ReadProfile,
       Commit, RollbackUnchanged, NoContentSignal, CreateSession, CreateCollision,
       CreateExhausted, RetentionInv, Inv, TypeOK
  <2>2. /\ created' \in [Users -> Nat]
        /\ \A u \in Users : users[u].state = "live" => created'[u] = created[u]
    <3>1. CASE UNCHANGED created
      BY <3>1 DEF RetentionInv, RetentionTypeOK
    <3>2. CASE ~UNCHANGED created
      <4>1. PICK at \in stamp[r] .. clock :
                 created' = [u \in Users |-> IF users'[u] = users[u] THEN created[u] ELSE at]
        BY <1>2, <3>2 DEF Proceeds, Aborts, rowVars
      <4>2. CreateSession(r)
        BY <1>2, <3>2 DEF Proceeds, Aborts, rowVars
      <4>3. at \in Nat
        BY <4>1 DEF RetentionInv, Inv, TypeOK
      <4>4. \A u \in Users : users[u].state = "live" => users'[u] = users[u]
        BY <4>2 DEF CreateSession, RetentionInv, Inv, TypeOK
      <4> QED
        BY <4>1, <4>3, <4>4 DEF RetentionInv, RetentionTypeOK
    <3> QED
      BY <3>1, <3>2
  <2> QED
    BY <1>2, <2>1, <2>2 DEF Proceeds, Aborts, rowVars, RetentionInv, RetentionTypeOK
<1> QED
  BY <1>1, <1>2

\* Requests leave batches alone.
LEMMA LiveBatches ==
    ASSUME RetentionInv, NEW r \in Requests, Arrives(r) \/ Proceeds(r) \/ Aborts(r)
    PROVE  BatchesStayEligible'
<1>1. UNCHANGED <<runVars, revokedAt>>
  BY DEF Arrives, Proceeds, Aborts, rowVars
<1>2. ASSUME NEW o \in Runs
      PROVE  /\ \A u \in batchUsers[o] : users'[u] = users[u] /\ lock'[u] = NoRequest
             /\ batchEvents[o] \subseteq events'
  <2>1. CASE Arrives(r)
    <3>1. UNCHANGED <<users, events>> /\ \A u \in Users : lock[u] = NoRequest =>
                                                         lock'[u] = NoRequest
      BY <2>1 DEF Arrives, Arrive, BeginFeedback, BeginPreferences, BeginGeneration,
         BeginLifecycle, BeginCreate, RefuseEarly, Begin, Finish, Released, tables
    <3> QED
      BY <3>1 DEF RetentionInv, RetentionTypeOK, BatchesStayEligible, TargetEvents
  <2> QED
    BY <2>1, BesideBatches
<1>3. ASSUME NEW o \in Runs, NEW u \in batchUsers[o] PROVE u \in TargetUsers(o)'
  <2>1. u \in TargetUsers(o) /\ u \in Users
    BY <1>3 DEF RetentionInv, BatchesStayEligible, RetentionTypeOK
  <2>2. users[u].state = "live"
    BY <2>1 DEF TargetUsers, Expired, RevokedBefore, Active
  <2>3. users'[u] = users[u] /\ created'[u] = created[u]
    BY <1>2, <1>3, <2>1, <2>2, LiveFrame
  <2> QED
    BY <2>1, <2>3, <1>1 DEF TargetUsers, Expired, RevokedBefore, Active, runVars
<1>4. ASSUME NEW o \in Runs, NEW e \in batchEvents[o] PROVE e \in TargetEvents(o)'
  <2>1. e \in TargetEvents(o) /\ e \in events /\ e.generation \in Requests
    BY <1>4 DEF RetentionInv, BatchesStayEligible, TargetEvents, Inv, TypeOK, Event
  <2>2. started'[e.generation] = started[e.generation]
    BY <2>1, LiveFrame DEF RetentionInv, RunsFollowJobs
  <2> QED
    BY <1>1, <1>2, <1>4, <2>1, <2>2 DEF TargetEvents, runVars
<1> QED
  BY <1>1, <1>2, <1>3, <1>4 DEF BatchesStayEligible, RetentionInv, runVars

LEMMA LiveRuns ==
    ASSUME RetentionInv, NEW r \in Requests, Arrives(r) \/ Proceeds(r) \/ Aborts(r)
    PROVE  RetentionTypeOK' /\ RunsFollowJobs'
<1>1. UNCHANGED <<runVars, revokedAt, issuing, cutover>>
  BY DEF Arrives, Proceeds, Aborts, rowVars
<1>2. [Next]_vars
  BY LiveSteps
<1>3. \A e \in events' : pc'[e.generation] # "idle"
  <2> SUFFICES ASSUME NEW e \in events' PROVE pc'[e.generation] # "idle"
    OBVIOUS
  <2>1. CASE e \in events
    BY <2>1, LiveFrame DEF RetentionInv, RunsFollowJobs, Inv, TypeOK, Event
  <2>2. CASE e \notin events
    <3>1. PICK q \in Requests : pc[q] = "staged" /\ WriteGeneration(q)
      BY <1>2, <2>2, NewEvent
    <3>2. e.generation = q
      BY <2>2, <3>1 DEF WriteGeneration
    <3> QED
      BY <3>1, <3>2, LiveFrame
  <2> QED
    BY <2>1, <2>2
<1>4. RetentionTypeOK'
  BY <1>1, LiveFrame DEF RetentionInv, RetentionTypeOK, runVars
<1> QED
  BY <1>1, <1>3, <1>4, LiveFrame DEF RunsFollowJobs, RetentionInv, CutoffsPast, runVars

\* What the step of a request can do to a row: delete it, insert it, renew its consent, or
\* give it a new version.
LEMMA RowChanges ==
    ASSUME RetentionInv, NEW r \in Requests, Arrives(r) \/ Proceeds(r) \/ Aborts(r),
           NEW u \in Users, users'[u] # users[u]
    PROVE  \/ users'[u].state = "gone"
           \/ /\ CreateSession(r) /\ Proceeds(r)
              /\ users[u].state = "none" /\ users'[u] = InsertedRow(r)
           \/ /\ pc[r] = "staged" /\ call[r].op = "consent" /\ users[u].state = "live"
              /\ users'[u].consent = "current" /\ users'[u].state = "live"
           \/ /\ users[u].state = "live" /\ users'[u].state = "live"
              /\ users'[u].consent = users[u].consent /\ users'[u].expires = users[u].expires
              /\ users'[u].revoked = users[u].revoked
<1>1. ASSUME NEW q \in Requests, CreateSession(q)
      PROVE  /\ CreateSession(r) /\ Proceeds(r)
             /\ users[u].state = "none" /\ users'[u] = InsertedRow(r)
  <2>1. q = r /\ ~Arrives(r) /\ ~Aborts(r)
    BY <1>1 DEF CreateSession, Arrives, Proceeds, Aborts, Arrive, Abort, BeginFeedback,
       BeginPreferences, BeginGeneration, BeginLifecycle, BeginCreate, RefuseEarly, Begin,
       Finish, tables, RetentionInv, Inv, TypeOK, Progress, Refuse, CommitUnacknowledged,
       LookupConflict, LookupUnauthenticated, LookupOutdated, LookupGranted, ReadProfile,
       Commit, RollbackUnchanged, NoContentSignal, CreateCollision, CreateExhausted
  <2> QED
    BY <1>1, <2>1 DEF CreateSession, RetentionInv, Inv, TypeOK
<1>2. ASSUME NEW q \in Requests, NEW a \in Answers, pc[q] = "staged", Write(q), Finish(q, a)
      PROVE  q = r
  BY <1>2 DEF Arrives, Proceeds, Aborts, Arrive, Abort, BeginFeedback,
     BeginPreferences, BeginGeneration, BeginLifecycle, BeginCreate, RefuseEarly, Begin,
     Finish, tables, RetentionInv, Inv, TypeOK, Progress, Refuse, CommitUnacknowledged,
     LookupConflict, LookupUnauthenticated, LookupOutdated, LookupGranted, ReadProfile,
     Commit, RollbackUnchanged, NoContentSignal, CreateSession, CreateCollision,
     CreateExhausted
<1>3. ASSUME pc[r] = "staged", Write(r)
      PROVE  \/ users'[u].state = "gone"
             \/ /\ pc[r] = "staged" /\ call[r].op = "consent" /\ users[u].state = "live"
                /\ users'[u].consent = "current" /\ users'[u].state = "live"
             \/ /\ users[u].state = "live" /\ users'[u].state = "live"
                /\ users'[u].consent = users[u].consent
                /\ users'[u].expires = users[u].expires
                /\ users'[u].revoked = users[u].revoked
  <2>1. u = call[r].user /\ users[u].state = "live" /\ users[u] \in UserRow
    BY <1>3, WriteFrame, StagedFacts DEF RetentionInv
  <2>2. Touched(u)[u] = [users[u] EXCEPT !.xmin = @ + 1]
    BY DEF Touched, RetentionInv, Inv, TypeOK
  <2>3. CASE WriteConsent(r)
    BY <1>3, <2>1, <2>2, <2>3
       DEF WriteConsent, Renewed, Touched, UserRow, RetentionInv, Inv, TypeOK
  <2>4. CASE WriteDelete(r)
    BY <2>1, <2>4 DEF WriteDelete, RetentionInv, Inv, TypeOK
  <2>5. CASE users' = Touched(u)
    BY <2>1, <2>2, <2>5 DEF UserRow
  <2> QED
    BY <1>3, <2>1, <2>3, <2>4, <2>5 DEF Write, WriteFeedback, WritePreferences, WriteGeneration
<1> QED
  BY <1>1, <1>2, <1>3, LiveSteps, TableChanges DEF tables

\* Requests cannot undo a retirement.
LEMMA LiveRetirement ==
    ASSUME RetentionInv, NEW r \in Requests, Arrives(r) \/ Proceeds(r) \/ Aborts(r)
    PROVE  RetirementInv'
<1>1. UNCHANGED <<runVars, revokedAt, issuing, cutover>> /\ clock' = clock /\ clock \in Nat
  BY LiveFrame DEF Arrives, Proceeds, Aborts, rowVars, RetentionInv, Inv, TypeOK
<1>2. \A q \in Requests : stamp'[q] <= clock
  BY <1>1 DEF Arrives, Proceeds, Aborts, Arrive, Abort, BeginFeedback,
     BeginPreferences, BeginGeneration, BeginLifecycle, BeginCreate, RefuseEarly, Begin,
     Finish, RetentionInv, Inv, TypeOK, Progress, Refuse, CommitUnacknowledged,
     LookupConflict, LookupUnauthenticated, LookupOutdated, LookupGranted, ReadProfile,
     Commit, RollbackUnchanged, NoContentSignal, CreateSession, CreateCollision,
     CreateExhausted, RetirementInv, Now, Null
<1>3. ASSUME NEW u \in Users, users'[u].state = "live"
      PROVE  created'[u] <= clock /\ (users'[u].consent = "null" => users'[u].revoked)
  <2>1. CASE users'[u] = users[u]
    BY <1>3, <2>1, LiveFrame DEF RetentionInv, RetirementInv
  <2>2. CASE CreateSession(r) /\ Proceeds(r) /\ users'[u] = InsertedRow(r)
                              /\ users'[u] # users[u]
    BY <1>1, <2>2 DEF Proceeds, InsertedRow, RetentionInv, Inv, TypeOK
  <2> QED
    BY <1>3, <2>1, <2>2, RowChanges, LiveFrame DEF RetentionInv, RetirementInv
<1>4. ASSUME cutover # Null
      PROVE  /\ ~CreateSession(r)
             /\ ~(pc[r] = "staged" /\ call[r].op = "consent")
             /\ Drained'
             /\ \A u \in Users : users'[u].state = "live" =>
                   users[u].state = "live" /\ created'[u] <= cutover
  <2>1. Drained /\ ~issuing
    BY <1>4 DEF RetentionInv, RetirementInv
  <2>2. ~CreateSession(r) /\ ~(pc[r] = "staged" /\ call[r].op = "consent")
    BY <2>1 DEF Drained, ClockBeforeLock, CreateSession
  <2>3. ASSUME Arrives(r) PROVE Drained'
    <3>1. /\ \A q \in Requests : q # r => pc'[q] = pc[q] /\ call'[q] = call[q]
          /\ call'[r].op \notin {"consent", "create"} \/ pc'[r] = "done"
      BY <2>1, <2>3 DEF ClockBeforeLock, Arrives, Arrive, BeginFeedback, BeginPreferences,
         BeginGeneration, BeginLifecycle, BeginCreate, RefuseEarly, Begin, Finish,
         RetentionInv, Inv, TypeOK
    <3> QED
      BY <2>1, <3>1 DEF Drained, ClockBeforeLock
  <2>4. ASSUME Proceeds(r) \/ Aborts(r) PROVE Drained'
    <3>1. /\ call' = call
          /\ \A q \in Requests : pc[q] \in {"idle", "done"} =>
                pc'[q] = pc[q] \/ pc'[q] = "done"
      BY <2>4 DEF Proceeds, Aborts, Abort, Finish, Progress, Refuse, CommitUnacknowledged,
         LookupConflict, LookupUnauthenticated, LookupOutdated, LookupGranted, LookingUp,
         ReadProfile, Commit, RollbackUnchanged, NoContentSignal, CreateSession,
         CreateCollision, CreateExhausted, RetentionInv, Inv, TypeOK
    <3> QED
      BY <2>1, <3>1 DEF Drained, ClockBeforeLock
  <2> QED
    BY <1>4, <2>2, <2>3, <2>4, RowChanges, LiveFrame DEF RetentionInv, RetirementInv
<1>5. ASSUME NEW u \in Users, cutover # Null, ~Unexpired(users[u], clock)
      PROVE  ~Unexpired(users'[u], clock)
  BY <1>4, <1>5, RowChanges DEF Unexpired
<1> QED
  BY <1>1, <1>2, <1>3, <1>4, <1>5 DEF RetentionInv, RetirementInv, runVars

-----------------------------------------------------------------------------
(* Runs. *)

\* A batch commits: its rows are locked by no request, and each is deleted or gets a new
\* version, so whatever request has read them must fail.
LEMMA BatchInv ==
    ASSUME Inv, NEW S \in SUBSET Users,
           UNCHANGED <<clock, lock, pc, call, stamp, view, tries, answer>>,
           users' \in [Users -> UserRow], prefs' \in [Users -> SUBSET Slugs],
           interactions' \subseteq InteractionRow, events' \subseteq Event,
           \A u \in Users : u \notin S => users'[u] = users[u] /\ Profile(u)' = Profile(u),
           \A u \in S : /\ lock[u] = NoRequest
                        /\ \/ users'[u].state = "gone"
                           \/ /\ users[u].state = "live" /\ users'[u].state = "live"
                              /\ users'[u].xmin > users[u].xmin
    PROVE  Inv'
<1>1. TypeOK' /\ CallsNameTargets' /\ StagesMatchOperations'
  BY DEF Inv, TypeOK, CallsNameTargets, StagesMatchOperations
<1>2. \A q \in Requests : pc[q] \in {"locked", "staged"} =>
         call[q].user \in Users /\ call[q].user \notin S
  BY ConstantsAssumption DEF Inv, LockDiscipline
<1>3. LockDiscipline'
  BY <1>2 DEF Inv, LockDiscipline
<1>4. SnapshotsOnlyAge'
  <2> SUFFICES ASSUME NEW q \in Requests, NEW u \in Users,
                      call[q].user = u, pc[q] = "begun", call[q].op = "generate",
                      view[q].row.state = "live"
               PROVE  \/ users'[u].state = "gone"
                      \/ users'[u].state = "live" /\ view[q].row.xmin <= users'[u].xmin
    BY DEF SnapshotsOnlyAge
  <2>1. \/ users[u].state = "gone"
        \/ users[u].state = "live" /\ view[q].row.xmin <= users[u].xmin
    BY DEF Inv, SnapshotsOnlyAge
  <2>2. users[u] \in UserRow /\ users'[u] \in UserRow /\ view[q].row \in UserRow
    BY DEF Inv, TypeOK, View
  <2>3. CASE u \notin S
    BY <2>1, <2>3
  <2>4. CASE u \in S
    BY <2>1, <2>2, <2>4 DEF UserRow
  <2> QED
    BY <2>3, <2>4
<1>5. ViewsAreCurrent'
  <2> SUFFICES ASSUME NEW q \in Requests, NEW u \in Users,
                      call[q].user = u, users'[u].state = "live",
                      \/ pc[q] = "staged" /\ call[q].op \in OwnedOps
                      \/ SnapshotOf(q, u)'
               PROVE  view[q] = Profile(u)'
    BY DEF ViewsAreCurrent
  <2>1. CASE u \notin S
    BY <2>1 DEF Inv, ViewsAreCurrent, SnapshotOf
  <2>2. CASE u \in S
    <3>1. pc[q] = "begun" /\ call[q].op = "generate" /\ view[q].row = users'[u]
      BY <1>2, <2>2 DEF SnapshotOf
    <3>2. \/ users[u].state = "gone"
          \/ users[u].state = "live" /\ view[q].row.xmin <= users[u].xmin
      BY <3>1 DEF Inv, SnapshotsOnlyAge
    <3>3. users[u] \in UserRow /\ users'[u] \in UserRow
      BY DEF Inv, TypeOK
    <3> QED
      BY <3>1, <3>2, <3>3, <2>2 DEF UserRow
  <2> QED
    BY <2>1, <2>2
<1> QED
  BY <1>1, <1>3, <1>4, <1>5 DEF Inv

\* What is known of a row in a batch.
LEMMA BatchRows ==
    ASSUME RetentionInv, NEW o \in Runs, NEW u \in batchUsers[o]
    PROVE  /\ u \in Users /\ u \in TargetUsers(o) /\ lock[u] = NoRequest
           /\ users[u] \in UserRow /\ users[u].state = "live"
           /\ \A p \in Runs : p # o => u \notin batchUsers[p]
<1>1. u \in Users /\ u \in TargetUsers(o) /\ lock[u] = NoRequest
  BY DEF RetentionInv, BatchesStayEligible, RetentionTypeOK
<1>2. users[u].state = "live" /\ users[u] \in UserRow
  BY <1>1 DEF TargetUsers, Expired, RevokedBefore, Active, RetentionInv, Inv, TypeOK
<1>3. \A p \in Runs : p # o => u \notin batchUsers[p]
  BY DEF RetentionInv, BatchesStayEligible
<1> QED
  BY <1>1, <1>2, <1>3

LEMMA DeleteUsersInv ==
    ASSUME RetentionInv, NEW o \in Runs, DeleteUsers(o) PROVE RetentionInv'
<1> DEFINE gone == batchUsers[o] \cap TargetUsers(o)
<1>1. /\ gone \in SUBSET Users
      /\ \A u \in gone : lock[u] = NoRequest /\ \A p \in Runs : p # o => u \notin batchUsers[p]
  BY BatchRows
<1>2. /\ UNCHANGED <<clock, lock, pc, call, stamp, view, tries, answer, created, started>>
      /\ UNCHANGED <<issuing, cutover, phase, job, now, complete, retiring, revokedAt>>
  BY DEF DeleteUsers, EndBatch
<1>3. /\ users' = [u \in Users |-> IF u \in gone THEN [NoRow EXCEPT !.state = "gone"]
                                  ELSE users[u]]
      /\ prefs' = [u \in Users |-> IF u \in gone THEN {} ELSE prefs[u]]
      /\ interactions' = {i \in interactions : i.user \notin gone}
      /\ events' = {e \in events : e.user \notin gone}
      /\ \A p \in Runs : \A e \in batchEvents[p] : e.user \notin gone
  BY DEF DeleteUsers, EventsAfter
<1>4. batchUsers' = [batchUsers EXCEPT ![o] = {}] /\ batchEvents' = [batchEvents EXCEPT ![o] = {}]
  BY DEF DeleteUsers, EndBatch, ReleaseBatch
<1> HIDE DEF gone
<1>5. Inv'
  <2>1. users' \in [Users -> UserRow] /\ prefs' \in [Users -> SUBSET Slugs]
    BY <1>3 DEF RetentionInv, Inv, TypeOK, UserRow, NoRow, Null
  <2>2. interactions' \subseteq InteractionRow /\ events' \subseteq Event
    BY <1>3 DEF RetentionInv, Inv, TypeOK
  <2>3. \A u \in Users : u \notin gone => users'[u] = users[u] /\ Profile(u)' = Profile(u)
    BY <1>3 DEF Profile, ActiveRows
  <2>4. \A u \in gone : users'[u].state = "gone"
    BY <1>1, <1>3 DEF NoRow
  <2> QED
    BY <1>1, <1>2, <2>1, <2>2, <2>3, <2>4, BatchInv DEF RetentionInv
<1>6. RetentionTypeOK'
  BY <1>2, <1>4 DEF RetentionInv, RetentionTypeOK
<1>7. BatchesStayEligible'
  <2>1. ASSUME NEW p \in Runs, NEW u \in batchUsers'[p]
        PROVE  u \in TargetUsers(p)' /\ lock'[u] = NoRequest
    <3>1. p # o /\ u \in batchUsers[p]
      BY <2>1, <1>4 DEF RetentionInv, RetentionTypeOK
    <3>2. u \notin gone
      BY <1>1, <3>1
    <3>3. users'[u] = users[u] /\ u \in Users /\ u \in TargetUsers(p) /\ lock[u] = NoRequest
      BY <1>3, <3>1, <3>2, BatchRows
    <3> QED
      BY <1>2, <3>3 DEF TargetUsers, Expired, RevokedBefore, Active
  <2>2. ASSUME NEW p \in Runs, NEW e \in batchEvents'[p]
        PROVE  e \in TargetEvents(p)'
    <3>1. e \in batchEvents[p]
      BY <2>2, <1>4 DEF RetentionInv, RetentionTypeOK
    <3> QED
      BY <3>1, <1>2, <1>3 DEF TargetEvents, RetentionInv, BatchesStayEligible
  <2> QED
    BY <2>1, <2>2, <1>4 DEF BatchesStayEligible, RetentionInv, RetentionTypeOK
<1>8. RunsFollowJobs'
  BY <1>2, <1>3 DEF RunsFollowJobs, RetentionInv, CutoffsPast
<1>9. RetirementInv'
  BY <1>2, <1>3 DEF RetirementInv, RetentionInv, Drained, Unexpired, NoRow
<1> QED
  BY <1>5, <1>6, <1>7, <1>8, <1>9 DEF RetentionInv

LEMMA RevokeUsersInv ==
    ASSUME RetentionInv, NEW o \in Runs, RevokeUsers(o) PROVE RetentionInv'
<1> DEFINE chosen == batchUsers[o] \cap TargetUsers(o)
<1>1. /\ chosen \in SUBSET Users
      /\ \A u \in chosen : /\ lock[u] = NoRequest /\ users[u] \in UserRow
                           /\ users[u].state = "live"
                           /\ \A p \in Runs : p # o => u \notin batchUsers[p]
  BY BatchRows
<1>2. /\ UNCHANGED <<clock, lock, pc, call, stamp, view, tries, answer, created, started>>
      /\ UNCHANGED <<issuing, cutover, phase, job, now, complete, retiring>>
      /\ UNCHANGED <<prefs, interactions, events>>
  BY DEF RevokeUsers, EndBatch
<1>3. /\ users' = [u \in Users |-> IF u \in chosen THEN Revoked(u) ELSE users[u]]
      /\ revokedAt' = [u \in Users |-> IF u \in chosen THEN now[o] ELSE revokedAt[u]]
  BY DEF RevokeUsers
<1>4. batchUsers' = [batchUsers EXCEPT ![o] = {}] /\ batchEvents' = [batchEvents EXCEPT ![o] = {}]
  BY DEF RevokeUsers, EndBatch, ReleaseBatch
<1> HIDE DEF chosen
<1>5. ASSUME NEW u \in chosen
      PROVE  /\ users'[u] \in UserRow /\ users'[u].state = "live" /\ users'[u].revoked
             /\ users'[u].xmin > users[u].xmin
             /\ users'[u].expires = users[u].expires /\ users'[u].consent = users[u].consent
  <2>1. users'[u] = [Touched(u)[u] EXCEPT !.revoked = TRUE]
    BY <1>1, <1>3 DEF Revoked
  <2>2. /\ Touched(u)[u] \in UserRow /\ Touched(u)[u].state = "live"
        /\ Touched(u)[u].xmin > users[u].xmin
        /\ Touched(u)[u].expires = users[u].expires
        /\ Touched(u)[u].consent = users[u].consent
    <3>1. Touched(u)[u] = [users[u] EXCEPT !.xmin = @ + 1] /\ users[u] \in UserRow
      BY <1>1 DEF Touched, RetentionInv, Inv, TypeOK
    <3> QED
      BY <1>1, <3>1 DEF UserRow
  <2> QED
    BY <2>1, <2>2 DEF UserRow
<1>6. Inv'
  <2>1. users' \in [Users -> UserRow] /\ \A u \in Users : u \notin chosen => users'[u] = users[u]
    BY <1>3, <1>5 DEF RetentionInv, Inv, TypeOK
  <2>2. \A u \in Users : u \notin chosen => Profile(u)' = Profile(u)
    BY <1>2, <2>1 DEF Profile, ActiveRows
  <2> QED
    BY <1>1, <1>2, <1>5, <2>1, <2>2, BatchInv DEF RetentionInv, Inv, TypeOK
<1>7. RetentionTypeOK'
  BY <1>2, <1>3, <1>4 DEF RetentionInv, RetentionTypeOK
<1>8. BatchesStayEligible'
  <2>1. ASSUME NEW p \in Runs, NEW u \in batchUsers'[p]
        PROVE  u \in TargetUsers(p)' /\ lock'[u] = NoRequest
    <3>1. p # o /\ u \in batchUsers[p]
      BY <2>1, <1>4 DEF RetentionInv, RetentionTypeOK
    <3>2. u \notin chosen
      BY <1>1, <3>1
    <3>3. users'[u] = users[u] /\ revokedAt'[u] = revokedAt[u] /\ u \in Users
          /\ u \in TargetUsers(p) /\ lock[u] = NoRequest
      BY <1>3, <3>1, <3>2, BatchRows
    <3> QED
      BY <1>2, <3>3 DEF TargetUsers, Expired, RevokedBefore, Active
  <2>2. ASSUME NEW p \in Runs, NEW e \in batchEvents'[p]
        PROVE  e \in TargetEvents(p)'
    <3>1. e \in batchEvents[p]
      BY <2>2, <1>4 DEF RetentionInv, RetentionTypeOK
    <3> QED
      BY <3>1, <1>2 DEF TargetEvents, RetentionInv, BatchesStayEligible
  <2> QED
    BY <2>1, <2>2, <1>4 DEF BatchesStayEligible, RetentionInv, RetentionTypeOK
<1>9. RunsFollowJobs'
  BY <1>2 DEF RunsFollowJobs, RetentionInv, CutoffsPast
<1>10. RetirementInv'
  <2>1. \A u \in Users : users'[u] = users[u] \/ (users'[u].revoked /\ users[u].state = "live")
    BY <1>1, <1>3, <1>5
  <2> QED
    BY <1>2, <2>1 DEF RetirementInv, RetentionInv, Drained, Unexpired
<1> QED
  BY <1>6, <1>7, <1>8, <1>9, <1>10 DEF RetentionInv

LEMMA DeleteEventsInv ==
    ASSUME RetentionInv, NEW o \in Runs, DeleteEvents(o) PROVE RetentionInv'
<1> DEFINE old == batchEvents[o] \cap TargetEvents(o)
<1>1. /\ UNCHANGED <<clock, lock, pc, call, stamp, view, tries, answer, created, started>>
      /\ UNCHANGED <<issuing, cutover, phase, job, now, complete, retiring, revokedAt>>
      /\ UNCHANGED <<users, prefs, interactions>>
      /\ events' = events \ old
  BY DEF DeleteEvents, EndBatch
<1>2. batchUsers' = [batchUsers EXCEPT ![o] = {}] /\ batchEvents' = [batchEvents EXCEPT ![o] = {}]
  BY DEF DeleteEvents, EndBatch, ReleaseBatch
<1>3. \A p \in Runs : p # o => batchEvents[p] \cap old = {}
  BY DEF RetentionInv, BatchesStayEligible
<1> HIDE DEF old
<1>4. Inv'
  <2>1. \A u \in Users : Profile(u)' = Profile(u)
    BY <1>1 DEF Profile, ActiveRows
  <2>2. /\ Inv /\ {} \in SUBSET Users
        /\ users' \in [Users -> UserRow] /\ prefs' \in [Users -> SUBSET Slugs]
        /\ interactions' \subseteq InteractionRow /\ events' \subseteq Event
    BY <1>1 DEF RetentionInv, Inv, TypeOK
  <2>3. \A u \in Users : u \notin {} => users'[u] = users[u] /\ Profile(u)' = Profile(u)
    BY <1>1, <2>1
  <2> QED
    BY <1>1, <2>2, <2>3, BatchInv
<1>5. RetentionTypeOK'
  BY <1>1, <1>2 DEF RetentionInv, RetentionTypeOK
<1>6. BatchesStayEligible'
  <2>1. ASSUME NEW p \in Runs
        PROVE  /\ batchUsers'[p] \subseteq TargetUsers(p)'
               /\ batchEvents'[p] \subseteq TargetEvents(p)'
    <3>1. TargetUsers(p)' = TargetUsers(p)
      BY <1>1 DEF TargetUsers, Expired, RevokedBefore, Active
    <3>2. \A e \in batchEvents'[p] : e \in batchEvents[p] /\ e \notin old
      BY <1>2, <1>3 DEF RetentionInv, RetentionTypeOK
    <3> QED
      BY <1>1, <1>2, <3>1, <3>2
         DEF RetentionInv, RetentionTypeOK, BatchesStayEligible, TargetEvents
  <2> QED
    BY <2>1, <1>1, <1>2 DEF BatchesStayEligible, RetentionInv, RetentionTypeOK
<1>7. RunsFollowJobs' /\ RetirementInv'
  BY <1>1 DEF RunsFollowJobs, RetirementInv, RetentionInv, CutoffsPast, Drained, Unexpired
<1> QED
  BY <1>4, <1>5, <1>6, <1>7 DEF RetentionInv

\* The steps that change no table: a run starts, selects a batch, goes on, reports or stops,
\* the operator quiesces and notes the time, time passes.
LEMMA QuietInv ==
    ASSUME RetentionInv, UNCHANGED <<vars, rowVars>>
    PROVE  /\ Inv'
           /\ UNCHANGED <<phase, job, now>> => \A o \in Runs :
                 TargetUsers(o)' = TargetUsers(o) /\ TargetEvents(o)' = TargetEvents(o)
<1>1. Inv'
  BY NextInv DEF RetentionInv
<1>2. UNCHANGED <<users, events, created, revokedAt, started>>
  BY DEF vars, tables, rowVars
<1> QED
  BY <1>1, <1>2 DEF TargetUsers, TargetEvents, Expired, RevokedBefore, Active

LEMMA StartInv == ASSUME RetentionInv, NEW o \in Runs, Start(o) PROVE RetentionInv'
<1>1. PICK j \in Jobs : /\ CutoffsPast(j)
                        /\ job' = [job EXCEPT ![o] = j]
                        /\ phase' = [phase EXCEPT ![o] = IF j.kind = "purge" THEN "events"
                                                         ELSE "revoke"]
                        /\ retiring' = [retiring EXCEPT ![o] = Retires(j)]
  BY DEF Start
<1>2. /\ phase[o] = "idle" /\ now' = [now EXCEPT ![o] = clock] /\ j \in Job /\ clock \in Nat
      /\ UNCHANGED <<vars, rowVars, issuing, cutover, batchUsers, batchEvents, complete>>
  BY RetentionAssumption DEF Start, RetentionInv, Inv, TypeOK
<1>3. Inv'
  BY <1>2, QuietInv
<1>4. RetentionTypeOK'
  BY <1>1, <1>2 DEF RetentionInv, RetentionTypeOK, rowVars, Working, Retires
<1>5. BatchesStayEligible'
  <2>1. batchUsers[o] = {} /\ batchEvents[o] = {}
    BY <1>2 DEF RetentionInv, BatchesStayEligible, TargetUsers, TargetEvents
  <2>2. ASSUME NEW p \in Runs, p # o
        PROVE  TargetUsers(p)' = TargetUsers(p) /\ TargetEvents(p)' = TargetEvents(p)
    BY <1>1, <1>2, <2>2 DEF TargetUsers, TargetEvents, Expired, RevokedBefore, Active,
       vars, tables, rowVars, RetentionInv, RetentionTypeOK
  <2> QED
    BY <1>2, <2>1, <2>2 DEF RetentionInv, BatchesStayEligible, vars
<1>6. RunsFollowJobs'
  BY <1>1, <1>2 DEF RunsFollowJobs, RetentionInv, RetentionTypeOK, CutoffsPast, vars, tables
<1>7. RetirementInv'
  <2>1. ASSUME NEW p \in Runs, retiring'[p]
        PROVE  /\ cutover # Null /\ cutover <= job'[p].created
               /\ job'[p].kind = "revoke" /\ phase'[p] # "idle"
               /\ (phase'[p] = "done" /\ complete[p]) => \A u \in Users : ~Unexpired(users[u], clock)
    <3>1. CASE p = o
      BY <1>1, <1>2, <2>1, <3>1 DEF RetentionInv, RetentionTypeOK, Retires
    <3>2. CASE p # o
      BY <1>1, <1>2, <2>1, <3>2 DEF RetentionInv, RetentionTypeOK, RetirementInv
    <3> QED
      BY <3>1, <3>2
  <2> QED
    BY <1>2, <2>1 DEF RetirementInv, RetentionInv, Drained, vars, tables, rowVars
<1> QED
  BY <1>3, <1>4, <1>5, <1>6, <1>7 DEF RetentionInv

LEMMA SelectInv == ASSUME RetentionInv, NEW o \in Runs, Select(o) PROVE RetentionInv'
<1>1. PICK b \in SUBSET FreeUsers(o), c \in SUBSET FreeEvents(o) :
          batchUsers' = [batchUsers EXCEPT ![o] = b] /\ batchEvents' = [batchEvents EXCEPT ![o] = c]
  BY DEF Select, Batches
<1>2. UNCHANGED <<vars, rowVars, issuing, cutover, phase, job, now, complete, retiring>>
  BY DEF Select
<1>3. /\ Inv'
      /\ \A p \in Runs : TargetUsers(p)' = TargetUsers(p) /\ TargetEvents(p)' = TargetEvents(p)
  BY <1>2, QuietInv
<1>4. /\ \A u \in b : /\ u \in TargetUsers(o) /\ u \in Users /\ lock[u] = NoRequest
                      /\ \A p \in Runs : u \notin batchUsers[p]
      /\ \A e \in c : /\ e \in TargetEvents(o) /\ e \in events
                      /\ \A p \in Runs : e \notin batchEvents[p]
  BY DEF FreeUsers, FreeEvents, TargetUsers, TargetEvents
<1>5. RetentionTypeOK'
  BY <1>1, <1>2, <1>4 DEF RetentionInv, RetentionTypeOK, Inv, TypeOK, rowVars
<1>6. BatchesStayEligible'
  BY <1>1, <1>2, <1>3, <1>4 DEF RetentionInv, RetentionTypeOK, BatchesStayEligible, vars
<1>7. RunsFollowJobs' /\ RetirementInv'
  BY <1>2 DEF RunsFollowJobs, RetirementInv, RetentionInv, CutoffsPast, Drained, vars, tables,
     rowVars
<1> QED
  BY <1>3, <1>5, <1>6, <1>7 DEF RetentionInv

LEMMA PhaseInv ==
    ASSUME RetentionInv, NEW o \in Runs, Exhausted(o) \/ Interrupt(o) PROVE RetentionInv'
<1>1. /\ UNCHANGED <<vars, rowVars, issuing, cutover, job, now, complete, retiring>>
      /\ phase[o] \in Working \cup {"count"}
      /\ phase' = [phase EXCEPT ![o] = NextPhase(o)] \/ phase' = [phase EXCEPT ![o] = "stopped"]
      /\ batchUsers' = [batchUsers EXCEPT ![o] = {}] /\ batchEvents' = [batchEvents EXCEPT ![o] = {}]
  BY DEF Exhausted, Interrupt, ReleaseBatch, HoldsNothing, RetentionInv, RetentionTypeOK
<1>2. Inv'
  BY <1>1, QuietInv
<1>3. NextPhase(o) \in {"expired", "revoked", "count"}
      /\ (NextPhase(o) = "revoked" => job[o].revoked # Null)
  BY DEF NextPhase
<1>4. RetentionTypeOK'
  BY <1>1, <1>3 DEF RetentionInv, RetentionTypeOK, rowVars, Working
<1>5. BatchesStayEligible'
  <2>1. ASSUME NEW p \in Runs, p # o
        PROVE  TargetUsers(p)' = TargetUsers(p) /\ TargetEvents(p)' = TargetEvents(p)
    BY <1>1, <2>1 DEF TargetUsers, TargetEvents, Expired, RevokedBefore, Active,
       vars, tables, rowVars, RetentionInv, RetentionTypeOK
  <2> QED
    BY <1>1, <2>1 DEF RetentionInv, RetentionTypeOK, BatchesStayEligible, vars
<1>6. RunsFollowJobs'
  BY <1>1, <1>3 DEF RunsFollowJobs, RetentionInv, RetentionTypeOK, CutoffsPast, vars, tables
<1>7. RetirementInv'
  BY <1>1, <1>3 DEF RetirementInv, RetentionInv, RetentionTypeOK, Drained, vars, tables, rowVars,
     Working
<1> QED
  BY <1>2, <1>4, <1>5, <1>6, <1>7 DEF RetentionInv

\* The report of a retiring run: a session that is usable now is in its cohort.
LEMMA ReportInv == ASSUME RetentionInv, NEW o \in Runs, Report(o) PROVE RetentionInv'
<1>1. /\ UNCHANGED <<vars, rowVars, issuing, cutover, job, now, batchUsers, batchEvents, retiring>>
      /\ phase[o] = "count" /\ phase' = [phase EXCEPT ![o] = "done"]
      /\ complete' = [complete EXCEPT ![o] = ~Remains(o)]
  BY DEF Report
<1>2. Inv'
  BY <1>1, QuietInv
<1>3. RetentionTypeOK'
  <2>1. (~Remains(o)) \in BOOLEAN
    <3>1. CASE Remains(o)
      BY <3>1
    <3>2. CASE ~Remains(o)
      BY <3>2
    <3> QED
      BY <3>1, <3>2
  <2> QED
    BY <1>1, <2>1 DEF RetentionInv, RetentionTypeOK, rowVars
<1>4. BatchesStayEligible'
  <2>1. batchUsers[o] = {} /\ batchEvents[o] = {}
    BY <1>1 DEF RetentionInv, BatchesStayEligible, TargetUsers, TargetEvents
  <2>2. ASSUME NEW p \in Runs, p # o
        PROVE  TargetUsers(p)' = TargetUsers(p) /\ TargetEvents(p)' = TargetEvents(p)
    BY <1>1, <2>2 DEF TargetUsers, TargetEvents, Expired, RevokedBefore, Active,
       vars, tables, rowVars, RetentionInv, RetentionTypeOK
  <2> QED
    BY <1>1, <2>1, <2>2 DEF RetentionInv, BatchesStayEligible, vars
<1>5. RunsFollowJobs'
  BY <1>1 DEF RunsFollowJobs, RetentionInv, RetentionTypeOK, CutoffsPast, vars, tables
<1>6. ASSUME retiring[o], ~Remains(o), NEW u \in Users PROVE ~Unexpired(users[u], clock)
  <2> SUFFICES ASSUME Unexpired(users[u], clock) PROVE Active(u, job[o].created, now[o])
    BY <1>6 DEF Remains, RetentionInv, RetirementInv
  <2>1. /\ users[u].state = "live" /\ ~users[u].revoked /\ users[u].expires > clock
    BY DEF Unexpired
  <2>2. users[u].consent # "null" /\ created[u] <= cutover /\ cutover <= job[o].created
    BY <2>1, <1>6 DEF RetentionInv, RetirementInv
  <2>3. /\ users[u] \in UserRow /\ clock \in Nat /\ now[o] \in Nat
    BY DEF RetentionInv, Inv, TypeOK, RetentionTypeOK
  <2>4. now[o] <= clock
    BY DEF RetentionInv, RunsFollowJobs
  <2>5. created[u] \in Nat /\ cutover \in Nat /\ job[o].created \in Nat
    BY DEF RetentionInv, RetentionTypeOK, Job
  <2> QED
    BY <2>1, <2>2, <2>3, <2>4, <2>5 DEF Active, UserRow
<1>7. RetirementInv'
  BY <1>1, <1>6 DEF RetirementInv, RetentionInv, RetentionTypeOK, Drained, vars, tables, rowVars
<1> QED
  BY <1>2, <1>3, <1>4, <1>5, <1>7 DEF RetentionInv

LEMMA OperatorInv ==
    ASSUME RetentionInv, Quiesce \/ NoteCutover \/ TimePasses \/ UNCHANGED allVars
    PROVE  RetentionInv'
<1>1. /\ UNCHANGED <<tables, lock, pc, call, stamp, view, tries, answer, rowVars, runVars>>
      /\ clock' \in Nat /\ clock' >= clock
  <2>1. clock \in Nat
    BY DEF RetentionInv, Inv, TypeOK
  <2>2. UNCHANGED <<tables, lock, pc, call, stamp, view, tries, answer, rowVars, runVars>>
    BY DEF Quiesce, NoteCutover, TimePasses, Tick, allVars, vars, tables
  <2>3. clock' = clock \/ clock' = clock + 1
    BY DEF Quiesce, NoteCutover, TimePasses, Tick, allVars, vars
  <2> QED
    BY <2>1, <2>2, <2>3
<1>2. Inv'
  BY <1>1, IdleInv DEF RetentionInv
<1>3. /\ issuing' \in BOOLEAN /\ cutover' \in Nat
      /\ cutover' # Null => ~issuing' /\ Drained
      /\ cutover' = cutover \/ (cutover = Null /\ cutover' = clock)
  <2>1. clock \in Nat /\ issuing \in BOOLEAN /\ cutover \in Nat
        /\ (cutover # Null => ~issuing /\ Drained)
    BY DEF RetentionInv, RetentionTypeOK, RetirementInv, Inv, TypeOK
  <2>2. \/ issuing' = issuing /\ cutover' = cutover
        \/ issuing /\ issuing' = FALSE /\ cutover' = cutover
        \/ ~issuing /\ Drained /\ cutover = Null /\ cutover' = clock /\ issuing' = issuing
    BY DEF Quiesce, NoteCutover, TimePasses, allVars
  <2>3. issuing' \in BOOLEAN
    BY <2>1, <2>2
  <2>4. cutover' \in Nat /\ (cutover' = cutover \/ (cutover = Null /\ cutover' = clock))
    BY <2>1, <2>2
  <2>5. cutover' # Null => ~issuing' /\ Drained
    BY <2>1, <2>2, Zenon
  <2> QED
    BY <2>3, <2>4, <2>5
<1>4. RetentionTypeOK'
  BY <1>1, <1>3 DEF RetentionInv, RetentionTypeOK, rowVars, runVars
<1>5. BatchesStayEligible'
  BY <1>1 DEF RetentionInv, BatchesStayEligible, TargetUsers, TargetEvents, Expired,
     RevokedBefore, Active, rowVars, runVars, tables
<1>6. RunsFollowJobs'
  <2>1. clock \in Nat /\ \A o \in Runs : job[o] \in Job /\ now[o] \in Nat
    BY DEF RetentionInv, Inv, TypeOK, RetentionTypeOK
  <2> QED
    BY <1>1, <2>1 DEF RetentionInv, RunsFollowJobs, CutoffsPast, runVars, tables, Job
<1>7. RetirementInv'
  <2>1. /\ clock \in Nat /\ \A r \in Requests : stamp[r] \in Nat
        /\ \A u \in Users : users[u] \in UserRow /\ created[u] \in Nat
    BY DEF RetentionInv, Inv, TypeOK, RetentionTypeOK
  <2>2. ASSUME NEW u \in Users, Unexpired(users[u], clock') PROVE Unexpired(users[u], clock)
    <3>1. users[u].expires \in Nat
      BY <2>1 DEF UserRow
    <3> QED
      BY <1>1, <2>1, <2>2, <3>1 DEF Unexpired
  <2>3. \A u \in Users : users[u].state = "live" =>
           created[u] <= clock' /\ (users[u].consent = "null" => users[u].revoked)
    BY <1>1, <2>1 DEF RetentionInv, RetirementInv
  <2>4. \A r \in Requests : stamp[r] <= clock'
    BY <1>1, <2>1 DEF RetentionInv, RetirementInv
  <2>5. \A o \in Runs : retiring[o] => cutover # Null /\ cutover' = cutover
    BY DEF Quiesce, NoteCutover, TimePasses, allVars, RetentionInv, RetirementInv
  <2>6. cutover' # Null => \A u \in Users : users[u].state = "live" => created[u] <= cutover'
    BY <1>3 DEF RetentionInv, RetirementInv
  <2> QED
    BY <1>1, <1>3, <2>2, <2>3, <2>4, <2>5, <2>6
       DEF RetentionInv, RetirementInv, Drained, tables, rowVars, runVars
<1> QED
  BY <1>2, <1>4, <1>5, <1>6, <1>7 DEF RetentionInv

LEMMA RetentionNextInv == RetentionInv /\ [RetentionNext]_allVars => RetentionInv'
<1> SUFFICES ASSUME RetentionInv, [RetentionNext]_allVars PROVE RetentionInv'
  OBVIOUS
<1>1. ASSUME NEW r \in Requests, Arrives(r) \/ Proceeds(r) \/ Aborts(r) PROVE RetentionInv'
  <2>1. Inv'
    BY <1>1, LiveSteps, NextInv DEF RetentionInv
  <2> QED
    BY <1>1, <2>1, LiveBatches, LiveRuns, LiveRetirement DEF RetentionInv
<1>2. ASSUME NEW o \in Runs, Start(o) \/ Work(o) \/ Interrupt(o) PROVE RetentionInv'
  BY <1>2, StartInv, SelectInv, PhaseInv, DeleteEventsInv, DeleteUsersInv, RevokeUsersInv,
     ReportInv DEF Work
<1> QED
  BY <1>1, <1>2, OperatorInv DEF RetentionNext, AllDone

\* services/retention.py beside the API: for any number of sessions, requests and runs, what
\* holds of the profile store still holds, no row is in two hands, and a batch is still
\* eligible when it is carried out.
THEOREM RetentionInvHolds == RetentionSpec => []RetentionInv
BY RetentionInitInv, RetentionNextInv, PTL DEF RetentionSpec

\* The key-retirement procedure: for any number of sessions, requests and runs, a complete
\* revocation after the drained cutover leaves no usable session, for ever.
THEOREM RetirementIsComplete == RetentionSpec => []RetiredCohortIsGone
<1>1. RetentionInv => RetiredCohortIsGone
  BY DEF RetentionInv, RetirementInv, RetiredCohortIsGone
<1> QED
  BY <1>1, RetentionInvHolds, PTL

-----------------------------------------------------------------------------
(* What a step does to the tables. *)

\* A step changes the tables as a request does, or as a batch does.
LEMMA WhoWrites ==
    ASSUME [RetentionNext]_allVars
    PROVE  \/ UNCHANGED <<tables, revokedAt>>
           \/ [Next]_vars /\ UNCHANGED revokedAt
           \/ \E o \in Runs : DeleteEvents(o) \/ DeleteUsers(o) \/ RevokeUsers(o)
<1>1. ASSUME NEW r \in Requests, Arrives(r) \/ Proceeds(r) \/ Aborts(r)
      PROVE  Next /\ UNCHANGED revokedAt
  <2>1. UNCHANGED revokedAt
    BY <1>1 DEF Arrives, Proceeds, Aborts, rowVars
  <2> QED
    BY <1>1, <2>1, LiveSteps
<1>2. ASSUME NEW o \in Runs, Start(o) \/ Select(o) \/ Exhausted(o) \/ Report(o) \/ Interrupt(o)
      PROVE  UNCHANGED <<tables, revokedAt>>
  BY <1>2 DEF Start, Select, Exhausted, Report, Interrupt, vars, tables, rowVars
<1>3. CASE Quiesce \/ NoteCutover \/ TimePasses \/ AllDone \/ UNCHANGED allVars
  BY <1>3 DEF Quiesce, NoteCutover, TimePasses, Tick, AllDone, allVars, vars, tables, rowVars
<1> QED
  BY <1>1, <1>2, <1>3 DEF RetentionNext, Work

\* DELETE /me and the purge: what is gone has left nothing, with any number of runs beside.
THEOREM PurgeLeavesNothing == RetentionSpec => []DeletionIsComplete
<1>1. RetentionInit => DeletionIsComplete
  BY DeletionInit DEF RetentionInit
<1>2. ASSUME RetentionInv, DeletionIsComplete, [RetentionNext]_allVars PROVE DeletionIsComplete'
  <2>1. CASE UNCHANGED tables
    BY <1>2, <2>1 DEF tables, DeletionIsComplete
  <2>2. CASE [Next]_vars
    BY <1>2, <2>2, DeletionStep DEF RetentionInv
  <2>3. ASSUME NEW o \in Runs, DeleteEvents(o) PROVE DeletionIsComplete'
    BY <1>2, <2>3 DEF DeleteEvents, DeletionIsComplete
  <2>4. ASSUME NEW o \in Runs, DeleteUsers(o) PROVE DeletionIsComplete'
    BY <1>2, <2>4 DEF DeleteUsers, EventsAfter, DeletionIsComplete
  <2>5. ASSUME NEW o \in Runs, RevokeUsers(o) PROVE DeletionIsComplete'
    <3>1. \A u \in Users : users[u].state = "live" => users'[u].state = "live"
      BY <1>2, <2>5 DEF RevokeUsers, Revoked, Touched, RetentionInv, Inv, TypeOK, UserRow
    <3> QED
      BY <1>2, <2>5, <3>1 DEF RevokeUsers, DeletionIsComplete
  <2> QED
    BY <1>2, <2>1, <2>2, <2>3, <2>4, <2>5, WhoWrites
<1> QED
  BY <1>1, <1>2, RetentionInvHolds, PTL DEF RetentionSpec

\* AnonymousSessionRevocationService.revoke against every request in flight: a revoked row
\* and what it owns stay as they are until they are purged.
THEOREM RevokedStaysRevoked == RetentionSpec => RevocationIsFinal
<1>1. ASSUME RetentionInv, [RetentionNext]_allVars, NEW u \in Users,
             users[u].state = "live", users[u].revoked
      PROVE  \/ users'[u].state = "gone"
             \/ /\ users'[u] = users[u] /\ revokedAt'[u] = revokedAt[u]
                /\ prefs'[u] = prefs[u]
                /\ {i \in interactions' : i.user = u} = {i \in interactions : i.user = u}
                /\ {e \in events' : e.user = u} \subseteq events
  <2>1. CASE UNCHANGED <<tables, revokedAt>>
    BY <2>1 DEF tables
  <2>2. CASE [Next]_vars /\ UNCHANGED revokedAt
    <3>1. ASSUME NEW r \in Requests, pc[r] = "staged", Write(r)
          PROVE  /\ users'[u] = users[u] /\ prefs'[u] = prefs[u]
                 /\ {i \in interactions' : i.user = u} = {i \in interactions : i.user = u}
                 /\ {e \in events' : e.user = u} = {e \in events : e.user = u}
      <4>1. Inv
        BY <1>1 DEF RetentionInv
      <4>2. u # call[r].user
        BY <1>1, <3>1, <4>1 DEF Inv, LockDiscipline
      <4> QED
        BY <3>1, <4>1, <4>2, WriteFrame, OwnedFrame
    <3>2. ASSUME NEW r \in Requests, CreateSession(r)
          PROVE  users'[u] = users[u] /\ UNCHANGED <<prefs, interactions, events>>
      BY <1>1, <3>2 DEF CreateSession, RetentionInv, Inv, TypeOK
    <3> QED
      BY <2>2, <3>1, <3>2, TableChanges DEF tables
  <2>3. ASSUME NEW o \in Runs, DeleteEvents(o)
        PROVE  /\ UNCHANGED <<users, prefs, interactions, revokedAt>>
               /\ events' \subseteq events
    BY <2>3 DEF DeleteEvents
  <2>4. ASSUME NEW o \in Runs, DeleteUsers(o)
        PROVE  \/ users'[u].state = "gone"
               \/ /\ users'[u] = users[u] /\ prefs'[u] = prefs[u] /\ revokedAt' = revokedAt
                  /\ {i \in interactions' : i.user = u} = {i \in interactions : i.user = u}
                  /\ events' \subseteq events
    BY <2>4 DEF DeleteUsers, EventsAfter, NoRow
  <2>5. ASSUME NEW o \in Runs, RevokeUsers(o)
        PROVE  /\ users'[u] = users[u] /\ revokedAt'[u] = revokedAt[u]
               /\ UNCHANGED <<prefs, interactions, events>>
    <3>1. u \notin TargetUsers(o)
      BY <1>1, <2>5 DEF RevokeUsers, TargetUsers, Active
    <3> QED
      BY <2>5, <3>1 DEF RevokeUsers, RetentionInv, RetentionTypeOK
  <2> QED
    BY <1>1, <2>1, <2>2, <2>3, <2>4, <2>5, WhoWrites
<1>2. ASSUME RetentionInv, [RetentionNext]_allVars
      PROVE  \A u \in Users : (users[u].state = "live" /\ users[u].revoked) =>
             \/ users'[u].state = "gone"
             \/ /\ users'[u] = users[u] /\ revokedAt'[u] = revokedAt[u]
                /\ prefs'[u] = prefs[u]
                /\ {i \in interactions' : i.user = u} = {i \in interactions : i.user = u}
                /\ {e \in events' : e.user = u} \subseteq events
  BY <1>1, <1>2
<1> QED
  BY <1>2, RetentionInvHolds, PTL DEF RetentionSpec, RevocationIsFinal

\* RetentionService.purge: for any number of runs and requests, whatever is deleted and not
\* by its owner is in the batch of a run whose own cutoff for rows of its kind covers it, and
\* a session that is not revoked has expired by the clock too.
THEOREM PurgeKeepsToItsScope == RetentionSpec => PurgeStaysInScope
<1>1. ASSUME RetentionInv, [RetentionNext]_allVars, NEW u \in Users,
             users[u].state = "live", users'[u].state = "gone"
      PROVE  \/ \E r \in Requests : /\ pc[r] = "staged" /\ pc'[r] = "done"
                                    /\ call[r].op = "delete" /\ call[r].user = u
             \/ /\ ~users[u].revoked /\ users[u].expires <= clock
                /\ \E o \in Runs : /\ phase[o] = "expired" /\ u \in batchUsers[o]
                                   /\ users[u].expires <= job[o].expired
             \/ /\ users[u].revoked
                /\ \E o \in Runs : /\ phase[o] = "revoked" /\ u \in batchUsers[o]
                                   /\ job[o].revoked # Null /\ revokedAt[u] <= job[o].revoked
  <2>1. ASSUME NEW r \in Requests, NEW a \in Answers, pc[r] = "staged", Write(r), Finish(r, a)
        PROVE  pc'[r] = "done" /\ call[r].op = "delete" /\ call[r].user = u
    <3>1. Inv
      BY <1>1 DEF RetentionInv
    <3>2. call[r].user = u /\ pc'[r] = "done"
      BY <1>1, <2>1, <3>1, WriteFrame DEF Finish, Inv, TypeOK
    <3>3. users \in [Users -> UserRow]
      BY <3>1 DEF Inv, TypeOK
    <3>4. Touched(u)[u].state = "live"
      BY <1>1, <3>3 DEF Touched, UserRow
    <3>5. users' # Touched(u) /\ ~WriteConsent(r)
      BY <1>1, <3>2, <3>3, <3>4 DEF WriteConsent, Renewed, Touched, UserRow
    <3> QED
      BY <2>1, <3>2, <3>5
         DEF Write, WriteFeedback, WritePreferences, WriteGeneration, WriteDelete
  <2>2. ASSUME NEW r \in Requests, CreateSession(r) PROVE users'[u] = users[u]
    BY <1>1, <2>2 DEF CreateSession, RetentionInv, Inv, TypeOK
  <2>3. ASSUME NEW o \in Runs, DeleteUsers(o)
        PROVE  \/ /\ ~users[u].revoked /\ users[u].expires <= clock
                  /\ phase[o] = "expired" /\ u \in batchUsers[o]
                  /\ users[u].expires <= job[o].expired
               \/ /\ users[u].revoked /\ phase[o] = "revoked" /\ u \in batchUsers[o]
                  /\ job[o].revoked # Null /\ revokedAt[u] <= job[o].revoked
    <3>1. u \in batchUsers[o] /\ u \in TargetUsers(o) /\ phase[o] # "revoke"
      BY <1>1, <2>3 DEF DeleteUsers
    <3>2. job[o].expired <= clock /\ (phase[o] = "revoked" => job[o].revoked # Null)
      BY <1>1 DEF RetentionInv, RunsFollowJobs, CutoffsPast
    <3>3. job[o].expired \in Nat /\ clock \in Nat /\ users[u].expires \in Nat
      BY <1>1 DEF RetentionInv, Inv, TypeOK, RetentionTypeOK, Job, UserRow
    <3> QED
      BY <3>1, <3>2, <3>3 DEF TargetUsers, Expired, RevokedBefore
  <2>4. ASSUME NEW o \in Runs, DeleteEvents(o) \/ RevokeUsers(o) PROVE FALSE
    <3>1. CASE DeleteEvents(o)
      BY <1>1, <3>1 DEF DeleteEvents
    <3>2. CASE RevokeUsers(o)
      BY <1>1, <3>2 DEF RevokeUsers, Revoked, Touched, RetentionInv, Inv, TypeOK, UserRow
    <3> QED
      BY <2>4, <3>1, <3>2
  <2> QED
    BY <1>1, <2>1, <2>2, <2>3, <2>4, WhoWrites, TableChanges DEF tables
<1>2. ASSUME RetentionInv, [RetentionNext]_allVars, NEW e \in events \ events',
             users'[e.user].state = "live"
      PROVE  \E o \in Runs : /\ phase[o] = "events" /\ e \in batchEvents[o]
                             /\ started[e.generation] <= job[o].events
  <2>1. e.user \in Users
    BY <1>2 DEF RetentionInv, Inv, TypeOK, Event
  <2>2. ASSUME NEW r \in Requests, pc[r] = "staged", Write(r) PROVE FALSE
    <3>1. WriteDelete(r) /\ e.user = call[r].user
      BY <1>2, <2>2 DEF Write, WriteFeedback, WritePreferences, WriteGeneration, WriteDelete,
         WriteConsent
    <3> QED
      BY <1>2, <2>1, <3>1 DEF WriteDelete, RetentionInv, Inv, TypeOK
  <2>3. ASSUME NEW r \in Requests, CreateSession(r) PROVE FALSE
    BY <1>2, <2>3 DEF CreateSession
  <2>4. ASSUME NEW o \in Runs, DeleteUsers(o) \/ RevokeUsers(o) PROVE FALSE
    BY <1>2, <2>1, <2>4 DEF DeleteUsers, RevokeUsers, EventsAfter, NoRow
  <2>5. ASSUME NEW o \in Runs, DeleteEvents(o)
        PROVE  /\ phase[o] = "events" /\ e \in batchEvents[o]
               /\ started[e.generation] <= job[o].events
    BY <1>2, <2>5 DEF DeleteEvents, TargetEvents
  <2> QED
    BY <1>2, <2>2, <2>3, <2>4, <2>5, WhoWrites, TableChanges DEF tables
<1>3. ASSUME RetentionInv, [RetentionNext]_allVars
      PROVE  /\ \A u \in Users : (users[u].state = "live" /\ users'[u].state = "gone") =>
                    \/ \E r \in Requests : /\ pc[r] = "staged" /\ pc'[r] = "done"
                                           /\ call[r].op = "delete" /\ call[r].user = u
                    \/ /\ ~users[u].revoked /\ users[u].expires <= clock
                       /\ \E o \in Runs : /\ phase[o] = "expired" /\ u \in batchUsers[o]
                                          /\ users[u].expires <= job[o].expired
                    \/ /\ users[u].revoked
                       /\ \E o \in Runs : /\ phase[o] = "revoked" /\ u \in batchUsers[o]
                                          /\ job[o].revoked # Null /\ revokedAt[u] <= job[o].revoked
             /\ \A e \in events \ events' : users'[e.user].state = "live" =>
                    \E o \in Runs : /\ phase[o] = "events" /\ e \in batchEvents[o]
                                    /\ started[e.generation] <= job[o].events
  BY <1>1, <1>2, <1>3
<1> QED
  BY <1>3, RetentionInvHolds, PTL DEF RetentionSpec, PurgeStaysInScope
=============================================================================
