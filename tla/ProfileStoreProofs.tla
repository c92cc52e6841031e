------------------------- MODULE ProfileStoreProofs -------------------------
(***************************************************************************)
(* Theorems of ProfileStore, for any sets of users, requests, games and    *)
(* values.  First the inductive invariant Inv; from it what is stored:     *)
(* generations record the profile of their commit, consent covers every    *)
(* change, deletion leaves nothing, replacement is exact, and feedback     *)
(* history is well formed and kept; last, that the store implements        *)
(* ProfileAtomic.                                                          *)
(***************************************************************************)
EXTENDS ProfileStore, TLAPS

-----------------------------------------------------------------------------
\* The initial states satisfy the invariant.
LEMMA InitInv == Init => Inv
<1> SUFFICES ASSUME Init PROVE Inv
  OBVIOUS
<1>1. TypeOK
  <2>1. users \in [Users -> UserRow]
    BY ConstantsAssumption DEF Init
  <2>2. prefs \in [Users -> SUBSET Slugs]
    BY ConstantsAssumption DEF Init
  <2>3. NoCall \in Call /\ NoView \in View
    BY DEF NoCall, NoView, NoRow, Call, View, UserRow, Ops, Null
  <2> QED
    BY <2>1, <2>2, <2>3, ConstantsAssumption DEF Init, TypeOK, Null
<1>2. CallsNameTargets /\ StagesMatchOperations /\ SnapshotsOnlyAge
  BY DEF Init, CallsNameTargets, StagesMatchOperations, SnapshotsOnlyAge, NoCall
<1>3. LockDiscipline
  BY DEF Init, LockDiscipline
<1>4. ViewsAreCurrent
  BY DEF Init, ViewsAreCurrent, SnapshotOf
<1> QED
  BY <1>1, <1>2, <1>3, <1>4 DEF Inv

-----------------------------------------------------------------------------
\* A transaction ends that changed the rows of one user at most, a user nobody else holds,
\* and left that user's row deleted, with a new version, or inserted.
LEMMA EndOfTransaction ==
    ASSUME Inv, NEW r \in Requests, NEW a \in Answers, NEW w, Finish(r, a),
           users' \in [Users -> UserRow], prefs' \in [Users -> SUBSET Slugs],
           interactions' \subseteq InteractionRow, events' \subseteq Event,
           \A u \in Users : u # w => users'[u] = users[u] /\ Profile(u)' = Profile(u),
           w \in Users =>
              /\ lock[w] \in {r, NoRequest}
              /\ \/ users'[w].state = "gone"
                 \/ /\ users[w].state = "live" /\ users'[w].state = "live"
                    /\ users'[w].xmin > users[w].xmin
                 \/ users[w].state = "none"
    PROVE  Inv'
<1>1. TypeOK'
  <2>1. NoView \in View
    BY DEF NoView, NoRow, View, UserRow, Null
  <2> QED
    BY <2>1 DEF Inv, TypeOK, Finish, Released, Null
<1>2. CallsNameTargets' /\ StagesMatchOperations'
  BY DEF Inv, TypeOK, Finish, CallsNameTargets, StagesMatchOperations
<1>3. \A q \in Requests : pc'[q] # "done" => q # r /\ pc'[q] = pc[q] /\ view'[q] = view[q]
  BY DEF Inv, TypeOK, Finish
<1>4. call' = call /\ \A u \in Users : lock'[u] = IF lock[u] = r THEN NoRequest ELSE lock[u]
  BY DEF Finish, Released
<1>5. LockDiscipline'
  <2>1. ASSUME NEW u \in Users, lock'[u] # NoRequest
        PROVE  pc'[lock'[u]] \in {"locked", "staged"} /\ call'[lock'[u]].user = u
    BY <2>1, <1>4 DEF Inv, TypeOK, LockDiscipline, Finish
  <2>2. ASSUME NEW q \in Requests, pc'[q] \in {"locked", "staged"}
        PROVE  LET row == users'[call'[q].user] IN
               /\ call'[q].user \in Users /\ lock'[call'[q].user] = q
               /\ row.state = "live" /\ ~row.revoked
               /\ call'[q].op \in OwnedOps => row.consent = "current"
    <3>1. q # r /\ pc[q] \in {"locked", "staged"}
      BY <2>2, <1>3
    <3>2. call[q].user \in Users /\ lock[call[q].user] = q
      BY <3>1 DEF Inv, LockDiscipline
    <3>3. call[q].user # w
      BY <3>1, <3>2, ConstantsAssumption
    <3> QED
      BY <3>1, <3>2, <3>3, <1>4 DEF Inv, LockDiscipline
  <2> QED
    BY <2>1, <2>2 DEF LockDiscipline
<1>6. SnapshotsOnlyAge'
  <2> SUFFICES ASSUME NEW q \in Requests, NEW u \in Users,
                      call'[q].user = u, pc'[q] = "begun", call'[q].op = "generate",
                      view'[q].row.state = "live"
               PROVE  \/ users'[u].state = "gone"
                      \/ users'[u].state = "live" /\ view'[q].row.xmin <= users'[u].xmin
    BY DEF SnapshotsOnlyAge
  <2>1. \/ users[u].state = "gone"
        \/ users[u].state = "live" /\ view[q].row.xmin <= users[u].xmin
    BY <1>3, <1>4 DEF Inv, SnapshotsOnlyAge
  <2>2. users[u] \in UserRow /\ users'[u] \in UserRow /\ view[q].row \in UserRow
    BY DEF Inv, TypeOK, View
  <2>3. CASE u # w
    BY <2>1, <2>3, <1>3
  <2>4. CASE u = w
    BY <2>1, <2>2, <2>4, <1>3 DEF UserRow
  <2> QED
    BY <2>3, <2>4
<1>7. ViewsAreCurrent'
  <2> SUFFICES ASSUME NEW q \in Requests, NEW u \in Users,
                      call'[q].user = u, users'[u].state = "live",
                      \/ pc'[q] = "staged" /\ call'[q].op \in OwnedOps
                      \/ SnapshotOf(q, u)'
               PROVE  view'[q] = Profile(u)'
    BY DEF ViewsAreCurrent
  <2>1. q # r /\ pc'[q] = pc[q] /\ view'[q] = view[q] /\ call[q].user = u
    BY <1>3, <1>4 DEF SnapshotOf
  <2>2. CASE u # w
    BY <2>1, <2>2, <1>4 DEF Inv, ViewsAreCurrent, SnapshotOf
  <2>3. CASE u = w
    <3>1. pc[q] # "staged"
      BY <2>1, <2>3, ConstantsAssumption DEF Inv, LockDiscipline
    <3>2. /\ pc[q] = "begun" /\ call[q].op = "generate" /\ view[q].row = users'[w]
      BY <3>1, <2>1, <2>3, <1>4 DEF SnapshotOf
    <3>3. \/ users[w].state = "gone"
          \/ users[w].state = "live" /\ view[q].row.xmin <= users[w].xmin
      BY <3>2, <2>1, <2>3 DEF Inv, SnapshotsOnlyAge
    <3>4. users[w] \in UserRow /\ users'[w] \in UserRow
      BY <2>3 DEF Inv, TypeOK
    <3> QED
      BY <3>2, <3>3, <3>4, <2>3 DEF UserRow
  <2> QED
    BY <2>2, <2>3
<1> QED
  BY <1>1, <1>2, <1>5, <1>6, <1>7 DEF Inv

\* A transaction ends without a change.
LEMMA EndUnchanged ==
    ASSUME Inv, NEW r \in Requests, NEW a \in Answers, Finish(r, a), UNCHANGED tables
    PROVE  Inv'
<1>1. \A u \in Users : users'[u] = users[u] /\ Profile(u)' = Profile(u)
  BY DEF tables, Profile, ActiveRows
<1>2. NoUser \notin Users
  BY ConstantsAssumption
<1> QED
  BY <1>1, <1>2, EndOfTransaction DEF tables, Inv, TypeOK

\* A request arrives: it holds nothing and has read nothing, or just now.
LEMMA BeginInv ==
    ASSUME Inv, NEW r \in Requests, NEW c \in Call, Begin(r, c), c.op # "none",
           c.op \notin {"create", "none"} => c.user \in Users,
           c.op = "feedback" => c.game \in Games,
           \/ UNCHANGED view /\ c.op # "generate"
           \/ c.op = "generate" /\ view' = [view EXCEPT ![r] = Profile(c.user)]
    PROVE  Inv'
<1>1. TypeOK'
  <2>1. c.op = "generate" => Profile(c.user) \in View
    BY DEF Inv, TypeOK, Profile, ActiveRows, View
  <2> QED
    BY <2>1 DEF Inv, TypeOK, Begin, tables, Null
<1>2. /\ pc[r] = "idle" /\ pc'[r] = "begun" /\ call'[r] = c
      /\ \A q \in Requests : q # r => /\ pc'[q] = pc[q] /\ call'[q] = call[q]
                                      /\ view'[q] = view[q]
  BY DEF Inv, TypeOK, Begin
<1>3. UNCHANGED <<users, prefs, interactions, lock>>
  BY DEF Begin, tables
<1>4. \A u \in Users : Profile(u)' = Profile(u)
  BY <1>3 DEF Profile, ActiveRows
<1>5. CallsNameTargets' /\ StagesMatchOperations'
  BY <1>2 DEF Inv, CallsNameTargets, StagesMatchOperations
<1>6. LockDiscipline'
  BY <1>2, <1>3 DEF Inv, TypeOK, LockDiscipline
<1>7. c.op = "generate" => view'[r] = Profile(c.user)
  BY DEF Inv, TypeOK
<1>8. SnapshotsOnlyAge'
  <2> SUFFICES ASSUME NEW q \in Requests, NEW u \in Users,
                      call'[q].user = u, pc'[q] = "begun", call'[q].op = "generate",
                      view'[q].row.state = "live"
               PROVE  \/ users[u].state = "gone"
                      \/ users[u].state = "live" /\ view'[q].row.xmin <= users[u].xmin
    BY <1>3 DEF SnapshotsOnlyAge
  <2>1. CASE q = r
    <3>1. view'[q].row = users[u]
      BY <1>2, <1>7, <2>1 DEF Profile
    <3>2. users[u].xmin \in Nat
      BY DEF Inv, TypeOK, UserRow
    <3> QED
      BY <3>1, <3>2
  <2>2. CASE q # r
    BY <2>2, <1>2 DEF Inv, SnapshotsOnlyAge
  <2> QED
    BY <2>1, <2>2
<1>9. ViewsAreCurrent'
  <2> SUFFICES ASSUME NEW q \in Requests, NEW u \in Users,
                      call'[q].user = u, users'[u].state = "live",
                      \/ pc'[q] = "staged" /\ call'[q].op \in OwnedOps
                      \/ SnapshotOf(q, u)'
               PROVE  view'[q] = Profile(u)'
    BY DEF ViewsAreCurrent
  <2>1. CASE q = r
    BY <1>2, <1>4, <1>7, <2>1 DEF SnapshotOf
  <2>2. CASE q # r
    BY <1>2, <1>3, <1>4, <2>2 DEF Inv, ViewsAreCurrent, SnapshotOf
  <2> QED
    BY <2>1, <2>2
<1> QED
  BY <1>1, <1>5, <1>6, <1>8, <1>9 DEF Inv

\* The arrivals are such beginnings.
LEMMA ArriveInv == ASSUME Inv, NEW r \in Requests, Arrive(r) PROVE Inv'
<1>1. CASE BeginFeedback(r)
  <2>1. PICK u \in Users, g \in Games, body \in FeedbackBodies :
            /\ Begin(r, [op |-> "feedback", user |-> u, game |-> g,
                         desired |-> Desired(body), slugs |-> {}])
            /\ UNCHANGED view
    BY <1>1 DEF BeginFeedback
  <2>2. Desired(body) \subseteq StateTypes \X Values
    BY DEF Desired
  <2> DEFINE c == [op |-> "feedback", user |-> u, game |-> g,
                   desired |-> Desired(body), slugs |-> {}]
  <2>3. c \in Call
    BY <2>2 DEF Call, Ops, OwnedOps
  <2>4. c.op = "feedback" /\ c.user = u /\ c.game = g
    OBVIOUS
  <2> HIDE DEF c
  <2> QED
    BY <2>1, <2>3, <2>4, BeginInv DEF c
<1>2. CASE BeginPreferences(r)
  <2>1. PICK u \in Users, body \in PreferenceBodies \cup {{}} :
            /\ Begin(r, [op |-> "preferences", user |-> u, game |-> NoGame,
                         desired |-> {}, slugs |-> body])
            /\ UNCHANGED view
    BY <1>2 DEF BeginPreferences
  <2> DEFINE c == [op |-> "preferences", user |-> u, game |-> NoGame,
                   desired |-> {}, slugs |-> body]
  <2>2. body \subseteq Slugs
    BY ConstantsAssumption
  <2>3. c \in Call
    BY <2>2 DEF Call, Ops, OwnedOps
  <2>4. c.op = "preferences" /\ c.user = u
    OBVIOUS
  <2> HIDE DEF c
  <2> QED
    BY <2>1, <2>3, <2>4, BeginInv DEF c
<1>3. CASE BeginGeneration(r)
  <2>1. PICK u \in Users :
            /\ Begin(r, [op |-> "generate", user |-> u, game |-> NoGame,
                         desired |-> {}, slugs |-> {}])
            /\ view' = [view EXCEPT ![r] = Profile(u)]
    BY <1>3 DEF BeginGeneration
  <2> DEFINE c == [op |-> "generate", user |-> u, game |-> NoGame,
                   desired |-> {}, slugs |-> {}]
  <2>2. c \in Call
    BY DEF Call, Ops, OwnedOps
  <2>3. c.op = "generate" /\ c.user = u
    OBVIOUS
  <2> HIDE DEF c
  <2> QED
    BY <2>1, <2>2, <2>3, BeginInv DEF c
<1>4. CASE BeginLifecycle(r)
  <2>1. PICK u \in Users, op \in {"delete", "consent"} :
            /\ Begin(r, [op |-> op, user |-> u, game |-> NoGame,
                         desired |-> {}, slugs |-> {}])
            /\ UNCHANGED view
    BY <1>4 DEF BeginLifecycle
  <2> DEFINE c == [op |-> op, user |-> u, game |-> NoGame, desired |-> {}, slugs |-> {}]
  <2>2. c \in Call
    BY DEF Call, Ops, OwnedOps
  <2>3. c.op \in {"delete", "consent"} /\ c.user = u
    OBVIOUS
  <2> HIDE DEF c
  <2> QED
    BY <2>1, <2>2, <2>3, BeginInv DEF c
<1>5. CASE BeginCreate(r)
  <2> DEFINE c == [NoCall EXCEPT !.op = "create"]
  <2>1. c \in Call /\ c.op = "create"
    BY DEF Call, Ops, OwnedOps, NoCall
  <2>2. Begin(r, c) /\ UNCHANGED view
    BY <1>5 DEF BeginCreate
  <2> HIDE DEF c
  <2> QED
    BY <2>1, <2>2, BeginInv
<1>6. CASE RefuseEarly(r)
  BY <1>6, EndUnchanged DEF RefuseEarly, Answers
<1> QED
  BY <1>1, <1>2, <1>3, <1>4, <1>5, <1>6 DEF Arrive

-----------------------------------------------------------------------------
\* The row lock is taken by a request that found the newest row, or the snapshot's row
\* still in place.
LEMMA LookupGrantedInv == ASSUME Inv, NEW r \in Requests, LookupGranted(r) PROVE Inv'
<1> DEFINE w == call[r].user
<1>1. /\ pc[r] = "begun" /\ call[r].op # "create" /\ lock[w] = NoRequest
      /\ ~SerializationConflict(r)
      /\ Unexpired(FoundRow(r), Now(r)) /\ ConsentSuffices(r)
      /\ UNCHANGED <<clock, tables, call, stamp, view, tries, answer>>
      /\ lock' = [lock EXCEPT ![w] = r]
      /\ pc' = [pc EXCEPT ![r] = IF call[r].op \in {"feedback", "preferences"}
                                 THEN "locked" ELSE "staged"]
  BY DEF LookupGranted, LookingUp, RowFree
<1>2. call[r].op \in Ops \ {"create", "none"} /\ w \in Users
  BY <1>1 DEF Inv, TypeOK, Call, CallsNameTargets, StagesMatchOperations
<1>3. /\ FoundRow(r) = users[w] /\ users[w].state = "live" /\ ~users[w].revoked
      /\ call[r].op \in OwnedOps => users[w].consent = "current"
  BY <1>1 DEF FoundRow, SerializationConflict, Unexpired, ConsentSuffices
<1>4. TypeOK'
  BY <1>1, <1>2 DEF Inv, TypeOK, tables
<1>5. /\ pc'[r] \in {"locked", "staged"} /\ lock'[w] = r
      /\ pc'[r] = "locked" <=> call[r].op \in {"feedback", "preferences"}
      /\ \A q \in Requests : q # r => pc'[q] = pc[q]
      /\ \A u \in Users : u # w => lock'[u] = lock[u]
      /\ UNCHANGED <<users, prefs, interactions, call, view>>
  BY <1>1, <1>2 DEF Inv, TypeOK, tables
<1>6. \A u \in Users : Profile(u)' = Profile(u)
  BY <1>5 DEF Profile, ActiveRows
<1>7. CallsNameTargets' /\ StagesMatchOperations'
  BY <1>2, <1>5 DEF Inv, CallsNameTargets, StagesMatchOperations
<1>8. LockDiscipline'
  <2>1. ASSUME NEW u \in Users, lock'[u] # NoRequest
        PROVE  pc'[lock'[u]] \in {"locked", "staged"} /\ call'[lock'[u]].user = u
    <3>1. CASE u = w
      BY <3>1, <1>5
    <3>2. CASE u # w
      <4>1. /\ lock[u] \in Requests /\ pc[lock[u]] \in {"locked", "staged"}
            /\ call[lock[u]].user = u
        BY <3>2, <2>1, <1>5 DEF Inv, TypeOK, LockDiscipline
      <4> QED
        BY <4>1, <3>2, <1>1, <1>5
    <3> QED
      BY <3>1, <3>2
  <2>2. ASSUME NEW q \in Requests, pc'[q] \in {"locked", "staged"}
        PROVE  LET row == users'[call'[q].user] IN
               /\ call'[q].user \in Users /\ lock'[call'[q].user] = q
               /\ row.state = "live" /\ ~row.revoked
               /\ call'[q].op \in OwnedOps => row.consent = "current"
    <3>1. CASE q = r
      BY <3>1, <1>2, <1>3, <1>5
    <3>2. CASE q # r
      <4>1. pc[q] \in {"locked", "staged"}
        BY <2>2, <3>2, <1>5
      <4>2. call[q].user # w
        BY <4>1, <1>1, ConstantsAssumption DEF Inv, LockDiscipline
      <4> QED
        BY <4>1, <4>2, <1>5 DEF Inv, LockDiscipline
    <3> QED
      BY <3>1, <3>2
  <2> QED
    BY <2>1, <2>2 DEF LockDiscipline
<1>9. SnapshotsOnlyAge'
  BY <1>5 DEF Inv, SnapshotsOnlyAge
<1>10. ViewsAreCurrent'
  <2> SUFFICES ASSUME NEW q \in Requests, NEW u \in Users,
                      call'[q].user = u, users'[u].state = "live",
                      \/ pc'[q] = "staged" /\ call'[q].op \in OwnedOps
                      \/ SnapshotOf(q, u)'
               PROVE  view'[q] = Profile(u)'
    BY DEF ViewsAreCurrent
  <2>1. CASE q = r /\ pc'[r] = "staged" /\ call[r].op \in OwnedOps
    <3>1. call[r].op = "generate" /\ u = w
      BY <2>1, <1>5 DEF OwnedOps
    <3>2. view[r].row = users[w]
      BY <3>1, <1>3 DEF FoundRow
    <3>3. view[r] = Profile(w)
      BY <3>1, <3>2, <1>1, <1>2, <1>3 DEF Inv, ViewsAreCurrent, SnapshotOf
    <3> QED
      BY <2>1, <3>1, <3>3, <1>2, <1>5, <1>6
  <2>2. CASE q # r
    BY <2>2, <1>5, <1>6 DEF Inv, ViewsAreCurrent, SnapshotOf
  <2> QED
    BY <2>1, <2>2, <1>5 DEF SnapshotOf
<1> QED
  BY <1>4, <1>7, <1>8, <1>9, <1>10 DEF Inv

\* The holder of the lock reads.
LEMMA ReadProfileInv == ASSUME Inv, NEW r \in Requests, ReadProfile(r) PROVE Inv'
<1> DEFINE w == call[r].user
<1>1. /\ pc[r] = "locked" /\ pc' = [pc EXCEPT ![r] = "staged"]
      /\ view' = [view EXCEPT ![r] = Profile(w)]
      /\ UNCHANGED <<clock, users, prefs, interactions, events, lock, call, tries, answer>>
  BY DEF ReadProfile, tables
<1>2. w \in Users /\ lock[w] = r /\ call[r].op \in {"feedback", "preferences"}
  BY <1>1 DEF Inv, LockDiscipline, StagesMatchOperations
<1>3. TypeOK'
  <2>1. Profile(w) \in View
    BY <1>2 DEF Inv, TypeOK, Profile, ActiveRows, View
  <2>2. stamp' \in [Requests -> Nat]
    BY DEF Inv, TypeOK, ReadProfile, Now, Null
  <2> QED
    BY <1>1, <2>1, <2>2 DEF Inv, TypeOK
<1>4. /\ pc'[r] = "staged" /\ view'[r] = Profile(w)
      /\ \A q \in Requests : q # r => pc'[q] = pc[q] /\ view'[q] = view[q]
  BY <1>1 DEF Inv, TypeOK
<1>5. \A u \in Users : Profile(u)' = Profile(u)
  BY <1>1 DEF Profile, ActiveRows
<1>6. CallsNameTargets' /\ StagesMatchOperations'
  BY <1>1, <1>2, <1>4 DEF Inv, CallsNameTargets, StagesMatchOperations, Ops, OwnedOps
<1>7. LockDiscipline'
  BY <1>1, <1>4 DEF Inv, TypeOK, LockDiscipline
<1>8. SnapshotsOnlyAge'
  BY <1>1, <1>4 DEF Inv, SnapshotsOnlyAge
<1>9. ViewsAreCurrent'
  <2> SUFFICES ASSUME NEW q \in Requests, NEW u \in Users,
                      call'[q].user = u, users'[u].state = "live",
                      \/ pc'[q] = "staged" /\ call'[q].op \in OwnedOps
                      \/ SnapshotOf(q, u)'
               PROVE  view'[q] = Profile(u)'
    BY DEF ViewsAreCurrent
  <2>1. CASE q = r
    BY <2>1, <1>1, <1>2, <1>4, <1>5
  <2>2. CASE q # r
    BY <2>2, <1>1, <1>4, <1>5 DEF Inv, ViewsAreCurrent, SnapshotOf
  <2> QED
    BY <2>1, <2>2
<1> QED
  BY <1>3, <1>6, <1>7, <1>8, <1>9 DEF Inv

-----------------------------------------------------------------------------
\* What a transaction about to commit knows: it holds the lock of a row that is there,
\* and, on data the session owns, its view is what is stored.
LEMMA StagedFacts ==
    ASSUME Inv, NEW r \in Requests, pc[r] = "staged"
    PROVE  /\ call[r].user \in Users /\ lock[call[r].user] = r
           /\ users[call[r].user] \in UserRow /\ users[call[r].user].state = "live"
           /\ call[r].op \in OwnedOps => view[r] = Profile(call[r].user)
<1>1. call[r].user \in Users /\ lock[call[r].user] = r /\ users[call[r].user].state = "live"
  BY DEF Inv, LockDiscipline
<1>2. call[r].op \in OwnedOps => view[r] = Profile(call[r].user)
  BY <1>1 DEF Inv, ViewsAreCurrent
<1>3. users[call[r].user] \in UserRow
  BY <1>1 DEF Inv, TypeOK
<1> QED
  BY <1>1, <1>2, <1>3

\* The rows a feedback request writes belong to its user and are well formed.
LEMMA FeedbackRows ==
    ASSUME Inv, NEW r \in Requests, pc[r] = "staged", call[r].op = "feedback"
    PROVE  /\ Superseded(r) \subseteq ActiveRows(call[r].user)
           /\ Closed(Superseded(r), stamp[r]) \cup Added(r) \subseteq
                  {i \in InteractionRow : i.user = call[r].user}
<1> DEFINE w == call[r].user
<1>1. w \in Users /\ view[r].rows = ActiveRows(w)
  <2>1. call[r].op \in OwnedOps
    BY DEF OwnedOps
  <2>2. w \in Users /\ view[r] = Profile(w)
    BY <2>1, StagedFacts
  <2> QED
    BY <2>2 DEF Profile
<1>2. call[r].game \in Games /\ call[r].desired \subseteq StateTypes \X Values
      /\ stamp[r] \in Nat
  BY DEF Inv, TypeOK, CallsNameTargets, Call
<1>3. Superseded(r) \subseteq ActiveRows(w)
  BY <1>1 DEF Superseded
<1>4. \A i \in ActiveRows(w) : i \in InteractionRow /\ i.user = w
  BY DEF ActiveRows, Inv, TypeOK
<1>5. ASSUME NEW i \in Closed(Superseded(r), stamp[r])
      PROVE  i \in InteractionRow /\ i.user = w
  BY <1>2, <1>3, <1>4 DEF Closed, InteractionRow
<1>6. ASSUME NEW i \in Added(r)
      PROVE  i \in InteractionRow /\ i.user = w
  <2>1. PICK e \in call[r].desired :
            i = [user |-> w, game |-> call[r].game, type |-> e[1], value |-> e[2],
                 occurred_at |-> stamp[r], superseded_at |-> Null]
    BY DEF Added
  <2>2. e[1] \in StateTypes /\ e[2] \in Values
    BY <1>2
  <2> QED
    BY <2>1, <2>2, <1>1, <1>2 DEF InteractionRow, Null
<1> QED
  BY <1>3, <1>5, <1>6

\* A commit touches one user only, the one whose row it has locked.
LEMMA WriteFrame ==
    ASSUME Inv, NEW r \in Requests, pc[r] = "staged", Write(r)
    PROVE  /\ users' \in [Users -> UserRow] /\ prefs' \in [Users -> SUBSET Slugs]
           /\ interactions' \subseteq InteractionRow /\ events' \subseteq Event
           /\ \A u \in Users : u # call[r].user =>
                  users'[u] = users[u] /\ Profile(u)' = Profile(u)
           /\ \/ users'[call[r].user].state = "gone"
              \/ /\ users'[call[r].user].state = "live"
                 /\ users'[call[r].user].xmin > users[call[r].user].xmin
<1> DEFINE w == call[r].user
<1>1. w \in Users /\ users \in [Users -> UserRow] /\ users[w].state = "live"
  BY StagedFacts DEF Inv, TypeOK
<1>2. prefs \in [Users -> SUBSET Slugs] /\ interactions \subseteq InteractionRow
      /\ events \subseteq Event /\ stamp[r] \in Nat /\ call[r].slugs \subseteq Slugs
  BY DEF Inv, TypeOK, Call
<1>3. users' = Touched(w) =>
         /\ users' \in [Users -> UserRow]
         /\ \A u \in Users : u # w => users'[u] = users[u]
         /\ users'[w].state = "live" /\ users'[w].xmin > users[w].xmin
  BY <1>1 DEF Touched, UserRow
<1>4. CASE WriteFeedback(r)
  <2>1. interactions' = (interactions \ Superseded(r))
                       \cup (Closed(Superseded(r), stamp[r]) \cup Added(r))
    BY <1>4 DEF WriteFeedback
  <2>2. interactions' \subseteq InteractionRow
    BY <2>1, <1>2, <1>4, FeedbackRows DEF WriteFeedback
  <2>3. ASSUME NEW u \in Users, u # w PROVE ActiveRows(u)' = ActiveRows(u)
    BY <2>1, <2>3, <1>4, FeedbackRows DEF ActiveRows, WriteFeedback
  <2> QED
    BY <2>2, <2>3, <1>2, <1>3, <1>4 DEF WriteFeedback, Profile
<1>5. CASE WritePreferences(r)
  <2>1. prefs' \in [Users -> SUBSET Slugs] /\ \A u \in Users : u # w => prefs'[u] = prefs[u]
    BY <1>1, <1>2, <1>5 DEF WritePreferences
  <2> QED
    BY <2>1, <1>2, <1>3, <1>5 DEF WritePreferences, Profile, ActiveRows
<1>6. CASE WriteGeneration(r)
  <2>1. events' \subseteq Event
    BY <1>1, <1>2, <1>6 DEF WriteGeneration, Event, Inv, TypeOK, View
  <2> QED
    BY <2>1, <1>2, <1>3, <1>6 DEF WriteGeneration, Profile, ActiveRows
<1>7. CASE WriteDelete(r)
  <2>1. /\ users' \in [Users -> UserRow] /\ users'[w].state = "gone"
        /\ \A u \in Users : u # w => users'[u] = users[u]
    BY <1>1, <1>7 DEF WriteDelete, UserRow, NoRow, Null
  <2>2. prefs' \in [Users -> SUBSET Slugs] /\ \A u \in Users : u # w => prefs'[u] = prefs[u]
    BY <1>1, <1>2, <1>7 DEF WriteDelete
  <2>3. ASSUME NEW u \in Users, u # w PROVE ActiveRows(u)' = ActiveRows(u)
    BY <2>3, <1>7 DEF WriteDelete, ActiveRows
  <2> QED
    BY <2>1, <2>2, <2>3, <1>2, <1>7 DEF WriteDelete, Profile
<1>8. CASE WriteConsent(r)
  <2> DEFINE row == Touched(w)[w]
  <2>1. row \in UserRow /\ row.state = "live" /\ row.xmin > users[w].xmin
        /\ Touched(w) \in [Users -> UserRow]
        /\ \A u \in Users : u # w => Touched(w)[u] = users[u]
    BY <1>1 DEF Touched, UserRow
  <2>2. stamp[r] + Ttl \in Nat
    BY <1>2, ConstantsAssumption
  <2>3. Renewed(row, stamp[r]) \in UserRow /\ Renewed(row, stamp[r]).state = "live"
        /\ Renewed(row, stamp[r]).xmin = row.xmin
    <3> HIDE DEF row
    <3> QED
      BY <2>1, <2>2 DEF Renewed, UserRow
  <2>4. users' = [Touched(w) EXCEPT ![w] = Renewed(row, stamp[r])]
    BY <1>8 DEF WriteConsent
  <2>5. /\ users' \in [Users -> UserRow] /\ users'[w] = Renewed(row, stamp[r])
        /\ \A u \in Users : u # w => users'[u] = users[u]
    <3> HIDE DEF row
    <3> QED
      BY <2>1, <2>3, <2>4, <1>1
  <2> QED
    BY <2>1, <2>3, <2>5, <1>1, <1>2, <1>8 DEF WriteConsent, Profile, ActiveRows
<1> QED
  BY <1>4, <1>5, <1>6, <1>7, <1>8 DEF Write

\* A transaction commits.
LEMMA WriteInv ==
    ASSUME Inv, NEW r \in Requests, NEW a \in Answers,
           pc[r] = "staged", Write(r), Finish(r, a)
    PROVE  Inv'
<1> DEFINE w == call[r].user
<1>1. w \in Users /\ lock[w] = r /\ users[w].state = "live"
  BY StagedFacts
<1>2. \A u \in Users : u # w => users'[u] = users[u] /\ Profile(u)' = Profile(u)
  BY WriteFrame
<1> QED
  BY <1>1, <1>2, WriteFrame, EndOfTransaction

\* A session is created: nobody can have read, let alone locked, the row before.
LEMMA CreateSessionInv == ASSUME Inv, NEW r \in Requests, CreateSession(r) PROVE Inv'
<1>1. PICK u \in Users : /\ users[u].state = "none"
                         /\ users' = [users EXCEPT ![u] = InsertedRow(r)]
  BY DEF CreateSession
<1>2. PICK a \in Answers : Finish(r, a)
  BY DEF CreateSession, Answers
<1>3. InsertedRow(r) \in UserRow
  BY ConstantsAssumption DEF InsertedRow, UserRow, Inv, TypeOK
<1>4. users' \in [Users -> UserRow] /\ \A v \in Users : v # u => users'[v] = users[v]
  BY <1>1, <1>3 DEF Inv, TypeOK
<1>5. \A v \in Users : v # u => Profile(v)' = Profile(v)
  BY <1>4 DEF CreateSession, Profile, ActiveRows
<1>6. lock[u] = NoRequest
  BY <1>1 DEF Inv, TypeOK, LockDiscipline
<1>7. UNCHANGED <<prefs, interactions, events>>
  BY DEF CreateSession
<1> QED
  BY <1>1, <1>2, <1>4, <1>5, <1>6, <1>7, EndOfTransaction DEF Inv, TypeOK

\* A collision counts an attempt and changes nothing else.
LEMMA CreateCollisionInv == ASSUME Inv, NEW r \in Requests, CreateCollision(r) PROVE Inv'
<1>1. tries' \in [Requests -> 0 .. CollisionRetries]
  BY ConstantsAssumption DEF CreateCollision, Inv, TypeOK
<1> QED
  BY <1>1 DEF CreateCollision, tables, Inv, TypeOK, CallsNameTargets, StagesMatchOperations,
     LockDiscipline, SnapshotsOnlyAge, ViewsAreCurrent, SnapshotOf, Profile, ActiveRows

\* Time passes, or the step stutters.
LEMMA IdleInv ==
    ASSUME Inv, UNCHANGED <<tables, lock, pc, call, stamp, view, tries, answer>>,
           clock' \in Nat
    PROVE  Inv'
BY DEF tables, Inv, TypeOK, CallsNameTargets, StagesMatchOperations,
   LockDiscipline, SnapshotsOnlyAge, ViewsAreCurrent, SnapshotOf, Profile, ActiveRows

\* Every step preserves the invariant.
LEMMA NextInv == Inv /\ [Next]_vars => Inv'
<1> SUFFICES ASSUME Inv, [Next]_vars PROVE Inv'
  OBVIOUS
<1>1. ASSUME NEW r \in Requests, Progress(r) PROVE Inv'
  <2>1. CASE LookupConflict(r)
    BY <2>1, EndUnchanged DEF LookupConflict, Answers
  <2>2. CASE LookupUnauthenticated(r)
    BY <2>2, EndUnchanged DEF LookupUnauthenticated, Answers
  <2>3. CASE LookupOutdated(r)
    BY <2>3, EndUnchanged DEF LookupOutdated, Answers
  <2>4. CASE LookupGranted(r)
    BY <2>4, LookupGrantedInv
  <2>5. CASE ReadProfile(r)
    BY <2>5, ReadProfileInv
  <2>6. CASE Commit(r)
    BY <2>6, WriteInv DEF Commit, Answers
  <2>7. CASE RollbackUnchanged(r)
    BY <2>7, EndUnchanged DEF RollbackUnchanged, Answers
  <2>8. CASE NoContentSignal(r)
    BY <2>8, EndUnchanged DEF NoContentSignal, Answers
  <2>9. CASE CreateSession(r)
    BY <2>9, CreateSessionInv
  <2>10. CASE CreateCollision(r)
    BY <2>10, CreateCollisionInv
  <2>11. CASE CreateExhausted(r)
    BY <2>11, EndUnchanged DEF CreateExhausted, Answers
  <2> QED
    BY <1>1, <2>1, <2>2, <2>3, <2>4, <2>5, <2>6, <2>7, <2>8, <2>9, <2>10, <2>11
       DEF Progress
<1>2. ASSUME NEW r \in Requests, Failure(r) PROVE Inv'
  <2>1. CASE Refuse(r)
    BY <2>1, EndUnchanged DEF Refuse, Answers
  <2>2. CASE Abort(r)
    BY <2>2, EndUnchanged DEF Abort, Answers
  <2>3. CASE CommitUnacknowledged(r)
    <3>1. LostAnswer(call[r].op) \in Answers
      BY DEF LostAnswer, Answers
    <3> QED
      BY <3>1, <2>3, WriteInv, EndUnchanged DEF CommitUnacknowledged
  <2> QED
    BY <1>2, <2>1, <2>2, <2>3 DEF Failure
<1>3. ASSUME Tick PROVE Inv'
  BY <1>3, IdleInv DEF Tick, Inv, TypeOK
<1>4. ASSUME UNCHANGED vars PROVE Inv'
  BY <1>4, IdleInv DEF vars, tables, Inv, TypeOK
<1> QED
  BY <1>1, <1>2, <1>3, <1>4, ArriveInv DEF Next, Quiescent

\* The inductive invariant holds in every reachable state.
THEOREM InvHolds == Spec => []Inv
BY InitInv, NextInv, PTL DEF Spec

\* Every variable keeps its type, so no creation of a session tries more than
\* CollisionRetries times, and lock holders, views and calls are what they should be.
THEOREM TypeCorrect == Spec => []TypeOK
<1>1. Inv => TypeOK
  BY DEF Inv
<1> QED
  BY <1>1, InvHolds, PTL
-----------------------------------------------------------------------------
\* A step that changes a table is the commit of a request that holds the row lock, or the
\* creation of a session; it answers one request and starts none.
LEMMA TableChanges ==
    ASSUME [Next]_vars
    PROVE  \/ UNCHANGED tables
           \/ \E r \in Requests, a \in Answers :
                 pc[r] = "staged" /\ Write(r) /\ Finish(r, a)
           \/ \E r \in Requests : CreateSession(r)
<1>1. ASSUME NEW r \in Requests, Arrive(r) PROVE UNCHANGED tables
  BY <1>1 DEF Arrive, BeginFeedback, BeginPreferences, BeginGeneration, BeginLifecycle,
     BeginCreate, RefuseEarly, Begin, tables
<1>2. ASSUME NEW r \in Requests, Progress(r)
      PROVE  \/ UNCHANGED tables
             \/ \E a \in Answers : pc[r] = "staged" /\ Write(r) /\ Finish(r, a)
             \/ CreateSession(r)
  <2>1. CASE Commit(r)
    BY <2>1 DEF Commit, Answers
  <2>2. CASE ~Commit(r) /\ ~CreateSession(r)
    BY <1>2, <2>2 DEF Progress, LookupConflict, LookupUnauthenticated, LookupOutdated,
       LookupGranted, ReadProfile, RollbackUnchanged, NoContentSignal, CreateCollision,
       CreateExhausted, tables
  <2> QED
    BY <2>1, <2>2
<1>3. ASSUME NEW r \in Requests, Failure(r)
      PROVE  \/ UNCHANGED tables
             \/ \E a \in Answers : pc[r] = "staged" /\ Write(r) /\ Finish(r, a)
  <2>1. LostAnswer(call[r].op) \in Answers
    BY DEF LostAnswer, Answers
  <2> QED
    BY <2>1, <1>3 DEF Failure, Refuse, Abort, CommitUnacknowledged
<1>4. CASE Tick \/ Quiescent \/ UNCHANGED vars
  BY <1>4 DEF Tick, Quiescent, vars, tables
<1> QED
  BY <1>1, <1>2, <1>3, <1>4 DEF Next

\* A new event is the one a generation writes.
LEMMA NewEvent ==
    ASSUME [Next]_vars, NEW e \in events' \ events
    PROVE  \E r \in Requests : pc[r] = "staged" /\ WriteGeneration(r)
<1>1. CASE UNCHANGED tables
  BY <1>1 DEF tables
<1>2. ASSUME NEW r \in Requests, pc[r] = "staged", Write(r)
      PROVE  WriteGeneration(r)
  BY <1>2 DEF Write, WriteFeedback, WritePreferences, WriteDelete, WriteConsent
<1>3. ASSUME NEW r \in Requests, CreateSession(r) PROVE FALSE
  BY <1>3 DEF CreateSession
<1> QED
  BY <1>1, <1>2, <1>3, TableChanges

\* personalized_recommendation.py: for any number of users, requests, games and values, an
\* event and its answer show the preferences and active feedback stored at its commit,
\* although they were ranked from a snapshot.
THEOREM GenerationsAreCurrent == Spec => GenerationUsesCurrentProfile
<1>1. ASSUME Inv, [Next]_vars
      PROVE  \A e \in events' \ events : /\ e.slugs = prefs[e.user]
                                         /\ e.rows = ActiveRows(e.user)
  <2> SUFFICES ASSUME NEW e \in events' \ events
               PROVE  e.slugs = prefs[e.user] /\ e.rows = ActiveRows(e.user)
    OBVIOUS
  <2>1. PICK r \in Requests : pc[r] = "staged" /\ WriteGeneration(r)
    BY <1>1, NewEvent
  <2>2. call[r].op \in OwnedOps
    BY <2>1 DEF WriteGeneration, OwnedOps
  <2>3. view[r] = Profile(call[r].user)
    BY <1>1, <2>1, <2>2, StagedFacts
  <2>4. e = [generation |-> r, user |-> call[r].user,
             slugs |-> view[r].slugs, rows |-> view[r].rows]
    BY <2>1 DEF WriteGeneration
  <2> QED
    BY <2>3, <2>4 DEF Profile
<1> QED
  BY <1>1, InvHolds, PTL DEF Spec, GenerationUsesCurrentProfile

-----------------------------------------------------------------------------
\* What one commit does to the data of one user: nothing unless it is the user of the
\* request, whose row is there at the commit, with the consent the operation needs.
LEMMA OwnedFrame ==
    ASSUME Inv, NEW r \in Requests, pc[r] = "staged", Write(r),
           NEW u \in Users, u # call[r].user
    PROVE  /\ prefs'[u] = prefs[u]
           /\ {i \in interactions' : i.user = u} = {i \in interactions : i.user = u}
           /\ {e \in events' : e.user = u} = {e \in events : e.user = u}
<1>1. prefs'[u] = prefs[u]
  BY WriteFrame DEF Profile
<1>2. CASE WriteFeedback(r)
  <2>1. /\ \A i \in Superseded(r) : i.user = call[r].user
        /\ \A i \in Closed(Superseded(r), stamp[r]) \cup Added(r) : i.user = call[r].user
    BY <1>2, FeedbackRows DEF WriteFeedback, ActiveRows
  <2>2. interactions' = (interactions \ Superseded(r))
                        \cup (Closed(Superseded(r), stamp[r]) \cup Added(r))
    BY <1>2 DEF WriteFeedback
  <2> QED
    BY <1>1, <1>2, <2>1, <2>2 DEF WriteFeedback
<1>3. CASE WriteGeneration(r)
  BY <1>1, <1>3 DEF WriteGeneration
<1>4. CASE WriteDelete(r)
  BY <1>1, <1>4 DEF WriteDelete
<1>5. CASE WritePreferences(r) \/ WriteConsent(r)
  BY <1>1, <1>5 DEF WritePreferences, WriteConsent
<1> QED
  BY <1>2, <1>3, <1>4, <1>5 DEF Write

\* anonymous_identity.resolve_active_for_update: for any number of requests, what a session
\* owns changes only while the session is there, unrevoked, on the current consent version.
THEOREM ConsentCoversChanges == Spec => OwnedDataNeedsConsent
<1>1. ASSUME Inv, [Next]_vars, NEW u \in Users,
             \/ prefs'[u] # prefs[u]
             \/ {i \in interactions' : i.user = u} # {i \in interactions : i.user = u}
             \/ {e \in events' : e.user = u} # {e \in events : e.user = u}
      PROVE  \/ users[u].state = "live" /\ users[u].consent = "current" /\ ~users[u].revoked
             \/ users'[u].state = "gone"
  <2>1. CASE UNCHANGED tables
    BY <1>1, <2>1 DEF tables
  <2>2. ASSUME NEW r \in Requests, CreateSession(r) PROVE FALSE
    BY <1>1, <2>2 DEF CreateSession
  <2>3. ASSUME NEW r \in Requests, pc[r] = "staged", Write(r)
        PROVE  \/ users[u].state = "live" /\ users[u].consent = "current"
                  /\ ~users[u].revoked
               \/ users'[u].state = "gone"
    <3>1. call[r].user = u
      BY <1>1, <2>3, OwnedFrame
    <3>2. CASE call[r].op \in OwnedOps
      BY <1>1, <2>3, <3>1, <3>2 DEF Inv, LockDiscipline
    <3>3. CASE WriteDelete(r)
      BY <1>1, <3>1, <3>3 DEF WriteDelete, Inv, TypeOK
    <3>4. CASE WriteConsent(r)
      BY <1>1, <3>4 DEF WriteConsent
    <3> QED
      BY <2>3, <3>2, <3>3, <3>4
         DEF Write, WriteFeedback, WritePreferences, WriteGeneration, OwnedOps
  <2> QED
    BY <1>1, <2>1, <2>2, <2>3, TableChanges
<1>2. ASSUME Inv, [Next]_vars
      PROVE  \A u \in Users :
        (\/ prefs'[u] # prefs[u]
         \/ {i \in interactions' : i.user = u} # {i \in interactions : i.user = u}
         \/ {e \in events' : e.user = u} # {e \in events : e.user = u})
        => \/ users[u].state = "live" /\ users[u].consent = "current" /\ ~users[u].revoked
           \/ users'[u].state = "gone"
  BY <1>1, <1>2
<1> QED
  BY <1>2, InvHolds, PTL DEF Spec, OwnedDataNeedsConsent

-----------------------------------------------------------------------------
\* At the start nothing is stored for a row that is not there.
LEMMA DeletionInit == Init => DeletionIsComplete
BY DEF Init, DeletionIsComplete

\* The commit that deletes takes everything with it, and every other commit finds its user
\* there and leaves it there.
LEMMA DeletionStep == Inv /\ DeletionIsComplete /\ [Next]_vars => DeletionIsComplete'
<1> SUFFICES ASSUME Inv, DeletionIsComplete, [Next]_vars, NEW u \in Users,
                    users'[u].state # "live"
             PROVE  /\ prefs'[u] = {}
                    /\ \A i \in interactions' : i.user # u
                    /\ \A e \in events' : e.user # u
  BY DEF DeletionIsComplete
<1>1. CASE UNCHANGED tables
  BY <1>1 DEF tables, DeletionIsComplete
<1>2. ASSUME NEW r \in Requests, CreateSession(r)
      PROVE  /\ prefs'[u] = {}
             /\ \A i \in interactions' : i.user # u
             /\ \A e \in events' : e.user # u
  <2>1. users[u].state # "live"
    BY <1>2 DEF CreateSession, InsertedRow, Inv, TypeOK
  <2> QED
    BY <1>2, <2>1 DEF CreateSession, DeletionIsComplete
<1>3. ASSUME NEW r \in Requests, pc[r] = "staged", Write(r)
      PROVE  /\ prefs'[u] = {}
             /\ \A i \in interactions' : i.user # u
             /\ \A e \in events' : e.user # u
  <2>1. CASE u # call[r].user
    <3>1. users[u].state # "live"
      BY <1>3, <2>1, WriteFrame
    <3>2. prefs[u] = {} /\ {i \in interactions : i.user = u} = {}
          /\ {e \in events : e.user = u} = {}
      BY <3>1 DEF DeletionIsComplete
    <3> QED
      BY <3>2, <1>3, <2>1, OwnedFrame
  <2>2. CASE u = call[r].user
    <3>1. WriteDelete(r)
      BY <1>3, <2>2, StagedFacts
         DEF Write, WriteFeedback, WritePreferences, WriteGeneration, WriteConsent,
             Touched, Renewed, Inv, TypeOK, UserRow
    <3> QED
      BY <3>1, <2>2 DEF WriteDelete, Inv, TypeOK
  <2> QED
    BY <2>1, <2>2
<1> QED
  BY <1>1, <1>2, <1>3, TableChanges

\* DELETE /me: for any number of requests in flight, a session that is gone, or was never
\* there, owns nothing.
THEOREM DeletionLeavesNothing == Spec => []DeletionIsComplete
BY InvHolds, DeletionInit, DeletionStep, PTL DEF Spec

-----------------------------------------------------------------------------
\* A body asks one row of each kind at most, and one reaction.
LEMMA DesiredIsFunctional ==
    ASSUME NEW body, NEW e \in Desired(body), NEW f \in Desired(body),
           SameDimension(e[1], f[1])
    PROVE  e = f
<1>1. /\ e = <<e[1], e[2]>> /\ f = <<f[1], f[2]>>
      /\ e[1] \in StateTypes /\ f[1] \in StateTypes
  BY DEF Desired
<1>2. e[1] = f[1]
  BY <1>1 DEF Desired, SameDimension, Reactions, StateTypes
<1>3. e[2] = f[2]
  BY <1>2 DEF Desired, Reactions
<1> QED
  BY <1>1, <1>2, <1>3

\* What is stored and active for the user of a feedback request once it has committed.
LEMMA ActiveAfterFeedback ==
    ASSUME Inv, NEW r \in Requests, pc[r] = "staged", WriteFeedback(r), stamp[r] # Null,
           NEW w, w = call[r].user
    PROVE  ActiveRows(w)' = (ActiveRows(w) \ Superseded(r)) \cup Added(r)
<1>1. ActiveRows(w)' = {i \in interactions' : i.user = w /\ i.superseded_at = Null}
  BY DEF ActiveRows
<1>2. \A i \in Closed(Superseded(r), stamp[r]) : i.superseded_at # Null
  <2>1. \A i \in Superseded(r) : i \in InteractionRow
    BY FeedbackRows DEF WriteFeedback, ActiveRows, Inv, TypeOK
  <2> QED
    BY <2>1 DEF Closed, InteractionRow
<1>3. \A i \in Added(r) : i.user = w /\ i.superseded_at = Null
  BY DEF Added
<1>4. interactions' = (interactions \ Superseded(r))
                      \cup (Closed(Superseded(r), stamp[r]) \cup Added(r))
  BY DEF WriteFeedback
<1> QED
  BY <1>1, <1>2, <1>3, <1>4 DEF ActiveRows

\* The rows that stay and the rows that are added are what the request asks for, no more.
LEMMA KeptAndAdded ==
    ASSUME Inv, NEW r \in Requests, pc[r] = "staged", call[r].op = "feedback"
    PROVE  LET w == call[r].user
               g == call[r].game
           IN  /\ \A i \in ActiveRows(w) \ Superseded(r) : i.game = g =>
                      <<i.type, i.value>> \in call[r].desired \cap Pairs(view[r].rows, g)
               /\ \A i \in Added(r) :
                      i.game = g /\ <<i.type, i.value>> \in
                                       call[r].desired \ Pairs(view[r].rows, g)
<1>1. view[r].rows = ActiveRows(call[r].user)
  <2>1. call[r].op \in OwnedOps
    BY DEF OwnedOps
  <2>2. view[r] = Profile(call[r].user)
    BY <2>1, StagedFacts
  <2> QED
    BY <2>2 DEF Profile
<1>2. \A e \in call[r].desired : e = <<e[1], e[2]>>
  BY DEF Inv, TypeOK, Call
<1> QED
  BY <1>1, <1>2 DEF Superseded, Added, Pairs

-----------------------------------------------------------------------------
\* The history starts empty.
LEMMA HistoryInit == Init => HistoryInv
BY DEF Init, NoCall, HistoryInv, StampsFollowHistory, CallsAreFunctional, HistoryIsOrdered,
   OneActiveRowPerDimension

\* The history is as good after a step that adds no row, and stages no feedback request.
LEMMA HistoryFrame ==
    ASSUME HistoryInv, interactions' \subseteq interactions, clock' = clock, CallsAreFunctional',
           \A q \in Requests : (pc'[q] = "staged" /\ call'[q].op = "feedback") =>
               /\ pc[q] = "staged" /\ call'[q] = call[q] /\ stamp'[q] = stamp[q]
    PROVE  HistoryInv'
<1>1. StampsFollowHistory'
  BY DEF HistoryInv, StampsFollowHistory
<1>2. HistoryIsOrdered' /\ OneActiveRowPerDimension'
  BY DEF HistoryInv, HistoryIsOrdered, OneActiveRowPerDimension
<1> QED
  BY <1>1, <1>2 DEF HistoryInv

\* A request that ends without adding a row.
LEMMA HistoryEnd ==
    ASSUME Inv, HistoryInv, NEW r \in Requests, NEW a, Finish(r, a),
           interactions' \subseteq interactions
    PROVE  HistoryInv'
<1>1. CallsAreFunctional'
  BY DEF HistoryInv, CallsAreFunctional, Finish
<1>2. \A q \in Requests : pc'[q] = "staged" =>
         pc[q] = "staged" /\ call'[q] = call[q] /\ stamp'[q] = stamp[q]
  BY DEF Inv, TypeOK, Finish
<1> QED
  BY <1>1, <1>2, HistoryFrame DEF Finish

\* A request arrives.
LEMMA HistoryBegin ==
    ASSUME Inv, HistoryInv, NEW r \in Requests, NEW c, Begin(r, c),
           \A e, f \in c.desired : SameDimension(e[1], f[1]) => e = f
    PROVE  HistoryInv'
<1>1. CallsAreFunctional'
  BY DEF HistoryInv, CallsAreFunctional, Begin, Inv, TypeOK
<1>2. \A q \in Requests : pc'[q] = "staged" =>
         pc[q] = "staged" /\ call'[q] = call[q] /\ stamp'[q] = stamp[q]
  BY DEF Inv, TypeOK, Begin
<1> QED
  BY <1>1, <1>2, HistoryFrame DEF Begin, tables

\* The bodies that arrive are functional.
LEMMA HistoryArrive ==
    ASSUME Inv, HistoryInv, NEW r \in Requests, Arrive(r) PROVE HistoryInv'
<1>1. CASE BeginFeedback(r)
  <2>1. PICK u \in Users, g \in Games, body \in FeedbackBodies :
            Begin(r, [op |-> "feedback", user |-> u, game |-> g,
                      desired |-> Desired(body), slugs |-> {}])
    BY <1>1 DEF BeginFeedback
  <2>2. \A e, f \in Desired(body) : SameDimension(e[1], f[1]) => e = f
    BY DesiredIsFunctional
  <2> QED
    BY <2>1, <2>2, HistoryBegin
<1>2. CASE BeginPreferences(r) \/ BeginGeneration(r) \/ BeginLifecycle(r) \/ BeginCreate(r)
  <2>1. PICK op, u, slugs, game :
            Begin(r, [op |-> op, user |-> u, game |-> game, desired |-> {}, slugs |-> slugs])
    <3>1. CASE BeginPreferences(r)
      BY <3>1 DEF BeginPreferences
    <3>2. CASE BeginGeneration(r)
      BY <3>2 DEF BeginGeneration
    <3>3. CASE BeginLifecycle(r)
      BY <3>3 DEF BeginLifecycle
    <3>4. CASE BeginCreate(r)
      <4>1. [NoCall EXCEPT !.op = "create"] = [op |-> "create", user |-> NoUser, game |-> NoGame,
                                               desired |-> {}, slugs |-> {}]
        BY DEF NoCall
      <4>2. Begin(r, [op |-> "create", user |-> NoUser, game |-> NoGame,
                      desired |-> {}, slugs |-> {}])
        BY <3>4, <4>1 DEF BeginCreate
      <4> QED
        BY <4>2
    <3> QED
      BY <1>2, <3>1, <3>2, <3>3, <3>4
  <2> QED
    BY <2>1, HistoryBegin
<1>3. CASE RefuseEarly(r)
  BY <1>3, HistoryEnd DEF RefuseEarly, tables
<1> QED
  BY <1>1, <1>2, <1>3 DEF Arrive

\* The commit of a feedback request: its rows occur, and close others, at a time that is
\* not before anything its user's rows record; what is active in its game is what it asks.
LEMMA HistoryWrite ==
    ASSUME Inv, HistoryInv, NEW r \in Requests, pc[r] = "staged", NEW a,
           WriteFeedback(r), Finish(r, a)
    PROVE  HistoryInv'
<1> DEFINE w == call[r].user
           g == call[r].game
           t == stamp[r]
           S == Superseded(r)
           A == Added(r)
           C == Closed(S, t)
<1>1. /\ t \in 1 .. clock /\ clock \in Nat /\ t # Null
      /\ \A i \in interactions : i.user = w => i.occurred_at <= t
  BY DEF HistoryInv, StampsFollowHistory, WriteFeedback, Inv, TypeOK, Null
<1>2. interactions' = (interactions \ S) \cup (C \cup A)
  BY DEF WriteFeedback
<1>3. /\ S \subseteq ActiveRows(w)
      /\ C \cup A \subseteq {i \in InteractionRow : i.user = w}
  BY FeedbackRows DEF WriteFeedback
<1>4. interactions \subseteq InteractionRow
  BY DEF Inv, TypeOK
<1>5. \A i \in C : /\ i.occurred_at <= t /\ i.superseded_at = t
  BY <1>1, <1>3, <1>4 DEF Closed, ActiveRows, InteractionRow
<1>6. \A i \in A : i.occurred_at = t /\ i.superseded_at = Null
  BY DEF Added
<1>7. /\ clock' = clock /\ call' = call
      /\ \A q \in Requests : pc'[q] = "staged" =>
            pc[q] = "staged" /\ q # r /\ stamp'[q] = stamp[q]
  BY DEF Inv, TypeOK, Finish
<1> HIDE DEF S, A, C, t
<1>8. StampsFollowHistory'
  <2>1. clock' >= 1
    BY <1>7 DEF HistoryInv, StampsFollowHistory
  <2>2. ASSUME NEW i \in interactions' PROVE i.occurred_at <= clock'
    <3>1. i \in InteractionRow
      BY <1>2, <1>3, <1>4
    <3>2. CASE i \in interactions
      BY <3>2, <1>7 DEF HistoryInv, StampsFollowHistory
    <3>3. CASE i \in C \cup A
      BY <3>1, <3>3, <1>1, <1>5, <1>6, <1>7 DEF InteractionRow
    <3> QED
      BY <3>2, <3>3, <1>2
  <2>3. ASSUME NEW q \in Requests, pc'[q] = "staged", call'[q].op = "feedback"
        PROVE  /\ stamp'[q] \in 1 .. clock'
               /\ \A i \in interactions' : i.user = call'[q].user => i.occurred_at <= stamp'[q]
    <3>1. pc[q] = "staged" /\ q # r
      BY <2>3, <1>7
    <3>2. call[q].user # w
      BY <3>1, StagedFacts
    <3> QED
      BY <2>3, <3>1, <3>2, <1>2, <1>3, <1>7 DEF HistoryInv, StampsFollowHistory
  <2> QED
    BY <2>1, <2>2, <2>3 DEF StampsFollowHistory
<1>9. CallsAreFunctional'
  BY <1>7 DEF HistoryInv, CallsAreFunctional
<1>10. HistoryIsOrdered'
  <2> SUFFICES ASSUME NEW i \in interactions'
               PROVE  i.superseded_at = Null \/ i.occurred_at <= i.superseded_at
    BY DEF HistoryIsOrdered
  <2> QED
    BY <1>2, <1>5, <1>6 DEF HistoryInv, HistoryIsOrdered
<1>11. OneActiveRowPerDimension'
  <2> SUFFICES ASSUME NEW i \in interactions', NEW j \in interactions',
                      i.superseded_at = Null, j.superseded_at = Null,
                      i.user = j.user, i.game = j.game, SameDimension(i.type, j.type)
               PROVE  i = j
    BY DEF OneActiveRowPerDimension
  <2> DEFINE old(k) == k \in interactions \ S
             pair(k) == <<k.type, k.value>>
  <2>1. \A k \in {i, j} : old(k) \/ k \in A
    BY <1>1, <1>2, <1>5
  <2>2. CASE old(i) /\ old(j)
    BY <2>2 DEF HistoryInv, OneActiveRowPerDimension
  <2>3. CASE i \in A \/ j \in A
    <3>1. \A k \in A : k.user = w /\ k.game = g
      BY DEF A, Added
    <3>2. i.user = w /\ j.user = w /\ i.game = g /\ j.game = g
      BY <2>3, <3>1
    <3>3. \A k \in {i, j} : old(k) => k \in ActiveRows(w) \ Superseded(r)
      BY <3>2 DEF ActiveRows, S
    <3>4. \A k \in {i, j} :
            /\ pair(k) \in call[r].desired
            /\ old(k) => pair(k) \in Pairs(view[r].rows, g)
            /\ k \in A => pair(k) \notin Pairs(view[r].rows, g)
      BY <2>1, <3>2, <3>3, KeptAndAdded DEF WriteFeedback, A
    <3>5. pair(i) = pair(j)
      <4>1. \A e, f \in call[r].desired : SameDimension(e[1], f[1]) => e = f
        BY DEF HistoryInv, CallsAreFunctional
      <4>2. pair(i)[1] = i.type /\ pair(j)[1] = j.type
        OBVIOUS
      <4> QED
        BY <4>1, <4>2, <3>4
    <3>6. i \in A /\ j \in A
      BY <2>1, <2>3, <3>4, <3>5
    <3>7. \A k \in A : k = [user |-> w, game |-> g, type |-> k.type, value |-> k.value,
                            occurred_at |-> t, superseded_at |-> Null]
      BY DEF A, t, Added
    <3> QED
      BY <3>5, <3>6, <3>7
  <2> QED
    BY <2>1, <2>2, <2>3
<1> QED
  BY <1>8, <1>9, <1>10, <1>11 DEF HistoryInv

\* A feedback request stages its rows: the clock it reads is past every row of its user.
LEMMA HistoryRead ==
    ASSUME Inv, HistoryInv, NEW r \in Requests, ReadProfile(r) PROVE HistoryInv'
<1>1. UNCHANGED <<clock, interactions, call>>
  BY DEF ReadProfile, tables
<1>2. \A q \in Requests : q # r => pc'[q] = pc[q] /\ stamp'[q] = stamp[q]
  BY DEF ReadProfile, Inv, TypeOK
<1>3. call[r].op = "feedback" => stamp'[r] = clock
  BY DEF ReadProfile, Now, ClockBeforeLock, Inv, TypeOK
<1>4. clock \in 1 .. clock
  BY DEF HistoryInv, StampsFollowHistory, Inv, TypeOK
<1>5. StampsFollowHistory'
  BY <1>1, <1>2, <1>3, <1>4 DEF HistoryInv, StampsFollowHistory
<1> QED
  BY <1>1, <1>5 DEF HistoryInv, CallsAreFunctional, HistoryIsOrdered, OneActiveRowPerDimension

\* Every step keeps the history well formed.
LEMMA HistoryStep == Inv /\ HistoryInv /\ [Next]_vars => HistoryInv'
<1> SUFFICES ASSUME Inv, HistoryInv, [Next]_vars PROVE HistoryInv'
  OBVIOUS
<1>1. ASSUME NEW r \in Requests, NEW a, pc[r] = "staged", Write(r), Finish(r, a)
      PROVE  HistoryInv'
  <2>1. CASE WriteFeedback(r)
    BY <1>1, <2>1, HistoryWrite
  <2>2. CASE ~WriteFeedback(r)
    <3>1. interactions' \subseteq interactions
      BY <1>1, <2>2 DEF Write, WritePreferences, WriteGeneration, WriteDelete, WriteConsent
    <3> QED
      BY <1>1, <3>1, HistoryEnd
  <2> QED
    BY <2>1, <2>2
<1>2. ASSUME NEW r \in Requests, NEW a, UNCHANGED tables, Finish(r, a)
      PROVE  HistoryInv'
  BY <1>2, HistoryEnd DEF tables
<1>3. ASSUME NEW r \in Requests, Progress(r) PROVE HistoryInv'
  <2>1. CASE LookupGranted(r)
    <3>1. UNCHANGED <<clock, interactions, call, stamp>> /\ pc[r] = "begun"
          /\ \A q \in Requests : q # r => pc'[q] = pc[q]
      BY <2>1 DEF LookupGranted, LookingUp, tables, Inv, TypeOK
    <3>2. call[r].op = "feedback" => pc'[r] # "staged"
      BY <2>1 DEF LookupGranted, Inv, TypeOK
    <3>3. CallsAreFunctional'
      BY <3>1 DEF HistoryInv, CallsAreFunctional
    <3> QED
      BY <3>1, <3>2, <3>3, HistoryFrame
  <2>2. CASE ReadProfile(r)
    BY <2>2, HistoryRead
  <2>3. CASE LookupConflict(r) \/ LookupUnauthenticated(r) \/ LookupOutdated(r)
    BY <2>3, <1>2 DEF LookupConflict, LookupUnauthenticated, LookupOutdated
  <2>4. CASE Commit(r)
    BY <2>4, <1>1 DEF Commit
  <2>5. CASE RollbackUnchanged(r) \/ NoContentSignal(r) \/ CreateExhausted(r)
    BY <2>5, <1>2 DEF RollbackUnchanged, NoContentSignal, CreateExhausted
  <2>6. CASE CreateSession(r)
    BY <2>6, HistoryEnd DEF CreateSession
  <2>7. CASE CreateCollision(r)
    <3>1. CallsAreFunctional'
      BY <2>7 DEF CreateCollision, HistoryInv, CallsAreFunctional
    <3> QED
      BY <2>7, <3>1, HistoryFrame DEF CreateCollision, tables
  <2> QED
    BY <1>3, <2>1, <2>2, <2>3, <2>4, <2>5, <2>6, <2>7 DEF Progress
<1>4. ASSUME NEW r \in Requests, Failure(r) PROVE HistoryInv'
  BY <1>1, <1>2, <1>4 DEF Failure, Refuse, Abort, CommitUnacknowledged
<1>5. CASE Tick
  <2>1. clock' = clock + 1 /\ UNCHANGED <<interactions, pc, call, stamp>> /\ clock \in Nat
    BY <1>5 DEF Tick, tables, Inv, TypeOK
  <2>2. \A i \in interactions : i.occurred_at \in Nat
    BY DEF Inv, TypeOK, InteractionRow
  <2>3. StampsFollowHistory'
    BY <2>1, <2>2 DEF HistoryInv, StampsFollowHistory
  <2> QED
    BY <2>1, <2>3
       DEF HistoryInv, CallsAreFunctional, HistoryIsOrdered, OneActiveRowPerDimension
<1>6. CASE UNCHANGED vars
  <2>1. CallsAreFunctional'
    BY <1>6 DEF vars, HistoryInv, CallsAreFunctional
  <2> QED
    BY <1>6, <2>1, HistoryFrame DEF vars, tables
<1> QED
  BY <1>3, <1>4, <1>5, <1>6, HistoryArrive DEF Next, Quiescent

\* feedback.py, replace and interactions.py, replace_game_state: for any number of concurrent
\* requests, the feedback history is ordered, has one active row per dimension, and the clocks
\* the requests hold never lie before the history they stamp.
THEOREM HistoryHolds == Spec => []HistoryInv
BY InvHolds, HistoryInit, HistoryStep, PTL DEF Spec

\* feedback.py, replace: for any number of concurrent requests, no feedback row is superseded
\* before it occurred.
THEOREM HistoryInOrder == Spec => []HistoryIsOrdered
<1>1. HistoryInv => HistoryIsOrdered
  BY DEF HistoryInv
<1> QED
  BY <1>1, HistoryHolds, PTL

\* interactions.py, replace_game_state: for any number of concurrent requests, a game has at
\* most one active reaction and one active row of each other type for a user.
THEOREM OneRowPerDimension == Spec => []OneActiveRowPerDimension
<1>1. HistoryInv => OneActiveRowPerDimension
  BY DEF HistoryInv
<1> QED
  BY <1>1, HistoryHolds, PTL

-----------------------------------------------------------------------------
\* A request that reaches its end with 200 after staging has committed, or had nothing to do.
LEMMA OkMeansCommitted ==
    ASSUME Inv, [Next]_vars, NEW r \in Requests, AnswersOk(r)
    PROVE  Commit(r) \/ RollbackUnchanged(r)
<1>1. pc[r] = "staged" /\ pc'[r] = "done" /\ answer'[r] = "ok"
  BY DEF AnswersOk
<1>2. pc \in [Requests -> {"idle", "begun", "locked", "staged", "done"}]
      /\ answer \in [Requests -> Answers \cup {"none"}]
  BY DEF Inv, TypeOK
<1>3. ASSUME NEW q \in Requests, NEW a, pc[q] # "staged" \/ a # "ok", Finish(q, a)
      PROVE  FALSE
  BY <1>1, <1>2, <1>3 DEF Finish
<1>4. ASSUME NEW q \in Requests, Arrive(q) PROVE FALSE
  <2>1. CASE RefuseEarly(q)
    BY <2>1, <1>3 DEF RefuseEarly
  <2>2. ASSUME NEW c, Begin(q, c) PROVE FALSE
    BY <2>2, <1>1, <1>2 DEF Begin
  <2> QED
    BY <1>4, <2>1, <2>2 DEF Arrive, BeginFeedback, BeginPreferences, BeginGeneration,
       BeginLifecycle, BeginCreate
<1>5. ASSUME NEW q \in Requests, Failure(q) PROVE FALSE
  <2>1. LostAnswer(call[q].op) # "ok"
    BY DEF LostAnswer
  <2> QED
    BY <2>1, <1>3, <1>5 DEF Failure, Refuse, Abort, CommitUnacknowledged
<1>6. ASSUME NEW q \in Requests, Progress(q) PROVE Commit(r) \/ RollbackUnchanged(r)
  <2>1. CASE LookupConflict(q) \/ LookupUnauthenticated(q) \/ LookupOutdated(q)
             \/ NoContentSignal(q) \/ CreateExhausted(q)
    BY <2>1, <1>3 DEF LookupConflict, LookupUnauthenticated, LookupOutdated,
       NoContentSignal, CreateExhausted
  <2>2. CASE CreateSession(q)
    BY <2>2, <1>3 DEF CreateSession
  <2>3. CASE LookupGranted(q) \/ ReadProfile(q) \/ CreateCollision(q)
    BY <2>3, <1>1, <1>2 DEF LookupGranted, ReadProfile, CreateCollision
  <2>4. CASE Commit(q) \/ RollbackUnchanged(q)
    <3>1. q = r
      BY <2>4, <1>1, <1>2 DEF Commit, RollbackUnchanged, Finish
    <3> QED
      BY <2>4, <3>1
  <2> QED
    BY <1>6, <2>1, <2>2, <2>3, <2>4 DEF Progress
<1>7. CASE Tick \/ Quiescent \/ UNCHANGED vars
  BY <1>1, <1>7 DEF Tick, Quiescent, vars
<1> QED
  BY <1>4, <1>5, <1>6, <1>7 DEF Next

\* interactions.py, replace_game_state: what is active after the commit is what was asked.
LEMMA FeedbackIsReplaced ==
    ASSUME Inv, HistoryInv, NEW r \in Requests, pc[r] = "staged", WriteFeedback(r),
           NEW w, w = call[r].user, NEW g, g = call[r].game
    PROVE  Pairs(ActiveRows(w)', g) = call[r].desired
<1> DEFINE rows == ActiveRows(w)'
<1>1. stamp[r] # Null /\ call[r].op = "feedback"
  BY DEF HistoryInv, StampsFollowHistory, WriteFeedback, Null
<1>2. rows = (ActiveRows(w) \ Superseded(r)) \cup Added(r)
  BY <1>1, ActiveAfterFeedback
<1>3. view[r].rows = ActiveRows(w)
  <2>1. call[r].op \in OwnedOps
    BY <1>1 DEF OwnedOps
  <2>2. view[r] = Profile(w)
    BY <2>1, StagedFacts
  <2> QED
    BY <2>2 DEF Profile
<1> HIDE DEF rows
<1>4. \A i \in rows : i.game = g => <<i.type, i.value>> \in call[r].desired
  BY <1>1, <1>2, KeptAndAdded
<1>5. ASSUME NEW e \in call[r].desired
      PROVE  \E i \in rows : i.game = g /\ e = <<i.type, i.value>>
  <2>1. e = <<e[1], e[2]>>
    BY DEF Inv, TypeOK, Call
  <2>2. CASE e \in Pairs(view[r].rows, g)
    <3>1. PICK i \in view[r].rows : i.game = g /\ e = <<i.type, i.value>>
      BY <2>2 DEF Pairs
    <3> QED
      BY <3>1, <1>2, <1>3 DEF Superseded
  <2>3. CASE e \notin Pairs(view[r].rows, g)
    <3> DEFINE i == [user |-> call[r].user, game |-> call[r].game, type |-> e[1],
                     value |-> e[2], occurred_at |-> stamp[r], superseded_at |-> Null]
    <3>1. i \in rows
      BY <2>3, <1>2 DEF Added
    <3> QED
      BY <3>1, <2>1
  <2> QED
    BY <2>2, <2>3
<1> QED
  BY <1>4, <1>5 DEF Pairs, rows

\* PUT and DELETE of feedback and of preferences: for any number of concurrent requests, an
\* answer 200 leaves exactly what the body says - no update is lost and no two bodies mix.
THEOREM ReplacementsAreExact == Spec => ReplacementIsExact
<1>1. ASSUME Inv, HistoryInv, [Next]_vars, NEW r \in Requests, AnswersOk(r)
      PROVE  LET c == call[r] IN
             /\ c.op = "feedback" => Pairs(ActiveRows(c.user), c.game)' = c.desired
             /\ c.op = "preferences" => prefs'[c.user] = c.slugs
  <2>1. Commit(r) \/ RollbackUnchanged(r)
    BY <1>1, OkMeansCommitted
  <2>2. pc[r] = "staged" /\ call' = call
    BY <2>1 DEF Commit, RollbackUnchanged, Finish
  <2>3. PICK w \in Users : w = call[r].user /\ (call[r].op \in OwnedOps => view[r] = Profile(w))
    BY <1>1, <2>2, StagedFacts
  <2>4. PICK g : g = call[r].game
    OBVIOUS
  <2>5. CASE call[r].op = "feedback"
    <3>1. view[r] = Profile(w)
      BY <2>3, <2>5 DEF OwnedOps
    <3>2. ASSUME WriteFeedback(r) PROVE Pairs(ActiveRows(w)', g) = call[r].desired
      BY <1>1, <2>2, <2>3, <2>4, <3>2, FeedbackIsReplaced
    <3>3. ASSUME RollbackUnchanged(r) PROVE Pairs(ActiveRows(w)', g) = call[r].desired
      <4>1. Pairs(view[r].rows, g) = call[r].desired
        BY <2>4, <2>5, <3>3 DEF RollbackUnchanged, NothingToWrite
      <4>2. ActiveRows(w)' = ActiveRows(w)
        BY <3>3 DEF RollbackUnchanged, tables, ActiveRows
      <4> QED
        BY <3>1, <4>1, <4>2 DEF Profile
    <3>4. Pairs(ActiveRows(w)', g) = call[r].desired
      BY <1>1, <2>5, <3>2, <3>3, <2>1
         DEF Commit, Write, WritePreferences, WriteGeneration, WriteDelete, WriteConsent
    <3>5. Pairs(ActiveRows(call[r].user), call[r].game)' = Pairs(ActiveRows(w)', g)
      BY <2>2, <2>3, <2>4 DEF Pairs, ActiveRows
    <3> QED
      BY <2>5, <3>4, <3>5
  <2>6. CASE call[r].op = "preferences"
    <3>1. view[r].slugs = prefs[w]
      BY <2>3, <2>6 DEF OwnedOps, Profile
    <3>2. ASSUME WritePreferences(r) PROVE prefs'[w] = call[r].slugs
      BY <1>1, <2>3, <3>1, <3>2 DEF WritePreferences, Inv, TypeOK
    <3>3. ASSUME RollbackUnchanged(r) PROVE prefs'[w] = call[r].slugs
      BY <2>3, <2>6, <3>1, <3>3 DEF RollbackUnchanged, NothingToWrite, tables
    <3>4. prefs'[w] = call[r].slugs
      BY <1>1, <2>6, <3>2, <3>3, <2>1
         DEF Commit, Write, WriteFeedback, WriteGeneration, WriteDelete, WriteConsent
    <3> QED
      BY <2>3, <2>6, <3>4
  <2> QED
    BY <2>5, <2>6
<1>2. ASSUME Inv, HistoryInv, [Next]_vars
      PROVE  \A r \in Requests : AnswersOk(r) =>
             LET c == call[r] IN
             /\ c.op = "feedback" => Pairs(ActiveRows(c.user), c.game)' = c.desired
             /\ c.op = "preferences" => prefs'[c.user] = c.slugs
  BY <1>1, <1>2
<1> QED
  BY <1>2, InvHolds, HistoryHolds, PTL DEF Spec, ReplacementIsExact
-----------------------------------------------------------------------------
\* interactions.py, replace_game_state: for any number of concurrent requests, a row of
\* feedback history stays as it is while its user is there, or is closed once.
THEOREM HistoryStaysKept == Spec => HistoryIsKept
<1>1. ASSUME Inv, HistoryInv, [Next]_vars, NEW i \in interactions,
             users'[i.user].state = "live"
      PROVE  \/ i \in interactions'
             \/ /\ i.superseded_at = Null
                /\ \E j \in interactions' :
                      /\ j.superseded_at # Null
                      /\ j = [i EXCEPT !.superseded_at = j.superseded_at]
  <2>1. i \in InteractionRow /\ i.user \in Users
    BY <1>1 DEF Inv, TypeOK, InteractionRow
  <2>2. CASE UNCHANGED tables
    BY <1>1, <2>2 DEF tables
  <2>3. ASSUME NEW r \in Requests, CreateSession(r) PROVE i \in interactions'
    BY <1>1, <2>3 DEF CreateSession
  <2>4. ASSUME NEW r \in Requests, pc[r] = "staged", Write(r), i \notin interactions'
        PROVE  /\ i.superseded_at = Null
               /\ \E j \in interactions' :
                     /\ j.superseded_at # Null
                     /\ j = [i EXCEPT !.superseded_at = j.superseded_at]
    <3>1. ~WriteDelete(r)
      <4>1. ASSUME WriteDelete(r) PROVE users'[i.user].state = "gone"
        <5>1. i.user = call[r].user
          BY <1>1, <2>4, <4>1 DEF WriteDelete
        <5> QED
          BY <1>1, <2>1, <4>1, <5>1 DEF WriteDelete, NoRow, Inv, TypeOK
      <4> QED
        BY <1>1, <4>1
    <3>2. WriteFeedback(r)
      BY <1>1, <2>4, <3>1 DEF Write, WritePreferences, WriteGeneration, WriteConsent
    <3>3. /\ i \in Superseded(r)
          /\ Closed(Superseded(r), stamp[r]) \subseteq interactions'
      BY <1>1, <2>4, <3>2 DEF WriteFeedback
    <3>4. i.superseded_at = Null
      BY <1>1, <2>4, <3>2, <3>3, FeedbackRows DEF WriteFeedback, ActiveRows
    <3>5. stamp[r] # Null
      BY <1>1, <2>4, <3>2 DEF WriteFeedback, HistoryInv, StampsFollowHistory, Null
    <3> DEFINE j == [i EXCEPT !.superseded_at = stamp[r]]
    <3>6. j \in interactions'
      BY <3>3 DEF Closed
    <3>7. j.superseded_at = stamp[r]
      BY <2>1 DEF InteractionRow
    <3>8. j = [i EXCEPT !.superseded_at = j.superseded_at]
      BY <3>7
    <3> HIDE DEF j
    <3> QED
      BY <3>4, <3>5, <3>6, <3>7, <3>8
  <2> QED
    BY <1>1, <2>2, <2>3, <2>4, TableChanges
<1>2. ASSUME Inv, HistoryInv, [Next]_vars
      PROVE  \A i \in interactions : users'[i.user].state = "live" =>
        \/ i \in interactions'
        \/ /\ i.superseded_at = Null
           /\ \E j \in interactions' : /\ j.superseded_at # Null
                                       /\ j = [i EXCEPT !.superseded_at = j.superseded_at]
  BY <1>1, <1>2
<1> QED
  BY <1>2, InvHolds, HistoryHolds, PTL DEF Spec, HistoryIsKept

-----------------------------------------------------------------------------
(* ProfileStore implements ProfileAtomic: the abstract state, and what each step is there. *)

AtomicSessions == [u \in Users |-> [state |-> users[u].state, consent |-> users[u].consent,
                                    revoked |-> users[u].revoked]]
AtomicFeedback == [u \in Users |-> [g \in Games |-> Pairs(ActiveRows(u), g)]]
AtomicGenerations == {[generation |-> e.generation, user |-> e.user, slugs |-> e.slugs,
                       feedback |-> [g \in Games |-> Pairs(e.rows, g)]] : e \in events}

\* A request is answered when it ends, and one that has not arrived asks for nothing.
Unanswered == \A r \in Requests : /\ pc[r] # "done" => answer[r] = "none"
                                  /\ pc[r] = "idle" => call[r] = NoCall

LEMMA UnansweredEnd ==
    ASSUME Inv, Unanswered, NEW r \in Requests, NEW a, Finish(r, a) PROVE Unanswered'
BY DEF Inv, TypeOK, Unanswered, Finish

LEMMA UnansweredBegin ==
    ASSUME Inv, Unanswered, NEW r \in Requests, NEW c, Begin(r, c) PROVE Unanswered'
BY DEF Inv, TypeOK, Unanswered, Begin

\* Every step keeps requests and answers together.
LEMMA UnansweredStep == Inv /\ Unanswered /\ [Next]_vars => Unanswered'
<1> SUFFICES ASSUME Inv, Unanswered, [Next]_vars PROVE Unanswered'
  OBVIOUS
<1>1. ASSUME NEW r \in Requests, Arrive(r) PROVE Unanswered'
  BY <1>1, UnansweredBegin, UnansweredEnd DEF Arrive, BeginFeedback, BeginPreferences,
     BeginGeneration, BeginLifecycle, BeginCreate, RefuseEarly
<1>2. ASSUME NEW r \in Requests, Progress(r) PROVE Unanswered'
  <2>1. CASE LookupGranted(r) \/ ReadProfile(r) \/ CreateCollision(r)
    BY <2>1 DEF LookupGranted, LookingUp, ReadProfile, CreateCollision, Inv, TypeOK, Unanswered
  <2>2. CASE ~(LookupGranted(r) \/ ReadProfile(r) \/ CreateCollision(r))
    BY <1>2, <2>2, UnansweredEnd DEF Progress, LookupConflict, LookupUnauthenticated,
       LookupOutdated, Commit, RollbackUnchanged, NoContentSignal, CreateSession,
       CreateExhausted
  <2> QED
    BY <2>1, <2>2
<1>3. ASSUME NEW r \in Requests, Failure(r) PROVE Unanswered'
  BY <1>3, UnansweredEnd DEF Failure, Refuse, Abort, CommitUnacknowledged
<1>4. CASE Tick \/ Quiescent \/ UNCHANGED vars
  BY <1>4 DEF Tick, Quiescent, vars, Unanswered
<1> QED
  BY <1>1, <1>2, <1>3, <1>4 DEF Next

\* The abstract state is a function of the tables.
LEMMA AtomicUnchanged ==
    ASSUME UNCHANGED tables
    PROVE  UNCHANGED <<AtomicSessions, prefs, AtomicFeedback, AtomicGenerations>>
BY DEF tables, AtomicSessions, AtomicFeedback, AtomicGenerations, ActiveRows, Pairs

\* A request that arrives asks.
LEMMA AtomicAsk ==
    ASSUME Inv, Inv', Unanswered, NEW r \in Requests, NEW c, Begin(r, c)
    PROVE  Atomic!Ask(r)
<1>1. UNCHANGED <<AtomicSessions, prefs, AtomicFeedback, AtomicGenerations, answer>>
  BY AtomicUnchanged DEF Begin
<1>2. call[r] = NoCall /\ answer[r] = "none"
  BY DEF Begin, Unanswered
<1>3. call'[r] \in Call /\ call' = [call EXCEPT ![r] = call'[r]]
  BY DEF Begin, Inv, TypeOK
<1> QED
  BY <1>1, <1>2, <1>3
     DEF Atomic!Ask, Atomic!Call, Call, AtomicSessions, AtomicFeedback, AtomicGenerations

\* A request that ends replies.
LEMMA AtomicReply ==
    ASSUME Unanswered, NEW r \in Requests, pc[r] # "done", NEW a, Finish(r, a)
    PROVE  Atomic!Reply(r, a)
BY DEF Unanswered, Finish, Atomic!Reply

\* A request that ends with a failure and changes nothing fails.
LEMMA AtomicFail ==
    ASSUME Unanswered, NEW r \in Requests, pc[r] # "done", NEW a \in Answers \ {"ok"},
           Finish(r, a), UNCHANGED tables
    PROVE  Atomic!Fail(r)
<1>1. Atomic!Reply(r, a)
  BY AtomicReply
<1>2. UNCHANGED <<AtomicSessions, prefs, AtomicFeedback, AtomicGenerations>>
  BY AtomicUnchanged
<1> QED
  BY <1>1, <1>2 DEF Atomic!Fail, AtomicSessions, AtomicFeedback, AtomicGenerations

\* The session of a request that writes is one the endpoints accept.
LEMMA StagedSession ==
    ASSUME Inv, NEW r \in Requests, pc[r] = "staged"
    PROVE  /\ call[r].user \in Users
           /\ Atomic!Known(call[r].user)
           /\ call[r].op \in OwnedOps => Atomic!Agreed(call[r].user)
<1>1. /\ call[r].user \in Users
      /\ users[call[r].user].state = "live" /\ ~users[call[r].user].revoked
      /\ call[r].op \in OwnedOps => users[call[r].user].consent = "current"
  BY DEF Inv, LockDiscipline
<1> QED
  BY <1>1 DEF Atomic!Known, Atomic!Agreed

\* A new version of a row is not visible.
LEMMA TouchIsInvisible ==
    ASSUME Inv, NEW w \in Users, users' = Touched(w)
    PROVE  AtomicSessions' = AtomicSessions
BY DEF Touched, AtomicSessions, Inv, TypeOK, UserRow

\* The commit of a feedback request puts what its body says into one game, and leaves the
\* other games and the other users alone.
LEMMA AtomicFeedbackWrite ==
    ASSUME Inv, HistoryInv, NEW r \in Requests, pc[r] = "staged", WriteFeedback(r)
    PROVE  Atomic!PutFeedback(call[r])
<1>1. PICK w \in Users : w = call[r].user
  BY StagedFacts
<1>2. PICK g \in Games : g = call[r].game
  BY DEF WriteFeedback, Inv, CallsNameTargets
<1>3. Pairs(ActiveRows(w)', g) = call[r].desired
  BY <1>1, <1>2, FeedbackIsReplaced
<1>4. ASSUME NEW h \in Games, h # g PROVE Pairs(ActiveRows(w)', h) = Pairs(ActiveRows(w), h)
  <2>1. stamp[r] # Null
    BY DEF HistoryInv, StampsFollowHistory, WriteFeedback, Null
  <2>2. ActiveRows(w)' = (ActiveRows(w) \ Superseded(r)) \cup Added(r)
    BY <1>1, <2>1, ActiveAfterFeedback
  <2>3. /\ \A i \in Superseded(r) : i.game # h
        /\ \A i \in Added(r) : i.game # h
    BY <1>2, <1>4 DEF Superseded, Added
  <2> QED
    BY <2>2, <2>3 DEF Pairs
<1>5. ASSUME NEW u \in Users, u # w PROVE ActiveRows(u)' = ActiveRows(u)
  BY <1>1, <1>5, WriteFrame DEF Write, Profile
<1>6. AtomicFeedback' = [AtomicFeedback EXCEPT ![w][g] = call[r].desired]
  <2>1. ASSUME NEW u \in Users, NEW h \in Games
        PROVE  AtomicFeedback'[u][h] =
                 IF u = w /\ h = g THEN call[r].desired ELSE AtomicFeedback[u][h]
    BY <1>3, <1>4, <1>5, <2>1 DEF AtomicFeedback, Pairs, ActiveRows
  <2>2. /\ AtomicFeedback = [u \in Users |-> [h \in Games |-> AtomicFeedback[u][h]]]
        /\ AtomicFeedback' = [u \in Users |-> [h \in Games |-> AtomicFeedback'[u][h]]]
    BY DEF AtomicFeedback
  <2> HIDE DEF AtomicFeedback
  <2> QED
    BY <2>1, <2>2
<1>7. AtomicSessions' = AtomicSessions
  BY <1>1, TouchIsInvisible DEF WriteFeedback
<1>8. AtomicGenerations' = AtomicGenerations /\ prefs' = prefs
  BY DEF WriteFeedback, AtomicGenerations, Pairs
<1>9. call[r].op = "feedback" /\ Atomic!Agreed(w)
  BY <1>1, StagedSession DEF WriteFeedback, OwnedOps
<1> QED
  BY <1>1, <1>2, <1>6, <1>7, <1>8, <1>9
     DEF Atomic!PutFeedback, AtomicSessions, AtomicFeedback, AtomicGenerations

\* The commit of a preferences request.
LEMMA AtomicPreferencesWrite ==
    ASSUME Inv, NEW r \in Requests, pc[r] = "staged", WritePreferences(r)
    PROVE  Atomic!PutPreferences(call[r])
<1>1. PICK w \in Users : w = call[r].user /\ view[r].slugs = prefs[w]
  <2>1. call[r].op \in OwnedOps
    BY DEF WritePreferences, OwnedOps
  <2>2. call[r].user \in Users /\ view[r] = Profile(call[r].user)
    BY <2>1, StagedFacts
  <2> QED
    BY <2>2 DEF Profile
<1>2. prefs' = [prefs EXCEPT ![w] = call[r].slugs]
  <2>1. (prefs[w] \ (prefs[w] \ call[r].slugs)) \cup (call[r].slugs \ prefs[w]) = call[r].slugs
    OBVIOUS
  <2> QED
    BY <1>1, <2>1 DEF WritePreferences
<1>3. AtomicSessions' = AtomicSessions
  BY <1>1, TouchIsInvisible DEF WritePreferences
<1>4. AtomicFeedback' = AtomicFeedback /\ AtomicGenerations' = AtomicGenerations
  BY DEF WritePreferences, AtomicFeedback, AtomicGenerations, ActiveRows, Pairs
<1>5. call[r].op = "preferences" /\ Atomic!Agreed(w)
  BY <1>1, StagedSession DEF WritePreferences, OwnedOps
<1> QED
  BY <1>1, <1>2, <1>3, <1>4, <1>5
     DEF Atomic!PutPreferences, AtomicSessions, AtomicFeedback, AtomicGenerations

\* The commit of a generation: the profile of its snapshot is the profile of this moment.
LEMMA AtomicGenerationWrite ==
    ASSUME Inv, NEW r \in Requests, pc[r] = "staged", WriteGeneration(r)
    PROVE  Atomic!Generate(r, call[r])
<1>1. PICK w \in Users : w = call[r].user /\ view[r] = Profile(w)
  BY StagedFacts DEF WriteGeneration, OwnedOps
<1>2. view[r].slugs = prefs[w] /\ view[r].rows = ActiveRows(w)
  BY <1>1 DEF Profile
<1> DEFINE shown(e) == [generation |-> e.generation, user |-> e.user, slugs |-> e.slugs,
                        feedback |-> [g \in Games |-> Pairs(e.rows, g)]]
           new == [generation |-> r, user |-> w, slugs |-> prefs[w], rows |-> ActiveRows(w)]
<1>3. events' = events \cup {new}
  BY <1>1, <1>2 DEF WriteGeneration
<1>4. shown(new) = [generation |-> r, user |-> w, slugs |-> prefs[w],
                    feedback |-> AtomicFeedback[w]]
  BY DEF AtomicFeedback
<1>5. /\ AtomicGenerations = {shown(e) : e \in events}
      /\ AtomicGenerations' = {shown(e) : e \in events'}
  BY DEF AtomicGenerations, Pairs
<1>6. AtomicGenerations' = AtomicGenerations \cup {shown(new)}
  <2> HIDE DEF shown, new
  <2> QED
    BY <1>3, <1>5
<1>7. AtomicSessions' = AtomicSessions
  BY <1>1, TouchIsInvisible DEF WriteGeneration
<1>8. prefs' = prefs /\ AtomicFeedback' = AtomicFeedback
  BY DEF WriteGeneration, AtomicFeedback, ActiveRows, Pairs
<1>9. /\ call[r].op = "generate" /\ Atomic!Agreed(w)
      /\ prefs[w] \cap ContentSlugs # {}
  BY <1>1, <1>2, StagedSession DEF WriteGeneration, OwnedOps
<1>10. AtomicGenerations' = AtomicGenerations \cup
          {[generation |-> r, user |-> w, slugs |-> prefs[w], feedback |-> AtomicFeedback[w]]}
  BY <1>4, <1>6
<1> QED
  BY <1>1, <1>7, <1>8, <1>9, <1>10
     DEF Atomic!Generate, AtomicSessions, AtomicFeedback, AtomicGenerations

\* The commit of a deletion: nothing that is shown for the user remains.
LEMMA AtomicDeleteWrite ==
    ASSUME Inv, NEW r \in Requests, pc[r] = "staged", WriteDelete(r)
    PROVE  Atomic!Delete(call[r])
<1>1. PICK w \in Users : w = call[r].user
  BY StagedFacts
<1>2. AtomicSessions' = [AtomicSessions EXCEPT ![w] =
          [state |-> "gone", consent |-> "null", revoked |-> FALSE]]
  BY <1>1 DEF WriteDelete, AtomicSessions, NoRow, Inv, TypeOK
<1>3. prefs' = [prefs EXCEPT ![w] = {}]
  BY <1>1 DEF WriteDelete
<1>4. AtomicFeedback' = [AtomicFeedback EXCEPT ![w] = [g \in Games |-> {}]]
  <2>1. \A g \in Games : Pairs(ActiveRows(w)', g) = {}
    BY <1>1 DEF WriteDelete, ActiveRows, Pairs
  <2>2. \A u \in Users : u # w => ActiveRows(u)' = ActiveRows(u)
    BY <1>1 DEF WriteDelete, ActiveRows
  <2>3. ASSUME NEW u \in Users
        PROVE  AtomicFeedback'[u] = IF u = w THEN [g \in Games |-> {}] ELSE AtomicFeedback[u]
    <3>1. AtomicFeedback'[u] = [g \in Games |-> Pairs(ActiveRows(u)', g)]
      BY DEF AtomicFeedback, Pairs
    <3>2. AtomicFeedback[u] = [g \in Games |-> Pairs(ActiveRows(u), g)]
      BY DEF AtomicFeedback
    <3>3. CASE u = w
      <4>1. ActiveRows(u)' = ActiveRows(w)'
        BY <3>3 DEF ActiveRows
      <4> QED
        BY <2>1, <3>1, <3>3, <4>1
    <3>4. CASE u # w
      BY <2>2, <3>1, <3>2, <3>4
    <3> QED
      BY <3>3, <3>4
  <2>4. /\ AtomicFeedback = [u \in Users |-> AtomicFeedback[u]]
        /\ AtomicFeedback' = [u \in Users |-> AtomicFeedback'[u]]
    BY DEF AtomicFeedback
  <2> HIDE DEF AtomicFeedback
  <2> QED
    BY <2>3, <2>4
<1>5. AtomicGenerations' = {e \in AtomicGenerations : e.user # w}
  <2> DEFINE shown(e) == [generation |-> e.generation, user |-> e.user, slugs |-> e.slugs,
                          feedback |-> [g \in Games |-> Pairs(e.rows, g)]]
  <2>1. /\ AtomicGenerations = {shown(e) : e \in events}
        /\ AtomicGenerations' = {shown(e) : e \in events'}
    BY DEF AtomicGenerations, Pairs
  <2>2. events' = {e \in events : e.user # w}
    BY <1>1 DEF WriteDelete
  <2>3. \A e : shown(e).user = e.user
    OBVIOUS
  <2> HIDE DEF shown
  <2> QED
    BY <2>1, <2>2, <2>3
<1>6. call[r].op = "delete" /\ Atomic!Known(w)
  BY <1>1, StagedSession DEF WriteDelete
<1> QED
  BY <1>1, <1>2, <1>3, <1>4, <1>5, <1>6
     DEF Atomic!Delete, AtomicSessions, AtomicFeedback, AtomicGenerations

\* The commit of a renewed consent.
LEMMA AtomicConsentWrite ==
    ASSUME Inv, NEW r \in Requests, pc[r] = "staged", WriteConsent(r)
    PROVE  Atomic!Consent(call[r])
<1>1. PICK w \in Users : w = call[r].user
  BY StagedFacts
<1>2. AtomicSessions' = [AtomicSessions EXCEPT ![w].consent = "current"]
  BY <1>1 DEF WriteConsent, Touched, Renewed, AtomicSessions, Inv, TypeOK, UserRow
<1>3. prefs' = prefs /\ AtomicFeedback' = AtomicFeedback
      /\ AtomicGenerations' = AtomicGenerations
  BY DEF WriteConsent, AtomicFeedback, AtomicGenerations, ActiveRows, Pairs
<1>4. call[r].op = "consent" /\ Atomic!Known(w)
  BY <1>1, StagedSession DEF WriteConsent
<1> QED
  BY <1>1, <1>2, <1>3, <1>4
     DEF Atomic!Consent, AtomicSessions, AtomicFeedback, AtomicGenerations

\* The five writes are effects.
LEMMA AtomicWrite ==
    ASSUME Inv, HistoryInv, NEW r \in Requests, pc[r] = "staged", Write(r)
    PROVE  Atomic!Effect(r)
BY AtomicFeedbackWrite, AtomicPreferencesWrite, AtomicGenerationWrite, AtomicDeleteWrite,
   AtomicConsentWrite DEF Write, Atomic!Effect

\* The insertion of a session: its row was never there, so nothing is stored for it.
LEMMA AtomicCreate ==
    ASSUME Inv, DeletionIsComplete, NEW r \in Requests, CreateSession(r)
    PROVE  Atomic!Create(call[r])
<1>1. PICK u \in Users : users[u].state = "none" /\ users' = [users EXCEPT ![u] = InsertedRow(r)]
  BY DEF CreateSession
<1>2. AtomicSessions[u].state = "none"
  BY <1>1 DEF AtomicSessions
<1>3. prefs[u] = {}
  BY <1>1 DEF DeletionIsComplete
<1>4. AtomicFeedback[u] = [g \in Games |-> {}]
  <2>1. ActiveRows(u) = {}
    BY <1>1 DEF DeletionIsComplete, ActiveRows
  <2> QED
    BY <2>1 DEF AtomicFeedback, Pairs
<1>5. AtomicSessions' = [AtomicSessions EXCEPT ![u] =
          [state |-> "live", consent |-> "current", revoked |-> FALSE]]
  BY <1>1 DEF AtomicSessions, InsertedRow, Inv, TypeOK
<1>6. prefs' = prefs /\ AtomicFeedback' = AtomicFeedback
      /\ AtomicGenerations' = AtomicGenerations
  BY DEF CreateSession, AtomicFeedback, AtomicGenerations, ActiveRows, Pairs
<1>7. call[r].op = "create"
  BY DEF CreateSession
<1> QED
  BY <1>1, <1>2, <1>3, <1>4, <1>5, <1>6, <1>7
     DEF Atomic!Create, AtomicSessions, AtomicFeedback, AtomicGenerations

\* A request with nothing to write is carried out too: what it asks for is there.
LEMMA AtomicNothingToWrite ==
    ASSUME Inv, NEW r \in Requests, pc[r] = "staged", NothingToWrite(r), UNCHANGED tables
    PROVE  Atomic!Effect(r)
<1>1. PICK w \in Users : w = call[r].user
  BY StagedFacts
<1>2. UNCHANGED <<AtomicSessions, prefs, AtomicFeedback, AtomicGenerations>>
  BY AtomicUnchanged
<1>3. CASE call[r].op = "feedback" /\ Pairs(view[r].rows, call[r].game) = call[r].desired
  <2>1. PICK g \in Games : g = call[r].game
    BY <1>3 DEF Inv, CallsNameTargets
  <2>2. call[r].op \in OwnedOps
    BY <1>3 DEF OwnedOps
  <2>3. view[r].rows = ActiveRows(w)
    <3>1. view[r] = Profile(call[r].user)
      BY <2>2, StagedFacts
    <3> QED
      BY <3>1, <1>1 DEF Profile
  <2>4. AtomicFeedback[w][g] = call[r].desired
    BY <1>3, <2>1, <2>3 DEF AtomicFeedback
  <2>5. AtomicFeedback = [AtomicFeedback EXCEPT ![w][g] = call[r].desired]
    <3>1. AtomicFeedback = [u \in Users |-> [h \in Games |-> AtomicFeedback[u][h]]]
      BY DEF AtomicFeedback
    <3> HIDE DEF AtomicFeedback
    <3> QED
      BY <2>4, <3>1
  <2>6. Atomic!Agreed(w)
    BY <1>1, <2>2, StagedSession
  <2>7. Atomic!PutFeedback(call[r])
    BY <1>1, <1>2, <1>3, <2>1, <2>5, <2>6
       DEF Atomic!PutFeedback, AtomicSessions, AtomicFeedback, AtomicGenerations
  <2> QED
    BY <2>7 DEF Atomic!Effect
<1>4. CASE call[r].op = "preferences" /\ view[r].slugs = call[r].slugs
  <2>1. call[r].op \in OwnedOps
    BY <1>4 DEF OwnedOps
  <2>2. prefs[w] = call[r].slugs
    <3>1. view[r] = Profile(call[r].user)
      BY <2>1, StagedFacts
    <3> QED
      BY <3>1, <1>1, <1>4 DEF Profile
  <2>3. prefs = [prefs EXCEPT ![w] = call[r].slugs]
    BY <2>2 DEF Inv, TypeOK
  <2>4. Atomic!Agreed(w)
    BY <1>1, <2>1, StagedSession
  <2>5. Atomic!PutPreferences(call[r])
    BY <1>1, <1>2, <1>4, <2>3, <2>4
       DEF Atomic!PutPreferences, AtomicSessions, AtomicFeedback, AtomicGenerations
  <2> QED
    BY <2>5 DEF Atomic!Effect
<1>5. CASE call[r].op = "consent" /\ AlreadyCurrent(r)
  <2>1. users[w].consent = "current"
    BY <1>1, <1>5 DEF AlreadyCurrent
  <2>2. AtomicSessions = [AtomicSessions EXCEPT ![w].consent = "current"]
    BY <2>1 DEF AtomicSessions
  <2>3. Atomic!Known(w)
    BY <1>1, StagedSession
  <2>4. Atomic!Consent(call[r])
    BY <1>1, <1>2, <1>5, <2>2, <2>3
       DEF Atomic!Consent, AtomicSessions, AtomicFeedback, AtomicGenerations
  <2> QED
    BY <2>4 DEF Atomic!Effect
<1> QED
  BY <1>3, <1>4, <1>5 DEF NothingToWrite

\* The initial states are initial states of the abstract specification.
LEMMA AtomicInit == Init => Atomic!Init /\ Unanswered
<1> SUFFICES ASSUME Init PROVE Atomic!Init /\ Unanswered
  OBVIOUS
<1>1. Unanswered
  BY DEF Init, Unanswered
<1>2. users \in [Users -> UserRow]
  BY ConstantsAssumption DEF Init
<1>3. AtomicSessions \in [Users -> Atomic!Session]
  BY <1>2 DEF AtomicSessions, Atomic!Session, UserRow
<1>4. AtomicFeedback = [u \in Users |-> [g \in Games |-> {}]]
  BY DEF Init, AtomicFeedback, ActiveRows, Pairs
<1>5. AtomicGenerations = {}
  BY DEF Init, AtomicGenerations
<1>6. Atomic!Init
  BY <1>3, <1>4, <1>5
     DEF Init, Atomic!Init, AtomicSessions, AtomicFeedback, AtomicGenerations
<1> QED
  BY <1>1, <1>6

\* Every step is a step of the abstract specification or is not visible.
LEMMA AtomicStep ==
    ASSUME Inv, Inv', HistoryInv, DeletionIsComplete, Unanswered, [Next]_vars
    PROVE  [Atomic!Next]_(Atomic!vars)
<1>1. ASSUME NEW r \in Requests, Atomic!Effect(r), Atomic!Reply(r, "ok")
      PROVE  Atomic!Next
  BY <1>1 DEF Atomic!Next, Atomic!Serve
<1>2. ASSUME NEW r \in Requests, Atomic!Effect(r), Atomic!Reply(r, LostAnswer(call[r].op))
      PROVE  Atomic!Next
  BY <1>2 DEF Atomic!Next, Atomic!Lose, LostAnswer
<1>3. ASSUME NEW r \in Requests, pc[r] # "done", NEW a \in Answers \ {"ok"},
             Finish(r, a), UNCHANGED tables
      PROVE  Atomic!Next
  BY <1>3, AtomicFail DEF Atomic!Next
<1>4. ASSUME UNCHANGED <<tables, call, answer>> PROVE UNCHANGED Atomic!vars
  <2>1. UNCHANGED <<AtomicSessions, prefs, AtomicFeedback, AtomicGenerations>>
    BY <1>4, AtomicUnchanged
  <2> QED
    BY <1>4, <2>1 DEF Atomic!vars, AtomicSessions, AtomicFeedback, AtomicGenerations
<1>5. ASSUME NEW r \in Requests, Arrive(r) PROVE Atomic!Next
  <2>1. CASE RefuseEarly(r)
    BY <2>1, <1>3 DEF RefuseEarly, Answers
  <2>2. ASSUME NEW c, Begin(r, c) PROVE Atomic!Next
    BY <2>2, AtomicAsk DEF Atomic!Next
  <2> QED
    BY <1>5, <2>1, <2>2 DEF Arrive, BeginFeedback, BeginPreferences, BeginGeneration,
       BeginLifecycle, BeginCreate
<1>6. ASSUME NEW r \in Requests, Progress(r) PROVE Atomic!Next \/ UNCHANGED Atomic!vars
  <2>1. CASE LookupConflict(r) \/ LookupUnauthenticated(r) \/ LookupOutdated(r)
             \/ NoContentSignal(r) \/ CreateExhausted(r)
    BY <2>1, <1>3 DEF LookupConflict, LookupUnauthenticated, LookupOutdated, LookingUp,
       NoContentSignal, CreateExhausted, Answers
  <2>2. CASE LookupGranted(r) \/ ReadProfile(r) \/ CreateCollision(r)
    BY <2>2, <1>4 DEF LookupGranted, ReadProfile, CreateCollision, tables
  <2>3. CASE Commit(r)
    BY <2>3, <1>1, AtomicWrite, AtomicReply DEF Commit
  <2>4. CASE RollbackUnchanged(r)
    BY <2>4, <1>1, AtomicNothingToWrite, AtomicReply DEF RollbackUnchanged
  <2>5. CASE CreateSession(r)
    <3>1. pc[r] = "begun" /\ LostAnswer(call[r].op) = "unavailable"
      BY <2>5 DEF CreateSession, LostAnswer
    <3>2. Atomic!Effect(r)
      BY <2>5, AtomicCreate DEF Atomic!Effect
    <3>3. Atomic!Reply(r, "ok") \/ Atomic!Reply(r, "unavailable")
      BY <2>5, <3>1, AtomicReply DEF CreateSession
    <3> QED
      BY <3>1, <3>2, <3>3, <1>1, <1>2
  <2> QED
    BY <1>6, <2>1, <2>2, <2>3, <2>4, <2>5 DEF Progress
<1>7. ASSUME NEW r \in Requests, Failure(r) PROVE Atomic!Next
  <2>1. CASE Refuse(r) \/ Abort(r)
    BY <2>1, <1>3 DEF Refuse, Abort, Answers
  <2>2. CASE CommitUnacknowledged(r)
    <3>1. /\ pc[r] = "staged" /\ Finish(r, LostAnswer(call[r].op))
          /\ LostAnswer(call[r].op) \in Answers \ {"ok"}
      BY <2>2 DEF CommitUnacknowledged, LostAnswer, Answers
    <3>2. CASE Write(r)
      BY <3>1, <3>2, <1>2, AtomicWrite, AtomicReply
    <3>3. CASE UNCHANGED tables
      BY <3>1, <3>3, <1>3
    <3> QED
      BY <2>2, <3>2, <3>3 DEF CommitUnacknowledged
  <2> QED
    BY <1>7, <2>1, <2>2 DEF Failure
<1>8. CASE Tick \/ Quiescent \/ UNCHANGED vars
  BY <1>4, <1>8 DEF Tick, Quiescent, vars, tables
<1> QED
  BY <1>5, <1>6, <1>7, <1>8 DEF Next

\* The five services: for any number of sessions, requests and games, the store implements
\* ProfileAtomic - each request is carried out alone, at one moment, or not at all.
THEOREM StoreIsAtomic == Spec => ImplementsAtomicProfile
<1>1. Inv /\ Unanswered /\ [Next]_vars => Unanswered'
  BY UnansweredStep
<1>2. Init => Unanswered
  BY AtomicInit
<1>3. Spec => []Unanswered
  BY <1>1, <1>2, InvHolds, PTL DEF Spec
<1>4. Init => Atomic!Init
  BY AtomicInit
<1>5. Inv /\ Inv' /\ HistoryInv /\ DeletionIsComplete /\ Unanswered /\ [Next]_vars
          => [Atomic!Next]_(Atomic!vars)
  BY AtomicStep
<1> QED
  BY <1>3, <1>4, <1>5, InvHolds, HistoryHolds, DeletionLeavesNothing, PTL
     DEF Spec, ImplementsAtomicProfile, Atomic!Spec
=============================================================================
