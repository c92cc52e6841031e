----------------------- MODULE SchemaMigrationsProofs -----------------------
(***************************************************************************)
(* Theorems of SchemaMigrations, for any number of users, games, rows,     *)
(* events and migrations.                                                  *)
(***************************************************************************)
EXTENDS SchemaMigrations, FiniteSetTheorems, SequenceTheorems, TLAPS

\* Sets of natural numbers have a least member.
LEMMA LeastNatural ==
    ASSUME NEW T, T \subseteq Nat, T # {} PROVE \E x \in T : \A y \in T : x <= y
<1> DEFINE R == OpToRel(<, Nat)
<1>1. IsWellFoundedOn(R, Nat)
  BY NatLessThanWellFounded
<1>2. \A x, y \in Nat : x < y => <<x, y>> \in R
  BY DEF OpToRel
<1> HIDE DEF R
<1>3. PICK x \in T : \A y \in T : ~ (<<y, x>> \in R)
  BY <1>1, WFMin
<1>4. \A y \in T : ~(y < x)
  BY <1>2, <1>3
<1>5. \A y \in T : x <= y
  BY <1>4
<1> QED
  BY <1>5

\* The rows as a function.
LEMMA RowFacts ==
    ASSUME TypeOK
    PROVE  /\ Len(rows) \in Nat /\ DOMAIN rows = 1..Len(rows)
           /\ \A j \in DOMAIN rows : /\ rows[j] \in Interactions
                                     /\ rows[j].occurred \in Nat \ {0}
                                     /\ rows[j].occurred <= MaxTime
                                     /\ rows[j].superseded \in Nat
           /\ now \in Nat /\ now <= MaxTime /\ MaxTime \in Nat
<1>1. MaxTime \in Nat /\ now \in 1..MaxTime /\ rows \in Seq(Interactions)
  BY MigrationAssumption DEF TypeOK
<1>2. Len(rows) \in Nat /\ DOMAIN rows = 1..Len(rows)
  BY <1>1
<1>3. \A j \in DOMAIN rows : rows[j] \in Interactions
  BY <1>1, <1>2
<1>4. \A row \in Interactions : row.occurred \in 1..MaxTime /\ row.superseded \in 0..MaxTime
  BY DEF Interactions
<1> QED
  BY <1>1, <1>2, <1>3, <1>4

\* Of two rows one is the newer.
LEMMA RowsAreOrdered ==
    ASSUME TypeOK, NEW i \in DOMAIN rows, NEW j \in DOMAIN rows, i # j
    PROVE  Newer(i, j) \/ Newer(j, i)
BY RowFacts DEF Newer

\* The row just before row j is the oldest of those that are newer.
LEMMA OldestNewer ==
    ASSUME TypeOK, NEW j \in DOMAIN rows, NewerOf(j) # {}
    PROVE  \E i \in NewerOf(j) : /\ SupersededAt(j) = rows[i].occurred
                                 /\ \A k \in NewerOf(j) : rows[i].occurred <= rows[k].occurred
<1> DEFINE N == NewerOf(j)
           T == {rows[i].occurred : i \in N}
<1>1. N \subseteq DOMAIN rows /\ N \subseteq Nat
  BY RowFacts DEF NewerOf
<1>2. T \subseteq Nat /\ T # {}
  BY <1>1, RowFacts
<1>3. PICK t \in T : \A y \in T : t <= y
  BY <1>2, LeastNatural
<1> DEFINE L == {i \in N : rows[i].occurred = t}
<1>4. L \subseteq Nat /\ L # {}
  BY <1>1, <1>3
<1>5. PICK l \in L : \A y \in L : l <= y
  BY <1>4, LeastNatural
<1> DEFINE Oldest(i) == \A k \in N : k = i \/ Newer(k, i)
<1>6. Oldest(l)
  <2> SUFFICES ASSUME NEW k \in N PROVE k = l \/ Newer(k, l)
    OBVIOUS
  <2>1. rows[k].occurred \in Nat /\ t <= rows[k].occurred /\ t \in Nat /\ rows[l].occurred = t
    BY <1>1, <1>2, <1>3, <1>5, RowFacts
  <2>2. CASE rows[k].occurred = t
    <3>1. l <= k /\ l \in Nat /\ k \in Nat
      BY <1>1, <1>5, <2>2
    <3> QED
      BY <2>1, <2>2, <3>1 DEF Newer
  <2>3. CASE rows[k].occurred # t
    BY <2>1, <2>3 DEF Newer
  <2> QED
    BY <2>2, <2>3
<1> DEFINE c == CHOOSE i \in N : Oldest(i)
<1>7. c \in N /\ Oldest(c)
  BY <1>5, <1>6
<1>8. SupersededAt(j) = rows[c].occurred
  BY DEF SupersededAt
<1>9. \A k \in N : rows[c].occurred <= rows[k].occurred
  <2> HIDE DEF c, N
  <2> SUFFICES ASSUME NEW k \in N PROVE rows[c].occurred <= rows[k].occurred
    OBVIOUS
  <2>1. k = c \/ Newer(k, c)
    BY <1>7
  <2>2. rows[k].occurred \in Nat /\ rows[c].occurred \in Nat
    BY <1>1, <1>7, RowFacts
  <2> QED
    BY <2>1, <2>2 DEF Newer
<1> QED
  BY <1>7, <1>8, <1>9

\* When the ledger ends a row: never before its own time, nor after the next.
LEMMA SupersessionFacts ==
    ASSUME TypeOK, RowsAreDated, NEW j \in DOMAIN rows
    PROVE  /\ SupersededAt(j) \in 0..MaxTime
           /\ NewerOf(j) = {} => SupersededAt(j) = Current
           /\ NewerOf(j) # {} => /\ SupersededAt(j) # Current
                                 /\ rows[j].occurred <= SupersededAt(j)
                                 /\ SupersededAt(j) <= now
                                 /\ \A i \in NewerOf(j) : SupersededAt(j) <= rows[i].occurred
<1>1. CASE NewerOf(j) = {}
  BY <1>1, MigrationAssumption DEF SupersededAt, Current
<1>2. CASE NewerOf(j) # {}
  <2>1. PICK i \in NewerOf(j) : /\ SupersededAt(j) = rows[i].occurred
                                /\ \A k \in NewerOf(j) : rows[i].occurred <= rows[k].occurred
    BY <1>2, OldestNewer
  <2>2. i \in DOMAIN rows /\ Newer(i, j)
    BY DEF NewerOf
  <2>3. rows[j].occurred <= rows[i].occurred /\ rows[i].occurred <= now
    BY <2>2, RowFacts DEF Newer, RowsAreDated
  <2> QED
    BY <1>2, <2>1, <2>2, <2>3, RowFacts DEF Current
<1> QED
  BY <1>1, <1>2
-----------------------------------------------------------------------------
\* The upgrades one by one.
\* The ledger that revision 0004 makes of the rows.
Ledger == [j \in DOMAIN rows |-> IF rows[j].type = "viewed" THEN rows[j]
                                 ELSE [rows[j] EXCEPT !.superseded = SupersededAt(j)]]
Unsuperseded == [j \in DOMAIN rows |-> [rows[j] EXCEPT !.superseded = Current]]

LEMMA UpgradedTo ==
    /\ Upgraded(3) = [users |-> [u \in Users |-> IF users[u] = Absent THEN Absent ELSE Legacy(u)],
                      rows |-> rows, events |-> events]
    /\ Upgraded(4) = [users |-> users, rows |-> Ledger, events |-> events]
    /\ Upgraded(5) = [users |-> users, rows |-> rows,
                      events |-> [e \in DOMAIN events |-> [identity |-> FALSE,
                                                           schema |-> "legacy-v1"]]]
<1> DEFINE u3 == [u \in Users |-> IF users[u] = Absent THEN Absent ELSE Legacy(u)]
           e5 == [e \in DOMAIN events |-> [identity |-> FALSE, schema |-> "legacy-v1"]]
<1>1. Upgraded(3) = [Kept EXCEPT !.users = u3]
  BY DEF Upgraded
<1>2. Upgraded(4) = [Kept EXCEPT !.rows = Ledger]
  BY DEF Upgraded, Ledger
<1>3. Upgraded(5) = [Kept EXCEPT !.events = e5]
  BY DEF Upgraded
<1> HIDE DEF u3, e5
<1>4. /\ Upgraded(3) = [users |-> u3, rows |-> rows, events |-> events]
      /\ Upgraded(4) = [users |-> users, rows |-> Ledger, events |-> events]
      /\ Upgraded(5) = [users |-> users, rows |-> rows, events |-> e5]
  BY <1>1, <1>2, <1>3 DEF Kept
<1> QED
  BY <1>4 DEF u3, e5

LEMMA DowngradedFrom ==
    /\ Downgraded(3) = [users |-> [u \in Users |-> IF users[u] = Absent THEN Absent
                                                   ELSE [consent |-> FALSE, revoked |-> FALSE]],
                        rows |-> rows, events |-> events]
    /\ Downgraded(4) = [users |-> users, rows |-> Unsuperseded, events |-> events]
    /\ Downgraded(5) = [users |-> users, rows |-> rows,
                        events |-> [e \in DOMAIN events |-> [identity |-> FALSE,
                                                             schema |-> "none"]]]
<1> DEFINE u3 == [u \in Users |-> IF users[u] = Absent THEN Absent
                                  ELSE [consent |-> FALSE, revoked |-> FALSE]]
           e5 == [e \in DOMAIN events |-> [identity |-> FALSE, schema |-> "none"]]
<1>1. Downgraded(3) = [Kept EXCEPT !.users = u3]
  BY DEF Downgraded
<1>2. Downgraded(4) = [Kept EXCEPT !.rows = Unsuperseded]
  BY DEF Downgraded, Unsuperseded
<1>3. Downgraded(5) = [Kept EXCEPT !.events = e5]
  BY DEF Downgraded
<1> HIDE DEF u3, e5
<1>4. /\ Downgraded(3) = [users |-> u3, rows |-> rows, events |-> events]
      /\ Downgraded(4) = [users |-> users, rows |-> Unsuperseded, events |-> events]
      /\ Downgraded(5) = [users |-> users, rows |-> rows, events |-> e5]
  BY <1>1, <1>2, <1>3 DEF Kept
<1> QED
  BY <1>4 DEF u3, e5

LEMMA LedgerFacts ==
    ASSUME TypeOK, RowsAreDated, revision < 4
    PROVE  /\ Ledger \in Seq(Interactions) /\ Len(Ledger) = Len(rows)
           /\ DOMAIN Ledger = DOMAIN rows
           /\ \A j \in DOMAIN rows :
                 /\ Ledger[j] \in Interactions
                 /\ Ledger[j].user = rows[j].user /\ Ledger[j].game = rows[j].game
                 /\ Ledger[j].type = rows[j].type /\ Ledger[j].occurred = rows[j].occurred
                 /\ rows[j].type = "viewed" => Ledger[j].superseded = Current
                 /\ rows[j].type # "viewed" => Ledger[j].superseded = SupersededAt(j)
<1>1. \A j \in DOMAIN rows : SupersededAt(j) \in 0..MaxTime /\ rows[j] \in Interactions
  BY SupersessionFacts, RowFacts
<1>2. ASSUME NEW j \in DOMAIN rows
      PROVE  /\ Ledger[j] \in Interactions
             /\ Ledger[j].user = rows[j].user /\ Ledger[j].game = rows[j].game
             /\ Ledger[j].type = rows[j].type /\ Ledger[j].occurred = rows[j].occurred
             /\ rows[j].type = "viewed" => Ledger[j].superseded = Current
             /\ rows[j].type # "viewed" => Ledger[j].superseded = SupersededAt(j)
  <2>1. CASE rows[j].type = "viewed"
    <3>1. Ledger[j] = rows[j]
      BY <2>1 DEF Ledger
    <3>2. rows[j].superseded = Current
      BY RowFacts DEF RowsAreDated, TypeOK, BaseRevision, HeadRevision
    <3> QED
      BY <1>1, <2>1, <3>1, <3>2
  <2>2. CASE rows[j].type # "viewed"
    <3>1. Ledger[j] = [rows[j] EXCEPT !.superseded = SupersededAt(j)]
      BY <2>2 DEF Ledger
    <3> QED
      BY <1>1, <2>2, <3>1 DEF Interactions
  <2> QED
    BY <2>1, <2>2
<1>3. Ledger \in [1..Len(rows) -> Interactions] /\ Len(rows) \in Nat
  BY <1>2, RowFacts DEF Ledger
<1>4. Ledger \in Seq(Interactions) /\ Len(Ledger) = Len(rows) /\ DOMAIN Ledger = DOMAIN rows
  BY <1>3, RowFacts
<1> QED
  BY <1>2, <1>4

\* Rows that share a state cannot both be current: one of them is the newer.
LEMMA LedgerIsUnique ==
    ASSUME TypeOK, RowsAreDated, revision < 4,
           NEW i \in DOMAIN rows, NEW j \in DOMAIN rows, i # j,
           IsCurrent(Ledger[i]), IsCurrent(Ledger[j]),
           rows[i].user = rows[j].user, rows[i].game = rows[j].game
    PROVE  rows[i].type # rows[j].type /\ {rows[i].type, rows[j].type} # Reactions
<1>1. rows[i].type # "viewed" /\ rows[j].type # "viewed"
  BY LedgerFacts DEF IsCurrent
<1>2. SupersededAt(i) = Current /\ SupersededAt(j) = Current
  BY <1>1, LedgerFacts DEF IsCurrent
<1>3. NewerOf(i) = {} /\ NewerOf(j) = {}
  BY <1>2, SupersessionFacts
<1>4. ~SameState(rows[i], rows[j])
  <2>1. ~(SameState(rows[i], rows[j]) /\ Newer(i, j)) /\ ~(SameState(rows[j], rows[i]) /\ Newer(j, i))
    BY <1>3 DEF NewerOf
  <2>2. SameState(rows[i], rows[j]) => SameState(rows[j], rows[i])
    BY DEF SameState
  <2> QED
    BY <2>1, <2>2, RowsAreOrdered
<1>5. StateOf(rows[i]) # StateOf(rows[j])
  BY <1>4 DEF SameState
<1> QED
  BY <1>5 DEF StateOf, Reactions

\* What an upgrade makes of the data fits what its revision constrains.
LEMMA UpgradesFit ==
    ASSUME Inv, revision < HeadRevision
    PROVE  Constrained(revision + 1, Upgraded(revision + 1))
<1>1. revision \in {2, 3, 4}
  BY DEF Inv, TypeOK, BaseRevision, HeadRevision
<1>2. CASE revision = 2
  <2>1. \A u \in Users : \/ Upgraded(3).users[u] = Absent
                         \/ Upgraded(3).users[u].consent \/ Upgraded(3).users[u].revoked
    BY UpgradedTo DEF Legacy
  <2> QED
    BY <1>2, <2>1 DEF Constrained
<1>3. CASE revision = 3
  <2>1. Upgraded(4).rows = Ledger /\ revision < 4 /\ TypeOK /\ RowsAreDated
    BY <1>3, UpgradedTo DEF Inv
  <2>2. \A row \in {Ledger[j] : j \in DOMAIN Ledger} :
           row.superseded # Current => row.superseded >= row.occurred
    <3> SUFFICES ASSUME NEW j \in DOMAIN rows, Ledger[j].superseded # Current
                 PROVE  Ledger[j].superseded >= Ledger[j].occurred
      BY <2>1, LedgerFacts
    <3> QED
      BY <2>1, LedgerFacts, SupersessionFacts, RowFacts
  <2>3. \A i, j \in DOMAIN Ledger :
           (/\ i # j /\ IsCurrent(Ledger[i]) /\ IsCurrent(Ledger[j])
            /\ Ledger[i].user = Ledger[j].user /\ Ledger[i].game = Ledger[j].game)
           => Ledger[i].type # Ledger[j].type /\ {Ledger[i].type, Ledger[j].type} # Reactions
    BY <2>1, LedgerFacts, LedgerIsUnique
  <2> HIDE DEF Ledger
  <2>4. Constrained(4, Upgraded(4))
    BY <2>1, <2>2, <2>3 DEF Constrained
  <2> QED
    BY <1>3, <2>4
<1>4. CASE revision = 4
  <2>1. \A e \in DOMAIN Upgraded(5).events :
           Upgraded(5).events[e].identity = (Upgraded(5).events[e].schema = "stage-4-v1")
    <3>1. \A e \in DOMAIN events : /\ Upgraded(5).events[e].identity = FALSE
                                   /\ Upgraded(5).events[e].schema # "stage-4-v1"
      BY UpgradedTo
    <3>2. DOMAIN Upgraded(5).events = DOMAIN events
      BY UpgradedTo
    <3> QED
      BY <3>1, <3>2, Zenon
  <2> QED
    BY <1>4, <2>1 DEF Constrained
<1> QED
  BY <1>1, <1>2, <1>3, <1>4
-----------------------------------------------------------------------------
LEMMA InitInv == Init => Inv
<1> SUFFICES ASSUME Init PROVE Inv
  OBVIOUS
<1>1. TypeOK
  BY MigrationAssumption DEF Init, TypeOK, BaseRevision, HeadRevision
<1>2. RowsAreDated /\ HistoryHasNoOverlap
  BY DEF Init, RowsAreDated, HistoryHasNoOverlap
<1> QED
  BY <1>1, <1>2 DEF Inv

\* Steps that leave the rows, and do not pass revision 0004.
LEMMA RowsStay ==
    ASSUME Inv, rows' = rows, now' \in Nat, now <= now', revision >= 4 <=> revision' >= 4
    PROVE  RowsAreDated' /\ HistoryHasNoOverlap'
<1>1. RowsAreDated'
  <2> SUFFICES ASSUME NEW j \in DOMAIN rows
               PROVE  /\ rows[j].occurred <= now'
                      /\ rows[j].superseded # Current =>
                           /\ revision' >= 4 /\ rows[j].type # "viewed"
                           /\ rows[j].occurred <= rows[j].superseded
                           /\ rows[j].superseded <= now'
    BY DEF RowsAreDated
  <2>1. /\ rows[j].occurred <= now
        /\ rows[j].superseded # Current =>
             /\ revision >= 4 /\ rows[j].type # "viewed"
             /\ rows[j].occurred <= rows[j].superseded /\ rows[j].superseded <= now
    BY DEF Inv, RowsAreDated
  <2> QED
    BY <2>1, RowFacts DEF Inv
<1>2. HistoryHasNoOverlap'
  BY DEF Inv, HistoryHasNoOverlap, Newer, SameState, StateOf
<1> QED
  BY <1>1, <1>2

LEMMA CommitSets ==
    ASSUME NEW r, NEW u, NEW w, NEW e, Commit(r, [users |-> u, rows |-> w, events |-> e])
    PROVE  revision' = r /\ users' = u /\ rows' = w /\ events' = e /\ now' = now
BY DEF Commit

\* The rows of the ledger are a history.
LEMMA LedgerInv ==
    ASSUME Inv, revision < 4, rows' = Ledger, UNCHANGED now, revision' = 4
    PROVE  RowsAreDated' /\ HistoryHasNoOverlap'
<1> USE DEF Inv
<1>1. RowsAreDated'
  <2> SUFFICES ASSUME NEW j \in DOMAIN rows
               PROVE  /\ Ledger[j].occurred <= now
                      /\ Ledger[j].superseded # Current =>
                           /\ Ledger[j].type # "viewed"
                           /\ Ledger[j].occurred <= Ledger[j].superseded
                           /\ Ledger[j].superseded <= now
    BY LedgerFacts DEF RowsAreDated
  <2> QED
    BY LedgerFacts, SupersessionFacts DEF RowsAreDated
<1>2. HistoryHasNoOverlap'
  <2> SUFFICES ASSUME NEW i \in DOMAIN rows, NEW j \in DOMAIN rows, i # j,
                      SameState(Ledger[i], Ledger[j]), Ledger[i].type # "viewed", Newer(j, i)'
               PROVE  /\ Ledger[i].superseded # Current
                      /\ Ledger[i].occurred <= Ledger[i].superseded
                      /\ Ledger[i].superseded <= Ledger[j].occurred
    BY LedgerFacts DEF HistoryHasNoOverlap
  <2>1. SameState(rows[j], rows[i]) /\ Newer(j, i)
    BY LedgerFacts DEF SameState, StateOf, Newer
  <2>2. j \in NewerOf(i)
    BY <2>1 DEF NewerOf
  <2> QED
    BY <2>2, LedgerFacts, SupersessionFacts
<1> QED
  BY <1>1, <1>2

LEMMA UpgradeInv == ASSUME Inv, Upgrade PROVE Inv'
<1>1. revision \in {2, 3, 4} /\ users \in [Users -> UserRows \cup {Absent}]
      /\ events \in Seq(Events) /\ Len(rows) <= MaxRows /\ rows \in Seq(Interactions)
      /\ now \in 1..MaxTime
  BY DEF Inv, TypeOK, Upgrade, BaseRevision, HeadRevision
<1>2. Commit(revision + 1, Upgraded(revision + 1))
  BY UpgradesFit DEF Upgrade
<1>3. CASE revision = 2
  <2>1. /\ revision' = 3 /\ rows' = rows /\ events' = events /\ now' = now
        /\ users' = [u \in Users |-> IF users[u] = Absent THEN Absent ELSE Legacy(u)]
    BY <1>2, <1>3, UpgradedTo DEF Commit
  <2>2. TypeOK'
    BY <1>1, <2>1 DEF Inv, TypeOK, Legacy, UserRows, BaseRevision, HeadRevision
  <2> QED
    BY <1>3, <2>1, <2>2, RowsStay, RowFacts DEF Inv
<1>4. CASE revision = 3
  <2>1. /\ revision' = 4 /\ rows' = Ledger /\ users' = users /\ events' = events /\ now' = now
    BY <1>2, <1>4, UpgradedTo DEF Commit
  <2>2. TypeOK'
    BY <1>1, <1>4, <2>1, LedgerFacts DEF Inv, TypeOK, BaseRevision, HeadRevision
  <2> QED
    BY <1>4, <2>1, <2>2, LedgerInv DEF Inv
<1>5. CASE revision = 4
  <2> DEFINE e5 == [e \in DOMAIN events |-> [identity |-> FALSE, schema |-> "legacy-v1"]]
  <2>0. revision + 1 = 5
    BY <1>5
  <2>1. /\ revision' = 5 /\ rows' = rows /\ users' = users /\ now' = now /\ events' = e5
    <3>1. Commit(5, Upgraded(5))
      BY <1>2, <1>5, <2>0
    <3>2. Upgraded(5) = [users |-> users, rows |-> rows, events |-> e5]
      BY UpgradedTo
    <3> QED
      BY <3>1, <3>2, CommitSets
  <2>2. /\ e5 \in Seq(Events) /\ DOMAIN e5 = DOMAIN events
        /\ \A e \in DOMAIN events : e5[e].identity = FALSE /\ e5[e].schema # "stage-4-v1"
    <3>1. Len(events) \in Nat /\ DOMAIN events = 1..Len(events)
      BY <1>1
    <3>2. e5 \in [1..Len(events) -> Events]
      BY <3>1 DEF Events
    <3> QED
      BY <3>1, <3>2
  <2> HIDE DEF e5
  <2>3. \A e \in DOMAIN events' : events'[e].identity <=> events'[e].schema = "stage-4-v1"
    BY <2>1, <2>2, Zenon
  <2>4. TypeOK'
    BY <1>1, <2>1, <2>2, <2>3 DEF Inv, TypeOK, BaseRevision, HeadRevision
  <2> QED
    BY <1>5, <2>1, <2>4, RowsStay, RowFacts DEF Inv
<1> QED
  BY <1>1, <1>3, <1>4, <1>5

\* Without its column, no row of the history is superseded.
LEMMA UnsupersededFacts ==
    ASSUME TypeOK
    PROVE  /\ Unsuperseded \in Seq(Interactions) /\ Len(Unsuperseded) = Len(rows)
           /\ DOMAIN Unsuperseded = DOMAIN rows
           /\ \A j \in DOMAIN rows : /\ Unsuperseded[j].occurred = rows[j].occurred
                                     /\ Unsuperseded[j].superseded = Current
<1>1. \A j \in DOMAIN rows : /\ Unsuperseded[j] \in Interactions
                             /\ Unsuperseded[j].occurred = rows[j].occurred
                             /\ Unsuperseded[j].superseded = Current
  BY RowFacts DEF Unsuperseded, Interactions, Current
<1>2. Unsuperseded \in [1..Len(rows) -> Interactions] /\ Len(rows) \in Nat
  BY <1>1, RowFacts DEF Unsuperseded
<1> QED
  BY <1>1, <1>2, RowFacts

LEMMA DowngradeInv == ASSUME Inv, Downgrade PROVE Inv'
<1>1. revision \in {3, 4, 5} /\ users \in [Users -> UserRows \cup {Absent}]
      /\ events \in Seq(Events) /\ Len(rows) <= MaxRows /\ rows \in Seq(Interactions)
      /\ now \in 1..MaxTime
  BY DEF Inv, TypeOK, Downgrade, BaseRevision, HeadRevision
<1>2. Commit(revision - 1, Downgraded(revision))
  BY DEF Downgrade
<1>3. CASE revision = 3
  <2>0. revision - 1 = 2
    BY <1>3
  <2>1. /\ revision' = 2 /\ rows' = rows /\ events' = events /\ now' = now
        /\ users' = [u \in Users |-> IF users[u] = Absent THEN Absent
                                     ELSE [consent |-> FALSE, revoked |-> FALSE]]
    <3>1. Commit(2, Downgraded(3))
      BY <1>2, <1>3, <2>0
    <3>2. Downgraded(3) = [users |-> [u \in Users |-> IF users[u] = Absent THEN Absent
                                                  ELSE [consent |-> FALSE, revoked |-> FALSE]],
                         rows |-> rows, events |-> events]
      BY DowngradedFrom
    <3> QED
      BY <3>1, <3>2, CommitSets
  <2>2. TypeOK'
    BY <1>1, <2>1 DEF Inv, TypeOK, UserRows, BaseRevision, HeadRevision
  <2> QED
    BY <1>3, <2>1, <2>2, RowsStay, RowFacts DEF Inv
<1>4. CASE revision = 4
  <2>1. /\ revision' = 3 /\ rows' = Unsuperseded /\ users' = users /\ events' = events /\ now' = now
    BY <1>2, <1>4, DowngradedFrom DEF Commit
  <2>2. TypeOK'
    BY <1>1, <2>1, UnsupersededFacts DEF Inv, TypeOK, BaseRevision, HeadRevision
  <2>3. RowsAreDated'
    BY <2>1, UnsupersededFacts DEF Inv, RowsAreDated
  <2>4. HistoryHasNoOverlap'
    BY <2>1 DEF HistoryHasNoOverlap
  <2> QED
    BY <2>2, <2>3, <2>4 DEF Inv
<1>5. CASE revision = 5
  <2> DEFINE e5 == [e \in DOMAIN events |-> [identity |-> FALSE, schema |-> "none"]]
  <2>0. revision - 1 = 4
    BY <1>5
  <2>1. /\ revision' = 4 /\ rows' = rows /\ users' = users /\ now' = now /\ events' = e5
    <3>1. Commit(4, Downgraded(5))
      BY <1>2, <1>5, <2>0
    <3>2. Downgraded(5) = [users |-> users, rows |-> rows, events |-> e5]
      BY DowngradedFrom
    <3> QED
      BY <3>1, <3>2, CommitSets
  <2>2. /\ e5 \in Seq(Events) /\ DOMAIN e5 = DOMAIN events
        /\ \A e \in DOMAIN events : e5[e].identity = FALSE /\ e5[e].schema # "stage-4-v1"
    <3>1. Len(events) \in Nat /\ DOMAIN events = 1..Len(events)
      BY <1>1
    <3>2. e5 \in [1..Len(events) -> Events]
      BY <3>1 DEF Events
    <3> QED
      BY <3>1, <3>2
  <2> HIDE DEF e5
  <2>3. \A e \in DOMAIN events' : events'[e].identity <=> events'[e].schema = "stage-4-v1"
    BY <2>1, <2>2, Zenon
  <2>4. TypeOK'
    BY <1>1, <2>1, <2>2, <2>3 DEF Inv, TypeOK, BaseRevision, HeadRevision
  <2> QED
    BY <1>5, <2>1, <2>4, RowsStay, RowFacts DEF Inv
<1> QED
  BY <1>1, <1>3, <1>4, <1>5
-----------------------------------------------------------------------------
\* Steps that leave the schema and the rows.
LEMMA QuietInv ==
    ASSUME Inv, UNCHANGED <<revision, rows, now>>,
           users' \in [Users -> UserRows \cup {Absent}], events' \in Seq(Events),
           \A e \in DOMAIN events' : events'[e].identity <=> events'[e].schema = "stage-4-v1"
    PROVE  Inv'
<1>1. TypeOK'
  BY DEF Inv, TypeOK
<1>2. RowsAreDated' /\ HistoryHasNoOverlap'
  BY RowsStay, RowFacts DEF Inv
<1> QED
  BY <1>1, <1>2 DEF Inv

LEMMA TickInv == ASSUME Inv, Tick PROVE Inv'
<1>1. now' \in 1..MaxTime /\ now <= now' /\ now' \in Nat
  BY RowFacts DEF Tick, Inv, TypeOK
<1>2. TypeOK'
  BY <1>1 DEF Inv, TypeOK, Tick
<1>3. RowsAreDated' /\ HistoryHasNoOverlap'
  BY <1>1, RowsStay DEF Tick
<1> QED
  BY <1>2, <1>3 DEF Inv

LEMMA UsersInv ==
    ASSUME Inv, NEW u \in Users, LegacyUser(u) \/ Consent(u)
    PROVE  Inv'
<1>1. PICK row \in UserRows : Data([users EXCEPT ![u] = row], rows, events)
  BY DEF LegacyUser, Consent, UserRows
<1>2. users' \in [Users -> UserRows \cup {Absent}]
  BY <1>1 DEF Data, Inv, TypeOK
<1> QED
  BY <1>1, <1>2, QuietInv DEF Data, Inv, TypeOK

LEMMA EventsInv ==
    ASSUME Inv, NEW u \in Users, LegacyEvent(u) \/ Generate(u)
    PROVE  Inv'
<1>1. PICK e \in Events : /\ Data(users, rows, Append(events, e))
                          /\ e.identity <=> e.schema = "stage-4-v1"
  <2>1. CASE LegacyEvent(u)
    <3> DEFINE e == [identity |-> FALSE, schema |-> "none"]
    <3>1. e \in Events /\ e.identity = FALSE /\ e.schema # "stage-4-v1"
      BY DEF Events
    <3>2. Data(users, rows, Append(events, e))
      BY <2>1 DEF LegacyEvent
    <3> HIDE DEF e
    <3> QED
      BY <3>1, <3>2, Zenon
  <2>2. CASE Generate(u)
    <3> DEFINE e == [identity |-> TRUE, schema |-> "stage-4-v1"]
    <3>1. e \in Events /\ e.identity = TRUE /\ e.schema = "stage-4-v1"
      BY DEF Events
    <3>2. Data(users, rows, Append(events, e))
      BY <2>2 DEF Generate
    <3> HIDE DEF e
    <3> QED
      BY <3>1, <3>2, Zenon
  <2> QED
    BY <2>1, <2>2
<1>2. events \in Seq(Events) /\ UNCHANGED <<users, revision, rows, now>> /\ events' = Append(events, e)
  BY <1>1 DEF Data, Inv, TypeOK
<1>3. /\ events' \in Seq(Events) /\ DOMAIN events' = 1..(Len(events) + 1) /\ Len(events) \in Nat
      /\ DOMAIN events = 1..Len(events)
      /\ \A i \in 1..Len(events) : events'[i] = events[i]
      /\ events'[Len(events) + 1] = e
  BY <1>2
<1>4. \A i \in DOMAIN events : events[i].identity <=> events[i].schema = "stage-4-v1"
  BY DEF Inv, TypeOK
<1>5. \A i \in DOMAIN events' : i = Len(events) + 1 \/ i \in DOMAIN events
  BY <1>3
<1>6. \A i \in DOMAIN events' : events'[i].identity <=> events'[i].schema = "stage-4-v1"
  BY <1>1, <1>3, <1>4, <1>5, Zenon
<1>7. users' \in [Users -> UserRows \cup {Absent}]
  BY <1>2 DEF Inv, TypeOK
<1> QED
  BY <1>2, <1>3, <1>6, <1>7, QuietInv

LEMMA LegacyRowInv == ASSUME Inv, NEW u \in Users, LegacyRow(u) PROVE Inv'
<1>1. PICK row \in Interactions : /\ Data(users, Append(rows, row), events)
                                  /\ row.occurred \in 1..now /\ row.superseded = Current
  <2>1. PICK g \in Games, type \in Types, at \in 1..now :
          Data(users, Append(rows, [user |-> u, game |-> g, type |-> type,
                                    occurred |-> at, superseded |-> Current]), events)
    BY DEF LegacyRow
  <2> DEFINE row == [user |-> u, game |-> g, type |-> type, occurred |-> at, superseded |-> Current]
  <2>2. at \in 1..MaxTime
    BY RowFacts DEF Inv
  <2>3. row \in Interactions
    BY <2>2, MigrationAssumption DEF Interactions, Current
  <2> QED
    BY <2>1, <2>3
<1>2. revision < 4 /\ Len(rows) < MaxRows /\ rows \in Seq(Interactions) /\ MaxRows \in Nat
      /\ UNCHANGED <<users, events, revision, now>> /\ rows' = Append(rows, row)
  BY <1>1, MigrationAssumption DEF LegacyRow, Data, Inv, TypeOK
<1>3. /\ rows' \in Seq(Interactions) /\ Len(rows') = Len(rows) + 1 /\ Len(rows) \in Nat
      /\ DOMAIN rows' = 1..(Len(rows) + 1) /\ DOMAIN rows = 1..Len(rows)
      /\ \A i \in 1..Len(rows) : rows'[i] = rows[i]
      /\ rows'[Len(rows) + 1] = row
  BY <1>2
<1>4. TypeOK'
  BY <1>2, <1>3 DEF Inv, TypeOK
<1>5. RowsAreDated'
  <2>1. ASSUME NEW i \in DOMAIN rows'
        PROVE  rows'[i].occurred <= now /\ rows'[i].superseded = Current
    <3>1. i = Len(rows) + 1 \/ i \in DOMAIN rows
      BY <1>3
    <3> QED
      BY <1>1, <1>2, <1>3, <3>1, RowFacts DEF Inv, RowsAreDated, TypeOK
  <2> QED
    BY <1>2, <2>1 DEF RowsAreDated
<1>6. HistoryHasNoOverlap'
  BY <1>2, RowFacts DEF HistoryHasNoOverlap, Inv, TypeOK, BaseRevision, HeadRevision
<1> QED
  BY <1>4, <1>5, <1>6 DEF Inv

\* What PUT feedback of one game writes.
LEMMA FewTypes ==
    ASSUME NEW S \in SUBSET {"liked", "disliked", "played"}
    PROVE  IsFiniteSet(S) /\ Cardinality(S) \in Nat
<1>1. IsFiniteSet({} \cup {"liked"} \cup {"disliked"} \cup {"played"})
  BY FS_EmptySet, FS_AddElement
<1>2. S \in SUBSET ({} \cup {"liked"} \cup {"disliked"} \cup {"played"})
  OBVIOUS
<1>3. IsFiniteSet(S)
  BY <1>1, <1>2, FS_Subset
<1> QED
  BY <1>3, FS_CardinalityType

\* A function on the first n numbers is a sequence.
LEMMA FunctionIsSequence ==
    ASSUME NEW S, NEW n \in Nat, NEW f \in [1..n -> S]
    PROVE  f \in Seq(S) /\ Len(f) = n /\ DOMAIN f = 1..n
OBVIOUS

\* The rows after a PUT of a game: those of the others as they were, the ones
\* it replaces superseded now, and a row of now for each of the n new types.
AreSaved(saved, u, g, desired, n, order) ==
    /\ saved \in Seq(Interactions) /\ Len(saved) = Len(rows) + n
    /\ \A j \in DOMAIN saved : j \in DOMAIN rows \/ j - Len(rows) \in 1..n
    /\ \A j \in DOMAIN rows :
          /\ saved[j].user = rows[j].user /\ saved[j].game = rows[j].game
          /\ saved[j].type = rows[j].type /\ saved[j].occurred = rows[j].occurred
          /\ saved[j].superseded = IF j \in Held(u, g) /\ rows[j].type \notin desired
                                   THEN now ELSE rows[j].superseded
    /\ \A i \in 1..n :
          /\ saved[Len(rows) + i].user = u /\ saved[Len(rows) + i].game = g
          /\ saved[Len(rows) + i].type = order[i] /\ saved[Len(rows) + i].occurred = now
          /\ saved[Len(rows) + i].superseded = Current

LEMMA SavedRows ==
    ASSUME TypeOK, NEW u \in Users, NEW g \in Games,
           NEW desired \in SUBSET {"liked", "disliked", "played"},
           NEW n \in Nat, NEW new \in SUBSET desired, NEW order \in [1..n -> new]
    PROVE  AreSaved(Superseded(u, g, desired) \o Inserted(u, g, order), u, g, desired, n, order)
<1> DEFINE S == Superseded(u, g, desired)
           I == Inserted(u, g, order)
           saved == S \o I
<1>1. now \in 1..MaxTime /\ now \in 0..MaxTime
  BY MigrationAssumption DEF TypeOK
<1>2. ASSUME NEW j \in DOMAIN rows
      PROVE  /\ S[j] \in Interactions
             /\ S[j].user = rows[j].user /\ S[j].game = rows[j].game
             /\ S[j].type = rows[j].type /\ S[j].occurred = rows[j].occurred
             /\ S[j].superseded = IF j \in Held(u, g) /\ rows[j].type \notin desired
                                  THEN now ELSE rows[j].superseded
  <2>1. rows[j] \in Interactions
    BY RowFacts
  <2>2. CASE j \in Held(u, g) /\ rows[j].type \notin desired
    <3>1. S[j] = [rows[j] EXCEPT !.superseded = now]
      BY <2>2 DEF Superseded
    <3> HIDE DEF S
    <3> QED
      BY <1>1, <2>1, <2>2, <3>1 DEF Interactions
  <2>3. CASE ~(j \in Held(u, g) /\ rows[j].type \notin desired)
    <3>1. S[j] = rows[j]
      BY <2>3 DEF Superseded
    <3> HIDE DEF S
    <3> QED
      BY <2>1, <2>3, <3>1
  <2> QED
    BY <2>2, <2>3
<1>3. ASSUME NEW i \in 1..n
      PROVE  /\ I[i] \in Interactions
             /\ I[i].user = u /\ I[i].game = g /\ I[i].type = order[i]
             /\ I[i].occurred = now /\ I[i].superseded = Current
  <2>1. order[i] \in Types /\ Current \in 0..MaxTime
    <3>1. order[i] \in {"liked", "disliked", "played"}
      OBVIOUS
    <3> QED
      BY <3>1, MigrationAssumption DEF Types, Reactions, Current
  <2>2. I[i] = [user |-> u, game |-> g, type |-> order[i], occurred |-> now, superseded |-> Current]
    BY DEF Inserted
  <2> HIDE DEF I
  <2> QED
    BY <1>1, <2>1, <2>2 DEF Interactions
<1>4. S \in [1..Len(rows) -> Interactions] /\ Len(rows) \in Nat /\ DOMAIN rows = 1..Len(rows)
  BY <1>2, RowFacts DEF Superseded
<1>5. I \in [1..n -> Interactions]
  BY <1>3 DEF Inserted
<1> HIDE DEF S, I, saved
<1>6. /\ S \in Seq(Interactions) /\ Len(S) = Len(rows) /\ DOMAIN S = 1..Len(rows)
      /\ I \in Seq(Interactions) /\ Len(I) = n /\ DOMAIN I = 1..n
  BY <1>4, <1>5, FunctionIsSequence
<1>7. saved = S \o I
  BY DEF saved
<1>8. /\ saved \in Seq(Interactions) /\ Len(saved) = Len(rows) + n
      /\ DOMAIN saved = 1..(Len(rows) + n)
      /\ \A j \in 1..Len(rows) : saved[j] = S[j]
      /\ \A i \in 1..n : saved[Len(rows) + i] = I[i]
  <2>1. /\ saved \in Seq(Interactions) /\ Len(saved) = Len(S) + Len(I)
        /\ \A i \in 1..(Len(S) + Len(I)) : saved[i] = IF i <= Len(S) THEN S[i] ELSE I[i - Len(S)]
    <3>1. /\ S \o I \in Seq(Interactions) /\ Len(S \o I) = Len(S) + Len(I)
          /\ \A i \in 1..(Len(S) + Len(I)) :
                (S \o I)[i] = IF i <= Len(S) THEN S[i] ELSE I[i - Len(S)]
      BY <1>6, ConcatProperties, Zenon
    <3> QED
      BY <1>7, <3>1, Zenon
  <2>2. DOMAIN saved = 1..(Len(rows) + n)
    BY <1>6, <2>1
  <2>3. ASSUME NEW j \in 1..Len(rows) PROVE saved[j] = S[j]
    BY <1>4, <1>6, <2>1
  <2>4. ASSUME NEW i \in 1..n PROVE saved[Len(rows) + i] = I[i]
    <3>1. Len(rows) + i \in 1..(Len(rows) + n) /\ ~(Len(rows) + i <= Len(rows))
          /\ (Len(rows) + i) - Len(rows) = i
      BY <1>4
    <3> QED
      BY <1>6, <2>1, <3>1
  <2> QED
    BY <1>6, <2>1, <2>2, <2>3, <2>4
<1>9. \A j \in DOMAIN saved : j \in DOMAIN rows \/ j - Len(rows) \in 1..n
  BY <1>4, <1>8
<1>10. ASSUME NEW j \in DOMAIN rows
       PROVE  saved[j] = S[j]
  BY <1>4, <1>8
<1>11. ASSUME NEW i \in 1..n
       PROVE  saved[Len(rows) + i] = I[i]
  BY <1>8
<1>12. \A j \in DOMAIN rows :
         /\ saved[j].user = rows[j].user /\ saved[j].game = rows[j].game
         /\ saved[j].type = rows[j].type /\ saved[j].occurred = rows[j].occurred
         /\ saved[j].superseded = IF j \in Held(u, g) /\ rows[j].type \notin desired
                                  THEN now ELSE rows[j].superseded
  BY <1>2, <1>10
<1>13. \A i \in 1..n :
         /\ saved[Len(rows) + i].user = u /\ saved[Len(rows) + i].game = g
         /\ saved[Len(rows) + i].type = order[i] /\ saved[Len(rows) + i].occurred = now
         /\ saved[Len(rows) + i].superseded = Current
  BY <1>3, <1>11
<1> QED
  BY <1>8, <1>9, <1>12, <1>13 DEF AreSaved, saved, S, I

\* Two types of one state are the two reactions.
LEMMA OneState ==
    ASSUME NEW r, NEW s, StateOf(r) = StateOf(s), r.type # s.type,
           r.type \in {"liked", "disliked", "played"}, s.type \in {"liked", "disliked", "played"}
    PROVE  {r.type, s.type} = Reactions
BY DEF StateOf, Reactions

\* A current row of the state of a new type is replaced.
LEMMA CurrentRowsGiveWay ==
    ASSUME Inv, NEW u \in Users, NEW g \in Games,
           NEW desired \in SUBSET {"liked", "disliked", "played"}, ~(Reactions \subseteq desired),
           NEW j \in DOMAIN rows, rows[j].user = u, rows[j].game = g, IsCurrent(rows[j]),
           NEW r, r.type \in desired \ {rows[k].type : k \in Held(u, g)},
           StateOf(rows[j]) = StateOf(r)
    PROVE  j \in Held(u, g) /\ rows[j].type \notin desired
<1>1. j \in Held(u, g)
  BY DEF Held
<1>2. ASSUME rows[j].type \in desired PROVE FALSE
  <2>1. rows[j].type # r.type
    BY <1>1
  <2>2. {rows[j].type, r.type} = Reactions
    BY <1>2, <2>1, OneState
  <2> QED
    BY <1>2, <2>2
<1> QED
  BY <1>1, <1>2

LEMMA SaveFeedbackInv == ASSUME Inv, NEW u \in Users, SaveFeedback(u) PROVE Inv'
<1>1. PICK g \in Games, desired \in SUBSET {"liked", "disliked", "played"} :
        LET new == desired \ {rows[j].type : j \in Held(u, g)}
        IN  /\ ~(Reactions \subseteq desired)
            /\ Len(rows) + Cardinality(new) <= MaxRows
            /\ \E order \in Bijection(1..Cardinality(new), new) :
                  Data(users, Superseded(u, g, desired) \o Inserted(u, g, order), events)
  BY DEF SaveFeedback
<1> DEFINE new == desired \ {rows[j].type : j \in Held(u, g)}
           n == Cardinality(new)
           L == Len(rows)
<1>2. PICK order \in Bijection(1..n, new) :
        Data(users, Superseded(u, g, desired) \o Inserted(u, g, order), events)
  BY <1>1
<1>3. new \in SUBSET desired /\ n \in Nat /\ ~(Reactions \subseteq desired) /\ L + n <= MaxRows
  BY <1>1, FewTypes
<1>4. order \in [1..n -> new] /\ \A i, k \in 1..n : order[i] = order[k] => i = k
  BY <1>2 DEF Bijection, Injection, IsInjective
<1>5. \A i \in 1..n : order[i] \in new /\ order[i] \in {"liked", "disliked", "played"}
  BY <1>3, <1>4
<1>6. revision >= 4 /\ UNCHANGED <<users, events, revision, now>>
      /\ rows' = Superseded(u, g, desired) \o Inserted(u, g, order)
  BY <1>2 DEF SaveFeedback, Data
<1> HIDE DEF n, new
<1>7. /\ rows' \in Seq(Interactions) /\ Len(rows') = L + n
      /\ \A j \in DOMAIN rows' : j \in DOMAIN rows \/ j - L \in 1..n
      /\ \A j \in DOMAIN rows :
            /\ rows'[j].user = rows[j].user /\ rows'[j].game = rows[j].game
            /\ rows'[j].type = rows[j].type /\ rows'[j].occurred = rows[j].occurred
            /\ rows'[j].superseded = IF j \in Held(u, g) /\ rows[j].type \notin desired
                                     THEN now ELSE rows[j].superseded
      /\ \A i \in 1..n :
            /\ rows'[L + i].user = u /\ rows'[L + i].game = g
            /\ rows'[L + i].type = order[i] /\ rows'[L + i].occurred = now
            /\ rows'[L + i].superseded = Current
  <2>1. TypeOK
    BY DEF Inv
  <2>2. AreSaved(Superseded(u, g, desired) \o Inserted(u, g, order), u, g, desired, n, order)
    BY <1>3, <1>4, <2>1, SavedRows
  <2>3. AreSaved(rows', u, g, desired, n, order)
    BY <1>6, <2>2
  <2> QED
    BY <2>3 DEF AreSaved
<1>8. L \in Nat /\ DOMAIN rows = 1..L /\ DOMAIN rows' = 1..(L + n) /\ now \in Nat /\ now >= 1
  BY <1>7, RowFacts DEF Inv, TypeOK
<1>9. \A j \in DOMAIN rows' : j \in DOMAIN rows \/ \E i \in 1..n : j = L + i
  BY <1>3, <1>7, <1>8
<1> HIDE DEF L
<1>10. TypeOK'
  BY <1>3, <1>6, <1>7 DEF Inv, TypeOK
<1>11. \A j \in DOMAIN rows :
          /\ rows[j].occurred <= now
          /\ rows[j].superseded # Current =>
               /\ rows[j].type # "viewed" /\ rows[j].occurred <= rows[j].superseded
               /\ rows[j].superseded <= now
  BY DEF Inv, RowsAreDated
<1>12. RowsAreDated'
  <2> SUFFICES ASSUME NEW j \in DOMAIN rows'
               PROVE  /\ rows'[j].occurred <= now
                      /\ rows'[j].superseded # Current =>
                           /\ rows'[j].type # "viewed"
                           /\ rows'[j].occurred <= rows'[j].superseded
                           /\ rows'[j].superseded <= now
    BY <1>6 DEF RowsAreDated
  <2>1. CASE j \in DOMAIN rows
    <3>1. j \in Held(u, g) => rows[j].type # "viewed"
      BY DEF Held, IsCurrent
    <3> QED
      BY <1>7, <1>8, <1>11, <2>1, <3>1
  <2>2. CASE \E i \in 1..n : j = L + i
    BY <1>7, <1>8, <2>2
  <2> QED
    BY <1>9, <2>1, <2>2
<1>13. HistoryHasNoOverlap'
  <2> SUFFICES ASSUME NEW i \in DOMAIN rows', NEW j \in DOMAIN rows', i # j,
                      SameState(rows'[i], rows'[j]), rows'[i].type # "viewed", Newer(j, i)'
               PROVE  /\ rows'[i].superseded # Current
                      /\ rows'[i].occurred <= rows'[i].superseded
                      /\ rows'[i].superseded <= rows'[j].occurred
    BY DEF HistoryHasNoOverlap
  <2>1. CASE i \in DOMAIN rows /\ j \in DOMAIN rows
    <3>1. SameState(rows[i], rows[j]) /\ Newer(j, i) /\ rows[i].type # "viewed"
      BY <1>7, <2>1 DEF SameState, StateOf, Newer
    <3>2. /\ rows[i].superseded # Current /\ rows[i].occurred <= rows[i].superseded
          /\ rows[i].superseded <= rows[j].occurred
      BY <1>6, <2>1, <3>1 DEF Inv, HistoryHasNoOverlap
    <3>3. i \notin Held(u, g)
      BY <3>2 DEF Held, IsCurrent
    <3> QED
      BY <1>7, <2>1, <3>2, <3>3
  <2>2. ASSUME i \in DOMAIN rows, NEW k \in 1..n, j = L + k
        PROVE  /\ rows'[i].superseded # Current
               /\ rows'[i].occurred <= rows'[i].superseded
               /\ rows'[i].superseded <= rows'[j].occurred
    <3>1. rows[i].user = u /\ rows[i].game = g /\ StateOf(rows[i]) = StateOf(rows'[j])
          /\ rows[i].type # "viewed"
      BY <1>7, <2>2 DEF SameState, StateOf
    <3>2. CASE rows[i].superseded = Current
      <4>1. rows'[j].type \in new
        BY <1>5, <1>7, <2>2
      <4>2. i \in Held(u, g) /\ rows[i].type \notin desired
        BY <1>3, <2>2, <3>1, <3>2, <4>1, CurrentRowsGiveWay DEF IsCurrent, new
      <4> QED
        BY <1>7, <1>8, <1>11, <2>2, <4>2 DEF Current
    <3>3. CASE rows[i].superseded # Current
      <4>1. i \notin Held(u, g)
        BY <3>3 DEF Held, IsCurrent
      <4> QED
        BY <1>7, <1>11, <2>2, <3>3, <4>1
    <3> QED
      BY <3>2, <3>3
  <2>3. ASSUME NEW k \in 1..n, i = L + k, j \in DOMAIN rows PROVE FALSE
    <3>1. rows'[i].occurred = now /\ rows'[j].occurred <= now /\ rows'[j].occurred \in Nat
      BY <1>7, <1>11, <2>3, RowFacts DEF Inv
    <3>2. ~(j > i) /\ ~(rows'[j].occurred > now)
      BY <1>8, <2>3, <3>1
    <3> QED
      BY <3>1, <3>2 DEF Newer
  <2>4. ASSUME NEW k \in 1..n, i = L + k, NEW m \in 1..n, j = L + m PROVE FALSE
    <3>1. order[k] # order[m] /\ rows'[i].type = order[k] /\ rows'[j].type = order[m]
      BY <1>4, <1>7, <2>4
    <3>2. StateOf(rows'[i]) = StateOf(rows'[j])
      BY DEF SameState
    <3>3. {rows'[i].type, rows'[j].type} = Reactions
      BY <1>5, <3>1, <3>2, OneState
    <3> QED
      BY <1>3, <1>5, <3>1, <3>3
  <2> QED
    BY <1>9, <2>1, <2>2, <2>3, <2>4
<1> QED
  BY <1>10, <1>12, <1>13 DEF Inv

LEMMA NextInv == Inv /\ [Next]_vars => Inv'
<1> SUFFICES ASSUME Inv, [Next]_vars PROVE Inv'
  OBVIOUS
<1>1. CASE Upgrade \/ Downgrade \/ Tick
  BY <1>1, UpgradeInv, DowngradeInv, TickInv
<1>2. ASSUME NEW u \in Users, LegacyUser(u) \/ LegacyRow(u) \/ LegacyEvent(u)
                              \/ Consent(u) \/ SaveFeedback(u) \/ Generate(u)
      PROVE  Inv'
  BY <1>2, UsersInv, EventsInv, LegacyRowInv, SaveFeedbackInv
<1>3. CASE UNCHANGED vars
  BY <1>3, QuietInv DEF vars, Inv, TypeOK
<1> QED
  BY <1>1, <1>2, <1>3 DEF Next

\* Whatever revisions a populated database passes through, forwards and back,
\* the rows of a state are a history without overlap wherever it has a ledger.
THEOREM InvHolds == Spec => []Inv
<1> QED
  BY InitInv, NextInv, PTL DEF Spec
-----------------------------------------------------------------------------
\* No upgrade stops at a constraint or unique index that it creates, whatever
\* legacy rows and rows of the application it finds.
THEOREM UpgradesNeverFail == Spec => []UpgradesSucceed
<1>1. Init => UpgradesSucceed
  BY DEF Init, UpgradesSucceed
<1>2. Inv /\ UpgradesSucceed /\ [Next]_vars => UpgradesSucceed'
  <2> SUFFICES ASSUME Inv, UpgradesSucceed, [Next]_vars PROVE failed' = failed
    BY DEF UpgradesSucceed
  <2>1. CASE Upgrade
    BY <2>1, UpgradesFit DEF Upgrade, Commit
  <2>2. CASE ~Upgrade
    BY <2>2 DEF Next, vars, Downgrade, Commit, Tick, Data, LegacyUser, LegacyRow, LegacyEvent,
                Consent, SaveFeedback, Generate
  <2> QED
    BY <2>1, <2>2
<1> QED
  BY <1>1, <1>2, InvHolds, PTL DEF Spec

\* A step that changes the revision is a migration.
LEMMA OnlyMigrations ==
    ASSUME [Next]_vars, revision' # revision PROVE Upgrade \/ Downgrade
BY DEF Next, vars, Tick, Data, LegacyUser, LegacyRow, LegacyEvent, Consent, SaveFeedback, Generate

\* No migration deletes a row of the history or changes more of one than when
\* it was superseded, and the ledger keeps the last row of each state current.
THEOREM HistoryIsMigrated == Spec => MigrationsKeepHistory
<1> DEFINE A == revision' # revision =>
                  /\ DOMAIN rows' = DOMAIN rows
                  /\ \A j \in DOMAIN rows :
                        /\ [rows[j] EXCEPT !.superseded = 0] = [rows'[j] EXCEPT !.superseded = 0]
                        /\ revision' = 4 /\ revision = 3 /\ NewerOf(j) = {} =>
                             rows'[j].superseded = Current
<1>1. ASSUME Inv, [Next]_vars PROVE A
  <2> SUFFICES ASSUME revision' # revision PROVE A
    OBVIOUS
  <2>1. revision \in 2..5
    BY <1>1 DEF Inv, TypeOK, BaseRevision, HeadRevision
  <2>2. ASSUME rows' = rows, ~(revision = 3 /\ revision' = 4) PROVE A
    BY <2>2
  <2>3. CASE Upgrade
    <3>1. Commit(revision + 1, Upgraded(revision + 1))
      BY <1>1, <2>3, UpgradesFit DEF Upgrade
    <3>2. CASE revision = 3
      <4>1. Commit(4, Upgraded(4))
        BY <3>1, <3>2
      <4>2. revision' = 4 /\ rows' = Ledger
        BY <4>1, UpgradedTo DEF Commit
      <4>3. ASSUME NEW j \in DOMAIN rows
            PROVE  /\ [rows[j] EXCEPT !.superseded = 0] = [Ledger[j] EXCEPT !.superseded = 0]
                   /\ NewerOf(j) = {} => Ledger[j].superseded = Current
        <5>1. TypeOK /\ RowsAreDated /\ revision < 4
          BY <1>1, <3>2 DEF Inv
        <5>2. rows[j] \in Interactions /\ Ledger[j] \in Interactions
          BY <5>1, LedgerFacts, RowFacts
        <5>3. /\ Ledger[j].user = rows[j].user /\ Ledger[j].game = rows[j].game
              /\ Ledger[j].type = rows[j].type /\ Ledger[j].occurred = rows[j].occurred
          BY <5>1, LedgerFacts
        <5>4. [rows[j] EXCEPT !.superseded = 0] = [Ledger[j] EXCEPT !.superseded = 0]
          BY <5>2, <5>3 DEF Interactions
        <5>5. NewerOf(j) = {} => Ledger[j].superseded = Current
          BY <5>1, LedgerFacts, SupersessionFacts
        <5> QED
          BY <5>4, <5>5
      <4>4. DOMAIN Ledger = DOMAIN rows
        BY DEF Ledger
      <4> QED
        BY <4>2, <4>3, <4>4
    <3>3. CASE revision # 3
      <4>1. revision + 1 = 3 \/ revision + 1 = 5
        BY <2>1, <2>3, <3>3 DEF Upgrade, HeadRevision
      <4>2. rows' = rows
        BY <3>1, <4>1, UpgradedTo DEF Commit
      <4> QED
        BY <2>2, <3>3, <4>2
    <3> QED
      BY <3>2, <3>3
  <2>4. CASE Downgrade
    <3>1. Commit(revision - 1, Downgraded(revision)) /\ revision \in 3..5
      BY <2>1, <2>4 DEF Downgrade, BaseRevision
    <3>2. CASE revision = 4
      <4>1. Commit(3, Downgraded(4))
        BY <3>1, <3>2
      <4>2. revision' = 3 /\ rows' = Unsuperseded
        BY <4>1, DowngradedFrom DEF Commit
      <4>3. ASSUME NEW j \in DOMAIN rows
            PROVE  [rows[j] EXCEPT !.superseded = 0] = [Unsuperseded[j] EXCEPT !.superseded = 0]
        <5>1. rows[j] \in Interactions /\ Unsuperseded[j] = [rows[j] EXCEPT !.superseded = Current]
          BY <1>1, RowFacts DEF Inv, Unsuperseded
        <5> QED
          BY <5>1 DEF Interactions
      <4>4. DOMAIN Unsuperseded = DOMAIN rows
        BY DEF Unsuperseded
      <4> QED
        BY <4>2, <4>3, <4>4
    <3>3. CASE revision # 4
      <4>1. revision = 3 \/ revision = 5
        BY <3>1, <3>3
      <4>2. rows' = rows
        BY <3>1, <4>1, DowngradedFrom DEF Commit
      <4>3. ~(revision = 3 /\ revision' = 4)
        BY <3>1 DEF Commit
      <4> QED
        BY <2>2, <4>2, <4>3
    <3> QED
      BY <3>2, <3>3
  <2> QED
    BY <1>1, <2>3, <2>4, OnlyMigrations
<1>2. Inv /\ [Next]_vars => [A]_vars
  BY <1>1
<1> HIDE DEF A
<1>3. Spec => [][A]_vars
  BY <1>2, InvHolds, PTL DEF Spec
<1> QED
  BY <1>3 DEF A, MigrationsKeepHistory

\* Nobody gets a session but by consent to it: neither a migration nor a way
\* back and forth turns a stored identity into one that authenticates.
THEOREM NobodyInherits == Spec => NobodyInheritsASession
<1> DEFINE A == \A u \in Users : Authenticates(u)' => Authenticates(u) \/ users[u] = Absent
<1>1. ASSUME Inv, [Next]_vars PROVE A
  <2> SUFFICES ASSUME NEW u \in Users, Authenticates(u)', users[u] # Absent
               PROVE  Authenticates(u)
    OBVIOUS
  <2>1. users \in [Users -> UserRows \cup {Absent}] /\ revision \in 2..5
    BY <1>1 DEF Inv, TypeOK, BaseRevision, HeadRevision
  <2>2. CASE revision' = revision
    <3>1. users'[u] = users[u]
      <4>1. CASE Upgrade \/ Downgrade
        BY <2>1, <2>2, <4>1 DEF Upgrade, Downgrade, Commit, HeadRevision, BaseRevision
      <4>2. CASE ~(Upgrade \/ Downgrade)
        BY <1>1, <2>1, <4>2 DEF Next, vars, Tick, Data, LegacyUser, LegacyRow, LegacyEvent,
                                Consent, SaveFeedback, Generate
      <4> QED
        BY <4>1, <4>2
    <3> QED
      BY <2>2, <3>1 DEF Authenticates
  <2>3. CASE Upgrade /\ revision' # revision
    <3>1. Commit(revision + 1, Upgraded(revision + 1))
      BY <1>1, <2>3, UpgradesFit DEF Upgrade
    <3>2. CASE revision = 2
      <4>1. Commit(3, Upgraded(3))
        BY <3>1, <3>2
      <4>2. users'[u] = Legacy(u)
        BY <4>1, UpgradedTo DEF Commit
      <4> QED
        BY <4>2 DEF Legacy, Authenticates
    <3>3. CASE revision # 2
      <4>1. revision + 1 = 4 \/ revision + 1 = 5
        BY <2>1, <2>3, <3>3 DEF Upgrade, HeadRevision
      <4>2. users' = users /\ revision >= 3
        BY <2>1, <3>1, <3>3, <4>1, UpgradedTo DEF Commit
      <4> QED
        BY <4>2 DEF Authenticates
    <3> QED
      BY <3>2, <3>3
  <2>4. CASE Downgrade /\ revision' # revision
    <3>1. Commit(revision - 1, Downgraded(revision)) /\ revision \in 3..5
      BY <2>1, <2>4 DEF Downgrade, BaseRevision
    <3>2. revision' >= 3 /\ revision' = revision - 1
      BY <3>1 DEF Authenticates, Commit
    <3>3. revision = 4 \/ revision = 5
      BY <3>1, <3>2
    <3>4. users' = users
      BY <3>1, <3>3, DowngradedFrom DEF Commit
    <3> QED
      BY <3>1, <3>4 DEF Authenticates
  <2> QED
    BY <1>1, <2>2, <2>3, <2>4, OnlyMigrations
<1>2. Inv /\ [Next]_vars => [A]_vars
  BY <1>1
<1> HIDE DEF A
<1>3. Spec => [][A]_vars
  BY <1>2, InvHolds, PTL DEF Spec
<1> QED
  BY <1>3 DEF A, NobodyInheritsASession
=============================================================================
