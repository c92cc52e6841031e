-------------------------- MODULE SchemaMigrations --------------------------
(***************************************************************************)
(* The populated database under revisions 0003, 0004 and 0005, forwards    *)
(* and back, and the writes of the application in between.  Revision 0003  *)
(* makes every placeholder user a revoked one, 0004 turns the interactions *)
(* into a ledger in which at most one row of a state is current, and 0005  *)
(* gives events an identity.  A migration commits when the constraints     *)
(* that it creates hold, and else changes nothing.                         *)
(*                                                                         *)
(* One command runs its revisions in one transaction (alembic/env.py); an  *)
(* operator may ask for any number of them.  Here each is a step, with the *)
(* application between: a command that goes further does several at once.  *)
(* Two unique indexes and the format of digests are left out: 0003 and     *)
(* 0005 build the values they constrain from the primary keys.             *)
(*                                                                         *)
(* "played" stands for the three state types with one row each, "viewed"   *)
(* for the type that stays repeatable.  The value of a rating, preferences *)
(* and the catalog are left out, no revision here touches them.            *)
(***************************************************************************)
EXTENDS Naturals, Sequences, FiniteSets, Functions

CONSTANTS Users, Games, Absent, MaxRows, MaxEvents, MaxTime, MaxMigrations

ASSUME MigrationAssumption == 
    {MaxRows, MaxEvents, MaxMigrations} \subseteq Nat /\ MaxTime \in Nat \ {0}

HeadRevision == 5    \* EXPECTED_SCHEMA_REVISION, 0005
BaseRevision == 2    \* 0002, the schema before anonymous sessions
Current == 0         \* superseded_at IS NULL

Reactions == {"liked", "disliked"}
Types == Reactions \cup {"played", "viewed"}
UserRows == [consent : BOOLEAN, revoked : BOOLEAN]
Interactions == [user : Users, game : Games, type : Types,
                 occurred : 1..MaxTime, superseded : 0..MaxTime]
Events == [identity : BOOLEAN, schema : {"none", "legacy-v1", "stage-4-v1"}]

VARIABLES revision, users, rows, events, now, failed, migrations
vars == <<revision, users, rows, events, now, failed, migrations>>
-----------------------------------------------------------------------------
Mut_TypeIsState(row) == row.type

\* The state that a row is one value of: both reactions are one state.
StateOf(row) == IF row.type \in Reactions THEN "reaction" ELSE row.type

IsCurrent(row) == row.superseded = Current /\ row.type # "viewed"

SameState(r, s) == /\ r.user = s.user /\ r.game = s.game
                   /\ StateOf(r) = StateOf(s)

\* "ORDER BY occurred_at DESC, id DESC": row i is before row j.
Newer(i, j) == \/ rows[i].occurred > rows[j].occurred
               \/ rows[i].occurred = rows[j].occurred /\ i > j

NewerOf(j) == {i \in DOMAIN rows : SameState(rows[i], rows[j]) /\ Newer(i, j)}

Mut_SupersededNow(j) == IF NewerOf(j) = {} THEN Current ELSE now

\* lag(occurred_at): the time of the row just before it, none for the first.
SupersededAt(j) ==
    IF NewerOf(j) = {} THEN Current
    ELSE rows[CHOOSE i \in NewerOf(j) : \A k \in NewerOf(j) : k = i \/ Newer(k, i)].occurred

Mut_FabricateConsent(u) == [consent |-> TRUE, revoked |-> FALSE]

\* A legacy identity is revoked, without consent that nobody gave.
Legacy(u) == [consent |-> FALSE, revoked |-> TRUE]

Kept == [users |-> users, rows |-> rows, events |-> events]

\* The data after the upgrade to revision r.
Upgraded(r) ==
    CASE r = 3 -> [Kept EXCEPT !.users =
                     [u \in Users |-> IF users[u] = Absent THEN Absent ELSE Legacy(u)]]
      [] r = 4 -> [Kept EXCEPT !.rows =
                     [j \in DOMAIN rows |->
                        IF rows[j].type = "viewed" THEN rows[j]
                        ELSE [rows[j] EXCEPT !.superseded = SupersededAt(j)]]]
      [] r = 5 -> [Kept EXCEPT !.events =
                     [e \in DOMAIN events |-> [identity |-> FALSE, schema |-> "legacy-v1"]]]

Mut_DropsHistory(r) == IF r # 4 THEN Kept
                       ELSE [Kept EXCEPT !.rows = SelectSeq(rows, IsCurrent)]

\* The data after the downgrade from revision r: its columns are dropped.
Downgraded(r) ==
    CASE r = 3 -> [Kept EXCEPT !.users =
                     [u \in Users |-> IF users[u] = Absent THEN Absent
                                      ELSE [consent |-> FALSE, revoked |-> FALSE]]]
      [] r = 4 -> [Kept EXCEPT !.rows =
                     [j \in DOMAIN rows |-> [rows[j] EXCEPT !.superseded = Current]]]
      [] r = 5 -> [Kept EXCEPT !.events =
                     [e \in DOMAIN events |-> [identity |-> FALSE, schema |-> "none"]]]

\* What revision r constrains: the consent lifecycle, the ledger, the events.
Constrained(r, data) ==
    CASE r = 3 -> \A u \in Users : data.users[u] = Absent
                                   \/ data.users[u].consent \/ data.users[u].revoked
      [] r = 4 -> /\ \A row \in {data.rows[j] : j \in DOMAIN data.rows} :
                        row.superseded # Current => row.superseded >= row.occurred
                  /\ \A i, j \in DOMAIN data.rows :
                        (/\ i # j /\ IsCurrent(data.rows[i]) /\ IsCurrent(data.rows[j])
                         /\ data.rows[i].user = data.rows[j].user
                         /\ data.rows[i].game = data.rows[j].game)
                        => \/ data.rows[i].type # data.rows[j].type
                              /\ {data.rows[i].type, data.rows[j].type} # Reactions
      [] r = 5 -> \A e \in DOMAIN data.events :
                     data.events[e].identity = (data.events[e].schema = "stage-4-v1")
-----------------------------------------------------------------------------
Commit(r, data) ==
    /\ revision' = r
    /\ users' = data.users /\ rows' = data.rows /\ events' = data.events
    /\ migrations' = migrations + 1
    /\ UNCHANGED <<now, failed>>

Upgrade ==
    /\ revision < HeadRevision /\ migrations < MaxMigrations
    /\ IF Constrained(revision + 1, Upgraded(revision + 1))
         THEN Commit(revision + 1, Upgraded(revision + 1))
         ELSE failed' = TRUE /\ UNCHANGED <<revision, users, rows, events, now, migrations>>

Downgrade ==
    /\ revision > BaseRevision /\ migrations < MaxMigrations
    /\ Commit(revision - 1, Downgraded(revision))

Tick ==
    /\ now < MaxTime
    /\ now' = now + 1
    /\ UNCHANGED <<revision, users, rows, events, failed, migrations>>

Authenticates(u) == /\ revision >= 3 /\ users[u] # Absent
                    /\ users[u].consent /\ ~users[u].revoked

Data(u, r, e) == /\ users' = u /\ rows' = r /\ events' = e
                 /\ UNCHANGED <<revision, now, failed, migrations>>

\* Rows that a database of an earlier stage may hold.
LegacyUser(u) ==
    /\ revision = BaseRevision /\ users[u] = Absent
    /\ Data([users EXCEPT ![u] = [consent |-> FALSE, revoked |-> FALSE]], rows, events)

LegacyRow(u) ==
    /\ revision < 4 /\ users[u] # Absent /\ Len(rows) < MaxRows
    /\ \E g \in Games, type \in Types, at \in 1..now :
          Data(users, Append(rows, [user |-> u, game |-> g, type |-> type,
                                    occurred |-> at, superseded |-> Current]), events)

LegacyEvent(u) ==
    /\ revision < 5 /\ users[u] # Absent /\ Len(events) < MaxEvents
    /\ Data(users, rows, Append(events, [identity |-> FALSE, schema |-> "none"]))

\* The application, as far as the columns it writes exist.
Consent(u) ==
    /\ revision >= 3 /\ users[u] = Absent
    /\ Data([users EXCEPT ![u] = [consent |-> TRUE, revoked |-> FALSE]], rows, events)

\* active_rows of a game, and what becomes of them and is added.
Held(u, g) == {j \in DOMAIN rows : /\ IsCurrent(rows[j])
                                   /\ rows[j].user = u /\ rows[j].game = g}
Superseded(u, g, desired) ==
    [j \in DOMAIN rows |->
       IF j \in Held(u, g) /\ rows[j].type \notin desired
       THEN [rows[j] EXCEPT !.superseded = now] ELSE rows[j]]
Inserted(u, g, types) ==
    [i \in DOMAIN types |-> [user |-> u, game |-> g, type |-> types[i],
                             occurred |-> now, superseded |-> Current]]

\* replace_game_state: changed rows are superseded and new ones appended.
SaveFeedback(u) ==
    /\ revision >= 4 /\ Authenticates(u)
    /\ \E g \in Games, desired \in SUBSET {"liked", "disliked", "played"} :
          LET new == desired \ {rows[j].type : j \in Held(u, g)}
          IN  /\ ~(Reactions \subseteq desired)
              /\ Len(rows) + Cardinality(new) <= MaxRows
              /\ \E order \in Bijection(1..Cardinality(new), new) :
                    Data(users, Superseded(u, g, desired) \o Inserted(u, g, order), events)

Generate(u) ==
    /\ revision = HeadRevision /\ Authenticates(u) /\ Len(events) < MaxEvents
    /\ Data(users, rows, Append(events, [identity |-> TRUE, schema |-> "stage-4-v1"]))

Init ==
    /\ revision = BaseRevision
    /\ users = [u \in Users |-> Absent]
    /\ rows = <<>> /\ events = <<>>
    /\ now = 1 /\ failed = FALSE /\ migrations = 0

Next ==
    \/ Upgrade \/ Downgrade \/ Tick
    \/ \E u \in Users : \/ LegacyUser(u) \/ LegacyRow(u) \/ LegacyEvent(u)
                        \/ Consent(u) \/ SaveFeedback(u) \/ Generate(u)

Spec == Init /\ [][Next]_vars
-----------------------------------------------------------------------------
\* The variables have their types, and an event carries a model and policy
\* identity exactly when its schema is the one of stage 4.
TypeOK ==
    /\ revision \in BaseRevision..HeadRevision
    /\ users \in [Users -> UserRows \cup {Absent}]
    /\ rows \in Seq(Interactions) /\ Len(rows) <= MaxRows
    /\ events \in Seq(Events) /\ now \in 1..MaxTime
    /\ \A e \in DOMAIN events : events[e].identity <=> events[e].schema = "stage-4-v1"

\* No upgrade of a populated database ever stops at a constraint or a unique
\* index that it creates: the data it finds, legacy rows in any order or what
\* the application wrote before a downgrade, is brought into shape first.
UpgradesSucceed == ~failed

\* A row is not from the future; only the ledger supersedes rows, never before
\* their own time, and never the repeatable ones.
RowsAreDated ==
    \A j \in DOMAIN rows :
       /\ rows[j].occurred <= now
       /\ rows[j].superseded # Current =>
            /\ revision >= 4 /\ rows[j].type # "viewed"
            /\ rows[j].occurred <= rows[j].superseded /\ rows[j].superseded <= now

\* From revision 0004 on, the rows of one state are a history: each was
\* current from its own time until no later than the next one began.
HistoryHasNoOverlap ==
    revision >= 4 =>
      \A i, j \in DOMAIN rows :
         (i # j /\ SameState(rows[i], rows[j]) /\ rows[i].type # "viewed" /\ Newer(j, i)) =>
           /\ rows[i].superseded # Current
           /\ rows[i].occurred <= rows[i].superseded
           /\ rows[i].superseded <= rows[j].occurred

\* What every revision the database passes through can rely on.
Inv == TypeOK /\ RowsAreDated /\ HistoryHasNoOverlap

\* A migration deletes no row and rewrites none but its supersession, and the
\* upgrade to 0004 keeps the last row of every state current.
MigrationsKeepHistory ==
    [][revision' # revision =>
         /\ DOMAIN rows' = DOMAIN rows
         /\ \A j \in DOMAIN rows :
               /\ [rows[j] EXCEPT !.superseded = 0] = [rows'[j] EXCEPT !.superseded = 0]
               /\ revision' = 4 /\ revision = 3 /\ NewerOf(j) = {} =>
                    rows'[j].superseded = Current]_vars

\* Nobody gets a session but by consent to it: no migration, and no way back
\* and forth through them, turns a stored identity into one that authenticates.
NobodyInheritsASession ==
    [][\A u \in Users : Authenticates(u)' => Authenticates(u) \/ users[u] = Absent]_vars
=============================================================================
