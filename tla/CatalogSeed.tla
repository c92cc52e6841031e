----------------------------- MODULE CatalogSeed -----------------------------
(***************************************************************************)
(* The seed command beside the requests that save preferences and          *)
(* feedback.  The seeder reads and writes genres, tags and platforms, one  *)
(* family after the other, and the games at the end, all in one            *)
(* transaction; a saving request locks its user, then shares its games,    *)
(* its genres, tags and platforms.  The two take the same rows in opposite *)
(* orders, so they can wait for each other: PostgreSQL then ends one of    *)
(* them, which rolls back.                                                 *)
(*                                                                         *)
(* A row is absent, old (its values differ from the seed file's) or new.   *)
(* The seeder deletes nothing.                                             *)
(***************************************************************************)
EXTENDS Naturals, Sequences, FiniteSets

CONSTANTS Seeders, Writers,
          Families,     \* the rows of each family in the order of writing
          Wanted,       \* what each writer locks, its user first
          Stored        \* the catalog before any seeding

CatalogRows == UNION {{Families[f][i] : i \in DOMAIN Families[f]} : f \in DOMAIN Families}
Processes == Seeders \cup Writers

ASSUME SeedAssumption ==
    /\ Seeders \cap Writers = {}
    /\ Families \in Seq(Seq(CatalogRows))
    /\ Stored \in [CatalogRows -> {"absent", "old"}]
    /\ \A w \in Writers : /\ Wanted[w] # <<>> /\ Wanted[w][1] \notin CatalogRows
                          /\ Wanted[w] \in Seq(CatalogRows \cup {Wanted[w][1]})

Resources == CatalogRows \cup {Wanted[w][1] : w \in Writers}

VARIABLES
    value,     \* the committed catalog
    state,     \* of each transaction
    held,      \* the rows each transaction has locked
    next,      \* how far each is: a writer in its list, a seeder in the families
    pending    \* the rows a seeder has still to write of the family it has read
vars == <<value, state, held, next, pending>>

\* Writers lock their user for update and share the catalog; seeders update.
Exclusive(p, r) == p \in Seeders \/ r \notin CatalogRows

Blockers(p, r) == {q \in Processes \ {p} : r \in held[q] /\ (Exclusive(p, r) \/ Exclusive(q, r))}

FirstOf(order, rows) ==
    {order[i] : i \in {i \in DOMAIN order :
                         order[i] \in rows /\ \A j \in 1..(i - 1) : order[j] \notin rows}}

\* The row that a running transaction wants next, as a set.
Wants(p) ==
    IF state[p] # "running" THEN {}
    ELSE IF p \in Writers
         THEN IF next[p] > Len(Wanted[p]) THEN {} ELSE {Wanted[p][next[p]]}
         ELSE IF pending[p] = {} THEN {} ELSE FirstOf(Families[next[p] - 1], pending[p])

WaitsFor(p) == UNION {Blockers(p, r) : r \in Wants(p)}

\* PostgreSQL's check: p waits for itself through others.
Deadlocked(p) ==
    \E cycle \in SUBSET Processes :
       /\ p \in cycle
       /\ \A q \in cycle : WaitsFor(q) \cap cycle # {}
       /\ \A s \in (SUBSET cycle) \ {{}, cycle} : p \in s =>
             \E q \in s : WaitsFor(q) \cap (cycle \ s) # {}

Begin(p) ==
    /\ state[p] = "waiting"
    /\ state' = [state EXCEPT ![p] = "running"]
    /\ UNCHANGED <<value, held, next, pending>>

Mut_KeepLocks(p) == held

\* The end of a transaction frees what it locked.
Released(p) == [held EXCEPT ![p] = {}]

\* An error, a lost connection or the end as a victim: all is rolled back.
Abort(p) ==
    /\ state' = [state EXCEPT ![p] = "aborted"]
    /\ held' = Released(p)
    /\ UNCHANGED <<value, next, pending>>

Mut_Unlocked(w, r) == UNCHANGED held

\* SELECT ... FOR SHARE, or FOR UPDATE of the user.
Lock(w, r) == held' = [held EXCEPT ![w] = @ \cup {r}]

\* The next lock of a saving request; a row that does not exist refuses it.
WriterStep(w) ==
    \E r \in Wants(w) :
       /\ Blockers(w, r) = {}
       /\ IF r \in CatalogRows /\ value[r] = "absent" THEN Abort(w)
          ELSE /\ Lock(w, r)
               /\ next' = [next EXCEPT ![w] = @ + 1]
               /\ UNCHANGED <<value, state, pending>>

CommitWriter(w) ==
    /\ state[w] = "running" /\ next[w] > Len(Wanted[w])
    /\ state' = [state EXCEPT ![w] = "committed"]
    /\ held' = Released(w)
    /\ UNCHANGED <<value, next, pending>>

Written(s) == [r \in CatalogRows |-> IF r \in held[s] THEN "new" ELSE value[r]]

Mut_CommitFamily(s) == Written(s)

\* What others see when a family is flushed: nothing yet.
Flushed(s) == value

\* One family: what the seeder reads decides which rows it inserts or updates.
ReadFamily(s) ==
    /\ state[s] = "running" /\ pending[s] = {} /\ next[s] <= Len(Families)
    /\ LET family == Families[next[s]]
       IN  pending' = [pending EXCEPT
             ![s] = {r \in {family[i] : i \in DOMAIN family} : value[r] # "new"}]
    /\ next' = [next EXCEPT ![s] = @ + 1]
    /\ value' = Flushed(s)
    /\ UNCHANGED <<state, held>>

\* An update waits for the locks of others, and so does an insert for another
\* insert of the same slug - which it then repeats: a unique index refuses it.
WriteRow(s) ==
    \E r \in Wants(s) :
       /\ Blockers(s, r) = {}
       /\ IF Stored[r] = "absent" /\ value[r] # "absent" THEN Abort(s)
          ELSE /\ held' = [held EXCEPT ![s] = @ \cup {r}]
               /\ pending' = [pending EXCEPT ![s] = @ \ {r}]
               /\ UNCHANGED <<value, state, next>>

CommitSeed(s) ==
    /\ state[s] = "running" /\ pending[s] = {} /\ next[s] > Len(Families)
    /\ value' = Written(s)
    /\ state' = [state EXCEPT ![s] = "committed"]
    /\ held' = Released(s)
    /\ UNCHANGED <<next, pending>>

\* deadlock_timeout has passed: a transaction in a cycle is the victim.
Detect(p) == Deadlocked(p) /\ Abort(p)

Fail(p) == state[p] = "running" /\ Abort(p)

Step(p) ==
    \/ p \in Writers /\ (WriterStep(p) \/ CommitWriter(p))
    \/ p \in Seeders /\ (ReadFamily(p) \/ WriteRow(p) \/ CommitSeed(p))

Init ==
    /\ value = Stored
    /\ state = [p \in Processes |-> "waiting"]
    /\ held = [p \in Processes |-> {}]
    /\ next = [p \in Processes |-> 1]
    /\ pending = [s \in Seeders |-> {}]

Next == \E p \in Processes : Begin(p) \/ Step(p) \/ Detect(p) \/ Fail(p)

Spec == /\ Init /\ [][Next]_vars
        /\ \A p \in Processes : WF_vars(Step(p)) /\ WF_vars(Detect(p))
-----------------------------------------------------------------------------
\* The variables have their types; a transaction has done nothing before it
\* begins, and when it has ended, however it ended, it holds no lock.
TypeOK ==
    /\ value \in [CatalogRows -> {"absent", "old", "new"}]
    /\ state \in [Processes -> {"waiting", "running", "committed", "aborted"}]
    /\ held \in [Processes -> SUBSET Resources]
    /\ next \in [Processes -> Nat \ {0}]
    /\ pending \in [Seeders -> SUBSET CatalogRows]
    /\ \A p \in Processes : /\ state[p] # "running" => held[p] = {}
                            /\ state[p] = "waiting" => next[p] = 1

\* Two transactions have locked the same row only to share it.
LocksAreCompatible ==
    \A p, q \in Processes : p # q =>
       \A r \in held[p] \cap held[q] : ~Exclusive(p, r)

\* A saving request holds what it has validated until it ends.
WritersHoldTheirRows ==
    \A w \in Writers : state[w] = "running" =>
       \A i \in 1..(next[w] - 1) : Wanted[w][i] \in held[w]

\* Of the families it has read, a seeder has written or will write every row
\* that is not up to date.
SeedersMissNothing ==
    \A s \in Seeders : state[s] = "running" =>
       \A f \in DOMAIN Families : f < next[s] =>
          \A i \in DOMAIN Families[f] :
             \/ value[Families[f][i]] = "new"
             \/ Families[f][i] \in held[s] \cup pending[s]

\* The catalog that others see is the one before the seeding or the seeded
\* one, never some of its families: also when seeders run at the same time,
\* when one finds rows that the other has just inserted, and when one fails.
SeedIsAllOrNothing ==
    value \in {Stored, [r \in CatalogRows |-> "new"]}

\* No transaction leaves a lock behind or half a catalog.
Inv == /\ TypeOK /\ LocksAreCompatible /\ WritersHoldTheirRows
       /\ SeedersMissNothing /\ SeedIsAllOrNothing

\* A game or taxonomy that a saving request has validated stays as it was
\* until the request ends: the answer names what was saved.
ValidatedRowsStay ==
    [][\A w \in Writers : \A i \in 1..(next[w] - 1) :
          (state[w] = "running" /\ Wanted[w][i] \in CatalogRows) =>
            value'[Wanted[w][i]] = value[Wanted[w][i]]]_vars

\* Though seeder and requests lock in opposite orders, every transaction that
\* begins ends, because the victim of a deadlock gives its locks back.
EveryoneEnds ==
    \A p \in Processes : state[p] = "running" ~> state[p] \in {"committed", "aborted"}
=============================================================================
