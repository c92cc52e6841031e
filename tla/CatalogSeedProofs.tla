-------------------------- MODULE CatalogSeedProofs --------------------------
(***************************************************************************)
(* Theorems of CatalogSeed, for any number of seeders and saving requests  *)
(* and any families of rows.                                               *)
(***************************************************************************)
EXTENDS CatalogSeed, TLAPS

\* The rows of a family are catalog rows, and every catalog row is in a family.
LEMMA RowsOfFamilies ==
    /\ \A f \in DOMAIN Families : \A i \in DOMAIN Families[f] : Families[f][i] \in CatalogRows
    /\ \A r \in CatalogRows : \E f \in DOMAIN Families : \E i \in DOMAIN Families[f] : r = Families[f][i]
    /\ Len(Families) \in Nat /\ DOMAIN Families = 1..Len(Families)
<1>1. DOMAIN Families = 1..Len(Families) /\ Len(Families) \in Nat
  BY SeedAssumption
<1> QED
  BY <1>1 DEF CatalogRows

\* What a transaction wants next.
LEMMA WantedRows ==
    ASSUME TypeOK, NEW p \in Processes, NEW r \in Wants(p)
    PROVE  /\ state[p] = "running"
           /\ p \in Seeders => r \in pending[p] /\ r \in CatalogRows
           /\ p \in Writers => r \in Resources /\ r = Wanted[p][next[p]]
<1>1. state[p] = "running"
  BY DEF Wants
<1>2. CASE p \in Writers
  <2>1. r = Wanted[p][next[p]] /\ next[p] <= Len(Wanted[p]) /\ next[p] \in Nat \ {0}
    BY <1>2 DEF Wants, TypeOK
  <2>2. Wanted[p] \in Seq(CatalogRows \cup {Wanted[p][1]}) /\ Len(Wanted[p]) \in Nat
    BY <1>2, SeedAssumption
  <2>3. Wanted[p][next[p]] \in CatalogRows \cup {Wanted[p][1]}
    BY <2>1, <2>2
  <2> QED
    BY <1>1, <1>2, <2>1, <2>3, SeedAssumption DEF Resources
<1>3. CASE p \in Seeders
  BY <1>1, <1>3, SeedAssumption DEF Wants, FirstOf, TypeOK
<1> QED
  BY <1>2, <1>3 DEF Processes

LEMMA InitInv == Init => Inv
<1> SUFFICES ASSUME Init PROVE Inv
  OBVIOUS
<1>1. Seeders \subseteq Processes
  BY DEF Processes
<1>2. TypeOK
  BY <1>1, SeedAssumption DEF Init, TypeOK
<1>3. LocksAreCompatible
  BY DEF Init, LocksAreCompatible
<1>4. WritersHoldTheirRows /\ SeedersMissNothing
  BY <1>1 DEF Init, WritersHoldTheirRows, SeedersMissNothing, Processes
<1>5. SeedIsAllOrNothing
  BY DEF Init, SeedIsAllOrNothing
<1> QED
  BY <1>2, <1>3, <1>4, <1>5 DEF Inv
-----------------------------------------------------------------------------
\* What may be known of a transaction p with this state and these rows, while the
\* others keep theirs.
Fits(p, st, rows, n, rest) ==
    /\ st \in {"running", "committed", "aborted"} /\ rows \in SUBSET Resources
    /\ n \in Nat \ {0} /\ rest \in SUBSET CatalogRows
    /\ st # "running" => rows = {}
    /\ \A q \in Processes \ {p} : \A r \in rows \cap held[q] : ~Exclusive(p, r) /\ ~Exclusive(q, r)
    /\ p \in Writers /\ st = "running" => \A i \in 1..(n - 1) : Wanted[p][i] \in rows
    /\ p \in Seeders /\ st = "running" =>
          \A f \in DOMAIN Families : f < n => \A i \in DOMAIN Families[f] :
             value[Families[f][i]] = "new" \/ Families[f][i] \in rows \cup rest

Becomes(p, st, rows, n, rest) ==
    /\ UNCHANGED value /\ state' = [state EXCEPT ![p] = st]
    /\ held' = [held EXCEPT ![p] = rows] /\ next' = [next EXCEPT ![p] = n]
    /\ pending' = IF p \in Seeders THEN [pending EXCEPT ![p] = rest] ELSE pending

\* A step of one transaction that changes no catalog row.
LEMMA OneMoves ==
    ASSUME Inv, NEW p \in Processes, NEW st, NEW rows, NEW n, NEW rest,
           Fits(p, st, rows, n, rest), Becomes(p, st, rows, n, rest)
    PROVE  Inv'
<1> USE DEF Fits, Becomes
<1>1. TypeOK'
  BY DEF Inv, TypeOK
<1>2. LocksAreCompatible'
  BY DEF Inv, TypeOK, LocksAreCompatible, Exclusive
<1>3. WritersHoldTheirRows'
  BY DEF Inv, TypeOK, WritersHoldTheirRows, Processes
<1>4. SeedersMissNothing'
  <2> SUFFICES ASSUME NEW s \in Seeders, state'[s] = "running", NEW f \in DOMAIN Families,
                      f < next'[s], NEW i \in DOMAIN Families[f]
               PROVE  \/ value[Families[f][i]] = "new"
                      \/ Families[f][i] \in held'[s] \cup pending'[s]
    BY DEF SeedersMissNothing
  <2>0. s \in Processes
    BY DEF Processes
  <2>1. CASE s = p
    <3>1. held'[s] = rows /\ pending'[s] = rest /\ next'[s] = n /\ state'[s] = st
      BY <2>0, <2>1 DEF Inv, TypeOK
    <3> QED
      BY <2>1, <3>1
  <2>2. CASE s # p
    <3>1. held'[s] = held[s] /\ pending'[s] = pending[s] /\ next'[s] = next[s] /\ state'[s] = state[s]
      BY <2>0, <2>2 DEF Inv, TypeOK
    <3> QED
      BY <3>1 DEF Inv, SeedersMissNothing
  <2> QED
    BY <2>1, <2>2
<1>5. SeedIsAllOrNothing'
  BY DEF Inv, SeedIsAllOrNothing
<1> QED
  BY <1>1, <1>2, <1>3, <1>4, <1>5 DEF Inv

\* The types of what a transaction has.
LEMMA OneHas ==
    ASSUME Inv, NEW p \in Processes
    PROVE  /\ held[p] \in SUBSET Resources /\ next[p] \in Nat \ {0}
           /\ held = [held EXCEPT ![p] = held[p]] /\ next = [next EXCEPT ![p] = next[p]]
           /\ p \in Seeders => pending[p] \in SUBSET CatalogRows
           /\ p \in Seeders => pending = [pending EXCEPT ![p] = pending[p]]
BY DEF Inv, TypeOK

LEMMA BeginInv == ASSUME Inv, NEW p \in Processes, Begin(p) PROVE Inv'
<1>0. state[p] = "waiting"
  BY DEF Begin
<1>1. next[p] = 1 /\ held[p] = {}
  BY <1>0 DEF Inv, TypeOK
<1> DEFINE rest == IF p \in Seeders THEN pending[p] ELSE {}
<1>2. rest \in SUBSET CatalogRows
  BY OneHas
<1>3. Becomes(p, "running", {}, 1, rest)
  BY <1>1, OneHas DEF Begin, Becomes
<1>4. Fits(p, "running", {}, 1, rest)
  BY <1>2, RowsOfFamilies DEF Fits
<1> QED
  BY <1>3, <1>4, OneMoves

LEMMA AbortInv == ASSUME Inv, NEW p \in Processes, Abort(p) PROVE Inv'
<1> DEFINE rest == IF p \in Seeders THEN pending[p] ELSE {}
<1>1. rest \in SUBSET CatalogRows
  BY OneHas
<1>2. Becomes(p, "aborted", {}, next[p], rest)
  BY OneHas DEF Abort, Released, Becomes
<1>3. Fits(p, "aborted", {}, next[p], rest)
  BY <1>1, OneHas DEF Fits
<1> QED
  BY <1>2, <1>3, OneMoves

LEMMA WriterStepInv == ASSUME Inv, NEW w \in Writers, WriterStep(w) PROVE Inv'
<1>1. PICK r \in Wants(w) :
        /\ Blockers(w, r) = {}
        /\ \/ Abort(w)
           \/ Lock(w, r) /\ next' = [next EXCEPT ![w] = @ + 1] /\ UNCHANGED <<value, state, pending>>
  BY DEF WriterStep
<1>2. w \in Processes /\ w \notin Seeders
  BY SeedAssumption DEF Processes
<1>3. state[w] = "running" /\ r \in Resources /\ r = Wanted[w][next[w]]
  BY <1>1, <1>2, WantedRows DEF Inv
<1>4. CASE Abort(w)
  BY <1>2, <1>4, AbortInv
<1>5. CASE Lock(w, r) /\ next' = [next EXCEPT ![w] = @ + 1] /\ UNCHANGED <<value, state, pending>>
  <2> DEFINE rows == held[w] \cup {r}
             n == next[w] + 1
  <2>1. rows \in SUBSET Resources /\ n \in Nat \ {0}
    BY <1>2, <1>3, OneHas
  <2>2. /\ held' = [held EXCEPT ![w] = rows] /\ next' = [next EXCEPT ![w] = n]
        /\ state' = [state EXCEPT ![w] = "running"]
    BY <1>2, <1>3, <1>5 DEF Lock, Inv, TypeOK
  <2>3. \A q \in Processes \ {w} : \A x \in rows \cap held[q] : ~Exclusive(w, x) /\ ~Exclusive(q, x)
    BY <1>1, <1>2 DEF Inv, LocksAreCompatible, Blockers
  <2>4. \A i \in 1..(n - 1) : Wanted[w][i] \in rows
    <3> SUFFICES ASSUME NEW i \in 1..(n - 1) PROVE Wanted[w][i] \in rows
      OBVIOUS
    <3>1. i = next[w] \/ i \in 1..(next[w] - 1)
      BY <1>2, OneHas
    <3> QED
      BY <1>3, <3>1 DEF Inv, WritersHoldTheirRows
  <2> HIDE DEF rows, n
  <2>5. Becomes(w, "running", rows, n, {}) /\ Fits(w, "running", rows, n, {})
    BY <1>2, <1>5, <2>1, <2>2, <2>3, <2>4 DEF Becomes, Fits
  <2> QED
    BY <1>2, <2>5, OneMoves
<1> QED
  BY <1>1, <1>4, <1>5

LEMMA CommitWriterInv == ASSUME Inv, NEW w \in Writers, CommitWriter(w) PROVE Inv'
<1>1. w \in Processes /\ w \notin Seeders
  BY SeedAssumption DEF Processes
<1>2. Becomes(w, "committed", {}, next[w], {})
  BY <1>1, OneHas DEF CommitWriter, Released, Becomes
<1>3. Fits(w, "committed", {}, next[w], {})
  BY <1>1, OneHas DEF Fits
<1> QED
  BY <1>1, <1>2, <1>3, OneMoves

LEMMA ReadFamilyInv == ASSUME Inv, NEW s \in Seeders, ReadFamily(s) PROVE Inv'
<1> DEFINE family == Families[next[s]]
           rest == {r \in {family[i] : i \in DOMAIN family} : value[r] # "new"}
           n == next[s] + 1
<1>1. s \in Processes /\ s \notin Writers
  BY SeedAssumption DEF Processes
<1>2. next[s] \in DOMAIN Families /\ n \in Nat \ {0}
  BY <1>1, OneHas, RowsOfFamilies DEF ReadFamily
<1>3. rest \in SUBSET CatalogRows
  BY <1>2, RowsOfFamilies
<1>4. /\ held' = [held EXCEPT ![s] = held[s]] /\ next' = [next EXCEPT ![s] = n]
      /\ pending' = [pending EXCEPT ![s] = rest] /\ UNCHANGED value
  BY <1>1, OneHas DEF ReadFamily, Flushed
<1>5. state' = [state EXCEPT ![s] = "running"]
  BY <1>1 DEF ReadFamily, Inv, TypeOK
<1>6. \A f \in DOMAIN Families : f < n => \A i \in DOMAIN Families[f] :
         value[Families[f][i]] = "new" \/ Families[f][i] \in held[s] \cup rest
  <2> SUFFICES ASSUME NEW f \in DOMAIN Families, f < n, NEW i \in DOMAIN Families[f]
               PROVE  value[Families[f][i]] = "new" \/ Families[f][i] \in held[s] \cup rest
    OBVIOUS
  <2>1. CASE f = next[s]
    BY <2>1
  <2>2. CASE f < next[s]
    BY <2>2 DEF Inv, SeedersMissNothing, ReadFamily
  <2> QED
    BY <1>1, <2>1, <2>2, OneHas, RowsOfFamilies
<1>7. \A q \in Processes \ {s} : \A r \in held[s] \cap held[q] : ~Exclusive(s, r) /\ ~Exclusive(q, r)
  BY <1>1 DEF Inv, LocksAreCompatible
<1> HIDE DEF rest, n
<1>8. Becomes(s, "running", held[s], n, rest) /\ Fits(s, "running", held[s], n, rest)
  BY <1>1, <1>2, <1>3, <1>4, <1>5, <1>6, <1>7, OneHas DEF Becomes, Fits
<1> QED
  BY <1>1, <1>8, OneMoves

LEMMA WriteRowInv == ASSUME Inv, NEW s \in Seeders, WriteRow(s) PROVE Inv'
<1>1. PICK r \in Wants(s) :
        /\ Blockers(s, r) = {}
        /\ \/ Abort(s)
           \/ /\ held' = [held EXCEPT ![s] = @ \cup {r}]
              /\ pending' = [pending EXCEPT ![s] = @ \ {r}]
              /\ UNCHANGED <<value, state, next>>
  BY DEF WriteRow
<1>2. s \in Processes /\ s \notin Writers
  BY SeedAssumption DEF Processes
<1>3. state[s] = "running" /\ r \in pending[s] /\ r \in Resources
  BY <1>1, <1>2, WantedRows DEF Inv, Resources
<1>4. CASE Abort(s)
  BY <1>2, <1>4, AbortInv
<1>5. CASE /\ held' = [held EXCEPT ![s] = @ \cup {r}]
           /\ pending' = [pending EXCEPT ![s] = @ \ {r}]
           /\ UNCHANGED <<value, state, next>>
  <2> DEFINE rows == held[s] \cup {r}
             rest == pending[s] \ {r}
  <2>1. rows \in SUBSET Resources /\ rest \in SUBSET CatalogRows
    BY <1>2, <1>3, OneHas
  <2>2. /\ held' = [held EXCEPT ![s] = rows] /\ pending' = [pending EXCEPT ![s] = rest]
        /\ state' = [state EXCEPT ![s] = "running"] /\ next' = [next EXCEPT ![s] = next[s]]
    BY <1>2, <1>3, <1>5 DEF Inv, TypeOK
  <2>3. \A q \in Processes \ {s} : \A x \in rows \cap held[q] : ~Exclusive(s, x) /\ ~Exclusive(q, x)
    BY <1>1, <1>2 DEF Inv, LocksAreCompatible, Blockers
  <2>4. \A f \in DOMAIN Families : f < next[s] => \A i \in DOMAIN Families[f] :
           value[Families[f][i]] = "new" \/ Families[f][i] \in rows \cup rest
    BY <1>3 DEF Inv, SeedersMissNothing
  <2> HIDE DEF rows, rest
  <2>5. Becomes(s, "running", rows, next[s], rest) /\ Fits(s, "running", rows, next[s], rest)
    BY <1>2, <1>5, <2>1, <2>2, <2>3, <2>4, OneHas DEF Becomes, Fits
  <2> QED
    BY <1>2, <2>5, OneMoves
<1> QED
  BY <1>1, <1>4, <1>5

\* When a seeder commits it has written every row that was not up to date.
LEMMA SeedIsWhole ==
    ASSUME Inv, NEW s \in Seeders, CommitSeed(s)
    PROVE  value' = [r \in CatalogRows |-> "new"]
<1>1. s \in Processes /\ next[s] \in Nat
  BY OneHas DEF Processes
<1>2. ASSUME NEW r \in CatalogRows PROVE value[r] = "new" \/ r \in held[s]
  <2>1. PICK f \in DOMAIN Families : \E i \in DOMAIN Families[f] : r = Families[f][i]
    BY RowsOfFamilies
  <2>2. f < next[s]
    BY <1>1, RowsOfFamilies DEF CommitSeed
  <2> QED
    BY <2>1, <2>2 DEF CommitSeed, Inv, SeedersMissNothing
<1> QED
  BY <1>2 DEF CommitSeed, Written

LEMMA CommitSeedInv == ASSUME Inv, NEW s \in Seeders, CommitSeed(s) PROVE Inv'
<1>1. s \in Processes /\ s \notin Writers
  BY SeedAssumption DEF Processes
<1>2. value' = [r \in CatalogRows |-> "new"]
  BY SeedIsWhole
<1>3. /\ state' = [state EXCEPT ![s] = "committed"] /\ held' = [held EXCEPT ![s] = {}]
      /\ UNCHANGED <<next, pending>>
  BY DEF CommitSeed, Released
<1>4. TypeOK'
  BY <1>1, <1>2, <1>3 DEF Inv, TypeOK
<1>5. LocksAreCompatible'
  BY <1>1, <1>3 DEF Inv, TypeOK, LocksAreCompatible, Exclusive
<1>6. WritersHoldTheirRows'
  BY <1>1, <1>3 DEF Inv, TypeOK, WritersHoldTheirRows, Processes
<1>7. SeedersMissNothing'
  BY <1>2, RowsOfFamilies DEF SeedersMissNothing
<1>8. SeedIsAllOrNothing'
  BY <1>2 DEF SeedIsAllOrNothing
<1> QED
  BY <1>4, <1>5, <1>6, <1>7, <1>8 DEF Inv
-----------------------------------------------------------------------------
LEMMA NextInv == Inv /\ [Next]_vars => Inv'
<1> SUFFICES ASSUME Inv, [Next]_vars PROVE Inv'
  OBVIOUS
<1>1. ASSUME NEW p \in Processes, Begin(p) \/ Step(p) \/ Detect(p) \/ Fail(p) PROVE Inv'
  BY <1>1, BeginInv, AbortInv, WriterStepInv, CommitWriterInv, ReadFamilyInv, WriteRowInv,
     CommitSeedInv DEF Step, Detect, Fail
<1>2. CASE UNCHANGED vars
  BY <1>2 DEF vars, Inv, TypeOK, LocksAreCompatible, WritersHoldTheirRows, SeedersMissNothing,
              SeedIsAllOrNothing, Exclusive
<1> QED
  BY <1>1, <1>2 DEF Next

\* No transaction leaves a lock behind, and the catalog is the one before the
\* seeding or the seeded one, whatever seeders run beside each other and fail.
THEOREM InvHolds == Spec => []Inv
<1> QED
  BY InitInv, NextInv, PTL DEF Spec

\* A row that a saving request has validated stays as it was until the request
\* ends: a seeder cannot commit a row that the request shares.
THEOREM ValidatedRowsAreKept == Spec => ValidatedRowsStay
<1> DEFINE A == \A w \in Writers : \A i \in 1..(next[w] - 1) :
                  (state[w] = "running" /\ Wanted[w][i] \in CatalogRows) =>
                     value'[Wanted[w][i]] = value[Wanted[w][i]]
<1>1. ASSUME Inv, NEW s \in Seeders, CommitSeed(s) PROVE A
  <2> SUFFICES ASSUME NEW w \in Writers, NEW i \in 1..(next[w] - 1), state[w] = "running",
                      Wanted[w][i] \in CatalogRows
               PROVE  value'[Wanted[w][i]] = value[Wanted[w][i]]
    OBVIOUS
  <2>1. w \in Processes /\ s \in Processes /\ w # s
    BY SeedAssumption DEF Processes
  <2>2. Wanted[w][i] \in held[w]
    BY <1>1 DEF Inv, WritersHoldTheirRows
  <2>3. Wanted[w][i] \notin held[s]
    BY <1>1, <2>1, <2>2 DEF Inv, LocksAreCompatible, Exclusive
  <2> QED
    BY <1>1, <2>3 DEF CommitSeed, Written
<1>2. ASSUME Inv, [Next]_vars PROVE UNCHANGED value \/ \E s \in Seeders : CommitSeed(s)
  BY <1>2 DEF Next, vars, Begin, Step, Detect, Fail, Abort, WriterStep, CommitWriter, ReadFamily,
              Flushed, WriteRow
<1>3. Inv /\ [Next]_vars => [A]_vars
  BY <1>1, <1>2
<1> HIDE DEF A
<1>4. Spec => [][A]_vars
  BY <1>3, InvHolds, PTL DEF Spec
<1> QED
  BY <1>4 DEF A, ValidatedRowsStay
=============================================================================
