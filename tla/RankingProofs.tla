---------------------------- MODULE RankingProofs ----------------------------
(***************************************************************************)
(* Theorems of Ranking for any games, inputs, scale and weights.           *)
(***************************************************************************)
EXTENDS Ranking, FiniteSetTheorems, WellFoundedInduction, TLAPS

-----------------------------------------------------------------------------
(* Units: integer division, rounding and clamping. *)

LEMMA Division ==
    ASSUME NEW a \in Nat, NEW d \in Nat \ {0}
    PROVE  /\ a \div d \in Nat
           /\ d * (a \div d) <= a
           /\ a < d * (a \div d) + d
OBVIOUS

LEMMA QuotientAtMost ==
    ASSUME NEW a \in Nat, NEW d \in Nat \ {0}, NEW k \in Nat, a < d * k + d
    PROVE  a \div d <= k
<1> DEFINE q == a \div d
<1>1. q \in Nat /\ d * q <= a
  BY Division
<1> HIDE DEF q
<1>2. d * q < d * k + d
  BY <1>1
<1>3. CASE q >= k + 1
  <2>1. d * q >= d * (k + 1)
    BY <1>1, <1>3
  <2> QED
    BY <1>1, <1>2, <2>1
<1> QED
  BY <1>1, <1>3 DEF q

LEMMA QuotientGrows ==
    ASSUME NEW a \in Nat, NEW b \in Nat, NEW d \in Nat \ {0}, a <= b
    PROVE  a \div d <= b \div d
<1>1. b \div d \in Nat /\ b < d * (b \div d) + d
  BY Division
<1>2. a < d * (b \div d) + d
  BY <1>1
<1> QED
  BY <1>1, <1>2, QuotientAtMost

LEMMA Numbers ==
    /\ Scale \in Nat \ {0} /\ Parts \in Nat \ {0} /\ PlayedFactor \in 0..Scale
    /\ ContentWeight \in Nat /\ PlatformWeight \in Nat /\ PopularityWeight \in Nat
    /\ BaseWeight \in Nat /\ AffinityWeight \in Nat
    /\ ContentWeight + PlatformWeight + PopularityWeight = Scale
    /\ BaseWeight + AffinityWeight = Scale
BY ConfigAssumption DEF ValidConfig, ValidPolicy

LEMMA Products ==
    ASSUME NEW a \in Nat, NEW b \in Nat, NEW c \in Nat, a <= b
    PROVE  a * c <= b * c /\ c * a <= c * b /\ a * c \in Nat /\ c * a = a * c
OBVIOUS

\* A contribution is at most its weight and at most what it weighs.
LEMMA ContributionBounds ==
    ASSUME NEW raw \in 0..Scale, NEW weight \in 0..Scale
    PROVE  /\ Contribution(raw, weight) \in 0..Scale
           /\ Contribution(raw, weight) <= weight
           /\ Contribution(raw, weight) <= raw
<1>1. Scale \in Nat \ {0} /\ Scale \div 2 \in Nat /\ Scale \div 2 < Scale
  BY Numbers
<1> DEFINE n == raw * weight + Scale \div 2
<1>2. n \in Nat /\ n < Scale * weight + Scale /\ n < Scale * raw + Scale
  <2>1. /\ raw * weight <= Scale * weight
        /\ raw * weight <= raw * Scale /\ raw * Scale = Scale * raw
    BY <1>1, Products
  <2>2. raw * weight \in Nat /\ Scale * weight \in Nat /\ Scale * raw \in Nat
    BY <1>1
  <2> QED
    BY <1>1, <2>1, <2>2
<1>3. n \div Scale \in Nat
  BY <1>1, <1>2, Division
<1>4. n \div Scale <= weight /\ n \div Scale <= raw
  BY <1>1, <1>2, QuotientAtMost
<1> QED
  BY <1>1, <1>3, <1>4 DEF Contribution

\* A contribution grows with what it weighs and with its weight.
LEMMA ContributionGrows ==
    ASSUME NEW raw \in Nat, NEW more \in Nat, NEW weight \in Nat, NEW heavier \in Nat,
           raw <= more, weight <= heavier
    PROVE  Contribution(raw, weight) <= Contribution(more, heavier)
<1>1. Scale \in Nat \ {0} /\ Scale \div 2 \in Nat
  BY Numbers
<1>2. raw * weight <= more * heavier
  <2>1. raw * weight <= more * weight /\ more * weight <= more * heavier
    BY Products
  <2> QED
    BY <2>1
<1>3. /\ raw * weight + Scale \div 2 \in Nat /\ more * heavier + Scale \div 2 \in Nat
      /\ raw * weight + Scale \div 2 <= more * heavier + Scale \div 2
  BY <1>1, <1>2
<1> QED
  BY <1>1, <1>3, QuotientGrows DEF Contribution

\* Weighing with one, or with nothing, does not round.
LEMMA ContributionOfAll ==
    ASSUME NEW raw \in 0..Scale
    PROVE  Contribution(raw, Scale) = raw /\ Contribution(raw, 0) = 0
<1>1. Scale \in Nat \ {0} /\ Scale \div 2 \in Nat /\ Scale \div 2 < Scale
  BY Numbers
<1> DEFINE n == raw * Scale + Scale \div 2
<1>2. n \in Nat /\ n < Scale * raw + Scale /\ Scale * raw <= n
  BY <1>1
<1>3. n \div Scale <= raw
  BY <1>1, <1>2, QuotientAtMost
<1>4. n \div Scale >= raw
  <2> DEFINE q == n \div Scale
  <2>1. q \in Nat /\ n < Scale * q + Scale
    BY <1>1, <1>2, Division
  <2> HIDE DEF q, n
  <2>2. CASE q + 1 <= raw
    <3>1. Scale * (q + 1) <= Scale * raw
      BY <1>1, <2>1, <2>2, Products
    <3>2. Scale * (q + 1) = Scale * q + Scale
      BY <1>1, <2>1
    <3> QED
      BY <1>1, <1>2, <2>1, <3>1, <3>2
  <2> QED
    BY <1>1, <2>1, <2>2 DEF q
<1>5. n \div Scale \in Nat
  BY <1>1, <1>2, Division
<1>6. Contribution(raw, Scale) = raw
  BY <1>1, <1>3, <1>4, <1>5 DEF Contribution
<1>7. (Scale \div 2) \div Scale = 0
  BY <1>1
<1> QED
  BY <1>1, <1>6, <1>7 DEF Contribution

\* quantize clamps and is monotone.
LEMMA QuantizeBounds ==
    ASSUME NEW n \in Int, NEW d \in Nat \ {0}
    PROVE  Quantize(n, d) \in 0..Scale
<1>1. Scale \in Nat \ {0}
  BY Numbers
<1>2. CASE n > 0 /\ n < d
  <2> DEFINE a == 2 * n * Scale + d
  <2>1. a \in Nat /\ 2 * d \in Nat \ {0}
    BY <1>1, <1>2
  <2>2. a < (2 * d) * Scale + 2 * d
    <3>1. n * Scale <= d * Scale
      BY <1>1, <1>2, Products
    <3> QED
      BY <1>1, <1>2, <3>1
  <2>3. a \div (2 * d) \in Nat /\ a \div (2 * d) <= Scale
    BY <1>1, <2>1, <2>2, QuotientAtMost, Division
  <2> QED
    BY <1>1, <1>2, <2>3 DEF Quantize
<1>3. CASE ~(n > 0 /\ n < d)
  BY <1>1, <1>3 DEF Quantize
<1> QED
  BY <1>2, <1>3

LEMMA QuantizeGrows ==
    ASSUME NEW n \in Int, NEW m \in Int, NEW d \in Nat \ {0}, n <= m
    PROVE  Quantize(n, d) <= Quantize(m, d)
<1>1. Scale \in Nat \ {0} /\ Quantize(n, d) \in 0..Scale /\ Quantize(m, d) \in 0..Scale
  BY Numbers, QuantizeBounds
<1>2. CASE n <= 0 \/ m >= d
  BY <1>1, <1>2 DEF Quantize
<1>3. CASE n > 0 /\ m < d
  <2>1. n * Scale <= m * Scale
    BY <1>1, <1>3, Products
  <2>2. /\ 2 * n * Scale + d \in Nat /\ 2 * m * Scale + d \in Nat /\ 2 * d \in Nat \ {0}
        /\ 2 * n * Scale + d <= 2 * m * Scale + d
    BY <1>1, <1>3, <2>1
  <2>3. (2 * n * Scale + d) \div (2 * d) <= (2 * m * Scale + d) \div (2 * d)
    BY <2>2, QuotientGrows
  <2> QED
    BY <1>1, <1>3, <2>3 DEF Quantize
<1> QED
  BY <1>2, <1>3

-----------------------------------------------------------------------------
(* The order: keys of one length make it a strict total order, and Top enumerates. *)

\* Sets of natural numbers have a least member.
LEMMA LeastNatural ==
    ASSUME NEW T, T \subseteq Nat, T # {} PROVE \E x \in T : \A y \in T : x <= y
<1> DEFINE R == OpToRel(<, Nat)
<1>1. IsWellFoundedOn(R, Nat)
  BY NatLessThanWellFounded
<1>2. \A x, y \in Nat : x < y => <<x, y>> \in R
  BY DEF OpToRel
<1> HIDE DEF R
<1>3. PICK x \in T : \A y \in T : ~ (<<y, x>> \in R)
  BY <1>1, WFMin
<1>4. \A y \in T : ~(y < x)
  BY <1>2, <1>3
<1>5. \A y \in T : x <= y
  BY <1>4
<1> QED
  BY <1>5

\* Keys of m numbers for the games of a set.
IsKey(key, set, m) == m \in Nat /\ key \in [set -> [1..m -> Int]]

\* Two keys that differ differ in a first place.
LEMMA FirstDifference ==
    ASSUME NEW m \in Nat, NEW a \in [1..m -> Int], NEW b \in [1..m -> Int], a # b
    PROVE  \E i \in 1..m : a[i] # b[i] /\ \A j \in 1..(i - 1) : a[j] = b[j]
<1> DEFINE T == {i \in 1..m : a[i] # b[i]}
<1>1. T \subseteq Nat /\ T # {}
  OBVIOUS
<1>2. PICK i \in T : \A y \in T : i <= y
  BY <1>1, LeastNatural
<1>3. \A j \in 1..(i - 1) : j \in 1..m /\ j \notin T
  BY <1>1, <1>2
<1> QED
  BY <1>2, <1>3

\* No game is before itself, and of two games one is before the other.
LEMMA BeforeIsTotal ==
    ASSUME NEW set, set \subseteq Nat, NEW m, NEW key, IsKey(key, set, m),
           NEW g \in set, NEW h \in set
    PROVE  /\ ~Before(key, g, g)
           /\ g # h => Before(key, g, h) \/ Before(key, h, g)
<1>1. /\ m \in Nat /\ key[g] \in [1..m -> Int] /\ key[h] \in [1..m -> Int]
      /\ g \in Nat /\ h \in Nat
  BY DEF IsKey
<1>2. ~Before(key, g, g)
  BY <1>1 DEF Before
<1>3. CASE key[g] # key[h]
  <2>1. PICK i \in 1..m : /\ key[g][i] # key[h][i]
                          /\ \A j \in 1..(i - 1) : key[g][j] = key[h][j]
    <3> DEFINE a == key[g]
               b == key[h]
    <3>1. m \in Nat /\ a \in [1..m -> Int] /\ b \in [1..m -> Int] /\ a # b
      BY <1>1, <1>3
    <3> HIDE DEF a, b
    <3>2. \E i \in 1..m : a[i] # b[i] /\ \A j \in 1..(i - 1) : a[j] = b[j]
      BY <3>1, FirstDifference
    <3> QED
      BY <3>2 DEF a, b
  <2>2. key[g][i] > key[h][i] \/ key[h][i] > key[g][i]
    BY <1>1, <2>1
  <2> QED
    BY <1>1, <1>2, <2>1, <2>2 DEF Before
<1>4. CASE key[g] = key[h]
  BY <1>1, <1>2, <1>4 DEF Before
<1> QED
  BY <1>3, <1>4

LEMMA BeforeIsTransitive ==
    ASSUME NEW set, set \subseteq Nat, NEW m, NEW key, IsKey(key, set, m),
           NEW f \in set, NEW g \in set, NEW h \in set, Before(key, f, g), Before(key, g, h)
    PROVE  Before(key, f, h)
<1>1. /\ m \in Nat /\ f \in Nat /\ g \in Nat /\ h \in Nat
      /\ \A x \in set : key[x] \in [1..m -> Int] /\ DOMAIN key[x] = 1..m
  BY DEF IsKey
<1> DEFINE first(x, y, i) == /\ i \in 1..m /\ key[x][i] > key[y][i]
                             /\ \A j \in 1..(i - 1) : key[x][j] = key[y][j]
<1>2. \A x, y \in set : Before(key, x, y) <=> \/ \E i : first(x, y, i)
                                              \/ key[x] = key[y] /\ x < y
  BY <1>1 DEF Before
<1>3. ASSUME NEW i, NEW j, first(f, g, i), first(g, h, j) PROVE \E l : first(f, h, l)
  <2>1. CASE i < j
    <3>1. first(f, h, i)
      BY <1>1, <1>3, <2>1
    <3> QED
      BY <3>1
  <2>2. CASE i >= j
    <3>1. /\ i \in 1..m /\ j \in 1..m /\ j \in Int /\ i \in Int
          /\ key[f][j] \in Int /\ key[g][j] \in Int /\ key[h][j] \in Int
          /\ key[g][j] > key[h][j]
      BY <1>1, <1>3
    <3>2. key[f][j] >= key[g][j]
      <4>1. CASE i = j
        BY <1>3, <3>1, <4>1
      <4>2. CASE i # j
        <5>1. j \in 1..(i - 1)
          BY <2>2, <3>1, <4>2
        <5> QED
          BY <1>3, <3>1, <5>1
      <4> QED
        BY <4>1, <4>2
    <3>3. \A l \in 1..(j - 1) : l \in 1..(i - 1)
      BY <2>2, <3>1
    <3>4. first(f, h, j)
      BY <1>3, <3>1, <3>2, <3>3
    <3> QED
      BY <3>4
  <2> QED
    BY <1>3, <2>1, <2>2
<1>4. (\E i : first(f, g, i)) \/ (key[f] = key[g] /\ f < g)
  BY <1>2
<1>5. (\E i : first(g, h, i)) \/ (key[g] = key[h] /\ g < h)
  BY <1>2
<1>6. ASSUME key[f] = key[g], NEW i, first(g, h, i) PROVE first(f, h, i)
  BY <1>6
<1>7. ASSUME key[g] = key[h], NEW i, first(f, g, i) PROVE first(f, h, i)
  BY <1>7
<1>8. key[f] = key[g] /\ f < g /\ key[g] = key[h] /\ g < h => key[f] = key[h] /\ f < h
  BY <1>1
<1> HIDE DEF first
<1> QED
  BY <1>2, <1>3, <1>4, <1>5, <1>6, <1>7, <1>8

\* The place of a game: one more than the games before it.
Place(set, key, g) == 1 + Cardinality({h \in set : Before(key, h, g)})

LEMMA PlacesAreDistinct ==
    ASSUME NEW set, set \subseteq Nat, IsFiniteSet(set), NEW m, NEW key, IsKey(key, set, m)
    PROVE  [g \in set |-> Place(set, key, g)] \in Injection(set, 1..Cardinality(set))
<1> DEFINE above(g) == {h \in set : Before(key, h, g)}
<1>1. Cardinality(set) \in Nat
  BY FS_CardinalityType
<1>2. ASSUME NEW g \in set
      PROVE  /\ IsFiniteSet(above(g)) /\ Cardinality(above(g)) \in Nat
             /\ Cardinality(above(g)) < Cardinality(set)
  <2>1. above(g) \subseteq set \ {g}
    BY BeforeIsTotal
  <2>2. IsFiniteSet(set \ {g}) /\ Cardinality(set \ {g}) = Cardinality(set) - 1
    BY FS_RemoveElement
  <2>3. IsFiniteSet(above(g)) /\ Cardinality(above(g)) <= Cardinality(set) - 1
    BY <2>1, <2>2, FS_Subset
  <2>4. Cardinality(above(g)) \in Nat
    BY <2>3, FS_CardinalityType
  <2> QED
    BY <1>1, <2>3, <2>4
<1>3. ASSUME NEW g \in set, NEW h \in set, Before(key, g, h)
      PROVE  Cardinality(above(g)) < Cardinality(above(h))
  <2>1. above(g) \subseteq above(h)
    BY <1>3, BeforeIsTransitive
  <2>2. g \in above(h) /\ g \notin above(g)
    BY <1>3, BeforeIsTotal
  <2>3. /\ Cardinality(above(g)) <= Cardinality(above(h))
        /\ Cardinality(above(g)) # Cardinality(above(h))
    BY <1>2, <2>1, <2>2, FS_Subset
  <2> QED
    BY <1>2, <2>3
<1>4. \A g \in set : Place(set, key, g) = 1 + Cardinality(above(g))
  BY DEF Place
<1> HIDE DEF above
<1>5. \A g \in set : Place(set, key, g) \in 1..Cardinality(set)
  BY <1>1, <1>2, <1>4
<1>6. ASSUME NEW g \in set, NEW h \in set, Place(set, key, g) = Place(set, key, h)
      PROVE  g = h
  <2>1. Cardinality(above(g)) = Cardinality(above(h))
    BY <1>2, <1>4, <1>6
  <2>2. ~Before(key, g, h) /\ ~Before(key, h, g)
    <3>1. Cardinality(above(g)) \in Nat
      BY <1>2
    <3> QED
      BY <1>3, <2>1, <3>1
  <2> QED
    BY <2>2, BeforeIsTotal
<1> DEFINE rank == [g \in set |-> Place(set, key, g)]
<1>7. /\ rank \in [set -> 1..Cardinality(set)]
      /\ \A g, h \in set : rank[g] = rank[h] => g = h
  BY <1>5, <1>6
<1> HIDE DEF rank
<1>8. rank \in Injection(set, 1..Cardinality(set))
  BY <1>7 DEF Injection, IsInjective
<1> QED
  BY <1>8 DEF rank

\* Every place is taken, so Top picks games of the set, each at its place.
LEMMA TopPicks ==
    ASSUME NEW set, set \subseteq Nat, IsFiniteSet(set), NEW m, NEW key, IsKey(key, set, m),
           NEW k \in Nat
    PROVE  /\ DOMAIN Top(set, key, k) =
                 1..(IF Cardinality(set) < k THEN Cardinality(set) ELSE k)
           /\ \A i \in DOMAIN Top(set, key, k) :
                 /\ Top(set, key, k)[i] \in set
                 /\ Place(set, key, Top(set, key, k)[i]) = i
<1> DEFINE rank == [g \in set |-> Place(set, key, g)]
           n == Cardinality(set)
           size == IF n < k THEN n ELSE k
<1>1. n \in Nat /\ IsFiniteSet(1..n) /\ Cardinality(1..n) = n
  BY FS_CardinalityType, FS_Interval
<1>2. rank \in Injection(set, 1..n)
  BY PlacesAreDistinct
<1>3. rank \in Surjection(set, 1..n)
  <2> HIDE DEF rank, n
  <2> QED
    BY <1>1, <1>2, FS_Injection DEF n
<1>4. Top(set, key, k) = [i \in 1..size |-> CHOOSE g \in set : rank[g] = i]
  BY DEF Top, Place
<1>5. \A i \in 1..n : \E g \in set : rank[g] = i
  BY <1>3 DEF Surjection
<1>6. 1..size \subseteq 1..n
  BY <1>1
<1>7. ASSUME NEW i \in 1..size
      PROVE  Top(set, key, k)[i] \in set /\ rank[Top(set, key, k)[i]] = i
  BY <1>4, <1>5, <1>6, <1>7
<1> QED
  BY <1>4, <1>7

-----------------------------------------------------------------------------
(* Scores. *)

\* What InputAssumption says of one input.
ValidInput(c, fb, s) ==
    /\ ValidContext(c)
    /\ \A g \in Games : ValidFeedback(fb[g]) /\ ValidSignal(s[g], c)

LEMMA BaseScoreBounds ==
    ASSUME NEW s, NEW c, c.platforms \in Nat, ValidSignal(s, c)
    PROVE  LET b == BaseScore(s, c) IN
           /\ b.base \in 0..Scale /\ b.content \in 0..Scale
           /\ b.platform \in 0..Scale /\ b.popularity \in 0..Scale
<1> DEFINE content == Quantize(s.similarity, Parts)
           platform == PlatformUnits(s.matches, c.platforms)
           popularity == Quantize(s.popularity, Parts)
           x == Contribution(content, ContentWeight)
           y == Contribution(platform, PlatformWeight)
           z == Contribution(popularity, PopularityWeight)
<1>1. content \in 0..Scale /\ popularity \in 0..Scale
  BY Numbers, QuantizeBounds DEF ValidSignal
<1>2. platform \in 0..Scale
  <2>1. CASE c.platforms = 0
    BY <2>1, Numbers DEF PlatformUnits
  <2>2. CASE c.platforms # 0
    BY <2>2, QuantizeBounds DEF PlatformUnits, ValidSignal
  <2> QED
    BY <2>1, <2>2
<1>3. /\ ContentWeight \in 0..Scale /\ PlatformWeight \in 0..Scale
      /\ PopularityWeight \in 0..Scale
  BY Numbers
<1> HIDE DEF content, platform, popularity
<1>4. /\ x \in 0..Scale /\ x <= ContentWeight
      /\ y \in 0..Scale /\ y <= PlatformWeight
      /\ z \in 0..Scale /\ z <= PopularityWeight
  BY <1>1, <1>2, <1>3, ContributionBounds
<1> HIDE DEF x, y, z
<1>5. x + y + z \in 0..Scale
  BY <1>4, Numbers
<1>6. BaseScore(s, c) = [base |-> x + y + z, content |-> content,
                         platform |-> platform, popularity |-> popularity]
  BY DEF BaseScore, x, y, z, content, platform, popularity
<1> QED
  BY <1>1, <1>2, <1>5, <1>6

\* More content, more preferred platforms, more popularity: no lower base score.
LEMMA BaseScoreGrows ==
    ASSUME NEW s, NEW t, NEW c, c.platforms \in Nat, ValidSignal(s, c), ValidSignal(t, c),
           s.similarity <= t.similarity, s.matches <= t.matches, s.popularity <= t.popularity
    PROVE  BaseScore(s, c).base <= BaseScore(t, c).base
<1> DEFINE content(v) == Quantize(v.similarity, Parts)
           platform(v) == PlatformUnits(v.matches, c.platforms)
           popularity(v) == Quantize(v.popularity, Parts)
           x(v) == Contribution(content(v), ContentWeight)
           y(v) == Contribution(platform(v), PlatformWeight)
           z(v) == Contribution(popularity(v), PopularityWeight)
<1>1. /\ content(s) \in 0..Scale /\ content(t) \in 0..Scale
      /\ popularity(s) \in 0..Scale /\ popularity(t) \in 0..Scale
      /\ content(s) <= content(t) /\ popularity(s) <= popularity(t)
  BY Numbers, QuantizeBounds, QuantizeGrows DEF ValidSignal
<1>2. /\ platform(s) \in 0..Scale /\ platform(t) \in 0..Scale
      /\ platform(s) <= platform(t)
  <2>1. CASE c.platforms = 0
    BY <2>1, Numbers DEF PlatformUnits
  <2>2. CASE c.platforms # 0
    BY <2>2, QuantizeBounds, QuantizeGrows DEF PlatformUnits, ValidSignal
  <2> QED
    BY <2>1, <2>2
<1>3. /\ ContentWeight \in 0..Scale /\ PlatformWeight \in 0..Scale
      /\ PopularityWeight \in 0..Scale
  BY Numbers
<1> HIDE DEF content, platform, popularity
<1>4. \A v \in {s, t} : x(v) \in 0..Scale /\ y(v) \in 0..Scale /\ z(v) \in 0..Scale
  BY <1>1, <1>2, <1>3, ContributionBounds
<1>5. x(s) <= x(t) /\ y(s) <= y(t) /\ z(s) <= z(t)
  BY <1>1, <1>2, <1>3, Numbers, ContributionGrows
<1> HIDE DEF x, y, z
<1>6. x(s) + y(s) + z(s) <= x(t) + y(t) + z(t)
  BY <1>4, <1>5
<1>7. \A v : BaseScore(v, c).base = x(v) + y(v) + z(v)
  BY DEF BaseScore, x, y, z, content, platform, popularity
<1> QED
  BY <1>6, <1>7

\* The parts of a personal score, named once.
LEMMA PersonalScoreIs ==
    ASSUME NEW s, NEW c, NEW f, NEW sources
    PROVE  LET p == PersonalScore(s, c, f, sources)
               b == BaseScore(s, c)
           IN  /\ p.base = b.base /\ p.content = b.content
               /\ p.platform = b.platform /\ p.popularity = b.popularity
               /\ p.affinity = IF sources = {} THEN 0 ELSE Quantize(s.affinity, Parts)
               /\ p.pre = Contribution(p.base, BlendOf(sources).base)
                          + Contribution(p.affinity, BlendOf(sources).affinity)
               /\ p.final = Contribution(p.pre, FactorOf(f))
               /\ p.delta = p.final - p.pre
BY DEF PersonalScore

LEMMA BlendFacts ==
    ASSUME NEW sources
    PROVE  LET blend == BlendOf(sources) IN
           /\ blend.base \in 0..Scale /\ blend.affinity \in 0..Scale
           /\ blend.base + blend.affinity = Scale
BY Numbers DEF BlendOf

\* A personal score and all its parts are units, and playing never adds.
LEMMA PersonalScoreBounds ==
    ASSUME NEW s, NEW c, NEW f, NEW sources, c.platforms \in Nat, ValidSignal(s, c)
    PROVE  LET p == PersonalScore(s, c, f, sources) IN
           /\ p.final \in 0..Scale /\ p.pre \in 0..Scale /\ p.base \in 0..Scale
           /\ p.affinity \in 0..Scale /\ p.content \in 0..Scale
           /\ p.platform \in 0..Scale /\ p.popularity \in 0..Scale
           /\ p.delta \in (-Scale)..0
<1> DEFINE p == PersonalScore(s, c, f, sources)
           x == Contribution(p.base, BlendOf(sources).base)
           y == Contribution(p.affinity, BlendOf(sources).affinity)
<1>1. /\ p.base \in 0..Scale /\ p.content \in 0..Scale
      /\ p.platform \in 0..Scale /\ p.popularity \in 0..Scale
  BY PersonalScoreIs, BaseScoreBounds
<1>2. p.affinity \in 0..Scale
  <2>1. Quantize(s.affinity, Parts) \in 0..Scale
    BY Numbers, QuantizeBounds DEF ValidSignal
  <2> QED
    BY <2>1, Numbers, PersonalScoreIs
<1>3. p.pre = x + y /\ p.final = Contribution(p.pre, FactorOf(f)) /\ p.delta = p.final - p.pre
  BY PersonalScoreIs
<1> HIDE DEF p
<1>4. x \in 0..Scale /\ x <= BlendOf(sources).base /\ y \in 0..Scale /\ y <= BlendOf(sources).affinity
  BY <1>1, <1>2, BlendFacts, ContributionBounds
<1> HIDE DEF x, y
<1>5. p.pre \in 0..Scale
  BY <1>3, <1>4, BlendFacts, Numbers
<1>6. FactorOf(f) \in 0..Scale
  BY Numbers DEF FactorOf
<1>7. p.final \in 0..Scale /\ p.final <= p.pre
  BY <1>3, <1>5, <1>6, ContributionBounds
<1>8. p.delta \in (-Scale)..0
  BY <1>3, <1>5, <1>7, Numbers
<1> QED
  BY <1>1, <1>2, <1>5, <1>7, <1>8 DEF p

\* A game that is no worse in any signal, and not played unless the other is, has no lower
\* final score.
LEMMA PersonalScoreGrows ==
    ASSUME NEW s, NEW t, NEW c, NEW f, NEW e, NEW sources, c.platforms \in Nat,
           ValidSignal(s, c), ValidSignal(t, c),
           s.similarity <= t.similarity, s.matches <= t.matches,
           s.popularity <= t.popularity, s.affinity <= t.affinity, e.played => f.played
    PROVE  PersonalScore(s, c, f, sources).final <= PersonalScore(t, c, e, sources).final
<1> DEFINE p == PersonalScore(s, c, f, sources)
           q == PersonalScore(t, c, e, sources)
           blend == BlendOf(sources)
<1>1. /\ p.base \in 0..Scale /\ q.base \in 0..Scale
      /\ p.affinity \in 0..Scale /\ q.affinity \in 0..Scale
      /\ p.pre \in 0..Scale /\ q.pre \in 0..Scale
  BY PersonalScoreBounds
<1>2. p.base <= q.base
  BY PersonalScoreIs, BaseScoreGrows
<1>3. p.affinity <= q.affinity
  <2>1. Quantize(s.affinity, Parts) <= Quantize(t.affinity, Parts)
    BY Numbers, QuantizeGrows DEF ValidSignal
  <2> QED
    BY <2>1, PersonalScoreIs
<1>4. /\ p.pre = Contribution(p.base, blend.base) + Contribution(p.affinity, blend.affinity)
      /\ q.pre = Contribution(q.base, blend.base) + Contribution(q.affinity, blend.affinity)
      /\ p.final = Contribution(p.pre, FactorOf(f))
      /\ q.final = Contribution(q.pre, FactorOf(e))
  BY PersonalScoreIs
<1>5. blend.base \in 0..Scale /\ blend.affinity \in 0..Scale
  BY BlendFacts
<1> HIDE DEF p, q, blend
<1>6. p.pre <= q.pre
  <2>1. /\ Contribution(p.base, blend.base) \in 0..Scale
        /\ Contribution(q.base, blend.base) \in 0..Scale
        /\ Contribution(p.affinity, blend.affinity) \in 0..Scale
        /\ Contribution(q.affinity, blend.affinity) \in 0..Scale
    BY <1>1, <1>5, ContributionBounds
  <2>2. /\ Contribution(p.base, blend.base) <= Contribution(q.base, blend.base)
        /\ Contribution(p.affinity, blend.affinity) <= Contribution(q.affinity, blend.affinity)
    BY <1>1, <1>2, <1>3, <1>5, Numbers, ContributionGrows
  <2> QED
    BY <1>4, <2>1, <2>2
<1>7. FactorOf(f) \in Nat /\ FactorOf(e) \in Nat /\ FactorOf(f) <= FactorOf(e)
  BY Numbers DEF FactorOf
<1> QED
  BY <1>1, <1>4, <1>6, <1>7, Numbers, ContributionGrows DEF p, q

-----------------------------------------------------------------------------
(* The answer, with its parts named. *)

Eligible(c, fb, s) ==
    Candidates(EffectiveContext(c, fb), s) \ (Disliked(fb) \cup PositiveSources(fb))

ScoreOf(c, fb, s, g) ==
    PersonalScore(s[g], EffectiveContext(c, fb), fb[g], PositiveSources(fb))

KeyOf(c, fb, s) ==
    [g \in Eligible(c, fb, s) |->
       <<ScoreOf(c, fb, s, g).final, ScoreOf(c, fb, s, g).pre, ScoreOf(c, fb, s, g).base,
         ScoreOf(c, fb, s, g).affinity, ScoreOf(c, fb, s, g).content,
         ScoreOf(c, fb, s, g).popularity>>]

TopOf(c, fb, s) == Top(Eligible(c, fb, s), KeyOf(c, fb, s), c.topK)

ItemsOf(c, fb, s) ==
    [i \in DOMAIN TopOf(c, fb, s) |->
       [slug |-> TopOf(c, fb, s)[i], score |-> ScoreOf(c, fb, s, TopOf(c, fb, s)[i])]]

\* Dropping disliked games from the selection changes nothing else of a context.
LEMMA EffectiveFacts ==
    ASSUME NEW c, NEW fb, ValidContext(c)
    PROVE  LET e == EffectiveContext(c, fb) IN
           /\ e.selected = c.selected \ Disliked(fb) /\ e.taxonomy = c.taxonomy
           /\ e.platforms = c.platforms /\ e.topK = c.topK
           /\ c.platforms \in Nat /\ c.topK \in 1..20
BY DEF EffectiveContext, ValidContext

LEMMA ScoreFacts ==
    ASSUME NEW c, NEW fb, NEW s, ValidInput(c, fb, s), NEW g \in Games
    PROVE  LET p == ScoreOf(c, fb, s, g) IN
           /\ p.final \in 0..Scale /\ p.pre \in 0..Scale /\ p.base \in 0..Scale
           /\ p.affinity \in 0..Scale /\ p.content \in 0..Scale
           /\ p.platform \in 0..Scale /\ p.popularity \in 0..Scale
           /\ p.delta \in (-Scale)..0
<1> DEFINE e == EffectiveContext(c, fb)
<1>1. e.platforms = c.platforms /\ c.platforms \in Nat
  BY EffectiveFacts DEF ValidInput
<1>2. ValidSignal(s[g], c)
  BY DEF ValidInput
<1>3. ValidSignal(s[g], e)
  BY <1>1, <1>2 DEF ValidSignal
<1> HIDE DEF e
<1> QED
  BY <1>1, <1>3, PersonalScoreBounds DEF ScoreOf, e

LEMMA EligibleFacts ==
    ASSUME NEW c, NEW fb, NEW s
    PROVE  /\ Eligible(c, fb, s) \subseteq Games /\ Eligible(c, fb, s) \subseteq Nat
           /\ IsFiniteSet(Eligible(c, fb, s))
<1>1. Eligible(c, fb, s) \subseteq Games
  BY DEF Eligible, Candidates
<1> QED
  BY <1>1, FS_Subset, ConfigAssumption

LEMMA KeyFacts ==
    ASSUME NEW c, NEW fb, NEW s, ValidInput(c, fb, s)
    PROVE  IsKey(KeyOf(c, fb, s), Eligible(c, fb, s), 6)
<1> DEFINE set == Eligible(c, fb, s)
           score(g) == ScoreOf(c, fb, s, g)
<1>1. ASSUME NEW g \in set
      PROVE  <<score(g).final, score(g).pre, score(g).base, score(g).affinity,
               score(g).content, score(g).popularity>> \in [1..6 -> Int]
  <2>1. /\ score(g).final \in Int /\ score(g).pre \in Int /\ score(g).base \in Int
        /\ score(g).affinity \in Int /\ score(g).content \in Int /\ score(g).popularity \in Int
    BY EligibleFacts, ScoreFacts, Numbers
  <2> HIDE DEF score
  <2> QED
    BY <2>1
<1> QED
  BY <1>1 DEF IsKey, KeyOf

\* The games that are picked are eligible.
LEMMA PickedFacts ==
    ASSUME NEW c, NEW fb, NEW s, ValidInput(c, fb, s)
    PROVE  /\ \E n \in 0..c.topK : DOMAIN TopOf(c, fb, s) = 1..n
           /\ \A i \in DOMAIN TopOf(c, fb, s) : TopOf(c, fb, s)[i] \in Eligible(c, fb, s)
<1> DEFINE set == Eligible(c, fb, s)
           key == KeyOf(c, fb, s)
           k == c.topK
           n == IF Cardinality(set) < k THEN Cardinality(set) ELSE k
<1>1. k \in Nat
  BY EffectiveFacts DEF ValidInput
<1>2. set \subseteq Nat /\ IsFiniteSet(set) /\ IsKey(key, set, 6)
  BY EligibleFacts, KeyFacts
<1>3. Cardinality(set) \in Nat
  BY <1>2, FS_CardinalityType
<1>4. n \in 0..k
  BY <1>1, <1>3
<1> HIDE DEF set, key, k
<1>5. /\ DOMAIN Top(set, key, k) = 1..n
      /\ \A i \in DOMAIN Top(set, key, k) : Top(set, key, k)[i] \in set
  BY <1>1, <1>2, TopPicks
<1> QED
  BY <1>4, <1>5 DEF TopOf, set, key, k

LEMMA PersonalizedIs ==
    ASSUME NEW c, NEW fb, NEW s, ValidInput(c, fb, s)
    PROVE  LET e == EffectiveContext(c, fb) IN
           Personalized(c, fb, s) =
             IF ~HasSignal(e) THEN [reason |-> "insufficient_context", items |-> <<>>]
             ELSE IF Candidates(e, s) = {}
               THEN [reason |-> "no_content_support", items |-> <<>>]
             ELSE IF Eligible(c, fb, s) = {}
               THEN [reason |-> "no_eligible_candidates", items |-> <<>>]
             ELSE [reason |-> "recommendations", items |-> ItemsOf(c, fb, s)]
<1> DEFINE set == Eligible(c, fb, s)
           score == [g \in set |-> ScoreOf(c, fb, s, g)]
           key == [g \in set |->
                    <<score[g].final, score[g].pre, score[g].base, score[g].affinity,
                      score[g].content, score[g].popularity>>]
           top == Top(set, key, EffectiveContext(c, fb).topK)
<1>1. key = KeyOf(c, fb, s)
  BY DEF KeyOf
<1>2. top = TopOf(c, fb, s)
  <2>1. EffectiveContext(c, fb).topK = c.topK
    BY EffectiveFacts DEF ValidInput
  <2> HIDE DEF key, set
  <2> QED
    BY <1>1, <2>1 DEF TopOf, set
<1>3. [i \in DOMAIN top |-> [slug |-> top[i], score |-> score[top[i]]]] = ItemsOf(c, fb, s)
  <2> HIDE DEF top
  <2>1. \A i \in DOMAIN top : score[top[i]] = ScoreOf(c, fb, s, top[i])
    BY <1>2, PickedFacts
  <2> HIDE DEF score
  <2> QED
    BY <1>2, <2>1 DEF ItemsOf
<1> QED
  BY <1>3 DEF Personalized, Eligible, ScoreOf

-----------------------------------------------------------------------------
(* The inductive invariant and the theorems. *)

\* The input is valid, and the answer is still to come or is what the policy makes of it.
AnswerInv ==
    /\ ValidInput(context, feedback, signals)
    /\ answer \in {NoAnswer, Personalized(context, feedback, signals)}

LEMMA AnswerInvHolds == Spec => []AnswerInv
<1>1. Init => AnswerInv
  BY InputAssumption DEF Init, AnswerInv, ValidInput
<1>2. AnswerInv /\ [Next]_vars => AnswerInv'
  BY DEF AnswerInv, ValidInput, Next, Rank, vars
<1> QED
  BY <1>1, <1>2, PTL DEF Spec

\* A game that is shown is eligible and has its own score.
LEMMA ShownFacts ==
    ASSUME AnswerInv, NEW item \in Shown
    PROVE  /\ item.slug \in Eligible(context, feedback, signals)
           /\ item.score = ScoreOf(context, feedback, signals, item.slug)
<1> DEFINE items == ItemsOf(context, feedback, signals)
<1>1. PICK i \in DOMAIN answer.items : item = answer.items[i]
  BY DEF Shown
<1>2. answer.items \in {<<>>, items}
  BY PersonalizedIs DEF AnswerInv, NoAnswer
<1>3. answer.items = items
  BY <1>1, <1>2
<1>4. /\ i \in DOMAIN TopOf(context, feedback, signals)
      /\ item = [slug |-> TopOf(context, feedback, signals)[i],
                 score |-> ScoreOf(context, feedback, signals,
                                   TopOf(context, feedback, signals)[i])]
  BY <1>1, <1>3 DEF ItemsOf
<1> QED
  BY <1>4, PickedFacts DEF AnswerInv

\* ranking.py and feedback.py: for any games, weights, scale and signals, every part of every
\* score that is answered is in its range, no contribution exceeds its weight, playing never
\* adds, and no more games are answered than were asked for.
THEOREM ScoresInRange == Spec => []TypeOK
<1>1. ASSUME AnswerInv PROVE TypeOK
  <2>1. /\ answer.reason \in {"none", "insufficient_context", "no_content_support",
                              "no_eligible_candidates", "recommendations"}
        /\ answer.items \in {<<>>, ItemsOf(context, feedback, signals)}
    BY <1>1, PersonalizedIs DEF AnswerInv, NoAnswer
  <2>2. Len(answer.items) <= context.topK
    <3>1. context.topK \in 1..20
      BY <1>1, EffectiveFacts DEF AnswerInv, ValidInput
    <3>2. PICK n \in 0..context.topK : DOMAIN TopOf(context, feedback, signals) = 1..n
      BY <1>1, PickedFacts DEF AnswerInv
    <3> DEFINE items == ItemsOf(context, feedback, signals)
    <3>3. items \in [1..n -> {items[i] : i \in 1..n}]
      BY <3>2 DEF ItemsOf
    <3> HIDE DEF items
    <3>4. items \in Seq({items[i] : i \in 1..n}) /\ DOMAIN items = 1..n
      BY <3>2, <3>3
    <3>5. Len(items) = n
      BY <3>1, <3>2, <3>4
    <3> QED
      BY <2>1, <3>1, <3>2, <3>5 DEF items
  <2>3. ASSUME NEW item \in Shown
        PROVE  /\ item.slug \in Games
               /\ \A n \in {"final", "pre", "base", "affinity", "content", "platform",
                            "popularity"} : item.score[n] \in 0..Scale
               /\ item.score.delta \in (-Scale)..0
               /\ \A w \in {ContentWeight, AffinityWeight, BaseWeight} :
                     Contribution(item.score.content, w) <= w
    <3>1. item.slug \in Games
      BY <1>1, ShownFacts, EligibleFacts
    <3>2. /\ item.score.final \in 0..Scale /\ item.score.pre \in 0..Scale
          /\ item.score.base \in 0..Scale /\ item.score.affinity \in 0..Scale
          /\ item.score.content \in 0..Scale /\ item.score.platform \in 0..Scale
          /\ item.score.popularity \in 0..Scale /\ item.score.delta \in (-Scale)..0
      BY <1>1, <3>1, ShownFacts, ScoreFacts DEF AnswerInv
    <3>3. \A w \in {ContentWeight, AffinityWeight, BaseWeight} : w \in 0..Scale
      BY Numbers
    <3> QED
      BY <3>1, <3>2, <3>3, ContributionBounds
  <2> QED
    BY <2>1, <2>2, <2>3 DEF TypeOK
<1> QED
  BY <1>1, AnswerInvHolds, PTL

\* ranking.py, quantize and contribution: for any weights, scale and signals, a shown game
\* that is no worse than another in every signal, and not played unless the other is, has at
\* least its final score - rounding never turns an advantage round.
THEOREM RoundingKeepsDominance == Spec => []DominanceIsKept
<1>1. ASSUME AnswerInv PROVE DominanceIsKept
  <2> SUFFICES ASSUME NEW a \in Shown, NEW b \in Shown,
                      \A n \in {"similarity", "matches", "popularity", "affinity"} :
                         signals[a.slug][n] >= signals[b.slug][n],
                      feedback[a.slug].played => feedback[b.slug].played
               PROVE  a.score.final >= b.score.final
    BY DEF DominanceIsKept
  <2> DEFINE s == signals[a.slug]
             t == signals[b.slug]
             c == EffectiveContext(context, feedback)
             sources == PositiveSources(feedback)
  <2>1. /\ a.slug \in Games /\ b.slug \in Games
        /\ a.score = PersonalScore(s, c, feedback[a.slug], sources)
        /\ b.score = PersonalScore(t, c, feedback[b.slug], sources)
    BY <1>1, ShownFacts, EligibleFacts DEF ScoreOf
  <2>2. c.platforms = context.platforms /\ c.platforms \in Nat
    BY <1>1, EffectiveFacts DEF AnswerInv, ValidInput
  <2>3. ValidSignal(s, c) /\ ValidSignal(t, c)
    BY <1>1, <2>1, <2>2 DEF AnswerInv, ValidInput, ValidSignal
  <2>4. /\ t.similarity <= s.similarity /\ t.matches <= s.matches
        /\ t.popularity <= s.popularity /\ t.affinity <= s.affinity
    <3>1. /\ s.similarity \in Int /\ t.similarity \in Int /\ s.popularity \in Int
          /\ t.popularity \in Int /\ s.affinity \in Int /\ t.affinity \in Int
          /\ s.matches \in Int /\ t.matches \in Int
      BY <2>3 DEF ValidSignal
    <3> QED
      BY <3>1
  <2> HIDE DEF c, s, t, sources
  <2>5. /\ a.score.final \in 0..Scale /\ b.score.final \in 0..Scale
    BY <2>1, <2>2, <2>3, PersonalScoreBounds
  <2>6. b.score.final <= a.score.final
    BY <2>1, <2>2, <2>3, <2>4, PersonalScoreGrows
  <2> QED
    BY <2>5, <2>6, Numbers
<1> QED
  BY <1>1, AnswerInvHolds, PTL

\* What counts as positive feedback, and since when.
LEMMA PositiveFacts ==
    ASSUME NEW f, ValidFeedback(f)
    PROVE  /\ PositiveAt(f) \in Nat
           /\ f.reaction = "liked" => PositiveAt(f) = f.reactedAt /\ f.reactedAt # None
           /\ (PositiveAt(f) # None /\ f.reaction # "liked") =>
                 /\ f.reaction = "none" /\ f.rating >= Threshold
                 /\ PositiveAt(f) = f.ratedAt
BY DEF ValidFeedback, PositiveAt, None

\* feedback.py, _positive_sources and rank: for any games and feedback, a shown game is not
\* disliked, is not one of the saved games, and if it is liked, as many other games as feed
\* the profile were liked or rated well no earlier.
THEOREM RejectedStaysHidden == Spec => []NothingRejectedIsShown
<1>1. ASSUME AnswerInv PROVE NothingRejectedIsShown
  <2> SUFFICES ASSUME NEW item \in Shown, NEW g, g = item.slug
               PROVE  /\ feedback[g].reaction # "disliked"
                      /\ g \notin context.selected
                      /\ feedback[g].reaction = "liked" =>
                           Cardinality({h \in Games \ {g} :
                             /\ \/ feedback[h].reaction = "liked"
                                \/ feedback[h].reaction = "none"
                                   /\ feedback[h].rating >= Threshold
                             /\ (IF feedback[h].reaction = "liked" THEN feedback[h].reactedAt
                                 ELSE feedback[h].ratedAt) >= feedback[g].reactedAt})
                             >= MaxSources
    BY DEF NothingRejectedIsShown
  <2>1. g \in Eligible(context, feedback, signals) /\ g \in Games
    BY <1>1, ShownFacts, EligibleFacts
  <2>2. /\ g \notin Disliked(feedback) /\ g \notin PositiveSources(feedback)
        /\ g \notin EffectiveContext(context, feedback).selected
    BY <2>1 DEF Eligible, Candidates
  <2>3. g \notin context.selected
    BY <1>1, <2>2, EffectiveFacts DEF AnswerInv, ValidInput
  <2>4. ASSUME feedback[g].reaction = "liked"
        PROVE  Cardinality({h \in Games \ {g} :
                 /\ \/ feedback[h].reaction = "liked"
                    \/ feedback[h].reaction = "none" /\ feedback[h].rating >= Threshold
                 /\ (IF feedback[h].reaction = "liked" THEN feedback[h].reactedAt
                     ELSE feedback[h].ratedAt) >= feedback[g].reactedAt}) >= MaxSources
    <3> DEFINE since(h) == IF feedback[h].reaction = "liked" THEN feedback[h].reactedAt
                           ELSE feedback[h].ratedAt
               rivals == {h \in Games \ {g} :
                            /\ \/ feedback[h].reaction = "liked"
                               \/ feedback[h].reaction = "none"
                                  /\ feedback[h].rating >= Threshold
                            /\ since(h) >= feedback[g].reactedAt}
               positive == {h \in Games : PositiveAt(feedback[h]) # None}
               newer == {h \in positive :
                           \/ PositiveAt(feedback[h]) > PositiveAt(feedback[g])
                           \/ PositiveAt(feedback[h]) = PositiveAt(feedback[g]) /\ h < g}
    <3>1. \A h \in Games : ValidFeedback(feedback[h])
      BY <1>1 DEF AnswerInv, ValidInput
    <3>2. PositiveAt(feedback[g]) = feedback[g].reactedAt /\ g \in positive
      BY <2>1, <2>4, <3>1, PositiveFacts
    <3>3. ~(Cardinality(newer) < MaxSources)
      BY <2>2, <3>2 DEF PositiveSources
    <3>4. newer \subseteq rivals
      <4> SUFFICES ASSUME NEW h \in newer PROVE h \in rivals
        OBVIOUS
      <4>1. h \in Games /\ h # g
        BY <2>1, ConfigAssumption, <3>1, PositiveFacts
      <4>2. PositiveAt(feedback[h]) >= feedback[g].reactedAt
        BY <2>1, <3>1, <3>2, <4>1, PositiveFacts
      <4>3. since(h) = PositiveAt(feedback[h])
            /\ \/ feedback[h].reaction = "liked"
               \/ feedback[h].reaction = "none" /\ feedback[h].rating >= Threshold
        BY <3>1, <4>1, PositiveFacts
      <4> QED
        BY <4>1, <4>2, <4>3
    <3>5. IsFiniteSet(rivals) /\ rivals \subseteq Games
      <4>1. rivals \subseteq Games
        OBVIOUS
      <4> QED
        BY <4>1, FS_Subset, ConfigAssumption
    <3> HIDE DEF rivals, newer
    <3>6. /\ Cardinality(newer) <= Cardinality(rivals)
          /\ Cardinality(newer) \in Nat /\ Cardinality(rivals) \in Nat
      BY <3>4, <3>5, FS_Subset, FS_CardinalityType
    <3>7. Cardinality(rivals) >= MaxSources
      BY <3>3, <3>6, ConfigAssumption DEF ValidConfig, ValidPolicy
    <3> QED
      BY <3>7 DEF rivals
  <2> QED
    BY <2>1, <2>2, <2>3, <2>4 DEF Disliked
<1> QED
  BY <1>1, AnswerInvHolds, PTL

-----------------------------------------------------------------------------
\* Neutralized feedback is valid, and the policy reads the same things in it.
LEMMA NeutralizedFacts ==
    ASSUME NEW f, ValidFeedback(f)
    PROVE  /\ ValidFeedback(Neutralized(f))
           /\ PositiveAt(Neutralized(f)) = PositiveAt(f)
           /\ Neutralized(f).reaction = f.reaction
           /\ FactorOf(Neutralized(f)) = FactorOf(f)
<1> DEFINE n == Neutralized(f)
           rating == IF f.reaction # "none" \/ f.rating < Threshold THEN 0 ELSE f.rating
<1>1. /\ f \in [reaction : {"none", "liked", "disliked"}, reactedAt : Nat, rating : 0..10,
                ratedAt : Nat, played : BOOLEAN, wishlisted : BOOLEAN]
      /\ Threshold \in 0..10
  BY ConfigAssumption DEF ValidFeedback, ValidPolicy
<1>2. n = [reaction |-> f.reaction, reactedAt |-> f.reactedAt, rating |-> rating,
           ratedAt |-> f.ratedAt, played |-> f.played, wishlisted |-> FALSE]
  <2> DEFINE w == [f EXCEPT !.wishlisted = FALSE]
  <2>1. w = [reaction |-> f.reaction, reactedAt |-> f.reactedAt, rating |-> f.rating,
             ratedAt |-> f.ratedAt, played |-> f.played, wishlisted |-> FALSE]
    <3>1. f = [reaction |-> f.reaction, reactedAt |-> f.reactedAt, rating |-> f.rating,
               ratedAt |-> f.ratedAt, played |-> f.played, wishlisted |-> f.wishlisted]
      BY <1>1
    <3> DEFINE e(wish) == [reaction |-> f.reaction, reactedAt |-> f.reactedAt,
                           rating |-> f.rating, ratedAt |-> f.ratedAt,
                           played |-> f.played, wishlisted |-> wish]
    <3>2. ASSUME NEW wish PROVE [e(f.wishlisted) EXCEPT !.wishlisted = wish] = e(wish)
      OBVIOUS
    <3>3. f = e(f.wishlisted)
      BY <3>1
    <3> HIDE DEF e
    <3>4. [e(f.wishlisted) EXCEPT !.wishlisted = FALSE] = e(FALSE)
      BY <3>2, Zenon
    <3>5. w = e(FALSE)
      BY <3>3, <3>4, Zenon
    <3> QED
      BY <3>5 DEF e
  <2>2. w.rating = f.rating
    BY <2>1
  <2>3. n = [w EXCEPT !.rating = rating]
    BY <2>2 DEF Neutralized
  <2> HIDE DEF w, rating, n
  <2> QED
    BY <2>1, <2>3
<1>3. rating \in 0..10
  BY <1>1
<1>4. f.reaction = "none" => (rating >= Threshold <=> f.rating >= Threshold)
  BY <1>1
<1>5. f.ratedAt = None => rating = 0
  BY DEF ValidFeedback
<1> HIDE DEF rating, n
<1>6. ValidFeedback(n)
  BY <1>1, <1>2, <1>3, <1>5 DEF ValidFeedback
<1>7. PositiveAt(n) = PositiveAt(f)
  BY <1>2, <1>4 DEF PositiveAt
<1>8. n.reaction = f.reaction /\ FactorOf(n) = FactorOf(f)
  BY <1>2 DEF FactorOf
<1> QED
  BY <1>6, <1>7, <1>8 DEF n

\* Two feedbacks that the policy reads alike get the same answer.
LEMMA ReadAlike ==
    ASSUME NEW c, NEW s, NEW fb, NEW gb, ValidInput(c, fb, s), ValidInput(c, gb, s),
           \A g \in Games : /\ PositiveAt(gb[g]) = PositiveAt(fb[g])
                            /\ gb[g].reaction = fb[g].reaction
                            /\ FactorOf(gb[g]) = FactorOf(fb[g])
    PROVE  Personalized(c, gb, s) = Personalized(c, fb, s)
<1>1. Disliked(gb) = Disliked(fb)
  BY DEF Disliked
<1>2. PositiveSources(gb) = PositiveSources(fb)
  <2> DEFINE positive(x) == {g \in Games : PositiveAt(x[g]) # None}
             newer(x, g) == {h \in positive(x) :
                               \/ PositiveAt(x[h]) > PositiveAt(x[g])
                               \/ PositiveAt(x[h]) = PositiveAt(x[g]) /\ h < g}
  <2>1. positive(gb) = positive(fb)
    OBVIOUS
  <2>2. \A g \in positive(fb) : newer(gb, g) = newer(fb, g)
    BY <2>1
  <2>3. \A x : PositiveSources(x) = {g \in positive(x) : Cardinality(newer(x, g)) < MaxSources}
    BY DEF PositiveSources
  <2> HIDE DEF positive, newer
  <2> QED
    BY <2>1, <2>2, <2>3
<1>3. EffectiveContext(c, gb) = EffectiveContext(c, fb)
  BY <1>1 DEF EffectiveContext
<1>4. Eligible(c, gb, s) = Eligible(c, fb, s)
  BY <1>1, <1>2, <1>3 DEF Eligible
<1>5. \A g \in Games : ScoreOf(c, gb, s, g) = ScoreOf(c, fb, s, g)
  BY <1>2, <1>3 DEF ScoreOf, PersonalScore
<1>6. KeyOf(c, gb, s) = KeyOf(c, fb, s)
  <2>1. \A g \in Eligible(c, fb, s) : ScoreOf(c, gb, s, g) = ScoreOf(c, fb, s, g)
    BY <1>5, EligibleFacts
  <2> QED
    BY <1>4, <2>1 DEF KeyOf
<1>7. TopOf(c, gb, s) = TopOf(c, fb, s)
  BY <1>4, <1>6 DEF TopOf
<1>8. ItemsOf(c, gb, s) = ItemsOf(c, fb, s)
  <2>1. \A i \in DOMAIN TopOf(c, fb, s) :
          ScoreOf(c, gb, s, TopOf(c, fb, s)[i]) = ScoreOf(c, fb, s, TopOf(c, fb, s)[i])
    BY <1>5, PickedFacts, EligibleFacts
  <2> QED
    BY <1>7, <2>1 DEF ItemsOf
<1> QED
  BY <1>3, <1>4, <1>8, PersonalizedIs

\* feedback.py, rank: for any games and feedback, a wish, a rating beside a reaction and a
\* rating below the threshold change nothing in the answer.
THEOREM NeutralStaysNeutral == Spec => []NeutralFeedbackIsNeutral
<1>1. ASSUME AnswerInv PROVE NeutralFeedbackIsNeutral
  <2> DEFINE neutral == [g \in Games |-> Neutralized(feedback[g])]
  <2>1. \A g \in Games : /\ ValidFeedback(feedback[g])
                         /\ neutral[g] = Neutralized(feedback[g])
    BY <1>1 DEF AnswerInv, ValidInput
  <2> HIDE DEF neutral
  <2>2. /\ ValidInput(context, neutral, signals)
        /\ \A g \in Games : /\ PositiveAt(neutral[g]) = PositiveAt(feedback[g])
                            /\ neutral[g].reaction = feedback[g].reaction
                            /\ FactorOf(neutral[g]) = FactorOf(feedback[g])
    BY <1>1, <2>1, NeutralizedFacts DEF AnswerInv, ValidInput
  <2>3. Personalized(context, neutral, signals) = Personalized(context, feedback, signals)
    BY <1>1, <2>2, ReadAlike DEF AnswerInv
  <2> QED
    BY <1>1, <2>3 DEF AnswerInv, NeutralFeedbackIsNeutral, neutral
<1> QED
  BY <1>1, AnswerInvHolds, PTL

-----------------------------------------------------------------------------
\* The order of the stateless ranking, and the order of the personal one when no feedback
\* tells scores apart, are the same comparison of three numbers.
ThreeWay(x, y, g, h) ==
    \/ x[1] > y[1]
    \/ x[1] = y[1] /\ x[2] > y[2]
    \/ x[1] = y[1] /\ x[2] = y[2] /\ x[3] > y[3]
    \/ x[1] = y[1] /\ x[2] = y[2] /\ x[3] = y[3] /\ g < h

LEMMA StatelessOrder ==
    ASSUME NEW g, NEW h, NEW x, NEW y, NEW key,
           x \in [1..3 -> Int], y \in [1..3 -> Int], key[g] = x, key[h] = y
    PROVE  Before(key, g, h) <=> ThreeWay(x, y, g, h)
<1>1. \A i : i \in 1..3 <=> i \in {1, 2, 3}
  OBVIOUS
<1>2. /\ 1..(1 - 1) = {} /\ 1..(2 - 1) = {1} /\ 1..(3 - 1) = {1, 2}
  OBVIOUS
<1>3. x = y <=> x[1] = y[1] /\ x[2] = y[2] /\ x[3] = y[3]
  BY <1>1
<1>4. DOMAIN x = {1, 2, 3}
  BY <1>1
<1> QED
  BY <1>2, <1>3, <1>4 DEF Before, ThreeWay

LEMMA PersonalOrder ==
    ASSUME NEW g, NEW h, NEW x, NEW y, NEW key,
           x \in [1..3 -> Int], y \in [1..3 -> Int],
           key[g] = <<x[1], x[1], x[1], 0, x[2], x[3]>>,
           key[h] = <<y[1], y[1], y[1], 0, y[2], y[3]>>
    PROVE  Before(key, g, h) <=> ThreeWay(x, y, g, h)
<1> DEFINE u == key[g]
           v == key[h]
<1>1. /\ u[1] = x[1] /\ u[2] = x[1] /\ u[3] = x[1] /\ u[4] = 0 /\ u[5] = x[2] /\ u[6] = x[3]
      /\ v[1] = y[1] /\ v[2] = y[1] /\ v[3] = y[1] /\ v[4] = 0 /\ v[5] = y[2] /\ v[6] = y[3]
      /\ x[1] \in Int /\ x[2] \in Int /\ x[3] \in Int
      /\ y[1] \in Int /\ y[2] \in Int /\ y[3] \in Int
  OBVIOUS
<1>2. DOMAIN u = 1..6
  OBVIOUS
<1>3. u = v <=> x[1] = y[1] /\ x[2] = y[2] /\ x[3] = y[3]
  OBVIOUS
<1>4. Before(key, g, h) <=>
        \/ \E i \in 1..6 : u[i] > v[i] /\ \A j \in 1..(i - 1) : u[j] = v[j]
        \/ u = v /\ g < h
  BY <1>2 DEF Before
<1> HIDE DEF u, v
<1>5. ASSUME NEW i \in 1..6, u[i] > v[i], \A j \in 1..(i - 1) : u[j] = v[j]
      PROVE  ThreeWay(x, y, g, h)
  <2>1. CASE i = 1
    BY <1>1, <1>5, <2>1 DEF ThreeWay
  <2>2. CASE i \in {2, 3, 4}
    BY <1>1, <1>5, <2>2
  <2>3. CASE i = 5
    BY <1>1, <1>5, <2>3 DEF ThreeWay
  <2>4. CASE i = 6
    BY <1>1, <1>5, <2>4 DEF ThreeWay
  <2> QED
    BY <2>1, <2>2, <2>3, <2>4
<1>6. ASSUME ThreeWay(x, y, g, h)
      PROVE  \/ \E i \in 1..6 : u[i] > v[i] /\ \A j \in 1..(i - 1) : u[j] = v[j]
             \/ u = v /\ g < h
  <2>1. CASE x[1] > y[1]
    <3>1. u[1] > v[1] /\ \A j \in 1..(1 - 1) : u[j] = v[j]
      BY <1>1, <2>1
    <3> QED
      BY <3>1
  <2>2. CASE x[1] = y[1] /\ x[2] > y[2]
    <3>1. u[5] > v[5] /\ \A j \in 1..(5 - 1) : u[j] = v[j]
      <4>1. \A j \in 1..(5 - 1) : j \in {1, 2, 3, 4}
        OBVIOUS
      <4> QED
        BY <1>1, <2>2, <4>1
    <3> QED
      BY <3>1
  <2>3. CASE x[1] = y[1] /\ x[2] = y[2] /\ x[3] > y[3]
    <3>1. u[6] > v[6] /\ \A j \in 1..(6 - 1) : u[j] = v[j]
      <4>1. \A j \in 1..(6 - 1) : j \in {1, 2, 3, 4, 5}
        OBVIOUS
      <4> QED
        BY <1>1, <2>3, <4>1
    <3> QED
      BY <3>1
  <2>4. CASE x[1] = y[1] /\ x[2] = y[2] /\ x[3] = y[3] /\ g < h
    BY <1>3, <2>4
  <2> QED
    BY <1>6, <2>1, <2>2, <2>3, <2>4 DEF ThreeWay
<1>7. u = v /\ g < h => ThreeWay(x, y, g, h)
  BY <1>3 DEF ThreeWay
<1> QED
  BY <1>4, <1>5, <1>6, <1>7

\* feedback.py and ranking.py, rank: for any games, weights and signals, feedback that is
\* neither liked, disliked nor played leaves the games, scores and order of the stateless
\* endpoint.
THEOREM WithoutFeedbackStateless == Spec => []WithoutFeedbackItIsStateless
<1>1. ASSUME AnswerInv PROVE WithoutFeedbackItIsStateless
  <2> DEFINE c == context
             fb == feedback
             s == signals
             set == Candidates(c, s)
             score == [g \in set |-> BaseScore(s[g], c)]
             three(g) == <<score[g].base, score[g].content, score[g].popularity>>
             key == [g \in set |-> <<score[g].base, score[g].content, score[g].popularity>>]
             personal == KeyOf(c, fb, s)
  <2> SUFFICES ASSUME answer.reason = "recommendations",
                      PositiveSources(fb) = {}, Disliked(fb) = {},
                      \A g \in Games : ~fb[g].played
               PROVE  [i \in DOMAIN answer.items |->
                         [slug |-> answer.items[i].slug, final |-> answer.items[i].score.final]]
                      = StatelessItems(c, s)
    BY DEF WithoutFeedbackItIsStateless
  <2>1. ValidInput(c, fb, s) /\ answer.items = ItemsOf(c, fb, s)
    BY <1>1, PersonalizedIs DEF AnswerInv, NoAnswer
  <2>2. EffectiveContext(c, fb) = c
    <3>1. c \in [selected : SUBSET Games, taxonomy : {"none", "known", "unknown"},
                 platforms : Nat, topK : 1..20]
      BY <2>1 DEF ValidInput, ValidContext
    <3> QED
      BY <3>1 DEF EffectiveContext
  <2>3. Eligible(c, fb, s) = set
    BY <2>2 DEF Eligible
  <2>4. ASSUME NEW g \in set
        PROVE  LET p == ScoreOf(c, fb, s, g) IN
               /\ p.final = score[g].base /\ p.pre = score[g].base /\ p.base = score[g].base
               /\ p.affinity = 0 /\ p.content = score[g].content
               /\ p.popularity = score[g].popularity
               /\ score[g].base \in Int /\ score[g].content \in Int
               /\ score[g].popularity \in Int
    <3> DEFINE p == ScoreOf(c, fb, s, g)
               b == BaseScore(s[g], c)
    <3>1. g \in Games
      BY DEF Candidates
    <3>2. /\ p.base = b.base /\ p.content = b.content /\ p.popularity = b.popularity
          /\ p.affinity = 0
          /\ p.pre = Contribution(p.base, Scale) + Contribution(p.affinity, 0)
          /\ p.final = Contribution(p.pre, Scale)
      BY <2>2, <3>1, PersonalScoreIs DEF ScoreOf, BlendOf, FactorOf
    <3>3. b.base \in 0..Scale /\ b.content \in 0..Scale /\ b.popularity \in 0..Scale
      BY <2>1, <3>1, BaseScoreBounds DEF ValidInput, ValidContext
    <3>4. Contribution(b.base, Scale) = b.base /\ Contribution(0, 0) = 0
      BY <3>3, ContributionOfAll, Numbers
    <3>5. score[g] = b
      OBVIOUS
    <3> HIDE DEF p, b, score
    <3> QED
      BY <3>2, <3>3, <3>4, <3>5, Numbers DEF p
  <2>5. \A g \in set : personal[g] = <<score[g].base, score[g].base, score[g].base, 0,
                                       score[g].content, score[g].popularity>>
    <3> HIDE DEF score, set
    <3> QED
      BY <2>3, <2>4 DEF KeyOf
  <2>6. \A g \in set : key[g] = three(g) /\ three(g) \in [1..3 -> Int]
    <3> HIDE DEF score, set
    <3> QED
      BY <2>4
  <2>7. ASSUME NEW g \in set, NEW h \in set
        PROVE  Before(personal, g, h) <=> Before(key, g, h)
    <3>1. Before(key, g, h) <=> ThreeWay(three(g), three(h), g, h)
      <4> HIDE DEF key, three, set
      <4> QED
        BY <2>6, StatelessOrder
    <3>2. /\ personal[g] = <<three(g)[1], three(g)[1], three(g)[1], 0, three(g)[2], three(g)[3]>>
          /\ personal[h] = <<three(h)[1], three(h)[1], three(h)[1], 0, three(h)[2], three(h)[3]>>
      <4> HIDE DEF score, set
      <4> QED
        BY <2>5
    <3>3. Before(personal, g, h) <=> ThreeWay(three(g), three(h), g, h)
      <4> HIDE DEF personal, three, set
      <4> QED
        BY <2>6, <3>2, PersonalOrder
    <3> QED
      BY <3>1, <3>3
  <2>8. Top(set, personal, c.topK) = Top(set, key, c.topK)
    <3> HIDE DEF set, personal, key
    <3>1. \A g \in set : {h \in set : Before(personal, h, g)} = {h \in set : Before(key, h, g)}
      BY <2>7
    <3> DEFINE rank(x) == [g \in set |-> 1 + Cardinality({h \in set : Before(x, h, g)})]
               size == Cardinality(set)
               picked(x) == [i \in 1..(IF size < c.topK THEN size ELSE c.topK) |->
                               CHOOSE g \in set : x[g] = i]
    <3>2. rank(personal) = rank(key)
      BY <3>1
    <3>3. /\ Top(set, personal, c.topK) = picked(rank(personal))
          /\ Top(set, key, c.topK) = picked(rank(key))
      BY DEF Top
    <3> HIDE DEF rank, picked
    <3> QED
      BY <3>2, <3>3
  <2>9. TopOf(c, fb, s) = Top(set, key, c.topK)
    BY <2>3, <2>8 DEF TopOf
  <2> DEFINE top == Top(set, key, c.topK)
  <2>10. StatelessItems(c, s) = [i \in DOMAIN top |->
                                   [slug |-> top[i], final |-> score[top[i]].base]]
    BY DEF StatelessItems
  <2>11. /\ DOMAIN answer.items = DOMAIN top
         /\ \A i \in DOMAIN top : /\ top[i] \in set
                                  /\ answer.items[i].slug = top[i]
                                  /\ answer.items[i].score = ScoreOf(c, fb, s, top[i])
    <3> DEFINE items == ItemsOf(c, fb, s)
    <3>1. items = [i \in DOMAIN top |->
                     [slug |-> top[i], score |-> ScoreOf(c, fb, s, top[i])]]
      <4>1. top = TopOf(c, fb, s)
        BY <2>9
      <4> HIDE DEF top
      <4> QED
        BY <4>1 DEF ItemsOf
    <3>2. \A i \in DOMAIN top : top[i] \in set
      <4>1. top = TopOf(c, fb, s)
        BY <2>9
      <4> HIDE DEF top, set
      <4> QED
        BY <2>1, <2>3, <4>1, PickedFacts
    <3> HIDE DEF top, set, items
    <3> QED
      BY <2>1, <3>1, <3>2 DEF items
  <2>12. \A i \in DOMAIN top : answer.items[i].score.final = score[top[i]].base
    <3> HIDE DEF top, set, score
    <3> QED
      BY <2>4, <2>11
  <2> HIDE DEF top, set, score
  <2> QED
    BY <2>10, <2>11, <2>12
<1> QED
  BY <1>1, AnswerInvHolds, PTL

-----------------------------------------------------------------------------
(* How far rounding carries a score: x is within b of y. *)

Near(x, y, b) == x \in Int /\ y \in Int /\ b \in Nat /\ x - y \in (-b)..b

LEMMA NearAdd ==
    ASSUME NEW x, NEW y, NEW b, NEW u, NEW v, NEW d, Near(x, y, b), Near(u, v, d)
    PROVE  Near(x + u, y + v, b + d)
BY DEF Near

LEMMA NearTrans ==
    ASSUME NEW x, NEW y, NEW b, NEW z, NEW d, Near(x, y, b), Near(y, z, d)
    PROVE  Near(x, z, b + d)
BY DEF Near

LEMMA NearScaled ==
    ASSUME NEW x, NEW y, NEW b, Near(x, y, b), NEW c \in Nat
    PROVE  Near(c * x, c * y, c * b)
<1>1. x \in Int /\ y \in Int /\ b \in Nat /\ x - y <= b /\ y - x <= b
  BY DEF Near
<1> DEFINE d == x - y
<1>2. d \in Int /\ d <= b /\ 0 - d <= b
  BY <1>1
<1>3. c * d <= c * b /\ c * (0 - d) <= c * b
  <2>1. b - d \in Nat /\ b + d \in Nat
    BY <1>1, <1>2
  <2>2. c * (b - d) \in Nat /\ c * (b + d) \in Nat
    BY <2>1
  <2> HIDE DEF d
  <2>3. c * (b - d) = c * b - c * d /\ c * (b + d) = c * b + c * d
        /\ c * (0 - d) = 0 - c * d /\ c * d \in Int /\ c * b \in Nat
    BY <1>1, <1>2
  <2> QED
    BY <2>2, <2>3
<1>4. c * d = c * x - c * y /\ c * x \in Int /\ c * y \in Int /\ c * b \in Nat
      /\ c * (0 - d) = c * y - c * x
  BY <1>1
<1> HIDE DEF d
<1> QED
  BY <1>3, <1>4 DEF Near

\* A contribution is within half a unit of the product, and exact if all is weighed.
LEMMA ContributionIsNear ==
    ASSUME NEW raw \in Nat, NEW weight \in Nat
    PROVE  Near(2 * Scale * Contribution(raw, weight), 2 * raw * weight, Scale)
<1>1. Scale \in Nat \ {0} /\ raw * weight \in Nat /\ Scale \div 2 \in Nat
      /\ 2 * (Scale \div 2) <= Scale /\ Scale <= 2 * (Scale \div 2) + 1
  BY Numbers
<1> DEFINE n == raw * weight + Scale \div 2
           q == n \div Scale
<1>2. n \in Nat
  BY <1>1
<1>3. q \in Nat /\ Scale * q <= n /\ n < Scale * q + Scale
  BY <1>1, <1>2, Division
<1>4. Contribution(raw, weight) = q
  BY DEF Contribution
<1>5. 2 * Scale * q = 2 * (Scale * q) /\ 2 * raw * weight = 2 * (raw * weight)
      /\ Scale * q \in Nat
  BY <1>1, <1>3
<1> HIDE DEF q
<1> QED
  BY <1>1, <1>3, <1>4, <1>5 DEF Near

\* A quantized signal is within half a unit of the clamped one.
LEMMA QuantizeIsNear ==
    ASSUME NEW n \in Int, NEW d \in Nat \ {0}, NEW m,
           m = IF n > d THEN d ELSE IF n < 0 THEN 0 ELSE n
    PROVE  Near(2 * d * Quantize(n, d), 2 * Scale * m, d)
<1>1. Scale \in Nat \ {0} /\ m \in Nat
  BY Numbers
<1>2. CASE n <= 0
  BY <1>1, <1>2 DEF Quantize, Near
<1>3. CASE n >= d
  <2>1. Quantize(n, d) = Scale /\ m = d
    BY <1>3 DEF Quantize
  <2>2. 2 * d * Scale = 2 * Scale * d /\ 2 * d * Scale \in Int
    BY <1>1
  <2> QED
    BY <2>1, <2>2 DEF Near
<1>4. CASE n > 0 /\ n < d
  <2> DEFINE a == 2 * n * Scale + d
             q == a \div (2 * d)
  <2>1. a \in Nat /\ 2 * d \in Nat \ {0} /\ m = n
    BY <1>1, <1>4
  <2>2. q \in Nat /\ 2 * d * q <= a /\ a < 2 * d * q + 2 * d
    BY <2>1, Division
  <2>3. Quantize(n, d) = q
    BY <1>4 DEF Quantize
  <2>4. 2 * Scale * m = 2 * n * Scale /\ 2 * Scale * m \in Int /\ 2 * d * q \in Int
    BY <1>1, <2>1, <2>2
  <2> HIDE DEF q
  <2> QED
    BY <2>2, <2>3, <2>4 DEF Near
<1> QED
  BY <1>2, <1>3, <1>4

\* The number of parts that the signals of a context are counted in.
PartsOf(c) == Parts * (IF c.platforms = 0 THEN 1 ELSE c.platforms)

\* The exact base score, PartsOf(c) of it to a unit.
ExactBase(s, c) ==
    (IF c.platforms = 0 THEN 1 ELSE c.platforms)
      * (Clamped(s.similarity) * ContentWeight + Clamped(s.popularity) * PopularityWeight)
    + Parts * s.matches * PlatformWeight

\* A base score is within two units of the exact one.
LEMMA BaseIsNear ==
    ASSUME NEW s, NEW c, c.platforms \in Nat, ValidSignal(s, c)
    PROVE  Near(2 * PartsOf(c) * BaseScore(s, c).base, 2 * ExactBase(s, c), 4 * PartsOf(c))
<1> DEFINE p == IF c.platforms = 0 THEN 1 ELSE c.platforms
           i == Quantize(s.similarity, Parts)
           j == PlatformUnits(s.matches, c.platforms)
           k == Quantize(s.popularity, Parts)
           u == Clamped(s.similarity)
           v == s.matches
           w == Clamped(s.popularity)
           x == Contribution(i, ContentWeight)
           y == Contribution(j, PlatformWeight)
           z == Contribution(k, PopularityWeight)
<1>1. /\ p \in Nat \ {0} /\ s.similarity \in Int /\ s.popularity \in Int
      /\ s.matches \in 0..c.platforms
  BY DEF ValidSignal
<1>2. u \in Nat /\ v \in Nat /\ w \in Nat
  BY <1>1, Numbers DEF Clamped
<1>3. Near(2 * Parts * i, 2 * Scale * u, Parts) /\ Near(2 * Parts * k, 2 * Scale * w, Parts)
  BY <1>1, Numbers, QuantizeIsNear DEF Clamped
<1>4. Near(2 * p * j, 2 * Scale * v, p)
  <2>1. CASE c.platforms = 0
    BY <1>1, <2>1, Numbers DEF PlatformUnits, Near
  <2>2. CASE c.platforms # 0
    <3>1. v = IF v > p THEN p ELSE IF v < 0 THEN 0 ELSE v
      BY <1>1, <2>2
    <3>2. j = Quantize(v, p) /\ v \in Int
      BY <1>1, <2>2 DEF PlatformUnits
    <3> HIDE DEF p, v, j
    <3> QED
      BY <1>1, <3>1, <3>2, QuantizeIsNear
  <2> QED
    BY <2>1, <2>2
<1>5. i \in 0..Scale /\ k \in 0..Scale
  BY <1>1, Numbers, QuantizeBounds
<1>6. j \in 0..Scale
  <2>1. CASE c.platforms = 0
    BY <2>1, Numbers DEF PlatformUnits
  <2>2. CASE c.platforms # 0
    BY <1>1, <2>2, QuantizeBounds DEF PlatformUnits
  <2> QED
    BY <2>1, <2>2
<1>7. BaseScore(s, c).base = x + y + z
  BY DEF BaseScore
<1>8. PartsOf(c) = Parts * p /\ ExactBase(s, c) = p * (u * ContentWeight + w * PopularityWeight)
                                                  + Parts * v * PlatformWeight
  BY DEF PartsOf, ExactBase
<1> HIDE DEF p, i, j, k, u, v, w
<1>9. /\ Scale \in Nat \ {0} /\ Parts \in Nat \ {0} /\ i \in Nat /\ j \in Nat /\ k \in Nat
      /\ ContentWeight \in Nat /\ PlatformWeight \in Nat /\ PopularityWeight \in Nat
      /\ ContentWeight + PlatformWeight + PopularityWeight = Scale
  BY <1>5, <1>6, Numbers
<1>10. x \in Int /\ y \in Int /\ z \in Int
  <2>1. /\ ContentWeight \in 0..Scale /\ PlatformWeight \in 0..Scale
        /\ PopularityWeight \in 0..Scale
    BY Numbers
  <2>2. x \in 0..Scale
    BY <1>5, <2>1, ContributionBounds
  <2>3. y \in 0..Scale
    BY <1>6, <2>1, ContributionBounds
  <2>4. z \in 0..Scale
    BY <1>5, <2>1, ContributionBounds
  <2> HIDE DEF x, y, z
  <2> QED
    BY <2>2, <2>3, <2>4, Numbers
<1>11. Near(2 * Scale * (x + y + z),
            2 * i * ContentWeight + 2 * j * PlatformWeight + 2 * k * PopularityWeight,
            3 * Scale)
  <2>1. /\ Near(2 * Scale * x, 2 * i * ContentWeight, Scale)
        /\ Near(2 * Scale * y, 2 * j * PlatformWeight, Scale)
        /\ Near(2 * Scale * z, 2 * k * PopularityWeight, Scale)
    BY <1>9, ContributionIsNear
  <2>2. 2 * Scale * (x + y + z) = 2 * Scale * x + 2 * Scale * y + 2 * Scale * z
    BY <1>9, <1>10
  <2> HIDE DEF x, y, z
  <2> QED
    BY <1>9, <2>1, <2>2 DEF Near
<1> DEFINE products == 2 * i * ContentWeight + 2 * j * PlatformWeight + 2 * k * PopularityWeight
           q == Parts * p
           e == ExactBase(s, c)
<1>12. Near(q * products, 2 * Scale * e, q * Scale)
  <2>1. Near((p * ContentWeight) * (2 * Parts * i), (p * ContentWeight) * (2 * Scale * u),
             (p * ContentWeight) * Parts)
    <3>1. p * ContentWeight \in Nat
      BY <1>1, <1>9
    <3> QED
      BY <1>3, <3>1, NearScaled
  <2>2. Near((p * PopularityWeight) * (2 * Parts * k), (p * PopularityWeight) * (2 * Scale * w),
             (p * PopularityWeight) * Parts)
    <3>1. p * PopularityWeight \in Nat
      BY <1>1, <1>9
    <3> QED
      BY <1>3, <3>1, NearScaled
  <2>3. Near((Parts * PlatformWeight) * (2 * p * j), (Parts * PlatformWeight) * (2 * Scale * v),
             (Parts * PlatformWeight) * p)
    <3>1. Parts * PlatformWeight \in Nat
      BY <1>9
    <3> QED
      BY <1>4, <3>1, NearScaled
  <2>4. q * products = (p * ContentWeight) * (2 * Parts * i)
                       + (Parts * PlatformWeight) * (2 * p * j)
                       + (p * PopularityWeight) * (2 * Parts * k)
    BY <1>1, <1>9
  <2>5. 2 * Scale * e = (p * ContentWeight) * (2 * Scale * u)
                        + (Parts * PlatformWeight) * (2 * Scale * v)
                        + (p * PopularityWeight) * (2 * Scale * w)
    BY <1>1, <1>2, <1>8, <1>9
  <2>6. q * Scale = (p * ContentWeight) * Parts + (Parts * PlatformWeight) * p
                    + (p * PopularityWeight) * Parts
    <3>1. q * Scale = q * (ContentWeight + PlatformWeight + PopularityWeight)
      BY <1>9
    <3> QED
      BY <1>1, <1>9, <3>1
  <2> HIDE DEF q, products, e
  <2> QED
    BY <2>1, <2>2, <2>3, <2>4, <2>5, <2>6, NearAdd
<1> DEFINE b == x + y + z
<1>13. Near(q * (2 * Scale * b), q * products, q * (3 * Scale))
  <2>1. q \in Nat
    BY <1>1, <1>9
  <2> HIDE DEF q, products
  <2> QED
    BY <1>11, <2>1, NearScaled DEF products
<1>14. Near(q * (2 * Scale * b), 2 * Scale * e, q * (3 * Scale) + q * Scale)
  BY <1>12, <1>13, NearTrans
<1>15. q \in Nat /\ b \in Int /\ e \in Int
  BY <1>1, <1>2, <1>8, <1>9, <1>10
<1> HIDE DEF q, b, e, products
<1>16. Near(2 * q * b, 2 * e, 4 * q)
  <2> DEFINE d == 2 * q * b - 2 * e
  <2>1. d \in Int /\ 4 * q \in Nat
    BY <1>15
  <2>2. /\ q * (2 * Scale * b) - 2 * Scale * e = Scale * d
        /\ q * (3 * Scale) + q * Scale = Scale * (4 * q)
    BY <1>9, <1>15
  <2>3. Scale * d <= Scale * (4 * q) /\ 0 - Scale * d <= Scale * (4 * q)
    BY <1>14, <2>2 DEF Near
  <2> HIDE DEF d
  <2>4. d <= 4 * q
    <3>1. CASE d > 4 * q
      <4>1. d - 4 * q \in Nat \ {0}
        BY <2>1, <3>1
      <4>2. Scale * (d - 4 * q) > 0 /\ Scale * (d - 4 * q) = Scale * d - Scale * (4 * q)
        BY <1>9, <1>15, <2>1, <4>1
      <4> QED
        BY <1>9, <1>15, <2>1, <2>3, <4>2
    <3> QED
      BY <2>1, <3>1
  <2>5. 0 - d <= 4 * q
    <3>1. CASE 0 - d > 4 * q
      <4>1. (0 - d) - 4 * q \in Nat \ {0}
        BY <2>1, <3>1
      <4>2. /\ Scale * ((0 - d) - 4 * q) > 0
            /\ Scale * ((0 - d) - 4 * q) = (0 - Scale * d) - Scale * (4 * q)
        BY <1>9, <1>15, <2>1, <4>1
      <4> QED
        BY <1>9, <1>15, <2>1, <2>3, <4>2
    <3> QED
      BY <2>1, <3>1
  <2>6. 2 * q * b \in Int /\ 2 * e \in Int
    BY <1>15
  <2> QED
    BY <2>1, <2>4, <2>5, <2>6 DEF Near, d
<1> QED
  BY <1>7, <1>8, <1>16 DEF q, b, e

\* The exact score before playing counts, and what rounding may add or take of it.
ExactPre(s, c, sources) ==
    IF sources = {} THEN ExactBase(s, c) * Scale
    ELSE ExactBase(s, c) * BaseWeight
         + (IF c.platforms = 0 THEN 1 ELSE c.platforms) * Clamped(s.affinity)
             * AffinityWeight * Scale

PreSlack(sources) ==
    IF sources = {} THEN 4 * Scale ELSE 4 * BaseWeight + AffinityWeight + 2 * Scale

LEMMA PreIsNear ==
    ASSUME NEW s, NEW c, NEW f, NEW sources, c.platforms \in Nat, ValidSignal(s, c)
    PROVE  Near(PartsOf(c) * (2 * Scale * PersonalScore(s, c, f, sources).pre),
                2 * ExactPre(s, c, sources), PartsOf(c) * PreSlack(sources))
<1> DEFINE p == IF c.platforms = 0 THEN 1 ELSE c.platforms
           q == PartsOf(c)
           e == ExactBase(s, c)
           a == Clamped(s.affinity)
           b == PersonalScore(s, c, f, sources).base
           k == PersonalScore(s, c, f, sources).affinity
           pre == PersonalScore(s, c, f, sources).pre
<1>1. /\ Scale \in Nat \ {0} /\ Parts \in Nat \ {0}
      /\ BaseWeight \in Nat /\ AffinityWeight \in Nat
      /\ p \in Nat \ {0} /\ q = Parts * p /\ q \in Nat
  BY Numbers DEF PartsOf
<1>2. b \in 0..Scale /\ k \in 0..Scale /\ pre \in 0..Scale
  BY PersonalScoreBounds
<1>3. Near(2 * q * b, 2 * e, 4 * q)
  BY BaseIsNear, PersonalScoreIs
<1>4. e \in Int
  <2>1. /\ s.similarity \in Int /\ s.popularity \in Int /\ s.matches \in 0..c.platforms
        /\ ContentWeight \in Nat /\ PlatformWeight \in Nat /\ PopularityWeight \in Nat
    BY Numbers DEF ValidSignal
  <2>2. Clamped(s.similarity) \in Int /\ Clamped(s.popularity) \in Int
    BY <1>1, <2>1 DEF Clamped
  <2> QED
    BY <1>1, <2>1, <2>2 DEF ExactBase
<1>5. a \in Nat
  BY <1>1 DEF ValidSignal, Clamped
<1>6. CASE sources = {}
  <2>1. pre = b
    <3>1. /\ pre = Contribution(b, Scale) + Contribution(0, 0)
      BY <1>6, PersonalScoreIs DEF BlendOf
    <3>2. 0 \in 0..Scale
      BY <1>1
    <3>3. Contribution(b, Scale) = b /\ Contribution(0, 0) = 0
      BY <1>2, <3>2, ContributionOfAll
    <3> HIDE DEF pre, b
    <3> QED
      BY <1>1, <1>2, <3>1, <3>3
  <2>2. ExactPre(s, c, sources) = e * Scale /\ PreSlack(sources) = 4 * Scale
    BY <1>6 DEF ExactPre, PreSlack
  <2> HIDE DEF p, q, e, a, b, k, pre
  <2>3. Near(Scale * (2 * q * b), Scale * (2 * e), Scale * (4 * q))
    BY <1>1, <1>3, NearScaled
  <2>4. /\ Scale * (2 * q * b) = q * (2 * Scale * b)
        /\ Scale * (2 * e) = 2 * (e * Scale) /\ Scale * (4 * q) = q * (4 * Scale)
    BY <1>1, <1>2, <1>4
  <2> QED
    BY <2>1, <2>2, <2>3, <2>4 DEF pre, q
<1>7. CASE sources # {}
  <2> DEFINE x == Contribution(b, BaseWeight)
             y == Contribution(k, AffinityWeight)
             mixed == 2 * b * BaseWeight + 2 * k * AffinityWeight
  <2>1. pre = x + y
    BY <1>7, PersonalScoreIs DEF BlendOf
  <2>2. Near(2 * Parts * k, 2 * Scale * a, Parts)
    <3>1. k = Quantize(s.affinity, Parts) /\ s.affinity \in Int
      BY <1>7, PersonalScoreIs DEF ValidSignal
    <3> QED
      BY <1>1, <3>1, QuantizeIsNear DEF Clamped
  <2>3. /\ ExactPre(s, c, sources) = e * BaseWeight + p * a * AffinityWeight * Scale
        /\ PreSlack(sources) = 4 * BaseWeight + AffinityWeight + 2 * Scale
    BY <1>7 DEF ExactPre, PreSlack
  <2> HIDE DEF p, q, e, a, b, k, pre
  <2>4. x \in Int /\ y \in Int
    <3>1. BaseWeight \in 0..Scale /\ AffinityWeight \in 0..Scale
      BY Numbers
    <3>2. x \in 0..Scale
      BY <1>2, <3>1, ContributionBounds
    <3>3. y \in 0..Scale
      BY <1>2, <3>1, ContributionBounds
    <3> HIDE DEF x, y
    <3> QED
      BY <1>1, <3>2, <3>3
  <2>5. Near(q * (2 * Scale * (x + y)), q * mixed, q * (2 * Scale))
    <3>1. b \in Nat /\ k \in Nat
      BY <1>1, <1>2
    <3>2. /\ Near(2 * Scale * x, 2 * b * BaseWeight, Scale)
          /\ Near(2 * Scale * y, 2 * k * AffinityWeight, Scale)
      BY <1>1, <3>1, ContributionIsNear
    <3> HIDE DEF x, y
    <3>3. 2 * Scale * (x + y) = 2 * Scale * x + 2 * Scale * y /\ 2 * Scale = Scale + Scale
      BY <1>1, <2>4
    <3>4. Near(2 * Scale * (x + y), mixed, 2 * Scale)
      BY <3>2, <3>3, NearAdd
    <3> HIDE DEF mixed
    <3> QED
      BY <1>1, <3>4, NearScaled
  <2> HIDE DEF x, y
  <2>6. Near(BaseWeight * (2 * q * b), BaseWeight * (2 * e), BaseWeight * (4 * q))
    BY <1>1, <1>3, NearScaled
  <2>7. Near((p * AffinityWeight) * (2 * Parts * k), (p * AffinityWeight) * (2 * Scale * a),
             (p * AffinityWeight) * Parts)
    <3>1. p * AffinityWeight \in Nat
      BY <1>1
    <3> QED
      BY <2>2, <3>1, NearScaled
  <2>8. q * mixed = BaseWeight * (2 * q * b) + (p * AffinityWeight) * (2 * Parts * k)
    BY <1>1, <1>2
  <2>9. 2 * (e * BaseWeight + p * a * AffinityWeight * Scale)
        = BaseWeight * (2 * e) + (p * AffinityWeight) * (2 * Scale * a)
    BY <1>1, <1>4, <1>5
  <2>10. q * (4 * BaseWeight + AffinityWeight + 2 * Scale)
         = q * (2 * Scale) + (BaseWeight * (4 * q) + (p * AffinityWeight) * Parts)
    BY <1>1
  <2> HIDE DEF mixed
  <2>11. Near(q * mixed, 2 * (e * BaseWeight + p * a * AffinityWeight * Scale),
              BaseWeight * (4 * q) + (p * AffinityWeight) * Parts)
    BY <2>6, <2>7, <2>8, <2>9, NearAdd
  <2>12. Near(q * (2 * Scale * (x + y)),
              2 * (e * BaseWeight + p * a * AffinityWeight * Scale),
              q * (2 * Scale) + (BaseWeight * (4 * q) + (p * AffinityWeight) * Parts))
    BY <2>5, <2>11, NearTrans
  <2> QED
    BY <2>1, <2>3, <2>10, <2>12 DEF q, pre
<1> QED
  BY <1>6, <1>7

LEMMA FinalIsNear ==
    ASSUME NEW s, NEW c, NEW f, NEW sources, c.platforms \in Nat, ValidSignal(s, c)
    PROVE  Near(2 * (PersonalScore(s, c, f, sources).final * (Scale * Scale * PartsOf(c))),
                2 * Exact(s, c, f, sources), PartsOf(c) * Slack(f, sources))
<1> DEFINE q == PartsOf(c)
           e == ExactPre(s, c, sources)
           pre == PersonalScore(s, c, f, sources).pre
           final == PersonalScore(s, c, f, sources).final
           factor == FactorOf(f)
           slack == PreSlack(sources)
           last == IF f.played THEN Scale ELSE 0
<1>1. /\ Scale \in Nat \ {0} /\ q \in Nat /\ factor \in 0..Scale /\ last \in Nat
  BY Numbers DEF PartsOf, FactorOf
<1>2. pre \in 0..Scale /\ final \in 0..Scale /\ final = Contribution(pre, factor)
  BY PersonalScoreIs, PersonalScoreBounds
<1>3. Near(q * (2 * Scale * pre), 2 * e, q * slack)
  BY PreIsNear
<1>4. Exact(s, c, f, sources) = e * factor
  BY DEF Exact, ExactPre, ExactBase
<1>5. Slack(f, sources) = factor * slack + Scale * last
  BY <1>1 DEF Slack, PreSlack
<1>6. e \in Int
  <2>1. /\ s.similarity \in Int /\ s.popularity \in Int /\ s.affinity \in Int
        /\ s.matches \in Int
    BY DEF ValidSignal
  <2>2. Clamped(s.similarity) \in Int /\ Clamped(s.popularity) \in Int
        /\ Clamped(s.affinity) \in Int
    BY <2>1, Numbers DEF Clamped
  <2> QED
    BY <2>1, <2>2, Numbers DEF ExactPre, ExactBase
<1>7. slack \in Nat
  BY Numbers DEF PreSlack
<1>8. Near(2 * Scale * final, 2 * pre * factor, last)
  <2>1. CASE f.played
    <3>1. pre \in Nat /\ factor \in Nat
      BY <1>1, <1>2
    <3> HIDE DEF pre, factor, final
    <3>2. Near(2 * Scale * Contribution(pre, factor), 2 * pre * factor, Scale)
      BY <3>1, ContributionIsNear
    <3> QED
      BY <1>2, <2>1, <3>2
  <2>2. CASE ~f.played
    <3>1. factor = Scale
      BY <2>2 DEF FactorOf
    <3>2. final = pre
      BY <1>2, <3>1, ContributionOfAll
    <3> HIDE DEF pre, factor, final
    <3>3. 2 * Scale * final = 2 * pre * factor /\ 2 * Scale * final \in Int
      BY <1>1, <1>2, <3>1, <3>2
    <3> QED
      BY <2>2, <3>3 DEF Near
  <2> QED
    BY <2>1, <2>2
<1> HIDE DEF q, e, pre, final, factor, slack, last
<1>9. Near((q * Scale) * (2 * Scale * final), (q * Scale) * (2 * pre * factor),
           (q * Scale) * last)
  <2>1. q * Scale \in Nat
    BY <1>1
  <2> QED
    BY <1>8, <2>1, NearScaled
<1>10. Near(factor * (q * (2 * Scale * pre)), factor * (2 * e), factor * (q * slack))
  <2>1. factor \in Nat
    BY <1>1
  <2> QED
    BY <1>3, <2>1, NearScaled
<1>11. /\ (q * Scale) * (2 * Scale * final) = 2 * (final * (Scale * Scale * q))
       /\ (q * Scale) * (2 * pre * factor) = factor * (q * (2 * Scale * pre))
       /\ factor * (2 * e) = 2 * (e * factor)
  BY <1>1, <1>2, <1>6
<1>12. (q * Scale) * last + factor * (q * slack) = q * (factor * slack + Scale * last)
  BY <1>1, <1>7
<1>13. Near(2 * (final * (Scale * Scale * q)), 2 * (e * factor),
            (q * Scale) * last + factor * (q * slack))
  BY <1>9, <1>10, <1>11, NearTrans
<1> QED
  BY <1>4, <1>5, <1>12, <1>13 DEF q, final

\* ranking.py and feedback.py, quantize and contribution: for any weights, scale and signals,
\* the roundings on the way to a final score move it no further from the exact weighted sum
\* than each of them may by itself.
THEOREM ScoresStayNearExact == Spec => []ScoreIsNearExact
<1>1. ASSUME AnswerInv PROVE ScoreIsNearExact
  <2> DEFINE c == EffectiveContext(context, feedback)
             sources == PositiveSources(feedback)
             parts == Parts * (IF c.platforms = 0 THEN 1 ELSE c.platforms)
             distance(i) == i.score.final * (Scale * Scale * parts)
                            - Exact(signals[i.slug], c, feedback[i.slug], sources)
             most(i) == parts * Slack(feedback[i.slug], sources)
  <2> SUFFICES ASSUME NEW i \in Shown PROVE 2 * distance(i) \in (-most(i))..most(i)
    BY DEF ScoreIsNearExact
  <2> DEFINE s == signals[i.slug]
             f == feedback[i.slug]
             final == i.score.final
             exact == Exact(s, c, f, sources)
             whole == Scale * Scale * parts
  <2>1. i.slug \in Games /\ i.score = PersonalScore(s, c, f, sources)
    BY <1>1, ShownFacts, EligibleFacts DEF ScoreOf
  <2>2. c.platforms = context.platforms /\ c.platforms \in Nat
    BY <1>1, EffectiveFacts DEF AnswerInv, ValidInput
  <2>3. ValidSignal(s, c)
    BY <1>1, <2>1, <2>2 DEF AnswerInv, ValidInput, ValidSignal
  <2>4. parts = PartsOf(c) /\ parts \in Nat /\ Scale \in Nat
    BY <2>2, Numbers DEF PartsOf
  <2>5. Near(2 * (final * whole), 2 * exact, most(i)) /\ final \in 0..Scale
    <3> HIDE DEF s, c, f, sources
    <3>1. /\ Near(2 * (PersonalScore(s, c, f, sources).final * (Scale * Scale * PartsOf(c))),
                  2 * Exact(s, c, f, sources), PartsOf(c) * Slack(f, sources))
          /\ PersonalScore(s, c, f, sources).final \in 0..Scale
      BY <2>2, <2>3, FinalIsNear, PersonalScoreBounds
    <3>2. most(i) = parts * Slack(f, sources)
      BY DEF f
    <3> QED
      BY <2>1, <2>4, <3>1, <3>2
  <2>6. exact \in Int
    <3>1. /\ s.similarity \in Int /\ s.popularity \in Int /\ s.affinity \in Int
          /\ s.matches \in Int
      BY <2>3 DEF ValidSignal
    <3>2. Clamped(s.similarity) \in Int /\ Clamped(s.popularity) \in Int
          /\ Clamped(s.affinity) \in Int /\ FactorOf(f) \in Int
      BY <3>1, Numbers DEF Clamped, FactorOf
    <3> HIDE DEF s, c, f, sources
    <3> QED
      BY <2>2, <3>1, <3>2, Numbers DEF Exact
  <2>7. distance(i) = final * whole - exact
    OBVIOUS
  <2>8. whole \in Int
    BY <2>4
  <2> HIDE DEF final, exact, whole, most, distance
  <2>9. 2 * distance(i) = 2 * (final * whole) - 2 * exact
    <3>1. final * whole \in Int
      BY <2>4, <2>5, <2>8
    <3> QED
      BY <2>6, <2>7, <3>1
  <2> QED
    BY <2>5, <2>9 DEF Near
<1> QED
  BY <1>1, AnswerInvHolds, PTL

\* ranking.py and feedback.py: for any games, weights, scale and signals, the scores of an
\* answer are in range, near the exact sum, and true to clear cases.
THEOREM ScoresAreSoundAlways == Spec => []ScoresAreSound
<1>1. TypeOK /\ ScoreIsNearExact /\ DominanceIsKept => ScoresAreSound
  BY DEF ScoresAreSound
<1> QED
  BY <1>1, ScoresInRange, ScoresStayNearExact, RoundingKeepsDominance, PTL
=============================================================================
