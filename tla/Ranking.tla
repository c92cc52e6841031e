------------------------------ MODULE Ranking ------------------------------
(***************************************************************************)
(* The scores and the order of recommendations.  A content ranker gives    *)
(* every candidate a base score from the similarity of its content to the  *)
(* user's context, the preferred platforms it runs on and its popularity;  *)
(* the feedback policy then drops disliked games and the games that feed   *)
(* the profile, blends in the affinity to that profile, halves the score   *)
(* of played games and keeps the best.  Every score is an integer number   *)
(* of units, Scale of them to one, and every product is rounded.           *)
(*                                                                         *)
(* The vectors are data: the similarity of a game to the context and to    *)
(* the profile is an input, any number of parts of one.  Names, evidence   *)
(* and wording are left out.                                               *)
(***************************************************************************)
EXTENDS Integers, Sequences, FiniteSets

CONSTANTS Games,            \* slugs, as numbers in slug order
          Scale,            \* SCORE_SCALE
          ContentWeight, PlatformWeight, PopularityWeight,
          BaseWeight, AffinityWeight, PlayedFactor,
          Threshold,        \* positive_rating_threshold
          MaxSources,       \* max_positive_sources
          Parts,            \* a similarity n stands for n / Parts
          Inputs            \* a set of [context, feedback, signals], the last two by game

\* What RankingConfig.validate asks for.
ValidConfig ==
    /\ Scale \in Nat \ {0}
    /\ {ContentWeight, PlatformWeight, PopularityWeight} \subseteq Nat
    /\ ContentWeight + PlatformWeight + PopularityWeight = Scale

\* What FeedbackPolicyConfig.validate asks for.
ValidPolicy ==
    /\ MaxSources \in Nat \ {0}
    /\ {BaseWeight, AffinityWeight} \subseteq Nat
    /\ BaseWeight + AffinityWeight = Scale
    /\ PlayedFactor \in 0..Scale
    /\ Threshold \in 0..10

ASSUME ConfigAssumption ==
    /\ ValidConfig /\ ValidPolicy
    /\ Parts \in Nat \ {0}
    /\ Games \subseteq Nat /\ IsFiniteSet(Games)

None == 0                     \* no time, and so no reaction or rating

\* One row of feedback, and what ActiveGameFeedback.validate accepts.
NoFeedback == [reaction |-> "none", reactedAt |-> None, rating |-> 0,
               ratedAt |-> None, played |-> FALSE, wishlisted |-> FALSE]
ValidFeedback(f) ==
    /\ f \in [reaction : {"none", "liked", "disliked"}, reactedAt : Nat, rating : 0..10,
              ratedAt : Nat, played : BOOLEAN, wishlisted : BOOLEAN]
    /\ (f.reaction = "none") <=> (f.reactedAt = None)
    /\ f.ratedAt = None => f.rating = 0

\* What UserContext.validate accepts: something to compare with, and 1 to 20 answers.  The
\* genres and tags it prefers may have no word that the vocabulary of the artifact knows.
ValidContext(c) ==
    /\ c \in [selected : SUBSET Games, taxonomy : {"none", "known", "unknown"},
              platforms : Nat, topK : 1..20]
    /\ c.selected # {} \/ c.taxonomy # "none"

\* What score_candidates knows of a game: numbers of parts, which floating point may carry
\* out of 0..Parts, and how many of the preferred platforms it runs on.
ValidSignal(s, c) ==
    s \in [similarity : Int, matches : 0..c.platforms, popularity : Int, affinity : Int]

ASSUME InputAssumption ==
    \A input \in Inputs :
       /\ ValidContext(input.context)
       /\ \A g \in Games : /\ ValidFeedback(input.feedback[g])
                           /\ ValidSignal(input.signals[g], input.context)

VARIABLES context, feedback, signals, answer
vars == <<context, feedback, signals, answer>>
-----------------------------------------------------------------------------
(* Units. *)

\* quantize: n / d, clamped to 0 .. 1, in units and rounded half up.
Quantize(n, d) ==
    IF n <= 0 THEN 0 ELSE IF n >= d THEN Scale
    ELSE (2 * n * Scale + d) \div (2 * d)

Mut_Truncated(raw, weight) == (raw * weight) \div Scale

Contribution(raw, weight) == (raw * weight + Scale \div 2) \div Scale

PlatformUnits(matches, preferred) ==
    IF preferred = 0 THEN 0 ELSE Quantize(matches, preferred)

\* The base score of one game, its parts beside it for the tie-breaks.
BaseScore(s, c) ==
    LET content == Quantize(s.similarity, Parts)
        platform == PlatformUnits(s.matches, c.platforms)
        popularity == Quantize(s.popularity, Parts)
    IN  [base |-> Contribution(content, ContentWeight)
                  + Contribution(platform, PlatformWeight)
                  + Contribution(popularity, PopularityWeight),
         content |-> content, platform |-> platform, popularity |-> popularity]

\* score_candidates: the selected games and those without content in common
\* with the context are no candidates.
Candidates(c, s) ==
    {g \in Games \ c.selected : Quantize(s[g].similarity, Parts) # 0}
-----------------------------------------------------------------------------
(* The order: lexicographic by descending keys, then by slug. *)

Before(key, g, h) ==
    \/ \E i \in DOMAIN key[g] : /\ key[g][i] > key[h][i]
                                /\ \A j \in 1..(i - 1) : key[g][j] = key[h][j]
    \/ key[g] = key[h] /\ g < h

Top(set, key, k) ==
    LET rank == [g \in set |->
                   1 + Cardinality({h \in set : Before(key, h, g)})]
        size == Cardinality(set)
    IN  [i \in 1..(IF size < k THEN size ELSE k) |->
           CHOOSE g \in set : rank[g] = i]

\* ContentRanker.rank, the answer of the stateless endpoint to a context with content.
StatelessItems(c, s) ==
    LET set == Candidates(c, s)
        score == [g \in set |-> BaseScore(s[g], c)]
        key == [g \in set |-> <<score[g].base, score[g].content, score[g].popularity>>]
        top == Top(set, key, c.topK)
    IN  [i \in DOMAIN top |-> [slug |-> top[i], final |-> score[top[i]].base]]
-----------------------------------------------------------------------------
(* The feedback policy. *)

Mut_RatingCounts(f) ==
    CASE f.reaction = "liked" -> f.reactedAt
      [] f.ratedAt # None /\ f.rating >= Threshold -> f.ratedAt
      [] OTHER -> None

PositiveAt(f) ==
    CASE f.reaction = "liked" -> f.reactedAt
      [] f.reaction = "none" /\ f.ratedAt # None /\ f.rating >= Threshold -> f.ratedAt
      [] OTHER -> None

Mut_OldestSources(fb) ==
    LET positive == {g \in Games : PositiveAt(fb[g]) # None}
        older(g) == {h \in positive : \/ PositiveAt(fb[h]) < PositiveAt(fb[g])
                                      \/ PositiveAt(fb[h]) = PositiveAt(fb[g]) /\ h < g}
    IN  {g \in positive : Cardinality(older(g)) < MaxSources}

\* The most recent positive games, at most MaxSources, ties by slug.
PositiveSources(fb) ==
    LET positive == {g \in Games : PositiveAt(fb[g]) # None}
        newer(g) == {h \in positive : \/ PositiveAt(fb[h]) > PositiveAt(fb[g])
                                      \/ PositiveAt(fb[h]) = PositiveAt(fb[g]) /\ h < g}
    IN  {g \in positive : Cardinality(newer(g)) < MaxSources}

Disliked(fb) == {g \in Games : fb[g].reaction = "disliked"}

EffectiveContext(c, fb) == [c EXCEPT !.selected = @ \ Disliked(fb)]

FactorOf(f) == IF f.played THEN PlayedFactor ELSE Scale

Mut_AlwaysBlended(sources) == [base |-> BaseWeight, affinity |-> AffinityWeight]

\* Without a profile the base score counts in full.
BlendOf(sources) ==
    IF sources = {} THEN [base |-> Scale, affinity |-> 0]
    ELSE [base |-> BaseWeight, affinity |-> AffinityWeight]

PersonalScore(s, c, f, sources) ==
    LET base == BaseScore(s, c)
        blend == BlendOf(sources)
        affinity == IF sources = {} THEN 0 ELSE Quantize(s.affinity, Parts)
        pre == Contribution(base.base, blend.base)
               + Contribution(affinity, blend.affinity)
        final == Contribution(pre, FactorOf(f))
    IN  [final |-> final, pre |-> pre, delta |-> final - pre, base |-> base.base,
         affinity |-> affinity, content |-> base.content,
         platform |-> base.platform, popularity |-> base.popularity]

\* _user_vector: each part that is given must have content, and one must be given.
HasSignal(c) == \/ c.taxonomy = "known"
                \/ c.taxonomy = "none" /\ c.selected # {}

\* FeedbackRanker.rank: the answer, or the reason why it is empty.
Personalized(c, fb, s) ==
    LET effective == EffectiveContext(c, fb)
        sources == PositiveSources(fb)
        candidates == Candidates(effective, s)
        eligible == candidates \ (Disliked(fb) \cup sources)
        score == [g \in eligible |-> PersonalScore(s[g], effective, fb[g], sources)]
        key == [g \in eligible |->
                  <<score[g].final, score[g].pre, score[g].base, score[g].affinity,
                    score[g].content, score[g].popularity>>]
        top == Top(eligible, key, effective.topK)
        items == [i \in DOMAIN top |-> [slug |-> top[i], score |-> score[top[i]]]]
        empty(reason) == [reason |-> reason, items |-> <<>>]
    IN  IF ~HasSignal(effective) THEN empty("insufficient_context")
        ELSE IF candidates = {} THEN empty("no_content_support")
        ELSE IF eligible = {} THEN empty("no_eligible_candidates")
        ELSE [reason |-> "recommendations", items |-> items]
-----------------------------------------------------------------------------
NoAnswer == [reason |-> "none", items |-> <<>>]

Init ==
    /\ \E input \in Inputs :
          context = input.context /\ feedback = input.feedback /\ signals = input.signals
    /\ answer = NoAnswer

Rank ==
    /\ answer = NoAnswer
    /\ answer' = Personalized(context, feedback, signals)
    /\ UNCHANGED <<context, feedback, signals>>

Next == Rank

Spec == Init /\ [][Next]_vars
-----------------------------------------------------------------------------
Shown == {answer.items[i] : i \in DOMAIN answer.items}

\* Every score that is answered is a number of units between nothing and one,
\* a contribution is never more than its weight, and the adjustment for a
\* played game never adds: rounding a product, or a similarity that floating
\* point leaves a little over one, never carries a score out of its range.
TypeOK ==
    /\ answer.reason \in {"none", "insufficient_context", "no_content_support",
                          "no_eligible_candidates", "recommendations"}
    /\ Len(answer.items) <= context.topK
    /\ \A item \in Shown :
          /\ item.slug \in Games
          /\ \A n \in {"final", "pre", "base", "affinity", "content", "platform",
                       "popularity"} : item.score[n] \in 0..Scale
          /\ item.score.delta \in (-Scale)..0
          /\ \A w \in {ContentWeight, AffinityWeight, BaseWeight} :
                Contribution(item.score.content, w) <= w

\* The exact score of a game, in parts of a unit, Scale^2 * Parts * platforms of them to
\* one: the same weights on the same signals, nothing rounded.
Clamped(n) == IF n > Parts THEN Parts ELSE IF n < 0 THEN 0 ELSE n
Exact(s, c, f, sources) ==
    LET p == IF c.platforms = 0 THEN 1 ELSE c.platforms
        base == p * (Clamped(s.similarity) * ContentWeight
                     + Clamped(s.popularity) * PopularityWeight)
                + Parts * s.matches * PlatformWeight
        pre == IF sources = {} THEN base * Scale
               ELSE base * BaseWeight + p * Clamped(s.affinity) * AffinityWeight * Scale
    IN  pre * FactorOf(f)

\* What rounding may add or take, in halves of 1 / Scale^2 of a unit: of a base score two
\* units, half a one for its three signals together and for each of its contributions; of a
\* blend half a unit for the affinity and for each of two contributions; and half a unit
\* more if the game was played.
Slack(f, sources) ==
    LET pre == IF sources = {} THEN 4 * Scale
               ELSE 4 * BaseWeight + AffinityWeight + 2 * Scale
    IN  FactorOf(f) * pre + (IF f.played THEN Scale * Scale ELSE 0)

\* However often it is rounded on the way, a final score is no further from the exact
\* weighted sum of the game's signals than these roundings, each weighted like what it
\* rounds: three units and a half at most, whatever the weights.
ScoreIsNearExact ==
    LET c == EffectiveContext(context, feedback)
        sources == PositiveSources(feedback)
        parts == Parts * (IF c.platforms = 0 THEN 1 ELSE c.platforms)
        distance(i) == i.score.final * (Scale * Scale * parts)
                       - Exact(signals[i.slug], c, feedback[i.slug], sources)
        most(i) == parts * Slack(feedback[i.slug], sources)
    IN  \A i \in Shown : 2 * distance(i) \in (-most(i))..most(i)

\* Nothing that the user rejected or has already named comes back: a shown
\* game is not disliked, is not one of the saved games, and if the user likes
\* it then MaxSources other games were liked or rated well no earlier.
NothingRejectedIsShown ==
    \A item \in Shown :
       LET g == item.slug IN
       /\ feedback[g].reaction # "disliked"
       /\ g \notin context.selected
       /\ feedback[g].reaction = "liked" =>
            Cardinality({h \in Games \ {g} :
              /\ \/ feedback[h].reaction = "liked"
                 \/ feedback[h].reaction = "none" /\ feedback[h].rating >= Threshold
              /\ (IF feedback[h].reaction = "liked" THEN feedback[h].reactedAt
                  ELSE feedback[h].ratedAt) >= feedback[g].reactedAt}) >= MaxSources

\* A wish, a rating of a game that has a reaction, and a rating below the
\* threshold change nothing in the answer: neither a score nor the order.
Neutralized(f) ==
    [f EXCEPT !.wishlisted = FALSE,
              !.rating = IF f.reaction # "none" \/ @ < Threshold THEN 0 ELSE @]
NeutralFeedbackIsNeutral ==
    answer # NoAnswer =>
      answer = Personalized(context, [g \in Games |-> Neutralized(feedback[g])], signals)

\* With feedback that says neither liked nor disliked nor played, the answer
\* is the one of the stateless ranking: the same games, scores and order.
WithoutFeedbackItIsStateless ==
    (/\ answer.reason = "recommendations"
     /\ PositiveSources(feedback) = {} /\ Disliked(feedback) = {}
     /\ \A g \in Games : ~feedback[g].played) =>
       [i \in DOMAIN answer.items |->
          [slug |-> answer.items[i].slug, final |-> answer.items[i].score.final]]
       = StatelessItems(context, signals)

\* Rounding never turns an advantage round: a shown game that is no worse
\* than another in every signal, and not played unless the other is, has at
\* least its final score.
DominanceIsKept ==
    \A a, b \in Shown :
       (/\ \A n \in {"similarity", "matches", "popularity", "affinity"} :
             signals[a.slug][n] >= signals[b.slug][n]
        /\ feedback[a.slug].played => feedback[b.slug].played)
       => a.score.final >= b.score.final

\* The scores of an answer: in range, near the exact sum, and true to clear cases.
ScoresAreSound == TypeOK /\ ScoreIsNearExact /\ DominanceIsKept
=============================================================================
