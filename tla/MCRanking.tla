------------------------------ MODULE MCRanking ------------------------------
(* Small inputs for Ranking: all the numbers of two games, and all the      *)
(* feedback on four.                                                        *)
EXTENDS Ranking

Liked(t) == [NoFeedback EXCEPT !.reaction = "liked", !.reactedAt = t]
DislikedAt(t) == [NoFeedback EXCEPT !.reaction = "disliked", !.reactedAt = t]
Rated(n, t) == [NoFeedback EXCEPT !.rating = n, !.ratedAt = t]
Played(f) == [f EXCEPT !.played = TRUE]
Wished(f) == [f EXCEPT !.wishlisted = TRUE]
Both(f, g) == [f EXCEPT !.rating = g.rating, !.ratedAt = g.ratedAt]

Context(selected, taxonomy, platforms, k) ==
    [selected |-> selected, taxonomy |-> taxonomy, platforms |-> platforms, topK |-> k]
Signal(similarity, matches, popularity, affinity) ==
    [similarity |-> similarity, matches |-> matches, popularity |-> popularity,
     affinity |-> affinity]

InputsOf(contexts, feedbacks, inputs) ==
    [context : contexts, feedback : feedbacks, signals : inputs]

MCGames == 1..4

\* Numbers: the first game may feed the profile, two are scored, the last has no content.
Values(p) == {Signal(s, IF r[1] < p THEN r[1] ELSE p, r[2], a) :
                s \in {0, 1, 2, 15, 21}, r \in {<<0, 5>>, <<2, 18>>}, a \in {0, 13}}
Numbers ==
    UNION {InputsOf({Context({}, "known", p, 20)},
             {<<f, g, h, NoFeedback>> : f \in {NoFeedback, Liked(1)},
                                        g, h \in {NoFeedback, Played(NoFeedback)}},
             {<<Signal(20, 0, 0, 20), s, t, Signal(0, 0, 0, 0)>> : s, t \in Values(p)}) :
           p \in {0, 3}}

\* Policy: what is selected, liked, disliked, rated, played and wished.
Policies ==
    InputsOf({Context({1}, "none", 0, 2), Context({1, 2}, "known", 0, 20),
              Context({}, "known", 0, 3), Context({2}, "unknown", 0, 3)},
          [MCGames -> {NoFeedback, Liked(1), Liked(2), Rated(7, 2), Rated(6, 1),
                       Both(DislikedAt(1), Rated(9, 2)), Wished(Played(NoFeedback))}],
          {[g \in MCGames |-> IF g \in quiet THEN Signal(0, 0, 4, 20)
                                             ELSE Signal(8 + g, 0, 20, 4)] :
              quiet \in {{2}, {1, 3}}})

MCInputs == Numbers \cup Policies
=============================================================================
