--------------------------- MODULE MCProfileStore ---------------------------
(***************************************************************************)
(* Instances of ProfileStore for TLC.                                      *)
(***************************************************************************)
EXTENDS ProfileStore, TLC

CONSTANTS rpg, pc_platform   \* a genre and a platform slug

Row(consent, expires) == [state |-> "live", consent |-> consent, expires |-> expires,
                          revoked |-> FALSE, xmin |-> 1]

Body(reaction, rating) == [reaction |-> reaction, played |-> FALSE,
                           wishlisted |-> FALSE, rating |-> rating]

MCSlugs    == {rpg, pc_platform}
MCContent  == {rpg}
MCPrefs    == {{rpg}, {rpg, pc_platform}}
OnePref    == {{rpg}}
MCBodies   == {Body("none", 0), Body("liked", 0), Body("disliked", 8)}
MCRatings  == {8}

\* One session that has just been issued, or whose consent is outdated.
OneSession == {Row("current", 3), Row("outdated", 3)}
TwoKinds   == {NoRow, Row("outdated", 2), Row("current", 3)}

Symmetry == Permutations(Requests)
=============================================================================
