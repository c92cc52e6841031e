-------------------------- MODULE MCPersistentFlow --------------------------
(***************************************************************************)
(* Instances of PersistentFlow for TLC.                                    *)
(***************************************************************************)
EXTENDS PersistentFlow, TLC

CONSTANTS s1, p1, g1, liked   \* a session, a preference set, a game and a reaction

Nothing == [session |-> NoSession, prefs |-> NoPrefs, feedback |-> NoFeedback]
Saved(f) == [session |-> s1, prefs |-> p1, feedback |-> f]

Fresh   == {Nothing}
Liked   == {Saved([NoFeedback EXCEPT ![g1] = liked])}
Started == Fresh \cup Liked

TabSymmetry == Permutations(Tabs)
=============================================================================
