---------------------------- MODULE MCCatalogSeed ----------------------------
(* Two genres and two games, one of each to be inserted, for CatalogSeed.    *)
EXTENDS CatalogSeed, TLC

CONSTANTS p1, p2, p3, p4, u1, action, puzzle, chess, doom

TwoFamilies == <<<<action, puzzle>>, <<chess, doom>>>>
TwoWriters == p3 :> <<u1, chess, action>> @@ p4 :> <<u1, chess>>
HalfStored == action :> "old" @@ puzzle :> "absent" @@ chess :> "old" @@ doom :> "absent"
=============================================================================
