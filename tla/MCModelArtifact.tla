--------------------------- MODULE MCModelArtifact ---------------------------
(* Small instances of ModelArtifact: two builders of one or two targets, and *)
(* API processes configured with a target or with nothing.                   *)
EXTENDS ModelArtifact, TLC

CONSTANTS b1, b2, s1, s2, t1, t2

TwoFiles == <<"items", "matrix">>
OneConfigured == s1 :> t1
TwoConfigured == s1 :> t1 @@ s2 :> None
=============================================================================
