----------------------------- MODULE MCWebPages -----------------------------
(***************************************************************************)
(* The parts of WebPages on small instances.                               *)
(***************************************************************************)
EXTENDS WebPages

MCGames == 1 .. 4

\* Four old items; one of four missing; items that will fall back when a row is closed.
MCRows == {<<{0}, {-1}, {-2}, {-3}>>,
           <<{0, -9}, {-1}, {-2}, {}>>,
           <<{0, -9}, {-1, -8}, {-2}, {-3}>>}

\* Two games, a tag and a platform to choose, one of each family at most.  The form sees one
\* of the games at a time.
MCFamilies == {"games", "tags", "platforms"}
MCPrimary  == {"games", "tags"}
MCItems    == {"game1", "game2", "tag", "platform"}
MCFamilyOf == [i \in MCItems |-> CASE i = "tag" -> "tags" [] i = "platform" -> "platforms"
                                   [] OTHER -> "games"]
=============================================================================
