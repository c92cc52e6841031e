------------------------- MODULE MCSchemaMigrations -------------------------
(* A small populated database for SchemaMigrations. *)
EXTENDS SchemaMigrations

CONSTANTS u1, u2, g1, g2
=============================================================================
