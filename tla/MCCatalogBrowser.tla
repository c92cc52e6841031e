-------------------------- MODULE MCCatalogBrowser --------------------------
(***************************************************************************)
(* Instances of CatalogBrowser for TLC: two facets with one value each.    *)
(***************************************************************************)
EXTENDS CatalogBrowser

MCPages == {1}
TwoPages == {1, 2}
=============================================================================
