--------------------------- MODULE MCCatalogAdmin ---------------------------
(* CatalogAdmin with a table of one row to begin with. *)
EXTENDS CatalogAdmin

MCInitial == {[item |-> "a", id |-> 2]}
=============================================================================
