---------------------------- MODULE MCCatalogStore ----------------------------
(***************************************************************************)
(* One local node and two peers over two files: two peers are needed for a *)
(* transaction to touch the wrong one, two paths for a rename.             *)
(***************************************************************************)
EXTENDS CatalogStore
=============================================================================
