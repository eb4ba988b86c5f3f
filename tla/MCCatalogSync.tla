---------------------------- MODULE MCCatalogSync ----------------------------
(***************************************************************************)
(* Two daemons that connect twice: once in each direction, or again after  *)
(* a loss.                                                                 *)
(***************************************************************************)
EXTENDS CatalogSync, TLC

CONSTANTS a, b

MCConn == {<<a, b, 1>>, <<b, a, 1>>}

\* One of the two has indexed files, so that a change adds one or removes one.
MCShared == {[n \in Node |-> IF n = x THEN File ELSE {}] : x \in Node}

\* Exchanging the two nodes maps MCConn to itself.
Symmetry == Permutations({a, b})
=============================================================================
