------------------------------ MODULE MCWatcher ------------------------------
(***************************************************************************)
(* Two paths, two contents, and two timer goroutines that may overlap.     *)
(***************************************************************************)
EXTENDS Watcher, TLC

CONSTANTS p1, p2, f1, f2, r1, r2

Symmetry ==
    Permutations({p1, p2}) \cup Permutations({f1, f2}) \cup Permutations({r1, r2})
=============================================================================
