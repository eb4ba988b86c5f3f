----------------------------- MODULE MCConfigDir -----------------------------
(***************************************************************************)
(* Two daemons, one after the other or at once, and two runs of kin join.  *)
(* Two invites of one node with overlapping endpoints.                     *)
(***************************************************************************)
EXTENDS ConfigDir, TLC

CONSTANTS d1, d2, j1, j2, t1, t2, node, direct, relay

MCInviter == t1 :> node @@ t2 :> node
MCEndpoints == t1 :> <<direct, relay>> @@ t2 :> <<relay>>

Symmetry == Permutations({d1, d2}) \cup Permutations({j1, j2})
=============================================================================
