------------------------------ MODULE MCControl ------------------------------
(***************************************************************************)
(* Two broadcasting goroutines and two subscriptions, one of a client that *)
(* has stopped reading, with a socket and a channel of one frame each: a   *)
(* second event already meets a full one.                                  *)
(***************************************************************************)
EXTENDS Control

CONSTANTS c1, c2

Budget == [c \in {c1, c2} |-> IF c = c1 THEN 2 ELSE 1]
=============================================================================
