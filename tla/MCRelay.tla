------------------------------- MODULE MCRelay -------------------------------
(***************************************************************************)
(* Two nodes behind the relay.  Calls: a keeps its presence with           *)
(* ServePunch while b dials it twice.  Presence: a's ServePunch may have   *)
(* to reconnect, and b, which dials once, is also present.                 *)
(***************************************************************************)
EXTENDS Relay

CONSTANTS a, b

Calls == {<<a, "serve", 1>>, <<b, "dial", 1>>, <<b, "dial", 2>>}

Presence == {<<a, "serve", 1>>, <<a, "serve", 2>>, <<b, "serve", 1>>, <<b, "dial", 1>>}
=============================================================================
