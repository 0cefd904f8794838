------------------------------- MODULE MCWatch -------------------------------
(***************************************************************************)
(* Watch for TLC: one Watch call, over a store that clients and a Compact  *)
(* call change under it.                                                   *)
(***************************************************************************)
EXTENDS Watch

CONSTANT k1

OneWatched == [w \in Watcher |-> {k1}]
=============================================================================
