------------------------------- MODULE MCStore -------------------------------
(***************************************************************************)
(* Store for TLC: two clients, whose attempts and commits interleave with  *)
(* each other and with the batches of a Compact call.                      *)
(***************************************************************************)
EXTENDS Store, TLC

Symmetry == Permutations(Key) \cup Permutations(Value) \cup Permutations(Client)
=============================================================================
