------------------------------- MODULE MCMvcc -------------------------------
(***************************************************************************)
(* Mvcc for TLC: two keys whose records and tombstones interleave, and two *)
(* Compact calls whose batches do.                                         *)
(***************************************************************************)
EXTENDS Mvcc, TLC

Symmetry == Permutations(Key) \cup Permutations(Value)
              \cup Permutations(Compactor)
=============================================================================
