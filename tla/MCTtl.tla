-------------------------------- MODULE MCTtl --------------------------------
(***************************************************************************)
(* Module Ttl for TLC.                                                     *)
(***************************************************************************)
EXTENDS Ttl
=============================================================================
