------------------------------ MODULE MCCount -------------------------------
(***************************************************************************)
(* Count for TLC: a prefix of two keys, over a store that clients and a    *)
(* Compact call change under the scans.                                    *)
(***************************************************************************)
EXTENDS Count

BothKeys == {{1, 2}}
=============================================================================
