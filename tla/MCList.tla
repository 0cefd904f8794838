------------------------------- MODULE MCList -------------------------------
(***************************************************************************)
(* List for TLC: values of one chunk and of two, a list of both keys, one  *)
(* of a page of one key, one of the keys only, and a Get.                  *)
(***************************************************************************)
EXTENDS List

ListRequests ==
    {[keys |-> {1, 2}, limit |-> 0, keysOnly |-> FALSE],
     [keys |-> {1, 2}, limit |-> 1, keysOnly |-> FALSE],
     [keys |-> {1, 2}, limit |-> 0, keysOnly |-> TRUE],
     [keys |-> {2}, limit |-> 1, keysOnly |-> FALSE]}
=============================================================================
