----------------------------- MODULE MCLruStore -----------------------------
(***************************************************************************)
(* Three words: two of the same keys, whose hints differ only where they   *)
(* are not packed, and a short one whose key begins theirs.  One text is   *)
(* longer than the 12 bytes that may be left of it.                        *)
(***************************************************************************)
EXTENDS LruStore

MCWords ==
  {[keys |-> <<1, 2>>, hints |-> <<0, 0>>, text |-> "market", bytes |-> 24],
   [keys |-> <<1, 2>>, hints |-> <<0, 1>>, text |-> "matter", bytes |-> 6],
   [keys |-> <<1>>, hints |-> <<AnyHint>>, text |-> "ma", bytes |-> 3]}
=============================================================================
