----------------------------- MODULE MCSlotSort -----------------------------
(***************************************************************************)
(* Every table of up to five tasks over three priorities.                  *)
(***************************************************************************)
EXTENDS SlotSort

SortTables == UNION {[0 .. n - 1 -> [priority : 0 .. 2]] : n \in 0 .. 5}
=============================================================================
