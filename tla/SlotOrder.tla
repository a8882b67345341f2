------------------------------ MODULE SlotOrder ------------------------------
(***************************************************************************)
(* The order in which services/scheduler keeps its slots.                  *)
(***************************************************************************)
EXTENDS Integers

(* scheduler_slot_follows: a larger priority value is less urgent, and the *)
(* configured ID breaks ties.                                              *)
Follows(table, left, right) ==
    \/ table[left].priority > table[right].priority
    \/ table[left].priority = table[right].priority /\ left > right

(* Plausible slips in Sorted; nothing uses them. *)
SortedByPriorityOnly(table) ==
    {s \in [DOMAIN table -> DOMAIN table] :
        \A i, j \in DOMAIN table :
            i < j => s[i] # s[j] /\ table[s[i]].priority <= table[s[j]].priority}
SortedWithRepetition(table) ==
    {s \in [DOMAIN table -> DOMAIN table] :
        \A i, j \in DOMAIN table : i < j => ~Follows(table, s[i], s[j])}

(* What scheduler_sort_slots achieves: the slots in ascending order of     *)
(* (priority, ID).                                                         *)
Sorted(table) ==
    {s \in [DOMAIN table -> DOMAIN table] :
        \A i, j \in DOMAIN table : i < j => Follows(table, s[j], s[i])}
=============================================================================
