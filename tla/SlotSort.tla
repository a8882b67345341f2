------------------------------ MODULE SlotSort ------------------------------
(***************************************************************************)
(* scheduler_sort_slots: the heap sort that orders the slots when the      *)
(* scheduler is initialized.  A heap of the first count slots has its      *)
(* least urgent task at index 0.                                           *)
(***************************************************************************)
EXTENDS SlotOrder, FiniteSets

CONSTANT Tables     \* the configuration tables to sort

(* A table maps the IDs 0 .. task count - 1 to entries with a priority.    *)
ASSUME SortTablesAssumption ==
    \A table \in Tables :
        /\ IsFiniteSet(DOMAIN table)
        /\ DOMAIN table = 0 .. Cardinality(DOMAIN table) - 1
        /\ \A id \in DOMAIN table : table[id].priority \in Nat

VARIABLES
    table,      \* the configs of the scheduler
    slots,      \* slots[i].id
    phase,      \* "build" or "drain", the two loops of scheduler_sort_slots; "done"
    bound,      \* start or end, the loop variable
    sift        \* the running scheduler_sift_down: root and count, or None

vars == <<table, slots, phase, bound, sift>>

None == [root |-> 0, count |-> 0]
Index == DOMAIN table
TaskCount == Cardinality(Index)

-----------------------------------------------------------------------------
(* Plausible slips; no action uses them. *)
DrainKeepsCount ==
    /\ phase = "drain" /\ sift = None /\ bound > 1
    /\ slots' = [slots EXCEPT ![0] = slots[bound - 1], ![bound - 1] = slots[0]]
    /\ sift' = [root |-> 0, count |-> bound]
    /\ bound' = bound - 1
    /\ UNCHANGED <<table, phase>>
DrainKeepsEnd ==
    /\ phase = "drain" /\ sift = None /\ bound > 1
    /\ slots' = [slots EXCEPT ![0] = slots[bound - 1], ![bound - 1] = slots[0]]
    /\ sift' = [root |-> 0, count |-> bound - 1]
    /\ UNCHANGED <<table, phase, bound>>

-----------------------------------------------------------------------------
(* scheduler_swap_slots *)
Swap(s, i, j) == [s EXCEPT ![i] = s[j], ![j] = s[i]]

\* The child of root to compare with: the one that follows the other.
LargerChild(root, count) ==
    LET left == 2 * root + 1
    IN  IF left + 1 < count /\ Follows(table, slots[left + 1], slots[left])
        THEN left + 1 ELSE left

Init ==
    /\ table \in Tables
    /\ slots = [i \in DOMAIN table |-> i]
    /\ phase = "build"
    /\ bound = TaskCount \div 2
    /\ sift = None

Build ==
    /\ phase = "build" /\ sift = None /\ bound > 0
    /\ sift' = [root |-> bound - 1, count |-> TaskCount]
    /\ bound' = bound - 1
    /\ UNCHANGED <<table, slots, phase>>

BuildEnds ==
    /\ phase = "build" /\ sift = None /\ bound = 0
    /\ phase' = "drain"
    /\ bound' = TaskCount
    /\ UNCHANGED <<table, slots, sift>>

Drain ==
    /\ phase = "drain" /\ sift = None /\ bound > 1
    /\ slots' = Swap(slots, 0, bound - 1)
    /\ sift' = [root |-> 0, count |-> bound - 1]
    /\ bound' = bound - 1
    /\ UNCHANGED <<table, phase>>

DrainEnds ==
    /\ phase = "drain" /\ sift = None /\ bound <= 1
    /\ phase' = "done"
    /\ UNCHANGED <<table, slots, bound, sift>>

(* One turn of the loop of scheduler_sift_down. *)
SiftSwap ==
    /\ sift.root < sift.count \div 2
    /\ LET child == LargerChild(sift.root, sift.count)
       IN  /\ Follows(table, slots[child], slots[sift.root])
           /\ slots' = Swap(slots, sift.root, child)
           /\ sift' = [sift EXCEPT !.root = child]
    /\ UNCHANGED <<table, phase, bound>>

SiftEnds ==
    /\ sift # None
    /\ sift.root < sift.count \div 2 =>
          ~Follows(table, slots[LargerChild(sift.root, sift.count)], slots[sift.root])
    /\ sift' = None
    /\ UNCHANGED <<table, slots, phase, bound>>

Next == Build \/ BuildEnds \/ Drain \/ DrainEnds \/ SiftSwap \/ SiftEnds

Spec == Init /\ [][Next]_vars
FairSpec == Spec /\ WF_vars(Next)

-----------------------------------------------------------------------------
(* Properties *)

(* When the sort is done, the slots are in the order the scheduler needs.  *)
SortsSlots == phase = "done" => slots \in Sorted(table)

(* Every sort ends. *)
SortTerminates == <>(phase = "done")
=============================================================================
