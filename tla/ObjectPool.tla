----------------------------- MODULE ObjectPool -----------------------------
(***************************************************************************)
(* libraries/object_pool of the archive: objects of one size, lent by      *)
(* pointer, always the free one with the lowest index.  Calls are serial;  *)
(* one that fails changes at most the exhausted count.                     *)
(***************************************************************************)
EXTENDS Naturals, FiniteSets

CONSTANTS
    PoolCapacity,
    CounterMax      \* SIZE_MAX

VARIABLES
    pool,       \* object_pool_t and its state bytes
    lent        \* the slots that callers hold a pointer to

PoolSlots == 0 .. PoolCapacity - 1
NewPool == [states |-> [i \in PoolSlots |-> 0], available |-> PoolCapacity,
            lowest_free_index |-> 0, exhausted_count |-> 0]

-----------------------------------------------------------------------------
(* A plausible slip; nothing uses it. *)
NextFreeAdjacent(slot) == slot + 1

-----------------------------------------------------------------------------
(* The scan of object_pool_acquire for the next free slot. *)
NextFree(slot) ==
    CHOOSE next \in slot + 1 .. PoolCapacity :
        /\ next = PoolCapacity \/ pool.states[next] = 0
        /\ \A i \in slot + 1 .. next - 1 : pool.states[i] # 0

(* check *)
Sound == pool.available <= PoolCapacity /\ pool.lowest_free_index <= PoolCapacity

(* object_pool_acquire; with a wrong index it would return INVALID_STATE.  *)
IndexUsable == pool.lowest_free_index \in PoolSlots /\ pool.states[pool.lowest_free_index] = 0

Acquire ==
    LET slot == pool.lowest_free_index
    IN  /\ Sound /\ pool.available > 0 /\ IndexUsable
        /\ pool' = [pool EXCEPT !.states[slot] = 1, !.available = @ - 1,
                                !.lowest_free_index = NextFree(slot)]
        /\ lent' = lent \cup {slot}

AcquireFull ==
    /\ Sound /\ pool.available = 0
    /\ pool' = [pool EXCEPT !.exhausted_count = IF @ < CounterMax THEN @ + 1 ELSE @]
    /\ UNCHANGED lent

(* object_pool_release of a pointer that the caller holds *)
Release(slot) ==
    /\ Sound /\ slot \in lent /\ pool.states[slot] = 1
    /\ pool' = [pool EXCEPT !.states[slot] = 0, !.available = @ + 1,
                            !.lowest_free_index = IF slot < @ THEN slot ELSE @]
    /\ lent' = lent \ {slot}

(* A repeated object_pool_init returns BUSY while something is lent.       *)
PoolInit ==
    /\ pool.available = PoolCapacity
    /\ pool' = NewPool
    /\ UNCHANGED lent

Init == pool = NewPool /\ lent = {}

Next == Acquire \/ AcquireFull \/ (\E slot \in PoolSlots : Release(slot)) \/ PoolInit

Spec == Init /\ [][Next]_<<pool, lent>>

-----------------------------------------------------------------------------
(* The books balance after any sequence of loans and returns: the state    *)
(* bytes, the number and the lowest index of the free slots describe the   *)
(* loans, so that nothing is lent twice, acquire fails only when           *)
(* everything is lent, and init never forgets a loan.                      *)
BooksBalance ==
    LET free == PoolSlots \ lent
    IN  /\ \A i \in PoolSlots : pool.states[i] = IF i \in lent THEN 1 ELSE 0
        /\ pool.available = Cardinality(free)
        /\ pool.lowest_free_index \in free \cup {PoolCapacity}
        /\ \A i \in free : pool.lowest_free_index <= i
=============================================================================
