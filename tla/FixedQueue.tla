----------------------------- MODULE FixedQueue -----------------------------
(***************************************************************************)
(* libraries/fixed_queue of the archive: a queue of elements copied by     *)
(* value, in batches that may be transferred in part, for one serial       *)
(* caller.  A call that fails changes at most the rejected count.          *)
(***************************************************************************)
EXTENDS Naturals, Sequences

CONSTANTS
    Element, Capacity, None,
    Batches,        \* the batches that are pushed
    CounterMax      \* SIZE_MAX

VARIABLES
    queue,      \* fixed_queue_t and its storage
    received    \* the caller's buffer after a pop

Slots == 0 .. Capacity - 1
NewQueue(storage) ==
    [ring |-> storage, head |-> 0, size |-> 0, rejected |-> 0, high_water |-> 0]
NoStorage == [i \in Slots |-> None]

-----------------------------------------------------------------------------
(* advance: a ring index that never exceeds size_t on the way. *)
Advance(index, count) ==
    LET tail == Capacity - index
    IN  IF count >= tail THEN count - tail ELSE index + count

(* check *)
Sound == queue.size <= Capacity /\ queue.head < Capacity

Lesser(a, b) == IF a < b THEN a ELSE b

(* transfer, writing: as much of the batch as there is room for. *)
Push(batch) ==
    LET free == Capacity - queue.size
        amount == Lesser(free, Len(batch))
        filled == [i \in Slots |->
                     IF \E k \in 1 .. amount : i = Advance(queue.head, queue.size + k - 1)
                     THEN batch[CHOOSE k \in 1 .. amount :
                                   i = Advance(queue.head, queue.size + k - 1)]
                     ELSE queue.ring[i]]
    IN  /\ Sound
        /\ queue' = [queue EXCEPT
              !.ring = filled, !.size = @ + amount,
              !.rejected = IF Len(batch) > free /\ @ < CounterMax THEN @ + 1 ELSE @,
              !.high_water = IF queue.size + amount > @ THEN queue.size + amount ELSE @]
        /\ UNCHANGED received

(* fixed_queue_peek_at: the element at a distance from the head *)
PeekAt(index) == queue.ring[Advance(queue.head, index)]

(* transfer, reading *)
Pop(count) ==
    LET amount == Lesser(queue.size, count)
    IN  /\ Sound /\ amount > 0
        /\ received' = [i \in 1 .. amount |-> PeekAt(i - 1)]
        /\ queue' = [queue EXCEPT !.head = Advance(@, amount), !.size = @ - amount]

(* A repeated fixed_queue_init empties the queue. *)
QueueInit == queue' = NewQueue(queue.ring) /\ UNCHANGED received

Init == queue = NewQueue(NoStorage) /\ received = << >>

Next == \/ \E batch \in Batches : Push(batch)
        \/ \E count \in 1 .. Capacity + 1 : Pop(count)
        \/ QueueInit

Spec == Init /\ [][Next]_<<queue, received>>

Content == [i \in 1 .. queue.size |-> PeekAt(i - 1)]
=============================================================================
