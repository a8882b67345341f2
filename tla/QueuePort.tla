------------------------------ MODULE QueuePort ------------------------------
(***************************************************************************)
(* services/queue_port of the archive: a bounded queue of elements that    *)
(* are copied by value, for tasks that push and pop with a deadline and    *)
(* interrupts that do not wait.                                            *)
(***************************************************************************)
EXTENDS BlockingCall

CONSTANT Capacity

(* An element is the name of the task that pushed it.  The storage keeps   *)
(* the bytes of elements that have left; here their slots hold None, so    *)
(* that reading one would be noticed.                                      *)
Slots == 0 .. Capacity - 1
StoringSize == NextStore = "size"
EmptyQueue == [ring |-> [i \in Slots |-> None], head |-> 0, size |-> 0]

-----------------------------------------------------------------------------
(* Plausible slips; nothing uses them. *)
PopLockedLifo(queue) == [queue EXCEPT !.size = @ - 1]
PushAfterStop(t) == At(t, "check") /\ Goto(t, "body") /\ UNCHANGED <<port, object>>

-----------------------------------------------------------------------------
(* queue_push_locked and queue_pop_locked, when they do not fail. *)
PushLocked(queue, element) ==
    [queue EXCEPT !.ring[(queue.head + queue.size) % Capacity] = element, !.size = @ + 1]
PopLocked(queue) ==
    [queue EXCEPT !.ring[queue.head] = None, !.head = (@ + 1) % Capacity, !.size = @ - 1]

\* The state checks of the try functions.
TryCheck(t) == CheckReady(t) \/ CheckRefused(t)

Push(t) ==
    /\ At(t, "body") /\ task[t].op.name = "push"
    /\ IF object.size = Capacity
       THEN NotNow(t, "FULL") /\ UNCHANGED object
       ELSE object' = PushLocked(object, task[t].op.value) /\ Goto(t, "signal")
    /\ UNCHANGED port

Pop(t) ==
    /\ At(t, "body") /\ task[t].op.name = "pop"
    /\ IF object.size = 0
       THEN NotNow(t, "EMPTY") /\ UNCHANGED object
       ELSE /\ object' = PopLocked(object)
            /\ task' = [task EXCEPT ![t].pc = "signal",
                                    ![t].op.value = IF StoringSize THEN None
                                                    ELSE object.ring[object.head]]
    /\ UNCHANGED port

(* init, start, stop and reset empty the queue with two stores.  A push or *)
(* a pop in between works on a queue whose size does not fit its head: the *)
(* push is lost, and the pop gets the bytes of some slot, also one that    *)
(* was popped before.  Such a pop leaves None here: nobody should use it.  *)
Emptied == <<"head", "size">>

PortInit == LifecycleCall(NotInUse, Emptied \o <<"READY">>)
Start == LifecycleCall({"STOPPED"}, Emptied \o <<"READY">>)
Stop == LifecycleCall({"READY"}, <<"STOPPED">> \o Emptied \o <<"cancel_all">>)
Reset == LifecycleCall({"READY"}, Emptied)
Deinit == LifecycleCall({"STOPPED"}, <<"DEINITIALIZED">>)

HeadStore == Stored("head") /\ object' = [object EXCEPT !.head = 0] /\ UNCHANGED task
SizeStore ==
    /\ Stored("size")
    /\ object' = [EmptyQueue EXCEPT !.head = object.head]
    /\ UNCHANGED task

Init == InitWith(EmptyQueue)

(* The try functions and those for interrupts do not block, the others do. *)
CallPush(t) == \E blocking \in BOOLEAN : Begin(t, [name |-> "push", value |-> t], blocking)
CallPop(t) == \E blocking \in BOOLEAN : Begin(t, [name |-> "pop", value |-> None], blocking)

Call(t) == CallPush(t) \/ CallPop(t)
TaskStep(t) == \/ TryCheck(t) \/ Push(t) \/ Pop(t)
               \/ SignalOne(t, "check") \/ CommonStep(t, "check")
Lifecycle == \/ PortInit \/ Start \/ Stop \/ Reset \/ Deinit
             \/ HeadStore \/ SizeStore \/ StateStore \/ CancelAll("check")

Next == (\E t \in Task : Call(t) \/ TaskStep(t)) \/ Lifecycle

Spec == Init /\ [][Next]_<<port, object, task>>

-----------------------------------------------------------------------------
(* What the queue holds, as a sequence: nothing from the store of the head *)
(* to that of the size.                                                    *)
Content == IF StoringSize THEN << >> ELSE [i \in 1 .. object.size |-> object.ring[(object.head + i - 1) % Capacity]]
Taken(t) == IF task[t].op # None /\ task[t].op.name = "pop" /\ task[t].op.value # None
            THEN <<task[t].op.value>> ELSE << >>
=============================================================================
