---------------------------- MODULE BlockingCall ----------------------------
(***************************************************************************)
(* What queue_port, mutex_port, event_group and count_notification share:  *)
(* a lifecycle, a waiter per task, and calls that try the object under the *)
(* critical section and, while that fails, wait at the wait port until     *)
(* they are signalled, cancelled, or out of time.                          *)
(*                                                                         *)
(* A task can be preempted between any two steps.  What runs inside the    *)
(* critical section is one step, because enter masks preemption; reads of  *)
(* the lifecycle state and each store of the lifecycle functions are steps *)
(* of their own, outside it.  One controlling context calls the lifecycle  *)
(* functions.                                                              *)
(***************************************************************************)
EXTENDS Naturals, FiniteSets, Sequences

CONSTANTS
    Task,       \* the tasks and interrupts that share the object
    None        \* no operation, no owner

ASSUME NoneAssumption == None \notin Task

VARIABLES
    port,       \* the lifecycle state, and what the controller has yet to store
    object,     \* the fields that the critical section protects
    task        \* the call and the waiter of each task

(* status is the result that the waiter holds; what a call without waiter  *)
(* returns is not recorded.  stop is history: was the object stopped during *)
(* the blocking call, and did the task sleep through it.                   *)
NoCall == [pc |-> "idle", op |-> None, blocking |-> FALSE, waiter |-> "IDLE",
           status |-> "OK", stop |-> "none"]

At(t, pc) == task[t].pc = pc
Asleep == {t \in Task : At(t, "asleep")}
InState(state) == port.state = state
NextStore == IF port.controller = << >> THEN "none" ELSE Head(port.controller)

-----------------------------------------------------------------------------
(* waiter_complete: it only completes a wait that has begun.               *)
WaiterComplete(waiter, status) ==
    IF waiter # "WAITING" THEN waiter
    ELSE IF status = "CANCELLED" THEN "CANCELLED" ELSE "COMPLETED"

Returned(call, status) ==
    [call EXCEPT !.pc = "idle", !.op = None, !.blocking = FALSE,
                 !.status = IF call.blocking THEN status ELSE @,
                 !.waiter = WaiterComplete(@, status)]

Return(t, status) == task' = [task EXCEPT ![t] = Returned(@, status)]
Goto(t, pc) == task' = [task EXCEPT ![t].pc = pc]

(* A call begins; a blocking one binds the caller's waiter (waiter_begin). *)
(* The waiter is the task's own: that it resets it before its next call of *)
(* any kind, and not just before the next blocking one, changes nothing    *)
(* that another task could notice.                                         *)
Begun(call, op, blocking) ==
    [call EXCEPT !.pc = "check", !.op = op, !.blocking = blocking,
                 !.waiter = IF blocking THEN "WAITING" ELSE @,
                 !.stop = IF blocking /\ InState("STOPPED") THEN "during" ELSE @]

Begin(t, op, blocking) ==
    /\ At(t, "idle") /\ task[t].waiter = "IDLE"
    /\ task' = [task EXCEPT ![t] = Begun(@, op, blocking)]
    /\ UNCHANGED <<port, object>>

WaiterReset(t) ==
    /\ At(t, "idle") /\ task[t].waiter \in {"COMPLETED", "CANCELLED"}
    /\ task' = [task EXCEPT ![t] = NoCall]
    /\ UNCHANGED <<port, object>>

(* The unprotected look at the state before a try.                         *)
CheckReady(t) ==
    /\ At(t, "check") /\ InState("READY")
    /\ Goto(t, "body")
    /\ UNCHANGED <<port, object>>

CheckRefused(t) ==
    /\ At(t, "check") /\ ~InState("READY")
    /\ IF task[t].blocking THEN Goto(t, "recheck") ELSE Return(t, "INVALID_STATE")
    /\ UNCHANGED <<port, object>>

(* Plausible slips; nothing uses them. *)
RecheckAssumesStop(t) ==
    At(t, "recheck") /\ Return(t, "CANCELLED") /\ UNCHANGED <<port, object>>
TimeoutRetries(t) == At(t, "asleep") /\ Goto(t, "wait") /\ UNCHANGED <<port, object>>

(* Blocking calls look again to tell a cancellation from a misuse.         *)
Recheck(t) ==
    /\ At(t, "recheck")
    /\ Return(t, IF InState("STOPPED") THEN "CANCELLED" ELSE "INVALID_STATE")
    /\ UNCHANGED <<port, object>>

(* The try failed with a status that a blocking call waits on.             *)
NotNow(t, status) == IF task[t].blocking THEN Goto(t, "wait") ELSE Return(t, status)

-----------------------------------------------------------------------------
(* The wait port, as its adapters implement it: signals and cancellations  *)
(* only reach those who are asleep, a wait may end without either, and it  *)
(* ends with TIMEOUT at the deadline.  Whoever wakes continues at head.    *)
Woken(calls, woken, head) ==
    [t \in Task |-> IF t \in woken THEN [calls[t] EXCEPT !.pc = head] ELSE calls[t]]

Sleep(t) == At(t, "wait") /\ Goto(t, "asleep") /\ UNCHANGED <<port, object>>

Timeout(t) == At(t, "asleep") /\ Return(t, "TIMEOUT") /\ UNCHANGED <<port, object>>

WakeUp(t, head) == At(t, "asleep") /\ Goto(t, head) /\ UNCHANGED <<port, object>>

SignalOne(t, head) ==
    /\ At(t, "signal")
    /\ \E woken \in IF Asleep = {} THEN {{}} ELSE {{w} : w \in Asleep} :
          task' = [Woken(task, woken, head) EXCEPT ![t] = Returned(@, "OK")]
    /\ UNCHANGED <<port, object>>

SignalAll(t, head) ==
    /\ At(t, "signal")
    /\ task' = [Woken(task, Asleep, head) EXCEPT ![t] = Returned(@, "OK")]
    /\ UNCHANGED <<port, object>>

-----------------------------------------------------------------------------
(* The lifecycle: a call in a right state makes its stores one by one;     *)
(* calls in a wrong state return INVALID_STATE or BUSY and change nothing. *)
NotInUse == {"UNINITIALIZED", "DEINITIALIZED"}

LifecycleCall(states, stores) ==
    /\ NextStore = "none" /\ port.state \in states
    /\ port' = [port EXCEPT !.controller = stores]
    /\ UNCHANGED <<object, task>>

Stored(field) == NextStore = field /\ port' = [port EXCEPT !.controller = Tail(@)]

(* What the history notes of a new state: a stop marks the blocking calls, *)
(* and any other state ends what it means for those who slept.             *)
Noted(call, t, state) ==
    IF state = "STOPPED"
    THEN IF ~call.blocking THEN call
         ELSE [call EXCEPT !.stop = IF At(t, "asleep") THEN "asleep" ELSE "during"]
    ELSE IF call.stop = "asleep" THEN [call EXCEPT !.stop = "during"] ELSE call

StateStore ==
    /\ NextStore \in {"READY", "STOPPED", "DEINITIALIZED"}
    /\ port' = [state |-> NextStore, controller |-> Tail(port.controller)]
    /\ task' = [t \in Task |-> Noted(task[t], t, NextStore)]
    /\ UNCHANGED object

CancelAll(head) ==
    /\ Stored("cancel_all")
    /\ task' = Woken(task, Asleep, head)
    /\ UNCHANGED object

InitWith(cleared) ==
    /\ port = [state |-> "UNINITIALIZED", controller |-> << >>]
    /\ object = cleared
    /\ task = [t \in Task |-> NoCall]

(* What every task may do at any object; head is where its loop begins.    *)
CommonStep(t, head) ==
    \/ WaiterReset(t)
    \/ Recheck(t)
    \/ Sleep(t) \/ Timeout(t) \/ WakeUp(t, head)
=============================================================================
