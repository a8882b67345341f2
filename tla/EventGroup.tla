----------------------------- MODULE EventGroup -----------------------------
(***************************************************************************)
(* services/event_group of the archive: bits that tasks and interrupts set *)
(* and clear, and that tasks wait for, any or all of a mask, and clear on  *)
(* exit if they ask for it.                                                *)
(***************************************************************************)
EXTENDS BlockingCall

CONSTANTS
    Masks,      \* the masks that set and clear get
    Requests    \* what wait_bits gets: records of mask, all and clear

NoBits == {}

-----------------------------------------------------------------------------
(* Plausible slips; nothing uses them. *)
ClearedOnExitAll(bits, request) == IF request.clear THEN {} ELSE bits

-----------------------------------------------------------------------------
(* mutate, after its check *)
Mutate(t) ==
    /\ At(t, "body") /\ task[t].op.name \in {"set", "clear"}
    /\ object' = IF task[t].op.name = "set" THEN object \cup task[t].op.mask
                 ELSE object \ task[t].op.mask
    /\ Goto(t, "signal")
    /\ UNCHANGED port

Matches(bits, request) ==
    IF request.all THEN request.mask \subseteq bits ELSE request.mask \cap bits # {}

ClearedOnExit(bits, request) == IF request.clear THEN bits \ request.mask ELSE bits

(* wait_bits: the check before the loop, the check in the loop, the look   *)
(* at the bits.                                                            *)
WaitCheck(t) ==
    /\ At(t, "check") /\ task[t].op.name = "wait"
    /\ IF InState("READY") THEN Goto(t, "loop") ELSE Return(t, "INVALID_STATE")
    /\ UNCHANGED <<port, object>>

WaitLoop(t) ==
    /\ At(t, "loop")
    /\ IF InState("STOPPED") THEN Return(t, "CANCELLED") ELSE Goto(t, "body")
    /\ UNCHANGED <<port, object>>

WaitBody(t) ==
    /\ At(t, "body") /\ task[t].op.name = "wait"
    /\ IF Matches(object, task[t].op)
       THEN object' = ClearedOnExit(object, task[t].op) /\ Return(t, "OK")
       ELSE Goto(t, "wait") /\ UNCHANGED object
    /\ UNCHANGED port

MutateCheck(t) == task[t].op.name # "wait" /\ (CheckReady(t) \/ CheckRefused(t))

(* The lifecycle functions, which store the bits before the state. *)
PortInit == LifecycleCall(NotInUse, <<"bits", "READY">>)
Start == LifecycleCall({"STOPPED"}, <<"bits", "READY">>)
Stop == LifecycleCall({"READY"}, <<"bits", "STOPPED", "cancel_all">>)
Reset == LifecycleCall({"READY"}, <<"bits">>)
Deinit == LifecycleCall({"STOPPED"}, <<"DEINITIALIZED">>)

BitsStore == Stored("bits") /\ object' = NoBits /\ UNCHANGED task

Init == InitWith(NoBits)

(* set and clear, which interrupts may call, too *)
CallMutate(t) ==
    \E mask \in Masks, name \in {"set", "clear"} :
        Begin(t, [name |-> name, mask |-> mask], FALSE)

(* wait_any and wait_all *)
CallWait(t) ==
    \E request \in Requests :
        Begin(t, [name |-> "wait", mask |-> request.mask, all |-> request.all,
                  clear |-> request.clear], TRUE)

Call(t) == CallMutate(t) \/ CallWait(t)
TaskStep(t) == \/ At(t, "check") /\ (MutateCheck(t) \/ WaitCheck(t))
               \/ Mutate(t) \/ WaitLoop(t) \/ WaitBody(t)
               \/ SignalAll(t, "loop") \/ CommonStep(t, "loop")
Lifecycle == \/ PortInit \/ Start \/ Stop \/ Reset \/ Deinit
             \/ BitsStore \/ StateStore \/ CancelAll("loop")

Next == (\E t \in Task : Call(t) \/ TaskStep(t)) \/ Lifecycle

Spec == Init /\ [][Next]_<<port, object, task>>

-----------------------------------------------------------------------------
(* An event that a waiter consumes is seen by that waiter only: a step     *)
(* that takes bits away is a clear, a lifecycle call, or the success of    *)
(* one waiter, which asked for every bit it takes and, for wait_all, takes *)
(* its whole mask at once.                                                 *)
ConsumedByOne ==
    object \subseteq object' \/ port' # port \/ task' = task
    \/ \E t \in {u \in Task : At(u, "body")} :
          \/ task[t].op.name = "clear" /\ object \ object' \subseteq task[t].op.mask
          \/ /\ task[t].op.name = "wait" /\ task[t].op.clear
             /\ task'[t].pc = "idle" /\ task'[t].status = "OK"
             /\ object \ object' = object \cap task[t].op.mask
             /\ task[t].op.all => object \ object' = task[t].op.mask
=============================================================================
