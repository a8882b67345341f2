-------------------------- MODULE CountNotification --------------------------
(***************************************************************************)
(* services/count_notification of the archive: tasks and interrupts give,  *)
(* tasks take, and the count stays between 0 and a maximum.                *)
(***************************************************************************)
EXTENDS BlockingCall

CONSTANT Maximum

-----------------------------------------------------------------------------
(* Plausible slips; nothing uses them. *)
TakeUnchecked(t) ==
    /\ At(t, "body") /\ task[t].op = "take"
    /\ object' = object - 1 /\ Return(t, "OK")
    /\ UNCHANGED port

-----------------------------------------------------------------------------
(* give_internal, after its check *)
Give(t) ==
    /\ At(t, "body") /\ task[t].op = "give"
    /\ IF object = Maximum
       THEN Return(t, "OVERFLOW") /\ UNCHANGED object
       ELSE object' = object + 1 /\ Goto(t, "signal")
    /\ UNCHANGED port

(* count_notification_take, after its check *)
Take(t) ==
    /\ At(t, "body") /\ task[t].op = "take"
    /\ IF object = 0
       THEN NotNow(t, "EMPTY") /\ UNCHANGED object
       ELSE object' = object - 1 /\ Return(t, "OK")
    /\ UNCHANGED port

(* The lifecycle functions, which store the count before the state. *)
PortInit == LifecycleCall(NotInUse, <<"count", "READY">>)
Start == LifecycleCall({"STOPPED"}, <<"count", "READY">>)
Stop == LifecycleCall({"READY"}, <<"count", "STOPPED", "cancel_all">>)
Reset == LifecycleCall({"READY"}, <<"count">>)
Deinit == LifecycleCall({"STOPPED"}, <<"DEINITIALIZED">>)

CountStore == Stored("count") /\ object' = 0 /\ UNCHANGED task

Init == InitWith(0)

CallGive(t) == Begin(t, "give", FALSE)
CallTake(t) == \E blocking \in BOOLEAN : Begin(t, "take", blocking)

Call(t) == CallGive(t) \/ CallTake(t)
TaskStep(t) == \/ CheckReady(t) \/ CheckRefused(t) \/ Give(t) \/ Take(t)
               \/ SignalOne(t, "check") \/ CommonStep(t, "check")
Lifecycle == \/ PortInit \/ Start \/ Stop \/ Reset \/ Deinit
             \/ CountStore \/ StateStore \/ CancelAll("check")

Next == (\E t \in Task : Call(t) \/ TaskStep(t)) \/ Lifecycle

Spec == Init /\ [][Next]_<<port, object, task>>
=============================================================================
