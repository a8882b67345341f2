------------------------------ MODULE MutexPort ------------------------------
(***************************************************************************)
(* services/mutex_port of the archive: a mutex that is not recursive, with *)
(* the task as owner token.  The state is read once per call, before the   *)
(* loop; stop and reset look at the lock outside the critical section.     *)
(***************************************************************************)
EXTENDS BlockingCall

(* held and lost are history: the tasks that were given the lock since the *)
(* last start and have not given it back, and those that a start has taken *)
(* it from.                                                                *)
Unlocked == [locked |-> FALSE, owner |-> None, held |-> {}, lost |-> {}]

-----------------------------------------------------------------------------
(* A plausible slip; nothing uses it. *)
MayUnlockAny(t) == object.locked

-----------------------------------------------------------------------------
(* mutex_try_lock_internal *)
TryLock(t) ==
    /\ At(t, "body") /\ task[t].op = "lock"
    /\ IF ~object.locked
       THEN /\ object' = [object EXCEPT !.locked = TRUE, !.owner = t,
                                        !.held = @ \cup {t}, !.lost = @ \ {t}]
            /\ Return(t, "OK")
       ELSE /\ IF object.owner = t THEN Return(t, "INVALID_STATE") ELSE NotNow(t, "BUSY")
            /\ UNCHANGED object
    /\ UNCHANGED port

MayUnlock(t) == object.locked /\ object.owner = t

(* mutex_port_unlock, up to the signal *)
Unlock(t) ==
    /\ At(t, "body") /\ task[t].op = "unlock"
    /\ IF MayUnlock(t)
       THEN /\ object' = [object EXCEPT !.locked = FALSE, !.owner = None, !.held = @ \ {t}]
            /\ Goto(t, "signal")
       ELSE /\ object' = [object EXCEPT !.lost = @ \ {t}]
            /\ Return(t, "INVALID_ARGUMENT")
    /\ UNCHANGED port

(* mutex_port_stop and mutex_port_reset look at the lock when they begin.  *)
PortInit == LifecycleCall(NotInUse, <<"locked", "owner", "READY">>)
Start == LifecycleCall({"STOPPED"}, <<"locked", "owner", "READY">>)
Stop == ~object.locked /\ LifecycleCall({"READY"}, <<"STOPPED", "cancel_all">>)
Reset == ~object.locked /\ LifecycleCall({"READY"}, <<"owner">>)
Deinit == LifecycleCall({"STOPPED"}, <<"DEINITIALIZED">>)

LockedStore ==
    /\ Stored("locked")
    /\ object' = [object EXCEPT !.locked = FALSE, !.held = {}, !.lost = @ \cup object.held]
    /\ UNCHANGED task

OwnerStore == Stored("owner") /\ object' = [object EXCEPT !.owner = None] /\ UNCHANGED task

Init == InitWith(Unlocked)

CallLock(t) == \E blocking \in BOOLEAN : Begin(t, "lock", blocking)
CallUnlock(t) == Begin(t, "unlock", FALSE)

Call(t) == CallLock(t) \/ CallUnlock(t)
TaskStep(t) == \/ CheckReady(t) \/ CheckRefused(t) \/ TryLock(t) \/ Unlock(t)
               \/ SignalOne(t, "body") \/ CommonStep(t, "body")
Lifecycle == \/ PortInit \/ Start \/ Stop \/ Reset \/ Deinit
             \/ LockedStore \/ OwnerStore \/ StateStore \/ CancelAll("body")

Next == (\E t \in Task : Call(t) \/ TaskStep(t)) \/ Lifecycle

Spec == Init /\ [][Next]_<<port, object, task>>

-----------------------------------------------------------------------------
(* Properties *)

(* The mutex is lent to at most one task since the last start, whoever     *)
(* stops or resets it between two steps of a call: what the fields say of  *)
(* the lock is what the tasks were told.                                   *)
LentOnce ==
    /\ Cardinality(object.held) = IF object.locked THEN 1 ELSE 0
    /\ object.locked => object.owner \in object.held \cup {None}

(* The mutex provides mutual exclusion, and to stop it does not release it *)
(* by force: nobody is given the lock while another task still holds it,   *)
(* also when the mutex is stopped and started in between.                  *)
MutualExclusion == Cardinality(object.held \cup object.lost) <= 1
=============================================================================
