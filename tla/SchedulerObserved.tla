-------------------------- MODULE SchedulerObserved --------------------------
(***************************************************************************)
(* Scheduler watched by an outside observer with an unbounded clock.  The  *)
(* history variables record how much real time went by, how much of it the *)
(* scheduler accepted, and what the current round of callbacks has done;   *)
(* they never influence a step of the scheduler.                           *)
(***************************************************************************)
EXTENDS Scheduler, Sequences

CONSTANTS
    MaxGap,     \* longest real interval between two updates
    MaxClock    \* bound on the observed time

ASSUME ObserverAssumption == MaxGap \in Nat /\ MaxClock \in Nat

VARIABLES
    clock,      \* real ticks since the first update
    accepted,   \* ticks that updates turned into task progress
    regular,    \* no interval so far exceeded MaxInterval
    due,        \* the tasks that were ready when the current round began
    done        \* the callbacks the current round entered, with their statuses

observer == <<clock, accepted, regular, due, done>>
observedVars == <<vars, observer>>

ObservedInit ==
    /\ Init
    /\ clock = 0 /\ accepted = 0 /\ regular = TRUE
    /\ due = {} /\ done = << >>

\* The caller samples the tick counter when gap ticks have passed.
ObservedUpdate(gap) ==
    LET now == (last_tick + gap) % TickModulus
    IN  /\ time_initialized
        /\ clock + gap <= MaxClock
        /\ UpdateRebase(now) \/ UpdateAdvance(now)
        /\ clock' = clock + gap
        /\ accepted' = IF Delta(now) <= MaxInterval THEN accepted + Delta(now) ELSE accepted
        /\ regular' = (regular /\ gap <= MaxInterval)
        /\ UNCHANGED <<due, done>>

ObservedCall ==
    /\ \/ \E table \in Tables : SchedulerInit(table)
       \/ CallRefused
       \/ \E now \in Tick : UpdateFirst(now)
       \/ RunSkip
    /\ UNCHANGED observer

ObservedBegin ==
    /\ RunBegin
    /\ due' = {id \in Task : slots[id].ready}
    /\ UNCHANGED <<clock, accepted, regular, done>>

ObservedDispatch ==
    /\ RunDispatch
    /\ done' = Append(done, [id |-> Current, status |-> "OK"])
    /\ UNCHANGED <<clock, accepted, regular, due>>

ObservedReturn(status) ==
    /\ CallbackReturns(status)
    /\ done' = [done EXCEPT ![Len(done)].status = status]
    /\ UNCHANGED <<clock, accepted, regular, due>>

ObservedEnd ==
    /\ RunEnd
    /\ due' = {} /\ done' = << >>
    /\ UNCHANGED <<clock, accepted, regular>>

ObservedNext ==
    \/ \E gap \in 0 .. MaxGap : ObservedUpdate(gap)
    \/ ObservedCall
    \/ ObservedBegin \/ ObservedDispatch \/ ObservedEnd
    \/ \E status \in ErrorStatus \cup {"OK"} : ObservedReturn(status)

ObservedSpec == ObservedInit /\ [][ObservedNext]_observedVars

-----------------------------------------------------------------------------
(* Properties *)

Triggers(slot) ==
    slot.run_count + slot.missed_count + (IF slot.ready THEN 1 ELSE 0)

Saturated(slot) == slot.run_count = CounterMax \/ slot.missed_count = CounterMax

(* Not a tick is lost or counted twice: what updates accepted is, for      *)
(* every task, the elapsed remainder plus one period for each trigger that *)
(* was executed, missed or is waiting.  Saturated statistics only ever     *)
(* under-report.                                                           *)
TimeConserved ==
    \A id \in Task :
        LET counted == slots[id].elapsed + configs[id].period * Triggers(slots[id])
        IN  /\ counted <= accepted
            /\ ~Saturated(slots[id]) => counted = accepted

(* The wrap of the tick counter is invisible: accepted time is real time   *)
(* as long as the caller samples often enough, and an interval that cannot *)
(* be interpreted may lose time but never invents any.                     *)
WrapInvisible == accepted <= clock /\ (regular => accepted = clock)

(* A round enters its callbacks in ascending order of priority, then ID,   *)
(* each at most once.                                                      *)
RoundInOrder ==
    \A i, j \in DOMAIN done : i < j => Follows(configs, done[j].id, done[i].id)

(* When a round ends it has served exactly the tasks that were ready when  *)
(* it began, and none of their triggers is pending any more.               *)
RoundServesDue ==
    run.pc = "scan" /\ run.index \notin Task =>
        /\ {done[i].id : i \in DOMAIN done} = due
        /\ \A id \in Task : ~slots[id].ready

(* scheduler_run returns the error of the most urgent failing task, and    *)
(* later callbacks, failing or not, cannot hide it.                        *)
FirstErrorReported ==
    LET failed == {i \in DOMAIN done : done[i].status # "OK"}
    IN  IF failed = {} THEN run.first_error = "OK"
        ELSE \E i \in failed : /\ \A j \in failed : i <= j
                               /\ run.first_error = done[i].status
=============================================================================
