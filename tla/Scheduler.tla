------------------------------ MODULE Scheduler ------------------------------
(***************************************************************************)
(* services/scheduler: a cooperative scheduler for the main loop.  The     *)
(* caller samples a wrapping tick counter and calls scheduler_update; it   *)
(* calls scheduler_run to execute the tasks that have become ready.  A     *)
(* callback may not re-enter the scheduler, so update and run never        *)
(* overlap, and the steps of a run are those of its scan over the slots.   *)
(***************************************************************************)
EXTENDS SlotOrder

CONSTANTS
    Tables,         \* the configuration tables offered to scheduler_init
    TaskLimit,      \* UINT16_MAX: IDs are uint16_t
    TickModulus,    \* 2^32: ticks are uint32_t
    CounterMax,     \* UINT32_MAX, where the statistics saturate
    ErrorStatus     \* what a failing callback returns

(* A table is a function from 0 .. task_count - 1 to its entries; one may  *)
(* be offered that is too long.                                            *)
ASSUME TaskLimitAssumption == TaskLimit \in Nat
ASSUME TablesAssumption ==
    \A table \in Tables : \E n \in 0 .. TaskLimit + 1 :
        table \in [0 .. n - 1 -> [priority : Nat, period : Nat, callback : BOOLEAN]]
ASSUME TickAssumption == TickModulus \in Nat /\ TickModulus > 2 /\ TickModulus % 2 = 0
ASSUME CounterAssumption == CounterMax \in Nat \ {0}
ASSUME ErrorAssumption == "OK" \notin ErrorStatus

VARIABLES
    initialized, time_initialized, last_tick,   \* scheduler_t
    configs,    \* the bound table
    order,      \* slots[i].id: the task in each slot
    slots,      \* the other slot fields, by task ID
    run,        \* scheduler_run: pc, index of the scan, first_error
    result      \* what the last completed call returned

vars == <<initialized, time_initialized, last_tick, configs, order, slots, run, result>>

Task == DOMAIN configs
Tick == 0 .. TickModulus - 1
NewSlot == [elapsed |-> 0, ready |-> FALSE, run_count |-> 0, error_count |-> 0,
            missed_count |-> 0, last_status |-> "OK"]

-----------------------------------------------------------------------------
(* Plausible slips in the definitions below; no action uses them.          *)
IncrementWraps(counter, amount) == (counter + amount) % (CounterMax + 1)
AdvanceForgetsRemainder(slot, period, delta) ==
    LET periods == ((slot.elapsed + delta) % TickModulus) \div period
    IN  IF periods = 0 THEN [slot EXCEPT !.elapsed = @ + delta]
                       ELSE [slot EXCEPT !.elapsed = 0, !.ready = TRUE]
AdvanceKeepsTotal(slot, period, delta) ==
    [slot EXCEPT !.elapsed = @ + delta, !.ready = @ \/ slot.elapsed + delta >= period]
FirstErrorIsLast(first_error, status) == IF status = "OK" THEN first_error ELSE status

-----------------------------------------------------------------------------
(* SCHEDULER_MAX_INTERVAL_TICKS: INT32_MAX *)
MaxInterval == TickModulus \div 2 - 1

(* scheduler_increment_counter *)
Increment(counter, amount) ==
    IF CounterMax - counter < amount THEN CounterMax ELSE counter + amount

(* scheduler_validate_config: a table must not be too long, and then the   *)
(* first faulty entry decides.                                             *)
ValidEntry(entry) == entry.callback /\ entry.period \in 1 .. MaxInterval
ValidTable(table) == /\ TaskLimit \notin DOMAIN table
                     /\ \A id \in DOMAIN table : ValidEntry(table[id])
TableStatus(table) ==
    IF ValidTable(table) THEN "OK"
    ELSE IF TaskLimit \in DOMAIN table THEN "OUT_OF_RANGE"
    ELSE LET first == CHOOSE id \in DOMAIN table :
                         /\ ~ValidEntry(table[id])
                         /\ \A other \in DOMAIN table : other < id => ValidEntry(table[other])
         IN  IF table[first].callback THEN "OUT_OF_RANGE" ELSE "INVALID_ARGUMENT"

(* The body of the loop of scheduler_update for one slot.                  *)
Advanced(slot, period, delta) ==
    LET total == (slot.elapsed + delta) % TickModulus
        periods == total \div period
        missed == IF slot.ready THEN periods ELSE periods - 1
        moved == [slot EXCEPT !.elapsed = total % period]
    IN  IF periods = 0 THEN moved
        ELSE [moved EXCEPT !.ready = TRUE, !.missed_count = Increment(@, missed)]

FirstError(first_error, status) == IF first_error = "OK" THEN status ELSE first_error

-----------------------------------------------------------------------------
Init ==
    /\ initialized = FALSE
    /\ time_initialized = FALSE
    /\ last_tick = 0
    /\ configs = << >>
    /\ order = << >>
    /\ slots = << >>
    /\ run = [pc |-> "idle", index |-> 0, first_error |-> "OK"]
    /\ result = "OK"

SchedulerInit(table) ==
    /\ run.pc = "idle"
    /\ ~initialized
    /\ result' = TableStatus(table)
    /\ IF ValidTable(table)
       THEN /\ initialized' = TRUE
            /\ configs' = table
            /\ slots' = [id \in DOMAIN table |-> NewSlot]
            /\ order' \in Sorted(table)
            /\ last_tick' = 0
            /\ time_initialized' = FALSE
       ELSE UNCHANGED <<initialized, configs, slots, order, last_tick, time_initialized>>
    /\ UNCHANGED run

(* Calls that the object's state turns away: a second init, or an update   *)
(* or run before init.                                                     *)
CallRefused ==
    /\ run.pc = "idle"
    /\ result' = IF initialized THEN "INVALID_STATE" ELSE "NOT_INITIALIZED"
    /\ UNCHANGED <<initialized, time_initialized, last_tick, configs, order, slots, run>>

(* Plausible slips; no action uses them. *)
DeltaAfterWrapRestarts(now) == IF now >= last_tick THEN now - last_tick ELSE now

(* scheduler_update *)
Delta(now) == (now - last_tick) % TickModulus

UpdateFirst(now) ==
    /\ run.pc = "idle" /\ initialized
    /\ ~time_initialized
    /\ time_initialized' = TRUE
    /\ last_tick' = now
    /\ result' = "OK"
    /\ UNCHANGED <<initialized, configs, order, slots, run>>

UpdateRebase(now) ==
    /\ run.pc = "idle" /\ initialized
    /\ time_initialized
    /\ Delta(now) > MaxInterval
    /\ last_tick' = now
    /\ result' = "OUT_OF_RANGE"
    /\ UNCHANGED <<initialized, time_initialized, configs, order, slots, run>>

UpdateAdvance(now) ==
    /\ run.pc = "idle" /\ initialized
    /\ time_initialized
    /\ Delta(now) <= MaxInterval
    /\ last_tick' = now
    /\ slots' = [id \in Task |-> Advanced(slots[id], configs[id].period, Delta(now))]
    /\ result' = "OK"
    /\ UNCHANGED <<initialized, time_initialized, configs, order, run>>

Update(now) == UpdateFirst(now) \/ UpdateRebase(now) \/ UpdateAdvance(now)

(* scheduler_run *)
Current == order[run.index]

\* Plausible slips; Next uses neither.
RunDispatchKeepsReady ==
    /\ run.pc = "scan" /\ run.index \in Task
    /\ slots[Current].ready
    /\ slots' = [slots EXCEPT ![Current].run_count = Increment(@, 1)]
    /\ run' = [run EXCEPT !.pc = "callback"]
    /\ UNCHANGED <<initialized, time_initialized, last_tick, configs, order, result>>
CallbackReturnsFromRun(status) ==
    /\ run.pc = "callback"
    /\ slots' = [slots EXCEPT ![Current].last_status = status]
    /\ run' = [pc |-> "idle", index |-> 0, first_error |-> "OK"]
    /\ result' = status
    /\ UNCHANGED <<initialized, time_initialized, last_tick, configs, order>>

RunBegin ==
    /\ run.pc = "idle" /\ initialized
    /\ run' = [pc |-> "scan", index |-> 0, first_error |-> "OK"]
    /\ UNCHANGED <<initialized, time_initialized, last_tick, configs, order, slots, result>>

RunSkip ==
    /\ run.pc = "scan" /\ run.index \in Task
    /\ ~slots[Current].ready
    /\ run' = [run EXCEPT !.index = @ + 1]
    /\ UNCHANGED <<initialized, time_initialized, last_tick, configs, order, slots, result>>

\* The trigger is cleared and counted before the callback is entered.
RunDispatch ==
    /\ run.pc = "scan" /\ run.index \in Task
    /\ slots[Current].ready
    /\ slots' = [slots EXCEPT ![Current].ready = FALSE,
                              ![Current].run_count = Increment(@, 1)]
    /\ run' = [run EXCEPT !.pc = "callback"]
    /\ UNCHANGED <<initialized, time_initialized, last_tick, configs, order, result>>

CallbackReturns(status) ==
    /\ run.pc = "callback"
    /\ slots' = [slots EXCEPT
          ![Current].last_status = status,
          ![Current].error_count = IF status = "OK" THEN @ ELSE Increment(@, 1)]
    /\ run' = [pc |-> "scan", index |-> run.index + 1,
               first_error |-> FirstError(run.first_error, status)]
    /\ UNCHANGED <<initialized, time_initialized, last_tick, configs, order, result>>

RunEnd ==
    /\ run.pc = "scan" /\ run.index \notin Task
    /\ result' = run.first_error
    /\ run' = [pc |-> "idle", index |-> 0, first_error |-> "OK"]
    /\ UNCHANGED <<initialized, time_initialized, last_tick, configs, order, slots>>

RunStep == \/ RunSkip \/ RunDispatch \/ RunEnd
           \/ \E status \in ErrorStatus \cup {"OK"} : CallbackReturns(status)

(* scheduler_get_stats: reads the first slot that holds the ID.            *)
GetStats(id) ==
    IF ~initialized THEN [status |-> "NOT_INITIALIZED"]
    ELSE IF id \notin Task THEN [status |-> "OUT_OF_RANGE"]
    ELSE IF \A i \in Task : order[i] # id THEN [status |-> "INTERNAL_ERROR"]
    ELSE [status |-> "OK", run_count |-> slots[id].run_count,
          error_count |-> slots[id].error_count, missed_count |-> slots[id].missed_count,
          last_status |-> slots[id].last_status]

-----------------------------------------------------------------------------
Next ==
    \/ \E table \in Tables : SchedulerInit(table)
    \/ CallRefused
    \/ \E now \in Tick : Update(now)
    \/ RunBegin
    \/ RunStep

Spec == Init /\ [][Next]_vars

(* The main loop: the scheduler gets initialized, run is called again and  *)
(* again, every callback returns ("must not block"), and the caller keeps  *)
(* sampling a clock that moves by an interval the scheduler can interpret. *)
TimeMoves == \E now \in Tick : UpdateAdvance(now) /\ now # last_tick
FairSpec ==
    /\ Spec
    /\ WF_vars(\E table \in Tables : ValidTable(table) /\ SchedulerInit(table))
    /\ SF_vars(\E now \in Tick : UpdateFirst(now))
    /\ SF_vars(RunBegin) /\ WF_vars(RunStep)
    /\ SF_vars(TimeMoves)

-----------------------------------------------------------------------------
(* Properties *)

Slot == [elapsed : Nat, ready : BOOLEAN, run_count : 0 .. CounterMax,
         error_count : 0 .. CounterMax, missed_count : 0 .. CounterMax,
         last_status : ErrorStatus \cup {"OK"}]

(* Every field stays in its type.  A slot keeps less than one period of    *)
(* elapsed ticks, which is why elapsed + delta cannot overflow uint32_t.   *)
TypeOK ==
    /\ initialized \in BOOLEAN
    /\ time_initialized \in BOOLEAN
    /\ last_tick \in Tick
    /\ run.pc \in {"idle", "scan", "callback"}
    /\ run.index \in Nat
    /\ run.first_error \in ErrorStatus \cup {"OK"}
    /\ initialized =>
          /\ configs \in Tables /\ ValidTable(configs)
          /\ order \in Sorted(configs)
          /\ slots \in [Task -> Slot]
          /\ \A id \in Task : slots[id].elapsed < configs[id].period
          /\ run.pc = "callback" => run.index \in Task
    /\ ~initialized => run.pc = "idle" /\ configs = << >>

(* The sort leaves every task in some slot: the lookup of get_stats never  *)
(* reports INTERNAL_ERROR for a configured ID.                             *)
StatsAlwaysFound == \A id \in Task : GetStats(id).status = "OK"

(* A failing callback is counted once and never more often than it ran.    *)
ErrorsWithinRuns ==
    \A id \in Task : slots[id].error_count <= slots[id].run_count

(* However short the periods of the others and whatever they return, every *)
(* task is executed again and again: nothing starves in the linear scan.   *)
Dispatched(id) == run.pc = "callback" /\ Current = id
NoTaskStarves ==
    \A table \in Tables : \A id \in DOMAIN table :
        (initialized /\ configs = table) ~> Dispatched(id)
=============================================================================
