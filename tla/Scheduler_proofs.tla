--------------------------- MODULE Scheduler_proofs ---------------------------
(***************************************************************************)
(* Type correctness of the scheduler, which bounds the ticks a slot keeps  *)
(* and so rules out an overflow of elapsed + delta, and the consistency of *)
(* its saturating statistics.  Then what the observer of SchedulerObserved *)
(* sees: the time account of each task, the lookup of its statistics, and  *)
(* the order, the extent and the result of a round.  All of it for every   *)
(* table, tick width, counter width and pattern of failures.               *)
(***************************************************************************)
EXTENDS SchedulerObserved, FiniteSetTheorems, FunctionTheorems, TLAPS

(* A callback that is running has been counted: its errors are behind its  *)
(* runs, or both counters have reached the end of their type.              *)
RunningIsCounted ==
    run.pc = "callback" =>
        \/ slots[Current].error_count < slots[Current].run_count
        \/ slots[Current].run_count = CounterMax

IInv == TypeOK /\ ErrorsWithinRuns /\ RunningIsCounted

-----------------------------------------------------------------------------
(* Division as scheduler_update uses it.                                   *)
LEMMA Division ==
    ASSUME NEW x \in Nat, NEW p \in Nat \ {0}
    PROVE  /\ x \div p \in Nat
           /\ x % p \in Nat
           /\ x % p < p
OBVIOUS

(* A saturating counter stays in its type and never decreases.             *)
LEMMA IncrementInRange ==
    ASSUME NEW counter \in 0 .. CounterMax, NEW amount \in Nat
    PROVE  /\ Increment(counter, amount) \in 0 .. CounterMax
           /\ Increment(counter, amount) >= counter
           /\ amount > 0 => \/ Increment(counter, amount) > counter
                            \/ Increment(counter, amount) = CounterMax
BY CounterAssumption DEF Increment

(* A table that validation has accepted has a valid period for each task.  *)
LEMMA ValidPeriods ==
    ASSUME NEW table, ValidTable(table), NEW id \in DOMAIN table
    PROVE  table[id].period \in Nat \ {0} /\ table[id].period <= MaxInterval
BY TickAssumption DEF ValidTable, ValidEntry, MaxInterval

LEMMA ZeroTick == 0 \in Tick
BY TickAssumption DEF Tick

LEMMA HalfRange == MaxInterval \in Nat /\ 2 * MaxInterval < TickModulus
BY TickAssumption DEF MaxInterval

(* What an update makes of one slot: the remainder stays below the period, *)
(* and runs and errors are not touched.                                    *)
LEMMA AdvancedSlot ==
    ASSUME NEW slot \in Slot, NEW period \in Nat \ {0}, NEW delta \in Nat
    PROVE  /\ Advanced(slot, period, delta) \in Slot
           /\ Advanced(slot, period, delta).elapsed < period
           /\ Advanced(slot, period, delta).run_count = slot.run_count
           /\ Advanced(slot, period, delta).error_count = slot.error_count
<1> DEFINE total == (slot.elapsed + delta) % TickModulus
           periods == total \div period
<1>1. total \in Nat
  <2>1. slot.elapsed + delta \in Nat /\ TickModulus \in Nat \ {0}
    BY TickAssumption DEF Slot
  <2> QED BY <2>1, Division
<1>2. periods \in Nat /\ total % period \in Nat /\ total % period < period
  BY <1>1, Division
<1>3. CASE periods = 0
  <2>1. Advanced(slot, period, delta) = [slot EXCEPT !.elapsed = total % period]
    BY <1>3 DEF Advanced
  <2> HIDE DEF total, periods
  <2> QED BY <1>2, <2>1 DEF Slot
<1>4. CASE periods # 0
  <2> DEFINE missed == IF slot.ready THEN periods ELSE periods - 1
  <2>1. missed \in Nat
    BY <1>2, <1>4
  <2>2. Increment(slot.missed_count, missed) \in 0 .. CounterMax
    BY <2>1, IncrementInRange DEF Slot
  <2>3. Advanced(slot, period, delta) =
            [[slot EXCEPT !.elapsed = total % period]
                EXCEPT !.ready = TRUE, !.missed_count = Increment(@, missed)]
    BY <1>4 DEF Advanced
  <2> HIDE DEF total, periods, missed
  <2> QED BY <1>2, <2>2, <2>3 DEF Slot
<1> QED BY <1>3, <1>4

-----------------------------------------------------------------------------
LEMMA Initiation == Init => IInv
<1> SUFFICES ASSUME Init PROVE IInv
  OBVIOUS
<1>1. Task = {}
  BY DEF Init, Task
<1>2. TypeOK
  <2>1. /\ run.pc \in {"idle", "scan", "callback"} /\ run.index \in Nat
        /\ run.first_error \in ErrorStatus \cup {"OK"} /\ run.pc = "idle"
    BY DEF Init
  <2>2. /\ initialized \in BOOLEAN /\ ~initialized /\ configs = << >>
        /\ time_initialized \in BOOLEAN /\ last_tick \in Tick
    BY ZeroTick DEF Init
  <2> QED BY <2>1, <2>2, Zenon DEF TypeOK
<1>3. ErrorsWithinRuns /\ RunningIsCounted
  BY <1>1 DEF Init, ErrorsWithinRuns, RunningIsCounted
<1> QED BY <1>2, <1>3 DEF IInv

(* scheduler_init gives every task a fresh slot, or changes nothing.       *)
LEMMA InitStep ==
    ASSUME IInv, NEW table \in Tables, SchedulerInit(table)
    PROVE  IInv'
<1>1. run.pc = "idle" /\ run' = run /\ ~initialized
  BY DEF SchedulerInit
<1>2. CASE ValidTable(table)
  <2>1. /\ initialized' = TRUE /\ configs' = table /\ last_tick' = 0
        /\ slots' = [id \in DOMAIN table |-> NewSlot]
        /\ order' \in Sorted(table) /\ time_initialized' = FALSE
    BY <1>2 DEF SchedulerInit
  <2>2. NewSlot \in Slot /\ NewSlot.elapsed = 0 /\ NewSlot.error_count = NewSlot.run_count
        /\ NewSlot.run_count = 0
    BY CounterAssumption DEF NewSlot, Slot
  <2>3. slots' \in [Task' -> Slot]
    BY <2>1, <2>2 DEF Task
  <2>4. \A id \in Task' : slots'[id].elapsed < configs'[id].period
    <3> SUFFICES ASSUME NEW id \in Task' PROVE slots'[id].elapsed < configs'[id].period
      OBVIOUS
    <3>1. slots'[id].elapsed = 0 /\ configs'[id] = table[id] /\ id \in DOMAIN table
      BY <2>1, <2>2 DEF Task
    <3>2. table[id].period \in Nat \ {0}
      BY <1>2, <3>1, ValidPeriods
    <3> QED BY <3>1, <3>2
  <2>5. TypeOK'
    <3>1. ValidTable(configs') /\ configs' \in Tables /\ order' \in Sorted(configs')
          /\ last_tick' \in Tick
      BY <1>2, <2>1, ZeroTick
    <3>2. /\ run'.pc = "idle" /\ run'.index \in Nat
          /\ run'.first_error \in ErrorStatus \cup {"OK"}
      BY <1>1 DEF IInv, TypeOK
    <3> QED BY <2>1, <2>3, <2>4, <3>1, <3>2 DEF TypeOK
  <2>6. ErrorsWithinRuns'
    BY <2>1, <2>2 DEF ErrorsWithinRuns, Task
  <2> QED BY <1>1, <2>5, <2>6 DEF IInv, RunningIsCounted
<1>3. CASE ~ValidTable(table)
  BY <1>3
  DEF SchedulerInit, IInv, TypeOK, ErrorsWithinRuns, RunningIsCounted, Task, Current
<1> QED BY <1>2, <1>3

(* scheduler_update moves the reference tick and, when it can interpret    *)
(* the interval, advances every slot.                                      *)
LEMMA UpdateStep ==
    ASSUME IInv, NEW now \in Tick, Update(now)
    PROVE  IInv'
<1>1. run.pc = "idle" /\ run' = run /\ initialized /\ last_tick' = now
      /\ UNCHANGED <<initialized, configs, order>> /\ time_initialized' \in BOOLEAN
  BY DEF Update, UpdateFirst, UpdateRebase, UpdateAdvance, IInv, TypeOK
<1>2. CASE slots' = slots
  BY <1>1, <1>2 DEF IInv, TypeOK, ErrorsWithinRuns, RunningIsCounted, Task
<1>3. CASE UpdateAdvance(now)
  <2>1. slots' = [id \in Task |-> Advanced(slots[id], configs[id].period, Delta(now))]
        /\ Task' = Task
    BY <1>1, <1>3 DEF UpdateAdvance, Task
  <2>2. Delta(now) \in Nat
    <3>1. now \in Int /\ last_tick \in Int /\ TickModulus \in Nat \ {0}
      BY TickAssumption DEF IInv, TypeOK, Tick
    <3> QED BY <3>1 DEF Delta
  <2>3. ASSUME NEW id \in Task
        PROVE  /\ slots'[id] \in Slot
               /\ slots'[id].elapsed < configs[id].period
               /\ slots'[id].run_count = slots[id].run_count
               /\ slots'[id].error_count = slots[id].error_count
    <3>1. slots[id] \in Slot /\ configs[id].period \in Nat \ {0}
      BY <1>1, ValidPeriods DEF IInv, TypeOK, Task
    <3> QED BY <2>1, <2>2, <3>1, AdvancedSlot
  <2>4. slots' \in [Task' -> Slot]
    BY <2>1, <2>3
  <2>5. TypeOK'
    BY <1>1, <2>1, <2>3, <2>4 DEF IInv, TypeOK
  <2>6. ErrorsWithinRuns'
    BY <2>1, <2>3 DEF IInv, ErrorsWithinRuns
  <2> QED BY <1>1, <2>5, <2>6 DEF IInv, RunningIsCounted
<1> QED BY <1>2, <1>3 DEF Update, UpdateFirst, UpdateRebase

LEMMA DispatchStep ==
    ASSUME IInv, RunDispatch
    PROVE  IInv'
<1>1. /\ initialized /\ run.index \in Task /\ run.index \in Nat
      /\ UNCHANGED <<initialized, time_initialized, last_tick, configs, order>>
      /\ run' = [run EXCEPT !.pc = "callback"]
  BY DEF RunDispatch, IInv, TypeOK
<1>2. Current \in Task /\ slots \in [Task -> Slot] /\ Task' = Task /\ Current' = Current
  BY <1>1 DEF IInv, TypeOK, Current, Task, Sorted
<1> DEFINE runs == Increment(slots[Current].run_count, 1)
<1>3. /\ runs \in 0 .. CounterMax /\ runs >= slots[Current].run_count
      /\ runs > slots[Current].run_count \/ runs = CounterMax
  <2>1. slots[Current].run_count \in 0 .. CounterMax
    BY <1>2 DEF Slot
  <2>2. 1 \in Nat /\ 1 > 0
    OBVIOUS
  <2> QED BY <2>1, <2>2, IncrementInRange
<1>4. slots' = [slots EXCEPT ![Current] = [[slots[Current] EXCEPT !.ready = FALSE]
                                              EXCEPT !.run_count = runs]]
  BY <1>2 DEF RunDispatch
<1> HIDE DEF runs
<1>5. /\ slots'[Current] \in Slot
      /\ slots'[Current].elapsed = slots[Current].elapsed
      /\ slots'[Current].error_count = slots[Current].error_count
      /\ slots'[Current].run_count = runs
      /\ \A id \in Task : id # Current => slots'[id] = slots[id]
      /\ slots' \in [Task -> Slot]
  BY <1>2, <1>3, <1>4 DEF Slot
<1>6. TypeOK'
  BY <1>1, <1>2, <1>5 DEF IInv, TypeOK
<1>7. ErrorsWithinRuns'
  <2>1. \A id \in Task : slots[id].error_count <= slots[id].run_count
                          /\ slots[id].error_count \in Nat /\ slots[id].run_count \in Nat
    BY <1>2, CounterAssumption DEF IInv, ErrorsWithinRuns, Slot
  <2>2. slots'[Current].error_count <= slots'[Current].run_count
    BY <1>2, <1>3, <1>5, <2>1, CounterAssumption
  <2> QED BY <1>2, <1>5, <2>1, <2>2 DEF ErrorsWithinRuns
<1>8. RunningIsCounted'
  <2>1. slots[Current].error_count <= slots[Current].run_count
        /\ slots[Current].error_count \in Nat /\ slots[Current].run_count \in Nat
    BY <1>2, CounterAssumption DEF IInv, ErrorsWithinRuns, Slot
  <2>2. slots[Current].error_count < runs \/ runs = CounterMax
    BY <1>3, <2>1, CounterAssumption
  <2> QED BY <1>2, <1>5, <2>2 DEF RunningIsCounted
<1> QED BY <1>6, <1>7, <1>8 DEF IInv

LEMMA ReturnStep ==
    ASSUME IInv, NEW status \in ErrorStatus \cup {"OK"}, CallbackReturns(status)
    PROVE  IInv'
<1>1. /\ initialized /\ run.index \in Task /\ run.index \in Nat /\ run.pc = "callback"
      /\ UNCHANGED <<initialized, time_initialized, last_tick, configs, order>>
      /\ run' = [pc |-> "scan", index |-> run.index + 1,
                 first_error |-> FirstError(run.first_error, status)]
  BY DEF CallbackReturns, IInv, TypeOK
<1>2. Current \in Task /\ slots \in [Task -> Slot] /\ Task' = Task
  BY <1>1 DEF IInv, TypeOK, Current, Task, Sorted
<1> DEFINE e == slots[Current].error_count
           errors == IF status = "OK" THEN e ELSE Increment(e, 1)
<1>3. /\ e \in 0 .. CounterMax /\ errors \in 0 .. CounterMax
      /\ slots[Current].run_count \in 0 .. CounterMax
      /\ errors <= slots[Current].run_count
  <2>1. e \in 0 .. CounterMax /\ slots[Current].run_count \in 0 .. CounterMax
        /\ e <= slots[Current].run_count
    BY <1>2 DEF Slot, IInv, ErrorsWithinRuns
  <2>2. e < slots[Current].run_count \/ slots[Current].run_count = CounterMax
    BY <1>1 DEF IInv, RunningIsCounted
  <2> QED BY <2>1, <2>2, CounterAssumption DEF Increment
<1>4. slots' = [slots EXCEPT ![Current] = [[slots[Current] EXCEPT !.last_status = status]
                                              EXCEPT !.error_count = errors]]
  BY <1>2 DEF CallbackReturns
<1> HIDE DEF e, errors
<1>5. /\ slots'[Current].elapsed = slots[Current].elapsed
      /\ slots'[Current].error_count = errors
      /\ slots'[Current].run_count = slots[Current].run_count
      /\ \A id \in Task : id # Current => slots'[id] = slots[id]
      /\ slots' \in [Task -> Slot]
  BY <1>2, <1>3, <1>4 DEF Slot
<1>6. FirstError(run.first_error, status) \in ErrorStatus \cup {"OK"}
  BY DEF FirstError, IInv, TypeOK
<1>7. TypeOK'
  BY <1>1, <1>2, <1>5, <1>6 DEF IInv, TypeOK
<1>8. ErrorsWithinRuns'
  BY <1>2, <1>3, <1>5 DEF IInv, ErrorsWithinRuns
<1> QED BY <1>1, <1>7, <1>8 DEF IInv, RunningIsCounted

(* The steps that leave every slot as it is.                               *)
LEMMA ScanSteps ==
    ASSUME IInv, CallRefused \/ RunBegin \/ RunSkip \/ RunEnd \/ UNCHANGED vars
    PROVE  IInv'
<1>1. UNCHANGED <<initialized, time_initialized, last_tick, configs, order, slots>>
  BY DEF CallRefused, RunBegin, RunSkip, RunEnd, vars
<1>2. CASE run' = run
  BY <1>1, <1>2 DEF IInv, TypeOK, ErrorsWithinRuns, RunningIsCounted, Task, Current
<1>3. CASE run' # run
  <2>1. initialized /\ run'.pc \in {"idle", "scan"} /\ run'.index \in Nat
        /\ run'.first_error \in ErrorStatus \cup {"OK"}
    <3>1. CASE RunBegin
      BY <3>1 DEF RunBegin
    <3>2. CASE RunSkip
      <4>1. run' = [run EXCEPT !.index = @ + 1] /\ run.pc = "scan" /\ run.index \in Nat
            /\ run.first_error \in ErrorStatus \cup {"OK"}
        BY <3>2 DEF RunSkip, IInv, TypeOK
      <4>2. initialized
        BY <4>1 DEF IInv, TypeOK
      <4> QED BY <4>1, <4>2
    <3>3. CASE RunEnd
      BY <3>3 DEF RunEnd, IInv, TypeOK
    <3> QED BY <1>3, <3>1, <3>2, <3>3 DEF CallRefused, vars
  <2> QED BY <1>1, <2>1 DEF IInv, TypeOK, ErrorsWithinRuns, RunningIsCounted, Task
<1> QED BY <1>2, <1>3

LEMMA Consecution == IInv /\ [Next]_vars => IInv'
BY InitStep, UpdateStep, DispatchStep, ReturnStep, ScanSteps DEF Next, RunStep

LEMMA Invariance == Spec => []IInv
BY Initiation, Consecution, PTL DEF Spec

-----------------------------------------------------------------------------
(* Every field keeps its type; in particular a slot keeps fewer elapsed    *)
(* ticks than its period, and the slots keep the order of the sort.        *)
THEOREM TypeCorrect == Spec => []TypeOK
<1>1. IInv => TypeOK
  BY DEF IInv
<1> QED BY <1>1, Invariance, PTL

(* Statistics stay consistent across saturation: a task never shows more   *)
(* errors than runs, whatever its callback returns and for however long.   *)
THEOREM ErrorsNeverExceedRuns == Spec => []ErrorsWithinRuns
<1>1. IInv => ErrorsWithinRuns
  BY DEF IInv
<1> QED BY <1>1, Invariance, PTL

(* scheduler_update adds an interval it accepts to the elapsed ticks of a  *)
(* slot without leaving uint32_t, in every reachable state.                *)
NoTickOverflow ==
    initialized => \A id \in Task, delta \in 0 .. MaxInterval :
                      slots[id].elapsed + delta < TickModulus
THEOREM TicksNeverOverflow == Spec => []NoTickOverflow
<1>1. ASSUME IInv PROVE NoTickOverflow
  <2> SUFFICES ASSUME initialized, NEW id \in Task, NEW delta \in 0 .. MaxInterval
               PROVE  slots[id].elapsed + delta < TickModulus
    BY DEF NoTickOverflow
  <2>1. /\ slots[id].elapsed \in Nat /\ slots[id].elapsed < configs[id].period
        /\ configs[id].period \in Nat /\ configs[id].period <= MaxInterval
    BY <1>1, ValidPeriods DEF IInv, TypeOK, Slot, Task
  <2> QED BY <2>1, HalfRange, TickAssumption
<1> QED BY <1>1, Invariance, PTL

-----------------------------------------------------------------------------
(***************************************************************************)
(* What the observer sees.  Every step that it watches is one of the       *)
(* scheduler, so that what is invariant without it stays so.               *)
(***************************************************************************)
LEMMA ObservedStepIsStep ==
    ASSUME IInv, [ObservedNext]_observedVars
    PROVE  [Next]_vars /\ IInv'
<1>1. ASSUME NEW gap \in 0 .. MaxGap, ObservedUpdate(gap)
      PROVE  \E now \in Tick : Update(now)
  <2> DEFINE now == (last_tick + gap) % TickModulus
  <2>1. now \in Tick
    <3>1. last_tick + gap \in Nat /\ TickModulus \in Nat \ {0}
      BY ObserverAssumption, TickAssumption DEF IInv, TypeOK, Tick
    <3>2. now \in Nat /\ now < TickModulus
      BY <3>1, Division
    <3> QED BY <3>1, <3>2 DEF Tick
  <2>2. Update(now)
    BY <1>1 DEF ObservedUpdate, Update
  <2> QED BY <2>1, <2>2
<1>2. [Next]_vars
  BY <1>1 DEF ObservedNext, ObservedCall, ObservedBegin, ObservedDispatch, ObservedEnd,
     ObservedReturn, Next, RunStep, Update, observedVars
<1> QED BY <1>2, Consecution

LEMMA ObservedInvariance == ObservedSpec => []IInv
<1>1. ObservedInit => IInv
  BY Initiation DEF ObservedInit
<1>2. IInv /\ [ObservedNext]_observedVars => IInv'
  BY ObservedStepIsStep
<1> QED BY <1>1, <1>2, PTL DEF ObservedSpec

-----------------------------------------------------------------------------
(* Products, quotients and remainders.                                     *)
LEMMA Products ==
    ASSUME NEW p \in Nat, NEW a \in Nat, NEW b \in Nat
    PROVE  /\ p * (a + b) = p * a + p * b
           /\ p * a \in Nat
           /\ a <= b => p * a <= p * b
<1>1. p * (a + b) = p * a + p * b
  OBVIOUS
<1>2. p * a \in Nat
  OBVIOUS
<1>3. a <= b => p * a <= p * b
  OBVIOUS
<1> QED BY <1>1, <1>2, <1>3

LEMMA Quotient ==
    ASSUME NEW x \in Nat, NEW p \in Nat \ {0}
    PROVE  x = p * (x \div p) + (x % p)
OBVIOUS

(* Only one remainder leaves a multiple of the divisor.                    *)
LEMMA RemainderIsUnique ==
    ASSUME NEW y \in Int, NEW k \in Int, NEW m \in Nat \ {0}, NEW r \in 0 .. m - 1,
           y = m * k + r
    PROVE  y % m = r
<1> DEFINE d == y \div m
           s == y % m
<1>1. d \in Int /\ s \in 0 .. m - 1 /\ y = m * d + s
  OBVIOUS
<1> HIDE DEF d, s
<1>2. m * (k - d) = s - r
  <2>1. m * (k - d) = m * k - m * d
    BY <1>1
  <2> QED BY <1>1, <2>1
<1>3. ~(k - d >= 1)
  <2> SUFFICES ASSUME k - d >= 1 PROVE FALSE
    OBVIOUS
  <2>1. m * (k - d) >= m
    BY <1>1
  <2> QED BY <1>1, <1>2, <2>1
<1>4. ~(k - d <= -1)
  <2> SUFFICES ASSUME k - d <= -1 PROVE FALSE
    OBVIOUS
  <2>1. m * (k - d) <= -m
    BY <1>1
  <2> QED BY <1>1, <1>2, <2>1
<1>5. k = d
  BY <1>1, <1>3, <1>4
<1> QED BY <1>1, <1>5 DEF s

(* The tick counter wraps between two samples; their distance does not     *)
(* show it.                                                                *)
LEMMA WrappedDistance ==
    ASSUME NEW a \in Nat, NEW gap \in Nat, NEW m \in Nat \ {0}
    PROVE  (((a + gap) % m) - a) % m = gap % m
<1> DEFINE x == (a + gap) % m
           q == (a + gap) \div m
           r == gap % m
           t == gap \div m
<1>1. x \in Int /\ q \in Int /\ a + gap = m * q + x
  BY Quotient, Division
<1>2. r \in 0 .. m - 1 /\ t \in Int /\ gap = m * t + r
  BY Quotient, Division
<1> HIDE DEF x, q, r, t
<1>3. x - a = m * (t - q) + r
  <2>1. m * (t - q) = m * t - m * q
    BY <1>1, <1>2
  <2> QED BY <1>1, <1>2, <2>1
<1>4. (x - a) % m = r
  BY <1>1, <1>2, <1>3, RemainderIsUnique
<1> QED BY <1>4 DEF x, r

-----------------------------------------------------------------------------
(* What one turn of the update loop does to the account of a slot, and     *)
(* what executing it does.                                                 *)
Account(slot, period) == slot.elapsed + period * Triggers(slot)

Balanced(slot, period, time) ==
    /\ Account(slot, period) <= time
    /\ ~Saturated(slot) => Account(slot, period) = time

LEMMA TriggersCounted ==
    ASSUME NEW slot \in Slot
    PROVE  Triggers(slot) \in Nat
BY CounterAssumption DEF Triggers, Slot

LEMMA AdvancedBalances ==
    ASSUME NEW slot \in Slot, NEW period \in Nat \ {0}, NEW delta \in Nat, NEW time \in Nat,
           slot.elapsed + delta < TickModulus, Balanced(slot, period, time)
    PROVE  Balanced(Advanced(slot, period, delta), period, time + delta)
<1> DEFINE total == (slot.elapsed + delta) % TickModulus
           periods == total \div period
           rest == total % period
           new == Advanced(slot, period, delta)
           before == Triggers(slot)
<1>1. total = slot.elapsed + delta /\ total \in Nat /\ slot.elapsed \in Nat
  <2>1. slot.elapsed + delta \in 0 .. TickModulus - 1 /\ TickModulus \in Nat \ {0}
        /\ slot.elapsed \in Nat
    BY TickAssumption DEF Slot
  <2> QED BY <2>1
<1>2. /\ periods \in Nat /\ rest \in Nat /\ total = period * periods + rest
      /\ before \in Nat
  BY <1>1, Division, Quotient, TriggersCounted
<1>3. CASE periods = 0
  <2>1. new = [slot EXCEPT !.elapsed = rest]
    BY <1>3 DEF Advanced
  <2>2. rest = slot.elapsed + delta
    BY <1>1, <1>2, <1>3
  <2> HIDE DEF total, periods, rest, new
  <2>3. new.elapsed = slot.elapsed + delta /\ Triggers(new) = before
        /\ (Saturated(new) <=> Saturated(slot))
    BY <2>1, <2>2 DEF Slot, Triggers, Saturated
  <2>4. period * before \in Nat
    BY <1>2, Products
  <2> HIDE DEF before
  <2>5. /\ Account(slot, period) = slot.elapsed + period * before
        /\ Account(new, period) = slot.elapsed + delta + period * before
    BY <2>3 DEF Account, before
  <2>6. Balanced(new, period, time + delta)
    BY <1>1, <2>3, <2>4, <2>5 DEF Balanced
  <2> QED BY <2>6 DEF new
<1>4. CASE periods # 0
  <2> DEFINE missed == IF slot.ready THEN periods ELSE periods - 1
             counted == Increment(slot.missed_count, missed)
  <2>1. missed \in Nat
    BY <1>2, <1>4
  <2>2. /\ counted \in 0 .. CounterMax /\ counted <= slot.missed_count + missed
        /\ counted # CounterMax => /\ counted = slot.missed_count + missed
                                   /\ slot.missed_count # CounterMax
        /\ slot.missed_count \in 0 .. CounterMax /\ slot.run_count \in 0 .. CounterMax
    <3>1. slot.missed_count \in 0 .. CounterMax /\ slot.run_count \in 0 .. CounterMax
      BY DEF Slot
    <3> HIDE DEF missed
    <3> QED BY <2>1, <3>1, CounterAssumption DEF Increment
  <2>3. new = [[slot EXCEPT !.elapsed = rest]
                  EXCEPT !.ready = TRUE, !.missed_count = counted]
    BY <1>4 DEF Advanced
  <2>4. missed + 1 = periods + (IF slot.ready THEN 1 ELSE 0)
    BY <1>2, <1>4
  <2> HIDE DEF total, periods, rest, new, missed, counted
  <2>5. /\ new.elapsed = rest /\ new.run_count = slot.run_count /\ new.missed_count = counted
        /\ new.ready = TRUE
    BY <2>3 DEF Slot
  <2>6. Triggers(new) = slot.run_count + counted + 1
    BY <2>5 DEF Triggers
  <2>7. before + periods = slot.run_count + (slot.missed_count + missed) + 1
    BY <1>2, <2>1, <2>2, <2>4 DEF Triggers
  <2> DEFINE after == Triggers(new)
  <2>8. /\ after \in Nat /\ after <= before + periods
        /\ ~Saturated(new) => after = before + periods /\ ~Saturated(slot)
    BY <1>2, <2>1, <2>2, <2>5, <2>6, <2>7, CounterAssumption DEF Saturated
  <2> HIDE DEF before, after
  <2>9. /\ period * (before + periods) = period * before + period * periods
        /\ period * after <= period * (before + periods)
        /\ period * before \in Nat /\ period * periods \in Nat /\ period * after \in Nat
    BY <1>2, <2>8, Products
  <2>10. Account(new, period) = rest + period * after
    BY <2>5 DEF Account, after
  <2>11. Account(slot, period) = slot.elapsed + period * before
    BY DEF Account, before
  <2>12. rest + period * (before + periods) = Account(slot, period) + delta
    BY <1>1, <1>2, <2>9, <2>11
  <2>13. Account(slot, period) \in Nat /\ Account(new, period) \in Nat
    BY <1>1, <1>2, <2>9, <2>10, <2>11
  <2>14. Account(new, period) <= Account(slot, period) + delta
    BY <1>2, <2>9, <2>10, <2>12, <2>13
  <2>15. ~Saturated(new) => Account(new, period) = Account(slot, period) + delta
    BY <2>8, <2>10, <2>12
  <2>16. Balanced(new, period, time + delta)
    BY <2>8, <2>13, <2>14, <2>15 DEF Balanced
  <2> QED BY <2>16 DEF new
<1> QED BY <1>3, <1>4

LEMMA ExecutedBalances ==
    ASSUME NEW slot \in Slot, NEW period \in Nat \ {0}, NEW time \in Nat, slot.ready,
           Balanced(slot, period, time), NEW new,
           new.elapsed = slot.elapsed, new.missed_count = slot.missed_count,
           new.ready = FALSE, new.run_count = Increment(slot.run_count, 1)
    PROVE  Balanced(new, period, time)
<1> DEFINE before == Triggers(slot)
           after == Triggers(new)
<1>1. /\ slot.run_count \in 0 .. CounterMax /\ slot.missed_count \in 0 .. CounterMax
      /\ slot.elapsed \in Nat
  BY DEF Slot
<1>2. /\ new.run_count \in 0 .. CounterMax /\ new.run_count <= slot.run_count + 1
      /\ new.run_count # CounterMax => /\ new.run_count = slot.run_count + 1
                                       /\ slot.run_count # CounterMax
  BY <1>1, CounterAssumption DEF Increment
<1>3. before = slot.run_count + slot.missed_count + 1
      /\ after = new.run_count + slot.missed_count + 0
  BY DEF Triggers
<1>4. /\ before \in Nat /\ after \in Nat /\ after <= before
      /\ ~Saturated(new) => after = before /\ ~Saturated(slot)
  BY <1>1, <1>2, <1>3, CounterAssumption DEF Saturated
<1> HIDE DEF before, after
<1>5. period * after <= period * before /\ period * after \in Nat /\ period * before \in Nat
  BY <1>4, Products
<1> QED BY <1>1, <1>4, <1>5 DEF Balanced, Account, before, after

-----------------------------------------------------------------------------
(* Nothing is accepted before the first sample, which comes after init.    *)
TimeInv ==
    /\ clock \in Nat /\ accepted \in Nat /\ regular \in BOOLEAN
    /\ ~initialized => ~time_initialized
    /\ ~time_initialized => accepted = 0
    /\ TimeConserved /\ WrapInvisible

LEMMA TimeConservedIsBalance ==
    TimeConserved <=> \A id \in Task : Balanced(slots[id], configs[id].period, accepted)
BY DEF TimeConserved, Balanced, Account

LEMMA TimeInit == ObservedInit => TimeInv
<1> SUFFICES ASSUME ObservedInit PROVE TimeInv
  OBVIOUS
<1>1. Task = {}
  BY DEF ObservedInit, Init, Task
<1> QED BY <1>1 DEF ObservedInit, Init, TimeInv, TimeConserved, WrapInvisible

(* An update moves the accounts of all slots by the interval it accepts.   *)
LEMMA TimeUpdate ==
    ASSUME IInv, TimeInv, NEW gap \in 0 .. MaxGap, ObservedUpdate(gap)
    PROVE  TimeInv'
<1> DEFINE now == (last_tick + gap) % TickModulus
           delta == Delta(now)
<1>1. /\ run.pc = "idle" /\ initialized /\ time_initialized /\ clock' = clock + gap
      /\ accepted' = IF delta <= MaxInterval THEN accepted + delta ELSE accepted
      /\ regular' = (regular /\ gap <= MaxInterval)
      /\ UNCHANGED <<initialized, time_initialized, configs>>
      /\ UpdateRebase(now) \/ UpdateAdvance(now)
  <2>1. /\ clock' = clock + gap
        /\ accepted' = IF delta <= MaxInterval THEN accepted + delta ELSE accepted
        /\ regular' = (regular /\ gap <= MaxInterval)
        /\ UpdateRebase(now) \/ UpdateAdvance(now)
    BY Zenon DEF ObservedUpdate
  <2>2. /\ run.pc = "idle" /\ initialized /\ time_initialized
        /\ UNCHANGED <<initialized, time_initialized, configs>>
    BY <2>1, Zenon DEF UpdateRebase, UpdateAdvance
  <2> QED BY <2>1, <2>2, Zenon
<1>2. /\ gap \in Nat /\ clock \in Nat /\ accepted \in Nat /\ regular \in BOOLEAN
      /\ MaxInterval \in Nat /\ 2 * MaxInterval < TickModulus
      /\ TickModulus \in Nat \ {0} /\ last_tick \in Nat
  BY ObserverAssumption, TickAssumption, HalfRange DEF TimeInv, IInv, TypeOK, Tick
<1>3. delta = gap % TickModulus
  BY <1>2, WrappedDistance DEF Delta
<1>4. delta \in Nat /\ delta <= gap /\ (gap <= MaxInterval => delta = gap)
  <2>1. delta \in Nat /\ gap \div TickModulus \in Nat
        /\ gap = TickModulus * (gap \div TickModulus) + delta
    BY <1>2, <1>3, Division, Quotient
  <2>2. TickModulus * (gap \div TickModulus) \in Nat
    BY <1>2, <2>1, Products
  <2>3. gap <= MaxInterval => delta = gap
    <3> SUFFICES ASSUME gap <= MaxInterval PROVE delta = gap
      OBVIOUS
    <3>1. gap \in 0 .. TickModulus - 1
      BY <1>2
    <3> QED BY <1>2, <1>3, <3>1
  <2> HIDE DEF delta
  <2> QED BY <1>2, <2>1, <2>2, <2>3
<1> HIDE DEF delta
<1>5. WrapInvisible'
  <2>1. accepted <= clock /\ (regular => accepted = clock)
    BY DEF TimeInv, WrapInvisible
  <2>2. accepted' <= clock'
    BY <1>1, <1>2, <1>4, <2>1
  <2>3. ASSUME regular' PROVE accepted' = clock'
    <3>1. regular /\ gap <= MaxInterval
      BY <1>1, <2>3, Zenon
    <3>2. delta = gap /\ accepted = clock
      BY <1>4, <2>1, <3>1
    <3> QED BY <1>1, <3>1, <3>2
  <2> QED BY <2>2, <2>3 DEF WrapInvisible
<1>6. TimeConserved'
  <2>1. Task' = Task
    BY <1>1 DEF Task
  <2>2. CASE delta <= MaxInterval
    <3>1. slots' = [id \in Task |-> Advanced(slots[id], configs[id].period, delta)]
      <4>1. ~UpdateRebase(now)
        BY <1>2, <1>4, <2>2 DEF UpdateRebase, delta
      <4> QED BY <1>1, <4>1 DEF UpdateAdvance, delta
    <3>2. ASSUME NEW id \in Task
          PROVE  Balanced(slots'[id], configs[id].period, accepted')
      <4>1. /\ slots[id] \in Slot /\ configs[id].period \in Nat \ {0}
            /\ configs[id].period <= MaxInterval
            /\ slots[id].elapsed \in Nat /\ slots[id].elapsed < configs[id].period
        BY <1>1, ValidPeriods DEF IInv, TypeOK, Task, Slot
      <4>2. slots[id].elapsed + delta < TickModulus
        BY <1>2, <1>4, <2>2, <4>1
      <4>3. Balanced(slots[id], configs[id].period, accepted)
        BY TimeConservedIsBalance DEF TimeInv
      <4>4. Balanced(Advanced(slots[id], configs[id].period, delta),
                     configs[id].period, accepted + delta)
        BY <1>2, <1>4, <4>1, <4>2, <4>3, AdvancedBalances
      <4> QED BY <1>1, <2>2, <3>1, <4>4
    <3> QED BY <1>1, <2>1, <3>2 DEF TimeConserved, Balanced, Account, Triggers, Saturated
  <2>3. CASE ~(delta <= MaxInterval)
    <3>1. slots' = slots
      BY <1>1, <2>3 DEF UpdateRebase, UpdateAdvance, delta
    <3> QED BY <1>1, <2>1, <2>3, <3>1 DEF TimeInv, TimeConserved, Triggers, Saturated
  <2> QED BY <2>2, <2>3
<1> QED BY <1>1, <1>2, <1>4, <1>5, <1>6 DEF TimeInv

(* The steps of a round move a trigger from waiting to executed.           *)
LEMMA TimeRound ==
    ASSUME IInv, TimeInv, UNCHANGED <<clock, accepted, regular, configs, initialized,
                                      time_initialized>>,
           \/ UNCHANGED slots \/ RunDispatch
           \/ \E status \in ErrorStatus \cup {"OK"} : CallbackReturns(status)
    PROVE  TimeInv'
<1>1. Task' = Task /\ WrapInvisible'
  BY DEF Task, TimeInv, WrapInvisible
<1>2. CASE UNCHANGED slots
  BY <1>1, <1>2 DEF TimeInv, TimeConserved, Triggers, Saturated
<1>3. ASSUME initialized, run.index \in Task
      PROVE  Current \in Task /\ slots \in [Task -> Slot]
  BY <1>3 DEF IInv, TypeOK, Current, Task, Sorted
<1>4. ASSUME NEW new, Current \in Task, slots \in [Task -> Slot], slots' = [slots EXCEPT ![Current] = new],
             Balanced(new, configs[Current].period, accepted)
      PROVE  TimeConserved'
  <2>1. \A id \in Task : slots'[id] = IF id = Current THEN new ELSE slots[id]
    BY <1>4
  <2>2. \A id \in Task : Balanced(slots'[id], configs[id].period, accepted)
    BY <1>4, <2>1, TimeConservedIsBalance DEF TimeInv
  <2> QED BY <1>1, <2>2 DEF TimeConserved, Balanced, Account, Triggers, Saturated
<1>5. CASE RunDispatch
  <2> DEFINE old == slots[Current]
             new == [[old EXCEPT !.ready = FALSE] EXCEPT !.run_count = Increment(@, 1)]
  <2>1. initialized /\ run.index \in Task /\ old.ready
    BY <1>5 DEF RunDispatch, IInv, TypeOK
  <2>2. Current \in Task /\ slots \in [Task -> Slot] /\ old \in Slot
    BY <1>3, <2>1
  <2>3. slots' = [slots EXCEPT ![Current] = new]
    BY <1>5, <2>2 DEF RunDispatch, Slot
  <2>4. /\ new.elapsed = old.elapsed /\ new.missed_count = old.missed_count
        /\ new.ready = FALSE /\ new.run_count = Increment(old.run_count, 1)
    BY <2>2 DEF Slot
  <2>5. configs[Current].period \in Nat \ {0} /\ accepted \in Nat
    BY <2>1, <2>2, ValidPeriods DEF IInv, TypeOK, TimeInv, Task
  <2>6. Balanced(old, configs[Current].period, accepted)
    BY <2>2, TimeConservedIsBalance DEF TimeInv
  <2> HIDE DEF new, old
  <2>7. Balanced(new, configs[Current].period, accepted)
    BY <2>1, <2>2, <2>4, <2>5, <2>6, ExecutedBalances
  <2>8. TimeConserved'
    BY <1>4, <2>2, <2>3, <2>7
  <2> QED BY <1>1, <2>8 DEF TimeInv
<1>6. ASSUME NEW status, CallbackReturns(status) PROVE TimeInv'
  <2> DEFINE old == slots[Current]
             errors == IF status = "OK" THEN old.error_count ELSE Increment(old.error_count, 1)
             new == [[old EXCEPT !.last_status = status] EXCEPT !.error_count = errors]
  <2>1. initialized /\ run.index \in Task
    BY <1>6 DEF CallbackReturns, IInv, TypeOK
  <2>2. Current \in Task /\ slots \in [Task -> Slot] /\ old \in Slot
    BY <1>3, <2>1
  <2>3. slots' = [slots EXCEPT ![Current] = new]
    BY <1>6, <2>2 DEF CallbackReturns, Slot
  <2>4. /\ new.elapsed = old.elapsed /\ new.missed_count = old.missed_count
        /\ new.ready = old.ready /\ new.run_count = old.run_count
    BY <2>2 DEF Slot
  <2>5. Balanced(old, configs[Current].period, accepted)
    BY <2>2, TimeConservedIsBalance DEF TimeInv
  <2> HIDE DEF new, old
  <2>6. Balanced(new, configs[Current].period, accepted)
    BY <2>4, <2>5 DEF Balanced, Account, Triggers, Saturated
  <2>7. TimeConserved'
    BY <1>4, <2>2, <2>3, <2>6
  <2> QED BY <1>1, <2>7 DEF TimeInv
<1> QED BY <1>2, <1>5, <1>6

(* The calls around the rounds: init gives every account a fresh start,    *)
(* and the first sample only sets the reference tick.                      *)
LEMMA TimeCall ==
    ASSUME IInv, TimeInv, ObservedCall
    PROVE  TimeInv'
<1>1. UNCHANGED <<clock, accepted, regular>>
  BY DEF ObservedCall, observer
<1>2. ASSUME NEW table \in Tables, SchedulerInit(table), ValidTable(table) PROVE TimeInv'
  <2>1. /\ ~initialized /\ initialized' = TRUE /\ time_initialized' = FALSE /\ configs' = table
        /\ slots' = [id \in DOMAIN table |-> NewSlot]
    BY <1>2 DEF SchedulerInit
  <2>2. accepted = 0
    BY <2>1 DEF TimeInv
  <2>3. ASSUME NEW id \in DOMAIN table
        PROVE  Balanced(NewSlot, table[id].period, 0)
    <3>1. table[id].period \in Nat
      BY <1>2, ValidPeriods
    <3>2. Triggers(NewSlot) = 0 /\ NewSlot.elapsed = 0
      BY DEF Triggers, NewSlot
    <3>3. table[id].period * 0 = 0
      BY <3>1
    <3> QED BY <3>2, <3>3 DEF Balanced, Account
  <2>4. TimeConserved'
    BY <1>1, <2>1, <2>2, <2>3
    DEF Task, TimeConserved, Balanced, Account, Triggers, Saturated
  <2> QED BY <1>1, <2>1, <2>2, <2>4 DEF TimeInv, WrapInvisible
<1>3. ASSUME UNCHANGED <<initialized, slots, configs>>, time_initialized => time_initialized',
             ~initialized => ~time_initialized'
      PROVE  TimeInv'
  BY <1>1, <1>3 DEF TimeInv, TimeConserved, WrapInvisible, Task, Triggers, Saturated
<1>4. ASSUME NEW table \in Tables, SchedulerInit(table), ~ValidTable(table) PROVE TimeInv'
  BY <1>3, <1>4 DEF SchedulerInit, TimeInv
<1>5. CASE CallRefused \/ RunSkip \/ \E now \in Tick : UpdateFirst(now)
  BY <1>3, <1>5 DEF CallRefused, RunSkip, UpdateFirst, TimeInv
<1> QED BY <1>2, <1>4, <1>5 DEF ObservedCall

LEMMA TimeStep ==
    ASSUME IInv, TimeInv, [ObservedNext]_observedVars
    PROVE  TimeInv'
<1>1. ASSUME \/ ObservedBegin \/ ObservedDispatch \/ ObservedEnd
             \/ \E status \in ErrorStatus \cup {"OK"} : ObservedReturn(status)
             \/ UNCHANGED observedVars
      PROVE  TimeInv'
  BY <1>1, TimeRound
  DEF ObservedBegin, ObservedDispatch, ObservedEnd, ObservedReturn, observedVars, observer, vars,
      RunBegin, RunDispatch, RunEnd, CallbackReturns
<1> QED BY <1>1, TimeUpdate, TimeCall DEF ObservedNext

LEMMA TimeInvariance == ObservedSpec => []TimeInv
BY TimeInit, TimeStep, ObservedInvariance, PTL DEF ObservedSpec

(* Not a tick is lost or counted twice, for every table, tick and counter  *)
(* width and any sequence of samples.                                      *)
THEOREM TimeIsConserved == ObservedSpec => []TimeConserved
<1>1. TimeInv => TimeConserved
  BY DEF TimeInv
<1> QED BY <1>1, TimeInvariance, PTL

(* The wrap of the tick counter is invisible to a caller that samples      *)
(* often enough, and time is never invented.                               *)
THEOREM WrapIsInvisible == ObservedSpec => []WrapInvisible
<1>1. TimeInv => WrapInvisible
  BY DEF TimeInv
<1> QED BY <1>1, TimeInvariance, PTL

-----------------------------------------------------------------------------
(* The sort leaves every task in exactly one slot.                         *)
LEMMA OrderIsOnto ==
    ASSUME NEW table \in Tables, NEW s \in Sorted(table)
    PROVE  /\ \A i, j \in DOMAIN table : s[i] = s[j] => i = j
           /\ \A id \in DOMAIN table : \E k \in DOMAIN table : s[k] = id
<1>1. PICK n \in 0 .. TaskLimit + 1 :
          table \in [0 .. n - 1 -> [priority : Nat, period : Nat, callback : BOOLEAN]]
  BY TablesAssumption
<1>2. n \in Nat
  BY TaskLimitAssumption
<1> DEFINE D == DOMAIN table
<1>3. D = 0 .. n - 1
  BY <1>1
<1>4. s \in [D -> D] /\ \A i, j \in D : i < j => Follows(table, s[j], s[i])
  BY DEF Sorted
<1>5. \A x \in D : ~Follows(table, x, x)
  BY <1>1, <1>2, <1>3 DEF Follows
<1>6. \A i, j \in D : s[i] = s[j] => i = j
  <2> SUFFICES ASSUME NEW i \in D, NEW j \in D, s[i] = s[j] PROVE i = j
    OBVIOUS
  <2>1. ~(i < j) /\ ~(j < i)
    BY <1>4, <1>5
  <2> QED BY <1>2, <1>3, <2>1
<1>7. IsFiniteSet(D)
  BY <1>2, <1>3, FS_Interval
<1>8. s \in Injection(D, D)
  BY <1>4, <1>6, Fun_IsInj
<1>9. s \in Surjection(D, D)
  BY <1>7, <1>8, FS_Injection
<1> QED BY <1>6, <1>9, Fun_SurjectionProperties

(* The lookup of get_stats finds a slot for every configured ID.           *)
THEOREM StatsAreFound == ObservedSpec => []StatsAlwaysFound
<1>1. ASSUME IInv PROVE StatsAlwaysFound
  <2> SUFFICES ASSUME NEW id \in Task PROVE GetStats(id).status = "OK"
    BY DEF StatsAlwaysFound
  <2>1. initialized /\ configs \in Tables /\ order \in Sorted(configs)
    BY <1>1 DEF IInv, TypeOK, Task
  <2>2. \E k \in Task : order[k] = id
    BY <2>1, OrderIsOnto DEF Task
  <2> QED BY <2>1, <2>2 DEF GetStats
<1> QED BY <1>1, ObservedInvariance, PTL

-----------------------------------------------------------------------------
(***************************************************************************)
(* A round.  The positions that the scan has passed hold no trigger, every *)
(* callback entered stands at one of them, and a task was due when it is   *)
(* still waiting or was entered.                                           *)
(***************************************************************************)
Passed(k) == k < run.index \/ (run.pc = "callback" /\ k = run.index)
Entered(id) == \E i \in DOMAIN done : done[i].id = id
Entry == [id : Task, status : ErrorStatus \cup {"OK"}]

BetweenRounds == run.pc = "idle" => done = << >> /\ due = {} /\ run.first_error = "OK"
LastIsCurrent ==
    run.pc = "callback" =>
        done # << >> /\ done[Len(done)].id = Current /\ done[Len(done)].status = "OK"
EnteredArePassed == \A i \in DOMAIN done : \E k \in Task : Passed(k) /\ done[i].id = order[k]
DueAreServed ==
    run.pc # "idle" =>
        /\ due \subseteq Task
        /\ \A id \in Task : id \in due <=> slots[id].ready \/ Entered(id)
        /\ \A k \in Task : Passed(k) => ~slots[order[k]].ready

RoundInv ==
    /\ done \in Seq(Entry)
    /\ BetweenRounds /\ LastIsCurrent /\ EnteredArePassed /\ DueAreServed
    /\ RoundInOrder /\ FirstErrorReported

LEMMA TaskNumbers == ASSUME IInv PROVE Task \subseteq Nat
<1>1. CASE initialized
  <2>1. PICK n \in 0 .. TaskLimit + 1 : Task = 0 .. n - 1
    BY <1>1, TablesAssumption DEF IInv, TypeOK, Task
  <2> QED BY <2>1, TaskLimitAssumption
<1>2. CASE ~initialized
  BY <1>2 DEF IInv, TypeOK, Task
<1> QED BY <1>1, <1>2

LEMMA EntriesTyped ==
    ASSUME done \in Seq(Entry)
    PROVE  /\ Len(done) \in Nat /\ DOMAIN done = 1 .. Len(done)
           /\ \A i \in DOMAIN done :
                 /\ done[i] \in Entry /\ done[i].id \in Task
                 /\ done[i].status \in ErrorStatus \cup {"OK"}
<1>1. \A i \in DOMAIN done : done[i] \in Entry
  OBVIOUS
<1>2. \A e \in Entry : e.id \in Task /\ e.status \in ErrorStatus \cup {"OK"}
  BY DEF Entry
<1> QED BY <1>1, <1>2

LEMMA RoundServed == ASSUME IInv, RoundInv PROVE RoundServesDue
<1> SUFFICES ASSUME run.pc = "scan", run.index \notin Task PROVE RoundServesDue
  BY DEF RoundServesDue
<1>1. initialized /\ configs \in Tables /\ order \in Sorted(configs) /\ run.index \in Nat
  BY DEF IInv, TypeOK
<1>2. \A k \in Task : k < run.index
  <2>1. PICK n \in 0 .. TaskLimit + 1 : Task = 0 .. n - 1
    BY <1>1, TablesAssumption DEF Task
  <2> QED BY <1>1, <2>1, TaskLimitAssumption
<1>3. \A id \in Task : ~slots[id].ready
  <2> SUFFICES ASSUME NEW id \in Task PROVE ~slots[id].ready
    OBVIOUS
  <2>1. PICK k \in Task : order[k] = id
    BY <1>1, OrderIsOnto DEF Task
  <2> QED BY <1>2, <2>1 DEF RoundInv, DueAreServed, Passed
<1>4. \A i \in DOMAIN done : done[i].id \in Task
  BY EntriesTyped DEF RoundInv
<1>5. {done[i].id : i \in DOMAIN done} = due
  <2>1. due \subseteq Task /\ \A id \in Task : id \in due <=> Entered(id)
    BY <1>3 DEF RoundInv, DueAreServed
  <2> QED BY <1>4, <2>1 DEF Entered
<1> QED BY <1>3, <1>5 DEF RoundServesDue

LEMMA RoundInit == ObservedInit => RoundInv
<1> SUFFICES ASSUME ObservedInit PROVE RoundInv
  OBVIOUS
<1>1. done = << >> /\ due = {} /\ run.pc = "idle" /\ run.first_error = "OK"
  BY DEF ObservedInit, Init
<1>2. DOMAIN done = {} /\ done \in Seq(Entry)
  BY <1>1
<1> QED BY <1>1, <1>2
    DEF RoundInv, BetweenRounds, LastIsCurrent, EnteredArePassed, DueAreServed, RoundInOrder,
        FirstErrorReported

(* Between rounds nothing is recorded, whatever the caller does.           *)
LEMMA BetweenRoundsStep ==
    ASSUME RoundInv, run.pc = "idle", run' = run, UNCHANGED <<due, done>>
    PROVE  RoundInv'
<1>1. done' = << >> /\ due' = {} /\ run'.pc = "idle" /\ run'.first_error = "OK"
  BY DEF RoundInv, BetweenRounds
<1>2. DOMAIN done' = {} /\ done' \in Seq(Entry')
  BY <1>1
<1> QED BY <1>1, <1>2
    DEF RoundInv, BetweenRounds, LastIsCurrent, EnteredArePassed, DueAreServed, RoundInOrder,
        FirstErrorReported

LEMMA RoundBegins ==
    ASSUME IInv, RoundInv, ObservedBegin
    PROVE  RoundInv'
<1>1. /\ done' = << >> /\ due' = {id \in Task : slots[id].ready}
      /\ run' = [pc |-> "scan", index |-> 0, first_error |-> "OK"]
      /\ UNCHANGED <<configs, order, slots>>
  BY DEF ObservedBegin, RunBegin, RoundInv, BetweenRounds
<1>2. DOMAIN done' = {} /\ done' \in Seq(Entry') /\ Task' = Task
  BY <1>1 DEF Task
<1>3. \A k \in Task : ~Passed(k)'
  BY <1>1, TaskNumbers DEF Passed
<1>4. DueAreServed'
  BY <1>1, <1>2, <1>3 DEF DueAreServed, Entered
<1> QED BY <1>1, <1>2, <1>4
    DEF RoundInv, BetweenRounds, LastIsCurrent, EnteredArePassed, RoundInOrder,
        FirstErrorReported

LEMMA RoundEnds ==
    ASSUME ObservedEnd
    PROVE  RoundInv'
<1>1. done' = << >> /\ due' = {} /\ run' = [pc |-> "idle", index |-> 0, first_error |-> "OK"]
  BY DEF ObservedEnd, RunEnd
<1>2. DOMAIN done' = {} /\ done' \in Seq(Entry')
  BY <1>1
<1> QED BY <1>1, <1>2
    DEF RoundInv, BetweenRounds, LastIsCurrent, EnteredArePassed, DueAreServed, RoundInOrder,
        FirstErrorReported

LEMMA RoundSkips ==
    ASSUME IInv, RoundInv, RunSkip, UNCHANGED observer
    PROVE  RoundInv'
<1>1. /\ run.pc = "scan" /\ run.index \in Task /\ ~slots[order[run.index]].ready
      /\ run'.pc = "scan" /\ run'.index = run.index + 1 /\ run'.first_error = run.first_error
      /\ UNCHANGED <<configs, order, slots, due, done>>
  BY DEF RunSkip, Current, observer, IInv, TypeOK
<1>2. Task' = Task /\ Task \subseteq Nat
  BY <1>1, TaskNumbers DEF Task
<1>3. \A k \in Task : Passed(k)' <=> Passed(k) \/ k = run.index
  <2> SUFFICES ASSUME NEW k \in Task PROVE Passed(k)' <=> Passed(k) \/ k = run.index
    OBVIOUS
  <2>1. k \in Nat /\ run.index \in Nat
    BY <1>1, <1>2
  <2>2. k < run.index + 1 <=> k < run.index \/ k = run.index
    BY <2>1
  <2>3. (Passed(k) <=> k < run.index) /\ (Passed(k)' <=> k < run'.index)
    BY <1>1 DEF Passed
  <2> QED BY <1>1, <2>2, <2>3
<1>4. done' \in Seq(Entry') /\ BetweenRounds' /\ LastIsCurrent'
  BY <1>1, <1>2 DEF RoundInv, BetweenRounds, LastIsCurrent, Entry
<1>5. EnteredArePassed'
  BY <1>1, <1>2, <1>3 DEF RoundInv, EnteredArePassed
<1>6. DueAreServed'
  BY <1>1, <1>2, <1>3 DEF RoundInv, DueAreServed, Entered
<1>7. RoundInOrder' /\ FirstErrorReported'
  BY <1>1 DEF RoundInv, RoundInOrder, FirstErrorReported, Follows
<1> QED BY <1>4, <1>5, <1>6, <1>7 DEF RoundInv

(* The scan enters the callback of the slot that it has come to.           *)
LEMMA RoundDispatches ==
    ASSUME IInv, RoundInv, ObservedDispatch
    PROVE  RoundInv'
<1> DEFINE e == [id |-> Current, status |-> "OK"]
           last == Len(done) + 1
<1>1. /\ run.pc = "scan" /\ run.index \in Task /\ slots[Current].ready
      /\ run'.pc = "callback" /\ run'.index = run.index /\ run'.first_error = run.first_error
      /\ done' = Append(done, e)
      /\ UNCHANGED <<configs, order, due>>
  BY DEF ObservedDispatch, RunDispatch, IInv, TypeOK
<1>2. /\ initialized /\ Current \in Task /\ Current = order[run.index]
      /\ slots \in [Task -> Slot] /\ Task' = Task /\ Task \subseteq Nat
      /\ Current' = Current /\ order \in Sorted(configs) /\ order \in [Task -> Task]
  BY <1>1, TaskNumbers DEF IInv, TypeOK, Current, Task, Sorted
<1>3. \A id \in Task : slots'[id].ready <=> slots[id].ready /\ id # Current
  <2> DEFINE new == [[slots[Current] EXCEPT !.ready = FALSE] EXCEPT !.run_count = Increment(@, 1)]
  <2>1. slots[Current] \in Slot
    BY <1>2
  <2>2. slots' = [slots EXCEPT ![Current] = new]
    BY <1>2, <2>1 DEF ObservedDispatch, RunDispatch, Slot
  <2>3. new.ready = FALSE
    BY <2>1 DEF Slot
  <2> HIDE DEF new
  <2>4. \A id \in Task : slots'[id] = IF id = Current THEN new ELSE slots[id]
    BY <1>2, <2>2
  <2> QED BY <2>3, <2>4
<1>4. /\ done \in Seq(Entry) /\ Len(done) \in Nat /\ DOMAIN done = 1 .. Len(done)
      /\ e \in Entry
  BY <1>2, EntriesTyped DEF RoundInv, Entry
<1>5. e.id = Current /\ e.status = "OK"
  OBVIOUS
<1> HIDE DEF e
<1>6. /\ done' \in Seq(Entry) /\ DOMAIN done' = 1 .. last /\ Len(done') = last
      /\ done'[last] = e /\ \A i \in 1 .. Len(done) : done'[i] = done[i]
  BY <1>1, <1>4
<1>7. \A i \in DOMAIN done' : i \in DOMAIN done \/ i = last
  BY <1>4, <1>6
<1>8. /\ \A i \in DOMAIN done : i \in DOMAIN done' /\ done'[i] = done[i] /\ i < last
      /\ last \in DOMAIN done' /\ last \notin DOMAIN done
  BY <1>4, <1>6
<1> HIDE DEF last
<1>9. Entry' = Entry
  BY <1>2 DEF Entry
<1>10. \A k \in Task : Passed(k)' <=> Passed(k) \/ k = run.index
  BY <1>1 DEF Passed
<1>11. \A id : Entered(id)' <=> Entered(id) \/ id = Current
  BY <1>5, <1>6, <1>7, <1>8 DEF Entered
<1>12. BetweenRounds' /\ LastIsCurrent'
  <2>1. done' # << >>
    BY <1>4, <1>6 DEF last
  <2> QED BY <1>1, <1>2, <1>5, <1>6, <2>1 DEF BetweenRounds, LastIsCurrent
<1>13. EnteredArePassed'
  <2> SUFFICES ASSUME NEW i \in DOMAIN done'
               PROVE  \E k \in Task : Passed(k)' /\ done'[i].id = order[k]
    BY <1>1, <1>2 DEF EnteredArePassed
  <2>1. CASE i \in DOMAIN done
    BY <1>8, <1>10, <2>1 DEF RoundInv, EnteredArePassed
  <2>2. CASE i = last
    <3>1. PICK k \in Task : k = run.index
      BY <1>1
    <3>2. Passed(k)'
      BY <1>10, <3>1
    <3>3. done'[i].id = order[k]
      BY <1>2, <1>5, <1>6, <2>2, <3>1
    <3> QED BY <3>2, <3>3
  <2> QED BY <1>7, <2>1, <2>2
<1>14. DueAreServed'
  <2>1. /\ due \subseteq Task
        /\ \A id \in Task : id \in due <=> slots[id].ready \/ Entered(id)
        /\ \A k \in Task : Passed(k) => ~slots[order[k]].ready
    BY <1>1 DEF RoundInv, DueAreServed
  <2>2. \A id \in Task : id \in due' <=> slots'[id].ready \/ Entered(id)'
    BY <1>1, <1>3, <1>11, <2>1
  <2>3. \A k \in Task : Passed(k)' => ~slots'[order[k]].ready
    BY <1>2, <1>3, <1>10, <2>1
  <2> QED BY <1>1, <1>2, <2>1, <2>2, <2>3 DEF DueAreServed
<1>15. RoundInOrder'
  <2> SUFFICES ASSUME NEW i \in DOMAIN done', NEW j \in DOMAIN done', i < j
               PROVE  Follows(configs, done'[j].id, done'[i].id)
    BY <1>1 DEF RoundInOrder, Follows
  <2>1. CASE j \in DOMAIN done
    <3>1. i \in DOMAIN done
      BY <1>4, <1>6, <2>1
    <3> QED BY <1>8, <2>1, <3>1 DEF RoundInv, RoundInOrder
  <2>2. CASE j = last
    <3>1. i \in DOMAIN done
      BY <1>4, <1>7, <2>2 DEF last
    <3>2. PICK k \in Task : Passed(k) /\ done[i].id = order[k]
      BY <3>1 DEF RoundInv, EnteredArePassed
    <3>3. k < run.index
      BY <1>1, <3>2 DEF Passed
    <3>4. Follows(configs, order[run.index], order[k])
      BY <1>1, <1>2, <3>3 DEF Sorted, Task
    <3> QED BY <1>2, <1>5, <1>6, <1>8, <2>2, <3>1, <3>2, <3>4
  <2> QED BY <1>7, <2>1, <2>2
<1>16. FirstErrorReported'
  <2>1. {i \in DOMAIN done' : done'[i].status # "OK"} = {i \in DOMAIN done : done[i].status # "OK"}
    BY <1>5, <1>6, <1>7, <1>8
  <2>2. \A i \in DOMAIN done : done'[i].status = done[i].status
    BY <1>8
  <2> QED BY <1>1, <2>1, <2>2 DEF RoundInv, FirstErrorReported
<1> QED BY <1>6, <1>9, <1>12, <1>13, <1>14, <1>15, <1>16 DEF RoundInv

(* The callback returns: its status is filed, and only a round without an  *)
(* error so far takes it over.                                             *)
LEMMA RoundReturns ==
    ASSUME IInv, RoundInv, NEW status \in ErrorStatus \cup {"OK"}, ObservedReturn(status)
    PROVE  RoundInv'
<1> DEFINE last == Len(done)
<1>1. /\ run.pc = "callback" /\ run.index \in Task
      /\ run'.pc = "scan" /\ run'.index = run.index + 1
      /\ run'.first_error = FirstError(run.first_error, status)
      /\ done' = [done EXCEPT ![last].status = status]
      /\ UNCHANGED <<configs, order, due>>
  BY DEF ObservedReturn, CallbackReturns, IInv, TypeOK
<1>2. /\ Current \in Task /\ slots \in [Task -> Slot] /\ Task' = Task /\ Task \subseteq Nat
  BY <1>1, TaskNumbers DEF IInv, TypeOK, Current, Task, Sorted
<1>3. \A id \in Task : slots'[id].ready = slots[id].ready
  <2> DEFINE old == slots[Current]
             errors == IF status = "OK" THEN old.error_count ELSE Increment(old.error_count, 1)
             new == [[old EXCEPT !.last_status = status] EXCEPT !.error_count = errors]
  <2>1. old \in Slot
    BY <1>2
  <2>2. slots' = [slots EXCEPT ![Current] = new]
    BY <1>2, <2>1 DEF ObservedReturn, CallbackReturns, Slot
  <2>3. new.ready = old.ready
    BY <2>1 DEF Slot
  <2> HIDE DEF new
  <2>4. \A id \in Task : slots'[id] = IF id = Current THEN new ELSE slots[id]
    BY <1>2, <2>2
  <2> QED BY <2>3, <2>4
<1>4. /\ done \in Seq(Entry) /\ last \in Nat /\ DOMAIN done = 1 .. last
      /\ done # << >> /\ done[last].status = "OK"
      /\ \A i \in DOMAIN done : done[i] \in Entry
  BY <1>1, EntriesTyped DEF RoundInv, LastIsCurrent
<1>5. last \in DOMAIN done /\ \A i \in DOMAIN done : i \in Nat /\ i <= last
  BY <1>4
<1> DEFINE new == [done[last] EXCEPT !.status = status]
<1>6. new \in Entry /\ new.id = done[last].id /\ new.status = status
  BY <1>4, <1>5 DEF Entry
<1>7. done' = [done EXCEPT ![last] = new]
  BY <1>1
<1> HIDE DEF new, last
<1>8. /\ done' \in Seq(Entry) /\ DOMAIN done' = DOMAIN done
      /\ \A i \in DOMAIN done : done'[i] = IF i = last THEN new ELSE done[i]
  BY <1>4, <1>5, <1>6, <1>7
<1>9. \A i \in DOMAIN done : done'[i].id = done[i].id
  BY <1>6, <1>8
<1>10. \A k \in Task : Passed(k)' <=> Passed(k)
  <2> SUFFICES ASSUME NEW k \in Task PROVE Passed(k)' <=> Passed(k)
    OBVIOUS
  <2>1. k \in Nat /\ run.index \in Nat
    BY <1>1, <1>2
  <2>2. k < run.index + 1 <=> k < run.index \/ k = run.index
    BY <2>1
  <2>3. (Passed(k) <=> k < run.index \/ k = run.index) /\ (Passed(k)' <=> k < run'.index)
    BY <1>1 DEF Passed
  <2> QED BY <1>1, <2>2, <2>3
<1>11. \A id : Entered(id)' <=> Entered(id)
  BY <1>8, <1>9 DEF Entered
<1>12. done' \in Seq(Entry') /\ BetweenRounds' /\ LastIsCurrent'
  <2>1. Entry' = Entry
    BY <1>2 DEF Entry
  <2> QED BY <1>1, <1>8, <2>1 DEF BetweenRounds, LastIsCurrent
<1>13. EnteredArePassed'
  BY <1>1, <1>2, <1>8, <1>9, <1>10 DEF RoundInv, EnteredArePassed
<1>14. DueAreServed'
  <2>1. /\ due \subseteq Task
        /\ \A id \in Task : id \in due <=> slots[id].ready \/ Entered(id)
        /\ \A k \in Task : Passed(k) => ~slots[order[k]].ready
    BY <1>1 DEF RoundInv, DueAreServed
  <2>2. \A k \in Task : order[k] \in Task
    BY <1>1 DEF IInv, TypeOK, Task, Sorted
  <2>3. \A id \in Task : id \in due' <=> slots'[id].ready \/ Entered(id)'
    BY <1>1, <1>3, <1>11, <2>1
  <2>4. \A k \in Task : Passed(k)' => ~slots'[order[k]].ready
    BY <1>3, <1>10, <2>1, <2>2
  <2> QED BY <1>1, <1>2, <2>1, <2>3, <2>4 DEF DueAreServed
<1>15. RoundInOrder'
  BY <1>1, <1>8, <1>9 DEF RoundInv, RoundInOrder, Follows
<1>16. FirstErrorReported'
  <2> DEFINE failed == {i \in DOMAIN done : done[i].status # "OK"}
             fails  == {i \in DOMAIN done' : done'[i].status # "OK"}
  <2>1. FirstErrorReported
    BY DEF RoundInv
  <2>2. CASE failed = {}
    <3>1. run.first_error = "OK" /\ run'.first_error = status
      BY <1>1, <2>1, <2>2 DEF FirstErrorReported, FirstError
    <3>2. \A i \in DOMAIN done' : done'[i].status # "OK" => i = last
      BY <1>8, <2>2
    <3>3. last \in DOMAIN done' /\ done'[last].status = status
      BY <1>5, <1>6, <1>8
    <3>4. CASE status = "OK"
      <4>1. fails = {}
        BY <3>2, <3>3, <3>4
      <4> QED BY <3>1, <3>4, <4>1 DEF FirstErrorReported
    <3>5. CASE status # "OK"
      <4>1. fails = {last} /\ last \in Nat
        BY <1>5, <3>2, <3>3, <3>5
      <4>2. last \in fails /\ \A j \in fails : last <= j
        BY <4>1
      <4> QED BY <3>1, <3>3, <4>1, <4>2 DEF FirstErrorReported
    <3> QED BY <3>4, <3>5
  <2>3. CASE failed # {}
    <3>1. PICK i \in failed : (\A j \in failed : i <= j) /\ run.first_error = done[i].status
      BY <2>1, <2>3 DEF FirstErrorReported
    <3>2. i # last /\ done[i].status # "OK" /\ i \in DOMAIN done
      BY <1>4, <3>1
    <3>3. i \in fails /\ done'[i].status = done[i].status
      BY <1>8, <3>2
    <3>4. \A j \in fails : i <= j
      <4> SUFFICES ASSUME NEW j \in fails PROVE i <= j
        OBVIOUS
      <4>1. j \in DOMAIN done /\ done'[j].status # "OK"
        BY <1>8
      <4>2. CASE j = last
        BY <1>5, <3>2, <4>2
      <4>3. CASE j # last
        BY <1>8, <3>1, <4>1, <4>3
      <4> QED BY <4>2, <4>3
    <3>5. run'.first_error = done'[i].status
      BY <1>1, <3>1, <3>2, <3>3 DEF FirstError
    <3> QED BY <3>3, <3>4, <3>5 DEF FirstErrorReported
  <2> QED BY <2>2, <2>3
<1> QED BY <1>12, <1>13, <1>14, <1>15, <1>16 DEF RoundInv

LEMMA RoundStep ==
    ASSUME IInv, RoundInv, [ObservedNext]_observedVars
    PROVE  RoundInv'
<1>1. ASSUME NEW gap \in 0 .. MaxGap, ObservedUpdate(gap) PROVE RoundInv'
  <2>1. run.pc = "idle" /\ run' = run /\ UNCHANGED <<due, done>>
    BY <1>1 DEF ObservedUpdate, UpdateRebase, UpdateAdvance
  <2> QED BY <2>1, BetweenRoundsStep
<1>2. CASE ObservedCall
  <2>1. CASE RunSkip
    BY <1>2, <2>1, RoundSkips DEF ObservedCall
  <2>2. CASE ~RunSkip
    <3>1. run.pc = "idle" /\ run' = run /\ UNCHANGED <<due, done>>
      BY <1>2, <2>2 DEF ObservedCall, SchedulerInit, CallRefused, UpdateFirst, observer
    <3> QED BY <3>1, BetweenRoundsStep
  <2> QED BY <2>1, <2>2
<1>3. CASE UNCHANGED observedVars
  <2>1. UNCHANGED <<run, configs, order, slots, due, done, initialized>>
    BY <1>3 DEF observedVars, observer, vars
  <2>2. Task' = Task
    BY <2>1 DEF Task
  <2> QED BY <2>1, <2>2
      DEF RoundInv, BetweenRounds, LastIsCurrent, EnteredArePassed, DueAreServed, RoundInOrder,
          FirstErrorReported, Entry, Entered, Passed, Current, Follows
<1> QED BY <1>1, <1>2, <1>3, RoundBegins, RoundDispatches, RoundReturns, RoundEnds DEF ObservedNext

LEMMA RoundInvariance == ObservedSpec => []RoundInv
BY RoundInit, RoundStep, ObservedInvariance, PTL DEF ObservedSpec

(* A round enters its callbacks in ascending order of priority, then ID,   *)
(* whatever the table and the statuses they return.                        *)
THEOREM RoundsAreInOrder == ObservedSpec => []RoundInOrder
<1>1. RoundInv => RoundInOrder
  BY DEF RoundInv
<1> QED BY <1>1, RoundInvariance, PTL

(* A round that ends has served exactly the tasks that were ready when it  *)
(* began.                                                                  *)
THEOREM RoundsServeDue == ObservedSpec => []RoundServesDue
BY RoundServed, RoundInvariance, ObservedInvariance, PTL

(* The status of scheduler_run is that of the most urgent failing task.    *)
THEOREM FirstErrorIsReported == ObservedSpec => []FirstErrorReported
<1>1. RoundInv => FirstErrorReported
  BY DEF RoundInv
<1> QED BY <1>1, RoundInvariance, PTL
=============================================================================
