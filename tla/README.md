# TLA+ specifications of EmbeddedLibrary

This directory holds formal specifications of the firmware library: TLA+ modules
translated from the C sources, TLC configurations that check them on small
instances, and theorems that TLAPS proves for every instance. Paths below are
relative to the repository, which `src/` names in `PROJECT.json`.

Check a run with `tlc -config <name>.cfg <Module>.tla`, and a proof module with
`tlapm <Module>.tla`. `PROJECT.json` lists the runs, the mutants that show that each
property can fail, the map from definitions to source lines, the hazards, and the
theorems.

## 1. The system

The library is C for microcontrollers without an operating system. Objects are
caller-owned structures; nothing is allocated, nothing blocks. A product calls the
services from its main loop; interrupts reach it through the byte ring only.

    interrupt / DMA ──► mizu_fifo ──► main loop ──► scheduler ──► task callbacks
                                          │
             keys, Bluetooth session ─► menu (one instance per channel)
                                          ├──► parameter service ──► getters, setters of the owners
                                          └──► command service   ──► handlers of the owners
             telemetry, menu pages   ─► status service (faults on show)

| Component | State | Operations | What is hard | What makes it correct |
|---|---|---|---|---|
| `libraries/mizu_fifo` | storage, read_index, write_index | init, write, read, push, pop | producer and consumer run at the same time, without atomics or locks | nothing unread is overwritten, nothing unpublished is read, batches are whole and in order, retries succeed |
| `services/scheduler` | bound table, sorted slots, last tick, statistics | init, update, run, get_stats | wrap of the tick counter, long gaps, merged triggers, saturation, failing callbacks, the heap sort | no time lost or invented, each round serves what is due in order, first error kept, no starvation |
| `services/mizu_status_service` | array of records, active_count | init, report, clear, three queries | sequences over a full array with holes | the queries describe one set of faults; FULL is never silent |
| `services/command` | bound registry, snapshot | init, execute, snapshot, queries | duplicates across groups, limits on a sum, a wrapping sequence | every ID finds one command; pollers notice every execution |
| `services/parameter` | bound registry | init, get/set/adjust by ID; adjust_value, scale_step | the ends of integer types, rounding of floats, steps that are fed back, owners that change their values | a draft stays committable and a step scalable; a call by ID reaches one owner and keeps its limits |
| `services/menu` | navigation, draft, step cache, feedback | init, handle_event, process, query_view | two menus and the owner change one value; failing getters and setters; wrap of time; configurations of any shape | no commit over an unseen value; the selected target exists, fits the state and is on the page shown; commands only as confirmed |
| `libraries/pid`, `cascaded_pid` | integral, previous measurement, output | init, reset, calculate | anti-windup; overflow; a failing inner controller | both controllers of a cascade are updated or none; no failure locks them |
| `libraries/mizu_status` | none | an enumeration | — | — |
| `archive`: `queue_port`, `mutex_port`, `event_group`, `count_notification`, over `waiter` and `critical_section` | lifecycle state, the object's fields, a waiter per task | try, blocking and interrupt calls; init, start, stop, reset, deinit | tasks, interrupts and a controller in every interleaving; lost wakeups, deadlines, cancellation; stores outside the critical section | every call returns and tells the truth, stop cancels those who sleep, nothing is lost, repeated or consumed twice |
| `archive`: `snapshot_buffer`, `object_pool`, `fixed_queue` | slots, leases, indices, statistics | begin/publish/cancel, acquire/release; push/pop in batches | slots that are used between the calls; sequences of loans and returns; transfers in part | a frame stays whole, the books balance, the queue is a channel |
| `archive`: codecs and filters, `time_port` | — | — | — | not modelled |

Interactions of the library in use are direct calls. The menu is the only component
with several clients of shared state: each channel has its own instance, and all
share the parameter service, which keeps no values but routes to the owners, and the
command service. Except for the ring, one serial context makes all calls, and a
callback or handler may not re-enter the service that called it; so a call is one step
of the model, apart from `scheduler_run`, whose scan is split so that its rounds can be
observed, and the heap sort, whose loops are the subject. `archive/legacy_src` is
outside the build; its synchronisation objects are the code with the most concurrency,
and are modelled with each access outside the critical section as a step of its own.

## 2. The modules

| Module | Models | Notes |
|---|---|---|
| `Fifo` | `mizu_fifo.c` | a call is enter (first load of the peer's index), check, one step per byte, publish |
| `ByteQueue` | — | abstract: the bounded queue with all-or-nothing transfers that `Fifo` implements |
| `SlotOrder` | the order of the slots | shared by `SlotSort` and `Scheduler` |
| `SlotSort` | `scheduler_sort_slots`, `_sift_down` | the heap sort, one step per turn of a loop |
| `Scheduler` | the rest of `scheduler.c` | uses the result of the sort as a set of orders, which `SlotSort_proofs` justifies |
| `SchedulerObserved` | — | adds an outside clock and the history of a round as history variables |
| `StatusService` / `StatusBoard` | `mizu_status_service.c` | the array of records implements the board |
| `Command` | `command.c` | with a client that polls the snapshot |
| `ParameterValue` | the arithmetic of `parameter.c` | no state: used by the next two and by `Menu` |
| `ParameterEdit` | a draft and a step fed back into it | the use the menu makes of the arithmetic |
| `ParameterService` | init and the calls by ID of `parameter.c` | several owners behind one registry |
| `Menu` / `Editors` | `menu.c`, with get/set by ID of `parameter.c` and execute of `command.c` | several menus implement optimistic editing |
| `Pid`, `CascadedPid` | `pid.c`, `cascaded_pid.c` | a step of a controller as an operator; two of them with the commit of both |
| `BlockingCall` | `waiter.c`, `critical_section.c`, and what the four services share | lifecycle, the steps of a call, the wait port |
| `QueuePort`, `MutexPort`, `EventGroup`, `CountNotification` | the file of that name in the archive | each adds the object's fields, the bodies of its calls and the stores of its lifecycle |
| `SnapshotBuffer`, `ObjectPool`, `FixedQueue` | the file of that name in the archive | serial calls |
| `Channel` | — | abstract: the sequence of elements that `QueuePort` and `FixedQueue` implement |
| `Objects` | — | composes the objects that stand on their own: the first state chooses one of them |
| `Fifo_proofs`, `Scheduler_proofs`, `StatusService_proofs`, `Command_proofs`, `ParameterEdit_proofs`, `Menu_proofs`, `Objects_proofs`, `SlotSort_proofs` | — | theorems and their lemmas; `Menu_proofs` and `Objects_proofs` rest on those of `ParameterEdit_proofs` |
| `MC…` | — | tables, descriptors, configurations and registries of the instances |

**Correspondence.** Variables carry the names of the structure fields; `result` is
what the last call returned. Each action is a call or a part of a call between two
observable effects, named after the function. Early returns that change nothing are
one action per component (`CallRefused`, `CallRejected`, `WriteReturnsEarly`). Pure
queries are operators, and properties call them. Every definition that models code
names its lines in the map. "Plausible slips" are alternative forms of a definition
that no action uses; with one of them in place of the real definition, a property
must fail.

**Abstractions.**
- *Ring.* The copy is byte by byte. `ReloadIndex` is what the compiler makes of the
  two uses of the peer's index in `mizu_fifo_used`: one load or two; the code fixes
  neither. Steps take effect in program order: the ring's header leaves ordering
  between cores to the platform. `SizeModulus` is the width of `size_t`; that it
  exceeds twice the storage is true of every C object.
- *Scheduler.* `last_trigger` is a constant and is left out. Slots are kept by task
  ID, with `order` for their position, so that sorting does not move statistics.
- *Command.* `poll` is a client, with a counter of executions since its last look:
  an equal snapshot after exactly 2^32 executions cannot be told apart, so the
  client may not fall behind by a full turn.
- *Parameter.* Integers are exact with their bounds. A float is a multiple of a
  smallest unit with a significand of `Precision` bits, a double holds every value
  exactly; infinities and subnormals are not modelled. Decimals appear as the
  smallest step that they can show. `Typed` says what the fields of a descriptor can
  be, and leaves out BOOL parameters with one possible value: `validate_descriptor`
  accepts them, but `mizu_parameter_adjust_bool` (`parameter.c:401-411`) ignores the
  descriptor and gives the other value, although `parameter.h:125` says that an
  adjustment is clamped to the range of the parameter (a commit of it is refused).
- *Registries.* An init that is refused, and a call by ID that fails, change nothing
  and are stutters: that no bad table is accepted shows in what the accepted ones do
  (`OwnersServed`, `TargetMatchesState`) or in the result (`Command`).
- *Menu.* A device is a choice of menus, configurations that its code offers to
  `init`, and an environment, so that one specification serves small instances with
  different emphasis. An event that the state does not accept is a stutter.
  `edit_value` and `original_value` are set to 0 where the code leaves dead values. A
  command handler, which may do anything the business wants, either changes no
  parameter or sets one of them to its minimum. Failing getters and setters return any
  value of `Failure`. `age` is a history variable. `Tick` assumes that callers process
  a feedback within half a turn of the clock after its deadline: the signed difference
  cannot see more.
- *PID.* Numbers are integers with a finite range: sums and products are exact,
  quotients rounded down, and what leaves the range is `NotFinite`, as are NaN and the
  infinities. Order, limits, finiteness and the branches of anti-windup are those of
  the code; rounding of floats is not modelled.
- *Synchronisation objects.* The body of a critical section is one step, because
  `enter` masks preemption on the one core; checks of the lifecycle state and each
  store of a lifecycle function are outside it in the code, hence steps of their own.
  One controlling context calls the lifecycle functions, one after the other: nothing
  in the code orders two of them.
  `critical_section_enter` does not fail. The wait port is external and modelled from
  its adapters: a signal reaches one sleeper and is lost when nobody sleeps,
  `cancel_all` wakes all, a wait may end without either, and it returns `TIMEOUT` at
  the deadline. A task waits with its own waiter and resets it before its next call of
  any kind, which no other task can notice. An element of a queue is the name of the
  task that pushed it; a slot that was popped holds `None`, so that reading it again
  would be noticed. Fields `held`, `lost`, `stop` and `status` are history, or results
  that callers keep.
- *Buffers, pool, fixed queue.* Pointers and their overlap checks are left out; a
  lease, a loan or a writer is identified by its holder. A frame is the sequence
  number that it will be published under, or 0 while it is incomplete.

## 3. Runs, bounds and results

| Run | Instance | What it shows |
|---|---|---|
| `fifo_spsc` | 4 bytes, 2 byte values, sizes 0–2, one load | `WriteNeverOverwritesUnread`, `ReadOnlyPublished`, `ImplementsByteQueue`, `BothKeepSucceeding` in every interleaving |
| `fifo_reload` | the same ring, two loads | *violation*: unread data is overwritten (finding 1) |
| `scheduler_loop` | 0–3 tasks, tick counter modulo 6, counters up to 2, two error codes, real gaps up to 7, clock up to 7 | `TimeConserved`, `WrapInvisible`, `ErrorsWithinRuns`, `RoundInOrder`, `RoundServesDue`, `FirstErrorReported`, `StatsAlwaysFound` |
| `scheduler_live` | an urgent fast and a less urgent slow task, failing callbacks | `NoTaskStarves` |
| `slot_sort` | all tables of up to 5 tasks, 3 priorities | the sort ends, and in the one order `SlotOrder` defines |
| `status_service` | 4 sources, 3 slots, 2 faults | `QueriesAgree`, `ImplementsStatusBoard` |
| `command` | all tables of up to 2 groups of up to 2 commands with repeated and invalid entries, one group too many; sequence modulo 4 | `ExactlySoundRegistriesAccepted`, `PollNoticesEveryExecution` |
| `parameter_edit` | 6-bit integers, floats with 3-bit significands whose range is a float | `DraftStaysCommittable`, `AdjustmentIsExact`, `StepStaysScalable` |
| `parameter_float_step` | floats whose range is not a float | *violation*: a step that can never be scaled again (finding 2) |
| `menu` | four devices: two menus over one parameter and a command that asks for confirmation; one menu with two groups, a page, an integer, a switch and both kinds of commands, owner values in and out of range; one menu while time passes, modulo 8, with feedback of length 2; nine configurations that break one rule each | `ImplementsEditors`, `CommandRunsAsConfirmed`, `TargetMatchesState`, `DraftCommittable`, `ViewShowsSelection`, `FeedbackTimely` |
| `objects` | each object of section 2 by itself: two tasks and a controller around queue (2 slots), mutex, event group (2 bits, three kinds of wait) or count (up to 2); fixed queue of 2 with batches of 1–3; pool of 4; snapshot buffer with two users and 4 sequences; cascades of four pairs of controllers; eleven parameter registries | see below |
| `mutex_stop` | the mutex, two tasks and a controller | *violation*: two holders after stop and start (finding 3) |

Run `objects` checks, of the synchronisation objects, `WaiterTellsOutcome` (no path
out of a call leaves its waiter behind, CANCELLED means a stop), `StopCancelsWaiters`
(who slept through a stop does not succeed), `EveryCallReturns` (no lost wakeup,
restart or deinit keeps a call from ending), `ImplementsChannel` (the queue, and
`fixed_queue`, lose, repeat, reorder and invent nothing), `MutexLentOnce`,
`EventsConsumedOnce` and `CountInBounds`; and `FramesStayWhole`, `PoolBooksBalance`,
`ControllersInStep` and `OwnersServed` of the serial ones. The objects share one
specification because they never meet: its behaviours are the union of theirs.

**Why the bounds suffice.** Each modulus is small enough that every instance wraps
several times (ring indices, ticks, the command sequence, menu time), each limit is
reached and exceeded (a full ring, full status array, saturated statistics, a table
that is too long, one command too many, the last sequence of a snapshot, finite
numbers), and integers include both ends of their type. Two tasks of the scheduler
show order and ties; three exercise ties at the same period. Two menus show every
conflict, because the code never relates more than one menu to the owner. `MaxClock`
and `MaxGap` bound only the observer: they let the counter wrap and gaps exceed the
interpretable half. The bound on polling in `Command` is the width of the sequence. Two
tasks and a controller show each race of the synchronisation objects, which are
between a task and another task or the controller; that more tasks change nothing is
proved for what the waiters tell, for cancellation, the mutex and the count. `Batches`
of up to three elements exceed the queue, which holds two, by one. `Readings` include
values at which each product of a controller overflows.

**Fairness.** `Fifo!FairSpec`: weak fairness of each context and of init: calls do
not block, so a context that keeps calling gets on. Nothing is assumed about
success. `BothKeepSucceeding` holds because every write size and every read size
together are at most `StorageSize`; the library leaves that choice to its callers.
`SlotSort!FairSpec`: the sort runs on. `Scheduler!FairSpec`: the main loop
initializes the scheduler, calls `run` again and again and each callback returns
(the header forbids blocking), which is weak fairness of `RunStep` and strong
fairness of `RunBegin` as a main loop may call either function whenever it is idle;
and the caller samples a clock that moves on by an interval that can be interpreted
(`TimeMoves`, strong for the same reason). `Objects!Fairness`: a task inside a call is
scheduled again (weak fairness of its steps; nothing makes it begin a call), and its
deadline comes. The latter is strong fairness of `Timeout`, because a wait that ends
early begins again, with the same deadline; the adapters return `TIMEOUT` from then
on. `CHECK_DEADLOCK FALSE` is set for `slot_sort` only, because the sort ends.

**Findings.**
1. `mizu_fifo_used` names the peer's plain index twice (`mizu_fifo.c:33,36`). A build
   that loads it twice breaks the promise that a write does not overwrite unread
   data: a consumer that wraps in between makes `storage_size - 1 - used` wrap to a
   huge number. One load, which the first run assumes, is enough.
2. `mizu_parameter_scale_step` rounds the upper limit of a float step to float
   (`parameter.c:522`), but validates its input against the limit in double: for
   some ranges its own result is refused from then on.
3. `mutex_port_stop` (archive, `mutex_port.c:146`) looks at the lock outside the
   critical section: a task that takes it between that look and the store of STOPPED
   loses it at the next start, and a second task is given it. Within one period
   between two starts the mutex is sound (`MutexLentOnce`).

## 4. Proofs

All theorems are for every value of the constants that satisfies the named
assumptions of the modules, which TLC evaluates on the instances.

`Fifo_proofs` — under `~ReloadIndex`, for every storage size, byte set and set of
transfer sizes: `TypeCorrect` (`TypeOK`), `NothingOverwritten`
(`WriteNeverOverwritesUnread`) and `NothingReadEarly` (`ReadOnlyPublished`). The
properties are not inductive, because they say nothing of a call that has loaded an
index and not yet compared it. The inductive invariant adds `WriterKnows` and
`ReaderKnows`: the loaded index may be out of date, but the peer has only moved it in
the direction that makes more room (or more data), so what the call computes is a
lower bound; after admission the batch still fits. Distances round the ring are
`Distance`; the lemmas translate the remainder and the two loops of a copy into it.
`RingImplementsQueue` (`ImplementsByteQueue`) shows on top of that that the ring
refines `ByteQueue`: `CopiedSoFar` and `ReadSoFar` say what an unfinished call has done
— the slots behind `write_index` hold the batch so far, the output is the oldest bytes
so far — and survive the other context's steps because an admitted write touches no
unread slot. The store of `write_index` then appends the whole batch (`BytesAppended`),
the store of `read_index` removes exactly the output (`BytesTaken`), and every other
step is a stutter, an `Offer` or a `Refuse`.

`Scheduler_proofs` — for every set of tables, tick and counter width and error set:
`TypeCorrect` (`TypeOK`), `ErrorsNeverExceedRuns` (`ErrorsWithinRuns`) and
`TicksNeverOverflow`: `elapsed_ticks + delta` stays in `uint32_t`, which the code
relies on without a check. The invariant adds `RunningIsCounted`: while a callback
runs, its errors are strictly behind its runs or the runs have saturated — without
it the return of a failing callback could overtake. `AdvancedSlot` is the lemma on one
turn of the update loop: the remainder stays below the period.

On top of it, of what the observer records: `TimeIsConserved` (`TimeConserved`) and
`WrapIsInvisible` (`WrapInvisible`) keep one account per task, `Balanced`: advancing
splits `elapsed_ticks + delta` into a remainder and whole periods (`AdvancedBalances`),
executing moves a trigger from waiting to run (`ExecutedBalances`), and that a wrapped
difference of two samples is the real gap is the uniqueness of remainders
(`WrappedDistance`). `StatsAreFound` (`StatsAlwaysFound`): a sorted order has no
duplicates, so it holds every ID (`OrderIsOnto`). `RoundsAreInOrder` (`RoundInOrder`),
`RoundsServeDue` (`RoundServesDue`) and `FirstErrorIsReported` (`FirstErrorReported`):
`RoundInv` says of an unfinished round that the positions the scan has `Passed` hold no
trigger, that every callback entered stands at one of them, and that a task was due
when its trigger is still waiting or it was entered.

`SlotSort_proofs` — `SortIsCorrect` (`SortsSlots`), for every table of any length. The
invariant says where the heap order holds (`HeapInv`: from the slot that the first loop
has come to, except below the root that is being sifted), that what is below the sifted
root belongs below its parent too (`SiftInv`, without which a swap could break the order
above), and that each slot behind the heap follows all before it (`TailInv`). That the
root of a heap follows all its slots (`RootFollowsAll`) is shown with the least slot that
it does not follow. `OrderIsUnique`: there is one such order at most, so the one that
`Scheduler` picks from `Sorted` is the sort's.

`StatusService_proofs` — `QueriesAlwaysAgree` (`QueriesAgree`) and
`RecordsImplementBoard` (`ImplementsStatusBoard`), for every set of sources and number
of records. The invariant says that no two records have one source and that
`active_count` is the number of used ones; the search then finds *the* record of a
source (`FindFinds`, `FindUnique`), and the sources shown are as many as the records
used (a bijection). The refinement maps the records to the set of faults they show:
each report and clear is the step of the board on that set, and a full array is a full
board.

`Command_proofs` — `EveryExecutionNoticed` (`PollNoticesEveryExecution`), for every
registry and every width of the sequence. The invariant relates the snapshot's
sequence to the one the client saw: it is ahead by the executions since then, around
the end of the type, and the client is less than a full turn behind. `ValidationIsExact`
(`ExactlySoundRegistriesAccepted`): `init` compares each group with the groups before
it and adds up lengths as it goes, the property speaks of the whole table. The running
total in front of a group is the number of positions before it, counted as a finite
disjoint union, so that a table is too long exactly if it is so at some group; and of
two commands with one ID, the later one is found by the search through the earlier.

`ParameterEdit_proofs` — for every precision of floats, every width of integers and
every descriptor of `Typed` fields: `DraftsStayCommittable` (`DraftStaysCommittable`),
`AdjustmentsAreExact` (`AdjustmentIsExact`) and, where the width of a float range is
itself a float (`SpanIsFloat`), `StepsStayScalable` (`StepStaysScalable`); that it has to
be is finding 2. The two facts about rounding: it does not cross a float, because
the unit of a larger number is a multiple of the unit of a smaller one, so a value
between the bounds of a range stays between them; and what it returns is a float.
Powers of two are a recursive function, of which existence, uniqueness and
monotonicity are shown with the least counterexample. A step that is scaled up and
down again need not come back, but it stays in its limits. `AdjustmentMoves`, for
the calls by ID: an adjustment that changes a value changes it in the direction of
its count, whatever rounding and clamping do.

`Menu_proofs` — for every accepted configuration, number of menus and amount in an
event. `HandlersFindTheirTarget` (`TargetMatchesState`) and `CommandsRunAsConfirmed`
(`CommandRunsAsConfirmed`): the invariant keeps, of each menu, that `init` has
accepted its configuration, that its indices are in it, and what kind of target each
state stands on. `MoveStaysInside` is the arithmetic of the cyclic move; `SoundRoot`
is what the validation of `init` has established about a root; `PlaceKept` covers the
events that change the state or the draft, but not the place. `FeedbacksAreTimely`
(`FeedbackTimely`): the time since the deadline is the time shown less the duration,
apart from whole turns of the clock (`Timed`), and remainders are unique.
`ViewsShowSelection` (`ViewShowsSelection`) divides the list into pages.

`DraftsCanBeCommitted` (`DraftCommittable`), again for `SpanIsFloat` ranges: `DraftInv`
says that draft and base are in range and that steps, also those that a menu keeps
while nobody edits, can be scaled — the property speaks of the draft alone, but it
is the kept step that a later session starts with. `MenusImplementEditors`
(`ImplementsEditors`): the abstract session of a menu is the parameter and the value
that it began or started over with; an event changes the session of one menu and
writes at most its own parameter, which the lemmas `Begins`, `Commits`, `StartsOver`,
`Abandons` and `KeepsSession` match with the steps of `Editors`. The values
of the abstract editors are those that the owners can hold, so `ValuesAssumption` says
that they can hold, besides others, every value in range.

`Objects_proofs` — for every number of tasks and every capacity. `MutexIsLentOnce`
(`MutexLentOnce`): the invariant says that the one holder is the owner named in the
fields or that they name nobody, which reset and start may cause under a straggler.
`CountStaysInBounds` (`CountInBounds`). `FramesAreWhole` (`FramesStayWhole`): the
invariant adds that the writer's slot is neither the active one nor on loan, and whose
lease is registered where. `BooksAlwaysBalance` (`PoolBooksBalance`): the scan for the
next free slot finds the least one (`NextFreeIsNext`). `ControllersStayInStep`
(`ControllersInStep`): each of the two is a `Controller`, with an accepted configuration,
an integral and an output that are zero or within its limits and a finite measurement;
no intermediate result of a computation but is a number, finite or not (`NumbersStay`),
and limiting turns it into one within the limits.

Of the blocking calls: `WaitersTellOutcome` (`WaiterTellsOutcome`) and
`SleepersAreCancelled` (`StopCancelsWaiters`), at all four synchronisation objects and for any number of
tasks. A step of any of them either stores the lifecycle state or moves each call in
one of the few ways that `Move` lists; `…Moves` show this of each object, `MoveKeepsSound`
that every such move keeps `Sound`. The strengthening says where a call that slept
through a stop can be before it looks at the state again, which it does before it
tries: the mutex does not, and is exempt from the second theorem.
`EventsAreConsumedOnce` (`EventsConsumedOnce`) needs to know that a call that waits for
bits is one that can sleep (`Fits`), and that a lifecycle store shortens what the
controller has yet to store, so that it is never mistaken for a task's step.

`QueuesAreChannels` (`ImplementsChannel`): both rings hold a `Window`, `size` slots from
the head on, wherever it wraps. Writing behind a window lengthens it at its end
(`WindowGrows`), because different distances from a slot lead to different slots
(`PlacesDiffer`), and moving the head takes its beginning off (`WindowShrinks`); both ways
of the code to go round a ring are the same (`RoundTheRing`). In `queue_port` the window is
in order (`Filled`) except between the stores of the head and of the size with which
it is emptied. The invariant says that these two stores are planned as a pair
(`Paired`) and that a call asks for what it will still find (`Asks`); what a pop
gets between them is nothing of the channel's, and it takes none (`PoppedCall`). The
elements that a call has taken stay its own until it asks anew (`CallsGoOn`).
`RequestAssumption` and `BatchesAssumption` say that no request is the value `None` and
that batches are sequences of elements.

`OwnersAreServed` (`OwnersServed`): that `init` finds no ID among the earlier ones makes
positions with one ID equal, so the first one that a search meets is the parameter
itself (`EarlierIdIsFound`, `FindFinds`), and the three lookups of an adjustment reach
one owner. `ParameterInv` keeps that registry, and that the owner of a FLOAT holds a
float: only from one does rounding never step back. `ParameterAssumption` says the same
of the values that owners give themselves, which in C the type of the variable
ensures, and that parameters with one owner have one type; an owner stands for a
getter, a setter and a context. `SameArithmetic` carries the lemmas on values over to
the instance of the service.

**Only model-checked:** liveness (`BothKeepSucceeding`, `NoTaskStarves`,
`SortTerminates`, `EveryCallReturns`), as fairness and ENABLED are out of the prover's
reach. The other properties of the passing runs all have a theorem.

## 5. Not modelled, and what is left

- The archive's codecs (`byte_order`, `cobs`, `crc`, `ieee754_byte_order`) are sequential
  functions of bytes: a model would repeat them bit by bit, and tests on vectors reach
  more. Its filters (`first_order_filter`, `moving_average`, `rate_limiter`, `deadband`,
  `hysteresis`, `numeric`) are floating-point arithmetic with one value of state, out of
  TLC's reach as arithmetic. `tick32` is a subtraction, `time_port` forwards to a clock.
  Its `pid` and `cascaded_pid` are earlier forms of the libraries that are modelled.
- `mizu_status` is an enumeration. Build files, tests, tools and documents have no
  behaviour of the program.
- Null pointers, pointer overlap, titles, names and units are left out everywhere.
- The rounding of single-precision arithmetic in `pid` is not modelled.
- A wait port that returns other errors, and a critical section that fails to enter,
  are left out: the code passes their status on.

Worth doing next, by importance: a run for the BOOL parameters of one value (section 2,
Parameter); three tasks at the event group with symmetry.
