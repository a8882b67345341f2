----------------------------- MODULE MCScheduler -----------------------------
(***************************************************************************)
(* Configuration tables for model checking the scheduler.                  *)
(***************************************************************************)
EXTENDS SchedulerObserved

Entries(priorities, periods) ==
    [priority : priorities, period : periods, callback : {TRUE}]
TablesOf(n, priorities, periods) == [0 .. n - 1 -> Entries(priorities, periods)]

\* Tables that scheduler_validate_config refuses for one reason or two.
FaultyTables ==
    LET good == [priority |-> 0, period |-> 1, callback |-> TRUE]
        zero == [good EXCEPT !.period = 0]
        long == [good EXCEPT !.period = MaxInterval + 1]
        null == [good EXCEPT !.callback = FALSE]
    IN  [0 .. 1 -> {zero, long, null}] \cup [0 .. TaskLimit -> {good}]

\* None, one and two tasks with every period; three tasks of one period, of
\* which the first is not among the urgent ones.
MixedTables == TablesOf(0, {0}, {1}) \cup TablesOf(1, {0}, 1 .. MaxInterval)
               \cup TablesOf(2, {0, 1}, 1 .. MaxInterval) \cup {t \in TablesOf(3, {0, 1}, {2}) : t[0].priority = 1}
               \cup FaultyTables
=============================================================================
