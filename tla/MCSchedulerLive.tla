--------------------------- MODULE MCSchedulerLive ---------------------------
(***************************************************************************)
(* A fast urgent task next to a slow one: the instance for the liveness of *)
(* the scheduler.                                                          *)
(***************************************************************************)
EXTENDS Scheduler

Entry(priority, period) == [priority |-> priority, period |-> period, callback |-> TRUE]
LivenessTables == {[id \in 0 .. 1 |-> IF id = 0 THEN Entry(1, 2) ELSE Entry(0, 1)]}
=============================================================================
