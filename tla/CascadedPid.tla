----------------------------- MODULE CascadedPid -----------------------------
(***************************************************************************)
(* libraries/cascaded_pid: an outer PID whose output is the setpoint of an *)
(* inner one.  Both are copied, the copies are computed one after the      *)
(* other, and only when both have succeeded they replace the originals.    *)
(* Calls are serial; one that fails changes nothing.                       *)
(***************************************************************************)
EXTENDS Pid

CONSTANTS
    PidConfigs,     \* the pairs an owner passes to init, also some that are refused
    Readings,       \* setpoints and measurements, also what is not finite
    TimeSteps       \* dt

VARIABLES
    cascade,    \* mizu_cascaded_pid_t
    sample      \* history: the measurements of the last call that succeeded

NotInitialized == [initialized |-> FALSE]

-----------------------------------------------------------------------------
(* A plausible slip; nothing uses it. *)
CommittedOuterFirst(outer, inner, status) ==
    [cascade EXCEPT !.outer = outer, !.inner = IF status = "OK" THEN inner ELSE @]

-----------------------------------------------------------------------------
(* The commit of the copies, which follows the last return of a failure. *)
Committed(outer, inner, status) ==
    IF status = "OK" THEN [cascade EXCEPT !.outer = outer, !.inner = inner] ELSE cascade

(* mizu_cascaded_pid_init, which may be repeated *)
CascadeInit(outer, inner) ==
    /\ ConfigStatus(outer) = "OK" /\ ConfigStatus(inner) = "OK"
    /\ cascade' = [initialized |-> TRUE, outer |-> NewPid(outer), inner |-> NewPid(inner)]
    /\ sample' = << >>

(* mizu_cascaded_pid_reset *)
CascadeReset(outer, inner) ==
    /\ cascade.initialized
    /\ LET status == IF Usable(cascade.outer) /\ Finite(outer) /\ Usable(cascade.inner)
                        /\ Finite(inner) THEN "OK" ELSE "INVALID_DATA"
       IN  /\ cascade' = Committed(ResetPid(cascade.outer, outer),
                                   ResetPid(cascade.inner, inner), status)
           /\ sample' = IF status = "OK" THEN <<outer, inner>> ELSE sample

(* mizu_cascaded_pid_calculate; an outer failure returns before the inner  *)
(* controller is computed.                                                 *)
CalculateFailsOuter(setpoint, outer, dt) ==
    /\ cascade.initialized
    /\ CalculateStatus(cascade.outer, setpoint, outer, dt) # "OK"
    /\ UNCHANGED <<cascade, sample>>

Calculate(setpoint, outer, inner, dt) ==
    /\ cascade.initialized
    /\ CalculateStatus(cascade.outer, setpoint, outer, dt) = "OK"
    /\ LET outerPid == Computed(cascade.outer, setpoint, outer, dt).pid
           status == CalculateStatus(cascade.inner, outerPid.output, inner, dt)
           innerPid == IF status = "OK"
                       THEN Computed(cascade.inner, outerPid.output, inner, dt).pid
                       ELSE cascade.inner
       IN  /\ cascade' = Committed(outerPid, innerPid, status)
           /\ sample' = IF status = "OK" THEN <<outer, inner>> ELSE sample

Init == cascade = NotInitialized /\ sample = << >>

Next ==
    \/ \E configs \in PidConfigs : CascadeInit(configs[1], configs[2])
    \/ \E outer, inner \in Readings : CascadeReset(outer, inner)
    \/ \E setpoint, outer \in Readings, dt \in TimeSteps :
          \/ CalculateFailsOuter(setpoint, outer, dt)
          \/ \E inner \in Readings : Calculate(setpoint, outer, inner, dt)

Spec == Init /\ [][Next]_<<cascade, sample>>

-----------------------------------------------------------------------------
(* Both controllers have seen the same calls, although the inner one may   *)
(* fail after the outer one was computed: their histories are of the same  *)
(* sample.  And whatever was fed to them, no failure locks them: both stay *)
(* usable, with an integral and an output within their limits, unless they *)
(* are still the zero with which they began.                               *)
ControllersInStep ==
    cascade.initialized =>
        /\ cascade.outer.history_valid = (sample # << >>)
        /\ cascade.inner.history_valid = (sample # << >>)
        /\ sample # << >> =>
              sample = <<cascade.outer.previous_measurement, cascade.inner.previous_measurement>>
        /\ \A pid \in {cascade.outer, cascade.inner} :
              LET c == pid.config
              IN  /\ Usable(pid)
                  /\ pid.integral \in {0} \cup c.integral_min .. c.integral_max
                  /\ pid.output \in {0} \cup c.output_min .. c.output_max
=============================================================================
