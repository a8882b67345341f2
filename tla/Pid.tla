--------------------------------- MODULE Pid ---------------------------------
(***************************************************************************)
(* libraries/pid: one step of a PID controller.  Numbers are integers: the *)
(* arithmetic is exact, quotients are rounded, and what leaves the range   *)
(* of finite floats is not finite any more, nor is anything computed from  *)
(* it.  NaN and the infinities are one value here, NotFinite.              *)
(***************************************************************************)
EXTENDS Integers

CONSTANT FloatLimit     \* FLT_MAX

NotFinite == FloatLimit + 1

-----------------------------------------------------------------------------
(* mizu_pid_is_finite, and operations that keep what is not finite. *)
Finite(x) == -FloatLimit <= x /\ x <= FloatLimit
Float(x) == IF Finite(x) THEN x ELSE NotFinite
Plus(x, y) == IF Finite(x) /\ Finite(y) THEN Float(x + y) ELSE NotFinite
Times(x, y) == IF Finite(x) /\ Finite(y) THEN Float(x * y) ELSE NotFinite
Quotient(x, y) == IF Finite(x) THEN x \div y ELSE NotFinite

(* mizu_pid_clamp *)
Limited(x, low, high) == IF x < low THEN low ELSE IF x > high THEN high ELSE x

(* mizu_pid_validate_config *)
ConfigStatus(c) ==
    IF \E field \in {"kp", "ki", "kd", "output_min", "output_max", "integral_min",
                     "integral_max", "tracking_gain"} : ~Finite(c[field])
    THEN "INVALID_DATA"
    ELSE IF c.output_min > c.output_max \/ c.integral_min > c.integral_max
            \/ c.tracking_gain < 0
         THEN "INVALID_ARGUMENT" ELSE "OK"

(* mizu_pid_init, which may be repeated *)
NewPid(config) == [config |-> config, integral |-> 0, previous_measurement |-> 0,
                   output |-> 0, history_valid |-> FALSE]

(* mizu_pid_check, of an initialised controller *)
Usable(pid) ==
    ConfigStatus(pid.config) = "OK" /\ Finite(pid.integral)
    /\ Finite(pid.previous_measurement) /\ Finite(pid.output)

(* mizu_pid_reset *)
ResetPid(pid, measurement) ==
    [pid EXCEPT !.integral = 0, !.previous_measurement = measurement, !.output = 0,
                !.history_valid = TRUE]

-----------------------------------------------------------------------------
(* mizu_pid_raw_output *)
RawOutput(c, error, integral, derivative) ==
    Plus(Plus(Times(c.kp, error), Times(c.ki, integral)), Times(c.kd, derivative))

(* The integral that conditional integration keeps when it would only push *)
(* the output further beyond its limit.                                    *)
Saturating(c, raw, error) ==
    /\ c.anti_windup = "CONDITIONAL"
    /\ \/ raw > c.output_max /\ c.ki * error > 0
       \/ raw < c.output_min /\ c.ki * error < 0

(* mizu_pid_calculate: the intermediate results, of which each must be     *)
(* finite, and the controller that is committed then.                      *)
Computed(pid, setpoint, measurement, dt) ==
    LET c == pid.config
        error == Plus(setpoint, -measurement)
        derivative == IF pid.history_valid
                      THEN Quotient(Plus(pid.previous_measurement, -measurement), dt) ELSE 0
        accumulated == Plus(pid.integral, Times(error, dt))
        candidate == Limited(accumulated, c.integral_min, c.integral_max)
        raw == RawOutput(c, error, candidate, derivative)
        kept == IF Saturating(c, raw, error) THEN pid.integral ELSE candidate
        keptRaw == RawOutput(c, error, kept, derivative)
        limited == Limited(keptRaw, c.output_min, c.output_max)
        corrected == IF c.anti_windup = "BACK_CALCULATION"
                     THEN Plus(kept, Times(Times(c.tracking_gain, Plus(limited, -keptRaw)), dt))
                     ELSE kept
        integral == IF c.anti_windup = "BACK_CALCULATION"
                    THEN Limited(corrected, c.integral_min, c.integral_max) ELSE kept
        final == RawOutput(c, error, integral, derivative)
    IN  [finite |-> \A x \in {error, derivative, accumulated, raw, keptRaw, corrected, final} :
                        Finite(x),
         pid |-> [pid EXCEPT
            !.integral = integral, !.previous_measurement = measurement, !.history_valid = TRUE,
            !.output = Limited(final, c.output_min, c.output_max)]]

InputSound(setpoint, measurement, dt) ==
    Finite(setpoint) /\ Finite(measurement) /\ Finite(dt) /\ dt > 0

CalculateStatus(pid, setpoint, measurement, dt) ==
    IF ~Usable(pid) THEN "INVALID_STATE"
    ELSE IF ~InputSound(setpoint, measurement, dt) THEN "INVALID_DATA"
    ELSE IF Computed(pid, setpoint, measurement, dt).finite THEN "OK" ELSE "OVERFLOW"
=============================================================================
