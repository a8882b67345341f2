--------------------------- MODULE ParameterValue ---------------------------
(***************************************************************************)
(* The stateless arithmetic of services/parameter: range and step checks,  *)
(* mizu_parameter_adjust_value and mizu_parameter_scale_step.              *)
(*                                                                         *)
(* Values are integers.  A BOOL is 0 or 1.  A FLOAT counts units of some   *)
(* smallest quantity: an integer is a float when it fits a significand of  *)
(* Precision bits, and a double holds every integer exactly, which is the  *)
(* difference between the two formats that the code depends on.            *)
(***************************************************************************)
EXTENDS Integers

CONSTANTS
    IntMax,         \* INT32_MAX
    Precision,      \* bits of a float's significand, 24
    FloatMax        \* FLT_MAX

ASSUME IntMaxAssumption == IntMax \in Nat \ {0}
ASSUME PrecisionAssumption == Precision \in Nat \ {0}

ValueType == {"FLOAT", "INT32", "UINT32", "BOOL"}

(* A descriptor has a type, minimum, maximum, step, writable, and smallest, *)
(* the float step that its number of decimals can show.                    *)
Span(d) == d.maximum - d.minimum

-----------------------------------------------------------------------------
(* Conversion of a double to the nearest float, ties to even. *)
Magnitude(x) == IF x < 0 THEN -x ELSE x
Power[n \in Nat] == IF n = 0 THEN 1 ELSE 2 * Power[n - 1]    \* of two
UlpExponent(m) == CHOOSE k \in 0 .. m : /\ m < Power[Precision + k]
                                       /\ \A j \in 0 .. k - 1 : m >= Power[Precision + j]
RoundMagnitude(m) ==
    LET ulp == Power[UlpExponent(m)]
        down == m \div ulp
        up == \/ 2 * (m % ulp) > ulp
              \/ 2 * (m % ulp) = ulp /\ down % 2 = 1
    IN  ulp * (IF up THEN down + 1 ELSE down)
ToFloat(x) == IF x < 0 THEN -RoundMagnitude(-x) ELSE RoundMagnitude(x)
IsFloat(x) == ToFloat(x) = x
ASSUME FloatMaxAssumption == FloatMax \in Nat \ {0} /\ IsFloat(FloatMax)

(* What C's types say of the fields of a descriptor, and that a BOOL can   *)
(* have both values: nothing in the code demands that, and adjusting one   *)
(* that can have one value only leaves its range.                          *)
Typed(d) ==
    /\ d.type \in ValueType
    /\ d.minimum \in Int /\ d.maximum \in Int /\ d.step \in Int /\ d.smallest \in Nat \ {0}
    /\ d.type = "BOOL" => d.minimum = 0 /\ d.maximum = 1
    /\ d.type = "FLOAT" => /\ IsFloat(d.minimum) /\ IsFloat(d.maximum) /\ IsFloat(d.smallest)
                          /\ d.step <= FloatMax
SpanIsFloat(d) == d.type = "FLOAT" => IsFloat(Span(d))

Clamp(x, low, high) == IF x < low THEN low ELSE IF x > high THEN high ELSE x

-----------------------------------------------------------------------------
(* Plausible slips; nothing uses them. *)
AdjustUint32Wraps(d, value, step, count) ==
    Clamp((value + step * count) % (2 * (IntMax + 1)), d.minimum, d.maximum)
AdjustInt32Unclamped(d, value, step, count) == value + step * count
ScaledDownToZero(d, step) == step \div 10

-----------------------------------------------------------------------------
(* mizu_parameter_value_in_range *)
InRange(d, value) == d.minimum <= value /\ value <= d.maximum

(* mizu_parameter_validate_descriptor, from the range check on: the step   *)
(* must fit the range unless the range is a single value.  The float range *)
(* is computed in float.                                                   *)
DescriptorStatus(d) ==
    LET range == IF d.type = "FLOAT" THEN ToFloat(Span(d)) ELSE Span(d)
        badStep == CASE d.type = "BOOL"  -> d.step # 1
                     [] d.type = "FLOAT" -> d.step <= 0 \/ d.step < d.smallest
                                            \/ (d.minimum # d.maximum /\ d.step > range)
                     [] OTHER -> d.step <= 0 \/ (d.minimum # d.maximum /\ d.step > range)
    IN  IF d.minimum > d.maximum \/ badStep THEN "INVALID_ARGUMENT" ELSE "OK"

(* mizu_parameter_validate_runtime_step: the float range is a double here. *)
DoubleRange(d) == IF Span(d) > FloatMax THEN FloatMax ELSE Span(d)
RuntimeStepStatus(d, step) ==
    LET tooSmall == step <= 0 \/ (d.type = "FLOAT" /\ step < d.smallest)
        tooLarge == step > IF d.type = "FLOAT" THEN DoubleRange(d) ELSE Span(d)
    IN  IF d.type = "BOOL" THEN "INVALID_STATE"
        ELSE IF tooSmall \/ tooLarge THEN "INVALID_ARGUMENT" ELSE "OK"

(* mizu_parameter_adjust_float, _int32, _uint32 and _bool.  The 64-bit and *)
(* double intermediates cannot overflow.                                   *)
AdjustFloat(d, value, step, count) ==
    LET result == value + step * count
    IN  IF InRange(d, result) THEN ToFloat(result) ELSE Clamp(result, d.minimum, d.maximum)

AdjustInt32(d, value, step, count) == Clamp(value + step * count, d.minimum, d.maximum)

AdjustUint32(d, value, step, count) ==
    LET delta == step * Magnitude(count)
    IN  IF count < 0
        THEN IF delta >= value - d.minimum THEN d.minimum ELSE value - delta
        ELSE IF delta >= d.maximum - value THEN d.maximum ELSE value + delta

AdjustBool(d, value, step, count) ==
    IF count = 0 THEN value ELSE IF count > 0 THEN 1 ELSE 0

Adjusted(d, value, step, count) ==
    CASE d.type = "FLOAT"  -> AdjustFloat(d, value, step, count)
      [] d.type = "INT32"  -> AdjustInt32(d, value, step, count)
      [] d.type = "UINT32" -> AdjustUint32(d, value, step, count)
      [] d.type = "BOOL"   -> AdjustBool(d, value, step, count)

(* mizu_parameter_adjust_value; the caller's value is kept on failure.     *)
AdjustStatus(d, value, step) ==
    IF DescriptorStatus(d) # "OK" THEN DescriptorStatus(d)
    ELSE IF ~d.writable THEN "INVALID_STATE"
    ELSE IF ~InRange(d, value) THEN "OUT_OF_RANGE"
    ELSE IF step <= 0 THEN "INVALID_ARGUMENT"
    ELSE "OK"
AdjustValue(d, value, step, count) ==
    IF AdjustStatus(d, value, step) = "OK" THEN Adjusted(d, value, step, count) ELSE value

(* mizu_parameter_scale_step by direction -1, 0 or 1; the caller's step is *)
(* kept on failure.  A fraction of a unit is dropped by the float division. *)
ScaledDown(d, step) ==
    LET least == IF d.type = "FLOAT" THEN d.smallest ELSE 1
        tenth == IF d.type = "FLOAT" THEN ToFloat(step \div 10) ELSE step \div 10
    IN  IF tenth < least THEN least ELSE tenth

ScaledUp(d, step) ==
    LET most == CASE d.type = "FLOAT" -> DoubleRange(d)
                  [] d.type = "INT32" -> IF Span(d) > IntMax THEN IntMax ELSE Span(d)
                  [] OTHER            -> Span(d)
        larger == IF step * 10 > most THEN most ELSE step * 10
    IN  IF d.type = "FLOAT" THEN ToFloat(larger) ELSE larger

ScaleStatus(d, step) ==
    IF DescriptorStatus(d) # "OK" THEN DescriptorStatus(d)
    ELSE IF ~d.writable \/ d.type = "BOOL" \/ d.minimum = d.maximum THEN "INVALID_STATE"
    ELSE RuntimeStepStatus(d, step)
ScaleStep(d, step, direction) ==
    IF ScaleStatus(d, step) # "OK" \/ direction = 0 THEN step
    ELSE IF direction < 0 THEN ScaledDown(d, step) ELSE ScaledUp(d, step)
=============================================================================
