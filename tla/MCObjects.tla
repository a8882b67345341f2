------------------------------ MODULE MCObjects ------------------------------
EXTENDS Objects, Integers

WaitRequests == {[mask |-> {1, 2}, all |-> TRUE, clear |-> TRUE],
                 [mask |-> {1, 2}, all |-> FALSE, clear |-> FALSE],
                 [mask |-> {1}, all |-> FALSE, clear |-> TRUE]}
SetMasks == {{1}, {2}}
PushBatches == {<<"a">>, <<"b", "a">>, <<"b", "b", "a">>}

(* Gentle: nothing overflows.  Steep: the products overflow at large       *)
(* errors.  Tracking: back-calculation, with an integral that cannot be 0. *)
Gentle == [kp |-> 1, ki |-> 1, kd |-> 1, output_min |-> -2, output_max |-> 2,
           integral_min |-> -3, integral_max |-> 3, tracking_gain |-> 0,
           anti_windup |-> "CONDITIONAL"]
Steep == [Gentle EXCEPT !.kp = -3, !.ki = 4, !.output_max = 9]
Tracking == [Steep EXCEPT !.kp = 2, !.integral_min = 1, !.tracking_gain = 2,
                          !.anti_windup = "BACK_CALCULATION"]
Refused == [Gentle EXCEPT !.output_min = 3]
ControllerConfigs == {<<Gentle, Steep>>, <<Tracking, Gentle>>, <<Steep, Tracking>>, <<Gentle, Refused>>}
Values == {-4, 0, 3, 13}

(* Registries: sound ones, and such as repeat an ID within a group or over *)
(* two, are empty or too long, or hold what cannot be registered.          *)
Descriptor(id, context, type, low, high) ==
    [id |-> id, context |-> context, type |-> type, minimum |-> low, maximum |-> high,
     step |-> 1, smallest |-> 1, writable |-> TRUE]
Speed == Descriptor(1, "a", "INT32", -3, 2)
Limit == Descriptor(2, "b", "UINT32", 0, 3)
Switch == Descriptor(2, "b", "BOOL", 0, 1)
Gain == Descriptor(1, "a", "FLOAT", -8, 3)
Constant == Descriptor(3, "c", "INT32", 2, 2)
OwnerValues == [context \in {"a", "b", "c"} |-> {-1, 1, 2, 4}]
Counts == {-2, 0, 1, 9}
Group(id, parameters) == [id |-> id, valid |-> TRUE, parameters |-> parameters]
Tables ==
    {<<Group(1, <<Speed, Limit>>)>>,
     <<Group(1, <<Gain>>), Group(2, <<Switch, Constant>>)>>,
     <<Group(1, <<Speed>>), Group(2, <<[Limit EXCEPT !.id = 1]>>)>>,
     <<Group(1, <<Speed, [Limit EXCEPT !.id = 1]>>)>>,
     <<Group(1, <<Speed>>), Group(1, <<Limit>>)>>,
     <<Group(1, <<[Speed EXCEPT !.writable = FALSE]>>)>>,
     <<Group(1, <<[Speed EXCEPT !.step = 6]>>)>>,
     <<Group(1, << >>)>>,
     << >>,
     <<Group(1, <<Speed, Limit>>), Group(2, <<[Constant EXCEPT !.id = 4], Constant>>)>>,
     <<Group(1, <<Speed>>), Group(2, <<Limit>>), Group(3, <<Constant>>)>>}
=============================================================================
