--------------------------- MODULE MCParameterEdit ---------------------------
(***************************************************************************)
(* Descriptors for model checking: 6-bit integers and floats with a 3-bit  *)
(* significand, so that ranges meet the ends of the types and floats have  *)
(* gaps between them.                                                      *)
(***************************************************************************)
EXTENDS ParameterEdit

Descriptor(types, minima, maxima, steps, smallest) ==
    [type : types, minimum : minima, maximum : maxima, step : steps,
     smallest : smallest, writable : {TRUE}]

IntegerDescriptors ==
    Descriptor({"INT32"}, {-32, -5, 0}, {-5, 7, 31}, {1, 4, 31, 63}, {1})
    \cup Descriptor({"UINT32"}, {0, 3}, {3, 40, 63}, {1, 7, 60}, {1})
    \cup Descriptor({"BOOL"}, {0}, {1}, {1}, {1})

\* Ranges whose ends are floats and whose width is a float, too.
EvenFloatDescriptors ==
    {d \in Descriptor({"FLOAT"}, {0, -8, 4}, {8, 12, 24}, {1, 2, 5}, {1, 2}) :
        IsFloat(Span(d))}
AllDescriptors == IntegerDescriptors \cup EvenFloatDescriptors

\* Ranges whose ends are floats but whose width is not.
FloatDescriptors == Descriptor({"FLOAT"}, {-1, 1}, {8, 10}, {1, 2}, {1})
StepCounts == {-64, -3, -1, 0, 1, 3, 64}

=============================================================================
