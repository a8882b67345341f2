------------------------------- MODULE Editors -------------------------------
(***************************************************************************)
(* What the menus promise the owners of the parameters: each menu edits at *)
(* most one parameter at a time, and it writes a parameter only while the  *)
(* parameter still has the value its editing session is based on.  When    *)
(* somebody else has changed it, the session starts over from the new      *)
(* value instead of overwriting it.                                        *)
(***************************************************************************)
CONSTANTS Menu, Parameter, Value, None

VARIABLES
    values,     \* the owners' values
    session     \* of each menu: the parameter and the base value, or None

vars == <<values, session>>

Init == values \in [Parameter -> Value] /\ session = [m \in Menu |-> None]

\* An owner, a command handler or another client of the parameter service.
OtherWrite == /\ \E p \in Parameter, v \in Value : values' = [values EXCEPT ![p] = v]
              /\ UNCHANGED session

Begin(m, p) == /\ session[m] = None
               /\ session' = [session EXCEPT ![m] = [parameter |-> p, base |-> values[p]]]
               /\ UNCHANGED values

Abandon(m) == /\ session' = [session EXCEPT ![m] = None]
              /\ UNCHANGED values

Commit(m, v) == /\ session[m] # None
                /\ session[m].base = values[session[m].parameter]
                /\ values' = [values EXCEPT ![session[m].parameter] = v]
                /\ session' = [session EXCEPT ![m] = None]

StartOver(m) == /\ session[m] # None
                /\ session[m].base # values[session[m].parameter]
                /\ session' = [session EXCEPT ![m].base = values[session[m].parameter]]
                /\ UNCHANGED values

Next == \/ OtherWrite
        \/ \E m \in Menu :
              \/ \E p \in Parameter : Begin(m, p)
              \/ Abandon(m)
              \/ \E v \in Value : Commit(m, v)
              \/ StartOver(m)

Spec == Init /\ [][Next]_vars
=============================================================================
