----------------------------- MODULE StatusBoard -----------------------------
(***************************************************************************)
(* What mizu_status_service promises: a board with room for the current    *)
(* fault of Capacity sources.  A report is never dropped silently and      *)
(* never displaces the fault of another source.                            *)
(***************************************************************************)
EXTENDS Naturals, FiniteSets

CONSTANTS Source, Fault, Capacity

VARIABLES
    board,      \* the current fault of each source that has one
    result      \* what the last call returned

vars == <<board, result>>

Init == board = << >> /\ result = "OK"

Report(source, fault) ==
    \/ /\ source \in DOMAIN board \/ Cardinality(DOMAIN board) < Capacity
       /\ board' = [s \in DOMAIN board \cup {source} |->
                       IF s = source THEN fault ELSE board[s]]
       /\ result' = "OK"
    \/ /\ source \notin DOMAIN board /\ Cardinality(DOMAIN board) = Capacity
       /\ result' = "FULL"
       /\ UNCHANGED board

Clear(source) ==
    \/ /\ source \in DOMAIN board
       /\ board' = [s \in DOMAIN board \ {source} |-> board[s]]
       /\ result' = "OK"
    \/ /\ source \notin DOMAIN board
       /\ result' = "OUT_OF_RANGE"
       /\ UNCHANGED board

Reject(status) == result' = status /\ UNCHANGED board

Next ==
    \/ \E source \in Source, fault \in Fault : Report(source, fault)
    \/ \E source \in Source : Clear(source)
    \/ \E status \in {"OK", "NOT_INITIALIZED", "INVALID_STATE", "INVALID_ARGUMENT"} :
          Reject(status)

Spec == Init /\ [][Next]_vars
=============================================================================
