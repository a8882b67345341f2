------------------------------- MODULE Channel -------------------------------
(***************************************************************************)
(* What both queues of the archive promise: a bounded sequence of elements *)
(* that are taken once each, in the order in which they were put.  It can  *)
(* be cleared, and whoever takes elements keeps them until it hands them   *)
(* on.                                                                     *)
(***************************************************************************)
EXTENDS Naturals, Sequences

CONSTANTS Taker, Element, Capacity

VARIABLES
    content,    \* the elements in the channel, oldest first
    taken       \* of each taker: the elements it has taken and not handed on

vars == <<content, taken>>

Init == content = << >> /\ taken = [t \in Taker |-> << >>]

Put == /\ Len(content') \in Len(content) + 1 .. Capacity
       /\ SubSeq(content', 1, Len(content)) = content
       /\ \A i \in 1 .. Len(content') : content'[i] \in Element
       /\ UNCHANGED taken

Take(t) == \E n \in 1 .. Len(content) :
    /\ taken' = [taken EXCEPT ![t] = SubSeq(content, 1, n)]
    /\ content' = SubSeq(content, n + 1, Len(content))

HandOn(t) == taken' = [taken EXCEPT ![t] = << >>] /\ UNCHANGED content

Clear == content' = << >> /\ UNCHANGED taken

Next == Put \/ Clear \/ (\E t \in Taker : Take(t) \/ HandOn(t))

Spec == Init /\ [][Next]_vars
=============================================================================
