------------------------------ MODULE ByteQueue ------------------------------
(***************************************************************************)
(* What mizu_fifo promises its two users, without indices or storage: a    *)
(* bounded first-in first-out queue of bytes in which a write and a read   *)
(* each happen at once and in full, or not at all.                         *)
(***************************************************************************)
EXTENDS Naturals, Sequences

CONSTANTS Byte, Capacity

VARIABLES
    queue,      \* the bytes accepted and not yet read, oldest first
    offer,      \* the batch the producer is offering, << >> between calls
    received    \* the batch the consumer's last successful read returned

vars == <<queue, offer, received>>

Init == queue = << >> /\ offer = << >> /\ received = << >>

\* The producer enters a write call with a batch.
Offer == /\ offer = << >>
         /\ offer' \in Seq(Byte) \ {<< >>}
         /\ UNCHANGED <<queue, received>>

\* The batch is taken whole, and only when it fits.
Accept == /\ offer # << >>
          /\ Len(queue) + Len(offer) <= Capacity
          /\ queue' = queue \o offer
          /\ offer' = << >>
          /\ UNCHANGED received

\* The batch is turned down whole.
Refuse == /\ offer # << >>
          /\ offer' = << >>
          /\ UNCHANGED <<queue, received>>

\* The consumer gets the n oldest bytes, in order.
Take(n) == /\ n \in 1 .. Len(queue)
           /\ received' = SubSeq(queue, 1, n)
           /\ queue' = SubSeq(queue, n + 1, Len(queue))
           /\ UNCHANGED offer

Next == Offer \/ Accept \/ Refuse \/ \E n \in 1 .. Capacity : Take(n)

Spec == Init /\ [][Next]_vars
=============================================================================
