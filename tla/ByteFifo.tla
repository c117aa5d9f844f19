------------------------------ MODULE ByteFifo ------------------------------
(***************************************************************************)
(* What a kernel input buffer promises: a bounded queue of bytes.  While   *)
(* the interrupt handler has a byte to store, <<byte>> is the offer, and   *)
(* only then does the queue grow; it shrinks only when there is no offer.  *)
(* A byte that finds the queue full is refused, and `refused` remembers    *)
(* that one was; the bytes accepted leave in the order they came.          *)
(***************************************************************************)
EXTENDS Naturals, Sequences

CONSTANT Capacity

VARIABLES queue, refused, offer

vars == <<queue, refused, offer>>

Init == queue = <<>> /\ refused = FALSE /\ offer = <<>>

Accept ==
    /\ offer # <<>> /\ Len(queue) < Capacity
    /\ queue' = Append(queue, offer[1])
    /\ UNCHANGED refused

Refuse ==
    /\ offer # <<>> /\ Len(queue) = Capacity
    /\ refused' = TRUE
    /\ UNCHANGED queue

Get ==
    /\ offer = <<>>
    /\ \E n \in 1 .. Len(queue) : queue' = SubSeq(queue, n + 1, Len(queue))
    /\ UNCHANGED <<refused, offer>>

\* A handler begins or ends, or a byte reaches it.
Change == UNCHANGED <<queue, refused>>

Next == Accept \/ Refuse \/ Get \/ Change

Spec == Init /\ [][Next]_vars
=============================================================================
