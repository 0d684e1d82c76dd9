---------------------------- MODULE BoundedFifo ----------------------------
(* What a user of SpscRingQueue relies on: a FIFO of at most Depth elements *)
(* that loses nothing, invents nothing and keeps the order.                 *)
EXTENDS Naturals, Sequences

CONSTANTS Values,  \* the elements that may be queued
          Depth    \* how many elements fit

VARIABLES fifo,    \* the elements accepted and not yet handed out
          got      \* every element handed out, in order

vars == <<fifo, got>>

Init == fifo = <<>> /\ got = <<>>

Accept(v) == /\ Len(fifo) < Depth
             /\ fifo' = Append(fifo, v)
             /\ got' = got

HandOut == /\ fifo # <<>>
           /\ got' = Append(got, Head(fifo))
           /\ fifo' = Tail(fifo)

Next == HandOut \/ \E v \in Values : Accept(v)

Spec == Init /\ [][Next]_vars
=============================================================================
