----------------------------- MODULE TickStream -----------------------------
(***************************************************************************)
(* What the tick FIFO between the tick calculation and the stepper         *)
(* interrupt promises: a bounded stream.  Ticks leave it in the order in   *)
(* which they entered it, each exactly once, and never more than Capacity  *)
(* of them are under way.  StepFifo is shown to implement it.              *)
(***************************************************************************)
EXTENDS Integers, Sequences

CONSTANTS
    Capacity,     \* how many ticks fit
    Batches       \* the tick sequences a producer may offer in one call

VARIABLES
    stream,       \* the ticks written and not yet read, oldest first
    received      \* the last batch the consumer took

vars == <<stream, received>>

Init == /\ stream = << >>
        /\ received = << >>

\* The producer appends a batch that fits.
Put(d) == /\ Len(stream) + Len(d) <= Capacity
          /\ stream' = stream \o d
          /\ UNCHANGED received

\* The consumer takes the n oldest ticks.
Get(n) == /\ n <= Len(stream)
          /\ received' = SubSeq(stream, 1, n)
          /\ stream' = SubSeq(stream, n + 1, Len(stream))

Next == \/ \E d \in Batches : Put(d)
        \/ \E n \in 1 .. Capacity : Get(n)

Spec == Init /\ [][Next]_vars
=============================================================================
