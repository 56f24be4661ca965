----------------------------- MODULE FifoQueue -----------------------------
(***************************************************************************)
(* What a queue with one enqueuing thread promises: the elements, numbered *)
(* in the order of their enqueues, leave in that order, and each leaves    *)
(* once.  ImplicitProducer, ExplicitProducer and ReaderWriterQueue         *)
(* implement it.                                                           *)
(***************************************************************************)
EXTENDS Sequences, Naturals

VARIABLES queue, last

Init == queue = <<>> /\ last = 0

Put == last' = last + 1 /\ queue' = Append(queue, last')

\* Several at once: dequeue_bulk.
Get == /\ \E n \in 1..Len(queue) : queue' = SubSeq(queue, n + 1, Len(queue))
       /\ UNCHANGED last

Spec == Init /\ [][Put \/ Get]_<<queue, last>>
=============================================================================
