-------------------------- MODULE ConcurrentQueue --------------------------
(***************************************************************************)
(* The moodycamel::ConcurrentQueue the program uses between threads        *)
(* (external).  It keeps the order of each producer and none between       *)
(* producers: a dequeue may take the oldest element of any producer.  A    *)
(* queue is the sequence of its elements, each with the producer in "by".  *)
(* Modules ImplicitProducer and QueueProducers are how it keeps that.      *)
(***************************************************************************)
EXTENDS Sequences, Naturals
LOCAL INSTANCE SequencesExt

Enqueue(q, e) == Append(q, e)

\* The positions try_dequeue can take from.
Heads(q) == {j \in 1..Len(q) : \A k \in 1..(j - 1) : q[k].by # q[j].by}

Dequeue(q, j) == RemoveAt(q, j)
===========================================================================
