-------------------------- MODULE MCQueueProducers --------------------------
(* QueueProducers for TLC: threads are numbered and two of them collide. *)
EXTENDS QueueProducers, TLC

Hashes == [t \in Threads |-> t \div 2]
Elems == [t \in Threads |-> IF t = 1 THEN 2 ELSE 1]
Symmetry == Permutations(Consumers)
=============================================================================
