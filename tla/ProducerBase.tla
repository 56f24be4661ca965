---------------------------- MODULE ProducerBase ----------------------------
(***************************************************************************)
(* What the two kinds of producer of moodycamel::ConcurrentQueue           *)
(* (src/ext/MoodyCamel/concurrentqueue.h) share.  One thread enqueues and  *)
(* others dequeue.  Elements live in blocks of BlockSize slots; a circular *)
(* index, replaced by one of twice its size when full, finds the block of  *)
(* an element.                                                             *)
(*                                                                         *)
(* A step is one access to shared memory, sequentially consistent: what    *)
(* the relaxed orders of the code allow beyond that is not modelled.  The  *)
(* element of the n-th enqueue is n; pushed and taken count the elements   *)
(* published and the indices handed out, as the code's counters would      *)
(* without wrapping at Span.                                               *)
(***************************************************************************)
EXTENDS Integers, Sequences, FiniteSets

CONSTANTS BlockSize,    \* BLOCK_SIZE
          IndexSize,    \* IMPLICIT_INITIAL_INDEX_SIZE, EXPLICIT_INITIAL_INDEX_SIZE
          Span,         \* index_t counts modulo Span
          Pool,         \* blocks of the initial pool
          MaxBlocks,    \* blocks for which there is memory
          MaxIndex,     \* the largest index for which there is memory
          MaxElements,  \* bound on enqueues
          MaxClaims,    \* bound on the claims made by counting dequeueOptimisticCount up
          MaxBulk,      \* the largest max of a dequeue_bulk
          Consumers

\* Where a proper divisor is doubled it divides still.
PowerOfTwo(n) == \A d \in 1..(n \div 2) : n % d = 0 => n % (2 * d) = 0

\* The static_asserts: sizes are powers of two above 1, so that the smaller divide the larger.
ASSUME SizesAssumption ==
  /\ {BlockSize, IndexSize, Span} \subseteq Nat \ {0, 1}
  /\ BlockSize < Span \div 2
  /\ Span % BlockSize = 0
  /\ PowerOfTwo(Span \div BlockSize) /\ (Span \div BlockSize) % IndexSize = 0
  /\ Pool \in Nat /\ MaxBlocks \in Nat /\ Pool <= MaxBlocks
  /\ MaxIndex \in Nat /\ MaxIndex <= Span \div BlockSize

ASSUME BulkAssumption == MaxBulk \in Nat

VARIABLES tailIndex, headIndex, dequeueOptimisticCount, dequeueOvercommit,
          slots,      \* the elements of each block
          emptied,    \* elementsCompletelyDequeued or emptyFlags of each block
          blocks,     \* blocks that left the pool or were allocated
          freeList,
          entries,    \* the BlockIndexEntrys
          headers,    \* the BlockIndexHeaders; blockIndex is the last
          producer,   \* the enqueuing thread
          consumer,   \* the dequeuing threads
          pushed, taken, claims

shared == <<tailIndex, headIndex, dequeueOptimisticCount, dequeueOvercommit>>
memory == <<slots, emptied, blocks, freeList>>
index == <<entries, headers>>
vars == <<shared, memory, index, producer, consumer, pushed, taken, claims>>

NoBlock == 0
Blocks == 1..MaxBlocks

circular_less_than(a, b) == (a - b) % Span > Span \div 2

Base(i) == i - (i % BlockSize)

Least(a, b) == IF a < b THEN a ELSE b

Idle == [pc |-> "idle"]

BaseInit ==
  /\ tailIndex = 0 /\ headIndex = 0
  /\ dequeueOptimisticCount = 0 /\ dequeueOvercommit = 0
  /\ slots = [b \in Blocks |-> [s \in 0..(BlockSize - 1) |-> 0]]
  /\ blocks = 0
  /\ freeList = {}
  /\ consumer = [c \in Consumers |-> Idle]
  /\ pushed = 0 /\ taken = 0 /\ claims = 0

At(s) == producer.pc = s
Goto(s) == producer' = [producer EXCEPT !.pc = s]
In(c, s) == consumer[c].pc = s
Set(c, r) == consumer' = [consumer EXCEPT ![c] = r]

\* Bound: nobody sleeps over its index while half a span of others goes by.
Awake == \A c \in Consumers : "n" \in DOMAIN consumer[c] =>
           pushed + BlockSize - consumer[c].n < Span \div 2

\* requisition_block: from the initial pool, from the free list, or from the heap
Requisition(b) ==
  \/ /\ blocks < Pool
     /\ b = blocks + 1 /\ blocks' = b /\ UNCHANGED freeList
  \/ /\ blocks >= Pool
     /\ b \in freeList /\ freeList' = freeList \ {b} /\ UNCHANGED blocks
  \/ /\ blocks >= Pool /\ freeList = {} /\ blocks < MaxBlocks
     /\ b = blocks + 1 /\ blocks' = b /\ UNCHANGED freeList

NoMemory == blocks = MaxBlocks /\ freeList = {}
=============================================================================
