------------------------------ MODULE MCQueues ------------------------------
(***************************************************************************)
(* The three queues that implement FifoQueue, one per behaviour: kind says *)
(* which.  They share the counts pushed and taken.                         *)
(***************************************************************************)
EXTENDS ProducerBase, TLC

CONSTANTS ImplicitBulk, ExplicitSpan, ExplicitElements, ExplicitClaims,
          MAX_BLOCK_SIZE, MaxSizes, Memory, RWElements, Second, Deadlines

VARIABLES kind, blocking, maxSize, block, frontBlock, tailBlock, largestBlockSize, writer, reader,
          m_count, m_sema

Implicit == INSTANCE ImplicitProducer WITH MaxBulk <- ImplicitBulk
Explicit == INSTANCE ExplicitProducer WITH
              Span <- ExplicitSpan, MaxElements <- ExplicitElements, MaxClaims <- ExplicitClaims
RW == INSTANCE ReaderWriterQueue WITH MaxElements <- RWElements, written <- pushed

rw == <<blocking, maxSize, block, frontBlock, tailBlock, largestBlockSize, writer, reader,
        m_count, m_sema>>
producers == <<shared, memory, index, producer, consumer, claims>>

NoRW ==
  /\ blocking = FALSE /\ maxSize = 0
  /\ block = <<>> /\ frontBlock = 0 /\ tailBlock = 0 /\ largestBlockSize = 0
  /\ writer = RW!Idle /\ reader = RW!Idle
  /\ m_count = 0 /\ m_sema = 0
NoProducers ==
  BaseInit /\ emptied = <<>> /\ entries = <<>> /\ headers = <<>> /\ producer = Idle

Init ==
  \/ kind = "implicit" /\ Implicit!Init /\ NoRW
  \/ kind = "explicit" /\ Explicit!Init /\ NoRW
  \/ kind = "reader_writer" /\ NoProducers /\ RW!Init

Next ==
  \/ kind = "implicit" /\ Implicit!Next /\ UNCHANGED <<kind, rw>>
  \/ kind = "explicit" /\ Explicit!Next /\ UNCHANGED <<kind, rw>>
  \/ kind = "reader_writer" /\ RW!Next /\ UNCHANGED <<kind, producers>>

Spec == Init /\ [][Next]_<<vars, kind, rw>>

Same == Permutations(Consumers)

-----------------------------------------------------------------------------
\* The counters of ConcurrentQueue's producers and the semaphore of BlockingReaderWriterQueue
\* promise exactly the elements there are: a dequeue that came too late, or a wait that timed
\* out, takes back what it had claimed (concurrentqueue.h:2166-2245, 2461-2530,
\* atomicops.h:595-609).
CountsAgree ==
  /\ kind = "implicit" => Implicit!CountsAgree
  /\ kind = "explicit" => Explicit!CountsAgree
  /\ kind = "reader_writer" => RW!NoLostWakeup

\* Whoever may dequeue finds the block of its element, whatever the enqueuing thread does to
\* the index or to the ring (concurrentqueue.h:1929-1939, 2858, readerwriterqueue.h:272, 479).
LookupFinds ==
  /\ kind = "implicit" => Implicit!LookupFinds
  /\ kind = "explicit" => Explicit!LookupFinds
  /\ kind = "reader_writer" => RW!AssertionsHold

\* Whoever takes the n-th index, or the oldest element, reads the n-th element: none is lost,
\* read twice, or overwritten before it is read (concurrentqueue.h:2190-2205, 2474-2483,
\* readerwriterqueue.h:222-232).  It finds the block of that element first.
ReadsOwn ==
  /\ LookupFinds
  /\ kind = "implicit" => Implicit!ReadsOwn
  /\ kind = "explicit" => Explicit!ReadsOwn
  /\ kind = "reader_writer" => RW!ReadsOldest

\* A block is used again only when nobody reads from it (concurrentqueue.h:1503, 1524,
\* 2508-2520).
FreeUnused ==
  /\ kind = "implicit" => Implicit!FreeUnused
  /\ kind = "explicit" => Explicit!FlagsOnce

\* A producer's destructor finds every block it has to give back once, and destroys the
\* elements nobody dequeued and no others (concurrentqueue.h:1704-1755, 2341-2380).
DestructorExact ==
  /\ kind = "implicit" => Implicit!DestructorExact
  /\ kind = "explicit" => Explicit!DestructorExact

\* try_enqueue refuses an element only when the queue holds what its constructor was asked for
\* (readerwriterqueue.h:76-79).
HoldsMaxSize == kind = "reader_writer" => RW!HoldsMaxSize

Contents == CASE kind = "implicit" -> Implicit!Contents
              [] kind = "explicit" -> Explicit!Contents
              [] kind = "reader_writer" -> RW!Contents

Fifo == INSTANCE FifoQueue WITH queue <- Contents, last <- pushed

\* Each of them is a first-in, first-out queue: a step appends the newest element, removes the
\* oldest ones, or changes nothing (concurrentqueue.h:1769-2248, 2393-2530,
\* readerwriterqueue.h:205-528).
ImplementsFifo == Fifo!Spec
=============================================================================
