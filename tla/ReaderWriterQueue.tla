------------------------- MODULE ReaderWriterQueue -------------------------
(***************************************************************************)
(* moodycamel::ReaderWriterQueue, BlockingReaderWriterQueue                *)
(* (src/ext/MoodyCamel/readerwriterqueue.h) and LightweightSemaphore       *)
(* (atomicops.h): one writer thread, one reader thread.  The repository    *)
(* ships them beside ConcurrentQueue; src/ does not use them yet.          *)
(*                                                                         *)
(* Elements live in a ring of blocks, each a circular buffer that is full  *)
(* with one slot left; the writer moves to the next block of the ring when *)
(* the reader is not in it, and otherwise inserts a new one.  A step makes *)
(* one access to what the other thread writes, sequentially consistent;    *)
(* what a thread alone writes (localTail, localFront, its own end of a     *)
(* block) it reads in the same step.  blocking says which class it is: the *)
(* second waits on a semaphore before it dequeues.                         *)
(***************************************************************************)
EXTENDS Integers, SequencesExt

CONSTANTS MAX_BLOCK_SIZE,
          MaxSizes,       \* what the constructor may be asked for
          Memory,         \* blocks for which there is memory, besides the constructor's
          MaxElements,    \* bound on enqueues
          Second,         \* nanoseconds in a second, scaled
          Deadlines       \* tv_nsec of a timed wait before it is brought into range

VARIABLES blocking, maxSize,
          block,          \* the blocks: front, tail, their copies, next, size, data
          frontBlock, tailBlock, largestBlockSize,
          writer, reader,
          m_count,        \* LightweightSemaphore
          m_sema,         \* count of the kernel's semaphore
          written, taken  \* elements enqueued and removed, ever

queue == <<block, frontBlock, tailBlock, largestBlockSize>>
sema == <<m_count, m_sema>>
vars == <<blocking, maxSize, queue, writer, reader, sema, written, taken>>

Idle == [pc |-> "idle"]

ceilToPow2(x) == Min({2^k : k \in 0..10} \cap (x..(2 * x)))

\* make_block and Block's constructor
make_block(size, next) ==
  [front |-> 0, localTail |-> 0, tail |-> 0, localFront |-> 0, next |-> next, size |-> size,
   data |-> [s \in 0..(size - 1) |-> 0]]

InitialSize == ceilToPow2(maxSize + 1)

\* Mutant: no spare block.
InitialBlockCountShort == IF InitialSize > MAX_BLOCK_SIZE * 2
                          THEN (maxSize + MAX_BLOCK_SIZE - 2) \div (MAX_BLOCK_SIZE - 1) ELSE 1

InitialBlockCount == IF InitialSize > MAX_BLOCK_SIZE * 2
                     THEN (maxSize + MAX_BLOCK_SIZE * 2 - 3) \div (MAX_BLOCK_SIZE - 1) ELSE 1

\* The constructor: one block, or a ring of the largest ones.
Init ==
  /\ blocking \in BOOLEAN
  /\ maxSize \in MaxSizes
  /\ largestBlockSize = IF InitialSize > MAX_BLOCK_SIZE * 2 THEN MAX_BLOCK_SIZE ELSE InitialSize
  /\ block = [b \in 1..InitialBlockCount |->
                make_block(largestBlockSize, (b % InitialBlockCount) + 1)]
  /\ frontBlock = 1 /\ tailBlock = 1
  /\ writer = Idle /\ reader = Idle
  /\ m_count = 0 /\ m_sema = 0
  /\ written = 0 /\ taken = 0

After(b, i) == (i + 1) % block[b].size

-----------------------------------------------------------------------------
(* inner_enqueue: try_enqueue may not allocate, enqueue may *)

Writes(r) == writer' = r
At(s) == writer.pc = s

\* The element is in: the blocking queue signals, the other returns.
Entered == IF blocking THEN [pc |-> "signal"] ELSE Idle

\* The tail block has room by the writer's copy of front, or by front itself.
inner_enqueue(canAlloc) ==
  LET b == block[tailBlock] IN
  /\ At("idle") /\ written < MaxElements
  /\ IF After(tailBlock, b.tail) # b.localFront THEN Writes([pc |-> "write"]) /\ UNCHANGED block
     ELSE /\ block' = [block EXCEPT ![tailBlock].localFront = b.front]
          /\ Writes(IF After(tailBlock, b.tail) # b.front THEN [pc |-> "write"]
                    ELSE [pc |-> "full", canAlloc |-> canAlloc, held |-> written - taken])
  /\ UNCHANGED <<blocking, maxSize, frontBlock, tailBlock, largestBlockSize, reader, sema,
                 written, taken>>

WriteElement ==
  /\ At("write")
  /\ block' = [block EXCEPT ![tailBlock].data[block[tailBlock].tail] = written + 1]
  /\ Writes([pc |-> "advance"])
  /\ UNCHANGED <<blocking, maxSize, frontBlock, tailBlock, largestBlockSize, reader, sema,
                 written, taken>>

AdvanceTail ==
  /\ At("advance")
  /\ block' = [block EXCEPT ![tailBlock].tail = After(tailBlock, block[tailBlock].tail)]
  /\ written' = written + 1
  /\ Writes(Entered)
  /\ UNCHANGED <<blocking, maxSize, frontBlock, tailBlock, largestBlockSize, reader, sema, taken>>

\* The next block of the ring is free unless the reader is in it.
TryNextBlock ==
  /\ At("full")
  /\ Writes(IF block[tailBlock].next # frontBlock THEN [pc |-> "next"]
            ELSE IF writer.canAlloc THEN [pc |-> "alloc"]
            ELSE [pc |-> "refused", held |-> writer.held])
  /\ UNCHANGED <<blocking, maxSize, queue, reader, sema, written, taken>>

Refused ==
  /\ At("refused")
  /\ Writes(Idle)
  /\ UNCHANGED <<blocking, maxSize, queue, reader, sema, written, taken>>

WriteNextBlock ==
  LET n == block[tailBlock].next IN
  /\ At("next")
  /\ block' = [block EXCEPT ![n].localFront = block[n].front,
                            ![n].data[block[n].tail] = written + 1]
  /\ Writes([pc |-> "advancenext", empty |-> block[n].front = block[n].tail])
  /\ UNCHANGED <<blocking, maxSize, frontBlock, tailBlock, largestBlockSize, reader, sema,
                 written, taken>>

AdvanceNextTail ==
  LET n == block[tailBlock].next IN
  /\ At("advancenext")
  /\ block' = [block EXCEPT ![n].tail = After(n, block[n].tail)]
  /\ written' = written + 1
  /\ Writes([pc |-> "settail"])
  /\ UNCHANGED <<blocking, maxSize, frontBlock, tailBlock, largestBlockSize, reader, sema, taken>>

NewBlockSize == IF largestBlockSize >= MAX_BLOCK_SIZE THEN largestBlockSize
                ELSE largestBlockSize * 2

\* A new block, with the element in it, nobody else knows yet; without memory enqueue fails.
AllocBlock ==
  /\ At("alloc")
  /\ IF Len(block) = InitialBlockCount + Memory
     THEN Writes(Idle) /\ UNCHANGED <<block, largestBlockSize>>
     ELSE /\ largestBlockSize' = NewBlockSize
          /\ block' = Append(block, [make_block(NewBlockSize, block[tailBlock].next)
                        EXCEPT !.data[0] = written + 1, !.tail = 1, !.localTail = 1])
          /\ Writes([pc |-> "link"])
  /\ UNCHANGED <<blocking, maxSize, frontBlock, tailBlock, reader, sema, written, taken>>

LinkBlock ==
  /\ At("link")
  /\ block' = [block EXCEPT ![tailBlock].next = Len(block)]
  /\ written' = written + 1
  /\ Writes([pc |-> "settail"])
  /\ UNCHANGED <<blocking, maxSize, frontBlock, tailBlock, largestBlockSize, reader, sema, taken>>

\* The reader may go to the next block from here on.
SetTailBlock ==
  /\ At("settail")
  /\ tailBlock' = block[tailBlock].next
  /\ Writes(Entered)
  /\ UNCHANGED <<blocking, maxSize, block, frontBlock, largestBlockSize, reader, sema, written,
                 taken>>

try_enqueue == inner_enqueue(FALSE)
enqueue == inner_enqueue(TRUE)

Enqueue == \/ try_enqueue \/ enqueue
           \/ WriteElement \/ AdvanceTail \/ TryNextBlock \/ Refused \/ WriteNextBlock
           \/ AdvanceNextTail \/ AllocBlock \/ LinkBlock \/ SetTailBlock

-----------------------------------------------------------------------------
(* try_dequeue, pop and peek of the inner queue *)

Reads(r) == reader' = r
In(s) == reader.pc = s

Unread == UNCHANGED <<blocking, maxSize, frontBlock, tailBlock, largestBlockSize, writer, sema,
                      written, taken>>

\* From the front block if it has an element by the reader's copy of tail, or by tail itself.
Inner(op) ==
  LET b == block[frontBlock] IN
  IF b.front # b.localTail THEN Reads([pc |-> "read", op |-> op]) /\ UNCHANGED block
  ELSE /\ block' = [block EXCEPT ![frontBlock].localTail = b.tail]
       /\ Reads([pc |-> IF b.front # b.tail THEN "read" ELSE "last", op |-> op])

\* Mutant: the front block is not looked at again.
LoadTailBlockOnce ==
  /\ In("last")
  /\ Reads(IF frontBlock = tailBlock THEN [pc |-> "none", op |-> reader.op]
           ELSE [reader EXCEPT !.pc = "next"])
  /\ UNCHANGED block /\ Unread

\* An empty front block that is the tail block too: there is nothing.
LoadTailBlock ==
  /\ In("last")
  /\ Reads(IF frontBlock = tailBlock THEN [pc |-> "none", op |-> reader.op]
           ELSE [reader EXCEPT !.pc = "again"])
  /\ UNCHANGED block /\ Unread

\* The writer may have filled the front block before it moved on.
LookAgain ==
  LET b == block[frontBlock] IN
  /\ In("again")
  /\ block' = [block EXCEPT ![frontBlock].localTail = b.tail]
  /\ Reads([reader EXCEPT !.pc = IF b.front # b.tail THEN "read" ELSE "next"])
  /\ Unread

LoadNext ==
  /\ In("next")
  /\ Reads([pc |-> "nexttail", op |-> reader.op, next |-> block[frontBlock].next])
  /\ UNCHANGED block /\ Unread

\* peek leaves the reader where it is and does not write localTail.
LoadNextTail ==
  LET b == block[reader.next] IN
  /\ In("nexttail")
  /\ IF reader.op = "peek"
     THEN UNCHANGED block
     ELSE block' = [block EXCEPT ![reader.next].localTail = b.tail]
  /\ Reads([reader EXCEPT !.pc = IF reader.op = "peek" THEN "peeknext" ELSE "move"])
  /\ Unread

PeekNext ==
  /\ In("peeknext")
  /\ Reads([pc |-> "done", op |-> "peek", element |-> block[reader.next].data[block[reader.next].front]])
  /\ UNCHANGED block /\ Unread

\* The writer may use the old block from here on.
MoveFrontBlock ==
  /\ In("move")
  /\ frontBlock' = reader.next
  /\ Reads([pc |-> "read", op |-> reader.op])
  /\ UNCHANGED <<blocking, maxSize, block, tailBlock, largestBlockSize, writer, sema, written, taken>>

\* The element is moved out, destroyed, or pointed at.
ReadElement ==
  /\ In("read")
  /\ Reads([pc |-> IF reader.op = "peek" THEN "done" ELSE "remove", op |-> reader.op,
            element |-> block[frontBlock].data[block[frontBlock].front]])
  /\ UNCHANGED block /\ Unread

AdvanceFront ==
  /\ In("remove")
  /\ block' = [block EXCEPT ![frontBlock].front = After(frontBlock, @)]
  /\ taken' = taken + 1
  /\ Reads(Idle)
  /\ UNCHANGED <<blocking, maxSize, frontBlock, tailBlock, largestBlockSize, writer, sema, written>>

Return ==
  /\ reader.pc \in {"none", "done"}
  /\ Reads(Idle)
  /\ UNCHANGED block /\ Unread

\* The blocking queue has a peek of its own that is just this one, and no try_dequeue or pop
\* without the semaphore.
try_dequeue == In("idle") /\ ~blocking /\ Inner("try_dequeue") /\ Unread
pop == In("idle") /\ ~blocking /\ Inner("pop") /\ Unread
peek == In("idle") /\ Inner("peek") /\ Unread

Dequeue ==
  \/ try_dequeue \/ pop \/ peek
  \/ LoadTailBlock \/ LookAgain \/ LoadNext \/ LoadNextTail \/ PeekNext \/ MoveFrontBlock
  \/ ReadElement \/ AdvanceFront \/ Return

-----------------------------------------------------------------------------
(* LightweightSemaphore, and the dequeues of BlockingReaderWriterQueue *)

Unsignalled == UNCHANGED <<blocking, maxSize, queue, reader, written, taken>>

\* signal, after an enqueue: a count below zero is a reader in the kernel
Signal ==
  /\ At("signal")
  /\ m_count' = m_count + 1
  /\ Writes(IF m_count < 0 THEN [pc |-> "post"] ELSE Idle)
  /\ UNCHANGED m_sema /\ Unsignalled

Post ==
  /\ At("post")
  /\ m_sema' = m_sema + 1
  /\ Writes(Idle)
  /\ UNCHANGED m_count /\ Unsignalled

Unwaited == UNCHANGED <<blocking, maxSize, frontBlock, tailBlock, largestBlockSize, writer,
                        written, taken>>

\* tryWait, also in the spinning loop; a try_dequeue and a pop give up, the others spin.
tryWait(op) ==
  /\ In("idle") /\ blocking
  /\ Reads(IF m_count > 0 THEN [pc |-> "acquire", op |-> op]
           ELSE IF op \in {"try_dequeue", "pop"} THEN Idle
           ELSE [pc |-> "spin", op |-> op])
  /\ UNCHANGED <<block, sema>> /\ Unwaited

Spin ==
  /\ In("spin") /\ m_count > 0
  /\ Reads([reader EXCEPT !.pc = "acquire"])
  /\ UNCHANGED <<block, sema>> /\ Unwaited

Acquire ==
  /\ In("acquire")
  /\ m_count' = m_count - 1
  /\ Inner(reader.op)
  /\ UNCHANGED m_sema /\ Unwaited

\* Enough spinning: the count is taken anyway, and without one the reader goes to sleep.
Decrement ==
  /\ In("spin")
  /\ m_count' = m_count - 1
  /\ IF m_count > 0 THEN Inner(reader.op)
     ELSE Reads([reader EXCEPT !.pc = "sleep"]) /\ UNCHANGED block
  /\ UNCHANGED m_sema /\ Unwaited

Wake ==
  /\ In("sleep") /\ m_sema > 0
  /\ m_sema' = m_sema - 1
  /\ Inner(reader.op)
  /\ UNCHANGED m_count /\ Unwaited

\* timed_wait brings tv_nsec into range, and takes every error but ETIMEDOUT for success.
InRange(nsec) == (IF nsec > Second THEN nsec - Second ELSE nsec) < Second

TimeOut ==
  /\ In("sleep") /\ reader.op = "timed" /\ m_sema = 0
  /\ \E nsec \in Deadlines :
       IF InRange(nsec) THEN Reads([reader EXCEPT !.pc = "restore"]) /\ UNCHANGED block
       ELSE Inner(reader.op)
  /\ UNCHANGED sema /\ Unwaited

\* Mutant: a count that was signalled meanwhile is left alone.
RestoreLeaves ==
  /\ In("restore")
  /\ m_count' = m_count + 1
  /\ Reads(Idle)
  /\ UNCHANGED <<block, m_sema>> /\ Unwaited

\* The count goes back; if the writer signalled meanwhile its post is to be waited for.
Restore ==
  /\ In("restore")
  /\ m_count' = m_count + 1
  /\ Reads(IF m_count < 0 THEN Idle ELSE [reader EXCEPT !.pc = "retry"])
  /\ UNCHANGED <<block, m_sema>> /\ Unwaited

Retry ==
  /\ In("retry")
  /\ m_count' = m_count - 1
  /\ Reads([reader EXCEPT !.pc = IF m_count > 0 THEN "try_wait" ELSE "restore"])
  /\ UNCHANGED <<block, m_sema>> /\ Unwaited

TryWaitKernel ==
  /\ In("try_wait")
  /\ IF m_sema > 0
     THEN m_sema' = m_sema - 1 /\ Inner(reader.op)
     ELSE Reads([reader EXCEPT !.pc = "restore"]) /\ UNCHANGED <<m_sema, block>>
  /\ UNCHANGED m_count /\ Unwaited

wait_dequeue == tryWait("wait")
wait_dequeue_timed == tryWait("timed")
blocking_try_dequeue == tryWait("try_dequeue")
blocking_pop == tryWait("pop")

Semaphore ==
  \/ Signal \/ Post
  \/ wait_dequeue \/ wait_dequeue_timed \/ blocking_try_dequeue \/ blocking_pop
  \/ Spin \/ Acquire \/ Decrement \/ Wake \/ TimeOut \/ Restore \/ Retry \/ TryWaitKernel

Next == Enqueue \/ Dequeue \/ Semaphore

Spec == Init /\ [][Next]_vars

-----------------------------------------------------------------------------
\* The elements of a block, from front to tail.
InBlock(b) == [k \in 1..((block[b].tail - block[b].front) % block[b].size) |->
                 block[b].data[(block[b].front + k - 1) % block[b].size]]

\* What size_approx counts and the destructor destroys: from the front block on, around the ring.
Contents ==
  LET upTo[k \in 0..Len(block), b \in DOMAIN block] ==   \* at most k blocks, from b on
        IF k = 0 THEN <<>>
        ELSE InBlock(b) \o (IF block[b].next = frontBlock THEN <<>> ELSE upTo[k - 1, block[b].next])
  IN upTo[Len(block), frontBlock]

\* What is read, removed or pointed at is the oldest element, whatever the writer does to the
\* ring meanwhile: no block is skipped and none is read before its turn
\* (readerwriterqueue.h:222-232).
ReadsOldest == reader.pc \in {"remove", "done"} => reader.element = taken + 1

\* The assertions: a reader that moves on finds an element in the next block
\* (readerwriterqueue.h:272, 337, 388), a writer that moves on finds the next block empty
\* (line 479), at most one reader is in the kernel (atomicops.h:643), and whoever has got
\* the semaphore finds an element (readerwriterqueue.h:713, 729, 748, 786).
AssertionsHold ==
  /\ reader.pc \in {"move", "peeknext"} =>
       block[reader.next].front # block[reader.next].tail
  /\ At("advancenext") => writer.empty
  /\ At("signal") => m_count >= -1
  /\ In("none") /\ blocking => reader.op = "peek"

\* try_enqueue, which must not allocate, refuses an element only when the queue holds what
\* its constructor was asked for (readerwriterqueue.h:76-79, 96-100).
HoldsMaxSize == At("refused") => writer.held >= maxSize

\* A reader sleeps in the kernel only over an empty queue, or is about to be woken; a wait
\* that timed out leaves the semaphore as it was, or takes the element that came late
\* (atomicops.h:595-609).
NoLostWakeup ==
  /\ In("sleep") /\ m_sema = 0 /\ At("idle") => written = taken
  /\ In("idle") /\ At("idle") /\ blocking => m_count = written - taken /\ m_sema = 0
=============================================================================
