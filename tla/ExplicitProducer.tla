-------------------------- MODULE ExplicitProducer --------------------------
(***************************************************************************)
(* The producer behind a ProducerToken.  It keeps its blocks in a ring and *)
(* reuses the next one when all of its emptyFlags are set; nothing goes to *)
(* the free list before the destructor.  mtk creates no token today.       *)
(*   emptied:  per block, the slots whose emptyFlag is set                 *)
(*   entries:  per BlockIndexHeader, its entries (base and block)          *)
(*   headers:  per BlockIndexHeader, its front                             *)
(*   producer: tailBlock, the ring (next), pr_blockIndexSlotsUsed (used),  *)
(*             pr_blockIndexSize (size) and pr_blockIndexFront (front)     *)
(* enqueue_bulk and element types that throw are not modelled.             *)
(***************************************************************************)
EXTENDS ProducerBase, FiniteSetsExt

NoEntry == [base |-> 0, block |-> NoBlock]

\* The constructor; its allocation of the first index may fail, and is made up for later.
Init ==
  /\ BaseInit
  /\ emptied = [b \in Blocks |-> {}]
  /\ \E size \in {IndexSize \div 2, IndexSize} :
       /\ entries = IF size = IndexSize THEN <<[i \in 0..(size - 1) |-> NoEntry]>> ELSE <<>>
       /\ headers = IF size = IndexSize THEN <<-1>> ELSE <<>>
       /\ producer = [pc |-> "idle", tailBlock |-> NoBlock, next |-> [b \in Blocks |-> b],
                      used |-> 0, size |-> size, front |-> 0]

-----------------------------------------------------------------------------
(* enqueue *)

is_empty(b) == emptied[b] = 0..(BlockSize - 1)

NextBlock == producer.next[producer.tailBlock]
Reusable == producer.tailBlock # NoBlock /\ is_empty(NextBlock)

\* Past the end of a block, the next one of the ring is used again if it is empty.
EnqueueBegin ==
  /\ At("idle") /\ pushed < MaxElements /\ Awake
  /\ \/ /\ tailIndex % BlockSize # 0
        /\ Goto("write") /\ UNCHANGED emptied
     \/ /\ tailIndex % BlockSize = 0
        /\ Reusable
        /\ emptied' = [emptied EXCEPT ![NextBlock] = {}]
        /\ producer' = [producer EXCEPT !.pc = "entry", !.tailBlock = NextBlock]
     \/ /\ tailIndex % BlockSize = 0
        /\ ~Reusable
        /\ Goto("room") /\ UNCHANGED emptied
  /\ UNCHANGED <<shared, slots, blocks, freeList, index, consumer, pushed, taken, claims>>

NeedIndex == headers = <<>> \/ producer.used = producer.size

\* Half a span ahead the queue is full.
Room ==
  /\ At("room")
  /\ Goto(IF ~circular_less_than(headIndex, (tailIndex + BlockSize) % Span) THEN "idle"
          ELSE IF NeedIndex THEN "index" ELSE "requisition")
  /\ UNCHANGED <<shared, memory, index, consumer, pushed, taken, claims>>

\* Where the entry of the k-th block in use is.
Oldest(k) == (producer.front - producer.used + k) % producer.size

EntryAt(k) == entries[Len(entries)][Oldest(k)]

\* new_block_index: twice the size, the used entries first; only a try_enqueue, or memory, fails it.
NewBlockIndex ==
  /\ At("index")
  /\ 2 * producer.size <= MaxIndex
  /\ entries' = Append(entries,
       [i \in 0..(2 * producer.size - 1) |->
          IF i < producer.used THEN EntryAt(i) ELSE NoEntry])
  /\ headers' = Append(headers, producer.used - 1)
  /\ producer' = [producer EXCEPT !.pc = "requisition", !.size = 2 * @, !.front = producer.used]
  /\ UNCHANGED <<shared, memory, consumer, pushed, taken, claims>>

NoBlockIndex ==
  /\ At("index")
  /\ Goto("idle")
  /\ UNCHANGED <<shared, memory, index, consumer, pushed, taken, claims>>

\* A new block enters the ring after tailBlock.
GetBlock ==
  /\ At("requisition")
  /\ \E b \in Blocks :
       /\ Requisition(b)
       /\ emptied' = [emptied EXCEPT ![b] = {}]
       /\ producer' = [producer EXCEPT !.pc = "entry", !.tailBlock = b, !.used = @ + 1,
            !.next = IF producer.tailBlock = NoBlock THEN [@ EXCEPT ![b] = b]
                     ELSE [@ EXCEPT ![b] = NextBlock, ![producer.tailBlock] = b]]
  /\ UNCHANGED <<shared, slots, index, consumer, pushed, taken, claims>>

GetNoBlock ==
  /\ At("requisition")
  /\ NoMemory
  /\ Goto("idle")
  /\ UNCHANGED <<shared, memory, index, consumer, pushed, taken, claims>>

WriteEntry ==
  /\ At("entry")
  /\ entries' = [entries EXCEPT ![Len(entries)][producer.front] =
                   [base |-> tailIndex, block |-> producer.tailBlock]]
  /\ Goto("front")
  /\ UNCHANGED <<shared, memory, headers, consumer, pushed, taken, claims>>

StoreFront ==
  /\ At("front")
  /\ headers' = [headers EXCEPT ![Len(headers)] = producer.front]
  /\ producer' = [producer EXCEPT !.pc = "write", !.front = (@ + 1) % producer.size]
  /\ UNCHANGED <<shared, memory, entries, consumer, pushed, taken, claims>>

WriteElement ==
  /\ At("write")
  /\ slots' = [slots EXCEPT ![producer.tailBlock][tailIndex % BlockSize] = pushed + 1]
  /\ Goto("advance")
  /\ UNCHANGED <<shared, emptied, blocks, freeList, index, consumer, pushed, taken, claims>>

AdvanceTail ==
  /\ At("advance")
  /\ tailIndex' = (tailIndex + 1) % Span
  /\ pushed' = pushed + 1
  /\ Goto("idle")
  /\ UNCHANGED <<headIndex, dequeueOptimisticCount, dequeueOvercommit, memory, index,
                 consumer, taken, claims>>

Enqueue == \/ EnqueueBegin \/ Room \/ NewBlockIndex \/ NoBlockIndex \/ GetBlock \/ GetNoBlock
           \/ WriteEntry \/ StoreFront \/ WriteElement \/ AdvanceTail

-----------------------------------------------------------------------------
(* dequeue_bulk, by consumer c; dequeue does the same with a max of 1 *)

dequeue_bulk(c, max) ==
  /\ In(c, "idle")
  /\ Set(c, [pc |-> "check", tail |-> tailIndex, over |-> dequeueOvercommit, max |-> max])
  /\ UNCHANGED <<shared, memory, index, producer, pushed, taken, claims>>

dequeue(c) == dequeue_bulk(c, 1)

CheckCount(c) ==
  LET desired == (consumer[c].tail - (dequeueOptimisticCount - consumer[c].over)) % Span IN
  /\ In(c, "check")
  /\ IF circular_less_than(0, desired)
     THEN claims < MaxClaims /\ Set(c, [pc |-> "claim", over |-> consumer[c].over,
                                        desired |-> Least(desired, consumer[c].max)])
     ELSE Set(c, Idle)
  /\ UNCHANGED <<shared, memory, index, producer, pushed, taken, claims>>

Claim(c) ==
  /\ In(c, "claim") /\ claims < MaxClaims
  /\ claims' = claims + 1
  /\ dequeueOptimisticCount' = (dequeueOptimisticCount + consumer[c].desired) % Span
  /\ Set(c, [pc |-> "recheck", my |-> (dequeueOptimisticCount - consumer[c].over) % Span,
             desired |-> consumer[c].desired])
  /\ UNCHANGED <<tailIndex, headIndex, dequeueOvercommit, memory, index, producer, pushed, taken>>

\* What there really is of the desired count, by the tail of now.
Actual(c) ==
  LET actual == (tailIndex - consumer[c].my) % Span
  IN IF circular_less_than(0, actual) THEN Least(actual, consumer[c].desired) ELSE 0

Recheck(c) ==
  /\ In(c, "recheck")
  /\ Set(c, [pc |-> IF Actual(c) < consumer[c].desired THEN "undo" ELSE "take",
             actual |-> Actual(c), excess |-> consumer[c].desired - Actual(c)])
  /\ UNCHANGED <<shared, memory, index, producer, pushed, taken, claims>>

Undo(c) ==
  /\ In(c, "undo")
  /\ dequeueOvercommit' = (dequeueOvercommit + consumer[c].excess) % Span
  /\ Set(c, IF consumer[c].actual = 0 THEN Idle
            ELSE [pc |-> "take", actual |-> consumer[c].actual, excess |-> 0])
  /\ UNCHANGED <<tailIndex, headIndex, dequeueOptimisticCount, memory, index, producer,
                 pushed, taken, claims>>

Take(c) ==
  /\ In(c, "take")
  /\ headIndex' = (headIndex + consumer[c].actual) % Span
  /\ taken' = taken + consumer[c].actual
  /\ Set(c, [pc |-> "header", index |-> headIndex, n |-> taken + 1, left |-> consumer[c].actual])
  /\ UNCHANGED <<tailIndex, dequeueOptimisticCount, dequeueOvercommit, memory, index,
                 producer, pushed, claims>>

LoadHeader(c) ==
  /\ In(c, "header")
  /\ Set(c, [pc |-> "front", index |-> consumer[c].index, n |-> consumer[c].n,
             left |-> consumer[c].left, h |-> Len(headers)])
  /\ UNCHANGED <<shared, memory, index, producer, pushed, taken, claims>>

LoadFront(c) ==
  /\ In(c, "front")
  /\ Set(c, [pc |-> "find", index |-> consumer[c].index, n |-> consumer[c].n,
             left |-> consumer[c].left, h |-> consumer[c].h, front |-> headers[consumer[c].h]])
  /\ UNCHANGED <<shared, memory, index, producer, pushed, taken, claims>>

IndexSizeOf(h) == Cardinality(DOMAIN entries[h])

\* Where header h has index i, counted from position front; the difference of the bases is
\* divided as an unsigned number, BLOCK_SIZE being a size_t.
PositionIn(h, front, i) ==
  (front + ((Base(i) - entries[h][front].base) % Span) \div BlockSize) % IndexSizeOf(h)

PositionFor(c) == PositionIn(consumer[c].h, consumer[c].front, consumer[c].index)

FindEntry(c) ==
  /\ In(c, "find")
  /\ Set(c, [pc |-> "read", index |-> consumer[c].index, n |-> consumer[c].n,
             left |-> consumer[c].left, h |-> consumer[c].h, at |-> PositionFor(c)])
  /\ UNCHANGED <<shared, memory, index, producer, pushed, taken, claims>>

\* How many of the elements left are in the block of the first of them.
InThisBlock(c) == Least(consumer[c].left, BlockSize - (consumer[c].index % BlockSize))

\* The elements of one block are moved out.
ReadElements(c) ==
  LET b == entries[consumer[c].h][consumer[c].at].block
      first == consumer[c].index % BlockSize
  IN
  /\ In(c, "read")
  /\ b # NoBlock
  /\ Set(c, [pc |-> "empty", index |-> consumer[c].index, n |-> consumer[c].n,
             left |-> consumer[c].left, h |-> consumer[c].h, at |-> consumer[c].at, block |-> b,
             elements |-> [k \in 1..InThisBlock(c) |-> slots[b][first + k - 1]]])
  /\ UNCHANGED <<shared, memory, index, producer, pushed, taken, claims>>

SlotsRead(c) == {(consumer[c].index % BlockSize) + k - 1 : k \in DOMAIN consumer[c].elements}

\* set_many_empty (set_empty for one); then the rest, from the next entry of the same index
SetManyEmpty(c) ==
  LET k == Len(consumer[c].elements) IN
  /\ In(c, "empty")
  /\ emptied' = [emptied EXCEPT ![consumer[c].block] = @ \cup SlotsRead(c)]
  /\ Set(c, IF consumer[c].left = k THEN Idle
            ELSE [pc |-> "read", index |-> (consumer[c].index + k) % Span, n |-> consumer[c].n + k,
                  left |-> consumer[c].left - k, h |-> consumer[c].h,
                  at |-> (consumer[c].at + 1) % IndexSizeOf(consumer[c].h)])
  /\ UNCHANGED <<shared, slots, blocks, freeList, index, producer, pushed, taken, claims>>

Dequeue(c) == \/ dequeue(c) \/ \E max \in 2..MaxBulk : dequeue_bulk(c, max)
              \/ CheckCount(c) \/ Claim(c) \/ Recheck(c) \/ Undo(c) \/ Take(c) \/ LoadHeader(c)
              \/ LoadFront(c) \/ FindEntry(c) \/ ReadElements(c) \/ SetManyEmpty(c)

Next == Enqueue \/ \E c \in Consumers : Dequeue(c)

Spec == Init /\ [][Next]_vars

-----------------------------------------------------------------------------
\* A claim that came too late is taken back as far as it did, and no other is: headIndex and the
\* counts agree (concurrentqueue.h:2166-2180, 2243).
CountsAgree ==
  LET Pending(c) == CASE consumer[c].pc = "recheck" -> consumer[c].desired
                      [] consumer[c].pc \in {"undo", "take"} -> consumer[c].actual + consumer[c].excess
                      [] OTHER -> 0
  IN dequeueOptimisticCount = (headIndex + dequeueOvercommit + MapThenSumSet(Pending, Consumers)) % Span

\* A dequeue finds the block of its index in the index it has loaded, also while the producer
\* overwrites entries of emptied blocks or replaces the index (concurrentqueue.h:1929-1939).
LookupFinds ==
  \A c \in Consumers : In(c, "find") =>
    entries[consumer[c].h][PositionFor(c)].base = Base(consumer[c].index)

\* Whoever took n indices reads the elements of those n enqueues, also across blocks.
ReadsOwn == \A c \in Consumers : In(c, "empty") =>
              \A k \in DOMAIN consumer[c].elements : consumer[c].elements[k] = consumer[c].n + k - 1

\* The slots a dequeue has read are its own: nobody has set their flags, and so the block is not
\* taken for empty by the producer meanwhile (the assertions at concurrentqueue.h:1503, 1524).
FlagsOnce == \A c \in Consumers : In(c, "empty") =>
               SlotsRead(c) \cap emptied[consumer[c].block] = {}

\* The elements that are published and not taken, where the newest index finds them.
Contents ==
  [k \in 1..(pushed - taken) |->
     LET h == Len(headers)
         i == (taken + k - 1) % Span
     IN slots[entries[h][PositionIn(h, headers[h], i)].block][i % BlockSize]]

\* The blocks of the ring, from the one after tailBlock on.
Ring == LET at[k \in Nat] == IF k = 0 THEN NextBlock ELSE producer.next[at[k - 1]]
        IN {at[k] : k \in 0..MaxBlocks}

\* The block with the next element to dequeue, unless that is the first of its block.
HalfDequeued ==
  LET k == CHOOSE k \in 0..(producer.used - 1) :
             /\ ~circular_less_than((EntryAt(k).base + BlockSize) % Span, headIndex)
             /\ \A j \in 0..(k - 1) :
                  circular_less_than((EntryAt(j).base + BlockSize) % Span, headIndex)
  IN EntryAt(k).block

\* The slots ~ExplicitProducer destroys: of the blocks that are not empty all, but in the half
\* dequeued block from the head on, and in tailBlock up to the tail.
Destructed ==
  {<<b, i>> \in {b \in Ring : ~is_empty(b)} \X (0..(BlockSize - 1)) :
     /\ headIndex % BlockSize # 0 /\ b = HalfDequeued => i >= headIndex % BlockSize
     /\ tailIndex % BlockSize # 0 /\ b = producer.tailBlock => i < tailIndex % BlockSize}

AtRest == At("idle") /\ \A c \in Consumers : In(c, "idle")

\* The destructor, which may run when no operation does, finds every block in the ring and
\* destroys exactly the elements that were not dequeued (concurrentqueue.h:1708-1755).
DestructorExact ==
  AtRest /\ producer.tailBlock # NoBlock =>
    /\ Ring = 1..blocks
    /\ {slots[d[1]][d[2]] : d \in Destructed} = (taken + 1)..pushed
    /\ Cardinality(Destructed) = pushed - taken
=============================================================================
