-------------------------- MODULE ImplicitProducer --------------------------
(***************************************************************************)
(* The producer of a thread that enqueues without a token, as mtk's        *)
(* threads do.  The thread that empties a block puts it on the free list   *)
(* (module FreeList; here a set).                                          *)
(*   entries:  key (the base index) and value (the block)                  *)
(*   headers:  index (which entries) and tail                              *)
(*   producer: the entry and the tailBlock                                 *)
(***************************************************************************)
EXTENDS ProducerBase

INVALID_BLOCK_BASE == 1

\* n new entries after the first m of f; their value is not initialised and never read.
WithNewEntries(f, m, n) ==
  [e \in 0..(m + n - 1) |-> IF e < m THEN f[e] ELSE [key |-> INVALID_BLOCK_BASE, value |-> NoBlock]]

\* The constructor looks away from what new_block_index returns: without memory there is no
\* index, and blockIndex stays a null pointer.
Init ==
  /\ BaseInit
  /\ emptied = [b \in Blocks |-> 0]
  /\ \/ /\ entries = WithNewEntries(<<>>, 0, IndexSize)
        /\ headers = <<[index |-> [i \in 0..(IndexSize - 1) |-> i], tail |-> IndexSize - 1]>>
     \/ entries = <<>> /\ headers = <<>>
  /\ producer = [pc |-> "idle", entry |-> 0, block |-> NoBlock]

-----------------------------------------------------------------------------
(* enqueue *)

Indexed == headers # <<>>
blockIndex == headers[Len(headers)]
Capacity(h) == Cardinality(DOMAIN h.index)
NextTail(h) == (h.tail + 1) % Capacity(h)

\* Past the end of a block a new one is needed; the queue is full half a span ahead.
EnqueueBegin ==
  /\ At("idle") /\ pushed < MaxElements /\ Awake
  /\ IF tailIndex % BlockSize # 0 THEN Goto("write")
     ELSE /\ circular_less_than(headIndex, (tailIndex + BlockSize) % Span)
          /\ Goto("insert")
  /\ UNCHANGED <<shared, memory, index, consumer, pushed, taken, claims>>

Usable(e) == entries[e].key = INVALID_BLOCK_BASE \/ entries[e].value = NoBlock

\* insert_block_index_entry: the next entry is taken if it is new or its block is gone
InsertEntry ==
  LET e == blockIndex.index[NextTail(blockIndex)] IN
  /\ At("insert") /\ Indexed
  /\ Usable(e)
  /\ entries' = [entries EXCEPT ![e].key = tailIndex]
  /\ producer' = [producer EXCEPT !.pc = "publish", !.entry = e]
  /\ UNCHANGED <<shared, memory, headers, consumer, pushed, taken, claims>>

\* new_block_index: the old entries, from the oldest on, then as many new ones
NewBlockIndex ==
  LET h == blockIndex
      n == Capacity(h)
      m == Cardinality(DOMAIN entries)
  IN
  /\ At("insert") /\ Indexed
  /\ ~Usable(h.index[NextTail(h)]) /\ 2 * n <= MaxIndex
  /\ entries' = WithNewEntries(entries, m, n)
  /\ headers' = Append(headers,
       [index |-> [i \in 0..(2 * n - 1) |-> IF i < n THEN h.index[(h.tail + 1 + i) % n]
                                            ELSE m + i - n],
        tail |-> n - 1])
  /\ UNCHANGED <<shared, memory, producer, consumer, pushed, taken, claims>>

\* No memory for it, which can happen at any size: the enqueue fails.
NoBlockIndex ==
  /\ At("insert") /\ Indexed
  /\ ~Usable(blockIndex.index[NextTail(blockIndex)])
  /\ Goto("idle")
  /\ UNCHANGED <<shared, memory, index, consumer, pushed, taken, claims>>

\* insert_block_index_entry reads through blockIndex without a look at it; what an enqueue does
\* after that is undefined, and the thread takes no further step.
NoIndex ==
  /\ At("insert") /\ ~Indexed
  /\ Goto("crashed")
  /\ UNCHANGED <<shared, memory, index, consumer, pushed, taken, claims>>

PublishEntry ==
  /\ At("publish")
  /\ headers' = [headers EXCEPT ![Len(headers)].tail = NextTail(blockIndex)]
  /\ Goto("requisition")
  /\ UNCHANGED <<shared, memory, entries, consumer, pushed, taken, claims>>

\* The block is reset before anybody can find it.
GetBlock ==
  /\ At("requisition")
  /\ \E b \in Blocks :
       /\ Requisition(b)
       /\ emptied' = [emptied EXCEPT ![b] = 0]
       /\ producer' = [producer EXCEPT !.pc = "install", !.block = b]
  /\ UNCHANGED <<shared, slots, index, consumer, pushed, taken, claims>>

\* No memory: rewind_block_index_tail, and the enqueue fails
GetNoBlock ==
  /\ At("requisition")
  /\ NoMemory
  /\ headers' = [headers EXCEPT ![Len(headers)].tail = (@ - 1) % Capacity(blockIndex)]
  /\ entries' = [entries EXCEPT ![producer.entry].value = NoBlock]
  /\ Goto("idle")
  /\ UNCHANGED <<shared, memory, consumer, pushed, taken, claims>>

\* The block goes into the index and becomes tailBlock (producer.block from here on).
InstallBlock ==
  /\ At("install")
  /\ entries' = [entries EXCEPT ![producer.entry].value = producer.block]
  /\ Goto("write")
  /\ UNCHANGED <<shared, memory, headers, consumer, pushed, taken, claims>>

\* Mutant: the slot after the right one.
WriteElementNext ==
  /\ At("write")
  /\ slots' = [slots EXCEPT ![producer.block][(tailIndex + 1) % BlockSize] = pushed + 1]
  /\ Goto("advance")
  /\ UNCHANGED <<shared, emptied, blocks, freeList, index, consumer, pushed, taken, claims>>

WriteElement ==
  /\ At("write")
  /\ slots' = [slots EXCEPT ![producer.block][tailIndex % BlockSize] = pushed + 1]
  /\ Goto("advance")
  /\ UNCHANGED <<shared, emptied, blocks, freeList, index, consumer, pushed, taken, claims>>

AdvanceTail ==
  /\ At("advance")
  /\ tailIndex' = (tailIndex + 1) % Span
  /\ pushed' = pushed + 1
  /\ Goto("idle")
  /\ UNCHANGED <<headIndex, dequeueOptimisticCount, dequeueOvercommit, memory, index,
                 consumer, taken, claims>>

-----------------------------------------------------------------------------
(* dequeue_bulk, by consumer c; dequeue does the same with a max of 1 *)

dequeue_bulk(c, max) ==
  /\ In(c, "idle")
  /\ Set(c, [pc |-> "check", tail |-> tailIndex, over |-> dequeueOvercommit, max |-> max])
  /\ UNCHANGED <<shared, memory, index, producer, pushed, taken, claims>>

dequeue(c) == dequeue_bulk(c, 1)

\* Nothing there: the dequeue fails.
CheckCount(c) ==
  LET desired == (consumer[c].tail - (dequeueOptimisticCount - consumer[c].over)) % Span IN
  /\ In(c, "check")
  /\ IF circular_less_than(0, desired)
     THEN claims < MaxClaims /\ Set(c, [pc |-> "claim", over |-> consumer[c].over,
                                        desired |-> Least(desired, consumer[c].max)])
     ELSE Set(c, Idle)
  /\ UNCHANGED <<shared, memory, index, producer, pushed, taken, claims>>

Claim(c) ==
  /\ In(c, "claim")
  /\ claims + consumer[c].desired <= MaxClaims
  /\ claims' = claims + consumer[c].desired
  /\ Set(c, [pc |-> "recheck", my |-> (dequeueOptimisticCount - consumer[c].over) % Span,
             desired |-> consumer[c].desired])
  /\ dequeueOptimisticCount' = (dequeueOptimisticCount + consumer[c].desired) % Span
  /\ UNCHANGED <<tailIndex, headIndex, dequeueOvercommit, memory, index, producer, pushed, taken>>

\* What there really is of the desired count, by the tail of now.
Actual(c) ==
  LET actual == (tailIndex - consumer[c].my) % Span
  IN IF circular_less_than(0, actual) THEN Least(actual, consumer[c].desired) ELSE 0

Recheck(c) ==
  /\ In(c, "recheck")
  /\ Set(c, [pc |-> IF Actual(c) < consumer[c].desired THEN "undo" ELSE "take",
             actual |-> Actual(c), excess |-> consumer[c].desired - Actual(c)])
  /\ UNCHANGED <<shared, memory, index, producer, pushed, taken, claims>>

\* The excess is taken back, all of it or before the rest is taken.
Undo(c) ==
  /\ In(c, "undo")
  /\ dequeueOvercommit' = (dequeueOvercommit + consumer[c].excess) % Span
  /\ Set(c, IF consumer[c].actual = 0 THEN Idle
            ELSE [pc |-> "take", actual |-> consumer[c].actual, excess |-> 0])
  /\ UNCHANGED <<tailIndex, headIndex, dequeueOptimisticCount, memory, index, producer,
                 pushed, taken, claims>>

Take(c) ==
  /\ In(c, "take")
  /\ headIndex' = (headIndex + consumer[c].actual) % Span
  /\ taken' = taken + consumer[c].actual
  /\ Set(c, [pc |-> "header", index |-> headIndex, n |-> taken + 1, left |-> consumer[c].actual])
  /\ UNCHANGED <<tailIndex, dequeueOptimisticCount, dequeueOvercommit, memory, index,
                 producer, pushed, claims>>

\* get_block_index_index_for_index: blockIndex, its tail, and the position counted back from it
LoadHeader(c) ==
  /\ In(c, "header")
  /\ Set(c, [pc |-> "tail", index |-> consumer[c].index, n |-> consumer[c].n,
             left |-> consumer[c].left, h |-> Len(headers)])
  /\ UNCHANGED <<shared, memory, index, producer, pushed, taken, claims>>

LoadTail(c) ==
  /\ In(c, "tail")
  /\ Set(c, [pc |-> "find", index |-> consumer[c].index, n |-> consumer[c].n,
             left |-> consumer[c].left, h |-> consumer[c].h, tail |-> headers[consumer[c].h].tail])
  /\ UNCHANGED <<shared, memory, index, producer, pushed, taken, claims>>

\* Where index i is, counted back from position tail of header h; the difference of the
\* bases is divided as an unsigned number, BLOCK_SIZE being a size_t.
PositionIn(h, tail, i) ==
  LET offset == ((Base(i) - entries[h.index[tail]].key) % Span) \div BlockSize
  IN (tail + offset) % Capacity(h)

EntryIn(h, tail, i) == h.index[PositionIn(h, tail, i)]

EntryFor(c) == EntryIn(headers[consumer[c].h], consumer[c].tail, consumer[c].index)

FindEntry(c) ==
  /\ In(c, "find")
  /\ Set(c, [pc |-> "read", index |-> consumer[c].index, n |-> consumer[c].n,
             left |-> consumer[c].left, h |-> consumer[c].h,
             at |-> PositionIn(headers[consumer[c].h], consumer[c].tail, consumer[c].index)])
  /\ UNCHANGED <<shared, memory, index, producer, pushed, taken, claims>>

\* How many of the elements left are in the block of the first of them.
InThisBlock(c) == Least(consumer[c].left, BlockSize - (consumer[c].index % BlockSize))

\* The elements of one block are moved out; header h is kept for those of the next.
ReadElements(c) ==
  LET e == headers[consumer[c].h].index[consumer[c].at]
      b == entries[e].value
      first == consumer[c].index % BlockSize
      k == InThisBlock(c)
  IN
  /\ In(c, "read")
  /\ b # NoBlock
  /\ Set(c, [pc |-> "empty", n |-> consumer[c].n, entry |-> e, block |-> b,
             elements |-> [j \in 1..k |-> slots[b][first + j - 1]],
             rest |-> IF consumer[c].left = k THEN Idle
                      ELSE [pc |-> "read", index |-> (consumer[c].index + k) % Span,
                            n |-> consumer[c].n + k, left |-> consumer[c].left - k,
                            h |-> consumer[c].h,
                            at |-> (consumer[c].at + 1) % Capacity(headers[consumer[c].h])]])
  /\ UNCHANGED <<shared, memory, index, producer, pushed, taken, claims>>

\* set_many_empty (set_empty for one): whoever empties the block frees it.
SetManyEmpty(c) ==
  LET b == consumer[c].block
      k == Len(consumer[c].elements)
  IN
  /\ In(c, "empty")
  /\ emptied' = [emptied EXCEPT ![b] = @ + k]
  /\ Set(c, IF emptied[b] + k = BlockSize
            THEN [pc |-> "unlink", entry |-> consumer[c].entry, block |-> b,
                  rest |-> consumer[c].rest]
            ELSE consumer[c].rest)
  /\ UNCHANGED <<shared, slots, blocks, freeList, index, producer, pushed, taken, claims>>

\* Mutant: the entry keeps the block.
UnlinkNot(c) ==
  /\ In(c, "unlink")
  /\ Set(c, [consumer[c] EXCEPT !.pc = "release"])
  /\ UNCHANGED <<shared, memory, index, producer, pushed, taken, claims>>

Unlink(c) ==
  /\ In(c, "unlink")
  /\ entries' = [entries EXCEPT ![consumer[c].entry].value = NoBlock]
  /\ Set(c, [consumer[c] EXCEPT !.pc = "release"])
  /\ UNCHANGED <<shared, memory, headers, producer, pushed, taken, claims>>

Release(c) ==
  /\ In(c, "release")
  /\ freeList' = freeList \cup {consumer[c].block}
  /\ Set(c, consumer[c].rest)
  /\ UNCHANGED <<shared, slots, emptied, blocks, index, producer, pushed, taken, claims>>

Enqueue == \/ EnqueueBegin \/ InsertEntry \/ NewBlockIndex \/ NoBlockIndex \/ NoIndex \/ PublishEntry
           \/ GetBlock \/ GetNoBlock \/ InstallBlock \/ WriteElement \/ AdvanceTail

Dequeue(c) == \/ dequeue(c) \/ \E max \in 2..MaxBulk : dequeue_bulk(c, max)
              \/ CheckCount(c) \/ Claim(c) \/ Recheck(c) \/ Undo(c) \/ Take(c) \/ LoadHeader(c)
              \/ LoadTail(c) \/ FindEntry(c) \/ ReadElements(c) \/ SetManyEmpty(c) \/ Unlink(c)
              \/ Release(c)

Next == Enqueue \/ \E c \in Consumers : Dequeue(c)

Spec == Init /\ [][Next]_vars

-----------------------------------------------------------------------------
\* What a consumer has claimed and neither taken nor taken back.
Pending(c) == IF In(c, "recheck") THEN consumer[c].desired
              ELSE IF In(c, "undo") \/ In(c, "take") THEN consumer[c].actual + consumer[c].excess
              ELSE 0

\* A claim that came too late is taken back as far as it did, and no other is: with nobody
\* between claiming and taking, the counts say exactly what headIndex says, so that a queue at
\* rest never hides an element or promises one it does not have (concurrentqueue.h:2461-2474,
\* 2522-2524).
CountsAgree ==
  LET claimed == UNION {{c} \X (1..Pending(c)) : c \in Consumers}
  IN dequeueOptimisticCount = (headIndex + dequeueOvercommit + Cardinality(claimed)) % Span

\* A dequeue finds the block of its index in the index it has loaded, also while the
\* producer inserts entries, reuses old ones or replaces the index: the assertion at
\* concurrentqueue.h:2858.
LookupFinds ==
  \A c \in Consumers : In(c, "find") =>
    LET e == entries[EntryFor(c)] IN e.key = Base(consumer[c].index) /\ e.value # NoBlock

\* Whoever took n indices reads the elements of those n enqueues, also across blocks: none is lost, read twice, or
\* overwritten before it is read (concurrentqueue.h:2451, 2474-2483).
ReadsOwn == \A c \in Consumers : In(c, "empty") =>
              \A k \in DOMAIN consumer[c].elements : consumer[c].elements[k] = consumer[c].n + k - 1

\* The elements that are published and not taken, where the newest index finds them.
Contents ==
  [k \in 1..(pushed - taken) |->
     LET i == (taken + k - 1) % Span
     IN slots[entries[EntryIn(blockIndex, blockIndex.tail, i)].value][i % BlockSize]]

\* Mutant: the last block is given back whenever the queue is empty.
ForceFreeLastBlockAlways == TRUE

\* The last block has not gone to the free list yet.
ForceFreeLastBlock == headIndex # tailIndex \/ tailIndex % BlockSize # 0

\* ~ImplicitProducer destroys Contents and gives their blocks back, the last one by itself.
Destructed ==
  {entries[EntryIn(blockIndex, blockIndex.tail, (taken + k - 1) % Span)].value : k \in 1..(pushed - taken)}
    \cup (IF producer.block # NoBlock /\ ForceFreeLastBlock THEN {producer.block} ELSE {})

\* Known disagreement, no run checks it: an enqueue that finds no memory fails
\* (concurrentqueue.h:897: "Only fails if memory allocation fails").
NoCrash == ~At("crashed")

AtRest == At("idle") /\ \A c \in Consumers : In(c, "idle")

\* The destructor, which may run when no operation does, gives back every block that is not on
\* the free list, and none that is (concurrentqueue.h:2355-2383).
DestructorExact ==
  AtRest => Destructed \cap freeList = {} /\ Destructed \cup freeList = 1..blocks

\* A block that can be reused is referred to by nobody (concurrentqueue.h:2508-2520,
\* 2986-3004).
FreeUnused ==
  /\ \A c \in Consumers : consumer[c].pc \in {"empty", "unlink", "release"} =>
       consumer[c].block \notin freeList
  /\ \A e \in DOMAIN entries : entries[e].value \notin freeList
  /\ At("install") => producer.block \notin freeList
=============================================================================
