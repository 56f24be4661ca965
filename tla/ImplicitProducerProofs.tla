----------------------- MODULE ImplicitProducerProofs -----------------------
(***************************************************************************)
(* Module ImplicitProducer, for every size of blocks, indexes and memory   *)
(* and every number of consumers, as long as the counts do not wrap: the   *)
(* queue is first in, first out, its consumers find and read the elements  *)
(* they have taken, and blocks are reused and given back once.             *)
(*                                                                         *)
(* The invariant numbers the blocks in the order in which they were        *)
(* filled.  An index of an element is open until its element is read and   *)
(* counted out; the block index, and every older one that a consumer still *)
(* holds, leads from an open index to the entry of its block, and a block  *)
(* keeps its entry as long as one of its indices is open.  What consumers  *)
(* are granted is never more than there is, because of any claims that     *)
(* came too late one begins behind all that the others may get (ClaimInv). *)
(***************************************************************************)
EXTENDS ImplicitProducer, FiniteSetTheorems, TLAPS

-----------------------------------------------------------------------------
(* The inductive invariant *)

\* The theorems' hypothesis: the counts, a size_t each in the code, stay below half a span.
NoWrap == {MaxElements, MaxClaims} \subseteq 0..((Span \div 2) - 1)

Positive == Nat \ {0}

\* The shapes of a consumer.
Checking == [pc : {"check"}, tail : Nat, over : Nat, max : Positive]
Claiming == [pc : {"claim"}, over : Nat, desired : Positive]
Rechecking == [pc : {"recheck"}, my : Nat, desired : Positive]
Undoing == [pc : {"undo"}, actual : Nat, excess : Positive]
Taking == [pc : {"take"}, actual : Positive, excess : {0}]
Heading == [pc : {"header"}, index : Nat, n : Nat, left : Positive]
Tailing == [pc : {"tail"}, index : Nat, n : Nat, left : Positive, h : Positive]
Finding == [pc : {"find"}, index : Nat, n : Nat, left : Positive, h : Positive, tail : Nat]
Readings == [pc : {"read"}, index : Nat, n : Nat, left : Positive, h : Positive, at : Nat]
Rests == {Idle} \cup Readings
Emptying == [pc : {"empty"}, n : Nat, entry : Nat, block : Blocks, elements : Seq(Nat), rest : Rests]
Freeing == [pc : {"unlink", "release"}, entry : Nat, block : Blocks, rest : Rests]

Records == Checking \cup Claiming \cup Rechecking \cup Undoing \cup Taking \cup Heading \cup Tailing
             \cup Finding \cup Rests \cup Emptying \cup Freeing

ConsumerType == consumer \in [Consumers -> Records]

\* The claims of the consumers, counted one by one; those that were granted; and those of the
\* consumers of T that are still to be checked again.
Tokens == Consumers \X Positive
Claimed == {t \in Tokens : t[2] <= Pending(t[1])}
Grants == {t \in Tokens : consumer[t[1]].pc \in {"undo", "take"} /\ t[2] <= consumer[t[1]].actual}
Late == {c \in Consumers : In(c, "recheck")}
Wants(T) == {t \in Tokens : t[1] \in T /\ t[2] <= consumer[t[1]].desired}

\* The counters of the code are those that would not wrap.
CountType ==
  /\ tailIndex = pushed /\ headIndex = taken /\ dequeueOptimisticCount = claims
  /\ pushed \in Nat /\ pushed <= MaxElements
  /\ claims \in Nat /\ claims <= MaxClaims
  /\ taken \in Nat /\ dequeueOvercommit \in Nat
  /\ ~At("idle") => pushed < MaxElements

\* Every claim is taken, taken back, or still a consumer's; what was granted is there.
CountInv ==
  /\ IsFiniteSet(Claimed)
  /\ claims = taken + dequeueOvercommit + Cardinality(Claimed)
  /\ taken + Cardinality(Grants) <= pushed

\* What a consumer has seen of the counters is at most what they are.
SeenInv == \A c \in Consumers :
  /\ In(c, "check") => consumer[c].tail <= pushed /\ consumer[c].over <= dequeueOvercommit
  /\ In(c, "claim") => consumer[c].over <= dequeueOvercommit
  /\ In(c, "recheck") => consumer[c].my <= claims

\* What any consumers T still to be checked want is there, or one of them has claimed from a place
\* behind all that the others of T may get.
ClaimInv ==
  \A T \in SUBSET Late : T # {} =>
     \/ taken + Cardinality(Grants \cup Wants(T)) <= pushed
     \/ \E l \in T : consumer[l].my >= taken + Cardinality(Grants \cup Wants(T \ {l}))

\* The indices a consumer has taken and not emptied: those of the elements it has read, and
\* those it still has to find.
Searching == {"header", "tail", "find", "read"}
WorkOf(r) == IF r.pc \in Searching THEN r.index..(r.index + r.left - 1) ELSE {}
Reading(r) == IF r.pc = "empty" THEN (r.n - 1)..(r.n + Len(r.elements) - 2) ELSE {}
Rest(r) == IF r.pc \in {"empty", "unlink", "release"} THEN r.rest ELSE r
WorkIn(r) == Reading(r) \cup WorkOf(Rest(r))
Work(c) == WorkIn(consumer[c])

\* The first element is n; those read are of one block, and are the right ones.
WorkOk(r) ==
  /\ Rest(r).pc \in Searching => Rest(r).n = Rest(r).index + 1
  /\ r.pc = "empty" =>
       /\ r.n >= 1 /\ Len(r.elements) >= 1 /\ ((r.n - 1) % BlockSize) + Len(r.elements) <= BlockSize
       /\ r.rest # Idle => r.rest.index = r.n - 1 + Len(r.elements)
       /\ \A k \in DOMAIN r.elements : r.elements[k] = r.n + k - 1

\* Every index that is handed out is one consumer's.
WorkInv ==
  /\ \A c \in Consumers : Work(c) \subseteq 0..(taken - 1)
  /\ \A c, d \in Consumers : c # d => Work(c) \cap Work(d) = {}
  /\ \A c \in Consumers : WorkOk(consumer[c])

\* The blocks are numbered in the order they are filled in: the number of an index's block, how
\* many there are, for how many the tail of the block index has moved, and the entry of one.
Number(i) == i \div BlockSize
Filled == IF At("write") \/ At("advance") \/ pushed % BlockSize # 0 THEN Number(pushed) + 1
          ELSE Number(pushed)
Shown == IF At("requisition") \/ At("install") THEN Filled + 1 ELSE Filled
EntryOf(p) == blockIndex.index[(blockIndex.tail + p + 1 - Shown) % Capacity(blockIndex)]
\* The indices whose elements are not read and counted out yet.
Open == {i \in 0..(BlockSize * Filled - 1) : i >= taken \/ \E c \in Consumers : i \in Work(c)}
OpenIn(p) == {i \in Open : Number(i) = p}
\* The next entry, inserted but not shown by the tail yet.
Announced == entries[EntryOf(Filled)] = [key |-> BlockSize * Filled, value |-> NoBlock]

\* An index holds a number of entries that divides the number of blocks in a span.
Sizes == {n \in 1..(Span \div BlockSize) : (Span \div BlockSize) % n = 0}
HeadersOf(n) == [index : [0..(n - 1) -> Nat], tail : 0..(n - 1)]

MemoryType ==
  /\ slots \in [Blocks -> [0..(BlockSize - 1) -> Nat]]
  /\ emptied \in [Blocks -> Nat]
  /\ blocks \in 0..MaxBlocks
  /\ freeList \subseteq 1..blocks

IndexType ==
  /\ headers \in Seq(UNION {HeadersOf(n) : n \in Sizes}) /\ headers # <<>>
  /\ entries \in [0..(Capacity(blockIndex) - 1) -> [key : Nat, value : 0..blocks]]
  /\ \A k \in DOMAIN blockIndex.index : blockIndex.index[k] \in DOMAIN entries
  /\ \A k, l \in DOMAIN blockIndex.index : blockIndex.index[k] = blockIndex.index[l] => k = l

ProducerType ==
  /\ producer \in [pc : {"idle", "insert", "publish", "requisition", "install", "write", "advance"},
                   entry : Nat, block : 0..blocks]

\* The producer's entry is the next one, its block that of the last entry.
ProducerInv ==
  /\ At("insert") \/ At("publish") \/ At("requisition") \/ At("install") => pushed % BlockSize = 0
  /\ At("publish") \/ At("requisition") \/ At("install") =>
       producer.entry = EntryOf(Filled) /\ Announced
  /\ At("write") \/ At("advance") =>
       producer.block = entries[EntryOf(Filled - 1)].value /\ producer.block # NoBlock
  /\ ~At("install") => \A i \in Open : Number(i) = Filled - 1 =>
       producer.block = entries[EntryOf(Filled - 1)].value
  /\ At("advance") => slots[producer.block][pushed % BlockSize] = pushed + 1

\* The entries from an open index on are those of its block and the later ones.
KeyInv == \A i \in Open :
  /\ Number(i) >= Shown - Capacity(blockIndex)
  /\ \A p \in Number(i)..(Filled - 1) : entries[EntryOf(p)].key = BlockSize * p

\* The block of an open index: what is not open of it is counted out, what is open is written.
BlockInv == \A i \in Open : LET b == entries[EntryOf(Number(i))].value IN
  /\ b # NoBlock
  /\ emptied[b] + Cardinality(OpenIn(Number(i))) = BlockSize
  /\ i < pushed => slots[b][i % BlockSize] = i + 1

\* An entry has a block as long as an index of it is open, or until its last consumer unlinks it.
Unlinking(e) == \E c \in Consumers : In(c, "unlink") /\ consumer[c].entry = e

OccupiedInv ==
  /\ \A e \in DOMAIN entries : entries[e].value # NoBlock =>
       \E p \in 0..(Filled - 1) :
          /\ entries[e].key = BlockSize * p /\ EntryOf(p) = e /\ p >= Shown - Capacity(blockIndex)
          /\ OpenIn(p) # {} \/ Unlinking(e)
  /\ \A c \in Consumers : In(c, "unlink") =>
       /\ consumer[c].entry \in DOMAIN entries
       /\ consumer[c].block = entries[consumer[c].entry].value
       /\ consumer[c].block # NoBlock
       /\ emptied[consumer[c].block] = BlockSize
  /\ \A c, d \in Consumers :
       In(c, "unlink") /\ In(d, "unlink") /\ consumer[c].entry = consumer[d].entry => c = d

\* Every block is in one place: free, an entry's, with a consumer that releases it, or with the
\* producer that installs it.
Releasing == {c \in Consumers : In(c, "release")}
PlacesInv ==
  /\ \A e, f \in DOMAIN entries :
       entries[e].value = entries[f].value /\ entries[e].value # NoBlock => e = f
  /\ \A e \in DOMAIN entries : entries[e].value \notin freeList
  /\ \A c \in Releasing : consumer[c].block \in (1..blocks) \ freeList
       /\ \A e \in DOMAIN entries : entries[e].value # consumer[c].block
  /\ \A c, d \in Releasing : consumer[c].block = consumer[d].block => c = d
  /\ At("install") =>
       /\ producer.block \in (1..blocks) \ freeList /\ emptied[producer.block] = 0
       /\ \A e \in DOMAIN entries : entries[e].value # producer.block
       /\ \A c \in Releasing : consumer[c].block # producer.block
  /\ \A b \in 1..blocks :
       \/ b \in freeList
       \/ \E e \in DOMAIN entries : entries[e].value = b
       \/ \E c \in Releasing : consumer[c].block = b
       \/ At("install") /\ producer.block = b

\* Header h leads to the entries of blocks lo to hi, that of block l being at position t.
Maps(h, t, l, lo, hi) == \A p \in lo..hi :
  headers[h].index[(t + p - l) % Capacity(headers[h])] = EntryOf(p)

\* Tail t of header h, which may be an old one, leads to all the blocks of consumer r's work.
FindsFrom(h, t, r) ==
  \E l \in Number(r.index + r.left - 1)..Filled :
    /\ Maps(h, t, l, Number(r.index), l)
    /\ l = Filled => Announced

\* What a consumer has loaded of the block index leads to its blocks.
PlaceOk(r) ==
  /\ r.pc = "tail" => r.h \in DOMAIN headers /\ FindsFrom(r.h, headers[r.h].tail, r)
  /\ r.pc = "find" => r.h \in DOMAIN headers /\ r.tail \in DOMAIN headers[r.h].index
                       /\ FindsFrom(r.h, r.tail, r)
  /\ Rest(r).pc = "read" =>
       /\ Rest(r).h \in DOMAIN headers /\ Rest(r).at \in DOMAIN headers[Rest(r).h].index
       /\ Maps(Rest(r).h, Rest(r).at, Number(Rest(r).index),
               Number(Rest(r).index), Number(Rest(r).index + Rest(r).left - 1))
  /\ r.pc = "empty" => /\ r.entry = EntryOf(Number(r.n - 1))
                       /\ r.block = entries[r.entry].value

ConsumerInv == \A c \in Consumers : PlaceOk(consumer[c])

IndexInv == /\ MemoryType /\ IndexType /\ ProducerType /\ ProducerInv
            /\ KeyInv /\ BlockInv /\ OccupiedInv /\ PlacesInv

IInv == /\ CountType /\ CountInv /\ SeenInv /\ ConsumerType /\ ClaimInv
        /\ WorkInv /\ IndexInv /\ ConsumerInv

\* What the queue holds, and what a queue with one enqueuing thread promises.
ContentsAre == Contents = [k \in 1..(pushed - taken) |-> taken + k]
Fifo == INSTANCE FifoQueue WITH queue <- Contents, last <- pushed
ImplementsFifo == Fifo!Spec

-----------------------------------------------------------------------------
(* Division *)

\* Division by a positive number, and that it is unique.
LEMMA DivMod ==
  ASSUME NEW n \in Nat \ {0}, NEW x \in Int
  PROVE  /\ x \div n \in Int /\ x % n \in 0..(n - 1)
         /\ x = n * (x \div n) + (x % n)
  OBVIOUS

LEMMA DivModUnique ==
  ASSUME NEW n \in Nat \ {0}, NEW q \in Int, NEW r \in 0..(n - 1)
  PROVE  (n * q + r) % n = r /\ (n * q + r) \div n = q
<1>1. PICK x \in Int : x = n * q + r
  OBVIOUS
<1>2. PICK p, s \in Int : p = x \div n /\ s = x % n
  BY DivMod
<1>3. x = n * p + s /\ s \in 0..(n - 1) /\ p \in Int
  BY <1>2, DivMod
<1>4. n * (p - q) = r - s
  BY <1>1, <1>3
<1>5. p = q
  <2>1. CASE p - q >= 1
    <3>1. n * (p - q) >= n
      BY <2>1, <1>3
    <3> QED BY <3>1, <1>4, <1>3
  <2>2. CASE q - p >= 1
    <3>1. n * (q - p) >= n
      BY <2>2, <1>3
    <3>2. n * (q - p) = s - r
      BY <1>1, <1>3
    <3> QED BY <3>1, <3>2, <1>3
  <2> QED BY <2>1, <2>2, <1>3
<1> QED BY <1>1, <1>2, <1>3, <1>5

LEMMA ModSmall ==
  ASSUME NEW n \in Nat \ {0}, NEW x \in Int
  PROVE  /\ 0 <= x /\ x < n => x % n = x
         /\ -n <= x /\ x < 0 => x % n = x + n
<1>1. ASSUME 0 <= x, x < n PROVE x % n = x
  <2>1. (n * 0 + x) % n = x
    BY <1>1, DivModUnique
  <2> QED BY <2>1
<1>2. ASSUME -n <= x, x < 0 PROVE x % n = x + n
  <2>1. (n * (-1) + (x + n)) % n = x + n
    BY <1>2, DivModUnique
  <2>2. n * (-1) + (x + n) = x
    OBVIOUS
  <2> QED BY <2>1, <2>2
<1> QED BY <1>1, <1>2

\* The remainder of a sum may be taken of a summand first.
LEMMA ModAdd ==
  ASSUME NEW n \in Nat \ {0}, NEW x \in Int, NEW y \in Int
  PROVE  ((x % n) + y) % n = (x + y) % n
<1>1. PICK q \in Int, r \in 0..(n - 1) : x = n * q + r /\ r = x % n
  BY DivMod
<1>2. PICK z \in Int : z = r + y
  OBVIOUS
<1>3. PICK p \in Int, s \in 0..(n - 1) : z = n * p + s /\ s = z % n
  BY DivMod
<1>4. x + y = n * (p + q) + s
  <2>1. n * (p + q) = n * p + n * q
    OBVIOUS
  <2>2. PICK a \in Int, b \in Int : a = n * p /\ b = n * q
    OBVIOUS
  <2>3. x = b + r /\ r + y = a + s
    BY <2>2, <1>1, <1>2, <1>3
  <2>4. x + y = a + b + s
    BY <2>3
  <2>5. n * (p + q) = a + b
    BY <2>1, <2>2
  <2> QED BY <2>4, <2>5
<1>5. (n * (p + q) + s) % n = s
  BY DivModUnique
<1>6. r + y \in Int /\ (r + y) % n = s
  BY <1>1, <1>2, <1>3
<1> QED BY <1>1, <1>4, <1>5, <1>6

\* Whole turns do not count.
LEMMA ModTurns ==
  ASSUME NEW n \in Nat \ {0}, NEW x \in Int, NEW k \in Int
  PROVE  (x + n * k) % n = x % n
<1>1. PICK q \in Int, r \in 0..(n - 1) : x = n * q + r /\ r = x % n
  BY DivMod
<1>2. x + n * k = n * (q + k) + r
  BY <1>1
<1>3. (n * (q + k) + r) % n = r
  BY DivModUnique
<1> QED BY <1>1, <1>2, <1>3

LEMMA ModTurn ==
  ASSUME NEW n \in Nat \ {0}, NEW x \in Int
  PROVE  (x + n) % n = x % n
<1>1. PICK k \in Int : k = 1
  OBVIOUS
<1>2. (x + n * k) % n = x % n
  BY ModTurns
<1>3. n * k = n
  BY <1>1
<1> QED BY <1>2, <1>3

\* Two numbers less than n apart have the same remainder only if they are the same.
LEMMA ModDiffer ==
  ASSUME NEW n \in Nat \ {0}, NEW x \in Int, NEW y \in Int, x % n = y % n, x - y < n, y - x < n
  PROVE  x = y
<1>1. PICK q \in Int, r \in 0..(n - 1) : x = n * q + r /\ r = x % n
  BY DivMod
<1>2. PICK p \in Int, s \in 0..(n - 1) : y = n * p + s /\ s = y % n
  BY DivMod
<1>3. x - y = n * (q - p)
  BY <1>1, <1>2
<1>4. q = p
  <2>1. CASE q - p >= 1
    <3>1. n * (q - p) >= n
      BY <2>1
    <3> QED BY <3>1, <1>3
  <2>2. CASE p - q >= 1
    <3>1. n * (p - q) >= n
      BY <2>2
    <3>2. n * (p - q) = y - x
      BY <1>1, <1>2
    <3> QED BY <3>1, <3>2
  <2> QED BY <2>1, <2>2
<1> QED BY <1>3, <1>4

-----------------------------------------------------------------------------
(* Claims and what is granted *)

LEMMA SizesFacts ==
  ASSUME NoWrap
  PROVE
  /\ Span \in Nat /\ Span \div 2 \in Nat /\ 2 * (Span \div 2) <= Span
  /\ MaxElements \in Nat /\ MaxElements < Span \div 2
  /\ MaxClaims \in Nat /\ MaxClaims < Span \div 2
  /\ BlockSize \in Nat /\ BlockSize >= 2 /\ BlockSize < Span \div 2
  /\ MaxBulk \in Nat
  BY SizesAssumption, BulkAssumption DEF NoWrap

\* A difference of less than half a span is told from its remainder.
LEMMA Circular ==
  ASSUME NoWrap, NEW d \in Int, d < Span \div 2, -d < Span \div 2
  PROVE  /\ circular_less_than(0, d % Span) <=> d > 0
         /\ d >= 0 => d % Span = d
<1>1. Span \in Nat \ {0} /\ Span \div 2 \in Nat /\ 2 * (Span \div 2) <= Span
  BY SizesFacts
<1>2. CASE d >= 0
  <2>1. d % Span = d
    BY <1>1, <1>2, ModSmall
  <2>2. (0 - d) % Span = IF d = 0 THEN 0 ELSE Span - d
    <3>1. PICK x \in Int : x = 0 - d
      OBVIOUS
    <3>2. (0 <= x /\ x < Span => x % Span = x) /\ (-Span <= x /\ x < 0 => x % Span = x + Span)
      BY <1>1, ModSmall
    <3> QED BY <3>1, <3>2, <1>1, <1>2
  <2> QED BY <2>1, <2>2, <1>1, <1>2 DEF circular_less_than
<1>3. CASE d < 0
  <2>1. d % Span = d + Span
    BY <1>1, <1>3, ModSmall
  <2>2. (0 - (d + Span)) % Span = -d
    <3>1. PICK x \in Int : x = 0 - (d + Span)
      BY <1>1
    <3>2. -Span <= x /\ x < 0 => x % Span = x + Span
      BY <1>1, ModSmall
    <3> QED BY <3>1, <3>2, <1>1, <1>3
  <2> QED BY <2>1, <2>2, <1>1, <1>3 DEF circular_less_than
<1> QED BY <1>2, <1>3

LEMMA SmallIsSelf ==
  ASSUME NoWrap, NEW x \in Nat, x < Span
  PROVE  x % Span = x
  BY SizesFacts, ModSmall

\* Least
LEMMA LeastIs ==
  ASSUME NEW a \in Int, NEW b \in Int
  PROVE  Least(a, b) \in Int /\ Least(a, b) <= a /\ Least(a, b) <= b /\ Least(a, b) \in {a, b}
  BY DEF Least

-----------------------------------------------------------------------------
(* Shapes *)

LEMMA Shapes ==
  ASSUME ConsumerType, NEW c \in Consumers
  PROVE  /\ consumer = [d \in Consumers |-> consumer[d]]
         /\ consumer[c].pc = "check" => consumer[c] \in Checking
         /\ consumer[c].pc = "claim" => consumer[c] \in Claiming
         /\ consumer[c].pc = "recheck" => consumer[c] \in Rechecking
         /\ consumer[c].pc = "undo" => consumer[c] \in Undoing
         /\ consumer[c].pc = "take" => consumer[c] \in Taking
         /\ consumer[c].pc = "header" => consumer[c] \in Heading
         /\ consumer[c].pc = "tail" => consumer[c] \in Tailing
         /\ consumer[c].pc = "find" => consumer[c] \in Finding
         /\ consumer[c].pc = "read" => consumer[c] \in Readings
         /\ consumer[c].pc = "empty" => consumer[c] \in Emptying
         /\ consumer[c].pc \in {"unlink", "release"} => consumer[c] \in Freeing
<1>1. /\ consumer = [d \in Consumers |-> consumer[d]]
      /\ \/ consumer[c] \in Checking \/ consumer[c] \in Claiming \/ consumer[c] \in Rechecking
         \/ consumer[c] \in Undoing \/ consumer[c] \in Taking \/ consumer[c] \in Heading
         \/ consumer[c] \in Tailing \/ consumer[c] \in Finding \/ consumer[c] = Idle
         \/ consumer[c] \in Readings \/ consumer[c] \in Emptying \/ consumer[c] \in Freeing
  BY DEF ConsumerType, Records, Rests
<1>2. ASSUME NEW r PROVE /\ r \in Checking => r.pc = "check"
                         /\ r \in Claiming => r.pc = "claim"
                         /\ r \in Rechecking => r.pc = "recheck"
                         /\ r \in Undoing => r.pc = "undo"
                         /\ r \in Taking => r.pc = "take"
                         /\ r \in Heading => r.pc = "header"
                         /\ r \in Tailing => r.pc = "tail"
                         /\ r \in Finding => r.pc = "find"
                         /\ r \in Readings => r.pc = "read"
                         /\ r \in Emptying => r.pc = "empty"
                         /\ r \in Freeing => r.pc \in {"unlink", "release"}
                         /\ r = Idle => r.pc = "idle"
  BY DEF Checking, Claiming, Rechecking, Undoing, Taking, Heading, Tailing, Finding, Readings,
         Emptying, Freeing, Idle
<1> QED BY <1>1, <1>2

\* The types of fields, by the place.
LEMMA Fields ==
  ASSUME ConsumerType, NEW c \in Consumers
  PROVE  /\ In(c, "check") => consumer[c].tail \in Nat /\ consumer[c].over \in Nat /\ consumer[c].max \in Positive
         /\ In(c, "claim") => consumer[c].over \in Nat /\ consumer[c].desired \in Positive
         /\ In(c, "recheck") => consumer[c].my \in Nat /\ consumer[c].desired \in Positive
         /\ In(c, "undo") => consumer[c].actual \in Nat /\ consumer[c].excess \in Positive
         /\ In(c, "take") => consumer[c].actual \in Positive /\ consumer[c].excess = 0
         /\ In(c, "empty") \/ In(c, "unlink") \/ In(c, "release") => consumer[c].rest.pc \in {"idle", "read"}
<1> USE Shapes
<1>1. In(c, "check") => consumer[c].tail \in Nat /\ consumer[c].over \in Nat /\ consumer[c].max \in Positive
  BY DEF In, Checking
<1>2. In(c, "claim") => consumer[c].over \in Nat /\ consumer[c].desired \in Positive
  BY DEF In, Claiming
<1>3. In(c, "recheck") => consumer[c].my \in Nat /\ consumer[c].desired \in Positive
  BY DEF In, Rechecking
<1>4. In(c, "undo") => consumer[c].actual \in Nat /\ consumer[c].excess \in Positive
  BY DEF In, Undoing
<1>5. In(c, "take") => consumer[c].actual \in Positive /\ consumer[c].excess = 0
  BY DEF In, Taking
<1>6. In(c, "empty") \/ In(c, "unlink") \/ In(c, "release") => consumer[c].rest.pc \in {"idle", "read"}
  BY DEF In, Emptying, Freeing, Rests, Idle, Readings
<1> QED BY <1>1, <1>2, <1>3, <1>4, <1>5, <1>6

\* The places at which a consumer has claimed.
Claimers == {"recheck", "undo", "take"}

LEMMA TokenCount ==
  ASSUME NEW c, NEW m \in Int, NEW b \in Int, m <= b + 1
  PROVE  IsFiniteSet({c} \X (m..b)) /\ Cardinality({c} \X (m..b)) = b - m + 1
<1>1. IsFiniteSet({c}) /\ Cardinality({c}) = 1
  BY FS_Singleton
<1>2. IsFiniteSet(m..b) /\ Cardinality(m..b) = IF m > b THEN 0 ELSE b - m + 1
  BY FS_Interval
<1>3. Cardinality(m..b) = b - m + 1 /\ b - m + 1 \in Int
  BY <1>2
<1>4. /\ IsFiniteSet({c} \X (m..b))
      /\ Cardinality({c} \X (m..b)) = Cardinality({c}) * Cardinality(m..b)
  BY <1>1, <1>2, FS_Product
<1> QED BY <1>1, <1>3, <1>4

\* Adding tokens that were not there, and taking away some that were.
LEMMA CountAdd ==
  ASSUME NEW S, IsFiniteSet(S), NEW N, IsFiniteSet(N), S \cap N = {}
  PROVE  IsFiniteSet(S \cup N) /\ Cardinality(S \cup N) = Cardinality(S) + Cardinality(N)
<1>1. Cardinality(S) \in Nat /\ Cardinality(N) \in Nat
  BY FS_CardinalityType
<1>2. IsFiniteSet(S \cup N) /\ Cardinality(S \cup N) = Cardinality(S) + Cardinality(N) - Cardinality(S \cap N)
  BY FS_Union
<1>3. Cardinality(S \cap N) = 0
  BY FS_EmptySet
<1> QED BY <1>1, <1>2, <1>3

LEMMA CountRemove ==
  ASSUME NEW S, IsFiniteSet(S), NEW N, N \subseteq S
  PROVE  IsFiniteSet(S \ N) /\ Cardinality(S \ N) = Cardinality(S) - Cardinality(N)
<1>1. IsFiniteSet(S \ N) /\ Cardinality(S \ N) = Cardinality(S) - Cardinality(S \cap N)
  BY FS_Difference
<1>2. S \cap N = N
  OBVIOUS
<1> QED BY <1>1, <1>2

\* What a consumer has claimed.
LEMMA PendingIs ==
  ASSUME ConsumerType, NEW c \in Consumers
  PROVE  /\ Pending(c) \in Nat
         /\ In(c, "recheck") => Pending(c) = consumer[c].desired
         /\ In(c, "undo") \/ In(c, "take") => Pending(c) = consumer[c].actual + consumer[c].excess
         /\ consumer[c].pc \notin Claimers => Pending(c) = 0
<1>1. In(c, "recheck") => Pending(c) = consumer[c].desired
  BY DEF Pending, In
<1>2. In(c, "undo") \/ In(c, "take") => Pending(c) = consumer[c].actual + consumer[c].excess
  BY DEF Pending, In
<1>3. consumer[c].pc \notin Claimers => Pending(c) = 0
  BY DEF Pending, Claimers, In
<1> QED BY <1>1, <1>2, <1>3, Fields DEF In, Claimers, Positive

LEMMA CountsFinite ==
  ASSUME ConsumerType, CountInv
  PROVE  /\ Cardinality(Claimed) \in Nat
         /\ \A T \in SUBSET Late : /\ Grants \cup Wants(T) \subseteq Claimed
                                   /\ IsFiniteSet(Grants \cup Wants(T))
                                   /\ Cardinality(Grants \cup Wants(T)) \in Nat
                                   /\ Cardinality(Grants \cup Wants(T)) <= Cardinality(Claimed)
         /\ Grants \subseteq Claimed /\ IsFiniteSet(Grants) /\ Cardinality(Grants) \in Nat
<1>1. IsFiniteSet(Claimed) /\ Cardinality(Claimed) \in Nat
  BY FS_CardinalityType DEF CountInv
<1>2. Grants \subseteq Claimed
  <2> SUFFICES ASSUME NEW t \in Grants PROVE t \in Claimed
    OBVIOUS
  <2>1. t \in Tokens /\ t[1] \in Consumers /\ t[2] \in Nat /\ consumer[t[1]].pc \in {"undo", "take"} /\ t[2] <= consumer[t[1]].actual
    BY DEF Grants, Tokens, Positive
  <2>2. /\ Pending(t[1]) = consumer[t[1]].actual + consumer[t[1]].excess
        /\ consumer[t[1]].actual \in Nat /\ consumer[t[1]].excess \in Nat
    BY <2>1, PendingIs, Fields DEF In, Positive
  <2> QED BY <2>1, <2>2 DEF Claimed
<1>3. ASSUME NEW T \in SUBSET Late PROVE Wants(T) \subseteq Claimed
  <2> SUFFICES ASSUME NEW t \in Wants(T) PROVE t \in Claimed
    OBVIOUS
  <2>1. t \in Tokens /\ t[1] \in Consumers /\ In(t[1], "recheck") /\ t[2] <= consumer[t[1]].desired
    BY DEF Wants, Late, Tokens
  <2> QED BY <2>1, PendingIs DEF Claimed
<1>4. ASSUME NEW U, U \subseteq Claimed
      PROVE  IsFiniteSet(U) /\ Cardinality(U) \in Nat /\ Cardinality(U) <= Cardinality(Claimed)
  BY <1>1, <1>4, FS_Subset, FS_CardinalityType
<1> QED BY <1>1, <1>2, <1>3, <1>4

\* What the others do keeps the counts.
LEMMA ClaimsKept ==
  ASSUME ConsumerType, CountType, CountInv, ClaimInv,
         UNCHANGED <<claims, dequeueOvercommit, taken>>, pushed' \in Nat, pushed' >= pushed,
         \A d \in Consumers : \/ consumer'[d] = consumer[d]
                              \/ consumer[d].pc \notin Claimers /\ consumer'[d].pc \notin Claimers
  PROVE  CountInv' /\ ClaimInv'
<1>1. Claimed' = Claimed
  <2>1. ASSUME NEW d \in Consumers PROVE Pending(d)' = Pending(d)
    BY DEF Pending, Claimers, In
  <2> QED BY <2>1 DEF Claimed, Tokens
<1>2. Grants' = Grants
  BY DEF Grants, Tokens, Claimers
<1>3. Late' = Late
  BY DEF Late, In, Claimers
<1>4. ASSUME NEW T \in SUBSET Late PROVE Wants(T)' = Wants(T)
  BY DEF Wants, Late, In, Claimers, Tokens
<1>5. CountInv'
  BY <1>1, <1>2, CountsFinite DEF CountInv, CountType
<1>6. ASSUME NEW T \in SUBSET Late, T # {}
      PROVE  (\/ taken + Cardinality(Grants \cup Wants(T)) <= pushed
              \/ \E l \in T : consumer[l].my >= taken + Cardinality(Grants \cup Wants(T \ {l})))'
  <2>1. CASE taken + Cardinality(Grants \cup Wants(T)) <= pushed
    <3>1. Cardinality(Grants \cup Wants(T)) \in Nat
      BY CountsFinite
    <3>2. Cardinality(Grants' \cup Wants(T)') = Cardinality(Grants \cup Wants(T))
      BY <1>2, <1>4
    <3>3. taken' = taken /\ taken \in Nat /\ pushed \in Nat
      BY DEF CountType
    <3>4. taken' + Cardinality(Grants' \cup Wants(T)') <= pushed'
      BY <2>1, <3>1, <3>2, <3>3
    <3> QED BY <3>4
  <2>2. ASSUME NEW l \in T, consumer[l].my >= taken + Cardinality(Grants \cup Wants(T \ {l}))
        PROVE  (consumer[l].my >= taken + Cardinality(Grants \cup Wants(T \ {l})))'
    <3>1. consumer'[l] = consumer[l] /\ l \in Consumers
      BY <2>2 DEF Late, In, Claimers
    <3>2. Wants(T \ {l})' = Wants(T \ {l})
      BY <1>4, <2>2
    <3> QED BY <2>2, <3>1, <3>2, <1>2
  <2>3. \/ taken + Cardinality(Grants \cup Wants(T)) <= pushed
        \/ \E l \in T : consumer[l].my >= taken + Cardinality(Grants \cup Wants(T \ {l}))
    BY <1>6 DEF ClaimInv
  <2> QED BY <2>1, <2>2, <2>3
<1>7. ClaimInv'
  BY <1>3, <1>6 DEF ClaimInv
<1> QED BY <1>5, <1>7

\* Setting one consumer.
LEMMA SetIs ==
  ASSUME ConsumerType, NEW c \in Consumers, NEW r, Set(c, r)
  PROVE  consumer'[c] = r /\ \A d \in Consumers \ {c} : consumer'[d] = consumer[d]
  BY Shapes DEF Set

\* What is granted is there: as much as the tail of now allows.
LEMMA ActualIs ==
  ASSUME NoWrap, ConsumerType, CountType, SeenInv, NEW c \in Consumers, In(c, "recheck")
  PROVE  /\ Actual(c) \in 0..consumer[c].desired
         /\ Actual(c) > 0 => consumer[c].my + Actual(c) <= pushed
<1>1. consumer[c].my \in Nat /\ consumer[c].desired \in Positive /\ consumer[c].my <= claims
  BY Fields DEF SeenInv
<1>2. PICK d \in Int : d = pushed - consumer[c].my
  BY <1>1 DEF CountType
<1>3. d < Span \div 2 /\ -d < Span \div 2
  BY <1>1, <1>2, SizesFacts DEF CountType
<1>4. /\ circular_less_than(0, d % Span) <=> d > 0
      /\ d >= 0 => d % Span = d
  BY <1>3, Circular
<1>5. Actual(c) = IF d > 0 THEN Least(d, consumer[c].desired) ELSE 0
  BY <1>2, <1>4 DEF Actual, CountType
<1>6. CASE d > 0
  <2>1. /\ Least(d, consumer[c].desired) \in Int /\ Least(d, consumer[c].desired) <= d
        /\ Least(d, consumer[c].desired) <= consumer[c].desired
        /\ Least(d, consumer[c].desired) \in {d, consumer[c].desired}
    BY <1>1 DEF Positive, Least
  <2>2. Actual(c) = Least(d, consumer[c].desired)
    BY <1>5, <1>6
  <2> QED BY <2>1, <2>2, <1>1, <1>2, <1>6 DEF Positive, CountType
<1>7. CASE ~(d > 0)
  BY <1>1, <1>5, <1>7 DEF Positive
<1> QED BY <1>6, <1>7

\* What a consumer wants is there by its count, and more than nothing.
LEMMA DesiredIs ==
  ASSUME NoWrap, ConsumerType, CountType, CountInv, SeenInv, NEW c \in Consumers, CheckCount(c)
  PROVE  \/ consumer'[c] = Idle
         \/ consumer'[c] \in Claiming /\ consumer'[c].over = consumer[c].over
<1> DEFINE desired == (consumer[c].tail - (dequeueOptimisticCount - consumer[c].over)) % Span
<1>1. /\ In(c, "check") /\ consumer[c].tail \in Nat /\ consumer[c].over \in Nat /\ consumer[c].max \in Positive
      /\ consumer[c].tail <= pushed /\ consumer[c].over <= dequeueOvercommit
  BY Fields DEF SeenInv, CheckCount
<1>2. dequeueOvercommit <= claims
  BY CountsFinite DEF CountInv, CountType
<1>3. PICK d \in Int : d = consumer[c].tail - (dequeueOptimisticCount - consumer[c].over)
  BY <1>1 DEF CountType
<1>4. d < Span \div 2 /\ -d < Span \div 2
  BY <1>1, <1>2, <1>3, SizesFacts DEF CountType
<1>5. (circular_less_than(0, desired) <=> d > 0) /\ (d >= 0 => desired = d)
  BY <1>3, <1>4, Circular
<1>6. CASE d > 0
  <2>1. Set(c, [pc |-> "claim", over |-> consumer[c].over, desired |-> Least(desired, consumer[c].max)])
    BY <1>5, <1>6 DEF CheckCount
  <2>2. Least(desired, consumer[c].max) \in Positive
    <3>1. desired = d
      BY <1>5, <1>6
    <3>2. Least(d, consumer[c].max) \in {d, consumer[c].max}
      BY DEF Least
    <3> HIDE DEF desired
    <3> QED BY <3>1, <3>2, <1>1, <1>6 DEF Positive
  <2>3. consumer'[c] = [pc |-> "claim", over |-> consumer[c].over, desired |-> Least(desired, consumer[c].max)]
    BY <2>1, SetIs
  <2> QED BY <2>2, <2>3, <1>1 DEF Claiming
<1>7. CASE ~(d > 0)
  <2>1. Set(c, Idle)
    BY <1>5, <1>7 DEF CheckCount
  <2> QED BY <2>1, SetIs
<1> QED BY <1>6, <1>7

\* Claim: the new tokens come after all that was claimed before.
LEMMA ClaimKeeps ==
  ASSUME NoWrap, ConsumerType, CountType, CountInv, SeenInv, ClaimInv, NEW c \in Consumers, Claim(c)
  PROVE  /\ CountInv' /\ ClaimInv'
         /\ consumer'[c] \in Rechecking /\ consumer'[c].my <= claims
         /\ claims' = claims + consumer[c].desired /\ claims' \in Nat /\ claims' <= MaxClaims
         /\ dequeueOptimisticCount' = claims'
<1> DEFINE w == consumer[c].desired
<1>1. /\ In(c, "claim") /\ consumer[c].over \in Nat /\ w \in Positive /\ consumer[c].over <= dequeueOvercommit
  BY Fields DEF SeenInv, Claim
<1>2. dequeueOvercommit <= claims /\ Cardinality(Claimed) \in Nat
  BY CountsFinite DEF CountInv, CountType
<1>3. /\ claims' = claims + w /\ claims' \in Nat /\ claims' <= MaxClaims
      /\ UNCHANGED <<pushed, taken, dequeueOvercommit>>
  BY <1>1 DEF Claim, CountType, Positive
<1>4. (dequeueOptimisticCount - consumer[c].over) % Span = claims - consumer[c].over
  <2>1. PICK x \in Nat : x = claims - consumer[c].over
    BY <1>1, <1>2 DEF CountType
  <2>2. x < Span
    BY <2>1, <1>1, SizesFacts DEF CountType
  <2> QED BY <2>1, <2>2, SmallIsSelf DEF CountType
<1>5. dequeueOptimisticCount' = claims'
  <2>1. PICK x \in Nat : x = claims + w
    BY <1>1 DEF CountType, Positive
  <2>2. x < Span
    BY <2>1, <1>3, SizesFacts
  <2> QED BY <2>1, <2>2, <1>3, SmallIsSelf DEF CountType, Claim
<1>6. /\ consumer'[c] = [pc |-> "recheck", my |-> claims - consumer[c].over, desired |-> w]
      /\ \A d \in Consumers \ {c} : consumer'[d] = consumer[d]
  BY <1>4, SetIs DEF Claim
<1>7. consumer'[c] \in Rechecking /\ consumer'[c].my <= claims
  BY <1>6, <1>1, <1>2 DEF Rechecking, CountType, Positive
<1>8. /\ Claimed \cap ({c} \X (1..w)) = {}
      /\ \A t : t \in Claimed' <=> t \in Claimed \/ t \in {c} \X (1..w)
  <2>1. ASSUME NEW d \in Consumers \ {c} PROVE Pending(d)' = Pending(d)
    BY <1>6, <2>1 DEF Pending, In
  <2>2. Pending(c) = 0 /\ Pending(c)' = w
    BY <1>1, <1>6 DEF Pending, In
  <2>3. \A t : t \in {c} \X (1..w) <=> t \in Tokens /\ t[1] = c /\ t[2] <= w
    BY <1>1 DEF Tokens, Positive
  <2>4. \A t : t \in Claimed' <=> t \in Tokens /\ t[2] <= Pending(t[1])'
    BY DEF Claimed, Tokens
  <2>5. \A t \in Tokens : t[1] \in Consumers /\ t[2] \in Nat /\ t[2] >= 1
    BY DEF Tokens, Positive
  <2>6. \A t : t \in Claimed <=> t \in Tokens /\ t[2] <= Pending(t[1])
    BY DEF Claimed
  <2>7. ASSUME NEW t PROVE t \in Claimed' <=> t \in Claimed \/ t \in {c} \X (1..w)
    <3>1. CASE t \in Tokens /\ t[1] = c
      BY <3>1, <2>2, <2>3, <2>4, <2>5, <2>6
    <3>2. CASE t \in Tokens /\ t[1] # c
      BY <3>2, <2>1, <2>3, <2>4, <2>5, <2>6
    <3>3. CASE t \notin Tokens
      BY <3>3, <2>3, <2>4, <2>6
    <3> QED BY <3>1, <3>2, <3>3
  <2>8. ASSUME NEW t PROVE ~(t \in Claimed /\ t \in {c} \X (1..w))
    BY <2>2, <2>3, <2>5, <2>6
  <2> QED BY <2>7, <2>8
<1>9. IsFiniteSet(Claimed') /\ Cardinality(Claimed') = Cardinality(Claimed) + w
  <2> DEFINE N == {c} \X (1..w)
  <2>1. 1 \in Int /\ w \in Int /\ 1 <= w + 1 /\ IsFiniteSet(Claimed)
    BY <1>1 DEF Positive, CountInv
  <2>2. IsFiniteSet(N) /\ Cardinality(N) = w - 1 + 1
    <3> HIDE DEF w
    <3> QED BY <2>1, TokenCount
  <2>3. Claimed' = Claimed \cup N /\ Claimed \cap N = {}
    BY <1>8
  <2> HIDE DEF N, w
  <2>4. IsFiniteSet(Claimed \cup N) /\ Cardinality(Claimed \cup N) = Cardinality(Claimed) + Cardinality(N)
    BY <2>1, <2>2, <2>3, CountAdd
  <2> QED BY <2>1, <2>2, <2>3, <2>4, <1>2
<1>10. Grants' = Grants
  BY <1>6, <1>1 DEF Grants, Tokens, In
<1>11. Late' = Late \cup {c} /\ c \notin Late
  BY <1>6, <1>1 DEF Late, In
<1>12. ASSUME NEW T \in SUBSET Late PROVE Wants(T)' = Wants(T)
  BY <1>6, <1>11 DEF Wants, Tokens, Late
<1>13. CountInv'
  <2>1. Cardinality(Grants') = Cardinality(Grants)
    BY <1>10
  <2>2. w \in Nat /\ taken' = taken /\ pushed' = pushed /\ dequeueOvercommit' = dequeueOvercommit /\ claims' = claims + w
    BY <1>1, <1>3 DEF Positive
  <2>3. claims = taken + dequeueOvercommit + Cardinality(Claimed) /\ taken + Cardinality(Grants) <= pushed
    BY DEF CountInv
  <2> HIDE DEF w
  <2>4. claims' = taken' + dequeueOvercommit' + Cardinality(Claimed')
    BY <2>2, <2>3, <1>9, <1>2 DEF CountType
  <2>5. taken' + Cardinality(Grants') <= pushed'
    BY <2>1, <2>2, <2>3
  <2> QED BY <1>9, <2>4, <2>5 DEF CountInv
<1>14. ASSUME NEW T \in SUBSET (Late'), T # {}
       PROVE  (\/ taken + Cardinality(Grants \cup Wants(T)) <= pushed
               \/ \E l \in T : consumer[l].my >= taken + Cardinality(Grants \cup Wants(T \ {l})))'
  <2>1. CASE c \in T
    <3>1. T \ {c} \in SUBSET Late
      BY <1>11
    <3>2. Cardinality((Grants \cup Wants(T \ {c}))') = Cardinality(Grants \cup Wants(T \ {c}))
      BY <1>10, <1>12, <3>1
    <3>3. Cardinality(Grants \cup Wants(T \ {c})) \in Nat /\ Cardinality(Grants \cup Wants(T \ {c})) <= Cardinality(Claimed)
      BY <3>1, CountsFinite
    <3>4. consumer'[c].my >= taken' + Cardinality((Grants \cup Wants(T \ {c}))')
      BY <3>2, <3>3, <1>6, <1>3, <1>1, <1>2 DEF CountInv, CountType
    <3> QED BY <3>4, <2>1
  <2>2. CASE c \notin T
    <3>1. T \in SUBSET Late
      BY <1>11, <2>2
    <3>2. Cardinality((Grants \cup Wants(T))') = Cardinality(Grants \cup Wants(T))
      BY <1>10, <1>12, <3>1
    <3>3. ASSUME NEW l \in T
          PROVE  /\ Cardinality((Grants \cup Wants(T \ {l}))') = Cardinality(Grants \cup Wants(T \ {l}))
                 /\ consumer'[l] = consumer[l]
      <4>1. T \ {l} \in SUBSET Late /\ l \in Consumers /\ l # c
        BY <3>1, <3>3, <2>2 DEF Late
      <4> QED BY <1>10, <1>12, <4>1, <1>6
    <3>4. \/ taken + Cardinality(Grants \cup Wants(T)) <= pushed
          \/ \E l \in T : consumer[l].my >= taken + Cardinality(Grants \cup Wants(T \ {l}))
      BY <3>1, <1>14 DEF ClaimInv
    <3>5. CASE taken + Cardinality(Grants \cup Wants(T)) <= pushed
      BY <3>5, <3>2, <1>3
    <3>6. ASSUME NEW l \in T, consumer[l].my >= taken + Cardinality(Grants \cup Wants(T \ {l}))
          PROVE  (consumer[l].my >= taken + Cardinality(Grants \cup Wants(T \ {l})))'
      BY <3>6, <3>3, <1>3
    <3> QED BY <3>4, <3>5, <3>6
  <2> QED BY <2>1, <2>2
<1>15. ClaimInv'
  BY <1>14 DEF ClaimInv
<1> QED BY <1>3, <1>5, <1>7, <1>13, <1>15

\* Recheck: what is granted is there, besides all that was granted before.
LEMMA RecheckKeeps ==
  ASSUME NoWrap, ConsumerType, CountType, CountInv, SeenInv, ClaimInv, NEW c \in Consumers, Recheck(c)
  PROVE  CountInv' /\ ClaimInv' /\ consumer'[c] \in Undoing \cup Taking
<1> DEFINE w == consumer[c].desired
           g == Actual(c)
           N == {c} \X (1..g)
           W == {c} \X (1..w)
<1>1. In(c, "recheck") /\ w \in Positive /\ consumer[c].my \in Nat /\ g \in 0..w /\ (g > 0 => consumer[c].my + g <= pushed)
  BY Fields, ActualIs DEF Recheck
<1>2. /\ consumer'[c] = [pc |-> IF g < w THEN "undo" ELSE "take", actual |-> g, excess |-> w - g]
      /\ \A d \in Consumers \ {c} : consumer'[d] = consumer[d]
      /\ UNCHANGED <<pushed, taken, claims, dequeueOvercommit>>
  BY SetIs DEF Recheck, shared
<1>3. consumer'[c] \in Undoing \cup Taking
  <2>1. CASE g < w
    BY <2>1, <1>1, <1>2 DEF Undoing, Positive
  <2>2. CASE ~(g < w)
    BY <2>2, <1>1, <1>2 DEF Taking, Positive
  <2> QED BY <2>1, <2>2
<1>4. /\ IsFiniteSet(N) /\ Cardinality(N) = g
      /\ IsFiniteSet(W) /\ Cardinality(W) = w
  <2>1. 1 \in Int /\ w \in Int /\ g \in Int /\ 1 <= w + 1 /\ 1 <= g + 1
    BY <1>1 DEF Positive
  <2> HIDE DEF w, g
  <2>2. IsFiniteSet(N) /\ Cardinality(N) = g - 1 + 1
    BY <2>1, TokenCount
  <2>3. IsFiniteSet(W) /\ Cardinality(W) = w - 1 + 1
    BY <2>1, TokenCount
  <2> QED BY <2>1, <2>2, <2>3
<1>5. /\ \A t : t \in N <=> t \in Tokens /\ t[1] = c /\ t[2] <= g
      /\ \A t : t \in W <=> t \in Tokens /\ t[1] = c /\ t[2] <= w
      /\ \A t \in Tokens : t[1] \in Consumers
  BY <1>1 DEF Tokens, Positive
<1> HIDE DEF w, g, N, W
<1>6. Claimed' = Claimed
  <2>1. ASSUME NEW d \in Consumers PROVE Pending(d)' = Pending(d)
    <3>1. CASE d = c
      BY <3>1, <1>1, <1>2 DEF Pending, In, w, Positive
    <3>2. CASE d # c
      BY <3>2, <1>2 DEF Pending, In
    <3> QED BY <3>1, <3>2
  <2> QED BY <2>1 DEF Claimed, Tokens
<1>7. Late' = Late \ {c} /\ c \in Late
  BY <1>1, <1>2 DEF Late, In
<1>8. \A t : t \in Grants' <=> t \in Grants \/ t \in N
  <2>1. \A t : t \in Grants' <=> t \in Tokens /\ consumer'[t[1]].pc \in {"undo", "take"} /\ t[2] <= consumer'[t[1]].actual
    BY DEF Grants, Tokens
  <2>2. \A t : t \in Grants <=> t \in Tokens /\ consumer[t[1]].pc \in {"undo", "take"} /\ t[2] <= consumer[t[1]].actual
    BY DEF Grants
  <2>3. ASSUME NEW t PROVE t \in Grants' <=> t \in Grants \/ t \in N
    <3>1. CASE t[1] = c
      BY <3>1, <2>1, <2>2, <1>5, <1>1, <1>2 DEF In
    <3>2. CASE t[1] # c
      BY <3>2, <2>1, <2>2, <1>5, <1>2
    <3> QED BY <3>1, <3>2
  <2> QED BY <2>3
<1>9. ASSUME NEW T \in SUBSET (Late \ {c})
      PROVE  /\ Cardinality(Grants \cup Wants(T)) \in Nat
             /\ Cardinality(Grants' \cup Wants(T)') = Cardinality(Grants \cup Wants(T)) + g
             /\ Cardinality(Grants \cup Wants(T \cup {c})) = Cardinality(Grants \cup Wants(T)) + w
  <2>1. PICK U : U = Grants \cup Wants(T)
    OBVIOUS
  <2>2. IsFiniteSet(Grants \cup Wants(T)) /\ Cardinality(Grants \cup Wants(T)) \in Nat
    BY CountsFinite
  <2>3. \A t \in Grants \cup Wants(T) : t[1] # c
    BY <1>1 DEF Grants, Wants, In
  <2>4. (Grants \cup Wants(T)) \cap N = {} /\ (Grants \cup Wants(T)) \cap W = {}
    BY <2>3, <1>5
  <2>5. Wants(T)' = Wants(T)
    BY <1>2 DEF Wants, Tokens
  <2>6. Grants' \cup Wants(T)' = (Grants \cup Wants(T)) \cup N
    BY <1>8, <2>5
  <2>7. Grants \cup Wants(T \cup {c}) = (Grants \cup Wants(T)) \cup W
    <3>1. \A t : t \in Wants(T \cup {c}) <=> t \in Wants(T) \/ t \in W
      BY <1>5 DEF Wants, w
    <3> QED BY <3>1
  <2>8. Cardinality((Grants \cup Wants(T)) \cup N) = Cardinality(Grants \cup Wants(T)) + Cardinality(N)
    BY <2>2, <2>4, <1>4, CountAdd
  <2>9. Cardinality((Grants \cup Wants(T)) \cup W) = Cardinality(Grants \cup Wants(T)) + Cardinality(W)
    BY <2>2, <2>4, <1>4, CountAdd
  <2> QED BY <2>2, <2>6, <2>7, <2>8, <2>9, <1>4
<1>10. g \in Nat /\ w \in Nat /\ g <= w /\ taken \in Nat /\ pushed \in Nat /\ consumer[c].my \in Nat
  BY <1>1 DEF Positive, CountType
<1>11. ASSUME NEW T \in SUBSET (Late \ {c})
       PROVE  \/ taken + Cardinality(Grants' \cup Wants(T)') <= pushed
              \/ g = 0
              \/ \E l \in T : consumer[l].my >= taken + Cardinality(Grants' \cup Wants(T \ {l})')
  <2>1. T \cup {c} \in SUBSET Late /\ T \cup {c} # {}
    BY <1>7
  <2>2. \/ taken + Cardinality(Grants \cup Wants(T \cup {c})) <= pushed
        \/ \E l \in T \cup {c} : consumer[l].my >= taken + Cardinality(Grants \cup Wants((T \cup {c}) \ {l}))
    BY <2>1 DEF ClaimInv
  <2>6. /\ Cardinality(Grants \cup Wants(T)) \in Nat
        /\ Cardinality(Grants' \cup Wants(T)') = Cardinality(Grants \cup Wants(T)) + g
        /\ Cardinality(Grants \cup Wants(T \cup {c})) = Cardinality(Grants \cup Wants(T)) + w
    BY <1>9
  <2>3. CASE taken + Cardinality(Grants \cup Wants(T \cup {c})) <= pushed
    BY <2>3, <2>6, <1>10
  <2>4. ASSUME consumer[c].my >= taken + Cardinality(Grants \cup Wants((T \cup {c}) \ {c}))
        PROVE  taken + Cardinality(Grants' \cup Wants(T)') <= pushed \/ g = 0
    <3>1. (T \cup {c}) \ {c} = T
      OBVIOUS
    <3>2. consumer[c].my >= taken + Cardinality(Grants \cup Wants(T))
      BY <3>1, <2>4
    <3> QED BY <3>2, <2>6, <1>10, <1>1
  <2>5. ASSUME NEW l \in T, consumer[l].my >= taken + Cardinality(Grants \cup Wants((T \cup {c}) \ {l}))
        PROVE  consumer[l].my >= taken + Cardinality(Grants' \cup Wants(T \ {l})')
    <3>1. (T \cup {c}) \ {l} = (T \ {l}) \cup {c} /\ T \ {l} \in SUBSET (Late \ {c})
      OBVIOUS
    <3>2. consumer[l].my >= taken + Cardinality(Grants \cup Wants((T \ {l}) \cup {c}))
      BY <3>1, <2>5
    <3>3. consumer[l].my \in Nat
      BY Fields DEF Late
    <3>4. /\ Cardinality(Grants \cup Wants(T \ {l})) \in Nat
          /\ Cardinality(Grants' \cup Wants(T \ {l})') = Cardinality(Grants \cup Wants(T \ {l})) + g
          /\ Cardinality(Grants \cup Wants((T \ {l}) \cup {c})) = Cardinality(Grants \cup Wants(T \ {l})) + w
      BY <3>1, <1>9
    <3> QED BY <3>2, <3>3, <3>4, <1>10
  <2> QED BY <2>2, <2>3, <2>4, <2>5
<1>12. taken + Cardinality(Grants') <= pushed
  <2>1. {} \in SUBSET (Late \ {c})
    OBVIOUS
  <2>2. Grants' \cup Wants({})' = Grants' /\ Grants \cup Wants({}) = Grants
    BY DEF Wants
  <2>3. taken + Cardinality(Grants' \cup Wants({})') <= pushed \/ g = 0
    BY <2>1, <1>11
  <2>4. Cardinality(Grants') = Cardinality(Grants) + g /\ Cardinality(Grants) \in Nat
    BY <2>1, <2>2, <1>9
  <2>5. taken + Cardinality(Grants) <= pushed
    BY DEF CountInv
  <2>6. Cardinality(Grants' \cup Wants({})') = Cardinality(Grants')
    BY <2>2
  <2> QED BY <2>3, <2>4, <2>5, <2>6, <1>10
<1>13. CountInv'
  BY <1>2, <1>6, <1>12 DEF CountInv
<1>14. ASSUME NEW T \in SUBSET (Late \ {c}), T # {}
       PROVE  \/ taken + Cardinality(Grants' \cup Wants(T)') <= pushed
              \/ \E l \in T : consumer[l].my >= taken + Cardinality(Grants' \cup Wants(T \ {l})')
  <2>1. CASE g # 0
    BY <1>11, <1>14, <2>1
  <2>2. CASE g = 0
    <3>1. T \in SUBSET Late
      BY <1>14
    <3>2. \/ taken + Cardinality(Grants \cup Wants(T)) <= pushed
          \/ \E l \in T : consumer[l].my >= taken + Cardinality(Grants \cup Wants(T \ {l}))
      BY <3>1, <1>14 DEF ClaimInv
    <3>9. /\ Cardinality(Grants \cup Wants(T)) \in Nat
          /\ Cardinality(Grants' \cup Wants(T)') = Cardinality(Grants \cup Wants(T)) + g
      BY <1>9
    <3>3. Cardinality(Grants' \cup Wants(T)') = Cardinality(Grants \cup Wants(T))
      BY <3>9, <2>2
    <3>4. ASSUME NEW l \in T
          PROVE  Cardinality(Grants' \cup Wants(T \ {l})') = Cardinality(Grants \cup Wants(T \ {l}))
      <4>1. T \ {l} \in SUBSET (Late \ {c})
        OBVIOUS
      <4>2. /\ Cardinality(Grants \cup Wants(T \ {l})) \in Nat
            /\ Cardinality(Grants' \cup Wants(T \ {l})') = Cardinality(Grants \cup Wants(T \ {l})) + g
        BY <4>1, <1>9
      <4> QED BY <4>2, <2>2
    <3> QED BY <3>2, <3>3, <3>4
  <2> QED BY <2>1, <2>2
<1>15. ClaimInv'
  <2>1. ASSUME NEW T \in SUBSET (Late \ {c}), T # {}
        PROVE  (\/ taken + Cardinality(Grants \cup Wants(T)) <= pushed
                \/ \E l \in T : consumer[l].my >= taken + Cardinality(Grants \cup Wants(T \ {l})))'
    <3>1. \A l \in T : consumer'[l] = consumer[l]
      BY <1>2 DEF Late
    <3> QED BY <1>2, <1>14, <2>1, <3>1
  <2> QED BY <2>1, <1>7 DEF ClaimInv
<1> QED BY <1>3, <1>13, <1>15

\* Undo: the excess is no longer claimed.
LEMMA UndoKeeps ==
  ASSUME NoWrap, ConsumerType, CountType, CountInv, ClaimInv, NEW c \in Consumers, Undo(c)
  PROVE  /\ CountInv' /\ ClaimInv'
         /\ consumer'[c] = Idle \/ consumer'[c] \in Taking
         /\ dequeueOvercommit' \in Nat /\ dequeueOvercommit' >= dequeueOvercommit
<1> DEFINE a == consumer[c].actual
           e == consumer[c].excess
           N == {c} \X ((a + 1)..(a + e))
<1>1. In(c, "undo") /\ a \in Nat /\ e \in Positive
  BY Fields DEF Undo
<1>2. /\ consumer'[c] = IF a = 0 THEN Idle ELSE [pc |-> "take", actual |-> a, excess |-> 0]
      /\ \A d \in Consumers \ {c} : consumer'[d] = consumer[d]
      /\ UNCHANGED <<pushed, taken, claims>>
      /\ dequeueOvercommit' = (dequeueOvercommit + e) % Span
  BY SetIs DEF Undo
<1>3. consumer'[c] = Idle \/ consumer'[c] \in Taking
  BY <1>1, <1>2 DEF Taking, Positive
<1>4. IsFiniteSet(N) /\ Cardinality(N) = e
  <2>1. a + 1 \in Int /\ a + e \in Int /\ a + 1 <= a + e + 1
    BY <1>1 DEF Positive
  <2>2. IsFiniteSet(N) /\ Cardinality(N) = (a + e) - (a + 1) + 1
    <3> HIDE DEF a, e
    <3> QED BY <2>1, TokenCount
  <2> QED BY <2>2, <1>1 DEF Positive
<1>5. /\ \A t : t \in N <=> t \in Tokens /\ t[1] = c /\ t[2] > a /\ t[2] <= a + e
      /\ \A t \in Tokens : t[1] \in Consumers /\ t[2] \in Nat /\ t[2] >= 1
  BY <1>1 DEF Tokens, Positive
<1> HIDE DEF a, e, N
<1>6. N \subseteq Claimed /\ \A t : t \in Claimed' <=> t \in Claimed /\ t \notin N
  <2>1. ASSUME NEW d \in Consumers \ {c} PROVE Pending(d)' = Pending(d)
    BY <1>2, <2>1 DEF Pending, In
  <2>2. Pending(c) = a + e
    BY <1>1 DEF Pending, In, a, e
  <2>3. Pending(c)' = a
    BY <1>1, <1>2 DEF Pending, In, Idle
  <2>4. \A t : t \in Claimed' <=> t \in Tokens /\ t[2] <= Pending(t[1])'
    BY DEF Claimed, Tokens
  <2>5. \A t : t \in Claimed <=> t \in Tokens /\ t[2] <= Pending(t[1])
    BY DEF Claimed
  <2>6. ASSUME NEW t PROVE t \in Claimed' <=> t \in Claimed /\ t \notin N
    <3>1. CASE t \in Tokens /\ t[1] = c
      BY <3>1, <2>2, <2>3, <2>4, <2>5, <1>1, <1>5 DEF Positive
    <3>2. CASE t \in Tokens /\ t[1] # c
      BY <3>2, <2>1, <2>4, <2>5, <1>5
    <3>3. CASE t \notin Tokens
      BY <3>3, <2>4, <2>5
    <3> QED BY <3>1, <3>2, <3>3
  <2>7. N \subseteq Claimed
    BY <2>2, <2>5, <1>5
  <2> QED BY <2>6, <2>7
<1>7. IsFiniteSet(Claimed') /\ Cardinality(Claimed') = Cardinality(Claimed) - e
  <2>1. Claimed' = Claimed \ N
    BY <1>6
  <2>2. IsFiniteSet(Claimed \ N) /\ Cardinality(Claimed \ N) = Cardinality(Claimed) - Cardinality(N)
    BY <1>6, CountRemove DEF CountInv
  <2> QED BY <2>1, <2>2, <1>4
<1>8. dequeueOvercommit' = dequeueOvercommit + e
  <2>1. Cardinality(Claimed) \in Nat /\ Cardinality(Claimed') \in Nat
    BY <1>7, FS_CardinalityType DEF CountInv
  <2>2. PICK x \in Nat : x = dequeueOvercommit + e
    BY <1>1 DEF CountType, Positive
  <2>3. e <= Cardinality(Claimed)
    BY <2>1, <1>7, <1>1 DEF Positive
  <2>4. x < Span
    BY <2>1, <2>2, <2>3, <1>1, SizesFacts DEF CountInv, CountType, Positive
  <2> QED BY <2>2, <2>4, <1>2, SmallIsSelf
<1>9. Grants' = Grants
  <2>1. \A t : t \in Grants' <=> t \in Tokens /\ consumer'[t[1]].pc \in {"undo", "take"} /\ t[2] <= consumer'[t[1]].actual
    BY DEF Grants, Tokens
  <2>2. \A t : t \in Grants <=> t \in Tokens /\ consumer[t[1]].pc \in {"undo", "take"} /\ t[2] <= consumer[t[1]].actual
    BY DEF Grants
  <2>3. ASSUME NEW t PROVE t \in Grants' <=> t \in Grants
    <3>1. CASE t \in Tokens /\ t[1] = c
      BY <3>1, <2>1, <2>2, <1>5, <1>1, <1>2 DEF In, Idle, a
    <3>2. CASE ~(t \in Tokens /\ t[1] = c)
      BY <3>2, <2>1, <2>2, <1>5, <1>2
    <3> QED BY <3>1, <3>2
  <2> QED BY <2>3
<1>10. Late' = Late
  BY <1>1, <1>2 DEF Late, In, Idle
<1>11. ASSUME NEW T \in SUBSET Late PROVE Wants(T)' = Wants(T)
  BY <1>1, <1>2 DEF Wants, Tokens, Late, In
<1>12. CountInv'
  <2>1. Cardinality(Grants') = Cardinality(Grants) /\ Cardinality(Claimed) \in Nat
    BY <1>9, CountsFinite
  <2>2. claims' = taken' + dequeueOvercommit' + Cardinality(Claimed')
    BY <2>1, <1>2, <1>7, <1>8, <1>1 DEF CountInv, CountType, Positive
  <2>3. taken' + Cardinality(Grants') <= pushed'
    BY <2>1, <1>2 DEF CountInv
  <2> QED BY <1>7, <2>2, <2>3 DEF CountInv
<1>13. ClaimInv'
  <2>1. ASSUME NEW T \in SUBSET Late, T # {}
        PROVE  (\/ taken + Cardinality(Grants \cup Wants(T)) <= pushed
                \/ \E l \in T : consumer[l].my >= taken + Cardinality(Grants \cup Wants(T \ {l})))'
    <3>1. \A l \in T : consumer'[l] = consumer[l]
      BY <1>1, <1>2 DEF Late, In
    <3>2. Cardinality(Grants' \cup Wants(T)') = Cardinality(Grants \cup Wants(T))
      BY <1>9, <1>11
    <3>3. ASSUME NEW l \in T PROVE Cardinality(Grants' \cup Wants(T \ {l})') = Cardinality(Grants \cup Wants(T \ {l}))
      <4>1. T \ {l} \in SUBSET Late
        OBVIOUS
      <4> QED BY <4>1, <1>9, <1>11
    <3>4. \/ taken + Cardinality(Grants \cup Wants(T)) <= pushed
          \/ \E l \in T : consumer[l].my >= taken + Cardinality(Grants \cup Wants(T \ {l}))
      BY <2>1 DEF ClaimInv
    <3> QED BY <3>1, <3>2, <3>3, <3>4, <1>2
  <2> QED BY <2>1, <1>10 DEF ClaimInv
<1> QED BY <1>1, <1>3, <1>8, <1>12, <1>13 DEF CountType, Positive

\* Take: what was granted becomes taken.
LEMMA TakeKeeps ==
  ASSUME NoWrap, ConsumerType, CountType, CountInv, ClaimInv, NEW c \in Consumers, Take(c)
  PROVE  /\ CountInv' /\ ClaimInv'
         /\ taken' = taken + consumer[c].actual /\ taken' \in Nat /\ taken' <= pushed
         /\ headIndex' = taken'
         /\ consumer[c].actual \in Positive
         /\ consumer'[c] = [pc |-> "header", index |-> taken, n |-> taken + 1, left |-> consumer[c].actual]
<1> DEFINE a == consumer[c].actual
           N == {c} \X (1..a)
<1>1. In(c, "take") /\ a \in Positive /\ consumer[c].excess = 0
  BY Fields DEF Take
<1>2. /\ consumer'[c] = [pc |-> "header", index |-> taken, n |-> taken + 1, left |-> a]
      /\ \A d \in Consumers \ {c} : consumer'[d] = consumer[d]
      /\ UNCHANGED <<pushed, dequeueOvercommit, claims>>
      /\ taken' = taken + a
      /\ headIndex' = (headIndex + a) % Span
  BY SetIs DEF Take, CountType
<1>4. IsFiniteSet(N) /\ Cardinality(N) = a
  <2>1. 1 \in Int /\ a \in Int /\ 1 <= a + 1
    BY <1>1 DEF Positive
  <2>2. IsFiniteSet(N) /\ Cardinality(N) = a - 1 + 1
    <3> HIDE DEF a
    <3> QED BY <2>1, TokenCount
  <2> QED BY <2>2, <1>1 DEF Positive
<1>5. /\ \A t : t \in N <=> t \in Tokens /\ t[1] = c /\ t[2] <= a
      /\ \A t \in Tokens : t[1] \in Consumers /\ t[2] \in Nat /\ t[2] >= 1
  BY <1>1 DEF Tokens, Positive
<1> HIDE DEF a, N
<1>6. \A t : t \in Claimed' <=> t \in Claimed /\ t \notin N
  <2>1. ASSUME NEW d \in Consumers \ {c} PROVE Pending(d)' = Pending(d)
    BY <1>2, <2>1 DEF Pending, In
  <2>2. Pending(c) = a
    BY <1>1 DEF Pending, In, a, Positive
  <2>3. Pending(c)' = 0
    BY <1>1, <1>2 DEF Pending, In
  <2>4. \A t : t \in Claimed' <=> t \in Tokens /\ t[2] <= Pending(t[1])'
    BY DEF Claimed, Tokens
  <2>5. \A t : t \in Claimed <=> t \in Tokens /\ t[2] <= Pending(t[1])
    BY DEF Claimed
  <2>6. ASSUME NEW t PROVE t \in Claimed' <=> t \in Claimed /\ t \notin N
    <3>1. CASE t \in Tokens /\ t[1] = c
      BY <3>1, <2>2, <2>3, <2>4, <2>5, <1>1, <1>5 DEF Positive
    <3>2. CASE t \in Tokens /\ t[1] # c
      BY <3>2, <2>1, <2>4, <2>5, <1>5
    <3>3. CASE t \notin Tokens
      BY <3>3, <2>4, <2>5
    <3> QED BY <3>1, <3>2, <3>3
  <2> QED BY <2>6
<1>7. N \subseteq Grants /\ \A t : t \in Grants' <=> t \in Grants /\ t \notin N
  <2>1. \A t : t \in Grants' <=> t \in Tokens /\ consumer'[t[1]].pc \in {"undo", "take"} /\ t[2] <= consumer'[t[1]].actual
    BY DEF Grants, Tokens
  <2>2. \A t : t \in Grants <=> t \in Tokens /\ consumer[t[1]].pc \in {"undo", "take"} /\ t[2] <= consumer[t[1]].actual
    BY DEF Grants
  <2>3. ASSUME NEW t PROVE t \in Grants' <=> t \in Grants /\ t \notin N
    <3>1. CASE t \in Tokens /\ t[1] = c
      BY <3>1, <2>1, <2>2, <1>5, <1>1, <1>2 DEF In, a
    <3>2. CASE ~(t \in Tokens /\ t[1] = c)
      BY <3>2, <2>1, <2>2, <1>5, <1>2
    <3> QED BY <3>1, <3>2
  <2>4. N \subseteq Grants
    BY <2>2, <1>5, <1>1 DEF In, a
  <2> QED BY <2>3, <2>4
<1>8. IsFiniteSet(Claimed') /\ Cardinality(Claimed') = Cardinality(Claimed) - a
  <2>1. Claimed' = Claimed \ N
    BY <1>6
  <2>2. N \subseteq Claimed
    BY <1>7, CountsFinite
  <2>3. IsFiniteSet(Claimed \ N) /\ Cardinality(Claimed \ N) = Cardinality(Claimed) - Cardinality(N)
    BY <2>2, CountRemove DEF CountInv
  <2> QED BY <2>1, <2>3, <1>4
<1>9. Late' = Late
  BY <1>1, <1>2 DEF Late, In
<1>10. ASSUME NEW T \in SUBSET Late PROVE Wants(T)' = Wants(T)
  BY <1>1, <1>2 DEF Wants, Tokens, Late, In
<1>11. ASSUME NEW T \in SUBSET Late
       PROVE  /\ Cardinality(Grants \cup Wants(T)) \in Nat
              /\ Cardinality(Grants' \cup Wants(T)') = Cardinality(Grants \cup Wants(T)) - a
  <2>1. (Grants \cup Wants(T)) \cap N = N /\ N \subseteq Grants \cup Wants(T)
    BY <1>7
  <2>2. Wants(T) \cap N = {}
    BY <1>5, <1>1 DEF Wants, Late, In
  <2>3. Grants' \cup Wants(T)' = (Grants \cup Wants(T)) \ N
    BY <1>7, <1>10, <2>2
  <2>4. IsFiniteSet(Grants \cup Wants(T)) /\ Cardinality(Grants \cup Wants(T)) \in Nat
    BY CountsFinite
  <2>5. Cardinality((Grants \cup Wants(T)) \ N) = Cardinality(Grants \cup Wants(T)) - Cardinality(N)
    BY <2>1, <2>4, CountRemove
  <2> QED BY <2>3, <2>4, <2>5, <1>4
<1>12. a \in Nat /\ a > 0 /\ taken \in Nat /\ taken' = taken + a /\ pushed \in Nat /\ pushed' = pushed
  BY <1>1, <1>2 DEF CountType, Positive
<1>13. Cardinality(Grants') = Cardinality(Grants) - a /\ Cardinality(Grants) \in Nat /\ Cardinality(Grants') \in Nat
  <2>1. Grants' = Grants \ N
    BY <1>7
  <2>2. IsFiniteSet(Grants) /\ Cardinality(Grants) \in Nat
    BY CountsFinite
  <2>3. IsFiniteSet(Grants \ N) /\ Cardinality(Grants \ N) = Cardinality(Grants) - Cardinality(N)
    BY <2>2, <1>7, CountRemove
  <2>4. Cardinality(Grants \ N) \in Nat
    BY <2>3, FS_CardinalityType
  <2> QED BY <2>1, <2>2, <2>3, <2>4, <1>4
<1>14. taken' + Cardinality(Grants') <= pushed'
  BY <1>12, <1>13 DEF CountInv
<1>15. CountInv'
  <2>1. claims' = taken' + dequeueOvercommit' + Cardinality(Claimed')
    <3>1. Cardinality(Claimed) \in Nat
      BY CountsFinite
    <3> QED BY <3>1, <1>2, <1>8, <1>12 DEF CountInv, CountType
  <2> QED BY <2>1, <1>8, <1>14 DEF CountInv
<1>16. ClaimInv'
  <2>1. ASSUME NEW T \in SUBSET Late, T # {}
        PROVE  (\/ taken + Cardinality(Grants \cup Wants(T)) <= pushed
                \/ \E l \in T : consumer[l].my >= taken + Cardinality(Grants \cup Wants(T \ {l})))'
    <3>1. \A l \in T : consumer'[l] = consumer[l]
      BY <1>1, <1>2 DEF Late, In
    <3>2. /\ Cardinality(Grants \cup Wants(T)) \in Nat
          /\ Cardinality(Grants' \cup Wants(T)') = Cardinality(Grants \cup Wants(T)) - a
      BY <1>11
    <3>3. ASSUME NEW l \in T
          PROVE  taken' + Cardinality(Grants' \cup Wants(T \ {l})') = taken + Cardinality(Grants \cup Wants(T \ {l}))
      <4>1. T \ {l} \in SUBSET Late
        OBVIOUS
      <4>2. /\ Cardinality(Grants \cup Wants(T \ {l})) \in Nat
            /\ Cardinality(Grants' \cup Wants(T \ {l})') = Cardinality(Grants \cup Wants(T \ {l})) - a
        BY <4>1, <1>11
      <4> QED BY <4>2, <1>12
    <3>4. \/ taken + Cardinality(Grants \cup Wants(T)) <= pushed
          \/ \E l \in T : consumer[l].my >= taken + Cardinality(Grants \cup Wants(T \ {l}))
      BY <2>1 DEF ClaimInv
    <3>5. taken' + Cardinality(Grants' \cup Wants(T)') = taken + Cardinality(Grants \cup Wants(T))
      BY <3>2, <1>12
    <3> QED BY <3>1, <3>3, <3>4, <3>5, <1>12
  <2> QED BY <2>1, <1>9 DEF ClaimInv
<1>17. taken' \in Nat /\ taken' <= pushed
  BY <1>12, <1>13, <1>14
<1>18. headIndex' = taken'
  <2>1. taken' < Span
    BY <1>12, <1>17, SizesFacts DEF CountType
  <2> QED BY <2>1, <1>2, <1>12, <1>17, SmallIsSelf DEF CountType
<1> QED BY <1>1, <1>2, <1>12, <1>15, <1>16, <1>17, <1>18 DEF a

-----------------------------------------------------------------------------
(* Numbers of blocks *)

LEMMA SizeFacts ==
  /\ BlockSize \in Nat /\ BlockSize >= 2 /\ Span \in Nat
  /\ Span \div BlockSize \in Nat /\ Span = BlockSize * (Span \div BlockSize)
  /\ Pool \in Nat /\ MaxBlocks \in Nat /\ MaxIndex \in Nat /\ MaxIndex <= Span \div BlockSize
<1>1. BlockSize \in Nat \ {0} /\ BlockSize >= 2 /\ Span \in Nat /\ Span % BlockSize = 0
  BY SizesAssumption
<1>2. PICK q \in Int : q = Span \div BlockSize /\ Span = BlockSize * q + 0
  BY <1>1, DivMod
<1>3. q >= 0
  <2>1. CASE q <= -1
    <3>1. BlockSize * q <= -BlockSize
      BY <1>1, <2>1
    <3> QED BY <3>1, <1>1, <1>2
  <2> QED BY <2>1
<1> QED BY <1>1, <1>2, <1>3, SizesAssumption

LEMMA BlockFacts == BlockSize \in Nat \ {0} /\ BlockSize >= 2
  BY SizesAssumption

LEMMA NumberIs ==
  ASSUME NEW i \in Nat
  PROVE  /\ Number(i) \in Nat /\ i % BlockSize \in 0..(BlockSize - 1)
         /\ i = BlockSize * Number(i) + (i % BlockSize)
         /\ BlockSize * Number(i) <= i /\ i < BlockSize * Number(i) + BlockSize
         /\ Base(i) = BlockSize * Number(i)
<1>1. BlockSize \in Nat \ {0}
  BY SizeFacts
<1>2. PICK q \in Int, r \in 0..(BlockSize - 1) : q = i \div BlockSize /\ r = i % BlockSize /\ i = BlockSize * q + r
  BY <1>1, DivMod
<1>3. q >= 0
  <2>1. CASE q <= -1
    <3>1. BlockSize * q <= -BlockSize
      BY <1>1, <2>1
    <3> QED BY <3>1, <1>1, <1>2
  <2> QED BY <2>1
<1>4. PICK m \in Int : m = BlockSize * q
  BY <1>1
<1>5. i = m + r /\ Base(i) = m
  BY <1>1, <1>2, <1>4 DEF Base
<1>6. m <= i /\ i < m + BlockSize
  BY <1>1, <1>2, <1>4, <1>5
<1>7. Number(i) = q /\ q \in Nat
  BY <1>2, <1>3 DEF Number
<1> QED BY <1>2, <1>4, <1>5, <1>6, <1>7

LEMMA NumberParts ==
  ASSUME NEW i \in Nat
  PROVE  \E p \in Nat, m \in Nat, r \in 0..(BlockSize - 1) :
           p = Number(i) /\ m = BlockSize * p /\ r = i % BlockSize /\ i = m + r
<1>1. PICK p \in Nat : p = Number(i)
  BY NumberIs
<1>2. PICK r \in 0..(BlockSize - 1) : r = i % BlockSize
  BY NumberIs
<1>3. PICK m \in Int : m = BlockSize * p
  BY SizeFacts
<1>4. i = m + r
  BY NumberIs, <1>1, <1>2, <1>3
<1>5. m >= 0
  BY <1>1, <1>3, SizeFacts
<1>6. m \in Nat
  BY <1>3, <1>5
<1> QED BY <1>1, <1>2, <1>3, <1>4, <1>6

\* An index and the first index of a block.
LEMMA NumberLess ==
  ASSUME NEW i \in Nat, NEW p \in Int
  PROVE  /\ i < BlockSize * p <=> Number(i) < p
         /\ i >= BlockSize * p <=> Number(i) >= p
         /\ BlockSize * p <= i /\ i < BlockSize * p + BlockSize <=> Number(i) = p
<1>1. PICK q \in Nat, m \in Nat, r \in 0..(BlockSize - 1) :
        q = Number(i) /\ m = BlockSize * q /\ r = i % BlockSize /\ i = m + r
  BY NumberParts
<1>2. PICK k \in Int : k = BlockSize * p
  BY SizeFacts
<1>3. q < p => k >= m + BlockSize
  <2>1. ASSUME q < p PROVE k >= m + BlockSize
    <3>1. PICK d \in Nat : p = q + 1 + d
      BY <2>1
    <3>2. BlockSize * (q + 1 + d) = BlockSize * q + BlockSize + BlockSize * d /\ BlockSize * d >= 0
      BY <1>1, SizeFacts
    <3>3. k = m + BlockSize + BlockSize * d
      BY <3>1, <3>2, <1>1, <1>2
    <3>4. PICK z \in Nat : z = BlockSize * d
      BY <3>2, SizeFacts
    <3> QED BY <3>3, <3>4, <1>1, <1>2, SizeFacts
  <2> QED BY <2>1
<1>4. q > p => m >= k + BlockSize
  <2>1. ASSUME q > p PROVE m >= k + BlockSize
    <3>1. PICK d \in Nat : q = p + 1 + d
      BY <2>1
    <3>2. BlockSize * (p + 1 + d) = BlockSize * p + BlockSize + BlockSize * d /\ BlockSize * d >= 0
      BY SizeFacts
    <3>3. m = k + BlockSize + BlockSize * d
      BY <3>1, <3>2, <1>1, <1>2
    <3>4. PICK z \in Nat : z = BlockSize * d
      BY <3>2, SizeFacts
    <3> QED BY <3>3, <3>4, <1>1, <1>2, SizeFacts
  <2> QED BY <2>1
<1>5. q = p => m = k
  BY <1>1, <1>2
<1> QED BY <1>1, <1>2, <1>3, <1>4, <1>5, SizeFacts

LEMMA NumberMonotone ==
  ASSUME NEW i \in Nat, NEW j \in Nat, i <= j
  PROVE  Number(i) <= Number(j)
<1>1. PICK p \in Nat : p = Number(i) /\ BlockSize * p <= i
  BY NumberIs
<1>2. PICK m \in Int : m = BlockSize * p
  BY SizeFacts
<1>3. j >= m
  BY <1>1, <1>2
<1>4. j >= BlockSize * p => Number(j) >= p
  BY NumberLess
<1> QED BY <1>1, <1>2, <1>3, <1>4

\* Indices of one block differ by what their slots differ by.
LEMMA SlotDiffers ==
  ASSUME NEW i \in Nat, NEW j \in Nat, Number(i) = Number(j), i % BlockSize = j % BlockSize
  PROVE  i = j
  BY NumberIs

\* k indices from i on that do not leave the block of i.
LEMMA SameBlock ==
  ASSUME NEW i \in Nat, NEW k \in Nat, (i % BlockSize) + k < BlockSize
  PROVE  Number(i + k) = Number(i) /\ (i + k) % BlockSize = (i % BlockSize) + k
<1>1. PICK p \in Nat, m \in Nat, r \in 0..(BlockSize - 1) :
        p = Number(i) /\ m = BlockSize * p /\ r = i % BlockSize /\ i = m + r
  BY NumberParts
<1>2. PICK s \in 0..(BlockSize - 1) : s = r + k
  BY <1>1, BlockFacts
<1>3. BlockSize \in Nat \ {0} /\ p \in Int /\ s \in 0..(BlockSize - 1)
  BY BlockFacts
<1>4. (BlockSize * p + s) % BlockSize = s /\ (BlockSize * p + s) \div BlockSize = p
  BY <1>3, DivModUnique
<1>5. i = m + r
  BY <1>1
<1>6. i + k = m + s
  BY <1>2, <1>5
<1> QED BY <1>1, <1>2, <1>4, <1>6 DEF Number

\* All that follow the last slot are of the next block.
LEMMA NextBlock ==
  ASSUME NEW i \in Nat, NEW k \in Nat, (i % BlockSize) + k = BlockSize
  PROVE  Number(i + k) = Number(i) + 1 /\ (i + k) % BlockSize = 0
<1>1. PICK p \in Nat, m \in Nat, r \in 0..(BlockSize - 1) :
        p = Number(i) /\ m = BlockSize * p /\ r = i % BlockSize /\ i = m + r
  BY NumberParts
<1>2. BlockSize * (p + 1) = m + BlockSize
  BY <1>1, BlockFacts
<1>3. PICK q \in Nat : q = p + 1
  OBVIOUS
<1>7. BlockSize \in Nat \ {0} /\ q \in Int /\ 0 \in 0..(BlockSize - 1)
  BY BlockFacts
<1>4. (BlockSize * q + 0) % BlockSize = 0 /\ (BlockSize * q + 0) \div BlockSize = q
  BY <1>7, DivModUnique
<1>5. i + k = m + BlockSize
  BY <1>1, BlockFacts
<1>8. BlockSize * q = m + BlockSize /\ BlockSize * q \in Int
  BY <1>2, <1>3, <1>7
<1>6. i + k = BlockSize * q + 0
  BY <1>5, <1>8
<1> QED BY <1>1, <1>3, <1>4, <1>6 DEF Number

\* Where the elements of a block end the next block begins.
LEMMA NumberNext ==
  ASSUME NEW i \in Nat
  PROVE  IF (i + 1) % BlockSize = 0 THEN Number(i + 1) = Number(i) + 1 ELSE Number(i + 1) = Number(i)
<1>1. PICK r \in 0..(BlockSize - 1) : r = i % BlockSize
  BY NumberParts
<1>2. CASE r + 1 < BlockSize
  <2>1. Number(i + 1) = Number(i) /\ (i + 1) % BlockSize = r + 1
    BY <1>1, <1>2, SameBlock
  <2> QED BY <2>1, <1>1
<1>3. CASE r + 1 = BlockSize
  BY <1>1, <1>3, NextBlock
<1> QED BY <1>1, <1>2, <1>3, BlockFacts

-----------------------------------------------------------------------------
(* Headers and positions *)

LEMMA SizeIs ==
  ASSUME NEW n \in Sizes
  PROVE  n \in Nat \ {0} /\ n \in Int /\ n <= Span \div BlockSize /\ \E m \in Nat : Span \div BlockSize = n * m
<1>1. n \in Nat \ {0} /\ n <= Span \div BlockSize /\ Span \div BlockSize \in Nat /\ (Span \div BlockSize) % n = 0
  BY SizeFacts DEF Sizes
<1>5. PICK s \in Nat : s = Span \div BlockSize
  BY <1>1
<1>6. s % n = 0 /\ n \in Nat \ {0}
  BY <1>1, <1>5
<1>7. s \div n \in Int /\ s = n * (s \div n) + (s % n)
  BY <1>6, DivMod
<1>2. PICK m \in Int : s = n * m
  BY <1>1, <1>6, <1>7
<1>3. m >= 0
  <2>1. CASE m <= -1
    <3>1. n * m <= -n
      BY <1>1, <2>1
    <3> QED BY <3>1, <1>1, <1>2
  <2> QED BY <2>1
<1> QED BY <1>1, <1>2, <1>3, <1>5

LEMMA HeaderIs ==
  ASSUME IndexType, NEW h \in DOMAIN headers
  PROVE  /\ Capacity(headers[h]) \in Sizes
         /\ headers[h] \in HeadersOf(Capacity(headers[h]))
         /\ DOMAIN headers[h].index = 0..(Capacity(headers[h]) - 1)
         /\ headers[h].tail \in 0..(Capacity(headers[h]) - 1)
         /\ headers[h] = [index |-> headers[h].index, tail |-> headers[h].tail]
<1>1. PICK n \in Sizes : headers[h] \in HeadersOf(n)
  BY DEF IndexType
<1>2. n \in Nat \ {0}
  BY SizeIs
<1>3. DOMAIN headers[h].index = 0..(n - 1) /\ headers[h].tail \in 0..(n - 1)
      /\ headers[h] = [index |-> headers[h].index, tail |-> headers[h].tail]
  BY <1>1 DEF HeadersOf
<1>4. Cardinality(0..(n - 1)) = n
  BY <1>2, FS_Interval
<1>5. Capacity(headers[h]) = n
  BY <1>3, <1>4 DEF Capacity
<1> QED BY <1>1, <1>3, <1>5

Cap == Capacity(blockIndex)

LEMMA LastIs ==
  ASSUME IndexType
  PROVE  /\ Len(headers) \in DOMAIN headers /\ Len(headers) \in Nat /\ DOMAIN headers = 1..Len(headers)
         /\ blockIndex = headers[Len(headers)]
         /\ Cap \in Sizes /\ Cap \in Nat \ {0}
         /\ blockIndex \in HeadersOf(Cap)
         /\ DOMAIN blockIndex.index = 0..(Cap - 1)
         /\ blockIndex.tail \in 0..(Cap - 1)
<1>1. Len(headers) \in DOMAIN headers /\ Len(headers) \in Nat /\ DOMAIN headers = 1..Len(headers)
  BY DEF IndexType
<1> QED BY <1>1, HeaderIs, SizeIs DEF blockIndex, Cap

\* Where the entry of block p is.
Place(p) == (blockIndex.tail + p + 1 - Shown) % Cap

LEMMA PlaceIs ==
  ASSUME IndexType, Shown \in Int, NEW p \in Int
  PROVE  /\ Place(p) \in 0..(Cap - 1)
         /\ EntryOf(p) = blockIndex.index[Place(p)]
         /\ EntryOf(p) \in DOMAIN entries
<1>1. Cap \in Nat \ {0} /\ blockIndex.tail \in Int /\ DOMAIN blockIndex.index = 0..(Cap - 1)
  BY LastIs
<1>2. PICK x \in Int : x = blockIndex.tail + p + 1 - Shown
  BY <1>1
<1>3. Place(p) \in 0..(Cap - 1)
  BY <1>1, <1>2, DivMod DEF Place
<1>4. EntryOf(p) = blockIndex.index[Place(p)]
  BY DEF EntryOf, Place, Cap
<1> QED BY <1>1, <1>3, <1>4 DEF IndexType

LEMMA EntryDiffers ==
  ASSUME IndexType, Shown \in Int, NEW p \in Int, NEW q \in Int, EntryOf(p) = EntryOf(q), p - q < Cap, q - p < Cap
  PROVE  p = q
<1>1. Cap \in Nat \ {0} /\ blockIndex.tail \in Int /\ DOMAIN blockIndex.index = 0..(Cap - 1)
  BY LastIs
<1>2. Place(p) = Place(q)
  BY PlaceIs, <1>1 DEF IndexType
<1>3. PICK x \in Int : x = blockIndex.tail + p + 1 - Shown
  BY <1>1
<1>4. PICK y \in Int : y = blockIndex.tail + q + 1 - Shown
  BY <1>1
<1>5. x % Cap = y % Cap
  BY <1>2, <1>3, <1>4 DEF Place
<1>6. x - y < Cap /\ y - x < Cap
  BY <1>1, <1>3, <1>4
<1>7. x = y
  BY <1>1, <1>5, <1>6, ModDiffer
<1> QED BY <1>1, <1>3, <1>4, <1>7

LEMMA EntryTurns ==
  ASSUME IndexType, Shown \in Int, NEW p \in Int
  PROVE  EntryOf(p + Cap) = EntryOf(p)
<1>1. Cap \in Nat \ {0} /\ blockIndex.tail \in Int
  BY LastIs
<1>2. PICK x \in Int : x = blockIndex.tail + p + 1 - Shown
  BY <1>1
<1>3. x + Cap = blockIndex.tail + (p + Cap) + 1 - Shown
  BY <1>1, <1>2
<1>4. (x + Cap) % Cap = x % Cap
  BY <1>1, ModTurn
<1>6. Place(p + Cap) = Place(p)
  BY <1>2, <1>3, <1>4 DEF Place
<1>7. p + Cap \in Int
  BY <1>1
<1> QED BY <1>6, <1>7, PlaceIs

\* What is up to a turn behind in the same place is a whole turn behind.
LEMMA EntryBehind ==
  ASSUME IndexType, Shown \in Int, NEW p \in Int, NEW q \in Int, EntryOf(p) = EntryOf(q), p < q, q <= p + Cap
  PROVE  q = p + Cap
<1>1. Cap \in Nat \ {0} /\ p + Cap \in Int
  BY LastIs
<1>2. EntryOf(p + Cap) = EntryOf(q)
  BY EntryTurns
<1>3. (p + Cap) - q < Cap /\ q - (p + Cap) < Cap
  BY <1>1
<1> QED BY <1>1, <1>2, <1>3, EntryDiffers

-----------------------------------------------------------------------------
(* Filled and Shown *)

Placing == At("insert") \/ At("publish") \/ At("requisition") \/ At("install")
Writing == At("write") \/ At("advance")

LEMMA FilledIs ==
  ASSUME CountType, ProducerType, ProducerInv
  PROVE  /\ Filled \in Nat /\ Shown \in Nat
         /\ pushed <= BlockSize * Filled
         /\ Shown = IF At("requisition") \/ At("install") THEN Filled + 1 ELSE Filled
         /\ \A i \in Nat : i < pushed => Number(i) < Filled
         /\ Placing => pushed = BlockSize * Filled /\ pushed % BlockSize = 0
         /\ Writing => pushed < BlockSize * Filled /\ Number(pushed) = Filled - 1
         /\ pushed % BlockSize # 0 => pushed < BlockSize * Filled /\ Number(pushed) = Filled - 1
         /\ ~Writing /\ pushed % BlockSize = 0 => pushed = BlockSize * Filled /\ Filled = Number(pushed)
<1>1. pushed \in Nat
  BY DEF CountType
<1>2. PICK p \in Nat, m \in Nat, r \in 0..(BlockSize - 1) :
        p = Number(pushed) /\ m = BlockSize * p /\ r = pushed % BlockSize /\ pushed = m + r
  BY <1>1, NumberParts
<1>3. BlockSize * (p + 1) = m + BlockSize
  BY <1>2, BlockFacts
<1>4. p = Number(pushed) /\ r = pushed % BlockSize /\ pushed = m + r
  BY <1>2
<1>5. Filled = (IF Writing \/ r # 0 THEN p + 1 ELSE p) /\ Filled \in Nat
  BY <1>4 DEF Filled, Writing
<1>6. Shown = IF At("requisition") \/ At("install") THEN Filled + 1 ELSE Filled
  BY DEF Shown
<1>7. Placing => r = 0 /\ ~Writing
  BY <1>4 DEF Placing, Writing, ProducerInv, At
<1>8. PICK f \in Int : f = BlockSize * Filled
  BY <1>5, BlockFacts
<1>9. f = (IF Writing \/ r # 0 THEN m + BlockSize ELSE m)
  BY <1>2, <1>3, <1>5, <1>8
<1>10. pushed <= f /\ (Writing \/ r # 0 => pushed < f) /\ (~Writing /\ r = 0 => pushed = f)
  BY <1>4, <1>9, BlockFacts
<1>11. ASSUME NEW i \in Nat, i < pushed PROVE Number(i) < Filled
  <2>1. i < f
    BY <1>10, <1>11, <1>1
  <2> QED BY <1>5, <1>8, <2>1, NumberLess
<1>12. ASSUME Writing \/ r # 0 PROVE Number(pushed) = Filled - 1
  <2>1. Filled = p + 1
    BY <1>5, <1>12
  <2>2. p = Number(pushed)
    BY <1>4
  <2> QED BY <2>1, <2>2
<1>13. ~Writing /\ r = 0 => Filled = Number(pushed)
  BY <1>4, <1>5
<1>14. Shown \in Nat
  BY <1>5, <1>6
<1> QED BY <1>4, <1>5, <1>6, <1>7, <1>8, <1>10, <1>11, <1>12, <1>13, <1>14

-----------------------------------------------------------------------------
(* What the steps of a consumer leave as it is *)

LEMMA ViewKept ==
  ASSUME UNCHANGED <<headers, producer, pushed>>
  PROVE  /\ Filled' = Filled /\ Shown' = Shown /\ blockIndex' = blockIndex /\ Cap' = Cap
         /\ \A p : EntryOf(p)' = EntryOf(p)
         /\ \A s : At(s)' = At(s)
         /\ \A h, t, l, lo, hi : Maps(h, t, l, lo, hi)' = Maps(h, t, l, lo, hi)
<1>1. blockIndex' = blockIndex
  BY DEF blockIndex
<1>2. \A s : At(s)' = At(s)
  BY DEF At
<1>3. Filled' = Filled
  BY <1>2 DEF Filled
<1>4. Shown' = Shown
  BY <1>2, <1>3 DEF Shown
<1>5. Cap' = Cap
  BY <1>1 DEF Cap, Capacity
<1>6. \A p : EntryOf(p)' = EntryOf(p)
  BY <1>1, <1>4 DEF EntryOf, Capacity
<1>7. ASSUME NEW h, NEW t, NEW l, NEW lo, NEW hi PROVE Maps(h, t, l, lo, hi)' = Maps(h, t, l, lo, hi)
  BY <1>6 DEF Maps, Capacity
<1> QED BY <1>1, <1>2, <1>3, <1>4, <1>5, <1>6, <1>7

LEMMA PlaceKept ==
  ASSUME UNCHANGED <<headers, entries, producer, pushed>>, NEW r, PlaceOk(r)
  PROVE  PlaceOk(r)'
<1>1. Announced' = Announced
  BY ViewKept DEF Announced
<1>2. ASSUME NEW h, NEW t PROVE FindsFrom(h, t, r)' = FindsFrom(h, t, r)
  BY <1>1, ViewKept DEF FindsFrom
<1> QED BY <1>2, ViewKept DEF PlaceOk

\* Who is about to free a block.
Freers == {"unlink", "release"}

LEMMA IndexKept ==
  ASSUME IndexInv, UNCHANGED <<headers, entries, memory, producer, pushed>>, Open' = Open,
         \A d \in Consumers : \/ consumer'[d] = consumer[d]
                              \/ consumer[d].pc \notin Freers /\ consumer'[d].pc \notin Freers
  PROVE  IndexInv'
<1> USE DEF IndexInv
<1>1. UNCHANGED <<slots, emptied, blocks, freeList>>
  BY DEF memory
<1>2. MemoryType' /\ IndexType' /\ ProducerType'
  BY <1>1, ViewKept DEF MemoryType, IndexType, ProducerType, Cap
<1>3. Announced' = Announced
  BY ViewKept DEF Announced
<1>4. ProducerInv'
  BY <1>1, <1>3, ViewKept DEF ProducerInv
<1>5. KeyInv'
  BY ViewKept DEF KeyInv, Cap
<1>6. ASSUME NEW p PROVE OpenIn(p)' = OpenIn(p)
  BY DEF OpenIn
<1>7. BlockInv'
  BY <1>1, <1>6, ViewKept DEF BlockInv
<1>8. ASSUME NEW d \in Consumers PROVE /\ In(d, "unlink")' = In(d, "unlink")
                                       /\ In(d, "release")' = In(d, "release")
                                       /\ In(d, "unlink") \/ In(d, "release") => consumer'[d] = consumer[d]
  BY DEF In, Freers
<1>9. ASSUME NEW e PROVE Unlinking(e)' = Unlinking(e)
  BY <1>8 DEF Unlinking
<1>10. OccupiedInv'
  BY <1>1, <1>6, <1>8, <1>9, ViewKept DEF OccupiedInv, Cap
<1>11. Releasing' = Releasing /\ \A c \in Releasing : consumer'[c] = consumer[c]
  BY <1>8 DEF Releasing
<1>12. PlacesInv'
  BY <1>1, <1>11, ViewKept DEF PlacesInv
<1> QED BY <1>2, <1>4, <1>5, <1>7, <1>10, <1>12

LEMMA OpenKept ==
  ASSUME UNCHANGED <<headers, producer, pushed, taken>>, \A c \in Consumers : Work(c)' = Work(c)
  PROVE  Open' = Open
  BY ViewKept DEF Open

\* A step of one consumer that changes what it knows only.
LEMMA OneKnows ==
  ASSUME WorkInv, IndexInv, ConsumerInv,
         UNCHANGED <<headers, entries, memory, producer, pushed, taken>>, NEW c \in Consumers,
         \A d \in Consumers \ {c} : consumer'[d] = consumer[d],
         consumer[c].pc \notin Freers, consumer'[c].pc \notin Freers,
         WorkIn(consumer'[c]) = Work(c), WorkOk(consumer'[c]), PlaceOk(consumer'[c])
  PROVE  WorkInv' /\ IndexInv' /\ ConsumerInv'
<1>1. \A d \in Consumers : Work(d)' = Work(d)
  BY DEF Work, WorkIn
<1>2. WorkInv'
  <2>1. \A d \in Consumers : WorkOk(consumer'[d])
    BY DEF WorkInv
  <2>2. \A d \in Consumers : WorkOk(consumer[d])'
    BY <2>1 DEF WorkOk
  <2> QED BY <1>1, <2>2 DEF WorkInv
<1>3. Open' = Open
  BY <1>1, OpenKept
<1>4. IndexInv'
  BY <1>3, IndexKept
<1>5. \A d \in Consumers : PlaceOk(consumer'[d])
  BY DEF ConsumerInv
<1>6. \A d \in Consumers : PlaceOk(consumer[d])'
  <2> SUFFICES ASSUME NEW d \in Consumers PROVE PlaceOk(consumer[d])'
    OBVIOUS
  <2>1. PlaceOk(consumer'[d])
    BY <1>5
  <2> QED BY <2>1, PlaceKept
<1> QED BY <1>2, <1>4, <1>6 DEF ConsumerInv

-----------------------------------------------------------------------------
(* The steps that claim *)

LEMMA TypeStep ==
  ASSUME ConsumerType, NEW c \in Consumers, NEW r \in Records, Set(c, r)
  PROVE  ConsumerType' /\ consumer'[c] = r /\ \A d \in Consumers \ {c} : consumer'[d] = consumer[d]
  BY DEF ConsumerType, Set

\* The places at which a consumer has no index yet.
Early == {"idle", "check", "claim", "recheck", "undo", "take"}

LEMMA EarlyIs ==
  ASSUME NEW r, r.pc \in Early
  PROVE  WorkIn(r) = {} /\ WorkOk(r) /\ PlaceOk(r) /\ r.pc \notin Freers
<1>1. r.pc \notin Searching /\ r.pc \notin {"empty", "unlink", "release"}
  BY DEF Early, Searching
<1>2. Rest(r) = r
  BY <1>1 DEF Rest
<1> QED BY <1>1, <1>2 DEF WorkIn, WorkOf, Reading, WorkOk, PlaceOk, Searching, Freers

LEMMA SeenKept ==
  ASSUME CountType, SeenInv, pushed' \in Nat, pushed' >= pushed, claims' \in Nat, claims' >= claims,
         dequeueOvercommit' \in Nat, dequeueOvercommit' >= dequeueOvercommit, ConsumerType,
         NEW c \in Consumers, \A d \in Consumers \ {c} : consumer'[d] = consumer[d],
         /\ In(c, "check")' => consumer'[c].tail <= pushed' /\ consumer'[c].over <= dequeueOvercommit'
         /\ In(c, "claim")' => consumer'[c].over <= dequeueOvercommit'
         /\ In(c, "recheck")' => consumer'[c].my <= claims'
  PROVE  SeenInv'
<1> SUFFICES ASSUME NEW d \in Consumers
             PROVE  /\ In(d, "check")' => consumer'[d].tail <= pushed' /\ consumer'[d].over <= dequeueOvercommit'
                    /\ In(d, "claim")' => consumer'[d].over <= dequeueOvercommit'
                    /\ In(d, "recheck")' => consumer'[d].my <= claims'
  BY DEF SeenInv
<1>1. CASE d = c
  BY <1>1
<1>2. CASE d # c
  <2>1. consumer'[d] = consumer[d]
    BY <1>2
  <2>2. /\ In(d, "check") => consumer[d].tail <= pushed /\ consumer[d].over <= dequeueOvercommit
        /\ In(d, "claim") => consumer[d].over <= dequeueOvercommit
        /\ In(d, "recheck") => consumer[d].my <= claims
    BY DEF SeenInv
  <2>3. /\ In(d, "check") => consumer[d].tail \in Nat /\ consumer[d].over \in Nat
        /\ In(d, "claim") => consumer[d].over \in Nat
        /\ In(d, "recheck") => consumer[d].my \in Nat
    BY Fields
  <2>4. pushed \in Nat /\ claims \in Nat /\ dequeueOvercommit \in Nat
    BY DEF CountType
  <2> QED BY <2>1, <2>2, <2>3, <2>4 DEF In
<1> QED BY <1>1, <1>2

\* A step of a consumer before and after which it has no index.
LEMMA EarlyStep ==
  ASSUME WorkInv, IndexInv, ConsumerInv,
         UNCHANGED <<headers, entries, memory, producer, pushed, taken>>, NEW c \in Consumers,
         \A d \in Consumers \ {c} : consumer'[d] = consumer[d],
         consumer[c].pc \in Early, consumer'[c].pc \in Early
  PROVE  WorkInv' /\ IndexInv' /\ ConsumerInv'
<1>1. WorkIn(consumer[c]) = {} /\ consumer[c].pc \notin Freers
  BY EarlyIs
<1>2. WorkIn(consumer'[c]) = {} /\ WorkOk(consumer'[c]) /\ PlaceOk(consumer'[c]) /\ consumer'[c].pc \notin Freers
  BY EarlyIs
<1> QED BY <1>1, <1>2, OneKnows DEF Work

\* A step that changes no counter.
LEMMA CountsStay ==
  ASSUME IInv, UNCHANGED <<shared, producer, pushed, taken, claims>>, NEW c \in Consumers,
         \A d \in Consumers \ {c} : consumer'[d] = consumer[d],
         consumer[c].pc \notin Claimers, consumer'[c].pc \notin Claimers
  PROVE  CountType' /\ CountInv' /\ ClaimInv'
<1>1. UNCHANGED <<claims, dequeueOvercommit, taken>> /\ pushed' \in Nat /\ pushed' >= pushed
  BY DEF IInv, CountType, shared
<1>2. CountInv' /\ ClaimInv'
  BY <1>1, ClaimsKept DEF IInv
<1>3. CountType'
  BY DEF IInv, CountType, shared, At
<1> QED BY <1>2, <1>3

LEMMA dequeueKeeps ==
  ASSUME NoWrap, IInv, NEW c \in Consumers, NEW max \in Positive, dequeue_bulk(c, max)
  PROVE  IInv'
<1> DEFINE r == [pc |-> "check", tail |-> tailIndex, over |-> dequeueOvercommit, max |-> max]
<1>1. r \in Records /\ Set(c, r) /\ In(c, "idle")
  BY DEF dequeue_bulk, Records, Checking, IInv, CountType
<1>2. ConsumerType' /\ consumer'[c] = r /\ \A d \in Consumers \ {c} : consumer'[d] = consumer[d]
  BY <1>1, TypeStep DEF IInv
<1>3. UNCHANGED <<shared, memory, entries, headers, producer, pushed, taken, claims>>
  BY DEF dequeue_bulk, index
<1>4. consumer[c].pc = "idle" /\ consumer'[c].pc = "check"
  BY <1>1, <1>2 DEF In
<1>5. WorkInv' /\ IndexInv' /\ ConsumerInv'
  BY <1>2, <1>3, <1>4, EarlyStep DEF IInv, Early
<1>6. CountType' /\ CountInv' /\ ClaimInv'
  BY <1>2, <1>3, <1>4, CountsStay DEF Claimers
<1>7. SeenInv'
  <2>1. /\ consumer'[c].tail = pushed /\ consumer'[c].over = dequeueOvercommit
        /\ pushed \in Nat /\ claims \in Nat /\ dequeueOvercommit \in Nat
        /\ pushed' = pushed /\ claims' = claims /\ dequeueOvercommit' = dequeueOvercommit
    BY <1>2, <1>3 DEF IInv, CountType, shared
  <2> QED BY <1>2, <1>4, <2>1, SeenKept DEF IInv, In
<1> QED BY <1>2, <1>5, <1>6, <1>7 DEF IInv

LEMMA CheckCountKeeps ==
  ASSUME NoWrap, IInv, NEW c \in Consumers, CheckCount(c)
  PROVE  IInv'
<1>1. \/ consumer'[c] = Idle
      \/ consumer'[c] \in Claiming /\ consumer'[c].over = consumer[c].over
  BY DesiredIs DEF IInv
<1>2. PICK r : Set(c, r)
  BY DEF CheckCount
<1>3. consumer'[c] = r /\ \A d \in Consumers \ {c} : consumer'[d] = consumer[d]
  BY <1>2, SetIs DEF IInv
<1>4. r \in Records
  BY <1>1, <1>3 DEF Records, Rests
<1>5. ConsumerType'
  BY <1>2, <1>4, TypeStep DEF IInv
<1>6. UNCHANGED <<shared, memory, entries, headers, producer, pushed, taken, claims>>
  BY DEF CheckCount, index
<1>7. consumer[c].pc = "check" /\ consumer'[c].pc \in {"idle", "claim"}
  BY <1>1 DEF CheckCount, In, Idle, Claiming
<1>8. WorkInv' /\ IndexInv' /\ ConsumerInv'
  BY <1>3, <1>6, <1>7, EarlyStep DEF IInv, Early
<1>9. CountType' /\ CountInv' /\ ClaimInv'
  BY <1>3, <1>6, <1>7, CountsStay DEF Claimers
<1>10. SeenInv'
  <2>1. /\ pushed \in Nat /\ claims \in Nat /\ dequeueOvercommit \in Nat
        /\ pushed' = pushed /\ claims' = claims /\ dequeueOvercommit' = dequeueOvercommit
    BY <1>6 DEF IInv, CountType, shared
  <2>2. consumer[c].over \in Nat /\ consumer[c].over <= dequeueOvercommit
    BY <1>7, Fields DEF IInv, SeenInv, In
  <2>3. consumer'[c].pc = "claim" => consumer'[c].over = consumer[c].over
    BY <1>1 DEF Idle
  <2> QED BY <1>3, <1>7, <2>1, <2>2, <2>3, SeenKept DEF IInv, In
<1> QED BY <1>5, <1>8, <1>9, <1>10 DEF IInv

LEMMA ClaimStep ==
  ASSUME NoWrap, IInv, NEW c \in Consumers, Claim(c)
  PROVE  IInv'
<1>1. /\ CountInv' /\ ClaimInv'
      /\ consumer'[c] \in Rechecking /\ consumer'[c].my <= claims
      /\ claims' = claims + consumer[c].desired /\ claims' \in Nat /\ claims' <= MaxClaims
      /\ dequeueOptimisticCount' = claims'
  BY ClaimKeeps DEF IInv
<1>2. PICK r : Set(c, r)
  BY DEF Claim
<1>3. consumer'[c] = r /\ \A d \in Consumers \ {c} : consumer'[d] = consumer[d]
  BY <1>2, SetIs DEF IInv
<1>4. r \in Records
  BY <1>1, <1>3 DEF Records
<1>5. ConsumerType'
  BY <1>2, <1>4, TypeStep DEF IInv
<1>6. UNCHANGED <<tailIndex, headIndex, dequeueOvercommit, memory, entries, headers, producer, pushed, taken>>
  BY DEF Claim, index
<1>7. consumer[c].pc = "claim" /\ consumer'[c].pc = "recheck"
  BY <1>1 DEF Claim, In, Rechecking
<1>8. WorkInv' /\ IndexInv' /\ ConsumerInv'
  BY <1>3, <1>6, <1>7, EarlyStep DEF IInv, Early
<1>9. CountType'
  BY <1>1, <1>6 DEF IInv, CountType, At
<1>10. SeenInv'
  <2>1. /\ pushed \in Nat /\ claims \in Nat /\ dequeueOvercommit \in Nat
        /\ pushed' = pushed /\ dequeueOvercommit' = dequeueOvercommit
    BY <1>6 DEF IInv, CountType
  <2>2. claims' >= claims
    BY <1>1, <1>7, <2>1, Fields DEF IInv, In, Positive
  <2>3. consumer'[c].my \in Nat /\ consumer'[c].my <= claims'
    BY <1>1, <2>1, <2>2 DEF Rechecking
  <2> QED BY <1>1, <1>3, <1>7, <2>1, <2>2, <2>3, SeenKept DEF IInv, In
<1> QED BY <1>1, <1>5, <1>8, <1>9, <1>10 DEF IInv

LEMMA RecheckStep ==
  ASSUME NoWrap, IInv, NEW c \in Consumers, Recheck(c)
  PROVE  IInv'
<1>1. CountInv' /\ ClaimInv' /\ consumer'[c] \in Undoing \cup Taking
  BY RecheckKeeps DEF IInv
<1>2. PICK r : Set(c, r)
  BY DEF Recheck
<1>3. consumer'[c] = r /\ \A d \in Consumers \ {c} : consumer'[d] = consumer[d]
  BY <1>2, SetIs DEF IInv
<1>4. r \in Records
  BY <1>1, <1>3 DEF Records
<1>5. ConsumerType'
  BY <1>2, <1>4, TypeStep DEF IInv
<1>6. UNCHANGED <<shared, memory, entries, headers, producer, pushed, taken, claims>>
  BY DEF Recheck, index
<1>7. consumer[c].pc = "recheck" /\ consumer'[c].pc \in {"undo", "take"}
  BY <1>1 DEF Recheck, In, Undoing, Taking
<1>8. WorkInv' /\ IndexInv' /\ ConsumerInv'
  BY <1>3, <1>6, <1>7, EarlyStep DEF IInv, Early
<1>9. CountType'
  BY <1>6 DEF IInv, CountType, At, shared
<1>10. SeenInv'
  <2>1. /\ pushed \in Nat /\ claims \in Nat /\ dequeueOvercommit \in Nat
        /\ pushed' = pushed /\ claims' = claims /\ dequeueOvercommit' = dequeueOvercommit
    BY <1>6 DEF IInv, CountType, shared
  <2> QED BY <1>3, <1>7, <2>1, SeenKept DEF IInv, In
<1> QED BY <1>1, <1>5, <1>8, <1>9, <1>10 DEF IInv

LEMMA UndoStep ==
  ASSUME NoWrap, IInv, NEW c \in Consumers, Undo(c)
  PROVE  IInv'
<1>1. /\ CountInv' /\ ClaimInv'
      /\ consumer'[c] = Idle \/ consumer'[c] \in Taking
      /\ dequeueOvercommit' \in Nat /\ dequeueOvercommit' >= dequeueOvercommit
  BY UndoKeeps DEF IInv
<1>2. PICK r : Set(c, r)
  BY DEF Undo
<1>3. consumer'[c] = r /\ \A d \in Consumers \ {c} : consumer'[d] = consumer[d]
  BY <1>2, SetIs DEF IInv
<1>4. r \in Records
  BY <1>1, <1>3 DEF Records, Rests
<1>5. ConsumerType'
  BY <1>2, <1>4, TypeStep DEF IInv
<1>6. UNCHANGED <<tailIndex, headIndex, dequeueOptimisticCount, memory, entries, headers, producer,
                  pushed, taken, claims>>
  BY DEF Undo, index
<1>7. consumer[c].pc = "undo" /\ consumer'[c].pc \in {"idle", "take"}
  BY <1>1 DEF Undo, In, Idle, Taking
<1>8. WorkInv' /\ IndexInv' /\ ConsumerInv'
  BY <1>3, <1>6, <1>7, EarlyStep DEF IInv, Early
<1>9. CountType'
  BY <1>1, <1>6 DEF IInv, CountType, At
<1>10. SeenInv'
  <2>1. /\ pushed \in Nat /\ claims \in Nat /\ pushed' = pushed /\ claims' = claims
    BY <1>6 DEF IInv, CountType
  <2> QED BY <1>1, <1>3, <1>7, <2>1, SeenKept DEF IInv, In
<1> QED BY <1>1, <1>5, <1>8, <1>9, <1>10 DEF IInv

LEMMA IntervalWork ==
  ASSUME NEW r, r.pc = "header"
  PROVE  WorkIn(r) = r.index..(r.index + r.left - 1) /\ Rest(r) = r
  BY DEF WorkIn, WorkOf, Reading, Rest, Searching

LEMMA TakeStep ==
  ASSUME NoWrap, IInv, NEW c \in Consumers, Take(c)
  PROVE  IInv'
<1> DEFINE r == [pc |-> "header", index |-> taken, n |-> taken + 1, left |-> consumer[c].actual]
<1>1. /\ CountInv' /\ ClaimInv'
      /\ taken' = taken + consumer[c].actual /\ taken' \in Nat /\ taken' <= pushed
      /\ headIndex' = taken' /\ consumer[c].actual \in Positive
      /\ consumer'[c] = r
  BY TakeKeeps DEF IInv
<1>2. PICK q : Set(c, q)
  BY DEF Take
<1>3. consumer'[c] = q /\ \A d \in Consumers \ {c} : consumer'[d] = consumer[d]
  BY <1>2, SetIs DEF IInv
<1>4. r \in Records /\ taken \in Nat
  BY <1>1 DEF Records, Heading, IInv, CountType
<1>5. ConsumerType'
  BY <1>1, <1>2, <1>3, <1>4, TypeStep DEF IInv
<1>6. UNCHANGED <<tailIndex, dequeueOptimisticCount, dequeueOvercommit, memory, entries, headers, producer,
                  pushed, claims>>
  BY DEF Take, index
<1>7. consumer[c].pc = "take" /\ consumer'[c].pc = "header"
  BY <1>1 DEF Take, In
<1>8. WorkIn(r) = taken..(taken' - 1)
  <2>1. WorkIn(r) = taken..(taken + consumer[c].actual - 1)
    BY IntervalWork
  <2>2. taken + consumer[c].actual - 1 = taken' - 1
    BY <1>1, <1>4 DEF Positive
  <2> QED BY <2>1, <2>2
<1>9. Work(c) = {} /\ Work(c)' = taken..(taken' - 1)
  BY <1>1, <1>7, <1>8, EarlyIs DEF Work, Early
<1>10. \A d \in Consumers \ {c} : Work(d)' = Work(d)
  BY <1>3 DEF Work
<1>11. WorkInv'
  <2>1. \A d \in Consumers : Work(d)' \subseteq 0..(taken' - 1)
    <3>1. taken' >= taken
      BY <1>1, <1>4 DEF Positive
    <3>2. \A d \in Consumers \ {c} : Work(d) \subseteq 0..(taken - 1)
      BY DEF IInv, WorkInv
    <3>3. taken..(taken' - 1) \subseteq 0..(taken' - 1) /\ 0..(taken - 1) \subseteq 0..(taken' - 1)
      BY <1>1, <1>4, <3>1
    <3> QED BY <1>9, <1>10, <3>2, <3>3
  <2>2. ASSUME NEW d \in Consumers, NEW e \in Consumers, d # e PROVE Work(d)' \cap Work(e)' = {}
    <3>1. CASE d # c /\ e # c
      BY <3>1, <2>2, <1>10 DEF IInv, WorkInv
    <3>2. \A f \in Consumers \ {c} : Work(f)' \cap (taken..(taken' - 1)) = {}
      BY <1>10, <1>4 DEF IInv, WorkInv
    <3> QED BY <3>1, <3>2, <2>2, <1>9
  <2>3. WorkOk(r)
    BY IntervalWork DEF WorkOk
  <2>4. \A d \in Consumers : WorkOk(consumer'[d])
    BY <1>1, <1>3, <2>3 DEF IInv, WorkInv
  <2>5. \A d \in Consumers : WorkOk(consumer[d])'
    BY <2>4 DEF WorkOk
  <2> QED BY <2>1, <2>2, <2>5 DEF WorkInv
<1>12. Open' = Open
  <2>1. Filled' = Filled
    BY <1>6, ViewKept
  <2>2. ASSUME NEW i \in Nat
        PROVE (i >= taken \/ \E d \in Consumers : i \in Work(d)) <=> (i >= taken' \/ \E d \in Consumers : i \in Work(d)')
    <3>1. i \in Work(c)' <=> i >= taken /\ i < taken'
      BY <1>1, <1>4, <1>9
    <3>2. taken <= taken'
      BY <1>1, <1>4 DEF Positive
    <3>3. (\E d \in Consumers : i \in Work(d)') <=> i \in Work(c)' \/ \E d \in Consumers : i \in Work(d)
      BY <1>9, <1>10
    <3> QED BY <3>1, <3>2, <3>3, <1>1, <1>4
  <2> QED BY <2>1, <2>2 DEF Open
<1>13. IndexInv'
  <2>1. \A d \in Consumers : consumer'[d] = consumer[d] \/ (consumer[d].pc \notin Freers /\ consumer'[d].pc \notin Freers)
    BY <1>3, <1>7 DEF Freers
  <2> QED BY <1>6, <1>12, <2>1, IndexKept DEF IInv
<1>14. ConsumerInv'
  <2>1. PlaceOk(r)
    BY IntervalWork DEF PlaceOk
  <2>2. \A d \in Consumers : PlaceOk(consumer'[d])
    BY <1>1, <1>3, <2>1 DEF IInv, ConsumerInv
  <2>3. \A d \in Consumers : PlaceOk(consumer[d])'
    <3> SUFFICES ASSUME NEW d \in Consumers PROVE PlaceOk(consumer[d])'
      OBVIOUS
    <3>1. PlaceOk(consumer'[d])
      BY <2>2
    <3> QED BY <3>1, <1>6, PlaceKept
  <2> QED BY <2>3 DEF ConsumerInv
<1>15. CountType'
  BY <1>1, <1>6 DEF IInv, CountType, At
<1>16. SeenInv'
  <2>1. /\ pushed \in Nat /\ claims \in Nat /\ pushed' = pushed /\ claims' = claims
        /\ dequeueOvercommit \in Nat /\ dequeueOvercommit' = dequeueOvercommit
    BY <1>6 DEF IInv, CountType
  <2> QED BY <1>3, <1>7, <2>1, SeenKept DEF IInv, In
<1> QED BY <1>1, <1>5, <1>11, <1>13, <1>14, <1>15, <1>16 DEF IInv

-----------------------------------------------------------------------------
(* The steps that look up a block *)

\* A step of a consumer that only learns more about the indices it has.
LEMMA KnowsStep ==
  ASSUME IInv, UNCHANGED <<shared, memory, index, producer, pushed, taken, claims>>,
         NEW c \in Consumers, NEW r \in Records, Set(c, r),
         consumer[c].pc \in Searching, r.pc \in {"tail", "find", "read", "empty"},
         WorkIn(r) = Work(c), WorkOk(r), PlaceOk(r)
  PROVE  IInv'
<1>1. ConsumerType' /\ consumer'[c] = r /\ \A d \in Consumers \ {c} : consumer'[d] = consumer[d]
  BY TypeStep DEF IInv
<1>2. UNCHANGED <<headers, entries>>
  BY DEF index
<1>3. WorkInv' /\ IndexInv' /\ ConsumerInv'
  BY <1>1, <1>2, OneKnows DEF IInv, Freers, Searching
<1>4. CountType' /\ CountInv' /\ ClaimInv'
  BY <1>1, CountsStay DEF Claimers, Searching
<1>5. SeenInv'
  <2>1. /\ pushed \in Nat /\ claims \in Nat /\ dequeueOvercommit \in Nat
        /\ pushed' = pushed /\ claims' = claims /\ dequeueOvercommit' = dequeueOvercommit
    BY DEF IInv, CountType, shared
  <2> QED BY <1>1, <2>1, SeenKept DEF IInv, In
<1> QED BY <1>1, <1>3, <1>4, <1>5 DEF IInv

\* What a consumer has taken and not found has been published, and is open.
LEMMA TakenIs ==
  ASSUME IInv
  PROVE  taken \in Nat /\ pushed \in Nat /\ taken <= pushed
<1>1. taken \in Nat /\ pushed \in Nat /\ taken + Cardinality(Grants) <= pushed
  BY DEF IInv, CountType, CountInv
<1>2. Cardinality(Grants) \in Nat
  BY CountsFinite DEF IInv
<1> QED BY <1>1, <1>2

LEMMA WorkIsOpen ==
  ASSUME IInv, NEW c \in Consumers, NEW i \in Work(c)
  PROVE  /\ i \in Nat /\ i < taken /\ i < pushed
         /\ i \in Open /\ Number(i) \in Nat /\ Number(i) < Filled
<1>1. taken \in Nat /\ pushed \in Nat /\ taken <= pushed
  BY TakenIs
<1>2. i \in 0..(taken - 1)
  BY DEF IInv, WorkInv
<1>3. i \in Nat /\ i < taken /\ i < pushed
  BY <1>1, <1>2
<1>4. Filled \in Nat /\ pushed <= BlockSize * Filled /\ Number(i) < Filled
  BY <1>3, FilledIs DEF IInv, IndexInv
<1>5. PICK f \in Int : f = BlockSize * Filled
  BY <1>4, BlockFacts
<1>6. i \in 0..(f - 1)
  BY <1>1, <1>3, <1>4, <1>5
<1>7. i \in Open
  BY <1>5, <1>6 DEF Open
<1> QED BY <1>3, <1>4, <1>7, NumberIs

LEMMA SearchIs ==
  ASSUME IInv, NEW c \in Consumers, consumer[c].pc \in Searching
  PROVE  /\ consumer[c].index \in Nat /\ consumer[c].left \in Positive
         /\ consumer[c].n = consumer[c].index + 1
         /\ Work(c) = consumer[c].index..(consumer[c].index + consumer[c].left - 1)
         /\ consumer[c].index \in Work(c) /\ (consumer[c].index + consumer[c].left - 1) \in Work(c)
         /\ consumer[c].index + consumer[c].left <= pushed
<1>1. consumer[c].index \in Nat /\ consumer[c].left \in Positive
  BY Shapes DEF IInv, Searching, Heading, Tailing, Finding, Readings
<1>2. Rest(consumer[c]) = consumer[c] /\ consumer[c].pc # "empty"
  BY DEF Rest, Searching
<1>3. Work(c) = consumer[c].index..(consumer[c].index + consumer[c].left - 1)
  BY <1>2 DEF Work, WorkIn, WorkOf, Reading
<1>4. consumer[c].n = consumer[c].index + 1
  BY <1>2 DEF IInv, WorkInv, WorkOk
<1>5. consumer[c].index \in Work(c) /\ (consumer[c].index + consumer[c].left - 1) \in Work(c)
  BY <1>1, <1>3 DEF Positive
<1>6. consumer[c].index + consumer[c].left - 1 < pushed /\ pushed \in Nat
  BY <1>5, WorkIsOpen, TakenIs
<1> QED BY <1>1, <1>3, <1>4, <1>5, <1>6 DEF Positive

\* The newest index, by its tail, has the entries of all the blocks of published elements.
LEMMA NewestFinds ==
  ASSUME CountType, IndexInv, NEW r, r.index \in Nat, r.left \in Positive, r.index + r.left <= pushed
  PROVE  FindsFrom(Len(headers), headers[Len(headers)].tail, r)
<1>1. PICK j \in Nat : j = r.index + r.left - 1
  BY DEF Positive
<1>2. j < pushed /\ pushed \in Nat
  BY <1>1 DEF Positive, CountType
<1>3. Filled \in Nat /\ Number(j) < Filled /\ Number(j) \in Nat
      /\ Shown = IF At("requisition") \/ At("install") THEN Filled + 1 ELSE Filled
  BY <1>2, FilledIs, NumberIs DEF IndexInv
<1>4. PICK l \in Int : l = Shown - 1
  BY <1>3
<1>5. l \in Number(j)..Filled
  BY <1>3, <1>4
<1>6. Maps(Len(headers), headers[Len(headers)].tail, l, Number(r.index), l)
  <2>1. Shown \in Int /\ blockIndex.tail \in Int /\ headers[Len(headers)] = blockIndex
    BY <1>3, LastIs DEF IndexInv
  <2>2. Number(r.index) \in Nat
    BY NumberIs
  <2>3. ASSUME NEW p \in Number(r.index)..l
        PROVE blockIndex.index[(blockIndex.tail + p - l) % Capacity(blockIndex)] = EntryOf(p)
    <3>1. p \in Int
      BY <2>2
    <3>2. blockIndex.tail + p - l = blockIndex.tail + p + 1 - Shown
      BY <1>4, <2>1, <3>1
    <3> QED BY <3>2 DEF EntryOf
  <2> QED BY <2>1, <2>3 DEF Maps
<1>7. l = Filled => Announced
  <2>1. l = Filled => At("requisition") \/ At("install")
    BY <1>3, <1>4
  <2> QED BY <2>1 DEF IndexInv, ProducerInv
<1>8. j = r.index + r.left - 1
  BY <1>1
<1> QED BY <1>5, <1>6, <1>7, <1>8 DEF FindsFrom

LEMMA SearchingIs ==
  ASSUME NEW r, r.pc \in Searching
  PROVE  WorkIn(r) = r.index..(r.index + r.left - 1) /\ Rest(r) = r /\ (r.n = r.index + 1 => WorkOk(r))
<1>1. Rest(r) = r /\ r.pc # "empty"
  BY DEF Rest, Searching
<1> QED BY <1>1 DEF WorkIn, WorkOf, Reading, WorkOk

LEMMA LoadHeaderStep ==
  ASSUME IInv, NEW c \in Consumers, LoadHeader(c)
  PROVE  IInv'
<1> DEFINE r == [pc |-> "tail", index |-> consumer[c].index, n |-> consumer[c].n,
                 left |-> consumer[c].left, h |-> Len(headers)]
<1>1. consumer[c].pc = "header" /\ consumer[c].pc \in Searching /\ Set(c, r)
      /\ UNCHANGED <<shared, memory, index, producer, pushed, taken, claims>>
  BY DEF LoadHeader, In, Searching
<1>2. /\ consumer[c].index \in Nat /\ consumer[c].left \in Positive
      /\ consumer[c].n = consumer[c].index + 1
      /\ Work(c) = consumer[c].index..(consumer[c].index + consumer[c].left - 1)
      /\ consumer[c].index + consumer[c].left <= pushed
  BY <1>1, SearchIs
<1>3. Len(headers) \in DOMAIN headers /\ Len(headers) \in Positive
  BY LastIs DEF IInv, IndexInv, Positive
<1>4. r \in Records
  BY <1>2, <1>3 DEF Records, Tailing
<1>5. r.pc \in Searching /\ WorkIn(r) = Work(c) /\ WorkOk(r) /\ Rest(r) = r
  <2>1. r.pc \in Searching
    BY DEF Searching
  <2>2. WorkIn(r) = r.index..(r.index + r.left - 1) /\ Rest(r) = r /\ (r.n = r.index + 1 => WorkOk(r))
    BY <2>1, SearchingIs
  <2> QED BY <2>1, <2>2, <1>2
<1>6. PlaceOk(r)
  <2>1. FindsFrom(Len(headers), headers[Len(headers)].tail, r)
    BY <1>2, NewestFinds DEF IInv
  <2> QED BY <2>1, <1>3, <1>5 DEF PlaceOk
<1>7. r.pc \in {"tail", "find", "read", "empty"}
  OBVIOUS
<1> HIDE DEF r
<1> QED BY <1>1, <1>4, <1>5, <1>6, <1>7, KnowsStep

LEMMA FindsKept ==
  ASSUME NEW h, NEW t, NEW q, NEW r, q.index = r.index, q.left = r.left, FindsFrom(h, t, q)
  PROVE  FindsFrom(h, t, r)
  BY DEF FindsFrom

LEMMA LoadTailStep ==
  ASSUME IInv, NEW c \in Consumers, LoadTail(c)
  PROVE  IInv'
<1> DEFINE r == [pc |-> "find", index |-> consumer[c].index, n |-> consumer[c].n,
                 left |-> consumer[c].left, h |-> consumer[c].h, tail |-> headers[consumer[c].h].tail]
<1>1. consumer[c].pc = "tail" /\ consumer[c].pc \in Searching /\ Set(c, r)
      /\ UNCHANGED <<shared, memory, index, producer, pushed, taken, claims>>
  BY DEF LoadTail, In, Searching
<1>2. /\ consumer[c].index \in Nat /\ consumer[c].left \in Positive
      /\ consumer[c].n = consumer[c].index + 1
      /\ Work(c) = consumer[c].index..(consumer[c].index + consumer[c].left - 1)
  BY <1>1, SearchIs
<1>3. consumer[c].h \in DOMAIN headers /\ FindsFrom(consumer[c].h, headers[consumer[c].h].tail, consumer[c])
  BY <1>1 DEF IInv, ConsumerInv, PlaceOk
<1>4. /\ Capacity(headers[consumer[c].h]) \in Nat
      /\ headers[consumer[c].h].tail \in 0..(Capacity(headers[consumer[c].h]) - 1)
      /\ DOMAIN headers[consumer[c].h].index = 0..(Capacity(headers[consumer[c].h]) - 1)
      /\ consumer[c].h \in Positive
  BY <1>3, HeaderIs, SizeIs, LastIs DEF IInv, IndexInv, Positive
<1>5. headers[consumer[c].h].tail \in Nat
  BY <1>4
<1>6. r \in Records
  BY <1>2, <1>4, <1>5 DEF Records, Finding
<1>7. r.pc \in Searching /\ WorkIn(r) = Work(c) /\ WorkOk(r) /\ Rest(r) = r
  <2>1. r.pc \in Searching
    BY DEF Searching
  <2>2. WorkIn(r) = r.index..(r.index + r.left - 1) /\ Rest(r) = r /\ (r.n = r.index + 1 => WorkOk(r))
    BY <2>1, SearchingIs
  <2> QED BY <2>1, <2>2, <1>2
<1>8. PlaceOk(r)
  <2>1. FindsFrom(r.h, r.tail, r)
    BY <1>3, FindsKept
  <2> QED BY <2>1, <1>3, <1>4, <1>7 DEF PlaceOk
<1>9. r.pc \in {"tail", "find", "read", "empty"}
  OBVIOUS
<1> HIDE DEF r
<1> QED BY <1>1, <1>6, <1>7, <1>8, <1>9, KnowsStep

\* The difference of two bases, as an unsigned number, in blocks.
LEMMA OffsetIs ==
  ASSUME NEW x \in Int
  PROVE  ((BlockSize * x) % Span) \div BlockSize = x % (Span \div BlockSize) /\ Span \div BlockSize \in Nat \ {0}
<1>1. PICK s \in Nat : s = Span \div BlockSize
  BY SizeFacts
<1>2. Span = BlockSize * s /\ Span \in Nat \ {0}
  BY <1>1, SizeFacts, SizesAssumption
<1>3. s # 0
  BY <1>2, BlockFacts
<1>4. PICK q \in Int : q = x \div s
  BY <1>3, DivMod
<1>5. PICK e \in 0..(s - 1) : e = x % s /\ x = s * q + e
  BY <1>3, <1>4, DivMod
<1>6. BlockSize * x = Span * q + BlockSize * e
  <2>1. BlockSize * (s * q + e) = (BlockSize * s) * q + BlockSize * e
    BY BlockFacts
  <2> QED BY <2>1, <1>2, <1>5
<1>7. BlockSize * e \in 0..(Span - 1)
  <2>1. PICK d \in Nat : s = e + 1 + d
    OBVIOUS
  <2>2. BlockSize * (e + 1 + d) = BlockSize * e + BlockSize + BlockSize * d /\ BlockSize * d >= 0 /\ BlockSize * e >= 0
    BY <1>5, BlockFacts
  <2>3. PICK a \in Nat, b \in Nat : a = BlockSize * e /\ b = BlockSize * d
    BY <1>5, BlockFacts
  <2>4. Span = a + BlockSize + b
    BY <1>2, <2>1, <2>2, <2>3
  <2> QED BY <2>3, <2>4, BlockFacts
<1>8. PICK y \in 0..(Span - 1) : y = BlockSize * e
  BY <1>7
<1>9. (Span * q + y) % Span = y
  BY <1>2, <1>4, <1>8, DivModUnique
<1>10. (BlockSize * x) % Span = BlockSize * e
  BY <1>6, <1>8, <1>9
<1>11. (BlockSize * e + 0) \div BlockSize = e
  <2>1. BlockSize \in Nat \ {0} /\ e \in Int /\ 0 \in 0..(BlockSize - 1)
    BY BlockFacts
  <2> QED BY <2>1, DivModUnique
<1>12. BlockSize * e + 0 = BlockSize * e
  BY <1>8
<1> QED BY <1>1, <1>3, <1>5, <1>10, <1>11, <1>12

\* An index of n entries is turned by whole numbers of times.
LEMMA OffsetIn ==
  ASSUME NEW n \in Sizes, NEW t \in Int, NEW x \in Int
  PROVE  (t + (x % (Span \div BlockSize))) % n = (t + x) % n
<1>1. PICK s \in Nat : s = Span \div BlockSize /\ s # 0
  BY OffsetIs
<1>2. n \in Nat \ {0} /\ \E m \in Nat : s = n * m
  BY <1>1, SizeIs
<1>3. PICK m \in Nat : s = n * m
  BY <1>2
<1>4. PICK q \in Int : q = x \div s
  BY <1>1, DivMod
<1>5. PICK e \in 0..(s - 1) : e = x % s /\ x = s * q + e
  BY <1>1, <1>4, DivMod
<1>6. PICK k \in Int : k = m * q
  BY <1>3, <1>4
<1>7. s * q = n * k
  BY <1>2, <1>3, <1>4, <1>6
<1>8. PICK y \in Int : y = t + e
  BY <1>5
<1>9. (y + n * k) % n = y % n
  BY <1>2, <1>6, <1>8, ModTurns
<1>10. PICK z \in Int : z = n * k
  BY <1>2, <1>6
<1>11. t + x = y + n * k
  BY <1>5, <1>7, <1>8, <1>10
<1> QED BY <1>1, <1>5, <1>8, <1>9, <1>11

\* What a search from position t of header h finds.
LEMMA PositionIs ==
  ASSUME IInv, NEW h \in DOMAIN headers, NEW t \in DOMAIN headers[h].index, NEW r, FindsFrom(h, t, r),
         r.index \in Nat, r.index \in Open, r.left \in Positive, Number(r.index + r.left - 1) < Filled
  PROVE  LET at == PositionIn(headers[h], t, r.index)
         IN /\ at \in 0..(Capacity(headers[h]) - 1)
            /\ DOMAIN headers[h].index = 0..(Capacity(headers[h]) - 1)
            /\ Maps(h, at, Number(r.index), Number(r.index), Number(r.index + r.left - 1))
<1> DEFINE i == r.index
           j == i + r.left - 1
           at == PositionIn(headers[h], t, i)
           C == Capacity(headers[h])
<1>1. Filled \in Nat
  BY FilledIs DEF IInv, IndexInv
<1>2. i \in Nat /\ j \in Nat /\ r.left \in Positive /\ i <= j
  BY DEF Positive
<1>3. i \in Open /\ Number(i) \in Nat /\ Number(i) < Filled /\ Number(j) \in Nat /\ Number(j) < Filled /\ j \in Nat
  <2>1. Number(i) \in Nat /\ Number(j) \in Nat /\ Number(i) <= Number(j)
    BY <1>2, NumberIs, NumberMonotone
  <2> QED BY <1>1, <1>2, <2>1
<1>4. h \in DOMAIN headers /\ t \in DOMAIN headers[h].index /\ FindsFrom(h, t, r)
  OBVIOUS
<1>5. C \in Sizes /\ C \in Nat \ {0} /\ DOMAIN headers[h].index = 0..(C - 1)
  BY <1>4, HeaderIs, SizeIs DEF IInv, IndexInv
<1>6. t \in Nat /\ t < C
  BY <1>4, <1>5
<1>7. PICK l \in Number(j)..Filled : Maps(h, t, l, Number(i), l) /\ (l = Filled => Announced)
  BY <1>4 DEF FindsFrom
<1>8. Filled \in Nat /\ l \in Nat /\ l <= Filled
  BY <1>3, <1>7, FilledIs DEF IInv, IndexInv
<1>9. Number(i) <= Number(j)
  BY <1>2, <1>3, NumberMonotone DEF Positive
<1>10. Number(i) <= l /\ l \in Number(i)..l
  BY <1>3, <1>7, <1>8, <1>9
<1>11. headers[h].index[t] = EntryOf(l)
  <2>1. headers[h].index[(t + l - l) % C] = EntryOf(l)
    BY <1>7, <1>10 DEF Maps
  <2>2. t + l - l = t
    BY <1>6, <1>8
  <2>3. t % C = t
    BY <1>5, <1>6, ModSmall
  <2> QED BY <2>1, <2>2, <2>3
<1>12. entries[EntryOf(l)].key = BlockSize * l
  <2>1. CASE l = Filled
    BY <2>1, <1>7 DEF Announced
  <2>2. CASE l < Filled
    <3>1. l \in Number(i)..(Filled - 1)
      BY <2>2, <1>3, <1>8, <1>10
    <3> QED BY <3>1, <1>3 DEF IInv, IndexInv, KeyInv
  <2> QED BY <2>1, <2>2, <1>8
<1>13. Base(i) = BlockSize * Number(i)
  BY <1>2, NumberIs
<1>14. PICK x \in Int : x = Number(i) - l
  BY <1>3, <1>8
<1>15. Base(i) - entries[headers[h].index[t]].key = BlockSize * x
  <2>1. BlockSize * (Number(i) - l) = BlockSize * Number(i) - BlockSize * l
    BY <1>3, <1>8, BlockFacts
  <2> QED BY <2>1, <1>11, <1>12, <1>13, <1>14
<1>16. at = (t + (x % (Span \div BlockSize))) % C
  BY <1>15, OffsetIs DEF PositionIn
<1> HIDE DEF at, C
<1>17. at = (t + x) % C
  <2>1. t \in Int
    BY <1>6
  <2>2. (t + (x % (Span \div BlockSize))) % C = (t + x) % C
    BY <1>5, <2>1, OffsetIn
  <2> QED BY <1>16, <2>2
<1>18. at = (t + Number(i) - l) % C
  <2>1. t + x = t + Number(i) - l
    BY <1>3, <1>6, <1>8, <1>14
  <2> QED BY <2>1, <1>17
<1>19. PICK y \in Int : y = t + x
  BY <1>6, <1>14
<1>20. at \in 0..(C - 1)
  BY <1>5, <1>17, <1>19, DivMod
<1>21. ASSUME NEW p \in Number(i)..Number(j) PROVE headers[h].index[(at + p - Number(i)) % C] = EntryOf(p)
  <2>1. p \in Int /\ p \in Number(i)..l
    BY <1>3, <1>7, <1>8
  <2>2. (at + p - Number(i)) % C = (t + p - l) % C
    <3>1. t \in Int /\ l \in Int /\ Number(i) \in Int
      BY <1>3, <1>6, <1>8
    <3>2. PICK u \in Int, v \in Int : u = t + Number(i) - l /\ v = p - Number(i)
      BY <2>1, <3>1
    <3>3. ((u % C) + v) % C = (u + v) % C
      BY <1>5, ModAdd
    <3>4. u + v = t + p - l
      BY <2>1, <3>1, <3>2
    <3>5. (u % C) + v = at + p - Number(i)
      BY <1>18, <1>20, <2>1, <3>1, <3>2, <1>5
    <3> QED BY <3>3, <3>4, <3>5
  <2>3. headers[h].index[(t + p - l) % C] = EntryOf(p)
    BY <1>7, <2>1 DEF Maps, C
  <2> QED BY <2>2, <2>3
<1>22. Maps(h, at, Number(i), Number(i), Number(j))
  BY <1>21 DEF Maps, C
<1> QED BY <1>5, <1>20, <1>22 DEF C, at

\* What FindEntry finds.
LEMMA FindIs ==
  ASSUME IInv, NEW c \in Consumers, In(c, "find")
  PROVE  LET h == consumer[c].h
             at == PositionIn(headers[h], consumer[c].tail, consumer[c].index)
         IN /\ h \in DOMAIN headers /\ at \in 0..(Capacity(headers[h]) - 1)
            /\ DOMAIN headers[h].index = 0..(Capacity(headers[h]) - 1)
            /\ Maps(h, at, Number(consumer[c].index), Number(consumer[c].index),
                    Number(consumer[c].index + consumer[c].left - 1))
<1>1. consumer[c].pc \in Searching
  BY DEF In, Searching
<1>2. /\ consumer[c].index \in Work(c) /\ (consumer[c].index + consumer[c].left - 1) \in Work(c)
      /\ consumer[c].left \in Positive
  BY <1>1, SearchIs
<1>3. /\ consumer[c].index \in Open /\ consumer[c].index \in Nat
      /\ Number(consumer[c].index + consumer[c].left - 1) < Filled
  BY <1>2, WorkIsOpen
<1>4. /\ consumer[c].h \in DOMAIN headers /\ consumer[c].tail \in DOMAIN headers[consumer[c].h].index
      /\ FindsFrom(consumer[c].h, consumer[c].tail, consumer[c])
  BY DEF IInv, ConsumerInv, PlaceOk, In
<1> QED BY <1>2, <1>3, <1>4, PositionIs

LEMMA FindEntryStep ==
  ASSUME IInv, NEW c \in Consumers, FindEntry(c)
  PROVE  IInv'
<1> DEFINE at == PositionIn(headers[consumer[c].h], consumer[c].tail, consumer[c].index)
           r == [pc |-> "read", index |-> consumer[c].index, n |-> consumer[c].n,
                 left |-> consumer[c].left, h |-> consumer[c].h, at |-> at]
<1>1. consumer[c].pc = "find" /\ consumer[c].pc \in Searching /\ Set(c, r)
      /\ UNCHANGED <<shared, memory, index, producer, pushed, taken, claims>>
  BY DEF FindEntry, In, Searching
<1>2. /\ consumer[c].index \in Nat /\ consumer[c].left \in Positive
      /\ consumer[c].n = consumer[c].index + 1
      /\ Work(c) = consumer[c].index..(consumer[c].index + consumer[c].left - 1)
  BY <1>1, SearchIs
<1>3. /\ consumer[c].h \in DOMAIN headers /\ at \in 0..(Capacity(headers[consumer[c].h]) - 1)
      /\ DOMAIN headers[consumer[c].h].index = 0..(Capacity(headers[consumer[c].h]) - 1)
      /\ Maps(consumer[c].h, at, Number(consumer[c].index), Number(consumer[c].index),
              Number(consumer[c].index + consumer[c].left - 1))
  BY <1>1, FindIs DEF In
<1> HIDE DEF at
<1>4. Capacity(headers[consumer[c].h]) \in Nat /\ consumer[c].h \in Positive
  BY <1>3, HeaderIs, SizeIs, LastIs DEF IInv, IndexInv, Positive
<1>5. at \in Nat
  BY <1>3, <1>4
<1>6. r \in Records
  BY <1>2, <1>4, <1>5 DEF Records, Rests, Readings
<1>7. r.pc \in Searching /\ WorkIn(r) = Work(c) /\ WorkOk(r) /\ Rest(r) = r
  <2>1. r.pc \in Searching
    BY DEF Searching
  <2>2. WorkIn(r) = r.index..(r.index + r.left - 1) /\ Rest(r) = r /\ (r.n = r.index + 1 => WorkOk(r))
    BY <2>1, SearchingIs
  <2> QED BY <2>1, <2>2, <1>2
<1>8. PlaceOk(r)
  <2>1. r.pc = "read" /\ r.h = consumer[c].h /\ r.at = at /\ r.index = consumer[c].index /\ r.left = consumer[c].left
    OBVIOUS
  <2> HIDE DEF r
  <2> QED BY <1>3, <1>7, <2>1 DEF PlaceOk
<1>9. r.pc \in {"tail", "find", "read", "empty"}
  OBVIOUS
<1> HIDE DEF r
<1> QED BY <1>1, <1>6, <1>7, <1>8, <1>9, KnowsStep

LEMMA IntervalsJoin ==
  ASSUME NEW a \in Int, NEW b \in Int, NEW d \in Int, a <= b, b <= d + 1
  PROVE  (a..(b - 1)) \cup (b..d) = a..d
  OBVIOUS

LEMMA PushedSmall ==
  ASSUME NoWrap, CountType
  PROVE  pushed \in Nat /\ pushed < Span
  BY SizesFacts DEF CountType

\* Going on to the next block.
LEMMA MapsOn ==
  ASSUME NEW h, NEW at \in Int, NEW p \in Int, NEW q \in Int, NEW n \in Nat \ {0}, n = Capacity(headers[h]),
         Maps(h, at, p, p, q)
  PROVE  Maps(h, (at + 1) % n, p + 1, p + 1, q)
<1> SUFFICES ASSUME NEW m \in (p + 1)..q
             PROVE  headers[h].index[(((at + 1) % n) + m - (p + 1)) % n] = EntryOf(m)
  BY DEF Maps
<1>1. m \in p..q /\ m \in Int
  OBVIOUS
<1>2. headers[h].index[(at + m - p) % n] = EntryOf(m)
  BY <1>1 DEF Maps
<1>3. PICK u \in Int, v \in Int : u = at + 1 /\ v = m - (p + 1)
  BY <1>1
<1>4. ((u % n) + v) % n = (u + v) % n
  BY ModAdd
<1>5. PICK w \in Int : w = u % n
  BY <1>3, DivMod
<1>6. u + v = at + m - p /\ w + v = w + m - (p + 1)
  BY <1>1, <1>3, <1>5
<1> QED BY <1>2, <1>3, <1>4, <1>5, <1>6

\* What ReadElements reads.
LEMMA ReadIs ==
  ASSUME IInv, NEW c \in Consumers, In(c, "read")
  PROVE  LET h == consumer[c].h
             i == consumer[c].index
             e == headers[h].index[consumer[c].at]
             k == InThisBlock(c)
         IN /\ h \in DOMAIN headers /\ consumer[c].at \in 0..(Capacity(headers[h]) - 1)
            /\ DOMAIN headers[h].index = 0..(Capacity(headers[h]) - 1)
            /\ Maps(h, consumer[c].at, Number(i), Number(i), Number(i + consumer[c].left - 1))
            /\ e = EntryOf(Number(i)) /\ e \in DOMAIN entries /\ e \in Nat
            /\ entries[e].value \in Blocks
            /\ k \in 1..consumer[c].left /\ (i % BlockSize) + k <= BlockSize
            /\ k < consumer[c].left => (i % BlockSize) + k = BlockSize
            /\ \A j \in 1..k : slots[entries[e].value][(i % BlockSize) + j - 1] = i + j
<1> DEFINE h == consumer[c].h
           i == consumer[c].index
           at == consumer[c].at
           e == headers[h].index[at]
           k == InThisBlock(c)
           C == Capacity(headers[h])
           left == consumer[c].left
           b == entries[e].value
<1>1. consumer[c].pc \in Searching
  BY DEF In, Searching
<1>2. i \in Nat /\ left \in Positive /\ i \in Work(c) /\ (i + left - 1) \in Work(c) /\ Work(c) = i..(i + left - 1)
  BY <1>1, SearchIs
<1>3. Number(i) \in Nat /\ i \in Open /\ Number(i) < Filled /\ i < pushed
  BY <1>2, WorkIsOpen
<1>4. h \in DOMAIN headers /\ at \in DOMAIN headers[h].index
      /\ Maps(h, at, Number(i), Number(i), Number(i + left - 1))
  <2>1. Rest(consumer[c]) = consumer[c] /\ consumer[c].pc = "read"
    BY DEF Rest, In
  <2> QED BY <2>1 DEF IInv, ConsumerInv, PlaceOk
<1>5. C \in Nat \ {0} /\ DOMAIN headers[h].index = 0..(C - 1)
  BY <1>4, HeaderIs, SizeIs DEF IInv, IndexInv
<1>6. at \in Nat /\ at < C /\ at \in 0..(C - 1)
  BY <1>4, <1>5
<1>7. e = EntryOf(Number(i))
  <2>1. Number(i) <= Number(i + left - 1) /\ Number(i + left - 1) \in Nat
    <3>1. i + left - 1 \in Nat /\ i <= i + left - 1
      BY <1>2 DEF Positive
    <3> QED BY <1>2, <3>1, NumberMonotone, NumberIs
  <2>2. headers[h].index[(at + Number(i) - Number(i)) % C] = EntryOf(Number(i))
    BY <1>3, <1>4, <2>1 DEF Maps
  <2>3. at + Number(i) - Number(i) = at
    BY <1>3, <1>6
  <2>4. at % C = at
    BY <1>5, <1>6, ModSmall
  <2> QED BY <2>2, <2>3, <2>4
<1>8. Filled \in Nat /\ Shown \in Nat
  BY FilledIs DEF IInv, IndexInv
<1>9. e \in DOMAIN entries /\ e \in Nat
  <2>1. e \in DOMAIN entries
    BY <1>3, <1>7, <1>8, PlaceIs DEF IInv, IndexInv
  <2>2. DOMAIN entries = 0..(Cap - 1) /\ Cap \in Nat
    BY LastIs DEF IInv, IndexInv, IndexType, Cap
  <2> QED BY <2>1, <2>2
<1>10. b \in Blocks
  <2>1. b # NoBlock
    BY <1>3, <1>7 DEF IInv, IndexInv, BlockInv
  <2>2. b \in 0..blocks
    BY <1>9 DEF IInv, IndexInv, IndexType
  <2>3. blocks \in 0..MaxBlocks /\ MaxBlocks \in Nat
    BY SizeFacts DEF IInv, IndexInv, MemoryType
  <2> QED BY <2>1, <2>2, <2>3 DEF Blocks, NoBlock
<1>11. i % BlockSize \in 0..(BlockSize - 1)
  BY <1>2, NumberIs
<1>12. k = IF left < BlockSize - (i % BlockSize) THEN left ELSE BlockSize - (i % BlockSize)
  BY DEF InThisBlock, Least
<1>13. k \in 1..left /\ (i % BlockSize) + k <= BlockSize /\ (k < left => (i % BlockSize) + k = BlockSize)
  <2>1. PICK f \in 0..(BlockSize - 1) : f = i % BlockSize
    BY <1>11
  <2>2. k = IF left < BlockSize - f THEN left ELSE BlockSize - f
    BY <1>12, <2>1
  <2>3. PICK m \in Nat : m = left /\ m >= 1
    BY <1>2 DEF Positive
  <2>4. k \in 1..m /\ f + k <= BlockSize /\ (k < m => f + k = BlockSize)
    BY <2>2, <2>3, BlockFacts
  <2> QED BY <2>1, <2>3, <2>4
<1>14. ASSUME NEW j \in 1..k PROVE slots[b][(i % BlockSize) + j - 1] = i + j
  <2>1. PICK m \in Nat : m = j - 1 /\ m < k
    BY <1>13
  <2>2. (i % BlockSize) + m < BlockSize
    BY <1>11, <1>13, <2>1, BlockFacts
  <2>3. Number(i + m) = Number(i) /\ (i + m) % BlockSize = (i % BlockSize) + m
    BY <1>2, <2>1, <2>2, SameBlock
  <2>4. i + m \in Work(c)
    BY <1>2, <1>13, <2>1 DEF Positive
  <2>5. i + m \in Open /\ i + m < pushed
    BY <2>4, WorkIsOpen
  <2>6. slots[entries[EntryOf(Number(i + m))].value][(i + m) % BlockSize] = i + m + 1
    BY <2>5 DEF IInv, IndexInv, BlockInv
  <2>7. (i % BlockSize) + m = (i % BlockSize) + j - 1 /\ i + m + 1 = i + j
    BY <1>2, <1>11, <2>1
  <2> QED BY <2>3, <2>6, <2>7, <1>7
<1> QED BY <1>4, <1>5, <1>6, <1>7, <1>9, <1>10, <1>13, <1>14

\* What a consumer that has read k of left elements has to do.
Fits(i, k) == (i % BlockSize) + k <= BlockSize

\* r has read k of the left elements from i on.
HasRead(r, i, left, k) ==
  /\ r.pc = "empty" /\ r.n = i + 1
  /\ DOMAIN r.elements = 1..k /\ Len(r.elements) = k /\ \A j \in 1..k : r.elements[j] = i + j
  /\ Fits(i, k)
  /\ k = left => r.rest = Idle
  /\ k < left => /\ r.rest.pc = "read" /\ r.rest.index = i + k /\ r.rest.n = i + k + 1
                 /\ r.rest.left = left - k

LEMMA ReadWork ==
  ASSUME NEW i \in Nat, NEW left \in Nat, NEW k \in 1..left, NEW r, HasRead(r, i, left, k)
  PROVE  WorkIn(r) = i..(i + left - 1) /\ WorkOk(r) /\ Rest(r) = r.rest
<1>0. /\ r.pc = "empty" /\ r.n = i + 1
      /\ DOMAIN r.elements = 1..k /\ Len(r.elements) = k /\ \A j \in 1..k : r.elements[j] = i + j
      /\ Fits(i, k)
      /\ k = left => r.rest = Idle
      /\ k < left => /\ r.rest.pc = "read" /\ r.rest.index = i + k /\ r.rest.n = i + k + 1
                     /\ r.rest.left = left - k
  BY DEF HasRead
<1>1. Rest(r) = r.rest
  BY <1>0 DEF Rest
<1>2. Reading(r) = i..(i + k - 1)
  <2>1. PICK m \in Int : m = i + 1 /\ m - 1 = i /\ m + k - 2 = i + k - 1
    OBVIOUS
  <2>2. r.n = m /\ Len(r.elements) = k /\ r.pc = "empty"
    BY <1>0, <2>1
  <2> QED BY <2>1, <2>2 DEF Reading
<1>3. r.n >= 1 /\ Len(r.elements) >= 1
  BY <1>0
<1>4. ((r.n - 1) % BlockSize) + Len(r.elements) <= BlockSize
  <2>1. r.n - 1 = i
    BY <1>0
  <2> QED BY <2>1, <1>0 DEF Fits
<1>5. \A j \in DOMAIN r.elements : r.elements[j] = r.n + j - 1
  BY <1>0
<1>6. CASE k = left
  <2>1. r.rest.pc = "idle" /\ r.rest = Idle
    BY <1>0, <1>6 DEF Idle
  <2>2. WorkOf(r.rest) = {}
    BY <2>1 DEF WorkOf, Searching
  <2>3. WorkIn(r) = i..(i + left - 1)
    BY <1>1, <1>2, <1>6, <2>2 DEF WorkIn
  <2>4. r.rest.pc \notin Searching
    BY <2>1 DEF Searching
  <2>5. WorkOk(r)
    BY <1>1, <1>3, <1>4, <1>5, <2>1, <2>4 DEF WorkOk
  <2> QED BY <1>1, <2>3, <2>5
<1>7. CASE k < left
  <2>1. PICK a \in Int, b \in Int : a = i + k /\ b = left - k
    OBVIOUS
  <2>2. r.rest.pc = "read" /\ r.rest.index = a /\ r.rest.n = a + 1 /\ r.rest.left = b
    BY <1>0, <1>7, <2>1
  <2>3. a + b - 1 = i + left - 1
    BY <2>1
  <2>4. WorkOf(r.rest) = a..(i + left - 1)
    BY <2>2, <2>3 DEF WorkOf, Searching
  <2>5. WorkIn(r) = i..(i + left - 1)
    <3>1. PICK d \in Int : d = i + left - 1 /\ i <= a /\ a <= d + 1
      BY <1>0, <1>7, <2>1
    <3>2. (i..(a - 1)) \cup (a..d) = i..d
      BY <3>1, IntervalsJoin
    <3>3. i + k - 1 = a - 1
      BY <2>1
    <3>4. WorkIn(r) = (i..(a - 1)) \cup (a..d)
      BY <3>1, <3>3, <1>1, <1>2, <2>4 DEF WorkIn
    <3> QED BY <3>1, <3>2, <3>4
  <2>6. r.rest.n = r.rest.index + 1
    BY <2>2
  <2>7. r.rest.index = r.n - 1 + Len(r.elements)
    BY <1>0, <2>1, <2>2
  <2>8. WorkOk(r)
    BY <1>1, <1>3, <1>4, <1>5, <2>6, <2>7 DEF WorkOk
  <2> QED BY <1>1, <2>5, <2>8
<1> QED BY <1>6, <1>7

LEMMA ReadElementsStep ==
  ASSUME NoWrap, IInv, NEW c \in Consumers, ReadElements(c)
  PROVE  IInv'
<1>1. consumer[c].pc = "read" /\ consumer[c].pc \in Searching
      /\ UNCHANGED <<shared, memory, index, producer, pushed, taken, claims>>
  BY DEF ReadElements, In, Searching
<1>2. PICK i \in Nat, left \in Nat : i = consumer[c].index /\ left = consumer[c].left
  BY <1>1, SearchIs DEF Positive
<1>3. /\ consumer[c].n = i + 1 /\ Work(c) = i..(i + left - 1) /\ i + left <= pushed
  BY <1>1, <1>2, SearchIs
<1>4. PICK h : h = consumer[c].h /\ h \in DOMAIN headers
  BY <1>1, ReadIs DEF In
<1>5. PICK n \in Nat \ {0} : n = Capacity(headers[h])
  BY <1>4, HeaderIs, SizeIs DEF IInv, IndexInv
<1>6. PICK at \in 0..(n - 1) : at = consumer[c].at
  BY <1>1, <1>4, <1>5, ReadIs DEF In
<1>7. PICK e \in Nat : e = headers[h].index[at]
  BY <1>1, <1>4, <1>6, ReadIs DEF In
<1>8. PICK k \in 1..left : k = InThisBlock(c)
  BY <1>1, <1>2, ReadIs DEF In
<1>9. /\ DOMAIN headers[h].index = 0..(n - 1)
      /\ Maps(h, at, Number(i), Number(i), Number(i + left - 1))
      /\ e = EntryOf(Number(i)) /\ e \in DOMAIN entries
      /\ entries[e].value \in Blocks
      /\ (i % BlockSize) + k <= BlockSize
      /\ k < left => (i % BlockSize) + k = BlockSize
      /\ \A j \in 1..k : slots[entries[e].value][(i % BlockSize) + j - 1] = i + j
  BY <1>1, <1>2, <1>4, <1>5, <1>6, <1>7, <1>8, ReadIs DEF In
<1> DEFINE elements == [j \in 1..k |-> slots[entries[e].value][(i % BlockSize) + j - 1]]
           next == [pc |-> "read", index |-> (i + k) % Span, n |-> i + 1 + k, left |-> left - k,
                    h |-> h, at |-> (at + 1) % n]
           rest == IF left = k THEN Idle ELSE next
           r == [pc |-> "empty", n |-> i + 1, entry |-> e, block |-> entries[e].value,
                 elements |-> elements, rest |-> rest]
<1>10. Set(c, r)
  BY <1>2, <1>3, <1>4, <1>5, <1>6, <1>7, <1>8 DEF ReadElements
<1>11. elements = [j \in 1..k |-> i + j]
  BY <1>9
<1>12. elements \in Seq(Nat) /\ Len(elements) = k /\ DOMAIN elements = 1..k /\ \A j \in 1..k : elements[j] = i + j
  BY <1>11
<1>13. (i + k) % Span = i + k
  <2>1. pushed \in Nat /\ pushed < Span /\ Span \in Nat
    BY PushedSmall, SizesFacts DEF IInv
  <2>2. i + k \in Nat /\ i + k < Span
    BY <2>1, <1>3
  <2> QED BY <2>2, SmallIsSelf
<1>14. (at + 1) % n \in 0..(n - 1)
  <2>1. PICK x \in Int : x = at + 1
    OBVIOUS
  <2>2. x % n \in 0..(n - 1)
    BY DivMod
  <2> QED BY <2>1, <2>2
<1>15. h \in Positive
  BY <1>4, LastIs DEF IInv, IndexInv, Positive
<1>16. rest \in Rests
  <2>1. CASE left = k
    BY <2>1 DEF Rests
  <2>2. CASE left # k
    <3>1. i + k \in Nat /\ i + 1 + k \in Nat /\ left - k \in Positive /\ (at + 1) % n \in Nat
      BY <1>14, <2>2 DEF Positive
    <3>2. next \in Readings
      BY <1>13, <1>15, <3>1 DEF Readings
    <3> QED BY <3>2, <2>2 DEF Rests
  <2> QED BY <2>1, <2>2
<1> HIDE DEF elements
<1>17. r \in Records
  <2> HIDE DEF rest
  <2>1. i + 1 \in Nat
    OBVIOUS
  <2>2. r \in Emptying
    BY <1>9, <1>12, <1>16, <2>1 DEF Emptying
  <2> QED BY <2>2 DEF Records
<1>18. r.pc = "empty" /\ r.n = i + 1 /\ r.elements = elements /\ r.entry = e /\ r.block = entries[e].value
  OBVIOUS
<1>19. left = k => r.rest = Idle
  OBVIOUS
<1>20. k < left => /\ r.rest.pc = "read" /\ r.rest.index = i + k /\ r.rest.n = i + 1 + k /\ r.rest.left = left - k
                   /\ r.rest.h = h /\ r.rest.at = (at + 1) % n
  BY <1>13
<1> HIDE DEF r
<1>21. WorkIn(r) = i..(i + left - 1) /\ WorkOk(r) /\ Rest(r) = r.rest
  <2>1. k < left => r.rest.n = i + k + 1
    <3>1. i + 1 + k = i + k + 1
      OBVIOUS
    <3> QED BY <3>1, <1>20
  <2>2. Fits(i, k)
    BY <1>9 DEF Fits
  <2>3. k < left => r.rest.pc = "read" /\ r.rest.index = i + k /\ r.rest.left = left - k
    BY <1>20
  <2>4. /\ r.pc = "empty" /\ r.n = i + 1 /\ DOMAIN r.elements = 1..k /\ Len(r.elements) = k
        /\ \A j \in 1..k : r.elements[j] = i + j
    BY <1>12, <1>18
  <2>5. HasRead(r, i, left, k)
    BY <2>1, <2>2, <2>3, <2>4, <1>19 DEF HasRead
  <2> QED BY <2>5, ReadWork
<1>22. PlaceOk(r)
  <2>1. r.entry = EntryOf(Number(r.n - 1)) /\ r.block = entries[r.entry].value
    <3>1. r.n - 1 = i
      BY <1>18
    <3> QED BY <3>1, <1>9, <1>18
  <2>2. ASSUME r.rest.pc = "read"
        PROVE  /\ r.rest.h \in DOMAIN headers /\ r.rest.at \in DOMAIN headers[r.rest.h].index
               /\ Maps(r.rest.h, r.rest.at, Number(r.rest.index), Number(r.rest.index),
                       Number(r.rest.index + r.rest.left - 1))
    <3>1. k < left
      BY <2>2, <1>19 DEF Idle
    <3>2. Number(i) \in Int /\ Number(i + left - 1) \in Int
      <4>1. PICK m \in Nat : m = i + left - 1
        OBVIOUS
      <4>2. Number(m) \in Nat /\ Number(i) \in Nat
        BY NumberIs
      <4> QED BY <4>1, <4>2
    <3>3. Maps(h, (at + 1) % n, Number(i) + 1, Number(i) + 1, Number(i + left - 1))
      BY <1>9, <1>5, <3>2, MapsOn
    <3>4. Number(i + k) = Number(i) + 1
      BY <1>9, <3>1, NextBlock
    <3>5. r.rest.index + r.rest.left - 1 = i + left - 1 /\ r.rest.index = i + k
      BY <1>20, <3>1
    <3>6. r.rest.h = h /\ r.rest.at = (at + 1) % n
      BY <1>20, <3>1
    <3> QED BY <1>4, <1>9, <1>14, <3>3, <3>4, <3>5, <3>6
  <2> QED BY <1>18, <1>21, <2>1, <2>2 DEF PlaceOk
<1>23. r.pc \in {"tail", "find", "read", "empty"} /\ WorkIn(r) = Work(c)
  BY <1>3, <1>18, <1>21
<1> QED BY <1>1, <1>10, <1>17, <1>21, <1>22, <1>23, KnowsStep

-----------------------------------------------------------------------------
(* The steps that give a block back *)

\* Such a step leaves the claims as they are.
LEMMA LaterStep ==
  ASSUME IInv, UNCHANGED <<shared, producer, pushed, taken, claims>>,
         NEW c \in Consumers, NEW r \in Records, Set(c, r),
         consumer[c].pc \in {"empty", "unlink", "release"},
         r.pc \in {"idle", "read", "unlink", "release"}
  PROVE  /\ CountType' /\ CountInv' /\ ClaimInv' /\ SeenInv' /\ ConsumerType'
         /\ consumer'[c] = r /\ \A d \in Consumers \ {c} : consumer'[d] = consumer[d]
<1>1. ConsumerType' /\ consumer'[c] = r /\ \A d \in Consumers \ {c} : consumer'[d] = consumer[d]
  BY TypeStep DEF IInv
<1>2. CountType' /\ CountInv' /\ ClaimInv'
  BY <1>1, CountsStay DEF Claimers
<1>3. SeenInv'
  <2>1. /\ pushed \in Nat /\ claims \in Nat /\ dequeueOvercommit \in Nat
        /\ pushed' = pushed /\ claims' = claims /\ dequeueOvercommit' = dequeueOvercommit
    BY DEF IInv, CountType, shared
  <2> QED BY <1>1, <2>1, SeenKept DEF IInv, In
<1> QED BY <1>1, <1>2, <1>3

\* An open index has an entry of its own block.
LEMMA OpenIs ==
  ASSUME CountType, IndexInv, NEW i \in Open
  PROVE  /\ i \in Nat /\ Number(i) \in Nat /\ Number(i) < Filled /\ Number(i) >= Shown - Cap
         /\ Filled \in Nat /\ Shown \in Nat /\ Filled <= Shown /\ Shown <= Filled + 1
         /\ EntryOf(Number(i)) \in DOMAIN entries
         /\ entries[EntryOf(Number(i))].value \in Blocks
         /\ entries[EntryOf(Number(i))].value \in 1..blocks
<1>1. Filled \in Nat /\ Shown \in Nat /\ Filled <= Shown /\ Shown <= Filled + 1
  BY FilledIs DEF IndexInv
<1>2. PICK f \in Int : f = BlockSize * Filled
  BY <1>1, BlockFacts
<1>3. i \in Nat /\ i < f
  BY <1>2 DEF Open
<1>4. Number(i) \in Nat /\ Number(i) < Filled
  BY <1>1, <1>2, <1>3, NumberLess, NumberIs
<1>5. Number(i) >= Shown - Cap
  BY DEF IndexInv, KeyInv, Cap
<1>6. EntryOf(Number(i)) \in DOMAIN entries
  BY <1>1, <1>4, PlaceIs DEF IndexInv
<1>7. entries[EntryOf(Number(i))].value # NoBlock
  BY DEF IndexInv, BlockInv
<1>8. entries[EntryOf(Number(i))].value \in 0..blocks
  BY <1>6 DEF IndexInv, IndexType
<1>9. blocks \in 0..MaxBlocks /\ MaxBlocks \in Nat
  BY SizeFacts DEF IndexInv, MemoryType
<1> QED BY <1>1, <1>3, <1>4, <1>5, <1>6, <1>7, <1>8, <1>9 DEF Blocks, NoBlock

\* Two blocks that are open have entries of their own.
LEMMA OpenDiffer ==
  ASSUME CountType, IndexInv, NEW i \in Open, NEW j \in Open
  PROVE  /\ EntryOf(Number(i)) = EntryOf(Number(j)) => Number(i) = Number(j)
         /\ entries[EntryOf(Number(i))].value = entries[EntryOf(Number(j))].value => Number(i) = Number(j)
<1>1. /\ Number(i) \in Nat /\ Number(i) < Filled /\ Number(i) >= Shown - Cap
      /\ Filled \in Nat /\ Shown \in Nat /\ Filled <= Shown
      /\ EntryOf(Number(i)) \in DOMAIN entries /\ entries[EntryOf(Number(i))].value # NoBlock
  BY OpenIs DEF IndexInv, BlockInv
<1>2. /\ Number(j) \in Nat /\ Number(j) < Filled /\ Number(j) >= Shown - Cap
      /\ EntryOf(Number(j)) \in DOMAIN entries
  BY OpenIs
<1>3. Cap \in Nat
  BY LastIs DEF IndexInv
<1>4. Number(i) - Number(j) < Cap /\ Number(j) - Number(i) < Cap
  BY <1>1, <1>2, <1>3
<1>5. EntryOf(Number(i)) = EntryOf(Number(j)) => Number(i) = Number(j)
  BY <1>1, <1>2, <1>4, EntryDiffers DEF IndexInv
<1>6. entries[EntryOf(Number(i))].value = entries[EntryOf(Number(j))].value => EntryOf(Number(i)) = EntryOf(Number(j))
  BY <1>1, <1>2 DEF IndexInv, PlacesInv
<1> QED BY <1>5, <1>6

\* The indices of a block that are open are finitely many.
LEMMA OpenInFinite ==
  ASSUME CountType, IndexInv, NEW p \in Nat
  PROVE  IsFiniteSet(OpenIn(p)) /\ Cardinality(OpenIn(p)) \in Nat
<1>1. Filled \in Nat
  BY FilledIs DEF IndexInv
<1>2. PICK f \in Int : f = BlockSize * Filled
  BY <1>1, BlockFacts
<1>3. IsFiniteSet(0..(f - 1))
  BY FS_Interval
<1>4. OpenIn(p) \subseteq 0..(f - 1)
  BY <1>2 DEF OpenIn, Open
<1> QED BY <1>3, <1>4, FS_Subset, FS_CardinalityType

\* What the elements read leave to be done.
LEMMA EmptyIs ==
  ASSUME IInv, NEW c \in Consumers, In(c, "empty")
  PROVE  \E i \in Nat, k \in Nat \ {0} :
           /\ consumer[c].n = i + 1 /\ Len(consumer[c].elements) = k
           /\ Reading(consumer[c]) = i..(i + k - 1)
           /\ \A j \in i..(i + k - 1) : j \in Open /\ Number(j) = Number(i) /\ j \in Work(c)
           /\ i \in Open /\ Number(i) \in Nat
           /\ consumer[c].entry = EntryOf(Number(i)) /\ consumer[c].block = entries[consumer[c].entry].value
           /\ consumer[c].entry \in DOMAIN entries /\ consumer[c].entry \in Nat /\ consumer[c].block \in Blocks
           /\ consumer[c].rest \in Rests /\ Rest(consumer[c]) = consumer[c].rest
           /\ Work(c) = Reading(consumer[c]) \cup WorkOf(consumer[c].rest)
           /\ Reading(consumer[c]) \cap WorkOf(consumer[c].rest) = {}
<1>1. consumer[c] \in Emptying /\ consumer[c].pc = "empty"
  BY Shapes DEF IInv, In
<1>2. /\ consumer[c].n \in Nat /\ consumer[c].elements \in Seq(Nat) /\ consumer[c].rest \in Rests
      /\ consumer[c].entry \in Nat /\ consumer[c].block \in Blocks
  BY <1>1 DEF Emptying
<1>3. /\ consumer[c].n >= 1 /\ Len(consumer[c].elements) >= 1
      /\ ((consumer[c].n - 1) % BlockSize) + Len(consumer[c].elements) <= BlockSize
      /\ consumer[c].rest # Idle => consumer[c].rest.index = consumer[c].n - 1 + Len(consumer[c].elements)
  BY <1>1 DEF IInv, WorkInv, WorkOk
<1>4. PICK k \in Nat \ {0} : k = Len(consumer[c].elements)
  BY <1>2, <1>3
<1>5. PICK i \in Nat : i = consumer[c].n - 1 /\ consumer[c].n = i + 1
  BY <1>2, <1>3
<1>6. Rest(consumer[c]) = consumer[c].rest
  BY <1>1 DEF Rest
<1>7. Reading(consumer[c]) = i..(i + k - 1)
  <2>1. consumer[c].n + k - 2 = i + k - 1
    BY <1>5
  <2> QED BY <1>1, <1>4, <1>5, <2>1 DEF Reading
<1>8. Work(c) = Reading(consumer[c]) \cup WorkOf(consumer[c].rest)
  BY <1>6 DEF Work, WorkIn
<1>9. Reading(consumer[c]) \cap WorkOf(consumer[c].rest) = {}
  <2>1. CASE consumer[c].rest = Idle
    BY <2>1 DEF WorkOf, Searching, Idle
  <2>2. CASE consumer[c].rest # Idle
    <3>1. consumer[c].rest.index = i + k
      BY <2>2, <1>3, <1>4, <1>5
    <3>2. consumer[c].rest.left \in Nat
      BY <2>2, <1>2 DEF Rests, Readings, Positive
    <3>3. PICK m \in Int, l \in Int : m = i + k /\ l = m + consumer[c].rest.left - 1
      BY <3>2
    <3>4. WorkOf(consumer[c].rest) \subseteq m..l
      BY <3>1, <3>3 DEF WorkOf
    <3> QED BY <1>7, <3>3, <3>4
  <2> QED BY <2>1, <2>2
<1>10. ASSUME NEW j \in i..(i + k - 1) PROVE j \in Open /\ Number(j) = Number(i) /\ j \in Work(c)
  <2>1. j \in Work(c)
    BY <1>7, <1>8
  <2>2. j \in Open
    BY <2>1, WorkIsOpen
  <2>3. PICK m \in Nat : m = j - i /\ j = i + m /\ m < k
    OBVIOUS
  <2>4. PICK f \in 0..(BlockSize - 1) : f = i % BlockSize
    BY NumberIs
  <2>5. f + k <= BlockSize
    BY <1>3, <1>4, <1>5, <2>4
  <2>6. f + m < BlockSize
    BY <2>3, <2>4, <2>5, BlockFacts
  <2>7. Number(i + m) = Number(i)
    BY <2>4, <2>6, SameBlock
  <2> QED BY <2>1, <2>2, <2>3, <2>7
<1>11. i \in Open /\ Number(i) \in Nat
  <2>1. i \in i..(i + k - 1)
    OBVIOUS
  <2> QED BY <2>1, <1>10, NumberIs
<1>12. consumer[c].entry = EntryOf(Number(i)) /\ consumer[c].block = entries[consumer[c].entry].value
  BY <1>1, <1>5 DEF IInv, ConsumerInv, PlaceOk
<1>13. consumer[c].entry \in DOMAIN entries
  BY <1>11, <1>12, OpenIs DEF IInv
<1> QED BY <1>2, <1>4, <1>5, <1>6, <1>7, <1>8, <1>9, <1>10, <1>11, <1>12, <1>13

LEMMA RestIs ==
  ASSUME NEW rest \in Rests
  PROVE  rest.pc \in {"idle", "read"} /\ Rest(rest) = rest /\ Reading(rest) = {} /\ WorkIn(rest) = WorkOf(rest)
         /\ rest \in Records
<1>1. rest.pc \in {"idle", "read"}
  BY DEF Rests, Readings, Idle
<1> QED BY <1>1 DEF Rest, Reading, WorkIn, Records

LEMMA SetManyEmptyStep ==
  ASSUME IInv, NEW c \in Consumers, SetManyEmpty(c)
  PROVE  IInv'
<1> DEFINE b == consumer[c].block
           e == consumer[c].entry
           rest == consumer[c].rest
           freeing == [pc |-> "unlink", entry |-> e, block |-> b, rest |-> rest]
<1>1. In(c, "empty") /\ consumer[c].pc = "empty"
  BY DEF SetManyEmpty, In
<1>2. PICK i \in Nat, k \in Nat \ {0} :
        /\ consumer[c].n = i + 1 /\ Len(consumer[c].elements) = k
        /\ Reading(consumer[c]) = i..(i + k - 1)
        /\ \A j \in i..(i + k - 1) : j \in Open /\ Number(j) = Number(i) /\ j \in Work(c)
        /\ i \in Open /\ Number(i) \in Nat
        /\ e = EntryOf(Number(i)) /\ b = entries[e].value
        /\ e \in DOMAIN entries /\ e \in Nat /\ b \in Blocks
        /\ rest \in Rests /\ Rest(consumer[c]) = rest
        /\ Work(c) = Reading(consumer[c]) \cup WorkOf(rest)
        /\ Reading(consumer[c]) \cap WorkOf(rest) = {}
  BY <1>1, EmptyIs
<1> DEFINE R == i..(i + k - 1)
           full == emptied[b] + k = BlockSize
           r == IF full THEN freeing ELSE rest
<1>3. /\ Set(c, r) /\ emptied' = [emptied EXCEPT ![b] = @ + k]
      /\ UNCHANGED <<shared, slots, blocks, freeList, index, producer, pushed, taken, claims>>
  BY <1>2 DEF SetManyEmpty
<1>4. rest.pc \in {"idle", "read"} /\ Rest(rest) = rest /\ Reading(rest) = {} /\ WorkIn(rest) = WorkOf(rest)
      /\ rest \in Records
  BY <1>2, RestIs
<1>5. r \in Records /\ r.pc \in {"idle", "read", "unlink"} /\ Rest(r) = rest /\ WorkIn(r) = WorkOf(rest) /\ Reading(r) = {}
  <2>1. CASE full
    <3>1. r = freeing /\ r.pc = "unlink" /\ r.rest = rest
      BY <2>1
    <3>2. r \in Records
      BY <3>1, <1>2 DEF Freeing, Records
    <3>3. Rest(r) = rest /\ Reading(r) = {}
      BY <3>1 DEF Rest, Reading
    <3> QED BY <3>1, <3>2, <3>3, <1>4 DEF WorkIn
  <2>2. CASE ~full
    BY <2>2, <1>4
  <2> QED BY <2>1, <2>2
<1>6. r.pc = "unlink" <=> full
  BY <1>4
<1>7. full => r.entry = e /\ r.block = b
  OBVIOUS
<1> HIDE DEF r
<1>8. /\ CountType' /\ CountInv' /\ ClaimInv' /\ SeenInv' /\ ConsumerType'
      /\ consumer'[c] = r /\ \A d \in Consumers \ {c} : consumer'[d] = consumer[d]
  BY <1>1, <1>3, <1>5, LaterStep
<1>9. UNCHANGED <<headers, entries>>
  BY <1>3 DEF index
<1>10. Work(c)' = WorkOf(rest) /\ \A d \in Consumers \ {c} : Work(d)' = Work(d)
  BY <1>5, <1>8 DEF Work
<1>11. \A j : j \in R => ~\E d \in Consumers : j \in Work(d)'
  BY <1>2, <1>10 DEF IInv, WorkInv
<1>12. Open' = Open \ R
  <2>1. Filled' = Filled
    BY <1>3, <1>9, ViewKept
  <2>2. taken' = taken /\ taken \in Nat
    BY <1>3 DEF IInv, CountType
  <2>3. \A j \in R : j < taken /\ j \in Nat
    BY <1>2, WorkIsOpen
  <2>4. \A j : j \notin R => ((\E d \in Consumers : j \in Work(d)') <=> (\E d \in Consumers : j \in Work(d)))
    BY <1>2, <1>10
  <2>5. \A j \in R : ~(j >= taken)
    BY <2>2, <2>3
  <2> QED BY <2>1, <2>2, <2>4, <2>5, <1>11 DEF Open
<1>13. WorkInv'
  <2>1. \A d \in Consumers : Work(d)' \subseteq Work(d)
    BY <1>2, <1>10
  <2>2. taken' = taken
    BY <1>3
  <2>3. WorkOk(r)
    <3>1. r.pc # "empty"
      BY <1>5
    <3>2. WorkOk(consumer[c])
      BY DEF IInv, WorkInv
    <3> QED BY <3>1, <3>2, <1>2, <1>5 DEF WorkOk
  <2>4. \A d \in Consumers : WorkOk(consumer'[d])
    BY <1>8, <2>3 DEF IInv, WorkInv
  <2>5. \A d \in Consumers : WorkOk(consumer[d])'
    BY <2>4 DEF WorkOk
  <2> QED BY <2>1, <2>2, <2>5 DEF IInv, WorkInv
<1>14. ConsumerInv'
  <2>1. PlaceOk(r)
    <3>1. PlaceOk(consumer[c])
      BY DEF IInv, ConsumerInv
    <3> QED BY <3>1, <1>2, <1>5 DEF PlaceOk
  <2>2. \A d \in Consumers : PlaceOk(consumer'[d])
    BY <1>8, <2>1 DEF IInv, ConsumerInv
  <2>3. \A d \in Consumers : PlaceOk(consumer[d])'
    <3> SUFFICES ASSUME NEW d \in Consumers PROVE PlaceOk(consumer[d])'
      OBVIOUS
    <3>1. PlaceOk(consumer'[d])
      BY <2>2
    <3> QED BY <3>1, <1>3, <1>9, PlaceKept
  <2> QED BY <2>3 DEF ConsumerInv
<1> DEFINE p == Number(i)
<1>15. /\ \A q : q # p => OpenIn(q)' = OpenIn(q)
       /\ OpenIn(p)' = OpenIn(p) \ R /\ R \subseteq OpenIn(p)
  BY <1>2, <1>12 DEF OpenIn
<1>16. Cardinality(OpenIn(p)) \in Nat /\ Cardinality(OpenIn(p)') \in Nat /\ IsFiniteSet(OpenIn(p))
       /\ Cardinality(OpenIn(p)') = Cardinality(OpenIn(p)) - k
  <2>1. IsFiniteSet(OpenIn(p)) /\ Cardinality(OpenIn(p)) \in Nat
    BY <1>2, OpenInFinite DEF IInv
  <2>2. Cardinality(R) = k
    <3>1. PICK m \in Int : m = i + k - 1
      OBVIOUS
    <3>2. Cardinality(i..m) = IF i > m THEN 0 ELSE m - i + 1
      BY FS_Interval
    <3> QED BY <3>1, <3>2
  <2>3. IsFiniteSet(OpenIn(p) \ R) /\ Cardinality(OpenIn(p) \ R) = Cardinality(OpenIn(p)) - Cardinality(R)
    BY <2>1, <1>15, CountRemove
  <2>4. Cardinality(OpenIn(p) \ R) \in Nat
    BY <2>3, FS_CardinalityType
  <2> QED BY <2>1, <2>2, <2>3, <2>4, <1>15
<1>17. emptied[b] + Cardinality(OpenIn(p)) = BlockSize /\ emptied[b] \in Nat
  BY <1>2 DEF IInv, IndexInv, BlockInv, MemoryType
<1>18. emptied'[b] = emptied[b] + k /\ \A x \in Blocks \ {b} : emptied'[x] = emptied[x]
  BY <1>2, <1>3 DEF IInv, IndexInv, MemoryType
<1>19. full <=> OpenIn(p)' = {}
  <2>1. full <=> Cardinality(OpenIn(p)') = 0
    BY <1>16, <1>17, BlockFacts
  <2>2. IsFiniteSet(OpenIn(p)')
    BY <1>15, <1>16, FS_Subset
  <2> QED BY <2>1, <2>2, FS_EmptySet
<1>20. emptied[b] < BlockSize
  <2>1. Cardinality(OpenIn(p)) >= k
    BY <1>16
  <2> QED BY <2>1, <1>16, <1>17, BlockFacts
<1> HIDE DEF R, p, full, rest, e, b
<1>21. MemoryType'
  <2>1. emptied' \in [Blocks -> Nat]
    BY <1>2, <1>3, <1>17 DEF IInv, IndexInv, MemoryType
  <2> QED BY <2>1, <1>3 DEF IInv, IndexInv, MemoryType
<1>22. IndexType' /\ ProducerType'
  BY <1>3, <1>9, ViewKept DEF IInv, IndexInv, IndexType, ProducerType, Cap
<1>23. Announced' = Announced
  BY <1>3, <1>9, ViewKept DEF Announced
<1>24. ProducerInv'
  <2>1. Open' \subseteq Open
    BY <1>12
  <2> QED BY <2>1, <1>3, <1>9, <1>23, ViewKept DEF IInv, IndexInv, ProducerInv
<1>25. KeyInv'
  <2>1. Open' \subseteq Open
    BY <1>12
  <2> QED BY <2>1, <1>3, <1>9, ViewKept DEF IInv, IndexInv, KeyInv, Cap
<1>26. BlockInv'
  <2> SUFFICES ASSUME NEW j \in Open', NEW x, x = entries[EntryOf(Number(j))].value
               PROVE  /\ x # NoBlock
                      /\ emptied'[x] + Cardinality(OpenIn(Number(j))') = BlockSize
                      /\ j < pushed => slots[x][j % BlockSize] = j + 1
    BY <1>3, <1>9, ViewKept DEF BlockInv
  <2>1. j \in Open
    BY <1>12
  <2>2. x # NoBlock /\ emptied[x] + Cardinality(OpenIn(Number(j))) = BlockSize
        /\ (j < pushed => slots[x][j % BlockSize] = j + 1)
    BY <2>1 DEF IInv, IndexInv, BlockInv
  <2>3. CASE Number(j) = p
    <3>1. x = b
      BY <2>3, <1>2 DEF p
    <3> QED BY <2>2, <2>3, <3>1, <1>16, <1>17, <1>18, BlockFacts
  <2>4. CASE Number(j) # p
    <3>1. x # b
      BY <2>1, <2>4, <1>2, OpenDiffer DEF IInv, p
    <3>2. x \in Blocks
      BY <2>1, OpenIs DEF IInv
    <3> QED BY <2>2, <2>4, <3>1, <3>2, <1>15, <1>18
  <2> QED BY <2>3, <2>4
<1>27. \A d \in Consumers : /\ In(d, "unlink") => d # c /\ In(d, "unlink")' /\ consumer'[d] = consumer[d]
                            /\ In(d, "unlink")' => (d = c /\ full) \/ (In(d, "unlink") /\ consumer'[d] = consumer[d])
                            /\ In(d, "release") => d # c /\ In(d, "release")' /\ consumer'[d] = consumer[d]
                            /\ In(d, "release")' => d # c /\ In(d, "release")
  BY <1>1, <1>5, <1>6, <1>8 DEF In
<1>28. \A d \in Consumers : In(d, "unlink") => /\ consumer[d].block # b /\ consumer[d].entry # e
                                               /\ consumer[d].block \in Blocks
  <2> SUFFICES ASSUME NEW d \in Consumers, In(d, "unlink")
               PROVE  consumer[d].block # b /\ consumer[d].entry # e /\ consumer[d].block \in Blocks
    OBVIOUS
  <2>1. consumer[d].block = entries[consumer[d].entry].value /\ emptied[consumer[d].block] = BlockSize
    BY DEF IInv, IndexInv, OccupiedInv
  <2>2. consumer[d].block # b
    BY <2>1, <1>17, <1>20, BlockFacts
  <2>3. consumer[d].block \in Blocks
    BY Shapes DEF IInv, In, Freeing
  <2> QED BY <2>1, <2>2, <2>3, <1>2
<1>29. OccupiedInv'
  <2>1. ASSUME NEW x \in DOMAIN entries, entries[x].value # NoBlock
        PROVE  \E q \in 0..(Filled - 1) :
                  /\ entries[x].key = BlockSize * q /\ EntryOf(q) = x /\ q >= Shown - Cap
                  /\ OpenIn(q)' # {} \/ Unlinking(x)'
    <3>1. PICK q \in 0..(Filled - 1) :
                  /\ entries[x].key = BlockSize * q /\ EntryOf(q) = x /\ q >= Shown - Cap
                  /\ OpenIn(q) # {} \/ Unlinking(x)
      BY <2>1 DEF IInv, IndexInv, OccupiedInv, Cap
    <3>2. Unlinking(x) => Unlinking(x)'
      BY <1>27 DEF Unlinking
    <3>3. CASE q # p
      BY <3>1, <3>2, <3>3, <1>15
    <3>4. CASE q = p
      <4>1. x = e
        BY <3>1, <3>4, <1>2 DEF p
      <4>2. CASE full
        <5>1. In(c, "unlink")' /\ consumer'[c].entry = x
          BY <4>1, <4>2, <1>6, <1>7, <1>8 DEF In
        <5>2. Unlinking(x)'
          BY <5>1 DEF Unlinking
        <5> QED BY <3>1, <5>2
      <4>3. CASE ~full
        BY <3>1, <3>4, <4>3, <1>19
      <4> QED BY <4>2, <4>3
    <3> QED BY <3>3, <3>4
  <2>2. ASSUME NEW d \in Consumers, In(d, "unlink")'
        PROVE  /\ consumer'[d].entry \in DOMAIN entries
               /\ consumer'[d].block = entries[consumer'[d].entry].value
               /\ consumer'[d].block # NoBlock
               /\ emptied'[consumer'[d].block] = BlockSize
    <3>1. CASE d = c /\ full
      <4>1. consumer'[d].entry = e /\ consumer'[d].block = b
        BY <3>1, <1>7, <1>8
      <4>2. emptied'[b] = BlockSize
        BY <3>1, <1>18 DEF full
      <4> QED BY <4>1, <4>2, <1>2 DEF Blocks, NoBlock
    <3>2. CASE In(d, "unlink") /\ consumer'[d] = consumer[d]
      <4>1. emptied'[consumer[d].block] = emptied[consumer[d].block]
        BY <3>2, <1>18, <1>28
      <4> QED BY <3>2, <4>1 DEF IInv, IndexInv, OccupiedInv
    <3> QED BY <2>2, <3>1, <3>2, <1>27
  <2>3. ASSUME NEW d \in Consumers, NEW f \in Consumers, In(d, "unlink")', In(f, "unlink")',
               consumer'[d].entry = consumer'[f].entry
        PROVE  d = f
    <3>1. \A g \in Consumers : g # c /\ In(g, "unlink")' => consumer'[g] = consumer[g] /\ In(g, "unlink") /\ consumer[g].entry # e
      BY <1>27, <1>28
    <3>2. In(c, "unlink")' => consumer'[c].entry = e
      BY <1>6, <1>7, <1>8 DEF In
    <3>3. CASE d # c /\ f # c
      BY <2>3, <3>1, <3>3 DEF IInv, IndexInv, OccupiedInv
    <3>4. CASE d = c \/ f = c
      BY <2>3, <3>1, <3>2, <3>4
    <3> QED BY <3>3, <3>4
  <2> QED BY <2>1, <2>2, <2>3, <1>3, <1>9, ViewKept DEF OccupiedInv, Cap
<1>30. PlacesInv'
  <2>1. Releasing' = Releasing /\ \A d \in Releasing : consumer'[d] = consumer[d]
    BY <1>27 DEF Releasing
  <2>2. At("install") => emptied'[producer.block] = 0
    <3>1. At("install") => producer.block # b /\ emptied[producer.block] = 0 /\ producer.block \in 1..blocks
      BY <1>2 DEF IInv, IndexInv, PlacesInv
    <3>2. blocks \in 0..MaxBlocks /\ MaxBlocks \in Nat
      BY SizeFacts DEF IInv, IndexInv, MemoryType
    <3>3. 1..blocks \subseteq Blocks
      BY <3>2 DEF Blocks
    <3> QED BY <3>1, <3>3, <1>18
  <2> QED BY <2>1, <2>2, <1>3, <1>9, ViewKept DEF IInv, IndexInv, PlacesInv
<1> QED BY <1>8, <1>13, <1>14, <1>21, <1>22, <1>24, <1>25, <1>26, <1>29, <1>30 DEF IInv, IndexInv

LEMMA FreerIs ==
  ASSUME IInv, NEW c \in Consumers, In(c, "unlink") \/ In(c, "release")
  PROVE  /\ consumer[c].rest \in Rests /\ Rest(consumer[c]) = consumer[c].rest
         /\ consumer[c].entry \in Nat /\ consumer[c].block \in Blocks
         /\ consumer[c] \in Freeing
         /\ Work(c) = WorkOf(consumer[c].rest)
<1>1. consumer[c] \in Freeing /\ consumer[c].pc \in {"unlink", "release"}
  BY Shapes DEF IInv, In
<1>2. consumer[c].rest \in Rests /\ consumer[c].entry \in Nat /\ consumer[c].block \in Blocks
  BY <1>1 DEF Freeing
<1>3. Rest(consumer[c]) = consumer[c].rest /\ Reading(consumer[c]) = {}
  BY <1>1 DEF Rest, Reading
<1> QED BY <1>1, <1>2, <1>3 DEF Work, WorkIn

\* The place of the next element is open where there is one.
LEMMA PushedIsOpen ==
  ASSUME IInv, pushed < BlockSize * Filled
  PROVE  pushed \in Open /\ Number(pushed) = Filled - 1
<1>1. taken \in Nat /\ pushed \in Nat /\ taken <= pushed
  BY TakenIs
<1>2. Filled \in Nat
  BY FilledIs DEF IInv, IndexInv
<1>3. PICK f \in Int : f = BlockSize * Filled
  BY <1>2, BlockFacts
<1>4. pushed \in 0..(f - 1)
  BY <1>1, <1>3
<1>5. pushed \in Open
  BY <1>1, <1>3, <1>4 DEF Open
<1>6. Writing \/ pushed % BlockSize # 0
  BY <1>1, <1>3, FilledIs DEF IInv, IndexInv
<1> QED BY <1>5, <1>6, FilledIs DEF IInv, IndexInv

LEMMA UnlinkStep ==
  ASSUME IInv, NEW c \in Consumers, Unlink(c)
  PROVE  IInv'
<1> DEFINE b == consumer[c].block
           e == consumer[c].entry
           rest == consumer[c].rest
           r == [consumer[c] EXCEPT !.pc = "release"]
<1>1. In(c, "unlink") /\ consumer[c].pc = "unlink"
  BY DEF Unlink, In
<1>2. /\ Set(c, r) /\ entries' = [entries EXCEPT ![e].value = NoBlock]
      /\ UNCHANGED <<shared, memory, headers, producer, pushed, taken, claims>>
  BY DEF Unlink
<1>3. UNCHANGED <<slots, emptied, blocks, freeList>>
  BY <1>2 DEF memory
<1>4. /\ rest \in Rests /\ Rest(consumer[c]) = rest /\ e \in Nat /\ b \in Blocks
      /\ consumer[c] \in Freeing /\ Work(c) = WorkOf(rest)
  BY <1>1, FreerIs
<1>5. /\ r.pc = "release" /\ r.rest = rest /\ r.block = b /\ r.entry = e /\ r \in Freeing
  BY <1>4 DEF Freeing
<1>6. r \in Records /\ Rest(r) = rest /\ WorkIn(r) = WorkOf(rest)
  <2>1. Rest(r) = rest /\ Reading(r) = {}
    BY <1>5 DEF Rest, Reading
  <2>2. r \in Records
    BY <1>5 DEF Records
  <2> HIDE DEF r
  <2> QED BY <2>1, <2>2 DEF WorkIn
<1> HIDE DEF r
<1>7. /\ CountType' /\ CountInv' /\ ClaimInv' /\ SeenInv' /\ ConsumerType'
      /\ consumer'[c] = r /\ \A d \in Consumers \ {c} : consumer'[d] = consumer[d]
  BY <1>1, <1>2, <1>5, <1>6, LaterStep
<1>8. \A d \in Consumers : Work(d)' = Work(d)
  BY <1>4, <1>6, <1>7 DEF Work
<1>9. Open' = Open
  BY <1>2, <1>8, OpenKept
<1>10. WorkInv'
  <2>1. WorkOk(r)
    <3>1. WorkOk(consumer[c])
      BY DEF IInv, WorkInv
    <3> QED BY <3>1, <1>4, <1>5, <1>6 DEF WorkOk
  <2>2. \A d \in Consumers : WorkOk(consumer'[d])
    BY <1>7, <2>1 DEF IInv, WorkInv
  <2>3. \A d \in Consumers : WorkOk(consumer[d])'
    BY <2>2 DEF WorkOk
  <2> QED BY <1>2, <1>8, <2>3 DEF IInv, WorkInv
<1>11. /\ e \in DOMAIN entries /\ b = entries[e].value /\ b # NoBlock /\ emptied[b] = BlockSize
  BY <1>1 DEF IInv, IndexInv, OccupiedInv
<1>12. /\ DOMAIN entries' = DOMAIN entries /\ entries'[e].value = NoBlock /\ entries'[e].key = entries[e].key
       /\ \A x \in DOMAIN entries \ {e} : entries'[x] = entries[x]
       /\ entries' \in [0..(Cap - 1) -> [key : Nat, value : 0..blocks]]
  <2>1. entries \in [0..(Cap - 1) -> [key : Nat, value : 0..blocks]]
    BY DEF IInv, IndexInv, IndexType, Cap
  <2>2. NoBlock \in 0..blocks
    BY DEF NoBlock, IInv, IndexInv, MemoryType
  <2> QED BY <1>2, <1>11, <2>1, <2>2
<1>13. \A i \in Open : EntryOf(Number(i)) # e /\ EntryOf(Number(i)) \in DOMAIN entries
  <2> SUFFICES ASSUME NEW i \in Open PROVE EntryOf(Number(i)) # e /\ EntryOf(Number(i)) \in DOMAIN entries
    OBVIOUS
  <2>1. Number(i) \in Nat /\ EntryOf(Number(i)) \in DOMAIN entries
    BY OpenIs DEF IInv
  <2>2. i \in OpenIn(Number(i))
    BY DEF OpenIn
  <2>3. IsFiniteSet(OpenIn(Number(i))) /\ Cardinality(OpenIn(Number(i))) \in Nat
    BY <2>1, OpenInFinite DEF IInv
  <2>4. Cardinality(OpenIn(Number(i))) # 0
    BY <2>2, <2>3, FS_EmptySet
  <2>5. emptied[entries[EntryOf(Number(i))].value] + Cardinality(OpenIn(Number(i))) = BlockSize
    BY DEF IInv, IndexInv, BlockInv
  <2>6. EntryOf(Number(i)) = e => BlockSize + Cardinality(OpenIn(Number(i))) = BlockSize
    BY <2>5, <1>11
  <2> QED BY <2>1, <2>3, <2>4, <2>6, BlockFacts
<1>14. Announced => Announced'
  <2>1. Announced => EntryOf(Filled) # e
    BY <1>11 DEF Announced
  <2>2. Filled \in Nat /\ Shown \in Nat
    BY FilledIs DEF IInv, IndexInv
  <2>3. EntryOf(Filled) \in DOMAIN entries
    BY <2>2, PlaceIs DEF IInv, IndexInv
  <2> QED BY <2>1, <2>3, <1>2, <1>12, ViewKept DEF Announced
<1>15. ConsumerInv'
  <2> SUFFICES ASSUME NEW d \in Consumers PROVE PlaceOk(consumer[d])'
    BY DEF ConsumerInv
  <2>1. ASSUME NEW h, NEW t, NEW x, FindsFrom(h, t, x) PROVE FindsFrom(h, t, x)'
    BY <2>1, <1>2, <1>14, ViewKept DEF FindsFrom
  <2>2. CASE d = c
    <3>1. PlaceOk(consumer[c])
      BY DEF IInv, ConsumerInv
    <3>2. /\ rest.pc = "read" =>
            /\ rest.h \in DOMAIN headers /\ rest.at \in DOMAIN headers[rest.h].index
            /\ Maps(rest.h, rest.at, Number(rest.index), Number(rest.index), Number(rest.index + rest.left - 1))
      BY <3>1, <1>4 DEF PlaceOk
    <3> QED BY <2>2, <3>2, <1>2, <1>5, <1>6, <1>7, ViewKept DEF PlaceOk
  <2>3. CASE d # c
    <3>1. PlaceOk(consumer[d]) /\ consumer'[d] = consumer[d]
      BY <2>3, <1>7 DEF IInv, ConsumerInv
    <3>2. ASSUME consumer[d].pc = "empty"
          PROVE  /\ consumer[d].entry = EntryOf(Number(consumer[d].n - 1))
                 /\ consumer[d].block = entries'[consumer[d].entry].value
      <4>1. PICK i \in Nat : i \in Open /\ consumer[d].n = i + 1 /\ consumer[d].entry = EntryOf(Number(i))
                             /\ consumer[d].block = entries[consumer[d].entry].value
        BY <3>2, EmptyIs DEF In
      <4>2. consumer[d].n - 1 = i
        BY <4>1
      <4> QED BY <4>1, <4>2, <1>12, <1>13
    <3> QED BY <3>1, <3>2, <2>1, <1>2, ViewKept DEF PlaceOk
  <2> QED BY <2>2, <2>3
<1> HIDE DEF b, e, rest
<1>16. MemoryType'
  BY <1>3 DEF IInv, IndexInv, MemoryType
<1>17. IndexType' /\ ProducerType'
  BY <1>2, <1>3, <1>12, ViewKept DEF IInv, IndexInv, IndexType, ProducerType, Cap
<1>18. ProducerInv'
  <2>1. At("insert") \/ At("publish") \/ At("requisition") \/ At("install") => pushed % BlockSize = 0
    BY DEF IInv, IndexInv, ProducerInv
  <2>2. At("publish") \/ At("requisition") \/ At("install") => producer.entry = EntryOf(Filled) /\ Announced'
    BY <1>14 DEF IInv, IndexInv, ProducerInv
  <2>3. At("write") \/ At("advance") =>
          producer.block = entries'[EntryOf(Filled - 1)].value /\ producer.block # NoBlock
    <3>1. ASSUME Writing
          PROVE  producer.block = entries'[EntryOf(Filled - 1)].value /\ producer.block # NoBlock
      <4>1. pushed < BlockSize * Filled /\ Number(pushed) = Filled - 1
        BY <3>1, FilledIs DEF IInv, IndexInv
      <4>2. pushed \in Open
        BY <4>1, PushedIsOpen
      <4>3. EntryOf(Filled - 1) # e /\ EntryOf(Filled - 1) \in DOMAIN entries
        BY <4>1, <4>2, <1>13
      <4> QED BY <3>1, <4>3, <1>12 DEF IInv, IndexInv, ProducerInv, Writing
    <3> QED BY <3>1 DEF Writing
  <2>4. ~At("install") => \A i \in Open : Number(i) = Filled - 1 =>
          producer.block = entries'[EntryOf(Filled - 1)].value
    BY <1>12, <1>13 DEF IInv, IndexInv, ProducerInv
  <2>5. At("advance") => slots[producer.block][pushed % BlockSize] = pushed + 1
    BY DEF IInv, IndexInv, ProducerInv
  <2> QED BY <2>1, <2>2, <2>3, <2>4, <2>5, <1>2, <1>3, <1>9, ViewKept DEF ProducerInv
<1>19. KeyInv'
  <2>1. \A x \in DOMAIN entries : entries'[x].key = entries[x].key
    BY <1>12
  <2>2. \A i \in Open : \A p \in Number(i)..(Filled - 1) : EntryOf(p) \in DOMAIN entries
    <3> SUFFICES ASSUME NEW i \in Open, NEW p \in Number(i)..(Filled - 1) PROVE EntryOf(p) \in DOMAIN entries
      OBVIOUS
    <3>1. Number(i) \in Nat /\ Filled \in Nat /\ Shown \in Nat
      BY OpenIs DEF IInv
    <3>2. p \in Int
      BY <3>1
    <3> QED BY <3>1, <3>2, PlaceIs DEF IInv, IndexInv
  <2> QED BY <2>1, <2>2, <1>2, <1>9, ViewKept DEF IInv, IndexInv, KeyInv, Cap
<1>20. BlockInv'
  <2>1. \A i \in Open : entries'[EntryOf(Number(i))] = entries[EntryOf(Number(i))]
    BY <1>12, <1>13
  <2>2. \A p : OpenIn(p)' = OpenIn(p)
    BY <1>9 DEF OpenIn
  <2> QED BY <2>1, <2>2, <1>2, <1>3, <1>9, ViewKept DEF IInv, IndexInv, BlockInv
<1>21. \A d \in Consumers : /\ In(d, "unlink") /\ d # c => In(d, "unlink")' /\ consumer'[d] = consumer[d]
                            /\ In(d, "unlink")' => d # c /\ In(d, "unlink") /\ consumer'[d] = consumer[d]
                            /\ In(d, "release") => d # c /\ In(d, "release")' /\ consumer'[d] = consumer[d]
                            /\ In(d, "release")' => d = c \/ (In(d, "release") /\ consumer'[d] = consumer[d])
  BY <1>1, <1>5, <1>7 DEF In
<1>22. OccupiedInv'
  <2>1. ASSUME NEW x \in DOMAIN entries, entries'[x].value # NoBlock
        PROVE  \E q \in 0..(Filled - 1) :
                  /\ entries'[x].key = BlockSize * q /\ EntryOf(q) = x /\ q >= Shown - Cap
                  /\ OpenIn(q)' # {} \/ Unlinking(x)'
    <3>1. x # e /\ entries'[x] = entries[x]
      BY <2>1, <1>12
    <3>2. PICK q \in 0..(Filled - 1) :
                  /\ entries[x].key = BlockSize * q /\ EntryOf(q) = x /\ q >= Shown - Cap
                  /\ OpenIn(q) # {} \/ Unlinking(x)
      BY <2>1, <3>1 DEF IInv, IndexInv, OccupiedInv, Cap
    <3>3. Unlinking(x) => Unlinking(x)'
      BY <3>1, <1>21 DEF Unlinking, e
    <3>4. OpenIn(q)' = OpenIn(q)
      BY <1>9 DEF OpenIn
    <3> QED BY <3>1, <3>2, <3>3, <3>4
  <2>2. ASSUME NEW d \in Consumers, In(d, "unlink")'
        PROVE  /\ consumer'[d].entry \in DOMAIN entries
               /\ consumer'[d].block = entries'[consumer'[d].entry].value
               /\ consumer'[d].block # NoBlock
               /\ emptied[consumer'[d].block] = BlockSize
    <3>1. d # c /\ In(d, "unlink") /\ consumer'[d] = consumer[d]
      BY <2>2, <1>21
    <3>2. consumer[d].entry # e
      BY <3>1, <1>1 DEF IInv, IndexInv, OccupiedInv, e
    <3> QED BY <3>1, <3>2, <1>12 DEF IInv, IndexInv, OccupiedInv
  <2>3. ASSUME NEW d \in Consumers, NEW f \in Consumers, In(d, "unlink")', In(f, "unlink")',
               consumer'[d].entry = consumer'[f].entry
        PROVE  d = f
    BY <2>3, <1>21 DEF IInv, IndexInv, OccupiedInv
  <2> QED BY <2>1, <2>2, <2>3, <1>2, <1>3, <1>12, ViewKept DEF OccupiedInv, Cap
<1>23. PlacesInv'
  <2>1. Releasing' = Releasing \cup {c} /\ c \notin Releasing
        /\ \A d \in Releasing : consumer'[d] = consumer[d]
    <3>1. In(c, "release")'
      BY <1>5, <1>7 DEF In
    <3> QED BY <3>1, <1>21 DEF Releasing
  <2>2. consumer'[c].block = b
    BY <1>5, <1>7
  <2>3. b \in (1..blocks) \ freeList
    <3>1. b \in 0..blocks
      BY <1>11 DEF IInv, IndexInv, IndexType
    <3>2. b \notin freeList
      BY <1>11 DEF IInv, IndexInv, PlacesInv
    <3> QED BY <3>1, <3>2, <1>11 DEF NoBlock
  <2>4. \A x \in DOMAIN entries \ {e} : entries[x].value # b
    BY <1>11 DEF IInv, IndexInv, PlacesInv
  <2>5. NoBlock \notin freeList /\ NoBlock \notin 1..blocks
    BY DEF IInv, IndexInv, MemoryType, NoBlock
  <2>6. \A x, y \in DOMAIN entries : entries'[x].value = entries'[y].value /\ entries'[x].value # NoBlock => x = y
    BY <1>12 DEF IInv, IndexInv, PlacesInv
  <2>7. \A x \in DOMAIN entries : entries'[x].value \notin freeList
    BY <1>12, <2>5 DEF IInv, IndexInv, PlacesInv
  <2>8. \A d \in Releasing : /\ consumer[d].block \in (1..blocks) \ freeList /\ consumer[d].block # b
                             /\ \A x \in DOMAIN entries : entries'[x].value # consumer[d].block
    <3> SUFFICES ASSUME NEW d \in Releasing
                 PROVE  /\ consumer[d].block \in (1..blocks) \ freeList /\ consumer[d].block # b
                        /\ \A x \in DOMAIN entries : entries'[x].value # consumer[d].block
      OBVIOUS
    <3>1. /\ consumer[d].block \in (1..blocks) \ freeList
          /\ \A x \in DOMAIN entries : entries[x].value # consumer[d].block
      BY DEF IInv, IndexInv, PlacesInv
    <3> QED BY <3>1, <1>11, <1>12, <2>5
  <2>9. \A x \in DOMAIN entries : entries'[x].value # b
    BY <1>11, <1>12, <2>4
  <2>10. \A d, f \in Releasing' : consumer'[d].block = consumer'[f].block => d = f
    BY <2>1, <2>2, <2>8 DEF IInv, IndexInv, PlacesInv
  <2>11. At("install") =>
       /\ producer.block \in (1..blocks) \ freeList /\ emptied[producer.block] = 0
       /\ \A x \in DOMAIN entries : entries'[x].value # producer.block
       /\ \A d \in Releasing' : consumer'[d].block # producer.block
    <3>1. ASSUME At("install")
          PROVE /\ producer.block \in (1..blocks) \ freeList /\ emptied[producer.block] = 0
                /\ \A x \in DOMAIN entries : entries[x].value # producer.block
                /\ \A d \in Releasing : consumer[d].block # producer.block
      BY <3>1 DEF IInv, IndexInv, PlacesInv
    <3> QED BY <3>1, <2>1, <2>2, <2>5, <1>11, <1>12
  <2>12. \A x \in 1..blocks :
       \/ x \in freeList
       \/ \E y \in DOMAIN entries : entries'[y].value = x
       \/ \E d \in Releasing' : consumer'[d].block = x
       \/ At("install") /\ producer.block = x
    <3> SUFFICES ASSUME NEW x \in 1..blocks
                 PROVE \/ x \in freeList
                       \/ \E y \in DOMAIN entries : entries'[y].value = x
                       \/ \E d \in Releasing' : consumer'[d].block = x
                       \/ At("install") /\ producer.block = x
      OBVIOUS
    <3>1. \/ x \in freeList
          \/ \E y \in DOMAIN entries : entries[y].value = x
          \/ \E d \in Releasing : consumer[d].block = x
          \/ At("install") /\ producer.block = x
      BY DEF IInv, IndexInv, PlacesInv
    <3>2. ASSUME NEW y \in DOMAIN entries, entries[y].value = x
          PROVE \/ \E z \in DOMAIN entries : entries'[z].value = x
                \/ \E d \in Releasing' : consumer'[d].block = x
      BY <3>2, <1>11, <1>12, <2>1, <2>2
    <3> QED BY <3>1, <3>2, <2>1
  <2>13. \A d \in Releasing' : /\ consumer'[d].block \in (1..blocks) \ freeList
                               /\ \A x \in DOMAIN entries : entries'[x].value # consumer'[d].block
    BY <2>1, <2>2, <2>3, <2>8, <2>9
  <2> QED BY <2>6, <2>7, <2>10, <2>11, <2>12, <2>13, <1>2, <1>3, <1>12, ViewKept DEF PlacesInv
<1> QED BY <1>7, <1>10, <1>15, <1>16, <1>17, <1>18, <1>19, <1>20, <1>22, <1>23 DEF IInv, IndexInv

LEMMA ReleaseStep ==
  ASSUME IInv, NEW c \in Consumers, Release(c)
  PROVE  IInv'
<1> DEFINE b == consumer[c].block
           rest == consumer[c].rest
<1>1. In(c, "release") /\ consumer[c].pc = "release"
  BY DEF Release, In
<1>2. /\ Set(c, rest) /\ freeList' = freeList \cup {b}
      /\ UNCHANGED <<shared, slots, emptied, blocks, index, producer, pushed, taken, claims>>
  BY DEF Release
<1>3. UNCHANGED <<entries, headers>>
  BY <1>2 DEF index
<1>4. rest \in Rests /\ Rest(consumer[c]) = rest /\ Work(c) = WorkOf(rest)
  BY <1>1, FreerIs
<1>5. rest.pc \in {"idle", "read"} /\ Rest(rest) = rest /\ WorkIn(rest) = WorkOf(rest) /\ rest \in Records
  BY <1>4, RestIs
<1>6. /\ CountType' /\ CountInv' /\ ClaimInv' /\ SeenInv' /\ ConsumerType'
      /\ consumer'[c] = rest /\ \A d \in Consumers \ {c} : consumer'[d] = consumer[d]
  BY <1>1, <1>2, <1>5, LaterStep
<1>7. \A d \in Consumers : Work(d)' = Work(d)
  BY <1>4, <1>5, <1>6 DEF Work
<1>8. Open' = Open
  BY <1>2, <1>3, <1>7, OpenKept
<1> HIDE DEF rest
<1>9. WorkInv'
  <2>1. WorkOk(rest)
    <3>1. WorkOk(consumer[c])
      BY DEF IInv, WorkInv
    <3> QED BY <3>1, <1>4, <1>5 DEF WorkOk
  <2>2. \A d \in Consumers : WorkOk(consumer'[d])
    BY <1>6, <2>1 DEF IInv, WorkInv
  <2>3. \A d \in Consumers : WorkOk(consumer[d])'
    BY <2>2 DEF WorkOk
  <2> QED BY <1>2, <1>7, <2>3 DEF IInv, WorkInv
<1>10. ConsumerInv'
  <2>1. PlaceOk(rest)
    <3>1. PlaceOk(consumer[c])
      BY DEF IInv, ConsumerInv
    <3> QED BY <3>1, <1>4, <1>5 DEF PlaceOk
  <2>2. \A d \in Consumers : PlaceOk(consumer'[d])
    BY <1>6, <2>1 DEF IInv, ConsumerInv
  <2>3. \A d \in Consumers : PlaceOk(consumer[d])'
    <3> SUFFICES ASSUME NEW d \in Consumers PROVE PlaceOk(consumer[d])'
      OBVIOUS
    <3>1. PlaceOk(consumer'[d])
      BY <2>2
    <3> QED BY <3>1, <1>2, <1>3, PlaceKept
  <2> QED BY <2>3 DEF ConsumerInv
<1>11. c \in Releasing
  BY <1>1 DEF Releasing
<1>12. /\ b \in (1..blocks) \ freeList
       /\ \A x \in DOMAIN entries : entries[x].value # b
       /\ \A d \in Releasing : consumer[d].block = b => d = c
       /\ At("install") => producer.block # b
  BY <1>11 DEF IInv, IndexInv, PlacesInv
<1>13. Releasing' = Releasing \ {c} /\ \A d \in Releasing \ {c} : consumer'[d] = consumer[d]
  <2>1. ~In(c, "release")'
    BY <1>5, <1>6 DEF In
  <2>2. \A d \in Consumers \ {c} : In(d, "release")' <=> In(d, "release")
    BY <1>6 DEF In
  <2> QED BY <2>1, <2>2, <1>6 DEF Releasing
<1> HIDE DEF b
<1>14. MemoryType'
  BY <1>2, <1>12 DEF IInv, IndexInv, MemoryType
<1>15. IndexType' /\ ProducerType'
  BY <1>2, <1>3, ViewKept DEF IInv, IndexInv, IndexType, ProducerType, Cap
<1>16. Announced' = Announced
  BY <1>2, <1>3, ViewKept DEF Announced
<1>17. ProducerInv'
  BY <1>2, <1>3, <1>8, <1>16, ViewKept DEF IInv, IndexInv, ProducerInv
<1>18. KeyInv'
  BY <1>2, <1>3, <1>8, ViewKept DEF IInv, IndexInv, KeyInv, Cap
<1>19. \A p : OpenIn(p)' = OpenIn(p)
  BY <1>8 DEF OpenIn
<1>20. BlockInv'
  BY <1>2, <1>3, <1>8, <1>19, ViewKept DEF IInv, IndexInv, BlockInv
<1>21. OccupiedInv'
  <2>1. \A d \in Consumers : /\ In(d, "unlink")' = In(d, "unlink")
                             /\ In(d, "unlink") => consumer'[d] = consumer[d]
    BY <1>1, <1>5, <1>6 DEF In
  <2>2. \A x : Unlinking(x)' = Unlinking(x)
    BY <2>1 DEF Unlinking
  <2> QED BY <2>1, <2>2, <1>2, <1>3, <1>19, ViewKept DEF IInv, IndexInv, OccupiedInv, Cap
<1>22. PlacesInv'
  <2>1. \A x \in DOMAIN entries : entries[x].value \notin freeList'
    BY <1>2, <1>12 DEF IInv, IndexInv, PlacesInv
  <2>2. \A d \in Releasing' : /\ consumer'[d].block \in (1..blocks) \ freeList'
                              /\ \A x \in DOMAIN entries : entries[x].value # consumer'[d].block
    BY <1>2, <1>12, <1>13 DEF IInv, IndexInv, PlacesInv
  <2>3. \A d, f \in Releasing' : consumer'[d].block = consumer'[f].block => d = f
    BY <1>13 DEF IInv, IndexInv, PlacesInv
  <2>4. At("install") =>
       /\ producer.block \in (1..blocks) \ freeList' /\ emptied[producer.block] = 0
       /\ \A x \in DOMAIN entries : entries[x].value # producer.block
       /\ \A d \in Releasing' : consumer'[d].block # producer.block
    BY <1>2, <1>12, <1>13 DEF IInv, IndexInv, PlacesInv
  <2>5. ASSUME NEW x \in 1..blocks
        PROVE \/ x \in freeList'
              \/ \E y \in DOMAIN entries : entries[y].value = x
              \/ \E d \in Releasing' : consumer'[d].block = x
              \/ At("install") /\ producer.block = x
    <3>1. \/ x \in freeList
          \/ \E y \in DOMAIN entries : entries[y].value = x
          \/ \E d \in Releasing : consumer[d].block = x
          \/ At("install") /\ producer.block = x
      BY DEF IInv, IndexInv, PlacesInv
    <3> QED BY <3>1, <1>2, <1>13 DEF b
  <2>6. \A x, y \in DOMAIN entries : entries[x].value = entries[y].value /\ entries[x].value # NoBlock => x = y
    BY DEF IInv, IndexInv, PlacesInv
  <2> QED BY <2>1, <2>2, <2>3, <2>4, <2>5, <2>6, <1>2, <1>3, ViewKept DEF PlacesInv
<1> QED BY <1>6, <1>9, <1>10, <1>14, <1>15, <1>17, <1>18, <1>20, <1>21, <1>22 DEF IInv, IndexInv

-----------------------------------------------------------------------------
(* What the steps of the producer leave as it is *)

LEMMA ProducerMoves ==
  ASSUME IInv, UNCHANGED <<consumer, taken, claims, dequeueOvercommit>>, pushed' \in Nat, pushed' >= pushed
  PROVE  /\ CountInv' /\ SeenInv' /\ ConsumerType' /\ ClaimInv' /\ WorkInv'
         /\ Releasing' = Releasing
         /\ \A c \in Consumers : Work(c)' = Work(c)
         /\ \A e : Unlinking(e)' = Unlinking(e)
<1>1. ConsumerType'
  BY DEF IInv, ConsumerType
<1>2. CountInv' /\ ClaimInv'
  BY ClaimsKept DEF IInv
<1>3. \A c \in Consumers : Work(c)' = Work(c)
  BY DEF Work
<1>4. WorkInv'
  <2>1. \A c \in Consumers : WorkOk(consumer[c])'
    BY DEF IInv, WorkInv, WorkOk
  <2> QED BY <1>3, <2>1 DEF IInv, WorkInv
<1>5. SeenInv'
  <2> SUFFICES ASSUME NEW c \in Consumers
               PROVE  /\ In(c, "check") => consumer[c].tail <= pushed' /\ consumer[c].over <= dequeueOvercommit
                      /\ In(c, "claim") => consumer[c].over <= dequeueOvercommit
                      /\ In(c, "recheck") => consumer[c].my <= claims
    BY DEF SeenInv, In
  <2>1. In(c, "check") => consumer[c].tail \in Nat /\ consumer[c].tail <= pushed
    BY Fields DEF IInv, SeenInv
  <2>2. pushed \in Nat
    BY DEF IInv, CountType
  <2>3. In(c, "check") => consumer[c].tail <= pushed'
    BY <2>1, <2>2
  <2> QED BY <2>3 DEF IInv, SeenInv
<1>6. Releasing' = Releasing /\ \A e : Unlinking(e)' = Unlinking(e)
  BY DEF Releasing, Unlinking, In
<1> QED BY <1>1, <1>2, <1>3, <1>4, <1>5, <1>6

LEMMA OpenSame ==
  ASSUME UNCHANGED <<consumer, taken>>, Filled' = Filled
  PROVE  Open' = Open /\ \A p : OpenIn(p)' = OpenIn(p)
<1>1. \A c \in Consumers : Work(c)' = Work(c)
  BY DEF Work
<1>2. Open' = Open
  BY <1>1 DEF Open
<1> QED BY <1>2 DEF OpenIn

LEMMA FindsStep ==
  ASSUME NEW h, NEW t, NEW r, FindsFrom(h, t, r), Filled \in Nat, Filled' \in Nat, Filled <= Filled',
         Number(r.index) \in Int, Number(r.index + r.left - 1) \in Int,
         headers'[h].index = headers[h].index, Announced /\ Filled' = Filled => Announced',
         \A p \in Number(r.index)..Filled : p < Filled \/ Announced => EntryOf(p)' = EntryOf(p)
  PROVE  FindsFrom(h, t, r)'
<1>1. PICK l \in Number(r.index + r.left - 1)..Filled : Maps(h, t, l, Number(r.index), l) /\ (l = Filled => Announced)
  BY DEF FindsFrom
<1>2. Capacity(headers'[h]) = Capacity(headers[h])
  BY DEF Capacity
<1>3. Maps(h, t, l, Number(r.index), l)'
  <2>1. \A p \in Number(r.index)..l : p \in Number(r.index)..Filled /\ (p < Filled \/ Announced)
    <3>1. l \in Int /\ l <= Filled
      BY <1>1
    <3> QED BY <1>1, <3>1
  <2> QED BY <1>1, <1>2, <2>1 DEF Maps
<1>4. l \in Number(r.index + r.left - 1)..Filled'
  BY <1>1
<1>5. l = Filled' => Announced'
  BY <1>1
<1> QED BY <1>3, <1>4, <1>5 DEF FindsFrom

\* The entries that consumers have found, and may still find, stay where they are.
EntriesKept ==
  /\ \A i \in Open : \A p \in Number(i)..Filled : p < Filled \/ Announced => EntryOf(p)' = EntryOf(p)
  /\ \A i \in Open : entries'[EntryOf(Number(i))].value = entries[EntryOf(Number(i))].value
  /\ Announced /\ Filled' = Filled => Announced'
  /\ \A h \in DOMAIN headers : h \in DOMAIN headers' /\ headers'[h].index = headers[h].index

\* A tail that has moved is that of the newest index.
TailsKept ==
  \A h \in DOMAIN headers : headers'[h].tail = headers[h].tail \/ (h = Len(headers) /\ Len(headers') = Len(headers))

Newest ==
  CountType /\ IndexInv =>
    \A r : r.index \in Nat /\ r.left \in Positive /\ r.index + r.left <= pushed
             => FindsFrom(Len(headers), headers[Len(headers)].tail, r)

LEMMA NewestFindsAll == Newest
BY NewestFinds DEF Newest

LEMMA NewestFindsNext ==
  ASSUME CountType', IndexInv', NEW r, r.index \in Nat, r.left \in Positive, r.index + r.left <= pushed'
  PROVE  FindsFrom(Len(headers), headers[Len(headers)].tail, r)'
<1>1. Newest'
  BY NewestFindsAll, PTL
<1> QED BY <1>1 DEF Newest

LEMMA RestPlace ==
  ASSUME ConsumerType, NEW c \in Consumers, Rest(consumer[c]).pc = "read"
  PROVE  Rest(consumer[c]).index \in Nat /\ Rest(consumer[c]).left \in Positive
<1>1. CASE consumer[c].pc \in {"empty", "unlink", "release"}
  <2>1. consumer[c].rest \in Rests
    BY <1>1, Shapes DEF Emptying, Freeing
  <2>2. Rest(consumer[c]) = consumer[c].rest
    BY <1>1 DEF Rest
  <2> QED BY <2>1, <2>2 DEF Rests, Idle, Readings
<1>2. CASE consumer[c].pc \notin {"empty", "unlink", "release"}
  <2>1. Rest(consumer[c]) = consumer[c]
    BY <1>2 DEF Rest
  <2> QED BY <2>1, Shapes DEF Readings
<1> QED BY <1>1, <1>2

LEMMA PlacesKept ==
  ASSUME IInv, UNCHANGED consumer, pushed' \in Nat, pushed' >= pushed, Filled' \in Nat, Filled <= Filled',
         EntriesKept, TailsKept, CountType', IndexInv'
  PROVE  ConsumerInv'
<1> SUFFICES ASSUME NEW c \in Consumers PROVE PlaceOk(consumer[c])'
  BY DEF ConsumerInv
<1>0. PICK r : r = consumer[c]
  OBVIOUS
<1> SUFFICES PlaceOk(r)'
  BY <1>0
<1>1. Filled \in Nat /\ taken \in Nat /\ pushed \in Nat /\ PlaceOk(r)
  BY <1>0, FilledIs, TakenIs DEF IInv, IndexInv, ConsumerInv
<1>2. ASSUME r.pc \in Searching
      PROVE  /\ r.index \in Nat /\ r.left \in Positive /\ r.index + r.left <= pushed
             /\ r.index \in Work(c) /\ (r.index + r.left - 1) \in Work(c)
  BY <1>0, <1>2, SearchIs
<1>3. ASSUME r.pc \in {"tail", "find"}, NEW h \in DOMAIN headers, NEW t, FindsFrom(h, t, r)
      PROVE  FindsFrom(h, t, r)'
  <2>1. r.index \in Work(c) /\ (r.index + r.left - 1) \in Work(c)
    BY <1>2, <1>3 DEF Searching
  <2>2. Number(r.index) \in Nat /\ Number(r.index + r.left - 1) \in Nat /\ r.index \in Open
    BY <2>1, WorkIsOpen
  <2>3. \A p \in Number(r.index)..Filled : p < Filled \/ Announced => EntryOf(p)' = EntryOf(p)
    BY <2>2 DEF EntriesKept
  <2>4. headers'[h].index = headers[h].index /\ (Announced /\ Filled' = Filled => Announced')
    BY DEF EntriesKept
  <2> QED BY <1>1, <1>3, <2>2, <2>3, <2>4, FindsStep
<1>4. ASSUME r.pc = "tail"
      PROVE  r.h \in DOMAIN headers' /\ FindsFrom(r.h, headers[r.h].tail, r)'
  <2>1. PICK t : t = headers[r.h].tail
    OBVIOUS
  <2>2. r.h \in DOMAIN headers /\ FindsFrom(r.h, t, r)
    BY <1>1, <1>4, <2>1 DEF PlaceOk
  <2>3. r.h \in DOMAIN headers' /\ FindsFrom(r.h, t, r)'
    BY <1>3, <1>4, <2>2 DEF EntriesKept
  <2>4. CASE headers'[r.h].tail = headers[r.h].tail
    BY <2>1, <2>3, <2>4
  <2>5. CASE r.h = Len(headers) /\ Len(headers') = Len(headers)
    <3>1. r.index \in Nat /\ r.left \in Positive /\ r.index + r.left <= pushed'
      BY <1>1, <1>2, <1>4 DEF Searching, Positive
    <3>2. FindsFrom(Len(headers), headers[Len(headers)].tail, r)'
      BY <3>1, NewestFindsNext
    <3> QED BY <2>3, <2>5, <3>2
  <2> QED BY <2>2, <2>4, <2>5 DEF TailsKept
<1>5. ASSUME r.pc = "find"
      PROVE  r.h \in DOMAIN headers' /\ r.tail \in DOMAIN headers'[r.h].index /\ FindsFrom(r.h, r.tail, r)'
  <2>1. r.h \in DOMAIN headers /\ r.tail \in DOMAIN headers[r.h].index /\ FindsFrom(r.h, r.tail, r)
    BY <1>1, <1>5 DEF PlaceOk
  <2>2. FindsFrom(r.h, r.tail, r)'
    BY <1>3, <1>5, <2>1
  <2> QED BY <2>1, <2>2 DEF EntriesKept
<1>6. ASSUME Rest(r).pc = "read"
      PROVE  /\ Rest(r).h \in DOMAIN headers' /\ Rest(r).at \in DOMAIN headers'[Rest(r).h].index
             /\ Maps(Rest(r).h, Rest(r).at, Number(Rest(r).index), Number(Rest(r).index),
                     Number(Rest(r).index + Rest(r).left - 1))'
  <2>1. PICK q : q = Rest(r)
    OBVIOUS
  <2>2. q.index \in Nat /\ q.left \in Positive
    BY <1>0, <1>6, <2>1, RestPlace DEF IInv
  <2>3. q.index \in Work(c) /\ (q.index + q.left - 1) \in Work(c)
    BY <1>0, <1>6, <2>1, <2>2 DEF Work, WorkIn, WorkOf, Searching, Positive
  <2>4. /\ Number(q.index) \in Nat /\ Number(q.index + q.left - 1) \in Nat
        /\ Number(q.index + q.left - 1) < Filled /\ q.index \in Open
    BY <2>3, WorkIsOpen
  <2>5. /\ q.h \in DOMAIN headers /\ q.at \in DOMAIN headers[q.h].index
        /\ Maps(q.h, q.at, Number(q.index), Number(q.index), Number(q.index + q.left - 1))
    BY <1>1, <1>6, <2>1 DEF PlaceOk
  <2>6. q.h \in DOMAIN headers' /\ headers'[q.h].index = headers[q.h].index
    BY <2>5 DEF EntriesKept
  <2>7. \A p \in Number(q.index)..Number(q.index + q.left - 1) : EntryOf(p)' = EntryOf(p)
    <3>1. \A p \in Number(q.index)..Number(q.index + q.left - 1) : p \in Number(q.index)..Filled /\ p < Filled
      BY <1>1, <2>4
    <3> QED BY <2>4, <3>1 DEF EntriesKept
  <2>8. Maps(q.h, q.at, Number(q.index), Number(q.index), Number(q.index + q.left - 1))'
    BY <2>5, <2>6, <2>7 DEF Maps, Capacity
  <2> QED BY <2>1, <2>5, <2>6, <2>8
<1>7. ASSUME r.pc = "empty"
      PROVE  r.entry = EntryOf(Number(r.n - 1))' /\ r.block = entries'[r.entry].value
  <2>1. PICK i \in Nat : /\ i \in Open /\ r.n = i + 1 /\ r.entry = EntryOf(Number(i))
                         /\ r.block = entries[r.entry].value /\ Number(i) \in Nat
    BY <1>0, <1>7, EmptyIs DEF In
  <2>2. r.n - 1 = i
    BY <2>1
  <2>3. Number(i) < Filled
    BY <2>1, OpenIs DEF IInv
  <2>4. Number(i) \in Number(i)..Filled
    BY <1>1, <2>1, <2>3
  <2>5. EntryOf(Number(i))' = EntryOf(Number(i))
    BY <2>1, <2>3, <2>4 DEF EntriesKept
  <2>6. entries'[EntryOf(Number(i))].value = entries[EntryOf(Number(i))].value
    BY <2>1 DEF EntriesKept
  <2> QED BY <2>1, <2>2, <2>5, <2>6
<1> QED BY <1>4, <1>5, <1>6, <1>7 DEF PlaceOk

-----------------------------------------------------------------------------
(* Steps of the producer between which the blocks in use are the same *)

LEMMA EntriesStay ==
  ASSUME IInv, UNCHANGED <<consumer, taken, pushed>>, Filled' = Filled,
         \A i \in Open : Number(i) >= Shown' - Cap',
         \A i \in Open : \A p \in Number(i)..(Filled - 1) :
            EntryOf(p)' = EntryOf(p) /\ entries'[EntryOf(p)] = entries[EntryOf(p)],
         \A i \in Open : LET b == entries[EntryOf(Number(i))].value IN
            emptied'[b] = emptied[b] /\ (i < pushed => slots'[b][i % BlockSize] = slots[b][i % BlockSize])
  PROVE  KeyInv' /\ BlockInv'
<1>1. Open' = Open /\ \A p : OpenIn(p)' = OpenIn(p)
  BY OpenSame
<1>2. \A i \in Open : Number(i) \in Number(i)..(Filled - 1)
  <2> SUFFICES ASSUME NEW i \in Open PROVE Number(i) \in Number(i)..(Filled - 1)
    OBVIOUS
  <2>1. Number(i) \in Nat /\ Filled \in Nat /\ Number(i) < Filled
    BY OpenIs DEF IInv
  <2> QED BY <2>1
<1>3. KeyInv'
  <2> SUFFICES ASSUME NEW i \in Open
               PROVE  /\ Number(i) >= Shown' - Cap'
                      /\ \A p \in Number(i)..(Filled - 1) : entries'[EntryOf(p)'].key = BlockSize * p
    BY <1>1 DEF KeyInv, Cap
  <2> QED BY DEF IInv, IndexInv, KeyInv
<1>4. BlockInv'
  <2> SUFFICES ASSUME NEW i \in Open
               PROVE  LET b == entries'[EntryOf(Number(i))'].value
                      IN /\ b # NoBlock
                         /\ emptied'[b] + Cardinality(OpenIn(Number(i))) = BlockSize
                         /\ i < pushed => slots'[b][i % BlockSize] = i + 1
    BY <1>1 DEF BlockInv
  <2>1. entries'[EntryOf(Number(i))'].value = entries[EntryOf(Number(i))].value
    BY <1>2
  <2> QED BY <2>1 DEF IInv, IndexInv, BlockInv
<1> QED BY <1>3, <1>4

LEMMA OccupiedStays ==
  ASSUME IInv, UNCHANGED <<consumer, taken>>, Filled' = Filled,
         \A e \in DOMAIN entries' : entries'[e].value # NoBlock => e \in DOMAIN entries /\ entries'[e] = entries[e],
         \A e \in DOMAIN entries : e \in DOMAIN entries' /\ entries'[e].value = entries[e].value,
         \A p \in 0..(Filled - 1) : entries[EntryOf(p)].value # NoBlock /\ p >= Shown - Cap
            => EntryOf(p)' = EntryOf(p) /\ p >= Shown' - Cap',
         \A e \in DOMAIN entries : entries[e].value # NoBlock => emptied'[entries[e].value] = emptied[entries[e].value]
  PROVE  OccupiedInv'
<1>1. \A p : OpenIn(p)' = OpenIn(p)
  BY OpenSame
<1>2. \A e : Unlinking(e)' = Unlinking(e)
  BY DEF Unlinking, In
<1>3. ASSUME NEW e \in DOMAIN entries', entries'[e].value # NoBlock
      PROVE  \E p \in 0..(Filled - 1) :
                /\ entries'[e].key = BlockSize * p /\ EntryOf(p)' = e /\ p >= Shown' - Cap'
                /\ OpenIn(p)' # {} \/ Unlinking(e)'
  <2>1. e \in DOMAIN entries /\ entries'[e] = entries[e]
    BY <1>3
  <2>2. PICK p \in 0..(Filled - 1) :
                /\ entries[e].key = BlockSize * p /\ EntryOf(p) = e /\ p >= Shown - Cap
                /\ OpenIn(p) # {} \/ Unlinking(e)
    BY <1>3, <2>1 DEF IInv, IndexInv, OccupiedInv, Cap
  <2>3. EntryOf(p)' = e /\ p >= Shown' - Cap'
    BY <1>3, <2>1, <2>2
  <2> QED BY <1>1, <1>2, <2>1, <2>2, <2>3
<1>4. ASSUME NEW c \in Consumers, In(c, "unlink")
      PROVE  /\ consumer[c].entry \in DOMAIN entries'
             /\ consumer[c].block = entries'[consumer[c].entry].value
             /\ consumer[c].block # NoBlock
             /\ emptied'[consumer[c].block] = BlockSize
  BY <1>4 DEF IInv, IndexInv, OccupiedInv
<1>5. \A c, d \in Consumers : In(c, "unlink") /\ In(d, "unlink") /\ consumer[c].entry = consumer[d].entry => c = d
  BY DEF IInv, IndexInv, OccupiedInv
<1> QED BY <1>3, <1>4, <1>5 DEF OccupiedInv, In, Cap

LEMMA PlacesStay ==
  ASSUME IInv, UNCHANGED <<consumer, blocks, freeList>>, ~At("install"), ~At("install")',
         \A e \in DOMAIN entries : e \in DOMAIN entries' /\ entries'[e].value = entries[e].value,
         \A e \in DOMAIN entries' : e \in DOMAIN entries \/ entries'[e].value = NoBlock
  PROVE  PlacesInv'
<1>1. Releasing' = Releasing
  BY DEF Releasing, In
<1>2. NoBlock \notin freeList /\ NoBlock \notin 1..blocks
  BY DEF IInv, IndexInv, MemoryType, NoBlock
<1>3. \A e, f \in DOMAIN entries' : entries'[e].value = entries'[f].value /\ entries'[e].value # NoBlock => e = f
  BY DEF IInv, IndexInv, PlacesInv
<1>4. \A e \in DOMAIN entries' : entries'[e].value \notin freeList
  BY <1>2 DEF IInv, IndexInv, PlacesInv
<1>5. ASSUME NEW c \in Releasing
      PROVE  /\ consumer[c].block \in (1..blocks) \ freeList
             /\ \A e \in DOMAIN entries' : entries'[e].value # consumer[c].block
  <2>1. /\ consumer[c].block \in (1..blocks) \ freeList
        /\ \A e \in DOMAIN entries : entries[e].value # consumer[c].block
    BY DEF IInv, IndexInv, PlacesInv
  <2> QED BY <1>2, <2>1
<1>6. \A c, d \in Releasing : consumer[c].block = consumer[d].block => c = d
  BY DEF IInv, IndexInv, PlacesInv
<1>7. ASSUME NEW b \in 1..blocks
      PROVE \/ b \in freeList
            \/ \E e \in DOMAIN entries' : entries'[e].value = b
            \/ \E c \in Releasing : consumer[c].block = b
  <2>1. \/ b \in freeList
        \/ \E e \in DOMAIN entries : entries[e].value = b
        \/ \E c \in Releasing : consumer[c].block = b
    BY DEF IInv, IndexInv, PlacesInv
  <2> QED BY <2>1
<1> QED BY <1>1, <1>3, <1>4, <1>5, <1>6, <1>7 DEF PlacesInv

\* The producer goes to s.
LEMMA GoesTo ==
  ASSUME IInv, NEW s, Goto(s)
  PROVE  /\ \A x : At(x)' <=> x = s
         /\ producer'.entry = producer.entry /\ producer'.block = producer.block
         /\ producer' = [pc |-> s, entry |-> producer.entry, block |-> producer.block]
         /\ producer.entry \in Nat /\ producer.block \in 0..blocks
  BY DEF IInv, IndexInv, ProducerType, Goto, At

-----------------------------------------------------------------------------
(* Steps that move the producer only *)

LEMMA MoveStep ==
  ASSUME IInv, UNCHANGED <<shared, memory, entries, headers, consumer, pushed, taken, claims>>,
         Filled' = Filled, Shown' = Shown, ~At("install"), ~At("install")',
         ProducerType', CountType', ProducerInv'
  PROVE  IInv'
<1>1. pushed' \in Nat /\ pushed' >= pushed /\ Filled \in Nat
  BY FilledIs DEF IInv, IndexInv, CountType
<1>2. UNCHANGED <<slots, emptied, blocks, freeList, dequeueOvercommit>>
  BY DEF memory, shared
<1>3. /\ CountInv' /\ SeenInv' /\ ConsumerType' /\ ClaimInv' /\ WorkInv'
  BY <1>1, <1>2, ProducerMoves
<1>4. blockIndex' = blockIndex
  BY DEF blockIndex
<1>5. Cap' = Cap /\ \A p : EntryOf(p)' = EntryOf(p)
  BY <1>4 DEF Cap, EntryOf, Capacity
<1>6. MemoryType' /\ IndexType'
  BY <1>2, <1>5 DEF IInv, IndexInv, MemoryType, IndexType, Cap, blockIndex
<1>7. KeyInv' /\ BlockInv'
  <2>1. \A i \in Open : Number(i) >= Shown' - Cap'
    BY <1>5 DEF IInv, IndexInv, KeyInv, Cap
  <2> QED BY <1>2, <1>5, <2>1, EntriesStay
<1>8. OccupiedInv' /\ PlacesInv'
  BY <1>2, <1>5, OccupiedStays, PlacesStay
<1>9. IndexInv'
  BY <1>6, <1>7, <1>8 DEF IndexInv
<1>10. Announced => Announced'
  BY <1>5 DEF Announced
<1>11. EntriesKept /\ TailsKept
  BY <1>5, <1>10 DEF EntriesKept, TailsKept
<1>12. ConsumerInv'
  BY <1>1, <1>9, <1>11, PlacesKept
<1> QED BY <1>3, <1>9, <1>12 DEF IInv

LEMMA EnqueueBeginStep ==
  ASSUME IInv, EnqueueBegin
  PROVE  IInv'
<1>1. At("idle") /\ pushed < MaxElements /\ UNCHANGED <<shared, memory, entries, headers, consumer, pushed, taken, claims>>
  BY DEF EnqueueBegin, index
<1>2. PICK s \in {"write", "insert"} : Goto(s) /\ (s = "write" <=> pushed % BlockSize # 0)
  BY DEF EnqueueBegin, IInv, CountType
<1>3. /\ \A x : At(x)' <=> x = s
      /\ producer'.entry = producer.entry /\ producer'.block = producer.block
      /\ producer' = [pc |-> s, entry |-> producer.entry, block |-> producer.block]
      /\ producer.entry \in Nat /\ producer.block \in 0..blocks
  BY <1>2, GoesTo
<1>4. \A x : At(x) <=> x = "idle"
  BY <1>1 DEF At
<1>5. Filled' = Filled /\ Shown' = Shown
  <2>1. Filled' = Filled
    BY <1>1, <1>2, <1>3, <1>4 DEF Filled
  <2> QED BY <1>2, <1>3, <1>4, <2>1 DEF Shown
<1>6. UNCHANGED <<slots, blocks>> /\ blockIndex' = blockIndex
  BY <1>1 DEF memory, blockIndex
<1>7. \A p : EntryOf(p)' = EntryOf(p)
  BY <1>5, <1>6 DEF EntryOf, Capacity
<1>8. Open' = Open
  BY <1>1, <1>5, OpenSame
<1>9. ProducerType'
  BY <1>2, <1>3, <1>6 DEF ProducerType
<1>10. CountType'
  BY <1>1, <1>3 DEF IInv, CountType, shared
<1>11. ProducerInv'
  <2>1. \A i \in Open : Number(i) = Filled - 1 => producer.block = entries[EntryOf(Filled - 1)].value
    BY <1>4 DEF IInv, IndexInv, ProducerInv
  <2>2. s = "write" => producer.block = entries[EntryOf(Filled - 1)].value /\ producer.block # NoBlock
    <3>1. ASSUME s = "write" PROVE pushed \in Open /\ Number(pushed) = Filled - 1
      BY <1>2, <3>1, FilledIs, PushedIsOpen DEF IInv, IndexInv
    <3>2. ASSUME s = "write" PROVE entries[EntryOf(Number(pushed))].value # NoBlock
      BY <3>1, <3>2 DEF IInv, IndexInv, BlockInv
    <3> QED BY <2>1, <3>1, <3>2
  <2>3. s = "insert" => pushed % BlockSize = 0
    BY <1>2
  <2> QED BY <1>1, <1>2, <1>3, <1>5, <1>7, <1>8, <2>1, <2>2, <2>3 DEF ProducerInv
<1> QED BY <1>1, <1>2, <1>3, <1>4, <1>5, <1>9, <1>10, <1>11, MoveStep

LEMMA NoBlockIndexStep ==
  ASSUME IInv, NoBlockIndex
  PROVE  IInv'
<1>1. At("insert") /\ Goto("idle") /\ UNCHANGED <<shared, memory, entries, headers, consumer, pushed, taken, claims>>
  BY DEF NoBlockIndex, index
<1>2. /\ \A x : At(x)' <=> x = "idle"
      /\ producer'.entry = producer.entry /\ producer'.block = producer.block
      /\ producer' = [pc |-> "idle", entry |-> producer.entry, block |-> producer.block]
      /\ producer.entry \in Nat /\ producer.block \in 0..blocks
  BY <1>1, GoesTo
<1>3. \A x : At(x) <=> x = "insert"
  BY <1>1 DEF At
<1>4. Filled' = Filled /\ Shown' = Shown
  <2>1. Filled' = Filled
    BY <1>1, <1>2, <1>3 DEF Filled
  <2> QED BY <1>2, <1>3, <2>1 DEF Shown
<1>5. UNCHANGED <<slots, blocks>> /\ blockIndex' = blockIndex
  BY <1>1 DEF memory, blockIndex
<1>6. \A p : EntryOf(p)' = EntryOf(p)
  BY <1>4, <1>5 DEF EntryOf, Capacity
<1>7. Open' = Open
  BY <1>1, <1>4, OpenSame
<1>8. ProducerType'
  BY <1>2, <1>5 DEF ProducerType
<1>9. CountType'
  BY <1>1, <1>2 DEF IInv, CountType, shared
<1>10. ProducerInv'
  <2>1. \A i \in Open : Number(i) = Filled - 1 => producer.block = entries[EntryOf(Filled - 1)].value
    BY <1>3 DEF IInv, IndexInv, ProducerInv
  <2> QED BY <1>1, <1>2, <1>4, <1>6, <1>7, <2>1 DEF ProducerInv
<1> QED BY <1>1, <1>2, <1>3, <1>4, <1>8, <1>9, <1>10, MoveStep

\* Where the next element goes.
LEMMA WritingIs ==
  ASSUME IInv, At("write") \/ At("advance")
  PROVE  /\ pushed \in Nat /\ pushed \in Open /\ Number(pushed) = Filled - 1
         /\ Filled = Number(pushed) + 1 /\ Shown = Filled /\ Filled \in Nat
         /\ pushed % BlockSize \in 0..(BlockSize - 1)
         /\ producer.block = entries[EntryOf(Number(pushed))].value
         /\ producer.block \in Blocks /\ tailIndex = pushed
         /\ EntryOf(Filled - 1) = EntryOf(Number(pushed))
<1>1. Writing /\ pushed \in Nat /\ tailIndex = pushed
  BY DEF Writing, IInv, CountType
<1>2. pushed < BlockSize * Filled /\ Number(pushed) = Filled - 1 /\ Filled \in Nat /\ Shown \in Nat
  BY <1>1, FilledIs DEF IInv, IndexInv
<1>3. pushed \in Open
  BY <1>2, PushedIsOpen
<1>4. EntryOf(Filled - 1) = EntryOf(Number(pushed))
  BY <1>2
<1>5. producer.block = entries[EntryOf(Number(pushed))].value
  BY <1>4 DEF IInv, IndexInv, ProducerInv
<1>6. producer.block \in Blocks
  BY <1>3, <1>5, OpenIs DEF IInv
<1>7. ~At("requisition") /\ ~At("install")
  BY DEF At
<1>8. Shown = Filled /\ Filled = Number(pushed) + 1
  BY <1>2, <1>7 DEF Shown
<1> QED BY <1>1, <1>2, <1>3, <1>4, <1>5, <1>6, <1>8, NumberIs

LEMMA SlotWritten ==
  ASSUME slots \in [Blocks -> [0..(BlockSize - 1) -> Nat]],
         NEW b \in Blocks, NEW s \in 0..(BlockSize - 1), NEW v \in Nat, slots' = [slots EXCEPT ![b][s] = v]
  PROVE  /\ slots' \in [Blocks -> [0..(BlockSize - 1) -> Nat]]
         /\ slots'[b][s] = v
         /\ \A x \in Blocks, y \in 0..(BlockSize - 1) : x # b \/ y # s => slots'[x][y] = slots[x][y]
<1> DEFINE S == 0..(BlockSize - 1)
           f == [slots[b] EXCEPT ![s] = v]
<1> HIDE DEF S
<1>1. slots[b] \in [S -> Nat] /\ s \in S
  BY DEF S
<1>2. f \in [S -> Nat] /\ f[s] = v /\ \A y \in S : y # s => f[y] = slots[b][y]
  BY <1>1
<1>3. slots' = [slots EXCEPT ![b] = f]
  OBVIOUS
<1> HIDE DEF f
<1>4. slots' \in [Blocks -> [S -> Nat]] /\ slots'[b] = f /\ \A x \in Blocks : x # b => slots'[x] = slots[x]
  BY <1>2, <1>3 DEF S
<1> QED BY <1>2, <1>4 DEF S

LEMMA WriteElementStep ==
  ASSUME IInv, WriteElement
  PROVE  IInv'
<1> DEFINE b == producer.block
<1>1. /\ At("write") /\ Goto("advance")
      /\ UNCHANGED <<shared, emptied, blocks, freeList, entries, headers, consumer, pushed, taken, claims>>
  BY DEF WriteElement, index
<1>2. /\ \A x : At(x)' <=> x = "advance"
      /\ producer'.entry = producer.entry /\ producer'.block = b
      /\ producer' = [pc |-> "advance", entry |-> producer.entry, block |-> b]
      /\ producer.entry \in Nat /\ b \in 0..blocks
  BY <1>1, GoesTo
<1>3. \A x : At(x) <=> x = "write"
  BY <1>1 DEF At
<1>4. /\ pushed \in Nat /\ pushed \in Open /\ Number(pushed) = Filled - 1 /\ Filled \in Nat
      /\ pushed % BlockSize \in 0..(BlockSize - 1)
      /\ b = entries[EntryOf(Number(pushed))].value
      /\ b \in Blocks /\ tailIndex = pushed /\ EntryOf(Filled - 1) = EntryOf(Number(pushed))
  BY <1>1, WritingIs
<1>5. slots \in [Blocks -> [0..(BlockSize - 1) -> Nat]]
  BY DEF IInv, IndexInv, MemoryType
<1> DEFINE s == pushed % BlockSize
<1>6. slots' = [slots EXCEPT ![b][s] = pushed + 1]
  BY <1>4 DEF WriteElement
<1>7. s \in 0..(BlockSize - 1) /\ s = pushed % BlockSize
  BY <1>4
<1> HIDE DEF b, s
<1>8. /\ slots' \in [Blocks -> [0..(BlockSize - 1) -> Nat]]
      /\ slots'[b][s] = pushed + 1
      /\ \A x \in Blocks, y \in 0..(BlockSize - 1) : x # b \/ y # s => slots'[x][y] = slots[x][y]
  <2>1. PICK v \in Nat : v = pushed + 1
    BY <1>4
  <2>2. slots' = [slots EXCEPT ![b][s] = v] /\ b \in Blocks /\ s \in 0..(BlockSize - 1)
    BY <1>4, <1>6, <1>7, <2>1
  <2>3. /\ slots' \in [Blocks -> [0..(BlockSize - 1) -> Nat]]
        /\ slots'[b][s] = v
        /\ \A x \in Blocks, y \in 0..(BlockSize - 1) : x # b \/ y # s => slots'[x][y] = slots[x][y]
    BY <1>5, <2>2, SlotWritten
  <2> QED BY <2>1, <2>3
<1>9. Filled' = Filled /\ Shown' = Shown
  <2>1. Filled' = Filled
    BY <1>1, <1>2, <1>3 DEF Filled
  <2> QED BY <1>2, <1>3, <2>1 DEF Shown
<1>10. blockIndex' = blockIndex
  BY <1>1 DEF blockIndex
<1>11. Cap' = Cap /\ \A p : EntryOf(p)' = EntryOf(p)
  BY <1>9, <1>10 DEF EntryOf, Capacity, Cap
<1>12. Open' = Open
  BY <1>1, <1>9, OpenSame
<1>13. ProducerType'
  BY <1>1, <1>2 DEF ProducerType
<1>14. CountType'
  BY <1>1, <1>2, <1>3 DEF IInv, CountType, shared
<1>15. MemoryType' /\ IndexType'
  BY <1>1, <1>8, <1>11, <1>10 DEF IInv, IndexInv, MemoryType, IndexType, Cap, blockIndex
<1>16. /\ CountInv' /\ SeenInv' /\ ConsumerType' /\ ClaimInv' /\ WorkInv'
  <2>1. pushed' \in Nat /\ pushed' >= pushed /\ dequeueOvercommit' = dequeueOvercommit
    BY <1>1, <1>4 DEF shared
  <2> QED BY <1>1, <2>1, ProducerMoves
<1>17. KeyInv' /\ BlockInv'
  <2>1. \A i \in Open : Number(i) >= Shown' - Cap'
    BY <1>9, <1>11 DEF IInv, IndexInv, KeyInv, Cap
  <2>2. ASSUME NEW i \in Open, i < pushed
        PROVE  slots'[entries[EntryOf(Number(i))].value][i % BlockSize] = slots[entries[EntryOf(Number(i))].value][i % BlockSize]
    <3>1. i \in Nat /\ entries[EntryOf(Number(i))].value \in Blocks
      BY OpenIs DEF IInv
    <3>2. i % BlockSize \in 0..(BlockSize - 1)
      BY <3>1, NumberIs
    <3>3. ASSUME entries[EntryOf(Number(i))].value = b, i % BlockSize = s PROVE FALSE
      <4>1. Number(i) = Number(pushed)
        BY <1>4, <3>3, OpenDiffer DEF IInv
      <4>2. i = pushed
        BY <1>4, <1>7, <3>1, <3>3, <4>1, SlotDiffers
      <4> QED BY <2>2, <4>2, <1>4
    <3> QED BY <1>8, <3>1, <3>2, <3>3
  <2> QED BY <1>1, <1>9, <1>11, <2>1, <2>2, EntriesStay
<1>18. OccupiedInv' /\ PlacesInv'
  <2>1. ~At("install") /\ ~At("install")'
    BY <1>2, <1>3
  <2> QED BY <1>1, <1>9, <1>11, <2>1, OccupiedStays, PlacesStay
<1>19. ProducerInv'
  <2>1. \A i \in Open : Number(i) = Filled - 1 => b = entries[EntryOf(Filled - 1)].value
    BY <1>3 DEF IInv, IndexInv, ProducerInv, b
  <2>2. b = entries[EntryOf(Filled - 1)].value /\ b # NoBlock
    BY <1>4 DEF Blocks, NoBlock
  <2> QED BY <1>1, <1>2, <1>7, <1>8, <1>9, <1>11, <1>12, <2>1, <2>2 DEF ProducerInv
<1>20. IndexInv'
  BY <1>13, <1>15, <1>17, <1>18, <1>19 DEF IndexInv
<1>21. ConsumerInv'
  <2>1. Announced => Announced'
    BY <1>1, <1>9, <1>11 DEF Announced
  <2>2. EntriesKept /\ TailsKept
    BY <1>1, <1>11, <2>1 DEF EntriesKept, TailsKept
  <2>3. pushed' \in Nat /\ pushed' >= pushed /\ Filled' \in Nat /\ Filled <= Filled'
    BY <1>1, <1>4, <1>9
  <2> QED BY <1>1, <1>14, <1>20, <2>2, <2>3, PlacesKept
<1> QED BY <1>14, <1>16, <1>20, <1>21 DEF IInv

LEMMA AdvanceTailStep ==
  ASSUME NoWrap, IInv, AdvanceTail
  PROVE  IInv'
<1>1. /\ At("advance") /\ Goto("idle") /\ pushed' = pushed + 1
      /\ tailIndex' = (tailIndex + 1) % Span
      /\ UNCHANGED <<headIndex, dequeueOptimisticCount, dequeueOvercommit, memory, entries, headers,
                     consumer, taken, claims>>
  BY DEF AdvanceTail, index
<1>2. /\ \A x : At(x)' <=> x = "idle"
      /\ producer'.entry = producer.entry /\ producer'.block = producer.block
      /\ producer' = [pc |-> "idle", entry |-> producer.entry, block |-> producer.block]
      /\ producer.entry \in Nat /\ producer.block \in 0..blocks
  BY <1>1, GoesTo
<1>3. \A x : At(x) <=> x = "advance"
  BY <1>1 DEF At
<1>4. /\ pushed \in Nat /\ pushed \in Open /\ Number(pushed) = Filled - 1 /\ Filled \in Nat
      /\ Filled = Number(pushed) + 1 /\ Shown = Filled
      /\ producer.block = entries[EntryOf(Number(pushed))].value
      /\ producer.block \in Blocks /\ tailIndex = pushed /\ EntryOf(Filled - 1) = EntryOf(Number(pushed))
  BY <1>1, WritingIs
<1>5. UNCHANGED <<slots, emptied, blocks, freeList>>
  BY <1>1 DEF memory
<1>6. CountType'
  <2>1. pushed < MaxElements
    BY <1>3 DEF IInv, CountType
  <2>2. pushed + 1 <= MaxElements /\ pushed + 1 < Span /\ pushed + 1 \in Nat
    BY <1>4, <2>1, SizesFacts
  <2>3. tailIndex' = pushed'
    BY <1>1, <1>4, <2>2, SmallIsSelf
  <2> QED BY <1>1, <1>2, <2>2, <2>3 DEF IInv, CountType
<1>7. Filled' = Filled /\ Shown' = Shown
  <2>1. Filled' = IF (pushed + 1) % BlockSize # 0 THEN Number(pushed + 1) + 1 ELSE Number(pushed + 1)
    BY <1>1, <1>2 DEF Filled
  <2>2. Filled' = Number(pushed) + 1
    BY <1>4, <2>1, NumberNext
  <2>3. Filled' = Filled
    BY <1>4, <2>2
  <2> QED BY <1>2, <1>3, <2>3 DEF Shown
<1>8. blockIndex' = blockIndex
  BY <1>1 DEF blockIndex
<1>9. Cap' = Cap /\ \A p : EntryOf(p)' = EntryOf(p)
  BY <1>7, <1>8 DEF EntryOf, Capacity, Cap
<1>10. Open' = Open /\ \A p : OpenIn(p)' = OpenIn(p)
  BY <1>1, <1>7, OpenSame
<1>11. /\ CountInv' /\ SeenInv' /\ ConsumerType' /\ ClaimInv' /\ WorkInv'
  <2>1. pushed' \in Nat /\ pushed' >= pushed
    BY <1>1, <1>4
  <2> QED BY <1>1, <2>1, ProducerMoves
<1>12. ProducerType' /\ MemoryType' /\ IndexType'
  BY <1>1, <1>2, <1>5, <1>8, <1>9 DEF IInv, IndexInv, ProducerType, MemoryType, IndexType, Cap, blockIndex
<1>13. KeyInv'
  BY <1>1, <1>7, <1>9, <1>10 DEF IInv, IndexInv, KeyInv, Cap
<1>14. BlockInv'
  <2>1. ASSUME NEW i \in Open, i < pushed + 1
        PROVE  slots[entries[EntryOf(Number(i))].value][i % BlockSize] = i + 1
    <3>1. i \in Nat
      BY OpenIs DEF IInv
    <3>2. CASE i < pushed
      BY <3>2 DEF IInv, IndexInv, BlockInv
    <3>3. CASE i = pushed
      BY <1>1, <1>4, <3>3 DEF IInv, IndexInv, ProducerInv
    <3> QED BY <1>4, <2>1, <3>1, <3>2, <3>3
  <2>2. \A i \in Open : LET x == entries[EntryOf(Number(i))].value
                        IN x # NoBlock /\ emptied[x] + Cardinality(OpenIn(Number(i))) = BlockSize
    BY DEF IInv, IndexInv, BlockInv
  <2> QED BY <1>1, <1>5, <1>9, <1>10, <2>1, <2>2 DEF BlockInv
<1>15. OccupiedInv' /\ PlacesInv'
  <2>1. ~At("install") /\ ~At("install")'
    BY <1>2, <1>3
  <2> QED BY <1>1, <1>5, <1>7, <1>9, <2>1, OccupiedStays, PlacesStay
<1>16. ProducerInv'
  <2>1. \A i \in Open : Number(i) = Filled - 1 => producer.block = entries[EntryOf(Filled - 1)].value
    BY <1>3 DEF IInv, IndexInv, ProducerInv
  <2> QED BY <1>1, <1>2, <1>7, <1>9, <1>10, <2>1 DEF ProducerInv
<1>17. IndexInv'
  BY <1>12, <1>13, <1>14, <1>15, <1>16 DEF IndexInv
<1>18. ConsumerInv'
  <2>1. Announced => Announced'
    BY <1>1, <1>7, <1>9 DEF Announced
  <2>2. EntriesKept /\ TailsKept
    BY <1>1, <1>9, <2>1 DEF EntriesKept, TailsKept
  <2>3. pushed' \in Nat /\ pushed' >= pushed /\ Filled' \in Nat /\ Filled <= Filled'
    BY <1>1, <1>4, <1>7
  <2> QED BY <1>1, <1>6, <1>17, <2>2, <2>3, PlacesKept
<1> QED BY <1>6, <1>11, <1>17, <1>18 DEF IInv

-----------------------------------------------------------------------------
(* Steps that get a new block *)

LEMMA PlacingIs ==
  ASSUME IInv, At("insert") \/ At("publish") \/ At("requisition") \/ At("install")
  PROVE  /\ pushed \in Nat /\ taken \in Nat /\ taken <= pushed
         /\ pushed % BlockSize = 0 /\ Filled = Number(pushed) /\ Filled \in Nat /\ pushed = BlockSize * Filled
         /\ Shown \in Nat /\ Shown = (IF At("requisition") \/ At("install") THEN Filled + 1 ELSE Filled)
         /\ tailIndex = pushed
         /\ \A p \in Int : EntryOf(p) \in DOMAIN entries
         /\ ~At("insert") => producer.entry = EntryOf(Filled) /\ Announced
<1>1. pushed % BlockSize = 0
  BY DEF IInv, IndexInv, ProducerInv
<1>2. ~Writing
  BY DEF At, Writing
<1>3. pushed \in Nat /\ taken \in Nat /\ taken <= pushed /\ tailIndex = pushed
  BY TakenIs DEF IInv, CountType
<1>4. Filled = Number(pushed) /\ Filled \in Nat /\ pushed = BlockSize * Filled /\ Shown \in Nat
  BY <1>1, <1>2, FilledIs DEF IInv, IndexInv
<1>5. \A p \in Int : EntryOf(p) \in DOMAIN entries
  BY <1>4, PlaceIs DEF IInv, IndexInv
<1>6. ~At("insert") => producer.entry = EntryOf(Filled) /\ Announced
  BY DEF IInv, IndexInv, ProducerInv
<1> QED BY <1>1, <1>3, <1>4, <1>5, <1>6 DEF Shown

\* Where the next entry is free, the entries in use are not as many as there are.
LEMMA NextIsFree ==
  ASSUME IInv, At("insert") \/ At("publish") \/ At("requisition") \/ At("install"),
         entries[EntryOf(Filled)].value = NoBlock
  PROVE  /\ \A p \in Nat : p < Filled /\ p >= Shown - Cap /\ entries[EntryOf(p)].value # NoBlock
                             => p >= Filled + 1 - Cap
         /\ \A i \in Open : Number(i) >= Filled + 1 - Cap
         /\ \A i \in Open : \A p \in Number(i)..(Filled - 1) : EntryOf(p) # EntryOf(Filled)
<1>1. /\ Filled \in Nat /\ Shown \in Nat /\ Shown \in {Filled, Filled + 1} /\ Cap \in Nat \ {0}
  BY PlacingIs, LastIs DEF IInv, IndexInv
<1>2. ASSUME NEW p \in Nat, p < Filled, p >= Shown - Cap, entries[EntryOf(p)].value # NoBlock
      PROVE  p >= Filled + 1 - Cap
  <2>1. EntryOf(p + Cap) = EntryOf(p)
    BY <1>1, EntryTurns DEF IInv, IndexInv
  <2>2. p + Cap # Filled
    BY <1>2, <2>1
  <2> QED BY <1>1, <1>2, <2>2
<1>3. ASSUME NEW i \in Open PROVE Number(i) \in Nat /\ Number(i) < Filled /\ Number(i) >= Filled + 1 - Cap
  <2>1. /\ Number(i) \in Nat /\ Number(i) < Filled /\ Number(i) >= Shown - Cap
        /\ entries[EntryOf(Number(i))].value # NoBlock
    BY OpenIs DEF IInv, IndexInv, BlockInv
  <2> QED BY <1>2, <2>1
<1>4. ASSUME NEW i \in Open, NEW p \in Number(i)..(Filled - 1) PROVE EntryOf(p) # EntryOf(Filled)
  <2>1. p \in Int /\ Filled - p < Cap /\ p - Filled < Cap /\ p # Filled
    BY <1>1, <1>3
  <2> QED BY <1>1, <2>1, EntryDiffers DEF IInv, IndexInv
<1> QED BY <1>2, <1>3, <1>4

LEMMA MovedSum ==
  ASSUME NEW a \in Int, NEW d \in Int, NEW p \in Int, NEW s \in Int
  PROVE  (a + d) + (p + 1 - (s + d)) = a + p + 1 - s
  OBVIOUS

\* The tail of the newest index moves together with what is shown.
LEMMA TailMoves ==
  ASSUME IInv, NEW d \in Int, Shown' = Shown + d,
         headers' = [headers EXCEPT ![Len(headers)].tail = (blockIndex.tail + d) % Cap]
  PROVE  /\ DOMAIN headers' = DOMAIN headers /\ Len(headers') = Len(headers)
         /\ \A h \in DOMAIN headers : headers'[h].index = headers[h].index
         /\ \A h \in DOMAIN headers : h # Len(headers) => headers'[h].tail = headers[h].tail
         /\ headers' \in Seq(UNION {HeadersOf(n) : n \in Sizes}) /\ headers' # <<>>
         /\ blockIndex'.index = blockIndex.index /\ Cap' = Cap
         /\ \A p \in Int : EntryOf(p)' = EntryOf(p)
<1>1. /\ Len(headers) \in DOMAIN headers /\ DOMAIN headers = 1..Len(headers) /\ Len(headers) \in Nat
      /\ blockIndex = headers[Len(headers)] /\ Cap \in Sizes /\ Cap \in Nat \ {0} /\ blockIndex \in HeadersOf(Cap)
      /\ blockIndex.tail \in 0..(Cap - 1)
  BY LastIs DEF IInv, IndexInv
<1> DEFINE S == UNION {HeadersOf(n) : n \in Sizes}
           t == (blockIndex.tail + d) % Cap
           new == [blockIndex EXCEPT !.tail = t]
<1>2. headers \in Seq(S)
  BY DEF IInv, IndexInv, IndexType
<1>3. t \in 0..(Cap - 1)
  <2>1. blockIndex.tail + d \in Int
    BY <1>1
  <2> QED BY <1>1, <2>1, DivMod
<1>4. headers' = [headers EXCEPT ![Len(headers)] = new]
  BY <1>1
<1>5. new \in HeadersOf(Cap) /\ new.index = blockIndex.index /\ new.tail = t
  <2> HIDE DEF t
  <2> QED BY <1>1, <1>3 DEF HeadersOf
<1>6. new \in S
  BY <1>1, <1>5
<1> HIDE DEF S, new
<1>7. /\ headers' \in Seq(S) /\ Len(headers') = Len(headers) /\ DOMAIN headers' = DOMAIN headers
      /\ headers'[Len(headers)] = new /\ \A h \in DOMAIN headers : h # Len(headers) => headers'[h] = headers[h]
  BY <1>1, <1>2, <1>4, <1>6
<1>8. headers' # <<>>
  <2>1. headers # <<>>
    BY DEF IInv, IndexInv, IndexType
  <2> QED BY <1>7, <2>1, <1>1
<1>9. blockIndex' = new
  BY <1>7 DEF blockIndex
<1>10. Cap' = Cap
  BY <1>5, <1>9 DEF Cap, Capacity
<1>11. ASSUME NEW p \in Int PROVE EntryOf(p)' = EntryOf(p)
  <2>1. Shown \in Nat
    BY FilledIs DEF IInv, IndexInv
  <2>2. PICK x \in Int, y \in Int : x = blockIndex.tail + d /\ y = p + 1 - Shown'
    BY <1>1, <2>1
  <2>3. t + p + 1 - Shown' = (x % Cap) + y /\ x + y = blockIndex.tail + p + 1 - Shown
    <3>1. t \in Int /\ t = x % Cap
      BY <1>3, <2>2
    <3>2. blockIndex.tail \in Int /\ Shown' \in Int
      BY <1>1, <2>1
    <3> HIDE DEF t
    <3>3. t + p + 1 - Shown' = t + y
      BY <2>2, <3>1, <3>2
    <3>4. x + y = blockIndex.tail + p + 1 - Shown
      <4>1. x = blockIndex.tail + d /\ y = p + 1 - (Shown + d) /\ Shown \in Int
        BY <2>1, <2>2
      <4>2. PICK a \in Int, z \in Int : a = blockIndex.tail /\ z = Shown
        BY <3>2, <4>1
      <4>3. x + y = (a + d) + (p + 1 - (z + d))
        BY <4>1, <4>2
      <4>4. x + y = a + p + 1 - z
        BY <4>3, MovedSum
      <4> QED BY <4>2, <4>4
    <3> QED BY <3>1, <3>3, <3>4
  <2>4. (t + p + 1 - Shown') % Cap = (blockIndex.tail + p + 1 - Shown) % Cap
    BY <1>1, <2>2, <2>3, ModAdd
  <2> QED BY <1>5, <1>9, <1>10, <2>4 DEF EntryOf, Cap
<1>12. \A h \in DOMAIN headers : headers'[h].index = headers[h].index
  BY <1>1, <1>5, <1>7
<1> QED BY <1>5, <1>7, <1>8, <1>9, <1>10, <1>11, <1>12 DEF S

\* The counts, where the producer is at work and changes none of them.
LEMMA CountsAtWork ==
  ASSUME IInv, ~At("idle"), UNCHANGED <<shared, consumer, pushed, taken, claims>>
  PROVE  CountType' /\ CountInv' /\ SeenInv' /\ ConsumerType' /\ ClaimInv' /\ WorkInv'
<1>1. CountType'
  BY DEF IInv, CountType, shared
<1>2. pushed' \in Nat /\ pushed' >= pushed /\ dequeueOvercommit' = dequeueOvercommit
  BY DEF IInv, CountType, shared
<1> QED BY <1>1, <1>2, ProducerMoves

\* A new entry, and one whose block is gone, have no block.
LEMMA UsableIs ==
  ASSUME IInv, NEW e \in DOMAIN entries, Usable(e)
  PROVE  entries[e].value = NoBlock
<1> SUFFICES ASSUME entries[e].value # NoBlock PROVE FALSE
  OBVIOUS
<1>1. PICK p \in 0..(Filled - 1) : entries[e].key = BlockSize * p
  BY DEF IInv, IndexInv, OccupiedInv
<1>2. BlockSize * p = 1
  BY <1>1 DEF Usable, INVALID_BLOCK_BASE
<1>3. p \in Nat /\ BlockSize \in Nat /\ BlockSize >= 2
  BY BlockFacts
<1>4. p # 0
  BY <1>2, <1>3
<1>5. BlockSize * p >= BlockSize
  BY <1>3, <1>4
<1> QED BY <1>2, <1>3, <1>5

LEMMA NextEntryIs ==
  ASSUME IInv, At("insert")
  PROVE  blockIndex.index[NextTail(blockIndex)] = EntryOf(Filled)
<1>1. Shown = Filled /\ Filled \in Nat
  BY PlacingIs DEF At
<1>2. blockIndex.tail \in Int
  BY LastIs DEF IInv, IndexInv
<1>3. blockIndex.tail + Filled + 1 - Shown = blockIndex.tail + 1
  BY <1>1, <1>2
<1> QED BY <1>3 DEF EntryOf, NextTail

LEMMA InsertEntryStep ==
  ASSUME IInv, InsertEntry
  PROVE  IInv'
<1> DEFINE e == EntryOf(Filled)
<1>1. At("insert") /\ UNCHANGED <<shared, memory, headers, consumer, pushed, taken, claims>>
  BY DEF InsertEntry
<1>2. blockIndex.index[NextTail(blockIndex)] = e
  BY <1>1, NextEntryIs
<1>3. /\ Usable(e) /\ entries' = [entries EXCEPT ![e].key = tailIndex]
      /\ producer' = [producer EXCEPT !.pc = "publish", !.entry = e]
  BY <1>2 DEF InsertEntry
<1>4. /\ pushed \in Nat /\ pushed % BlockSize = 0 /\ Filled \in Nat /\ pushed = BlockSize * Filled
      /\ Shown = Filled /\ tailIndex = pushed /\ \A p \in Int : EntryOf(p) \in DOMAIN entries
  BY <1>1, PlacingIs DEF At
<1>5. e \in DOMAIN entries /\ entries[e].value = NoBlock
  BY <1>3, <1>4, UsableIs
<1>6. \A x : At(x) <=> x = "insert"
  BY <1>1 DEF At
<1>7. entries \in [0..(Cap - 1) -> [key : Nat, value : 0..blocks]]
  BY DEF IInv, IndexInv, IndexType, Cap
<1>8. e \in Nat
  BY <1>5, <1>7
<1>9. /\ producer' = [pc |-> "publish", entry |-> e, block |-> producer.block]
      /\ producer.block \in 0..blocks /\ \A x : At(x)' <=> x = "publish"
  <2>1. producer = [pc |-> producer.pc, entry |-> producer.entry, block |-> producer.block]
        /\ producer.block \in 0..blocks
    BY DEF IInv, IndexInv, ProducerType
  <2>2. producer' = [pc |-> "publish", entry |-> e, block |-> producer.block]
    BY <1>3, <2>1
  <2> QED BY <2>1, <2>2 DEF At
<1>10. /\ DOMAIN entries' = DOMAIN entries
       /\ entries'[e] = [key |-> BlockSize * Filled, value |-> NoBlock]
       /\ \A x \in DOMAIN entries : x # e => entries'[x] = entries[x]
       /\ entries' \in [0..(Cap - 1) -> [key : Nat, value : 0..blocks]]
  <2>1. PICK k \in Nat : k = tailIndex /\ k = BlockSize * Filled
    BY <1>4
  <2>2. entries' = [entries EXCEPT ![e].key = k]
    BY <1>3, <2>1
  <2>3. e \in 0..(Cap - 1)
    BY <1>5, <1>7
  <2> HIDE DEF e
  <2>4. entries[e] \in [key : Nat, value : 0..blocks]
    BY <1>7, <2>3
  <2>5. [entries[e] EXCEPT !.key = k] = [key |-> k, value |-> NoBlock]
    BY <1>5, <2>4
  <2>6. [key |-> k, value |-> NoBlock] \in [key : Nat, value : 0..blocks]
    BY <1>5, <2>4
  <2> QED BY <1>7, <2>1, <2>2, <2>3, <2>5, <2>6
<1>11. \A x \in DOMAIN entries : entries'[x].value = entries[x].value
  BY <1>5, <1>10
<1> HIDE DEF e
<1>12. Filled' = Filled /\ Shown' = Shown
  <2>1. Filled' = Filled
    BY <1>1, <1>6, <1>9 DEF Filled
  <2> QED BY <1>6, <1>9, <2>1 DEF Shown
<1>13. blockIndex' = blockIndex
  BY <1>1 DEF blockIndex
<1>14. Cap' = Cap /\ \A p : EntryOf(p)' = EntryOf(p)
  BY <1>12, <1>13 DEF EntryOf, Capacity, Cap
<1>15. Open' = Open
  BY <1>1, <1>12, OpenSame
<1>16. UNCHANGED <<slots, emptied, blocks, freeList>>
  BY <1>1 DEF memory
<1>17. CountType' /\ CountInv' /\ SeenInv' /\ ConsumerType' /\ ClaimInv' /\ WorkInv'
  <2>1. ~At("idle")
    BY <1>6
  <2> QED BY <1>1, <2>1, CountsAtWork
<1>18. MemoryType' /\ IndexType'
  BY <1>1, <1>10, <1>13, <1>14, <1>16 DEF IInv, IndexInv, MemoryType, IndexType, Cap, blockIndex
<1>19. ProducerType'
  BY <1>8, <1>9, <1>16 DEF ProducerType
<1>20. /\ \A p \in Nat : p < Filled /\ p >= Shown - Cap /\ entries[EntryOf(p)].value # NoBlock
                             => p >= Filled + 1 - Cap
       /\ \A i \in Open : Number(i) >= Filled + 1 - Cap
       /\ \A i \in Open : \A p \in Number(i)..(Filled - 1) : EntryOf(p) # e
  BY <1>1, <1>5, NextIsFree DEF e
<1>21. KeyInv' /\ BlockInv'
  <2>1. \A i \in Open : Number(i) >= Shown' - Cap'
    BY <1>12, <1>14 DEF IInv, IndexInv, KeyInv, Cap
  <2>2. \A i \in Open : \A p \in Number(i)..(Filled - 1) :
            EntryOf(p)' = EntryOf(p) /\ entries'[EntryOf(p)] = entries[EntryOf(p)]
    <3> SUFFICES ASSUME NEW i \in Open, NEW p \in Number(i)..(Filled - 1)
                 PROVE  entries'[EntryOf(p)] = entries[EntryOf(p)]
      BY <1>14
    <3>1. Number(i) \in Nat
      BY OpenIs DEF IInv
    <3>2. p \in Int /\ EntryOf(p) \in DOMAIN entries
      BY <1>4, <3>1
    <3> QED BY <1>10, <1>20, <3>2
  <2> QED BY <1>1, <1>12, <1>16, <2>1, <2>2, EntriesStay
<1>22. OccupiedInv' /\ PlacesInv'
  <2>1. ~At("install") /\ ~At("install")'
    BY <1>6, <1>9
  <2>2. \A x \in DOMAIN entries' : entries'[x].value # NoBlock => x \in DOMAIN entries /\ entries'[x] = entries[x]
    BY <1>10
  <2>3. OccupiedInv'
    BY <1>1, <1>10, <1>11, <1>12, <1>14, <1>16, <2>2, OccupiedStays
  <2> QED BY <1>1, <1>10, <1>11, <1>16, <2>1, <2>3, PlacesStay
<1>23. Announced'
  BY <1>10, <1>12, <1>14 DEF Announced, e
<1>24. ProducerInv'
  <2>1. \A i \in Open : Number(i) = Filled - 1 => producer.block = entries'[EntryOf(Filled - 1)].value
    <3>1. \A i \in Open : Number(i) = Filled - 1 => producer.block = entries[EntryOf(Filled - 1)].value
      BY <1>6 DEF IInv, IndexInv, ProducerInv
    <3>2. EntryOf(Filled - 1) \in DOMAIN entries
      BY <1>4
    <3> QED BY <1>11, <3>1, <3>2
  <2> QED BY <1>1, <1>4, <1>9, <1>12, <1>14, <1>15, <1>23, <2>1 DEF ProducerInv, e
<1>25. IndexInv'
  BY <1>18, <1>19, <1>21, <1>22, <1>24 DEF IndexInv
<1>26. ConsumerInv'
  <2>1. \A i \in Open : entries'[EntryOf(Number(i))].value = entries[EntryOf(Number(i))].value
    BY <1>11, OpenIs DEF IInv
  <2>2. EntriesKept /\ TailsKept
    BY <1>1, <1>14, <1>23, <2>1 DEF EntriesKept, TailsKept
  <2>3. pushed' \in Nat /\ pushed' >= pushed /\ Filled' \in Nat /\ Filled <= Filled'
    BY <1>1, <1>4, <1>12
  <2> QED BY <1>1, <1>17, <1>25, <2>2, <2>3, PlacesKept
<1> QED BY <1>17, <1>25, <1>26 DEF IInv

\* A step that moves the tail of the newest index by d.
LEMMA TailStep ==
  ASSUME IInv, NEW s \in {"idle", "requisition"}, NEW d \in Int, Shown' = Shown + d, Filled' = Filled,
         At("publish") \/ At("requisition"), Goto(s),
         s = "idle" => pushed < MaxElements,
         headers' = [headers EXCEPT ![Len(headers)].tail = (blockIndex.tail + d) % Cap],
         UNCHANGED <<shared, memory, entries, consumer, pushed, taken, claims>>
  PROVE  IInv'
<1>1. /\ DOMAIN headers' = DOMAIN headers /\ Len(headers') = Len(headers)
      /\ \A h \in DOMAIN headers : headers'[h].index = headers[h].index
      /\ \A h \in DOMAIN headers : h # Len(headers) => headers'[h].tail = headers[h].tail
      /\ headers' \in Seq(UNION {HeadersOf(n) : n \in Sizes}) /\ headers' # <<>>
      /\ blockIndex'.index = blockIndex.index /\ Cap' = Cap
      /\ \A p \in Int : EntryOf(p)' = EntryOf(p)
  BY TailMoves
<1>2. /\ pushed \in Nat /\ pushed % BlockSize = 0 /\ Filled \in Nat
      /\ Shown \in {Filled, Filled + 1} /\ \A p \in Int : EntryOf(p) \in DOMAIN entries
      /\ producer.entry = EntryOf(Filled) /\ Announced
  BY PlacingIs DEF At
<1>3. /\ \A x : At(x)' <=> x = s
      /\ producer'.entry = producer.entry /\ producer'.block = producer.block
      /\ producer' = [pc |-> s, entry |-> producer.entry, block |-> producer.block]
      /\ producer.entry \in Nat /\ producer.block \in 0..blocks
  BY GoesTo
<1>4. ~At("idle") /\ ~At("install") /\ ~At("insert")
  BY DEF At
<1>5. UNCHANGED <<slots, emptied, blocks, freeList>>
  BY DEF memory
<1>6. CountType' /\ CountInv' /\ SeenInv' /\ ConsumerType' /\ ClaimInv' /\ WorkInv'
  BY <1>4, CountsAtWork
<1>7. MemoryType' /\ ProducerType'
  BY <1>3, <1>5 DEF IInv, IndexInv, MemoryType, ProducerType
<1>8. IndexType'
  BY <1>1, <1>5 DEF IInv, IndexInv, IndexType, Cap
<1>9. Open' = Open
  BY OpenSame
<1>10. entries[EntryOf(Filled)].value = NoBlock
  BY <1>2 DEF Announced
<1>11. /\ \A p \in Nat : p < Filled /\ p >= Shown - Cap /\ entries[EntryOf(p)].value # NoBlock
                             => p >= Filled + 1 - Cap
       /\ \A i \in Open : Number(i) >= Filled + 1 - Cap
  BY <1>10, NextIsFree
<1>12. Shown' \in {Filled, Filled + 1} /\ Cap \in Nat
  <2>1. Shown' = IF s = "requisition" THEN Filled + 1 ELSE Filled
    BY <1>3 DEF Shown
  <2> QED BY <2>1, LastIs DEF IInv, IndexInv
<1>13. \A i \in Open : Number(i) \in Nat /\ Number(i) < Filled
  BY OpenIs DEF IInv
<1>14. KeyInv' /\ BlockInv'
  <2>1. \A i \in Open : Number(i) >= Shown' - Cap'
    <3> SUFFICES ASSUME NEW i \in Open PROVE Number(i) >= Shown' - Cap
      BY <1>1
    <3>1. Number(i) >= Filled + 1 - Cap /\ Number(i) \in Nat
      BY <1>11, <1>13
    <3> QED BY <1>2, <1>12, <3>1
  <2>2. \A i \in Open : \A p \in Number(i)..(Filled - 1) : EntryOf(p)' = EntryOf(p)
    <3> SUFFICES ASSUME NEW i \in Open, NEW p \in Number(i)..(Filled - 1) PROVE EntryOf(p)' = EntryOf(p)
      OBVIOUS
    <3>1. p \in Int
      BY <1>13
    <3> QED BY <1>1, <3>1
  <2> QED BY <1>5, <2>1, <2>2, EntriesStay
<1>15. OccupiedInv' /\ PlacesInv'
  <2>1. ASSUME NEW p \in 0..(Filled - 1), entries[EntryOf(p)].value # NoBlock, p >= Shown - Cap
        PROVE  EntryOf(p)' = EntryOf(p) /\ p >= Shown' - Cap'
    <3>1. p \in Nat /\ p < Filled
      BY <1>2
    <3>2. p >= Filled + 1 - Cap
      BY <1>11, <2>1, <3>1
    <3>3. p >= Shown' - Cap
      BY <1>2, <1>12, <3>1, <3>2
    <3> QED BY <1>1, <3>1, <3>3
  <2>2. OccupiedInv'
    BY <1>5, <2>1, OccupiedStays
  <2>3. ~At("install")'
    BY <1>3
  <2> QED BY <1>4, <1>5, <2>2, <2>3, PlacesStay
<1>16. EntryOf(Filled)' = EntryOf(Filled) /\ EntryOf(Filled - 1)' = EntryOf(Filled - 1) /\ Announced'
  BY <1>1, <1>2 DEF Announced
<1>17. ProducerInv'
  <2>1. \A i \in Open : Number(i) = Filled - 1 => producer.block = entries[EntryOf(Filled - 1)].value
    BY <1>4 DEF IInv, IndexInv, ProducerInv
  <2> QED BY <1>2, <1>3, <1>9, <1>16, <2>1 DEF ProducerInv
<1>18. IndexInv'
  BY <1>7, <1>8, <1>14, <1>15, <1>17 DEF IndexInv
<1>19. ConsumerInv'
  <2>1. EntriesKept
    <3>1. \A i \in Open : \A p \in Number(i)..Filled : EntryOf(p)' = EntryOf(p)
      <4> SUFFICES ASSUME NEW i \in Open, NEW p \in Number(i)..Filled PROVE EntryOf(p)' = EntryOf(p)
        OBVIOUS
      <4>1. p \in Int
        BY <1>13
      <4> QED BY <1>1, <4>1
    <3> QED BY <1>1, <1>16, <3>1 DEF EntriesKept
  <2>2. TailsKept
    BY <1>1 DEF TailsKept
  <2>3. pushed' \in Nat /\ pushed' >= pushed /\ Filled' \in Nat /\ Filled <= Filled'
    BY <1>2
  <2> QED BY <1>6, <1>18, <2>1, <2>2, <2>3, PlacesKept
<1> QED BY <1>6, <1>18, <1>19 DEF IInv

LEMMA PublishEntryStep ==
  ASSUME IInv, PublishEntry
  PROVE  IInv'
<1>1. /\ At("publish") /\ Goto("requisition")
      /\ UNCHANGED <<shared, memory, entries, consumer, pushed, taken, claims>>
  BY DEF PublishEntry
<1>2. headers' = [headers EXCEPT ![Len(headers)].tail = (blockIndex.tail + 1) % Cap]
  BY DEF PublishEntry, NextTail, Cap
<1>3. \A x : (At(x)' <=> x = "requisition") /\ (At(x) <=> x = "publish")
  BY <1>1, GoesTo DEF At
<1>4. Filled' = Filled
  BY <1>1, <1>3 DEF Filled
<1>5. Shown = Filled /\ Filled \in Nat
  BY <1>1, <1>3, PlacingIs
<1>6. Shown' = Shown + 1
  BY <1>3, <1>4, <1>5 DEF Shown
<1>7. CountType'
  BY <1>1, <1>3 DEF IInv, CountType, shared
<1>8. PICK d \in Int : d = 1
  OBVIOUS
<1>9. headers' = [headers EXCEPT ![Len(headers)].tail = (blockIndex.tail + d) % Cap] /\ Shown' = Shown + d
  BY <1>2, <1>6, <1>8
<1>10. PICK s \in {"idle", "requisition"} : s = "requisition"
  OBVIOUS
<1>11. Goto(s) /\ s # "idle"
  BY <1>1, <1>10
<1> QED BY <1>1, <1>4, <1>9, <1>11, TailStep

LEMMA GetNoBlockStep ==
  ASSUME IInv, GetNoBlock
  PROVE  IInv'
<1>1. /\ At("requisition") /\ Goto("idle")
      /\ UNCHANGED <<shared, memory, consumer, pushed, taken, claims>>
      /\ entries' = [entries EXCEPT ![producer.entry].value = NoBlock]
  BY DEF GetNoBlock
<1>2. \A x : (At(x)' <=> x = "idle") /\ (At(x) <=> x = "requisition")
  BY <1>1, GoesTo DEF At
<1>3. /\ producer.entry = EntryOf(Filled) /\ Announced /\ Shown = Filled + 1 /\ Filled \in Nat
      /\ EntryOf(Filled) \in DOMAIN entries
  <2>1. /\ producer.entry = EntryOf(Filled) /\ Announced /\ Shown = Filled + 1 /\ Filled \in Nat
        /\ \A p \in Int : EntryOf(p) \in DOMAIN entries
    <3>1. ~At("insert")
      BY <1>2
    <3> QED BY <1>1, <3>1, PlacingIs
  <2>2. Filled \in Int
    BY <2>1
  <2> QED BY <2>1, <2>2
<1>4. entries' = entries
  <2>1. entries[producer.entry].value = NoBlock /\ producer.entry \in DOMAIN entries
    BY <1>3 DEF Announced
  <2>2. entries \in [0..(Cap - 1) -> [key : Nat, value : 0..blocks]]
    BY DEF IInv, IndexInv, IndexType, Cap
  <2>3. [entries[producer.entry] EXCEPT !.value = NoBlock] = entries[producer.entry]
    BY <2>1, <2>2
  <2> QED BY <1>1, <2>1, <2>2, <2>3
<1>5. Len(headers) \in DOMAIN headers /\ blockIndex = headers[Len(headers)] /\ blockIndex.tail \in Int
  BY LastIs DEF IInv, IndexInv
<1>6. headers' = [headers EXCEPT ![Len(headers)].tail = (blockIndex.tail + (-1)) % Cap]
  <2>1. headers' = [headers EXCEPT ![Len(headers)].tail = (blockIndex.tail - 1) % Cap]
    BY <1>5 DEF GetNoBlock, Cap
  <2>2. blockIndex.tail - 1 = blockIndex.tail + (-1)
    BY <1>5
  <2> QED BY <2>1, <2>2
<1>7. Filled' = Filled
  BY <1>1, <1>2 DEF Filled
<1>8. Shown' = Shown + (-1)
  <2>1. Shown' = Filled
    BY <1>2, <1>7 DEF Shown
  <2> QED BY <1>3, <2>1
<1>9. pushed < MaxElements
  BY <1>2 DEF IInv, CountType
<1>10. PICK d \in Int : d = -1
  OBVIOUS
<1>11. headers' = [headers EXCEPT ![Len(headers)].tail = (blockIndex.tail + d) % Cap] /\ Shown' = Shown + d
  BY <1>6, <1>8, <1>10
<1>12. PICK s \in {"idle", "requisition"} : s = "idle"
  OBVIOUS
<1>13. Goto(s)
  BY <1>1, <1>12
<1> QED BY <1>1, <1>4, <1>7, <1>9, <1>11, <1>13, TailStep

LEMMA Requisitioned ==
  ASSUME IInv, NEW b \in Blocks, Requisition(b)
  PROVE  /\ b \in (1..blocks') \ freeList' /\ blocks' \in 0..MaxBlocks /\ blocks \in Nat /\ blocks <= blocks'
         /\ freeList' \subseteq freeList /\ freeList' \subseteq 1..blocks'
         /\ b \notin (1..blocks) \ freeList
         /\ \A x \in 1..blocks' : x \in 1..blocks \/ x = b
         /\ \A x \in freeList : x \in freeList' \/ x = b
<1>1. blocks \in 0..MaxBlocks /\ freeList \subseteq 1..blocks /\ MaxBlocks \in Nat
  BY SizesAssumption DEF IInv, IndexInv, MemoryType
<1>2. b \in 1..MaxBlocks
  BY DEF Blocks
<1>3. CASE b = blocks + 1 /\ blocks' = b /\ freeList' = freeList
  <2>1. b \notin 1..blocks /\ \A x \in 1..blocks' : x \in 1..blocks \/ x = b
    BY <1>1, <1>2, <1>3
  <2>2. freeList \subseteq 1..blocks'
    BY <1>1, <1>3
  <2>3. blocks' \in 0..MaxBlocks /\ blocks <= blocks' /\ b \in 1..blocks'
    BY <1>1, <1>2, <1>3
  <2> QED BY <1>1, <1>3, <2>1, <2>2, <2>3
<1>4. CASE b \in freeList /\ freeList' = freeList \ {b} /\ blocks' = blocks
  BY <1>1, <1>4
<1> QED BY <1>3, <1>4 DEF Requisition

LEMMA GetBlockStep ==
  ASSUME IInv, GetBlock
  PROVE  IInv'
<1>1. PICK b \in Blocks : /\ Requisition(b) /\ emptied' = [emptied EXCEPT ![b] = 0]
                          /\ producer' = [producer EXCEPT !.pc = "install", !.block = b]
  BY DEF GetBlock
<1>2. At("requisition") /\ UNCHANGED <<shared, slots, entries, headers, consumer, pushed, taken, claims>>
  BY DEF GetBlock, index
<1>3. /\ b \in (1..blocks') \ freeList' /\ blocks' \in 0..MaxBlocks /\ blocks \in Nat /\ blocks <= blocks'
      /\ freeList' \subseteq freeList /\ freeList' \subseteq 1..blocks'
      /\ b \notin (1..blocks) \ freeList
      /\ \A x \in 1..blocks' : x \in 1..blocks \/ x = b
      /\ \A x \in freeList : x \in freeList' \/ x = b
  BY <1>1, Requisitioned
<1>4. /\ pushed \in Nat /\ pushed % BlockSize = 0 /\ Filled \in Nat /\ Shown = Filled + 1
      /\ producer.entry = EntryOf(Filled) /\ Announced
  <2>1. ~At("insert")
    BY <1>2 DEF At
  <2> QED BY <1>2, <2>1, PlacingIs
<1>5. \A x : At(x) <=> x = "requisition"
  BY <1>2 DEF At
<1>6. /\ producer' = [pc |-> "install", entry |-> producer.entry, block |-> b]
      /\ producer.entry \in Nat /\ \A x : At(x)' <=> x = "install"
  <2>1. producer = [pc |-> producer.pc, entry |-> producer.entry, block |-> producer.block]
        /\ producer.entry \in Nat
    BY DEF IInv, IndexInv, ProducerType
  <2>2. producer' = [pc |-> "install", entry |-> producer.entry, block |-> b]
    BY <1>1, <2>1
  <2> QED BY <2>1, <2>2 DEF At
<1>7. Filled' = Filled /\ Shown' = Shown
  <2>1. Filled' = Filled
    BY <1>2, <1>5, <1>6 DEF Filled
  <2> QED BY <1>5, <1>6, <2>1 DEF Shown
<1>8. blockIndex' = blockIndex
  BY <1>2 DEF blockIndex
<1>9. Cap' = Cap /\ \A p : EntryOf(p)' = EntryOf(p)
  BY <1>7, <1>8 DEF EntryOf, Capacity, Cap
<1>10. Open' = Open
  BY <1>2, <1>7, OpenSame
<1>11. CountType' /\ CountInv' /\ SeenInv' /\ ConsumerType' /\ ClaimInv' /\ WorkInv'
  <2>1. ~At("idle")
    BY <1>5
  <2> QED BY <1>2, <2>1, CountsAtWork
<1>12. emptied \in [Blocks -> Nat] /\ emptied' \in [Blocks -> Nat] /\ emptied'[b] = 0
       /\ \A x \in Blocks : x # b => emptied'[x] = emptied[x]
  BY <1>1 DEF IInv, IndexInv, MemoryType
<1>13. MemoryType'
  BY <1>2, <1>3, <1>12 DEF IInv, IndexInv, MemoryType
<1>14. IndexType'
  <2>1. 0..blocks \subseteq 0..blocks'
    BY <1>3
  <2>2. entries \in [0..(Cap - 1) -> [key : Nat, value : 0..blocks]]
    BY DEF IInv, IndexInv, IndexType, Cap
  <2>3. entries' \in [0..(Cap' - 1) -> [key : Nat, value : 0..blocks']]
    <3>1. \A e \in 0..(Cap - 1) : entries[e] \in [key : Nat, value : 0..blocks']
      BY <2>1, <2>2
    <3> QED BY <1>2, <1>9, <2>2, <3>1
  <2> QED BY <1>2, <1>8, <2>3 DEF IInv, IndexInv, IndexType, Cap, blockIndex
<1>15. ProducerType'
  <2>1. b \in 0..blocks'
    BY <1>3
  <2> QED BY <1>6, <2>1 DEF ProducerType
<1>16. \A e \in DOMAIN entries : entries[e].value \in 0..blocks /\ entries[e].value \notin freeList /\ entries[e].value # b
  <2> SUFFICES ASSUME NEW e \in DOMAIN entries
               PROVE  entries[e].value \in 0..blocks /\ entries[e].value \notin freeList /\ entries[e].value # b
    OBVIOUS
  <2>1. entries[e].value \in 0..blocks
    BY DEF IInv, IndexInv, IndexType
  <2>2. entries[e].value \notin freeList
    BY DEF IInv, IndexInv, PlacesInv
  <2>3. b >= 1
    BY <1>3
  <2> QED BY <1>3, <2>1, <2>2, <2>3
<1>17. \A c \in Releasing : consumer[c].block \in (1..blocks) \ freeList /\ consumer[c].block # b
  BY <1>3 DEF IInv, IndexInv, PlacesInv
<1>18. \A e \in DOMAIN entries : entries[e].value # NoBlock => emptied'[entries[e].value] = emptied[entries[e].value]
  <2> SUFFICES ASSUME NEW e \in DOMAIN entries, entries[e].value # NoBlock
               PROVE  emptied'[entries[e].value] = emptied[entries[e].value]
    OBVIOUS
  <2>1. entries[e].value \in 0..blocks /\ entries[e].value # b
    BY <1>16
  <2>2. blocks <= MaxBlocks /\ MaxBlocks \in Nat
    BY SizesAssumption DEF IInv, IndexInv, MemoryType
  <2>3. entries[e].value \in Blocks
    BY <1>3, <2>1, <2>2 DEF Blocks, NoBlock
  <2> QED BY <1>12, <2>1, <2>3
<1>19. KeyInv' /\ BlockInv'
  <2>1. \A i \in Open : Number(i) >= Shown' - Cap'
    BY <1>7, <1>9 DEF IInv, IndexInv, KeyInv, Cap
  <2>2. \A i \in Open : emptied'[entries[EntryOf(Number(i))].value] = emptied[entries[EntryOf(Number(i))].value]
    BY <1>18, OpenIs DEF IInv, IndexInv, BlockInv
  <2> QED BY <1>2, <1>7, <1>9, <2>1, <2>2, EntriesStay
<1>20. OccupiedInv'
  BY <1>2, <1>7, <1>9, <1>18, OccupiedStays
<1>21. PlacesInv'
  <2>1. Releasing' = Releasing
    BY <1>2 DEF Releasing, In
  <2>2. \A e, f \in DOMAIN entries : entries[e].value = entries[f].value /\ entries[e].value # NoBlock => e = f
    BY DEF IInv, IndexInv, PlacesInv
  <2>3. \A e \in DOMAIN entries : entries[e].value \notin freeList'
    BY <1>3, <1>16
  <2>4. ASSUME NEW c \in Releasing
        PROVE  /\ consumer[c].block \in (1..blocks') \ freeList'
               /\ \A e \in DOMAIN entries : entries[e].value # consumer[c].block
    <3>1. consumer[c].block \in (1..blocks) \ freeList
      BY <1>17
    <3>2. consumer[c].block \in (1..blocks') \ freeList'
      BY <1>3, <3>1
    <3> QED BY <3>2 DEF IInv, IndexInv, PlacesInv
  <2>5. \A c, d \in Releasing : consumer[c].block = consumer[d].block => c = d
    BY DEF IInv, IndexInv, PlacesInv
  <2>6. /\ producer'.block \in (1..blocks') \ freeList' /\ emptied'[producer'.block] = 0
        /\ \A e \in DOMAIN entries : entries[e].value # producer'.block
        /\ \A c \in Releasing : consumer[c].block # producer'.block
    BY <1>3, <1>6, <1>12, <1>16, <1>17
  <2>7. ASSUME NEW x \in 1..blocks'
        PROVE  \/ x \in freeList'
               \/ \E e \in DOMAIN entries : entries[e].value = x
               \/ \E c \in Releasing : consumer[c].block = x
               \/ producer'.block = x
    <3>1. CASE x = b
      BY <1>6, <3>1
    <3>2. CASE x # b
      <4>1. x \in 1..blocks
        BY <1>3, <3>2
      <4>2. \/ x \in freeList
            \/ \E e \in DOMAIN entries : entries[e].value = x
            \/ \E c \in Releasing : consumer[c].block = x
        BY <1>5, <4>1 DEF IInv, IndexInv, PlacesInv
      <4> QED BY <1>3, <3>2, <4>2
    <3> QED BY <3>1, <3>2
  <2>8. At("install")'
    BY <1>6
  <2> QED BY <1>2, <2>1, <2>2, <2>3, <2>4, <2>5, <2>6, <2>7, <2>8 DEF PlacesInv
<1>22. Announced'
  BY <1>2, <1>4, <1>7, <1>9 DEF Announced
<1>23. ProducerInv'
  BY <1>2, <1>4, <1>6, <1>7, <1>9, <1>22 DEF ProducerInv
<1>24. IndexInv'
  BY <1>13, <1>14, <1>15, <1>19, <1>20, <1>21, <1>23 DEF IndexInv
<1>25. ConsumerInv'
  <2>1. EntriesKept /\ TailsKept
    BY <1>2, <1>9, <1>22 DEF EntriesKept, TailsKept
  <2>2. pushed' \in Nat /\ pushed' >= pushed /\ Filled' \in Nat /\ Filled <= Filled'
    BY <1>2, <1>4, <1>7
  <2> QED BY <1>2, <1>11, <1>24, <2>1, <2>2, PlacesKept
<1> QED BY <1>11, <1>24, <1>25 DEF IInv

\* The indices of a block that has just been installed are all open.
LEMMA InstalledOpens ==
  ASSUME IInv, UNCHANGED <<consumer, taken>>, Filled' = Filled + 1, Filled \in Nat,
         pushed = BlockSize * Filled
  PROVE  /\ \A i \in Open' : i \in Open \/ (i \in Nat /\ i >= pushed /\ Number(i) = Filled)
         /\ \A p \in Nat : p < Filled => OpenIn(p)' = OpenIn(p)
         /\ Open \subseteq Open'
         /\ \A q : q = Filled => OpenIn(q)' # {} /\ Cardinality(OpenIn(q)') = BlockSize
<1>1. PICK f \in Nat, B \in Nat \ {0}, g \in Nat : f = pushed /\ B = BlockSize /\ g = BlockSize * (Filled + 1) /\ g = f + B
  BY BlockFacts, TakenIs
<1>2. \A c \in Consumers : Work(c)' = Work(c)
  BY DEF Work
<1>3. Open = {i \in 0..(f - 1) : i >= taken \/ \E c \in Consumers : i \in Work(c)}
  BY <1>1 DEF Open
<1>4. Open' = {i \in 0..(g - 1) : i >= taken \/ \E c \in Consumers : i \in Work(c)}
  BY <1>1, <1>2 DEF Open
<1>5. taken \in Nat /\ taken <= f
  BY <1>1, TakenIs
<1>6. Open' = Open \cup (f..(f + B - 1))
  BY <1>1, <1>3, <1>4, <1>5
<1>7. ASSUME NEW i \in f..(f + B - 1) PROVE i \in Nat /\ i >= pushed /\ Number(i) = Filled
  <2>1. i \in Nat /\ BlockSize * Filled <= i /\ i < BlockSize * Filled + BlockSize
    BY <1>1
  <2>2. Number(i) = Filled
    BY <2>1, NumberLess
  <2> QED BY <1>1, <2>1, <2>2
<1>8. ASSUME NEW i \in Open PROVE Number(i) < Filled
  BY OpenIs DEF IInv
<1>9. ASSUME NEW p \in Nat, p < Filled PROVE OpenIn(p)' = OpenIn(p)
  <2>1. {i \in Open' : Number(i) = p} = {i \in Open : Number(i) = p}
    BY <1>6, <1>7, <1>9
  <2> QED BY <2>1 DEF OpenIn
<1>11. {i \in Open' : Number(i) = Filled} = f..(f + B - 1)
  <2>1. \A i \in Open : Number(i) # Filled
    BY <1>8
  <2> QED BY <1>6, <1>7, <2>1
<1>12. ASSUME NEW q, q = Filled PROVE OpenIn(q)' = f..(f + B - 1)
  BY <1>11, <1>12 DEF OpenIn
<1>13. Cardinality(f..(f + B - 1)) = B
  BY <1>1, FS_Interval
<1>14. f \in f..(f + B - 1)
  BY <1>1
<1>15. \A q : q = Filled => OpenIn(q)' # {} /\ Cardinality(OpenIn(q)') = BlockSize
  BY <1>1, <1>12, <1>13, <1>14
<1>16. /\ \A i \in Open' : i \in Open \/ (i \in Nat /\ i >= pushed /\ Number(i) = Filled)
       /\ Open \subseteq Open'
  BY <1>6, <1>7
<1> QED BY <1>9, <1>15, <1>16

LEMMA InstallBlockStep ==
  ASSUME IInv, InstallBlock
  PROVE  IInv'
<1>1. PICK e, b : e = EntryOf(Filled) /\ b = producer.block
  OBVIOUS
<1>2. At("install") /\ Goto("write") /\ UNCHANGED <<shared, memory, headers, consumer, pushed, taken, claims>>
  BY DEF InstallBlock
<1>3. \A x : (At(x)' <=> x = "write") /\ (At(x) <=> x = "install")
  BY <1>2, GoesTo DEF At
<1>4. /\ pushed \in Nat /\ taken \in Nat /\ taken <= pushed /\ pushed % BlockSize = 0
      /\ Filled = Number(pushed) /\ Filled \in Nat /\ pushed = BlockSize * Filled
      /\ Shown = Filled + 1 /\ \A p \in Int : EntryOf(p) \in DOMAIN entries
      /\ producer.entry = e /\ Announced
  <2>1. ~At("insert")
    BY <1>3
  <2> QED BY <1>1, <1>2, <2>1, PlacingIs
<1>plain. Filled \in Nat /\ Shown = Filled + 1
  BY <1>4
<1>5. entries' = [entries EXCEPT ![e].value = b]
  BY <1>1, <1>4 DEF InstallBlock
<1>6. /\ producer' = [pc |-> "write", entry |-> producer.entry, block |-> b]
      /\ producer.entry \in Nat /\ b \in 0..blocks /\ producer'.block = b
  BY <1>1, <1>2, GoesTo
<1>7. /\ b \in (1..blocks) \ freeList /\ emptied[b] = 0
      /\ \A x \in DOMAIN entries : entries[x].value # b
      /\ \A c \in Releasing : consumer[c].block # b
  BY <1>1, <1>2 DEF IInv, IndexInv, PlacesInv
<1>8. e \in DOMAIN entries /\ entries[e] = [key |-> BlockSize * Filled, value |-> NoBlock]
  BY <1>1, <1>4 DEF Announced
<1>9. entries \in [0..(Cap - 1) -> [key : Nat, value : 0..blocks]]
  BY DEF IInv, IndexInv, IndexType, Cap
<1>10. /\ DOMAIN entries' = DOMAIN entries
       /\ entries'[e].key = BlockSize * Filled /\ entries'[e].value = b
       /\ \A x \in DOMAIN entries : x # e => entries'[x] = entries[x]
       /\ entries' \in [0..(Cap - 1) -> [key : Nat, value : 0..blocks]]
  <2>1. PICK k \in Nat : k = entries[e].key /\ k = BlockSize * Filled
    BY <1>8, <1>9
  <2>2. [entries[e] EXCEPT !.value = b] = [key |-> k, value |-> b]
    BY <1>8, <1>9, <2>1
  <2>3. [key |-> k, value |-> b] \in [key : Nat, value : 0..blocks]
    BY <1>6
  <2> QED BY <1>5, <1>8, <1>9, <2>1, <2>2, <2>3
<1>11. UNCHANGED <<slots, emptied, blocks, freeList>>
  BY <1>2 DEF memory
<1>12. Filled' = Filled + 1 /\ Shown' = Shown
  <2>1. Filled' = Filled + 1
    BY <1>2, <1>3, <1>4 DEF Filled
  <2>2. Shown' = Filled'
    BY <1>3 DEF Shown
  <2> QED BY <1>plain, <2>1, <2>2
<1>13. blockIndex' = blockIndex
  BY <1>2 DEF blockIndex
<1>14. Cap' = Cap /\ \A p : EntryOf(p)' = EntryOf(p)
  BY <1>12, <1>13 DEF EntryOf, Capacity, Cap
<1>15. /\ \A i \in Open' : i \in Open \/ (i \in Nat /\ i >= pushed /\ Number(i) = Filled)
       /\ \A p \in Nat : p < Filled => OpenIn(p)' = OpenIn(p)
       /\ Open \subseteq Open'
       /\ \A q : q = Filled => OpenIn(q)' # {} /\ Cardinality(OpenIn(q)') = BlockSize
  BY <1>2, <1>4, <1>12, InstalledOpens
<1>16. CountType' /\ CountInv' /\ SeenInv' /\ ConsumerType' /\ ClaimInv' /\ WorkInv'
  <2>1. ~At("idle")
    BY <1>3
  <2> QED BY <1>2, <2>1, CountsAtWork
<1>17. MemoryType' /\ IndexType' /\ ProducerType'
  <2>1. MemoryType'
    BY <1>11 DEF IInv, IndexInv, MemoryType
  <2>2. IndexType'
    BY <1>2, <1>10, <1>11, <1>13, <1>14 DEF IInv, IndexInv, IndexType, Cap, blockIndex
  <2> QED BY <1>6, <1>11, <2>1, <2>2 DEF ProducerType
<1>18. Cap \in Nat \ {0}
  BY LastIs DEF IInv, IndexInv
<1>19. \A i \in Open : Number(i) \in Nat /\ Number(i) < Filled /\ EntryOf(Number(i)) \in DOMAIN entries
  BY OpenIs DEF IInv
<1>20. \A i \in Open : \A p \in Number(i)..(Filled - 1) : EntryOf(p) # e
  <2>1. entries[EntryOf(Filled)].value = NoBlock
    BY <1>1, <1>8
  <2> QED BY <1>1, <1>2, <2>1, NextIsFree
<1>21. \A i \in Open : EntryOf(Number(i)) # e /\ entries'[EntryOf(Number(i))] = entries[EntryOf(Number(i))]
  <2> SUFFICES ASSUME NEW i \in Open
               PROVE  EntryOf(Number(i)) # e /\ entries'[EntryOf(Number(i))] = entries[EntryOf(Number(i))]
    OBVIOUS
  <2>1. Number(i) \in Number(i)..(Filled - 1)
    BY <1>4, <1>19
  <2>2. EntryOf(Number(i)) # e
    BY <1>20, <2>1
  <2> QED BY <1>10, <1>19, <2>2
<1>22. KeyInv'
  <2> SUFFICES ASSUME NEW i \in Open'
               PROVE  /\ Number(i) >= Shown - Cap
                      /\ \A p \in Number(i)..Filled : entries'[EntryOf(p)].key = BlockSize * p
    <3>1. Filled' - 1 = Filled
      BY <1>plain, <1>12
    <3> QED BY <1>12, <1>14, <3>1 DEF KeyInv, Cap
  <2>1. entries'[EntryOf(Filled)].key = BlockSize * Filled
    BY <1>1, <1>10
  <2>2. CASE i \in Open
    <3>1. Number(i) >= Shown - Cap
      BY <2>2 DEF IInv, IndexInv, KeyInv, Cap
    <3>2. ASSUME NEW p \in Number(i)..Filled, p # Filled PROVE entries'[EntryOf(p)].key = BlockSize * p
      <4>1. p \in Number(i)..(Filled - 1) /\ p \in Int
        BY <1>4, <1>19, <2>2, <3>2
      <4>2. entries[EntryOf(p)].key = BlockSize * p
        BY <2>2, <4>1 DEF IInv, IndexInv, KeyInv
      <4>3. EntryOf(p) # e /\ EntryOf(p) \in DOMAIN entries
        BY <1>4, <1>20, <2>2, <4>1
      <4> QED BY <1>10, <4>2, <4>3
    <3> QED BY <2>1, <3>1, <3>2
  <2>3. CASE Number(i) = Filled
    <3>1. Number(i) >= Shown - Cap
      BY <1>plain, <1>18, <2>3
    <3>2. \A p \in Number(i)..Filled : p = Filled
      BY <1>plain, <2>3
    <3> QED BY <2>1, <3>1, <3>2
  <2> QED BY <1>15, <2>2, <2>3
<1>23. BlockInv'
  <2> SUFFICES ASSUME NEW i \in Open'
               PROVE  LET x == entries'[EntryOf(Number(i))].value
                      IN /\ x # NoBlock
                         /\ emptied[x] + Cardinality(OpenIn(Number(i))') = BlockSize
                         /\ i < pushed => slots[x][i % BlockSize] = i + 1
    BY <1>2, <1>11, <1>14 DEF BlockInv
  <2>1. CASE i \in Open
    <3>1. Number(i) \in Nat /\ Number(i) < Filled
      BY <1>19, <2>1
    <3>2. OpenIn(Number(i))' = OpenIn(Number(i))
      BY <1>15, <3>1
    <3>3. entries'[EntryOf(Number(i))] = entries[EntryOf(Number(i))]
      BY <1>21, <2>1
    <3> QED BY <2>1, <3>2, <3>3 DEF IInv, IndexInv, BlockInv
  <2>2. CASE i \in Nat /\ i >= pushed /\ Number(i) = Filled
    <3>1. Cardinality(OpenIn(Number(i))') = BlockSize
      BY <1>15, <2>2
    <3>2. entries'[EntryOf(Number(i))].value = b
      BY <1>1, <1>10, <2>2
    <3>3. ~(i < pushed)
      BY <1>4, <2>2
    <3>4. b # NoBlock /\ emptied[b] = 0
      BY <1>7 DEF NoBlock
    <3>5. 0 + BlockSize = BlockSize
      BY BlockFacts
    <3> QED BY <3>1, <3>2, <3>3, <3>4, <3>5
  <2> QED BY <1>15, <2>1, <2>2
<1>24. OccupiedInv'
  <2>1. \A x : Unlinking(x)' = Unlinking(x)
    BY <1>2 DEF Unlinking, In
  <2>2. ASSUME NEW x \in DOMAIN entries, entries'[x].value # NoBlock
        PROVE  \E p \in 0..Filled :
                /\ entries'[x].key = BlockSize * p /\ EntryOf(p) = x /\ p >= Shown - Cap
                /\ OpenIn(p)' # {} \/ Unlinking(x)
    <3>1. CASE x = e
      <4>1. Filled \in 0..Filled /\ Filled >= Shown - Cap
        BY <1>plain, <1>18
      <4>2. PICK q : q = Filled
        OBVIOUS
      <4>3. OpenIn(q)' # {}
        BY <1>15, <4>2
      <4>4. q \in 0..Filled /\ entries'[x].key = BlockSize * q /\ EntryOf(q) = x /\ q >= Shown - Cap
        BY <1>1, <1>10, <3>1, <4>1, <4>2
      <4> QED BY <4>3, <4>4
    <3>2. CASE x # e
      <4>1. entries'[x] = entries[x]
        BY <1>10, <3>2
      <4>2. PICK p \in 0..(Filled - 1) :
                /\ entries[x].key = BlockSize * p /\ EntryOf(p) = x /\ p >= Shown - Cap
                /\ OpenIn(p) # {} \/ Unlinking(x)
        BY <2>2, <4>1 DEF IInv, IndexInv, OccupiedInv, Cap
      <4>3. p \in 0..Filled /\ p \in Nat /\ p < Filled
        BY <1>4
      <4>4. OpenIn(p)' = OpenIn(p)
        BY <1>15, <4>3
      <4> QED BY <4>1, <4>2, <4>3, <4>4
    <3> QED BY <3>1, <3>2
  <2>3. ASSUME NEW c \in Consumers, In(c, "unlink")
        PROVE  /\ consumer[c].entry \in DOMAIN entries
               /\ consumer[c].block = entries'[consumer[c].entry].value
               /\ consumer[c].block # NoBlock
               /\ emptied[consumer[c].block] = BlockSize
    <3>1. /\ consumer[c].entry \in DOMAIN entries
          /\ consumer[c].block = entries[consumer[c].entry].value
          /\ consumer[c].block # NoBlock
          /\ emptied[consumer[c].block] = BlockSize
      BY <2>3 DEF IInv, IndexInv, OccupiedInv
    <3>2. consumer[c].entry # e
      BY <1>8, <3>1
    <3> QED BY <1>10, <3>1, <3>2
  <2>4. \A c, d \in Consumers : In(c, "unlink") /\ In(d, "unlink") /\ consumer[c].entry = consumer[d].entry => c = d
    BY DEF IInv, IndexInv, OccupiedInv
  <2>5. Filled' - 1 = Filled
    BY <1>plain, <1>12
  <2>6. \A c \in Consumers : In(c, "unlink")' = In(c, "unlink")
    BY <1>2 DEF In
  <2>7. \A p : OpenIn(p)' = OpenIn(p)'
    OBVIOUS
  <2> QED BY <1>2, <1>10, <1>11, <1>12, <1>14, <2>1, <2>2, <2>3, <2>4, <2>5, <2>6 DEF OccupiedInv, Cap
<1>25. PlacesInv'
  <2>1. Releasing' = Releasing
    BY <1>2 DEF Releasing, In
  <2>2. ~At("install")'
    BY <1>3
  <2>3. \A x, y \in DOMAIN entries : entries'[x].value = entries'[y].value /\ entries'[x].value # NoBlock => x = y
    BY <1>7, <1>10 DEF IInv, IndexInv, PlacesInv
  <2>4. \A x \in DOMAIN entries : entries'[x].value \notin freeList
    BY <1>7, <1>10 DEF IInv, IndexInv, PlacesInv
  <2>5. \A c \in Releasing : /\ consumer[c].block \in (1..blocks) \ freeList
                             /\ \A x \in DOMAIN entries : entries'[x].value # consumer[c].block
    <3> SUFFICES ASSUME NEW c \in Releasing
                 PROVE  /\ consumer[c].block \in (1..blocks) \ freeList
                        /\ \A x \in DOMAIN entries : entries'[x].value # consumer[c].block
      OBVIOUS
    <3>1. /\ consumer[c].block \in (1..blocks) \ freeList
          /\ \A x \in DOMAIN entries : entries[x].value # consumer[c].block
      BY DEF IInv, IndexInv, PlacesInv
    <3> QED BY <1>7, <1>10, <3>1
  <2>6. \A c, d \in Releasing : consumer[c].block = consumer[d].block => c = d
    BY DEF IInv, IndexInv, PlacesInv
  <2>7. ASSUME NEW x \in 1..blocks
        PROVE  \/ x \in freeList
               \/ \E y \in DOMAIN entries : entries'[y].value = x
               \/ \E c \in Releasing : consumer[c].block = x
    <3>1. \/ x \in freeList
          \/ \E y \in DOMAIN entries : entries[y].value = x
          \/ \E c \in Releasing : consumer[c].block = x
          \/ b = x
      BY <1>1 DEF IInv, IndexInv, PlacesInv
    <3>2. ASSUME NEW y \in DOMAIN entries, entries[y].value = x PROVE entries'[y].value = x
      <4>1. x # NoBlock
        BY DEF NoBlock
      <4>2. y # e
        BY <1>8, <3>2, <4>1
      <4> QED BY <1>10, <3>2, <4>2
    <3>3. b = x => entries'[e].value = x /\ e \in DOMAIN entries
      BY <1>8, <1>10
    <3> QED BY <3>1, <3>2, <3>3
  <2> QED BY <1>2, <1>10, <1>11, <2>1, <2>2, <2>3, <2>4, <2>5, <2>6, <2>7 DEF PlacesInv
<1>26. ProducerInv'
  <2>1. Filled' - 1 = Filled
    BY <1>plain, <1>12
  <2>2. b = entries'[EntryOf(Filled)].value /\ b # NoBlock
    BY <1>1, <1>7, <1>10 DEF NoBlock
  <2> QED BY <1>3, <1>6, <1>14, <2>1, <2>2 DEF ProducerInv
<1>27. IndexInv'
  BY <1>17, <1>22, <1>23, <1>24, <1>25, <1>26 DEF IndexInv
<1>28. ConsumerInv'
  <2>1. Filled' # Filled /\ Filled' \in Nat /\ Filled <= Filled'
    BY <1>plain, <1>12
  <2>2. EntriesKept /\ TailsKept
    BY <1>2, <1>14, <1>21, <2>1 DEF EntriesKept, TailsKept
  <2>3. pushed' \in Nat /\ pushed' >= pushed
    BY <1>2, <1>4
  <2> QED BY <1>2, <1>16, <1>27, <2>1, <2>2, <2>3, PlacesKept
<1> QED BY <1>16, <1>27, <1>28 DEF IInv

LEMMA DoubledSize ==
  ASSUME NEW n \in Sizes, 2 * n <= MaxIndex
  PROVE  2 * n \in Sizes
<1>1. PICK S \in Nat : S = Span \div BlockSize
  BY SizeFacts
<1>2. n \in Nat \ {0} /\ n \in Int /\ S % n = 0 /\ MaxIndex \in Nat /\ MaxIndex <= S
  <2>1. S % n = 0
    BY <1>1 DEF Sizes
  <2> QED BY <1>1, <2>1, SizeIs, SizeFacts
<1>3. n \in 1..(S \div 2)
  BY <1>1, <1>2
<1>4. S % (2 * n) = 0
  BY <1>1, <1>2, <1>3, SizesAssumption DEF PowerOfTwo
<1>5. 2 * n \in 1..S
  BY <1>1, <1>2
<1> QED BY <1>1, <1>4, <1>5 DEF Sizes

\* The index of twice the size has the old entries in its first half, from the oldest on.
LEMMA NewIndexIs ==
  ASSUME IInv, NewBlockIndex
  PROVE  \E n \in Nat \ {0} :
           /\ n = Cap /\ 2 * n \in Sizes
           /\ DOMAIN entries = 0..(n - 1) /\ DOMAIN entries' = 0..(2 * n - 1)
           /\ \A e \in 0..(n - 1) : entries'[e] = entries[e]
           /\ \A e \in n..(2 * n - 1) : entries'[e] = [key |-> INVALID_BLOCK_BASE, value |-> NoBlock]
           /\ headers' = Append(headers, blockIndex') /\ blockIndex'.tail = n - 1
           /\ blockIndex'.index =
                [i \in 0..(2 * n - 1) |-> IF i < n THEN blockIndex.index[(blockIndex.tail + 1 + i) % n] ELSE i]
           /\ blockIndex' = [index |-> blockIndex'.index, tail |-> n - 1]
<1>1. PICK n \in Nat \ {0} : n = Cap /\ n \in Sizes
  BY LastIs DEF IInv, IndexInv
<1>2. entries \in [0..(n - 1) -> [key : Nat, value : 0..blocks]]
  BY <1>1 DEF IInv, IndexInv, IndexType, Cap
<1>3. Cardinality(DOMAIN entries) = n
  <2>1. DOMAIN entries = 0..(n - 1)
    BY <1>2
  <2>2. Cardinality(0..(n - 1)) = n
    BY FS_Interval
  <2> QED BY <2>1, <2>2
<1>4. 2 * n \in Sizes
  BY <1>1, DoubledSize DEF NewBlockIndex, Cap
<1>5. entries' = WithNewEntries(entries, n, n)
  BY <1>1, <1>3 DEF NewBlockIndex, Cap
<1>6. n + n - 1 = 2 * n - 1
  OBVIOUS
<1>7. entries' = [e \in 0..(2 * n - 1) |-> IF e < n THEN entries[e] ELSE [key |-> INVALID_BLOCK_BASE, value |-> NoBlock]]
  BY <1>5, <1>6 DEF WithNewEntries
<1>8. /\ DOMAIN entries' = 0..(2 * n - 1)
      /\ \A e \in 0..(n - 1) : entries'[e] = entries[e]
      /\ \A e \in n..(2 * n - 1) : entries'[e] = [key |-> INVALID_BLOCK_BASE, value |-> NoBlock]
  BY <1>7
<1> DEFINE g == [i \in 0..(2 * n - 1) |-> IF i < n THEN blockIndex.index[(blockIndex.tail + 1 + i) % n] ELSE i]
           H == [index |-> g, tail |-> n - 1]
<1>9. headers' = Append(headers, H)
  <2>1. headers' = Append(headers,
          [index |-> [i \in 0..(2 * n - 1) |-> IF i < n THEN blockIndex.index[(blockIndex.tail + 1 + i) % n]
                                               ELSE n + i - n], tail |-> n - 1])
    BY <1>1, <1>3 DEF NewBlockIndex, Cap
  <2>2. \A i \in 0..(2 * n - 1) : n + i - n = i
    OBVIOUS
  <2>3. g = [i \in 0..(2 * n - 1) |-> IF i < n THEN blockIndex.index[(blockIndex.tail + 1 + i) % n] ELSE n + i - n]
    BY <2>2
  <2> QED BY <2>1, <2>3
<1>10. blockIndex' = H
  <2>1. headers \in Seq(UNION {HeadersOf(x) : x \in Sizes})
    BY DEF IInv, IndexInv, IndexType
  <2> HIDE DEF H
  <2> QED BY <1>9, <2>1 DEF blockIndex
<1>11. H.index = g /\ H.tail = n - 1 /\ H = [index |-> H.index, tail |-> n - 1]
  OBVIOUS
<1> HIDE DEF H
<1>12. headers' = Append(headers, blockIndex') /\ blockIndex'.tail = n - 1 /\ blockIndex'.index = g
       /\ blockIndex' = [index |-> blockIndex'.index, tail |-> n - 1]
  BY <1>9, <1>10, <1>11
<1>13. DOMAIN entries = 0..(n - 1)
  BY <1>2
<1> QED BY <1>1, <1>4, <1>8, <1>12, <1>13

LEMMA NewPlaces ==
  ASSUME IInv, NewBlockIndex, UNCHANGED <<Filled, Shown>>, Shown = Filled, Filled \in Nat
  PROVE  /\ Cap' = 2 * Cap
         /\ \A p \in Int : p >= Filled - Cap /\ p < Filled => EntryOf(p)' = EntryOf(p)
         /\ \A k, l \in DOMAIN blockIndex'.index : blockIndex'.index[k] = blockIndex'.index[l] => k = l
         /\ \A k \in DOMAIN blockIndex'.index : blockIndex'.index[k] \in 0..(2 * Cap - 1)
<1>1. PICK n \in Nat \ {0} :
           /\ n = Cap /\ 2 * n \in Sizes
           /\ DOMAIN entries = 0..(n - 1)
           /\ blockIndex'.tail = n - 1
           /\ blockIndex'.index =
                [i \in 0..(2 * n - 1) |-> IF i < n THEN blockIndex.index[(blockIndex.tail + 1 + i) % n] ELSE i]
  BY NewIndexIs
<1>2. DOMAIN blockIndex'.index = 0..(2 * n - 1)
  BY <1>1
<1>3. Cardinality(0..(2 * n - 1)) = 2 * n
  BY FS_Interval
<1>4. Cap' = 2 * n
  BY <1>2, <1>3 DEF Cap, Capacity
<1>5. PICK t \in 0..(n - 1) : t = blockIndex.tail
  BY <1>1, LastIs DEF IInv, IndexInv
<1>6. DOMAIN blockIndex.index = 0..(n - 1)
      /\ (\A k \in 0..(n - 1) : blockIndex.index[k] \in 0..(n - 1))
      /\ \A k, l \in 0..(n - 1) : blockIndex.index[k] = blockIndex.index[l] => k = l
  BY <1>1, LastIs DEF IInv, IndexInv, IndexType
<1> DEFINE old(i) == (t + 1 + i) % n
<1>7. \A i \in Int : old(i) \in 0..(n - 1)
  <2> SUFFICES ASSUME NEW i \in Int PROVE old(i) \in 0..(n - 1)
    OBVIOUS
  <2>1. t + 1 + i \in Int
    OBVIOUS
  <2> QED BY <2>1, DivMod
<1>8. \A i \in 0..(n - 1) : blockIndex'.index[i] = blockIndex.index[old(i)]
  BY <1>1, <1>5
<1>9. \A i \in n..(2 * n - 1) : blockIndex'.index[i] = i
  BY <1>1
<1>10. ASSUME NEW i \in 0..(n - 1), NEW j \in 0..(n - 1), old(i) = old(j) PROVE i = j
  <2>1. PICK x \in Int, y \in Int : x = t + 1 + i /\ y = t + 1 + j
    OBVIOUS
  <2>2. x % n = y % n /\ x - y < n /\ y - x < n
    BY <1>10, <2>1
  <2>3. x = y
    BY <2>2, ModDiffer
  <2> QED BY <2>1, <2>3
<1>11. ASSUME NEW i \in 0..(n - 1) PROVE blockIndex'.index[i] \in 0..(n - 1)
  <2>1. i \in Int
    OBVIOUS
  <2> HIDE DEF old
  <2>2. old(i) \in 0..(n - 1)
    BY <1>7, <2>1
  <2> QED BY <1>6, <1>8, <2>2
<1>12. ASSUME NEW k \in 0..(2 * n - 1), NEW l \in 0..(2 * n - 1), blockIndex'.index[k] = blockIndex'.index[l]
       PROVE  k = l
  <2>1. CASE k < n /\ l < n
    <3>1. k \in 0..(n - 1) /\ l \in 0..(n - 1)
      BY <2>1
    <3>2. blockIndex.index[old(k)] = blockIndex.index[old(l)]
      BY <1>8, <1>12, <3>1
    <3>3. old(k) \in 0..(n - 1) /\ old(l) \in 0..(n - 1)
      BY <1>7, <3>1
    <3>4. old(k) = old(l)
      BY <1>6, <3>2, <3>3
    <3> HIDE DEF old
    <3> QED BY <1>10, <3>1, <3>4
  <2>2. CASE k < n /\ l >= n
    <3>1. k \in 0..(n - 1) /\ l \in n..(2 * n - 1)
      BY <2>2
    <3>2. blockIndex'.index[k] \in 0..(n - 1) /\ blockIndex'.index[l] = l
      BY <1>9, <1>11, <3>1
    <3> HIDE DEF old
    <3> QED BY <1>12, <3>1, <3>2
  <2>3. CASE k >= n /\ l < n
    <3>1. l \in 0..(n - 1) /\ k \in n..(2 * n - 1)
      BY <2>3
    <3>2. blockIndex'.index[l] \in 0..(n - 1) /\ blockIndex'.index[k] = k
      BY <1>9, <1>11, <3>1
    <3> QED BY <1>12, <3>1, <3>2
  <2>4. CASE k >= n /\ l >= n
    <3>1. l \in n..(2 * n - 1) /\ k \in n..(2 * n - 1)
      BY <2>4
    <3> QED BY <1>9, <1>12, <3>1
  <2> QED BY <2>1, <2>2, <2>3, <2>4
<1>13. ASSUME NEW k \in 0..(2 * n - 1) PROVE blockIndex'.index[k] \in 0..(2 * n - 1)
  <2>1. CASE k < n
    <3>1. k \in 0..(n - 1)
      BY <2>1
    <3>2. blockIndex'.index[k] \in 0..(n - 1)
      BY <1>11, <3>1
    <3> QED BY <3>2
  <2>2. CASE k >= n
    <3>1. k \in n..(2 * n - 1)
      BY <2>2
    <3> QED BY <1>9, <3>1
  <2> QED BY <2>1, <2>2
<1>14. ASSUME NEW p \in Int, p >= Filled - n, p < Filled PROVE EntryOf(p)' = EntryOf(p)
  <2>1. PICK x \in 0..(n - 1), y \in Int : x = n + p - Filled /\ y = t + p + 1 - Filled
    BY <1>14
  <2>2. (n - 1) + p + 1 - Filled = x /\ x \in Int /\ x < 2 * n /\ 0 <= x
    BY <2>1
  <2>3. x % (2 * n) = x
    BY <2>2, ModSmall
  <2>4. EntryOf(p)' = blockIndex'.index[(blockIndex'.tail + p + 1 - Shown) % Cap']
    BY DEF EntryOf, Cap
  <2>5. EntryOf(p)' = blockIndex'.index[x]
    BY <1>1, <1>4, <2>2, <2>3, <2>4
  <2>6. t + 1 + x = y + n
    BY <2>1
  <2>7. old(x) = y % n
    BY <2>6, ModTurn
  <2>8. EntryOf(p) = blockIndex.index[y % n]
    BY <1>1, <1>5, <2>1 DEF EntryOf, Cap
  <2> QED BY <1>8, <2>5, <2>7, <2>8
<1>15. 2 * n = 2 * Cap
  BY <1>1
<1> QED BY <1>1, <1>2, <1>4, <1>12, <1>13, <1>14, <1>15

LEMMA NewBlockIndexStep ==
  ASSUME IInv, NewBlockIndex
  PROVE  IInv'
<1>1. At("insert") /\ UNCHANGED <<shared, memory, producer, consumer, pushed, taken, claims>>
  BY DEF NewBlockIndex
<1>2. \A x : At(x)' = At(x) /\ (At(x) <=> x = "insert")
  BY <1>1 DEF At
<1>3. /\ pushed \in Nat /\ pushed % BlockSize = 0 /\ Filled \in Nat /\ Shown = Filled
      /\ \A p \in Int : EntryOf(p) \in DOMAIN entries
  BY <1>1, <1>2, PlacingIs
<1>4. Filled' = Filled /\ Shown' = Shown
  <2>1. Filled' = Filled
    BY <1>1, <1>2 DEF Filled
  <2> QED BY <1>2, <2>1 DEF Shown
<1>5. PICK n \in Nat \ {0} :
           /\ n = Cap /\ 2 * n \in Sizes
           /\ DOMAIN entries = 0..(n - 1) /\ DOMAIN entries' = 0..(2 * n - 1)
           /\ \A e \in 0..(n - 1) : entries'[e] = entries[e]
           /\ \A e \in n..(2 * n - 1) : entries'[e] = [key |-> INVALID_BLOCK_BASE, value |-> NoBlock]
           /\ headers' = Append(headers, blockIndex') /\ blockIndex'.tail = n - 1
           /\ blockIndex'.index =
                [i \in 0..(2 * n - 1) |-> IF i < n THEN blockIndex.index[(blockIndex.tail + 1 + i) % n] ELSE i]
           /\ blockIndex' = [index |-> blockIndex'.index, tail |-> n - 1]
  BY NewIndexIs
<1>6. /\ Cap' = 2 * n
      /\ \A p \in Int : p >= Filled - n /\ p < Filled => EntryOf(p)' = EntryOf(p)
      /\ \A k, l \in DOMAIN blockIndex'.index : blockIndex'.index[k] = blockIndex'.index[l] => k = l
      /\ \A k \in DOMAIN blockIndex'.index : blockIndex'.index[k] \in 0..(2 * n - 1)
  BY <1>3, <1>4, <1>5, NewPlaces
<1>7. \A e \in DOMAIN entries : e \in DOMAIN entries' /\ entries'[e] = entries[e]
  BY <1>5
<1>8. \A e \in DOMAIN entries' : e \in DOMAIN entries \/ entries'[e] = [key |-> INVALID_BLOCK_BASE, value |-> NoBlock]
  BY <1>5
<1>9. CountType' /\ CountInv' /\ SeenInv' /\ ConsumerType' /\ ClaimInv' /\ WorkInv'
  <2>1. ~At("idle")
    BY <1>2
  <2> QED BY <1>1, <2>1, CountsAtWork
<1>10. UNCHANGED <<slots, emptied, blocks, freeList>>
  BY <1>1 DEF memory
<1>11. MemoryType' /\ ProducerType'
  BY <1>1, <1>10 DEF IInv, IndexInv, MemoryType, ProducerType
<1> DEFINE S == UNION {HeadersOf(x) : x \in Sizes}
<1>12. headers \in Seq(S)
  BY DEF IInv, IndexInv, IndexType
<1>13. blockIndex' \in S
  <2>1. DOMAIN blockIndex'.index = 0..(2 * n - 1)
    BY <1>5
  <2>2. \A k \in 0..(2 * n - 1) : blockIndex'.index[k] \in Nat
    BY <1>6, <2>1
  <2>3. blockIndex'.index \in [0..(2 * n - 1) -> Nat]
    <3>1. PICK g : g = blockIndex'.index
      OBVIOUS
    <3>2. g = [i \in 0..(2 * n - 1) |-> g[i]]
      BY <1>5, <3>1
    <3> QED BY <2>2, <3>1, <3>2
  <2>4. n - 1 \in 0..(2 * n - 1)
    OBVIOUS
  <2>5. blockIndex' \in HeadersOf(2 * n)
    <3>1. PICK g, z, m : g = blockIndex'.index /\ z = n - 1 /\ m = 2 * n
      OBVIOUS
    <3>2. blockIndex' = [index |-> g, tail |-> z] /\ g \in [0..(m - 1) -> Nat] /\ z \in 0..(m - 1)
      BY <1>5, <2>3, <2>4, <3>1
    <3> QED BY <3>1, <3>2 DEF HeadersOf
  <2> QED BY <1>5, <2>5
<1> HIDE DEF S
<1>14. /\ headers' \in Seq(S) /\ Len(headers') = Len(headers) + 1 /\ headers' # <<>>
       /\ \A h \in DOMAIN headers : h \in DOMAIN headers' /\ headers'[h] = headers[h]
  <2>1. PICK x \in S : x = blockIndex' /\ headers' = Append(headers, x)
    BY <1>5, <1>13
  <2> QED BY <1>12, <2>1
<1>15. entries' \in [0..(2 * n - 1) -> [key : Nat, value : 0..blocks]]
  <2>1. entries \in [0..(n - 1) -> [key : Nat, value : 0..blocks]]
    BY <1>5 DEF IInv, IndexInv, IndexType, Cap
  <2>2. NoBlock \in 0..blocks /\ INVALID_BLOCK_BASE \in Nat
    BY DEF NoBlock, INVALID_BLOCK_BASE, IInv, IndexInv, MemoryType
  <2>3. \A e \in 0..(2 * n - 1) : entries'[e] \in [key : Nat, value : 0..blocks]
    BY <1>5, <1>7, <1>8, <2>1, <2>2
  <2>4. entries' = [e \in 0..(2 * n - 1) |-> entries'[e]]
    <3>1. entries' = WithNewEntries(entries, Cardinality(DOMAIN entries), Capacity(blockIndex))
      BY DEF NewBlockIndex
    <3>2. PICK D : entries' = [e \in D |-> entries'[e]]
      BY <3>1 DEF WithNewEntries
    <3>3. D = 0..(2 * n - 1)
      BY <1>5, <3>2
    <3> QED BY <3>2, <3>3
  <2> QED BY <2>3, <2>4
<1>16. IndexType'
  BY <1>5, <1>6, <1>10, <1>14, <1>15 DEF IndexType, Cap, S
<1>17. \A i \in Open : /\ Number(i) \in Nat /\ Number(i) < Filled /\ Number(i) >= Filled - n
                       /\ EntryOf(Number(i)) \in DOMAIN entries
  BY <1>3, <1>5, OpenIs DEF IInv
<1>18. \A i \in Open : \A p \in Number(i)..(Filled - 1) : EntryOf(p)' = EntryOf(p) /\ EntryOf(p) \in DOMAIN entries
  <2> SUFFICES ASSUME NEW i \in Open, NEW p \in Number(i)..(Filled - 1)
               PROVE  EntryOf(p)' = EntryOf(p) /\ EntryOf(p) \in DOMAIN entries
    OBVIOUS
  <2>1. p \in Int /\ p >= Filled - n /\ p < Filled
    BY <1>3, <1>17
  <2> QED BY <1>3, <1>6, <2>1
<1>19. KeyInv' /\ BlockInv'
  <2>1. \A i \in Open : Number(i) >= Shown' - Cap'
    <3> SUFFICES ASSUME NEW i \in Open PROVE Number(i) >= Filled - 2 * n
      BY <1>3, <1>4, <1>6
    <3> QED BY <1>3, <1>17
  <2> QED BY <1>1, <1>4, <1>7, <1>10, <1>18, <2>1, EntriesStay
<1>20. OccupiedInv' /\ PlacesInv'
  <2>1. ASSUME NEW p \in 0..(Filled - 1), p >= Shown - Cap
        PROVE  EntryOf(p)' = EntryOf(p) /\ p >= Shown' - Cap'
    <3>1. p \in Int /\ p >= Filled - n /\ p < Filled
      BY <1>3, <1>5, <2>1
    <3>2. p >= Filled - 2 * n
      BY <1>3, <3>1
    <3> QED BY <1>3, <1>4, <1>6, <3>1, <3>2
  <2>2. \A e \in DOMAIN entries' : entries'[e].value # NoBlock => e \in DOMAIN entries /\ entries'[e] = entries[e]
    BY <1>7, <1>8
  <2>3. OccupiedInv'
    BY <1>1, <1>4, <1>7, <1>10, <2>1, <2>2, OccupiedStays
  <2>4. ~At("install") /\ ~At("install")'
    BY <1>2
  <2> QED BY <1>1, <1>7, <1>8, <1>10, <2>3, <2>4, PlacesStay
<1>21. ~Announced
  <2>1. ~Usable(EntryOf(Filled))
    BY <1>1, NextEntryIs DEF NewBlockIndex
  <2> QED BY <2>1 DEF Announced, Usable
<1>22. Open' = Open
  BY <1>1, <1>4, OpenSame
<1>23. ProducerInv'
  <2>1. \A i \in Open : Number(i) = Filled - 1 => producer.block = entries[EntryOf(Filled - 1)].value
    BY <1>2 DEF IInv, IndexInv, ProducerInv
  <2>2. \A i \in Open : Number(i) = Filled - 1 =>
            EntryOf(Filled - 1)' = EntryOf(Filled - 1) /\ EntryOf(Filled - 1) \in DOMAIN entries
    <3> SUFFICES ASSUME NEW i \in Open, Number(i) = Filled - 1
                 PROVE  EntryOf(Number(i))' = EntryOf(Number(i)) /\ EntryOf(Number(i)) \in DOMAIN entries
      BY <1>4
    <3>1. Number(i) \in Number(i)..(Filled - 1)
      BY <1>17
    <3> QED BY <1>18, <3>1
  <2>3. \A i \in Open : Number(i) = Filled - 1 => producer.block = entries'[EntryOf(Filled - 1)'].value
    BY <1>7, <2>1, <2>2
  <2> QED BY <1>1, <1>2, <1>3, <1>4, <1>22, <2>3 DEF ProducerInv
<1>24. IndexInv'
  BY <1>11, <1>16, <1>19, <1>20, <1>23 DEF IndexInv
<1>25. ConsumerInv'
  <2>1. EntriesKept
    <3>1. \A i \in Open : \A p \in Number(i)..Filled : p < Filled => EntryOf(p)' = EntryOf(p)
      <4> SUFFICES ASSUME NEW i \in Open, NEW p \in Number(i)..Filled, p < Filled PROVE EntryOf(p)' = EntryOf(p)
        OBVIOUS
      <4>1. p \in Number(i)..(Filled - 1)
        BY <1>3, <1>17
      <4> QED BY <1>18, <4>1
    <3>2. \A i \in Open : entries'[EntryOf(Number(i))].value = entries[EntryOf(Number(i))].value
      BY <1>7, <1>17
    <3> QED BY <1>14, <1>21, <3>1, <3>2 DEF EntriesKept
  <2>2. TailsKept
    BY <1>14 DEF TailsKept
  <2>3. pushed' \in Nat /\ pushed' >= pushed /\ Filled' \in Nat /\ Filled <= Filled'
    BY <1>1, <1>3, <1>4
  <2> QED BY <1>1, <1>9, <1>24, <2>1, <2>2, <2>3, PlacesKept
<1> QED BY <1>9, <1>24, <1>25 DEF IInv

-----------------------------------------------------------------------------
(* The invariant *)

LEMMA FirstSize == IndexSize \in Sizes /\ IndexSize \in Nat \ {0}
<1>1. PICK S \in Nat : S = Span \div BlockSize
  BY SizeFacts
<1>2. IndexSize \in Nat \ {0} /\ S % IndexSize = 0 /\ Span \in Nat \ {0}
  BY <1>1, SizesAssumption
<1>3. S # 0
  <2>1. Span = BlockSize * S /\ BlockSize \in Nat
    BY <1>1, SizeFacts
  <2> QED BY <1>2, <2>1
<1>4. IndexSize <= S
  <2>1. S < IndexSize => S % IndexSize = S
    BY <1>1, <1>2, ModSmall
  <2> QED BY <1>1, <1>2, <1>3, <2>1
<1>5. IndexSize \in 1..S
  BY <1>2, <1>4
<1> QED BY <1>1, <1>2, <1>5 DEF Sizes

LEMMA FirstIndex ==
  ASSUME Init, Indexed
  PROVE  /\ headers = <<blockIndex>> /\ blockIndex.index = [i \in 0..(IndexSize - 1) |-> i]
         /\ blockIndex.tail = IndexSize - 1 /\ Cap = IndexSize
         /\ IndexType
         /\ \A e \in DOMAIN entries : entries[e].value = NoBlock
<1>1. IndexSize \in Nat \ {0} /\ IndexSize \in Sizes
  BY FirstSize
<1> DEFINE g == [i \in 0..(IndexSize - 1) |-> i]
           H == [index |-> g, tail |-> IndexSize - 1]
<1>2. H.index = g /\ H.tail = IndexSize - 1
  OBVIOUS
<1>3. headers = <<H>> /\ entries = WithNewEntries(<<>>, 0, IndexSize)
  BY DEF Init, Indexed
<1>4. H \in HeadersOf(IndexSize)
  <2>1. IndexSize - 1 \in 0..(IndexSize - 1) /\ g \in [0..(IndexSize - 1) -> Nat]
    BY <1>1
  <2> HIDE DEF g
  <2> QED BY <2>1 DEF HeadersOf
<1> HIDE DEF H
<1>5. /\ blockIndex = H /\ headers = <<blockIndex>> /\ headers # <<>>
      /\ headers \in Seq(UNION {HeadersOf(n) : n \in Sizes})
  <2>1. Len(headers) = 1 /\ blockIndex = H
    BY <1>3 DEF blockIndex
  <2> QED BY <1>1, <1>3, <1>4, <2>1
<1>6. DOMAIN blockIndex.index = 0..(IndexSize - 1)
  BY <1>2, <1>5
<1>7. Cardinality(0..(IndexSize - 1)) = IndexSize
  BY <1>1, FS_Interval
<1>8. Capacity(blockIndex) = IndexSize
  BY <1>6, <1>7 DEF Capacity
<1>9. blocks = 0 /\ INVALID_BLOCK_BASE \in Nat /\ NoBlock \in 0..blocks
  BY DEF Init, BaseInit, INVALID_BLOCK_BASE, NoBlock
<1>10. 0 + IndexSize - 1 = IndexSize - 1 /\ \A e \in 0..(IndexSize - 1) : ~(e < 0)
  BY <1>1
<1>11. entries = [e \in 0..(IndexSize - 1) |-> [key |-> INVALID_BLOCK_BASE, value |-> NoBlock]]
  <2>1. entries = [e \in 0..(0 + IndexSize - 1) |->
                     IF e < 0 THEN (<<>>)[e] ELSE [key |-> INVALID_BLOCK_BASE, value |-> NoBlock]]
    BY <1>3 DEF WithNewEntries
  <2> QED BY <1>10, <2>1
<1>12. entries \in [0..(IndexSize - 1) -> [key : Nat, value : 0..blocks]]
  BY <1>9, <1>11
<1>13. \A k \in 0..(IndexSize - 1) : blockIndex.index[k] = k
  BY <1>2, <1>5
<1>14. DOMAIN entries = 0..(IndexSize - 1)
  BY <1>12
<1>15. IndexType
  BY <1>5, <1>6, <1>8, <1>12, <1>13, <1>14 DEF IndexType
<1> QED BY <1>2, <1>5, <1>8, <1>11, <1>15 DEF Cap

LEMMA Initially == NoWrap /\ Init /\ Indexed => IInv
<1> SUFFICES ASSUME NoWrap, Init, Indexed PROVE IInv
  OBVIOUS
<1>1. /\ tailIndex = 0 /\ headIndex = 0 /\ dequeueOptimisticCount = 0 /\ dequeueOvercommit = 0
      /\ blocks = 0 /\ freeList = {} /\ pushed = 0 /\ taken = 0 /\ claims = 0
      /\ consumer = [c \in Consumers |-> Idle]
      /\ producer = [pc |-> "idle", entry |-> 0, block |-> NoBlock]
      /\ emptied = [b \in Blocks |-> 0]
      /\ slots = [b \in Blocks |-> [s \in 0..(BlockSize - 1) |-> 0]]
  BY DEF Init, BaseInit
<1>2. \A c \in Consumers : consumer[c] = Idle /\ consumer[c].pc = "idle"
  BY <1>1 DEF Idle
<1>3. /\ headers = <<blockIndex>> /\ Cap = IndexSize /\ IndexType
      /\ \A e \in DOMAIN entries : entries[e].value = NoBlock
  BY FirstIndex
<1>4. \A x : At(x) <=> x = "idle"
  BY <1>1 DEF At
<1>5. CountType
  BY <1>1, <1>4, SizesFacts DEF CountType
<1>6. ConsumerType
  BY <1>1 DEF ConsumerType, Records, Rests
<1>7. Claimed = {} /\ Grants = {} /\ Late = {}
  <2>1. \A c \in Consumers : Pending(c) = 0
    BY <1>2 DEF Pending, In
  <2>2. \A t \in Tokens : t[1] \in Consumers /\ t[2] \in Positive
    BY DEF Tokens
  <2>3. \A t \in Tokens : ~(t[2] <= Pending(t[1]))
    BY <2>1, <2>2 DEF Positive
  <2>4. \A t \in Tokens : consumer[t[1]].pc \notin {"undo", "take"}
    BY <1>2, <2>2
  <2> QED BY <1>2, <2>3, <2>4 DEF Claimed, Grants, Late, In
<1>8. CountInv
  <2>1. IsFiniteSet(Claimed) /\ Cardinality(Claimed) = 0 /\ Cardinality(Grants) = 0
    BY <1>7, FS_EmptySet
  <2> QED BY <1>1, <2>1 DEF CountInv
<1>9. SeenInv /\ ClaimInv
  BY <1>2, <1>7 DEF SeenInv, ClaimInv, In
<1>10. \A c \in Consumers : Work(c) = {} /\ WorkOk(consumer[c]) /\ PlaceOk(consumer[c])
  BY <1>2, EarlyIs DEF Early, Work
<1>11. WorkInv /\ ConsumerInv
  BY <1>10 DEF WorkInv, ConsumerInv
<1>12. 0 % BlockSize = 0 /\ 0 \div BlockSize = 0 /\ BlockSize * 0 = 0
  BY BlockFacts
<1>13. Filled = 0
  BY <1>1, <1>4, <1>12 DEF Filled, Number
<1>14. Open = {}
  <2>1. 0..(BlockSize * Filled - 1) = {}
    BY <1>12, <1>13
  <2> QED BY <2>1 DEF Open
<1>15. MemoryType
  <2>1. MaxBlocks \in Nat
    BY SizesAssumption
  <2> QED BY <1>1, <2>1 DEF MemoryType
<1>16. ProducerType
  BY <1>1 DEF ProducerType, NoBlock
<1>17. ProducerInv
  BY <1>4, <1>14 DEF ProducerInv
<1>18. KeyInv /\ BlockInv
  BY <1>14 DEF KeyInv, BlockInv
<1>19. OccupiedInv
  BY <1>2, <1>3 DEF OccupiedInv, In
<1>20. PlacesInv
  <2>1. 1..blocks = {}
    BY <1>1
  <2>2. Releasing = {}
    BY <1>2 DEF Releasing, In
  <2> QED BY <1>1, <1>3, <1>4, <2>1, <2>2 DEF PlacesInv
<1> QED BY <1>3, <1>5, <1>6, <1>8, <1>9, <1>11, <1>15, <1>16, <1>17, <1>18, <1>19, <1>20 DEF IInv, IndexInv

LEMMA Stuttering ==
  ASSUME IInv, UNCHANGED vars
  PROVE  IInv'
<1>1. UNCHANGED <<shared, entries, headers, memory, producer, consumer, pushed, taken, claims>>
  BY DEF vars, index
<1>2. Filled' = Filled /\ Shown' = Shown
  BY <1>1, ViewKept
<1>3. UNCHANGED <<tailIndex, headIndex, dequeueOptimisticCount, dequeueOvercommit, slots, emptied, blocks, freeList>>
  BY <1>1 DEF shared, memory
<1>4. CountType'
  BY <1>1, <1>3 DEF IInv, CountType, At
<1>5. pushed' \in Nat /\ pushed' >= pushed
  BY <1>1 DEF IInv, CountType
<1>6. CountInv' /\ SeenInv' /\ ConsumerType' /\ ClaimInv' /\ WorkInv'
  BY <1>1, <1>3, <1>5, ProducerMoves
<1>7. Open' = Open
  BY <1>1, <1>2, OpenSame
<1>8. IndexInv'
  BY <1>1, <1>7, IndexKept DEF IInv
<1>9. ConsumerInv'
  <2> SUFFICES ASSUME NEW c \in Consumers PROVE PlaceOk(consumer[c])'
    BY DEF ConsumerInv
  <2>1. PlaceOk(consumer'[c])
    BY <1>1 DEF IInv, ConsumerInv
  <2> QED BY <1>1, <2>1, PlaceKept
<1> QED BY <1>4, <1>6, <1>8, <1>9 DEF IInv

\* A producer with an index never reads through a null pointer.
LEMMA NoIndexStep == IInv => ~NoIndex
  BY DEF IInv, IndexInv, IndexType, NoIndex, Indexed

LEMMA Preserved == NoWrap /\ IInv /\ [Next]_vars => IInv'
<1> SUFFICES ASSUME NoWrap, IInv, [Next]_vars PROVE IInv'
  OBVIOUS
<1>1. CASE Enqueue
  BY <1>1, EnqueueBeginStep, InsertEntryStep, NewBlockIndexStep, NoBlockIndexStep, NoIndexStep,
     PublishEntryStep, GetBlockStep, GetNoBlockStep, InstallBlockStep, WriteElementStep, AdvanceTailStep DEF Enqueue
<1>2. ASSUME NEW c \in Consumers, Dequeue(c) PROVE IInv'
  <2>1. CASE dequeue(c)
    <3>1. 1 \in Positive
      BY DEF Positive
    <3> QED BY <2>1, <3>1, dequeueKeeps DEF dequeue
  <2>2. ASSUME NEW max \in 2..MaxBulk, dequeue_bulk(c, max) PROVE IInv'
    <3>1. max \in Positive
      BY DEF Positive
    <3> QED BY <2>2, <3>1, dequeueKeeps
  <2>3. CASE CheckCount(c) \/ Claim(c) \/ Recheck(c) \/ Undo(c) \/ Take(c)
    BY <2>3, CheckCountKeeps, ClaimStep, RecheckStep, UndoStep, TakeStep
  <2>4. CASE LoadHeader(c) \/ LoadTail(c) \/ FindEntry(c) \/ ReadElements(c)
    BY <2>4, LoadHeaderStep, LoadTailStep, FindEntryStep, ReadElementsStep
  <2>5. CASE SetManyEmpty(c) \/ Unlink(c) \/ Release(c)
    BY <2>5, SetManyEmptyStep, UnlinkStep, ReleaseStep
  <2> QED BY <1>2, <2>1, <2>2, <2>3, <2>4, <2>5 DEF Dequeue
<1>3. CASE UNCHANGED vars
  BY <1>3, Stuttering
<1> QED BY <1>1, <1>2, <1>3 DEF Next

(* A producer whose constructor found no memory *)

NoneSeen == [pc : {"check"}, tail : {0}, over : {0}, max : Positive]

\* Nothing is ever enqueued, and a dequeue looks at the counts and fails.
Barren ==
  /\ headers = <<>> /\ entries = <<>>
  /\ tailIndex = 0 /\ headIndex = 0 /\ dequeueOptimisticCount = 0 /\ dequeueOvercommit = 0
  /\ blocks = 0 /\ freeList = {} /\ pushed = 0 /\ taken = 0
  /\ producer \in [pc : {"idle", "insert", "crashed"}, entry : Nat, block : {NoBlock}]
  /\ consumer \in [Consumers -> {Idle} \cup NoneSeen]

LEMMA BarrenBegins ==
  ASSUME Init, ~Indexed
  PROVE  Barren
<1>1. /\ tailIndex = 0 /\ headIndex = 0 /\ dequeueOptimisticCount = 0 /\ dequeueOvercommit = 0
      /\ blocks = 0 /\ freeList = {} /\ pushed = 0 /\ taken = 0
      /\ consumer = [c \in Consumers |-> Idle]
      /\ producer = [pc |-> "idle", entry |-> 0, block |-> NoBlock]
  BY DEF Init, BaseInit
<1>2. headers = <<>> /\ entries = <<>>
  BY DEF Init, Indexed
<1>3. consumer \in [Consumers -> {Idle} \cup NoneSeen]
  BY <1>1
<1> QED BY <1>1, <1>2, <1>3 DEF Barren

\* The producer does not come past its insert.
LEMMA BarrenEnqueue ==
  ASSUME Barren, Enqueue
  PROVE  Barren'
<1>1. /\ ~Indexed /\ producer.pc \in {"idle", "insert", "crashed"} /\ tailIndex = 0
      /\ producer = [pc |-> producer.pc, entry |-> producer.entry, block |-> NoBlock]
      /\ producer.entry \in Nat
  BY DEF Barren, Indexed
<1>2. 0 % BlockSize = 0
  BY BlockFacts
<1>3. EnqueueBegin \/ NoIndex
  BY <1>1 DEF Enqueue, InsertEntry, NewBlockIndex, NoBlockIndex, PublishEntry, GetBlock, GetNoBlock,
              InstallBlock, WriteElement, AdvanceTail, At
<1>4. /\ UNCHANGED <<shared, memory, index, consumer, pushed, taken, claims>>
      /\ Goto("insert") \/ Goto("crashed")
  BY <1>1, <1>2, <1>3 DEF EnqueueBegin, NoIndex
<1>5. producer' \in [pc : {"idle", "insert", "crashed"}, entry : Nat, block : {NoBlock}]
  BY <1>1, <1>4 DEF Goto
<1> QED BY <1>4, <1>5 DEF Barren, shared, memory, index

\* No count has wrapped.
LEMMA ZeroCounts == 0 % Span = 0 /\ ~(0 > Span \div 2)
<1>1. Span \in Nat /\ Span > 0
  BY SizesAssumption
<1>2. 0 % Span = 0
  BY <1>1, SMT
<1>3. Span \div 2 \in Nat
  BY <1>1, SMT
<1>4. ~(0 > Span \div 2)
  BY <1>3, SMT
<1> QED BY <1>2, <1>4

\* A consumer does not come past its look at the counts.
LEMMA BarrenDequeue ==
  ASSUME Barren, NEW c \in Consumers, Dequeue(c)
  PROVE  Barren'
<1>1. consumer \in [Consumers -> {Idle} \cup NoneSeen] /\ consumer[c] \in {Idle} \cup NoneSeen
  BY DEF Barren
<1>2. consumer[c].pc \in {"idle", "check"}
  BY <1>1 DEF Idle, NoneSeen
<1>3. \/ \E max \in Positive : dequeue_bulk(c, max)
      \/ CheckCount(c)
  <2>1. \A max \in 2..MaxBulk : max \in Positive
    BY BulkAssumption DEF Positive
  <2>2. 1 \in Positive
    BY DEF Positive
  <2> QED BY <1>2, <2>1, <2>2 DEF Dequeue, dequeue, Claim, Recheck, Undo, Take, LoadHeader, LoadTail, FindEntry,
                                  ReadElements, SetManyEmpty, Unlink, Release, In
<1>4. UNCHANGED <<shared, memory, index, producer, pushed, taken, claims>>
  BY <1>3 DEF dequeue_bulk, CheckCount
<1>5. \E r \in {Idle} \cup NoneSeen : Set(c, r)
  <2>1. ASSUME NEW max \in Positive, dequeue_bulk(c, max)
        PROVE  \E r \in NoneSeen : Set(c, r)
    BY <2>1 DEF dequeue_bulk, Barren, NoneSeen
  <2>2. CASE CheckCount(c)
    <3>1. consumer[c] \in NoneSeen
      BY <1>1, <2>2 DEF CheckCount, In, Idle
    <3>2. consumer[c].tail = 0 /\ consumer[c].over = 0 /\ dequeueOptimisticCount = 0
      BY <3>1 DEF NoneSeen, Barren
    <3>3. 0 % Span = 0 /\ 0 - (0 - 0) = 0 /\ ~(0 > Span \div 2)
      BY ZeroCounts
    <3>4. ~circular_less_than(0, 0)
      BY <3>3 DEF circular_less_than
    <3>5. ~circular_less_than(0, (consumer[c].tail - (dequeueOptimisticCount - consumer[c].over)) % Span)
      BY <3>2, <3>3, <3>4
    <3>6. Set(c, Idle)
      BY <2>2, <3>5 DEF CheckCount
    <3> QED BY <3>6
  <2> QED BY <1>3, <2>1, <2>2
<1>6. consumer' \in [Consumers -> {Idle} \cup NoneSeen]
  BY <1>1, <1>5 DEF Set
<1> QED BY <1>4, <1>6 DEF Barren, shared, memory, index

LEMMA BarrenKept == Barren /\ [Next]_vars => Barren'
<1>1. Barren /\ UNCHANGED vars => Barren'
  BY DEF Barren, vars, shared, memory, index
<1> QED BY <1>1, BarrenEnqueue, BarrenDequeue DEF Next

\* The invariant holds in every state of a producer that has an index: what the producer and the
\* consumers do to the counts, the blocks and the block index (concurrentqueue.h:2341-3004) keeps
\* all of its parts.  Without an index nothing is ever there.
THEOREM Invariance == NoWrap => (Spec => [](IInv \/ Barren))
<1> SUFFICES ASSUME NoWrap PROVE Spec => [](IInv \/ Barren)
  OBVIOUS
<1>1. Init => IInv \/ Barren
  BY Initially, BarrenBegins
<1>2. (IInv \/ Barren) /\ [Next]_vars => (IInv \/ Barren)'
  BY Preserved, BarrenKept
<1> QED BY <1>1, <1>2, PTL DEF Spec

LEMMA BarrenIdle ==
  ASSUME Barren, NEW c \in Consumers
  PROVE  consumer[c].pc \in {"idle", "check"}
  BY DEF Barren, Idle, NoneSeen

\* Every property of the module holds where there is nothing.
LEMMA BarrenHolds ==
  ASSUME Barren
  PROVE  CountsAgree /\ LookupFinds /\ ReadsOwn /\ FreeUnused /\ DestructorExact
<1>1. \A c \in Consumers : consumer[c].pc \in {"idle", "check"}
  BY BarrenIdle
<1>2. CountsAgree
  <2> DEFINE claimed == UNION {{c} \X (1..Pending(c)) : c \in Consumers}
  <2>1. \A c \in Consumers : Pending(c) = 0
    BY <1>1 DEF Pending, In
  <2>2. \A c \in Consumers : {c} \X (1..Pending(c)) = {}
    BY <2>1
  <2>3. claimed = {}
    BY <2>2
  <2>4. Cardinality(claimed) = 0
    BY <2>3, FS_EmptySet
  <2>5. 0 % Span = 0 /\ 0 + 0 + 0 = 0
    BY ZeroCounts
  <2> HIDE DEF claimed
  <2>6. dequeueOptimisticCount = (headIndex + dequeueOvercommit + Cardinality(claimed)) % Span
    BY <2>4, <2>5 DEF Barren
  <2> QED BY <2>6 DEF CountsAgree, claimed
<1>3. LookupFinds /\ ReadsOwn
  BY <1>1 DEF LookupFinds, ReadsOwn, In
<1>4. DOMAIN entries = {} /\ ~At("install")
  BY DEF Barren, At
<1>5. FreeUnused
  BY <1>1, <1>4 DEF FreeUnused
<1>6. DestructorExact
  <2>1. 1..(pushed - taken) = {} /\ 1..blocks = {} /\ freeList = {} /\ producer.block = NoBlock
    BY DEF Barren
  <2>2. Destructed = {}
    BY <2>1 DEF Destructed
  <2> QED BY <2>1, <2>2 DEF DestructorExact
<1> QED BY <1>2, <1>3, <1>5, <1>6

\* No step puts anything into it.
LEMMA BarrenStays ==
  ASSUME Barren, Barren'
  PROVE  UNCHANGED <<Contents, pushed>>
<1> DEFINE slot(i) == slots[entries[EntryIn(blockIndex, blockIndex.tail, i)].value][i % BlockSize]
<1>1. /\ Contents = [k \in 1..(pushed - taken) |-> slot((taken + k - 1) % Span)]
      /\ Contents' = [k \in 1..(pushed' - taken') |-> slot((taken + k - 1) % Span)']
  BY DEF Contents
<1> HIDE DEF slot
<1>2. pushed = 0 /\ taken = 0 /\ pushed' = 0 /\ taken' = 0
  BY DEF Barren
<1>3. 1..(pushed - taken) = {} /\ 1..(pushed' - taken') = {}
  BY <1>2
<1> QED BY <1>1, <1>2, <1>3

-----------------------------------------------------------------------------
(* What follows from the invariant *)

LEMMA CountsFromInv ==
  ASSUME NoWrap, IInv
  PROVE  CountsAgree
<1> DEFINE claimed == UNION {{c} \X (1..Pending(c)) : c \in Consumers}
<1>1. \A c \in Consumers : Pending(c) \in Nat
  BY PendingIs DEF IInv
<1>2. claimed = Claimed
  <2>1. ASSUME NEW t \in claimed PROVE t \in Claimed
    <3>1. PICK c \in Consumers : t \in {c} \X (1..Pending(c))
      OBVIOUS
    <3>2. PICK k \in 1..Pending(c) : t = <<c, k>>
      BY <3>1
    <3>3. k \in Positive /\ k <= Pending(c)
      BY <1>1 DEF Positive
    <3> QED BY <3>2, <3>3 DEF Claimed, Tokens
  <2>2. ASSUME NEW t \in Claimed PROVE t \in claimed
    <3>1. PICK c \in Consumers : \E k \in Positive : t = <<c, k>>
      BY DEF Claimed, Tokens
    <3>3. PICK k \in Positive : t = <<c, k>>
      BY <3>1
    <3>2. k \in 1..Pending(c)
      BY <1>1, <3>3 DEF Claimed, Positive
    <3> QED BY <3>2, <3>3
  <2> HIDE DEF claimed
  <2> QED BY <2>1, <2>2
<1>3. /\ claims = taken + dequeueOvercommit + Cardinality(Claimed)
      /\ dequeueOptimisticCount = claims /\ headIndex = taken /\ claims \in Nat /\ claims <= MaxClaims
  BY DEF IInv, CountInv, CountType
<1>4. claims < Span
  BY <1>3, SizesFacts
<1>5. claims % Span = claims
  BY <1>3, <1>4, SmallIsSelf
<1>6. dequeueOptimisticCount = (headIndex + dequeueOvercommit + Cardinality(claimed)) % Span
  BY <1>2, <1>3, <1>5
<1> HIDE DEF claimed
<1> QED BY <1>6 DEF CountsAgree, claimed

\* The entry of a position that Maps gives.
LEMMA PositionMaps ==
  ASSUME NEW h, NEW C \in Nat \ {0}, C = Capacity(headers[h]), NEW at \in 0..(C - 1), NEW p \in Nat, NEW q \in Nat,
         p <= q, Maps(h, at, p, p, q)
  PROVE  headers[h].index[at] = EntryOf(p)
<1>1. p \in p..q
  OBVIOUS
<1>2. headers[h].index[(at + p - p) % C] = EntryOf(p)
  BY <1>1 DEF Maps
<1>3. at + p - p = at /\ at \in Int /\ 0 <= at /\ at < C
  OBVIOUS
<1>4. at % C = at
  BY <1>3, ModSmall
<1> QED BY <1>2, <1>3, <1>4

LEMMA LookupFromInv ==
  ASSUME IInv
  PROVE  LookupFinds
<1> SUFFICES ASSUME NEW c \in Consumers, In(c, "find")
             PROVE  LET e == entries[EntryFor(c)] IN e.key = Base(consumer[c].index) /\ e.value # NoBlock
  BY DEF LookupFinds
<1>1. PICK h, at, i, j : /\ h = consumer[c].h /\ i = consumer[c].index /\ j = i + consumer[c].left - 1
                         /\ at = PositionIn(headers[h], consumer[c].tail, i)
  OBVIOUS
<1>2. /\ h \in DOMAIN headers /\ at \in 0..(Capacity(headers[h]) - 1) /\ Maps(h, at, Number(i), Number(i), Number(j))
  BY <1>1, FindIs
<1>3. i \in Work(c) /\ j \in Work(c) /\ i \in Nat /\ i <= j
  BY <1>1, SearchIs DEF In, Searching, Positive
<1>4. i \in Open /\ Number(i) \in Nat /\ Number(i) < Filled /\ j \in Nat
  BY <1>3, WorkIsOpen
<1>5. Number(j) \in Nat /\ Number(i) <= Number(j) /\ Filled \in Nat
  BY <1>3, <1>4, NumberIs, NumberMonotone, FilledIs DEF IInv, IndexInv
<1>6. Capacity(headers[h]) \in Nat \ {0}
  BY <1>2, HeaderIs, SizeIs DEF IInv, IndexInv
<1>7. EntryFor(c) = EntryOf(Number(i))
  BY <1>1, <1>2, <1>4, <1>5, <1>6, PositionMaps DEF EntryFor, EntryIn
<1>8. Number(i) \in Number(i)..(Filled - 1)
  BY <1>4, <1>5
<1>9. entries[EntryOf(Number(i))].key = BlockSize * Number(i) /\ entries[EntryOf(Number(i))].value # NoBlock
  BY <1>4, <1>8 DEF IInv, IndexInv, KeyInv, BlockInv
<1> QED BY <1>1, <1>3, <1>7, <1>9, NumberIs

LEMMA ReadsFromInv ==
  ASSUME IInv
  PROVE  ReadsOwn
  BY DEF IInv, WorkInv, WorkOk, ReadsOwn, In

LEMMA FreeFromInv ==
  ASSUME IInv
  PROVE  FreeUnused
<1>1. \A e \in DOMAIN entries : entries[e].value \notin freeList
  BY DEF IInv, IndexInv, PlacesInv
<1>2. At("install") => producer.block \notin freeList
  BY DEF IInv, IndexInv, PlacesInv
<1>3. ASSUME NEW c \in Consumers, consumer[c].pc = "empty" PROVE consumer[c].block \notin freeList
  <2>1. consumer[c].entry \in DOMAIN entries /\ consumer[c].block = entries[consumer[c].entry].value
    BY <1>3, EmptyIs DEF In
  <2> QED BY <1>1, <2>1
<1>4. ASSUME NEW c \in Consumers, consumer[c].pc = "unlink" PROVE consumer[c].block \notin freeList
  <2>1. consumer[c].entry \in DOMAIN entries /\ consumer[c].block = entries[consumer[c].entry].value
    BY <1>4 DEF IInv, IndexInv, OccupiedInv, In
  <2> QED BY <1>1, <2>1
<1>5. ASSUME NEW c \in Consumers, consumer[c].pc = "release" PROVE consumer[c].block \notin freeList
  BY <1>5 DEF IInv, IndexInv, PlacesInv, Releasing, In
<1> QED BY <1>1, <1>2, <1>3, <1>4, <1>5 DEF FreeUnused

\* The newest index finds the entry of an element that is published and not taken.
LEMMA NewestEntry ==
  ASSUME NoWrap, IInv, NEW j \in Nat, j < pushed, taken <= j
  PROVE  /\ EntryIn(blockIndex, blockIndex.tail, j % Span) = EntryOf(Number(j)) /\ j % Span = j
         /\ j \in Open
<1>1. pushed \in Nat /\ pushed < Span /\ taken \in Nat /\ Span \in Nat
  BY PushedSmall, TakenIs, SizesFacts DEF IInv
<1>2. j % Span = j
  <2>1. j < Span
    BY <1>1
  <2> QED BY <2>1, SmallIsSelf
<1>3. Filled \in Nat /\ Number(j) < Filled /\ Number(j) \in Nat
  BY FilledIs, NumberIs DEF IInv, IndexInv
<1>4. j \in Open
  <2>1. PICK f \in Int : f = BlockSize * Filled
    BY <1>3, BlockFacts
  <2>2. j < BlockSize * Filled
    BY <1>3, NumberLess
  <2>3. j \in 0..(f - 1)
    BY <2>1, <2>2
  <2> QED BY <2>1, <2>3 DEF Open
<1>5. PICK r, h, t : r = [index |-> j, left |-> 1] /\ h = Len(headers) /\ t = blockIndex.tail
  OBVIOUS
<1>6. r.index = j /\ r.left = 1 /\ r.left \in Positive /\ r.index + r.left - 1 = j /\ r.index + r.left <= pushed
  BY <1>1, <1>5 DEF Positive
<1>7. h \in DOMAIN headers /\ headers[h] = blockIndex /\ t \in DOMAIN headers[h].index
      /\ Capacity(headers[h]) \in Nat \ {0}
  BY <1>5, LastIs DEF IInv, IndexInv, Cap
<1>8. FindsFrom(h, t, r)
  <2>1. FindsFrom(Len(headers), headers[Len(headers)].tail, r)
    BY <1>6, NewestFinds DEF IInv
  <2> QED BY <1>5, <1>7, <2>1
<1>9. /\ PositionIn(headers[h], t, j) \in 0..(Capacity(headers[h]) - 1)
      /\ Maps(h, PositionIn(headers[h], t, j), Number(j), Number(j), Number(j))
  <2>1. Number(r.index + r.left - 1) < Filled /\ r.index \in Nat /\ r.index \in Open
    BY <1>3, <1>4, <1>6
  <2>2. /\ PositionIn(headers[h], t, r.index) \in 0..(Capacity(headers[h]) - 1)
        /\ Maps(h, PositionIn(headers[h], t, r.index), Number(r.index), Number(r.index), Number(r.index + r.left - 1))
    BY <1>6, <1>7, <1>8, <2>1, PositionIs
  <2> QED BY <1>6, <2>2
<1>10. headers[h].index[PositionIn(headers[h], t, j)] = EntryOf(Number(j))
  BY <1>3, <1>7, <1>9, PositionMaps
<1> QED BY <1>2, <1>4, <1>5, <1>7, <1>10 DEF EntryIn

(* The elements published and not taken *)

LEMMA ContentsHold ==
  ASSUME NoWrap, IInv
  PROVE  ContentsAre
<1>1. taken \in Nat /\ pushed \in Nat /\ taken <= pushed
  BY TakenIs
<1> DEFINE slot(i) == slots[entries[EntryIn(blockIndex, blockIndex.tail, i)].value][i % BlockSize]
<1>2. ASSUME NEW k \in 1..(pushed - taken) PROVE slot((taken + k - 1) % Span) = taken + k
  <2>1. PICK j \in Nat : j = taken + k - 1 /\ j < pushed /\ taken <= j /\ j + 1 = taken + k
    BY <1>1
  <2>2. EntryIn(blockIndex, blockIndex.tail, j % Span) = EntryOf(Number(j)) /\ j % Span = j /\ j \in Open
    BY <2>1, NewestEntry
  <2>3. slots[entries[EntryOf(Number(j))].value][j % BlockSize] = j + 1
    BY <2>1, <2>2 DEF IInv, IndexInv, BlockInv
  <2>4. slot(j % Span) = j + 1
    BY <2>2, <2>3
  <2> HIDE DEF slot
  <2> QED BY <2>1, <2>4
<1>3. Contents = [k \in 1..(pushed - taken) |-> slot((taken + k - 1) % Span)]
  BY DEF Contents
<1> HIDE DEF slot
<1> QED BY <1>2, <1>3 DEF ContentsAre

(* A first-in, first-out queue of the elements after a, up to b *)

Numbered(a, b) == [k \in 1..(b - a) |-> a + k]

LEMMA NumberedIs ==
  ASSUME NEW a \in Nat, NEW b \in Nat, a <= b
  PROVE  Numbered(a, b) \in Seq(Nat) /\ Len(Numbered(a, b)) = b - a
  BY DEF Numbered

LEMMA NumberedNone ==
  ASSUME NEW a \in Nat
  PROVE  Numbered(a, a) = <<>>
<1>1. Numbered(a, a) \in Seq(Nat) /\ Len(Numbered(a, a)) = 0
  BY NumberedIs
<1> HIDE DEF Numbered
<1> QED BY <1>1

LEMMA NumberedPut ==
  ASSUME NEW a \in Nat, NEW b \in Nat, a <= b
  PROVE  Numbered(a, b + 1) = Append(Numbered(a, b), b + 1)
  BY NumberedIs DEF Numbered

LEMMA NumberedGet ==
  ASSUME NEW a \in Nat, NEW b \in Nat, NEW n \in Nat, a + n <= b
  PROVE  Numbered(a + n, b) = SubSeq(Numbered(a, b), n + 1, Len(Numbered(a, b)))
<1>1. Numbered(a, b) \in Seq(Nat) /\ Len(Numbered(a, b)) = b - a
  BY NumberedIs
<1> QED BY <1>1 DEF Numbered

LEMMA FifoBegins == Init => Fifo!Init
<1> SUFFICES ASSUME Init PROVE Fifo!Init
  OBVIOUS
<1>1. pushed = 0 /\ taken = 0
  BY DEF Init, BaseInit
<1> DEFINE slot(i) == slots[entries[EntryIn(blockIndex, blockIndex.tail, i)].value][i % BlockSize]
<1>2. Contents = [k \in 1..(pushed - taken) |-> slot((taken + k - 1) % Span)]
  BY DEF Contents
<1> HIDE DEF slot
<1>3. 1..(pushed - taken) = {}
  BY <1>1
<1>4. Contents = <<>>
  BY <1>2, <1>3
<1> QED BY <1>1, <1>4 DEF Fifo!Init

\* What a step does to the two counts.
LEMMA CountsMove ==
  ASSUME ConsumerType, [Next]_vars
  PROVE  \/ pushed' = pushed + 1 /\ taken' = taken
         \/ pushed' = pushed /\ \E n \in Nat \ {0} : taken' = taken + n
         \/ pushed' = pushed /\ taken' = taken
<1>1. ASSUME Enqueue PROVE taken' = taken /\ (pushed' = pushed + 1 \/ pushed' = pushed)
  BY <1>1 DEF Enqueue, EnqueueBegin, NoIndex, InsertEntry, NewBlockIndex, NoBlockIndex, PublishEntry,
              GetBlock, GetNoBlock, InstallBlock, WriteElement, AdvanceTail
<1>2. ASSUME NEW c \in Consumers, Dequeue(c)
      PROVE  pushed' = pushed /\ (taken' = taken \/ \E n \in Nat \ {0} : taken' = taken + n)
  <2>1. CASE Take(c)
    <3>1. consumer[c] \in Taking
      BY <2>1, Shapes DEF Take, In
    <3>2. consumer[c].actual \in Nat \ {0}
      BY <3>1 DEF Taking, Positive
    <3> QED BY <2>1, <3>2 DEF Take, In
  <2>2. CASE \/ dequeue(c) \/ \E max \in 2..MaxBulk : dequeue_bulk(c, max)
             \/ CheckCount(c) \/ Claim(c) \/ Recheck(c) \/ Undo(c) \/ LoadHeader(c)
    BY <2>2 DEF dequeue, dequeue_bulk, CheckCount, Claim, Recheck, Undo, LoadHeader
  <2>3. CASE \/ LoadTail(c) \/ FindEntry(c) \/ ReadElements(c) \/ SetManyEmpty(c) \/ Unlink(c)
             \/ Release(c)
    BY <2>3 DEF LoadTail, FindEntry, ReadElements, SetManyEmpty, Unlink, Release
  <2> QED BY <1>2, <2>1, <2>2, <2>3 DEF Dequeue
<1>3. CASE UNCHANGED vars
  BY <1>3 DEF vars
<1> QED BY <1>1, <1>2, <1>3 DEF Next

ContentsKnown ==
  NoWrap /\ IInv => Contents = Numbered(taken, pushed) /\ taken \in Nat /\ pushed \in Nat /\ taken <= pushed

LEMMA ContentsNow == ContentsKnown
  BY ContentsHold, TakenIs DEF ContentsKnown, ContentsAre, Numbered

LEMMA FifoMoves ==
  ASSUME NoWrap, IInv, IInv', [Next]_vars
  PROVE  [Fifo!Put \/ Fifo!Get]_<<Contents, pushed>>
<1>1. Contents = Numbered(taken, pushed) /\ taken \in Nat /\ pushed \in Nat /\ taken <= pushed
  BY ContentsNow DEF ContentsKnown
<1>2. ContentsKnown'
  BY ContentsNow, PTL
<1>3. Contents' = Numbered(taken', pushed') /\ taken' \in Nat /\ pushed' \in Nat /\ taken' <= pushed'
  BY <1>2 DEF ContentsKnown, NoWrap, Numbered
<1>4. ConsumerType
  BY DEF IInv
<1>5. CASE pushed' = pushed + 1 /\ taken' = taken
  <2>1. Contents' = Append(Contents, pushed + 1)
    BY <1>1, <1>3, <1>5, NumberedPut
  <2> QED BY <1>5, <2>1 DEF Fifo!Put
<1>6. ASSUME pushed' = pushed, NEW n \in Nat \ {0}, taken' = taken + n
      PROVE  Fifo!Get
  <2>1. Contents' = SubSeq(Contents, n + 1, Len(Contents))
    BY <1>1, <1>3, <1>6, NumberedGet
  <2>2. Len(Contents) = pushed - taken
    BY <1>1, NumberedIs
  <2>3. n \in 1..Len(Contents)
    BY <1>1, <1>3, <1>6, <2>2
  <2> QED BY <1>6, <2>1, <2>3 DEF Fifo!Get
<1>7. CASE pushed' = pushed /\ taken' = taken
  BY <1>1, <1>3, <1>7
<1> QED BY <1>4, <1>5, <1>6, <1>7, CountsMove

(* The destructor *)

\* At rest only the elements nobody has taken are open, and no block is on its way.
LEMMA AtRestIs ==
  ASSUME IInv, AtRest
  PROVE  /\ At("idle") /\ ~Writing /\ ~At("install") /\ Releasing = {}
         /\ \A e \in DOMAIN entries : ~Unlinking(e)
         /\ Open = {i \in 0..(BlockSize * Filled - 1) : i >= taken}
<1>1. At("idle") /\ \A c \in Consumers : In(c, "idle")
  BY DEF AtRest
<1>2. ~Writing /\ ~At("install")
  BY <1>1 DEF At, Writing
<1>3. Releasing = {} /\ \A e \in DOMAIN entries : ~Unlinking(e)
  BY <1>1 DEF In, Releasing, Unlinking
<1>4. ASSUME NEW c \in Consumers PROVE Work(c) = {}
  <2>1. consumer[c].pc = "idle"
    BY <1>1 DEF In
  <2> QED BY <2>1 DEF Work, WorkIn, Reading, WorkOf, Rest, Searching
<1>5. Open = {i \in 0..(BlockSize * Filled - 1) : i >= taken}
  BY <1>4 DEF Open
<1> QED BY <1>1, <1>2, <1>3, <1>5

\* As long as there are open elements in the last block, the producer has it.
LEMMA LastIsOpen ==
  ASSUME NoWrap, IInv, AtRest, ForceFreeLastBlock
  PROVE  \E i \in Open : Number(i) = Filled - 1
<1>1. taken \in Nat /\ pushed \in Nat /\ taken <= pushed /\ tailIndex = pushed /\ headIndex = taken
  BY TakenIs DEF IInv, CountType
<1>2. CASE pushed % BlockSize # 0
  <2>1. pushed < BlockSize * Filled
    BY <1>2, FilledIs DEF IInv, IndexInv
  <2> QED BY <2>1, PushedIsOpen
<1>3. CASE pushed % BlockSize = 0
  <2>1. taken # pushed
    BY <1>1, <1>3 DEF ForceFreeLastBlock
  <2>2. PICK i \in Nat : i = pushed - 1 /\ i < pushed /\ taken <= i
    BY <1>1, <2>1
  <2>3. i \in Open
    BY <2>2, NewestEntry
  <2>4. PICK f \in Int : f = BlockSize * Filled /\ pushed = f /\ Filled \in Nat
    <3>1. ~Writing
      BY AtRestIs
    <3>2. Filled \in Nat /\ pushed = BlockSize * Filled
      BY <1>3, <3>1, FilledIs DEF IInv, IndexInv
    <3>3. BlockSize * Filled \in Int
      BY <3>2, BlockFacts
    <3> QED BY <3>2, <3>3
  <2>5. PICK p \in Int : p = Filled - 1
    BY <2>4
  <2>6. BlockSize * (p + 1) = BlockSize * p + BlockSize
    BY <2>5, BlockFacts
  <2>7. PICK g \in Int : g = BlockSize * p
    BY <2>5, BlockFacts
  <2>8. f = g + BlockSize
    BY <2>4, <2>5, <2>6, <2>7
  <2>9. g <= i /\ i < g + BlockSize
    BY <2>2, <2>4, <2>7, <2>8, BlockFacts
  <2>10. Number(i) = p
    BY <2>7, <2>9, NumberLess
  <2> QED BY <2>3, <2>5, <2>10
<1> QED BY <1>1, <1>2, <1>3

\* What the destructor gives back is in use.
LEMMA DestructedInUse ==
  ASSUME NoWrap, IInv, AtRest, NEW b \in Destructed
  PROVE  b \in (1..blocks) \ freeList
<1>1. /\ taken \in Nat /\ pushed \in Nat /\ taken <= pushed /\ IndexType /\ MemoryType /\ Shown \in Int
      /\ Filled \in Nat
  BY TakenIs, FilledIs DEF IInv, IndexInv
<1>2. ASSUME NEW i \in Open, b = entries[EntryOf(Number(i))].value
      PROVE  b \in (1..blocks) \ freeList
  <2>1. i \in Nat
    <3>1. PICK f \in Int : f = BlockSize * Filled
      BY <1>1, BlockFacts
    <3> QED BY <3>1 DEF Open
  <2>2. Number(i) \in Int
    BY <2>1, NumberIs
  <2>3. EntryOf(Number(i)) \in DOMAIN entries
    BY <1>1, <2>2, PlaceIs
  <2>4. entries[EntryOf(Number(i))].value \in 0..blocks
    BY <1>1, <2>3 DEF IndexType
  <2>5. b # NoBlock
    BY <1>2 DEF IInv, IndexInv, BlockInv
  <2>6. b \notin freeList
    BY <1>2, <2>3 DEF IInv, IndexInv, PlacesInv
  <2> QED BY <1>2, <2>4, <2>5, <2>6 DEF NoBlock
<1>3. ASSUME NEW k \in 1..(pushed - taken),
             b = entries[EntryIn(blockIndex, blockIndex.tail, (taken + k - 1) % Span)].value
      PROVE  b \in (1..blocks) \ freeList
  <2>1. PICK j \in Nat : j = taken + k - 1 /\ j < pushed /\ taken <= j
    BY <1>1
  <2>2. EntryIn(blockIndex, blockIndex.tail, j % Span) = EntryOf(Number(j)) /\ j \in Open
    BY <2>1, NewestEntry
  <2>3. b = entries[EntryOf(Number(j))].value
    BY <1>3, <2>1, <2>2
  <2> QED BY <1>2, <2>2, <2>3
<1>4. ASSUME ForceFreeLastBlock, b = producer.block
      PROVE  b \in (1..blocks) \ freeList
  <2>1. PICK i \in Open : Number(i) = Filled - 1
    BY <1>4, LastIsOpen
  <2>2. producer.block = entries[EntryOf(Filled - 1)].value
    BY <2>1, AtRestIs DEF IInv, IndexInv, ProducerInv
  <2> QED BY <1>2, <1>4, <2>1, <2>2
<1> QED BY <1>3, <1>4 DEF Destructed

\* What is in use the destructor gives back.
LEMMA InUseDestructed ==
  ASSUME NoWrap, IInv, AtRest, NEW b \in 1..blocks, b \notin freeList
  PROVE  b \in Destructed
<1>1. taken \in Nat /\ pushed \in Nat /\ taken <= pushed /\ tailIndex = pushed /\ Filled \in Nat /\ blocks \in Nat
  BY TakenIs, FilledIs DEF IInv, CountType, IndexInv, MemoryType
<1>0. /\ ~Writing /\ ~At("install") /\ Releasing = {} /\ \A e \in DOMAIN entries : ~Unlinking(e)
      /\ Open = {i \in 0..(BlockSize * Filled - 1) : i >= taken}
  BY AtRestIs
<1>2. b # NoBlock
  BY <1>1 DEF NoBlock
<1>3. PICK e \in DOMAIN entries : entries[e].value = b
  BY <1>0 DEF IInv, IndexInv, PlacesInv
<1>4. PICK p \in 0..(Filled - 1) : EntryOf(p) = e /\ OpenIn(p) # {}
  BY <1>2, <1>0, <1>3 DEF IInv, IndexInv, OccupiedInv
<1>5. PICK i \in Open : Number(i) = p
  BY <1>4 DEF OpenIn
<1>6. PICK f \in Int : f = BlockSize * Filled
  BY <1>1, BlockFacts
<1>7. i \in Nat /\ i < f /\ taken <= i
  BY <1>0, <1>1, <1>6
<1>8. CASE i < pushed
  <2>1. EntryIn(blockIndex, blockIndex.tail, i % Span) = e
    BY <1>4, <1>5, <1>7, <1>8, NewestEntry
  <2>2. PICK k \in 1..(pushed - taken) : taken + k - 1 = i
    <3>1. i - taken + 1 \in 1..(pushed - taken) /\ taken + (i - taken + 1) - 1 = i
      BY <1>1, <1>7, <1>8
    <3> QED BY <3>1
  <2>3. b = entries[EntryIn(blockIndex, blockIndex.tail, (taken + k - 1) % Span)].value
    BY <1>3, <2>1, <2>2
  <2> QED BY <2>3 DEF Destructed
<1>9. CASE i >= pushed
  <2>1. pushed < f
    BY <1>1, <1>7, <1>9
  <2>2. pushed % BlockSize # 0 /\ Number(pushed) = Filled - 1
    <3>1. pushed % BlockSize = 0 => pushed = f
      BY <1>0, <1>6, FilledIs DEF IInv, IndexInv
    <3>2. pushed % BlockSize # 0
      BY <1>1, <2>1, <3>1
    <3> QED BY <3>2, FilledIs DEF IInv, IndexInv
  <2>3. Number(pushed) <= Number(i) /\ Number(i) \in Nat
    BY <1>1, <1>7, <1>9, NumberMonotone, NumberIs
  <2>4. Number(i) = Filled - 1
    BY <1>1, <1>4, <1>5, <2>2, <2>3
  <2>5. producer.block = b
    BY <1>3, <1>4, <1>5, <2>4, <1>0 DEF IInv, IndexInv, ProducerInv
  <2>6. ForceFreeLastBlock
    BY <1>1, <2>2 DEF ForceFreeLastBlock
  <2> QED BY <1>2, <2>5, <2>6 DEF Destructed
<1> QED BY <1>1, <1>7, <1>8, <1>9

LEMMA DestructorFromInv ==
  ASSUME NoWrap, IInv
  PROVE  DestructorExact
<1> SUFFICES ASSUME AtRest
             PROVE  Destructed \cap freeList = {} /\ Destructed \cup freeList = 1..blocks
  BY DEF DestructorExact
<1>1. freeList \subseteq 1..blocks
  BY DEF IInv, IndexInv, MemoryType
<1> QED BY <1>1, DestructedInUse, InUseDestructed

\* Claims that came too late are taken back as far as they did, and no others
\* (concurrentqueue.h:2461-2474, 2522-2524).
THEOREM CountsAgreeTheorem == NoWrap => (Spec => []CountsAgree)
<1> SUFFICES ASSUME NoWrap PROVE Spec => []CountsAgree
  OBVIOUS
<1>1. IInv \/ Barren => CountsAgree
  BY CountsFromInv, BarrenHolds
<1> QED BY <1>1, Invariance, PTL

\* A dequeue finds the block of its index in the index it has loaded, while the producer reuses
\* entries or replaces the index: the assertion at concurrentqueue.h:2858.
THEOREM LookupFindsTheorem == NoWrap => (Spec => []LookupFinds)
<1> SUFFICES ASSUME NoWrap PROVE Spec => []LookupFinds
  OBVIOUS
<1>1. IInv \/ Barren => LookupFinds
  BY LookupFromInv, BarrenHolds
<1> QED BY <1>1, Invariance, PTL

\* Whoever took n indices reads the elements of those n enqueues (concurrentqueue.h:2451,
\* 2474-2483).
THEOREM ReadsOwnTheorem == NoWrap => (Spec => []ReadsOwn)
<1> SUFFICES ASSUME NoWrap PROVE Spec => []ReadsOwn
  OBVIOUS
<1>1. IInv \/ Barren => ReadsOwn
  BY ReadsFromInv, BarrenHolds
<1> QED BY <1>1, Invariance, PTL

\* A block on the free list is referred to by nobody (concurrentqueue.h:2508-2520, 2986-3004).
THEOREM FreeUnusedTheorem == NoWrap => (Spec => []FreeUnused)
<1> SUFFICES ASSUME NoWrap PROVE Spec => []FreeUnused
  OBVIOUS
<1>1. IInv \/ Barren => FreeUnused
  BY FreeFromInv, BarrenHolds
<1> QED BY <1>1, Invariance, PTL

\* The destructor gives back every block that is not on the free list, and none that is
\* (concurrentqueue.h:2355-2383).
THEOREM DestructorExactTheorem == NoWrap => (Spec => []DestructorExact)
<1> SUFFICES ASSUME NoWrap PROVE Spec => []DestructorExact
  OBVIOUS
<1>1. IInv \/ Barren => DestructorExact
  BY DestructorFromInv, BarrenHolds
<1> QED BY <1>1, Invariance, PTL

\* A step of the producer or of a consumer appends the newest element, removes the oldest ones,
\* or leaves the queue as it is (concurrentqueue.h:2393-2530).
THEOREM ImplementsFifoTheorem == NoWrap => (Spec => ImplementsFifo)
<1> SUFFICES ASSUME NoWrap PROVE Spec => ImplementsFifo
  OBVIOUS
<1>1. Init => Fifo!Init
  BY FifoBegins
<1>2. IInv /\ IInv' /\ [Next]_vars => [Fifo!Put \/ Fifo!Get]_<<Contents, pushed>>
  BY FifoMoves
<1>3. IInv /\ [Next]_vars => IInv'
  BY Preserved
<1>4. Barren /\ [Next]_vars => [Fifo!Put \/ Fifo!Get]_<<Contents, pushed>>
  BY BarrenKept, BarrenStays
<1>5. (IInv \/ Barren) /\ [Next]_vars => [Fifo!Put \/ Fifo!Get]_<<Contents, pushed>>
  BY <1>2, <1>3, <1>4
<1> QED BY <1>1, <1>5, Invariance, PTL DEF Spec, ImplementsFifo, Fifo!Spec
=============================================================================
