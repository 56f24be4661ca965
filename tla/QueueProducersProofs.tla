------------------------ MODULE QueueProducersProofs ------------------------
(***************************************************************************)
(* Module QueueProducers, for every number of threads and consumers, every *)
(* hash and however allocations fail.                                      *)
(*                                                                         *)
(* What an empty answer of try_dequeue says: the invariant follows what    *)
(* was there when the call began.  It can only still be in the queues the  *)
(* call has yet to look at, or where a claim of another consumer was in    *)
(* the way: what a thread enqueues meanwhile is newer, only producers on   *)
(* the list have elements, and without such a claim the counters a call    *)
(* reads say how many elements there are.                                  *)
(*                                                                         *)
(* Then, that every thread has a producer of its own.                      *)
(***************************************************************************)
EXTENDS QueueProducers, SequenceTheorems, FiniteSetTheorems, WellFoundedInduction, TLAPS

-----------------------------------------------------------------------------
(* The inductive invariant *)

Producers == DOMAIN queue
Listed == {list[i] : i \in DOMAIN list}
Holds(p) == {queue[p][i] : i \in DOMAIN queue[p]}

\* The elements enqueued so far, by their thread and number.
Sent == {e \in Threads \X Nat : e[2] <= sent[e[1]]}

ThreadStates ==
  [pc : {"idle", "clearFailed"}] \cup [pc : {"copy"}, main : Nat, value : Producers]
  \cup [pc : {"count"}, main : Nat]
  \cup [pc : {"resize", "locked", "fits", "clear"}, main : Nat, newCount : Int]
  \cup [pc : {"add", "insert"}, main : Nat, producer : Producers]

\* A consumer on one producer, and the part of that in which what it read of the claims counts.
Trying == {"overcommit", "compare", "claim", "recheck", "takeBack"}
Claiming == {"compare", "claim", "recheck"}

Counters == [headIndex : Nat, dequeueOptimisticCount : Nat, dequeueOvercommit : Nat]
Tries == [p : Nat, tail : Nat, overcommit : Nat, my : Nat, contended : BOOLEAN]

CallStates ==
  [pc : {"scan", "others"} \cup Trying, rest : Seq(Producers), best : Nat, bestSize : Nat,
   nonEmptyCount : Nat, waiting : SUBSET Sent, excused : SUBSET Producers, try : Tries]
ConsumerStates == [pc : {"idle"}] \cup CallStates

QueueTypes ==
  /\ sent \in [Threads -> Nat]
  /\ queue \in Seq(Seq(Threads \X Nat))
  /\ counters \in Seq(Counters) /\ Len(counters) = Len(queue)
  /\ list \in Seq(Producers)
  /\ thread \in [Threads -> ThreadStates]
  /\ consumer \in [Consumers -> ConsumerStates]
  /\ hashCount \in Int

\* What a search of a table gives is on the list.
Gives(table) ==
  /\ table = [capacity |-> table.capacity, entries |-> table.entries]
  /\ table.entries = [i \in DOMAIN table.entries |-> table.entries[i]]
  /\ \A i \in DOMAIN table.entries :
       table.entries[i] # None => table.entries[i][2] \in Listed

TableInv ==
  /\ Len(tables) \in Nat \ {0}
  /\ tables = [h \in 1..Len(tables) |-> tables[h]]
  /\ \A h \in 1..Len(tables) : Gives(tables[h])

\* What a thread has found, or will put into a table.
ThreadInv == \A t \in Threads :
  /\ In(t, "copy") => thread[t].value \in Listed
  /\ In(t, "insert") => thread[t].producer \in Listed

\* A producer that is not on the list has no elements; elements are of the past.
HoldsInv == \A p \in Producers : Holds(p) \subseteq Sent /\ (Holds(p) # {} => p \in Listed)

\* The claims on p that are not settled, and those of them that may still be good.
Claimers(p) == {d \in Consumers : consumer[d].pc \in {"recheck", "takeBack"} /\ consumer[d].try.p = p}
Hopeful(p) == {d \in Consumers : consumer[d].pc = "recheck" /\ consumer[d].try.p = p}

\* Every claim ever made took an element, was taken back or is not settled.
TallyInv == \A p \in Producers :
  /\ IsFiniteSet(Claimers(p))
  /\ counters[p].dequeueOptimisticCount =
       counters[p].dequeueOvercommit + counters[p].headIndex + Cardinality(Claimers(p))

Ordinal(d) == consumer[d].try.my - consumer[d].try.overcommit

\* Of any claims that may still be good, either there is an element for each or one comes too late.
ElementInv == \A p \in Producers : \A D \in SUBSET Hopeful(p) :
  \/ D = {}
  \/ counters[p].headIndex + Cardinality(D) <= TailIndex(p)
  \/ \E d \in D : Ordinal(d) >= counters[p].headIndex + Cardinality(D) - 1

Remains(r, p) == Holds(p) \cap r.waiting # {}
Ahead(r, p) == \E i \in DOMAIN r.rest : r.rest[i] = p

\* What consumer c in state r has read of a producer, and claimed there.
TryOk(c, r) == r.pc \in Trying =>
  /\ r.try.p \in Producers
  /\ r.try.p # r.best => r.rest # <<>> /\ Head(r.rest) = r.try.p
  /\ r.pc \in {"overcommit", "compare"} =>
       \A i \in DOMAIN queue[r.try.p] :
         queue[r.try.p][i] \in r.waiting => counters[r.try.p].headIndex + i <= r.try.tail
  /\ r.pc \in Claiming => r.try.overcommit <= counters[r.try.p].dequeueOvercommit
  /\ r.pc \in Claiming /\ ~r.try.contended =>
       /\ InTheWay(c, r.try.p) = {}
       /\ r.try.overcommit = counters[r.try.p].dequeueOvercommit
       /\ r.pc = "recheck" => r.try.my = r.try.overcommit + counters[r.try.p].headIndex
  /\ r.pc = "takeBack" /\ Remains(r, r.try.p) => r.try.p \in r.excused

\* What was there when the call began and still is, is ahead of a consumer in state r, unless it
\* is where a claim was in the way.
Covered(r) ==
  /\ r.pc = "scan" /\ (r.bestSize > 0 \/ r.nonEmptyCount > 0) => r.best \in Producers
  /\ r.pc = "scan" /\ r.nonEmptyCount = 0 => \A p \in Producers : Remains(r, p) => Ahead(r, p)
  /\ r.pc = "others" \/ (r.pc \in Trying /\ r.try.p # r.best) =>
       \A p \in Producers \ r.excused : Remains(r, p) => Ahead(r, p) /\ p # r.best

ConsumerInv == \A c \in Consumers : \A r \in {consumer[c]} : TryOk(c, r) /\ Covered(r)

IInv ==
  /\ QueueTypes /\ TableInv /\ ThreadInv /\ HoldsInv
  /\ TallyInv /\ ElementInv /\ ConsumerInv

-----------------------------------------------------------------------------
(* The states of threads and consumers *)

\* A thread in each part of get_or_add_implicit_producer.
LEMMA ThreadAt ==
  ASSUME QueueTypes, NEW t \in Threads
  PROVE  /\ In(t, "copy") => thread[t] \in [pc : {"copy"}, main : Nat, value : Producers]
         /\ In(t, "count") => thread[t] \in [pc : {"count"}, main : Nat]
         /\ thread[t].pc \in {"resize", "locked", "fits", "clear"} =>
              thread[t] \in [pc : {"resize", "locked", "fits", "clear"}, main : Nat, newCount : Int]
         /\ thread[t].pc \in {"add", "insert"} =>
              thread[t] \in [pc : {"add", "insert"}, main : Nat, producer : Producers]
<1>1. thread[t] \in ThreadStates
  BY DEF QueueTypes
<1> QED BY <1>1 DEF ThreadStates, In

\* A consumer in a call.
LEMMA ConsumerAt ==
  ASSUME QueueTypes, NEW c \in Consumers, consumer[c].pc # "idle"
  PROVE  consumer[c] \in CallStates
<1>1. consumer[c] \in ConsumerStates
  BY DEF QueueTypes
<1> QED BY <1>1 DEF ConsumerStates

\* The fields of a call.
LEMMA Fields ==
  ASSUME NEW r \in CallStates
  PROVE  /\ r = [pc |-> r.pc, rest |-> r.rest, best |-> r.best, bestSize |-> r.bestSize,
                 nonEmptyCount |-> r.nonEmptyCount, waiting |-> r.waiting, excused |-> r.excused,
                 try |-> r.try]
         /\ r.pc \in {"scan", "others"} \cup Trying /\ r.rest \in Seq(Producers)
         /\ r.best \in Nat /\ r.bestSize \in Nat /\ r.nonEmptyCount \in Nat
         /\ r.waiting \subseteq Sent /\ r.excused \subseteq Producers
         /\ r.try \in Tries
         /\ r.try.p \in Nat /\ r.try.tail \in Nat /\ r.try.overcommit \in Nat /\ r.try.my \in Nat
BY DEF CallStates, Tries

\* The producers, their elements and their counters.
LEMMA ProducersAre ==
  ASSUME QueueTypes
  PROVE  /\ Len(queue) \in Nat /\ Producers = 1..Len(queue) /\ Producers \subseteq Nat
         /\ \A p \in Producers :
              /\ queue[p] \in Seq(Threads \X Nat)
              /\ Len(queue[p]) \in Nat /\ DOMAIN queue[p] = 1..Len(queue[p])
              /\ counters[p] \in Counters
              /\ counters[p].headIndex \in Nat /\ counters[p].dequeueOptimisticCount \in Nat
              /\ counters[p].dequeueOvercommit \in Nat
<1>1. Len(queue) \in Nat /\ Producers = 1..Len(queue)
  BY LenProperties DEF QueueTypes, Producers
<1>2. ASSUME NEW p \in Producers
      PROVE  queue[p] \in Seq(Threads \X Nat) /\ counters[p] \in Counters
  BY <1>1, ElementOfSeq DEF QueueTypes
<1>3. ASSUME NEW p \in Producers
      PROVE  Len(queue[p]) \in Nat /\ DOMAIN queue[p] = 1..Len(queue[p])
  BY <1>2, LenProperties
<1> QED BY <1>1, <1>2, <1>3 DEF Counters

\* Sequences over a larger set.
LEMMA SeqGrows == ASSUME NEW S, NEW R, S \subseteq R PROVE Seq(S) \subseteq Seq(R)
<1> SUFFICES ASSUME NEW q \in Seq(S) PROVE q \in Seq(R)
  OBVIOUS
<1>1. Len(q) \in Nat /\ q = [i \in 1..Len(q) |-> q[i]] /\ \A i \in 1..Len(q) : q[i] \in S
  BY LenProperties, ElementOfSeq
<1>2. \A i \in 1..Len(q) : q[i] \in R
  BY <1>1
<1>3. [i \in 1..Len(q) |-> q[i]] \in Seq(R)
  BY <1>1, <1>2, IsASeq
<1> QED BY <1>1, <1>3

\* More producers and more elements keep the types.
LEMMA StatesGrow ==
  ASSUME Producers \subseteq Producers', Sent \subseteq Sent'
  PROVE  ThreadStates \subseteq ThreadStates' /\ ConsumerStates \subseteq ConsumerStates'
<1>1. Seq(Producers) \subseteq Seq(Producers')
  BY SeqGrows
<1>2. ThreadStates \subseteq ThreadStates'
  BY DEF ThreadStates
<1>3. SUBSET Sent \subseteq SUBSET Sent' /\ SUBSET Producers \subseteq SUBSET Producers'
  OBVIOUS
<1>4. CallStates \subseteq CallStates'
  BY <1>1, <1>3 DEF CallStates
<1> QED BY <1>2, <1>4 DEF ConsumerStates

-----------------------------------------------------------------------------
(* What a step leaves as it was *)

\* What was there and is left has kept its place in the queue, counted from its beginning.
PlacesKept(S) == \A p \in Producers' : \A i \in DOMAIN queue'[p] : queue'[p][i] \in S =>
  /\ p \in Producers
  /\ \E j \in DOMAIN queue[p] :
       /\ queue[p][j] = queue'[p][i]
       /\ counters'[p].headIndex + i = counters[p].headIndex + j

\* A consumer in state r while another, or a thread, makes a step.
LEMMA ConsumerStays ==
  ASSUME NEW d \in Consumers, NEW r, TryOk(d, r), Covered(r),
         Producers \subseteq Producers', r.pc # "idle" => PlacesKept(r.waiting),
         r.pc \in Claiming =>
           /\ r.try.overcommit <= counters'[r.try.p].dequeueOvercommit
           /\ ~r.try.contended =>
                /\ counters'[r.try.p].dequeueOvercommit = counters[r.try.p].dequeueOvercommit
                /\ counters'[r.try.p].headIndex = counters[r.try.p].headIndex
                /\ InTheWay(d, r.try.p)' \subseteq InTheWay(d, r.try.p)
  PROVE  TryOk(d, r)' /\ Covered(r)'
<1>1. r.pc # "idle" => \A p \in Producers' : Remains(r, p)' => p \in Producers /\ Remains(r, p)
  <2> SUFFICES ASSUME r.pc # "idle", NEW p \in Producers', Remains(r, p)'
               PROVE  p \in Producers /\ Remains(r, p)
    OBVIOUS
  <2>1. PICK i \in DOMAIN queue'[p] : queue'[p][i] \in r.waiting
    BY DEF Remains, Holds
  <2>2. p \in Producers /\ \E j \in DOMAIN queue[p] : queue[p][j] = queue'[p][i]
    BY <2>1 DEF PlacesKept
  <2> QED BY <2>1, <2>2 DEF Remains, Holds
<1>2. \A p : Ahead(r, p)' = Ahead(r, p)
  BY DEF Ahead
<1>3. Covered(r)'
  <2>1. CASE r.pc = "idle"
    BY <2>1 DEF Covered, Trying
  <2>2. CASE r.pc # "idle"
    BY <1>1, <1>2, <2>2 DEF Covered
  <2> QED BY <2>1, <2>2
<1>4. TryOk(d, r)'
  <2> SUFFICES ASSUME r.pc \in Trying PROVE TryOk(d, r)'
    BY DEF TryOk
  <2>0. r.pc # "idle" /\ r.try.p \in Producers /\ r.try.p \in Producers'
    BY DEF Trying, TryOk
  <2>1. ASSUME r.pc \in {"overcommit", "compare"},
               NEW i \in DOMAIN queue'[r.try.p], queue'[r.try.p][i] \in r.waiting
        PROVE  counters'[r.try.p].headIndex + i <= r.try.tail
    <3>1. PICK j \in DOMAIN queue[r.try.p] :
            /\ queue[r.try.p][j] = queue'[r.try.p][i]
            /\ counters'[r.try.p].headIndex + i = counters[r.try.p].headIndex + j
      BY <2>0, <2>1 DEF PlacesKept
    <3>2. counters[r.try.p].headIndex + j <= r.try.tail
      BY <2>1, <3>1 DEF TryOk
    <3> QED BY <3>1, <3>2
  <2>2. r.pc \in Claiming /\ ~r.try.contended => InTheWay(d, r.try.p)' = {}
    BY DEF TryOk
  <2>3. r.pc = "takeBack" /\ Remains(r, r.try.p)' => r.try.p \in r.excused
    BY <1>1, <2>0 DEF TryOk
  <2>4. r.try.p # r.best => r.rest # <<>> /\ Head(r.rest) = r.try.p
    BY DEF TryOk
  <2>5. r.pc \in Claiming /\ ~r.try.contended =>
          /\ r.try.overcommit = counters'[r.try.p].dequeueOvercommit
          /\ r.pc = "recheck" => r.try.my = r.try.overcommit + counters'[r.try.p].headIndex
    BY DEF TryOk
  <2> QED BY <2>0, <2>1, <2>2, <2>3, <2>4, <2>5 DEF TryOk
<1> QED BY <1>3, <1>4

\* The invariant says so of every consumer.
LEMMA ConsumerOk ==
  ASSUME IInv, NEW d \in Consumers
  PROVE  TryOk(d, consumer[d]) /\ Covered(consumer[d])
BY DEF IInv, ConsumerInv

\* All consumers stay when none of them moves.
LEMMA ConsumersStay ==
  ASSUME IInv, consumer' = consumer, Producers \subseteq Producers', PlacesKept(Sent),
         \A p \in Producers : counters'[p] = counters[p]
  PROVE  ConsumerInv'
<1> SUFFICES ASSUME NEW d \in Consumers, NEW r \in {consumer[d]} PROVE TryOk(d, r)' /\ Covered(r)'
  BY DEF ConsumerInv
<1>1. TryOk(d, r) /\ Covered(r)
  BY DEF IInv, ConsumerInv
<1>2. r.pc # "idle" => r.waiting \subseteq Sent
  BY ConsumerAt, Fields DEF IInv
<1>3. r.pc # "idle" => PlacesKept(r.waiting)
  BY <1>2 DEF PlacesKept
<1>4. \A p : InTheWay(d, p)' = InTheWay(d, p)
  BY DEF InTheWay
<1>5. r.pc \in Claiming => r.try.p \in Producers /\ r.try.overcommit <= counters[r.try.p].dequeueOvercommit
  BY <1>1 DEF TryOk, Claiming, Trying
<1> QED BY <1>1, <1>3, <1>4, <1>5, ConsumerStays

LEMMA UnchangedKeep ==
  ASSUME IInv, UNCHANGED <<consumer, queue, counters>>
  PROVE  ConsumerInv'
<1>1. PlacesKept(Sent) /\ Producers' = Producers
  BY DEF PlacesKept, Producers
<1> QED BY <1>1, ConsumersStay

LEMMA ClaimsStay ==
  ASSUME TallyInv, ElementInv, UNCHANGED <<consumer, queue, counters>>
  PROVE  TallyInv' /\ ElementInv'
<1>1. \A p : Claimers(p)' = Claimers(p) /\ Hopeful(p)' = Hopeful(p) /\ TailIndex(p)' = TailIndex(p)
  BY DEF Claimers, Hopeful, TailIndex
<1>2. \A d : Ordinal(d)' = Ordinal(d)
  BY DEF Ordinal
<1>3. Producers' = Producers
  BY DEF Producers
<1>4. TallyInv'
  BY <1>1, <1>3 DEF TallyInv
<1> QED BY <1>1, <1>2, <1>3, <1>4 DEF ElementInv

LEMMA CountersStay ==
  ASSUME QueueTypes, UNCHANGED counters, Len(queue') = Len(queue)
  PROVE  counters' \in Seq(Counters) /\ Len(counters') = Len(queue')
BY DEF QueueTypes

-----------------------------------------------------------------------------
(* The enqueuing threads *)

\* A thread goes on, with what it has found on the list.
LEMMA ThreadMoves ==
  ASSUME IInv, NEW t \in Threads, NEW r \in ThreadStates, Go(t, r),
         UNCHANGED <<list, queue, counters, sent, consumer>>, hashCount' \in Int, TableInv',
         r.pc = "copy" => r.value \in Listed, r.pc = "insert" => r.producer \in Listed
  PROVE  IInv'
<1>1. /\ thread' \in [Threads -> ThreadStates] /\ thread'[t] = r
      /\ \A u \in Threads : u # t => thread'[u] = thread[u]
  BY DEF Go, IInv, QueueTypes
<1>2. ThreadStates' = ThreadStates /\ ConsumerStates' = ConsumerStates /\ Listed' = Listed
  BY DEF ThreadStates, ConsumerStates, CallStates, Producers, Sent, Listed
<1>3. QueueTypes'
  BY <1>1, <1>2 DEF IInv, QueueTypes, Producers
<1>5. ThreadInv'
  BY <1>1, <1>2 DEF IInv, ThreadInv, In
<1>6. HoldsInv'
  BY <1>2 DEF IInv, HoldsInv, Producers, Holds, Sent
<1>7. TallyInv' /\ ElementInv' /\ ConsumerInv'
  BY ClaimsStay, UnchangedKeep DEF IInv
<1> QED BY <1>3, <1>5, <1>6, <1>7 DEF IInv

\* In particular when the tables stay.
LEMMA ThreadGoes ==
  ASSUME IInv, NEW t \in Threads, NEW r \in ThreadStates, Go(t, r),
         UNCHANGED <<list, queue, counters, sent, tables, consumer>>, hashCount' \in Int,
         r.pc = "copy" => r.value \in Listed, r.pc = "insert" => r.producer \in Listed
  PROVE  IInv'
<1>1. TableInv'
  BY DEF IInv, TableInv, Gives, Listed
<1> QED BY <1>1, ThreadMoves

\* A set of positions that is not empty has a last one.
LEMMA MaxIsIn ==
  ASSUME NEW n \in Nat, NEW hs \in SUBSET (1..n), hs # {}
  PROVE  Max(hs) \in hs
<1> DEFINE from == {n - h : h \in hs}
<1>1. from \subseteq Nat /\ from # {}
  <2>1. \A h \in hs : n - h \in Nat
    OBVIOUS
  <2>2. PICK h : h \in hs
    OBVIOUS
  <2>3. n - h \in from
    BY <2>2
  <2> QED BY <2>1, <2>3
<1>2. PICK m \in from : \A k \in from : ~ (<<k, m>> \in OpToRel(<, Nat))
  <2> HIDE DEF from
  <2> QED BY <1>1, NatLessThanWellFounded, WFMin
<1>3. \A k \in from : k >= m
  <2> SUFFICES ASSUME NEW k \in from PROVE k >= m
    OBVIOUS
  <2>1. k \in Nat /\ m \in Nat
    BY <1>1
  <2>2. ~ (<<k, m>> \in OpToRel(<, Nat))
    BY <1>2
  <2>3. ~ (k < m)
    BY <2>1, <2>2 DEF OpToRel
  <2> QED BY <2>1, <2>3
<1>4. PICK h \in hs : m = n - h
  OBVIOUS
<1>5. \A k \in hs : h >= k
  BY <1>3, <1>4
<1> QED BY <1>5 DEF Max

\* What a slot of thread t gives is on the list.
LEMMA SlotGives ==
  ASSUME IInv, NEW t \in Threads, NEW h \in 1..Len(tables), NEW i \in Slots(t, h)
  PROVE  tables[h].entries[i][2] \in Listed
BY DEF IInv, TableInv, Gives, Slots

\* What is on the list is a producer.
LEMMA ListedProducers == ASSUME IInv PROVE Listed \subseteq Producers
<1>1. \A i \in 1..Len(list) : list[i] \in Producers
  BY ElementOfSeq DEF IInv, QueueTypes
<1>2. DOMAIN list = 1..Len(list)
  BY LenProperties DEF IInv, QueueTypes
<1> QED BY <1>1, <1>2 DEF Listed

\* The steps of a thread that add no table, producer or element.
LEMMA ThreadStep ==
  ASSUME IInv, NEW t \in Threads,
         \/ FoundOlder(t) \/ NotFound(t) \/ Count(t) \/ TestAndSet(t) \/ AlreadyResized(t)
         \/ ResizeFails(t) \/ Clear(t) \/ Wait(t) \/ CreateFails(t)
  PROVE  IInv'
<1>0. QueueTypes /\ hashCount \in Int /\ Len(tables) \in Nat /\ DOMAIN tables = 1..Len(tables)
  BY DEF IInv, QueueTypes, TableInv
<1>1. CASE FoundOlder(t)
  <2>1. PICK hs : hs = {h \in DOMAIN tables : Slots(t, h) # {}}
    OBVIOUS
  <2>2. hs # {} /\ hs \subseteq 1..Len(tables)
    BY <1>0, <1>1, <2>1 DEF FoundOlder
  <2>3. PICK i \in Slots(t, Max(hs)) :
          Go(t, [pc |-> "copy", main |-> Len(tables), value |-> tables[Max(hs)].entries[i][2]])
    BY <1>1, <2>1 DEF FoundOlder
  <2>4. Max(hs) \in 1..Len(tables)
    BY <1>0, <2>2, MaxIsIn
  <2>5. PICK v : v = tables[Max(hs)].entries[i][2]
    OBVIOUS
  <2>6. v \in Listed /\ v \in Producers
    BY <2>3, <2>4, <2>5, SlotGives, ListedProducers
  <2>7. [pc |-> "copy", main |-> Len(tables), value |-> v] \in ThreadStates
    BY <1>0, <2>6 DEF ThreadStates
  <2>8. UNCHANGED <<list, queue, counters, sent, tables, consumer>> /\ hashCount' = hashCount
    BY <1>1 DEF FoundOlder
  <2>9. Go(t, [pc |-> "copy", main |-> Len(tables), value |-> v])
    BY <2>3, <2>5
  <2> QED BY <1>0, <2>6, <2>7, <2>8, <2>9, ThreadGoes
<1>2. CASE NotFound(t)
  <2>1. [pc |-> "count", main |-> Len(tables)] \in ThreadStates
    BY <1>0 DEF ThreadStates
  <2> QED BY <1>0, <1>2, <2>1, ThreadGoes DEF NotFound
<1>3. CASE Count(t)
  <2>1. thread[t].main \in Nat /\ hashCount + 1 \in Int
    BY <1>0, <1>3, ThreadAt DEF Count
  <2>2. [pc |-> "resize", main |-> thread[t].main, newCount |-> hashCount + 1] \in ThreadStates
    BY <2>1 DEF ThreadStates
  <2> QED BY <1>3, <2>1, <2>2, ThreadGoes DEF Count
<1>4. CASE TestAndSet(t)
  <2>1. PICK s \in {"locked", "fits"} : Go(t, [thread[t] EXCEPT !.pc = s])
    BY <1>4 DEF TestAndSet
  <2>2. [thread[t] EXCEPT !.pc = s] \in ThreadStates /\ [thread[t] EXCEPT !.pc = s].pc = s
    BY <1>0, <1>4, ThreadAt DEF TestAndSet, ThreadStates, In
  <2> QED BY <1>0, <1>4, <2>1, <2>2, ThreadGoes DEF TestAndSet
<1>5. CASE AlreadyResized(t)
  <2>1. PICK r : r = [thread[t] EXCEPT !.pc = "clear", !.main = Len(tables)]
    OBVIOUS
  <2>2. r \in ThreadStates /\ r.pc = "clear"
    BY <1>0, <1>5, <2>1, ThreadAt DEF AlreadyResized, ThreadStates, In
  <2> QED BY <1>0, <1>5, <2>1, <2>2, ThreadGoes DEF AlreadyResized
<1>6. CASE ResizeFails(t)
  <2>1. [pc |-> "clearFailed"] \in ThreadStates /\ hashCount - 1 \in Int
    BY <1>0 DEF ThreadStates
  <2> QED BY <1>6, <2>1, ThreadGoes DEF ResizeFails
<1>7. CASE Clear(t)
  <2>1. PICK r : r = IF In(t, "clear") THEN [thread[t] EXCEPT !.pc = "fits"] ELSE Idle
    OBVIOUS
  <2>2. r \in ThreadStates /\ r.pc \in {"fits", "idle"}
    BY <1>0, <1>7, <2>1, ThreadAt DEF Clear, ThreadStates, In, Idle
  <2> QED BY <1>0, <1>7, <2>1, <2>2, ThreadGoes DEF Clear
<1>8. CASE Wait(t)
  <2>1. PICK r : r = [thread[t] EXCEPT !.pc = "resize", !.main = Len(tables)]
    OBVIOUS
  <2>2. r \in ThreadStates /\ r.pc = "resize"
    BY <1>0, <1>8, <2>1, ThreadAt DEF Wait, ThreadStates, In
  <2> QED BY <1>0, <1>8, <2>1, <2>2, ThreadGoes DEF Wait
<1>9. CASE CreateFails(t)
  <2>1. Idle \in ThreadStates /\ Idle.pc = "idle" /\ hashCount - 1 \in Int
    BY <1>0 DEF ThreadStates, Idle
  <2> QED BY <1>9, <2>1, ThreadGoes DEF CreateFails
<1> QED BY <1>1, <1>2, <1>3, <1>4, <1>5, <1>6, <1>7, <1>8, <1>9

\* Resize: the new table is empty.
LEMMA ResizeStep == ASSUME IInv, NEW t \in Threads, Resize(t) PROVE IInv'
<1>0. QueueTypes /\ Len(tables) \in Nat \ {0} /\ hashCount' \in Int /\ Listed' = Listed
  BY DEF IInv, QueueTypes, TableInv, Resize, Listed
<1>1. PICK n : n = Doubled(Capacity(Len(tables)), thread[t].newCount)
  OBVIOUS
<1>2. PICK new : new = NewTable(n)
  OBVIOUS
<1>3. Gives(new)
  BY <1>2 DEF Gives, NewTable, None
<1>4. tables' = Append(tables, new)
  BY <1>1, <1>2 DEF Resize
<1>5. tables \in Seq({tables[h] : h \in 1..Len(tables)} \cup {new})
  <2>1. tables = [h \in 1..Len(tables) |-> tables[h]]
    BY DEF IInv, TableInv
  <2>2. [h \in 1..Len(tables) |-> tables[h]] \in Seq({tables[h] : h \in 1..Len(tables)} \cup {new})
    BY <1>0, IsASeq
  <2> QED BY <2>1, <2>2
<1>6. /\ Len(tables') = Len(tables) + 1
      /\ \A h \in 1..Len(tables) : tables'[h] = tables[h]
      /\ tables'[Len(tables) + 1] = new
      /\ tables' \in Seq({tables[h] : h \in 1..Len(tables)} \cup {new})
  BY <1>4, <1>5, AppendProperties
<1>7. tables' = [h \in 1..Len(tables') |-> tables'[h]]
  BY <1>6, LenProperties
<1>8. ASSUME NEW h \in 1..Len(tables') PROVE Gives(tables'[h])
  <2>1. CASE h = Len(tables) + 1
    BY <1>3, <1>6, <2>1
  <2>2. CASE h \in 1..Len(tables)
    BY <1>6, <2>2 DEF IInv, TableInv
  <2> QED BY <1>0, <1>6, <2>1, <2>2
<1>9. TableInv'
  <2>1. \A h \in 1..Len(tables') : Gives(tables[h])'
    BY <1>0, <1>8 DEF Gives
  <2> QED BY <1>0, <1>6, <1>7, <2>1 DEF TableInv
<1>10. PICK r : r = [thread[t] EXCEPT !.pc = "clear", !.main = Len(tables) + 1]
  OBVIOUS
<1>11. r \in ThreadStates /\ r.pc = "clear"
  <2>1. thread[t] \in [pc : {"resize", "locked", "fits", "clear"}, main : Nat, newCount : Int]
    BY <1>0, ThreadAt DEF Resize, In
  <2>2. Len(tables) + 1 \in Nat
    BY <1>0
  <2> QED BY <1>10, <2>1, <2>2 DEF ThreadStates
<1> QED BY <1>0, <1>9, <1>10, <1>11, ThreadMoves DEF Resize

\* What a thread puts into a table is on the list.
LEMMA InsertKeeps ==
  ASSUME IInv, NEW t \in Threads, NEW h, NEW p \in Listed, Insert(t, h, p), list' = list
  PROVE  TableInv'
<1>0. Listed' = Listed
  BY DEF Listed
<1>1. PICK s : tables' = [tables EXCEPT ![h].entries[s] = <<t, p>>]
  BY DEF Insert
<1>2. PICK table : table = [tables[h] EXCEPT !.entries[s] = <<t, p>>]
  OBVIOUS
<1>3. tables' = [tables EXCEPT ![h] = table]
  BY <1>1, <1>2
<1>4. CASE h \in 1..Len(tables)
  <2>1. Gives(tables[h])
    BY <1>4 DEF IInv, TableInv
  <2>2. PICK old : old = tables[h].entries
    OBVIOUS
  <2>3. table = [capacity |-> tables[h].capacity, entries |-> [old EXCEPT ![s] = <<t, p>>]]
    BY <1>2, <2>1, <2>2 DEF Gives
  <2>4. Gives(table)
    BY <2>1, <2>2, <2>3 DEF Gives
  <2>5. tables' = [k \in 1..Len(tables) |-> IF k = h THEN table ELSE tables[k]]
    BY <1>3 DEF IInv, TableInv
  <2>6. Len(tables') = Len(tables)
    <3>1. [k \in 1..Len(tables) |-> IF k = h THEN table ELSE tables[k]]
            \in Seq({tables[k] : k \in 1..Len(tables)} \cup {table})
      BY IsASeq DEF IInv, TableInv
    <3> QED BY <2>5, <3>1, LenProperties DEF IInv, TableInv
  <2>7. \A k \in 1..Len(tables') : Gives(tables'[k])
    BY <2>4, <2>5, <2>6 DEF IInv, TableInv
  <2>8. \A k \in 1..Len(tables') : Gives(tables[k])'
    BY <1>0, <2>7 DEF Gives
  <2> QED BY <2>5, <2>6, <2>8 DEF IInv, TableInv
<1>5. CASE h \notin 1..Len(tables)
  <2>1. tables' = tables
    BY <1>3, <1>5 DEF IInv, TableInv
  <2> QED BY <1>0, <2>1 DEF IInv, TableInv, Gives
<1> QED BY <1>4, <1>5

\* An element enqueued with a producer on the list is newer than what any call saw.
LEMMA EnqueuedKeeps ==
  ASSUME IInv, NEW t \in Threads, NEW p \in Listed, Enqueued(t, p), TableInv',
         thread' = thread \/ Go(t, Idle), UNCHANGED <<list, consumer, counters, hashCount>>
  PROVE  IInv'
<1>0. QueueTypes /\ p \in Producers /\ Listed' = Listed
  BY ListedProducers DEF IInv, Listed
<1>1. PICK e : e = <<t, sent[t] + 1>>
  OBVIOUS
<1>2. /\ e \in Threads \X Nat /\ e \notin Sent
      /\ sent' = [sent EXCEPT ![t] = sent[t] + 1] /\ sent' \in [Threads -> Nat]
      /\ queue' = [queue EXCEPT ![p] = Append(queue[p], e)]
  BY <1>0, <1>1 DEF Enqueued, QueueTypes, Sent
<1>3. Sent \subseteq Sent' /\ e \in Sent'
  BY <1>0, <1>1, <1>2 DEF Sent, QueueTypes
<1>4. /\ queue \in Seq(Seq(Threads \X Nat)) /\ p \in 1..Len(queue)
      /\ queue[p] \in Seq(Threads \X Nat)
  BY <1>0, LenProperties, ElementOfSeq DEF QueueTypes, Producers
<1>5. PICK q : q = Append(queue[p], e)
  OBVIOUS
<1>6. /\ q \in Seq(Threads \X Nat) /\ Len(q) = Len(queue[p]) + 1
      /\ \A i \in 1..Len(queue[p]) : q[i] = queue[p][i]
      /\ q[Len(queue[p]) + 1] = e
  BY <1>2, <1>4, <1>5, AppendProperties
<1>7. /\ queue' \in Seq(Seq(Threads \X Nat)) /\ Len(queue') = Len(queue)
      /\ \A r \in 1..Len(queue) : queue'[r] = IF r = p THEN q ELSE queue[r]
  BY <1>2, <1>4, <1>5, <1>6, ExceptSeq
<1>8. Producers' = Producers
  BY <1>4, <1>7, LenProperties DEF Producers
<1>9. ASSUME NEW r \in Producers
      PROVE  Holds(r)' \subseteq Holds(r) \cup {e} /\ (r # p => Holds(r)' = Holds(r))
  <2>1. CASE r = p
    <3>1. queue'[r] = q /\ DOMAIN q = 1..Len(q) /\ DOMAIN queue[p] = 1..Len(queue[p])
      BY <1>4, <1>6, <1>7, <2>1, LenProperties
    <3>2. ASSUME NEW i \in 1..Len(q) PROVE q[i] \in Holds(r) \cup {e}
      <4>1. CASE i = Len(queue[p]) + 1
        BY <1>6, <4>1
      <4>2. CASE i \in 1..Len(queue[p])
        BY <1>6, <2>1, <3>1, <4>2 DEF Holds
      <4> QED BY <1>4, <1>6, <4>1, <4>2, LenProperties
    <3> QED BY <2>1, <3>1, <3>2 DEF Holds
  <2>2. CASE r # p
    <3>1. r \in 1..Len(queue)
      BY <1>4, LenProperties DEF Producers
    <3>2. queue'[r] = queue[r]
      BY <1>7, <2>2, <3>1
    <3> QED BY <2>2, <3>2 DEF Holds
  <2> QED BY <2>1, <2>2
<1>10. QueueTypes'
  <2>1. ThreadStates \subseteq ThreadStates' /\ ConsumerStates \subseteq ConsumerStates'
    BY <1>3, <1>8, StatesGrow
  <2>2. Idle \in ThreadStates
    BY DEF Idle, ThreadStates
  <2>3. thread' \in [Threads -> ThreadStates]
    BY <1>0, <2>2 DEF QueueTypes, Go
  <2> QED BY <1>0, <1>2, <1>7, <1>8, <2>1, <2>3, CountersStay DEF QueueTypes
<1>11. ThreadInv'
  <2>1. \A u \in Threads : thread'[u] = thread[u] \/ thread'[u] = Idle
    BY <1>0 DEF Go, QueueTypes
  <2> QED BY <1>0, <2>1 DEF IInv, ThreadInv, In, Idle
<1>12. HoldsInv'
  <2> SUFFICES ASSUME NEW r \in Producers
               PROVE  Holds(r)' \subseteq Sent' /\ (Holds(r)' # {} => r \in Listed)
    BY <1>0, <1>8 DEF HoldsInv
  <2>1. Holds(r) \subseteq Sent /\ (Holds(r) # {} => r \in Listed)
    BY DEF IInv, HoldsInv
  <2> QED BY <1>3, <1>9, <2>1
<1>13. /\ \A r \in Producers : DOMAIN queue[r] = 1..Len(queue[r]) /\ Len(queue[r]) \in Nat
       /\ \A r \in Producers : Len(queue'[r]) \in Nat /\ Len(queue'[r]) >= Len(queue[r])
  <2>1. \A r \in Producers : DOMAIN queue[r] = 1..Len(queue[r]) /\ Len(queue[r]) \in Nat
    BY <1>0, ProducersAre
  <2>2. \A r \in Producers : queue'[r] = IF r = p THEN q ELSE queue[r]
    BY <1>0, <1>7, ProducersAre
  <2> QED BY <1>0, <1>6, <2>1, <2>2
<1>14. ConsumerInv'
  <2>1. ASSUME NEW r \in Producers, NEW i \in DOMAIN queue'[r], queue'[r][i] \in Sent
        PROVE  i \in DOMAIN queue[r] /\ queue[r][i] = queue'[r][i]
    <3>1. r \in 1..Len(queue)
      BY <1>0, ProducersAre
    <3>2. CASE r = p
      <4>1. queue'[r] = q /\ DOMAIN q = 1..(Len(queue[p]) + 1)
        BY <1>6, <1>7, <3>1, <3>2, LenProperties
      <4>2. i # Len(queue[p]) + 1
        BY <1>2, <1>6, <2>1, <4>1
      <4> QED BY <1>6, <1>13, <2>1, <3>2, <4>1, <4>2
    <3>3. CASE r # p
      BY <1>7, <2>1, <3>1, <3>3
    <3> QED BY <3>2, <3>3
  <2>2. PlacesKept(Sent)
    BY <1>8, <2>1 DEF PlacesKept
  <2> QED BY <1>8, <2>2, ConsumersStay
<1>15. \A r : Claimers(r)' = Claimers(r) /\ Hopeful(r)' = Hopeful(r)
  BY DEF Claimers, Hopeful
<1>16. TallyInv'
  BY <1>8, <1>15 DEF IInv, TallyInv
<1>17. ElementInv'
  <2> SUFFICES ASSUME NEW r \in Producers, NEW D \in SUBSET Hopeful(r), D # {},
                      ~(counters[r].headIndex + Cardinality(D) <= TailIndex(r)')
               PROVE  \E d \in D : Ordinal(d) >= counters[r].headIndex + Cardinality(D) - 1
    BY <1>8, <1>15 DEF ElementInv, Ordinal
  <2>1. TailIndex(r)' \in Nat /\ TailIndex(r) \in Nat /\ TailIndex(r)' >= TailIndex(r)
    BY <1>0, <1>13, ProducersAre DEF TailIndex
  <2>2. Cardinality(D) \in Nat /\ counters[r].headIndex \in Nat
    <3>1. Hopeful(r) \subseteq Claimers(r) /\ IsFiniteSet(Claimers(r))
      BY DEF IInv, TallyInv, Hopeful, Claimers
    <3> QED BY <1>0, <3>1, FS_Subset, FS_CardinalityType, ProducersAre
  <2>3. ~(counters[r].headIndex + Cardinality(D) <= TailIndex(r))
    BY <2>1, <2>2
  <2> QED BY <2>3 DEF IInv, ElementInv
<1> QED BY <1>10, <1>11, <1>12, <1>14, <1>16, <1>17 DEF IInv

\* A thread enqueues with the producer it found, or puts into the table.
LEMMA EnqueueStep ==
  ASSUME IInv, NEW t \in Threads, Found(t) \/ Copy(t) \/ AddToTable(t)
  PROVE  IInv'
<1>1. CASE Found(t)
  <2>1. PICK i \in Slots(t, Len(tables)) : Enqueued(t, tables[Len(tables)].entries[i][2])
    BY <1>1 DEF Found
  <2>2. Len(tables) \in 1..Len(tables)
    BY DEF IInv, TableInv
  <2>3. tables[Len(tables)].entries[i][2] \in Listed
    BY <2>1, <2>2, SlotGives
  <2>4. TableInv'
    BY <1>1 DEF Found, IInv, TableInv, Gives, Listed
  <2> QED BY <1>1, <2>1, <2>3, <2>4, EnqueuedKeeps DEF Found
<1>2. CASE Copy(t)
  <2>1. thread[t].value \in Listed
    BY <1>2 DEF Copy, IInv, ThreadInv
  <2>2. TableInv'
    BY <1>2, <2>1, InsertKeeps DEF Copy
  <2> QED BY <1>2, <2>1, <2>2, EnqueuedKeeps DEF Copy
<1>3. CASE AddToTable(t)
  <2>1. thread[t].producer \in Listed
    BY <1>3 DEF AddToTable, IInv, ThreadInv
  <2>2. TableInv'
    BY <1>3, <2>1, InsertKeeps DEF AddToTable
  <2> QED BY <1>3, <2>1, <2>2, EnqueuedKeeps DEF AddToTable
<1> QED BY <1>1, <1>2, <1>3

\* Create: a new producer has no elements.
LEMMA CreateStep == ASSUME IInv, NEW t \in Threads, Create(t) PROVE IInv'
<1>0. QueueTypes /\ hashCount' \in Int /\ Listed' = Listed /\ Sent' = Sent
  BY DEF IInv, QueueTypes, Create, Listed, Sent
<1>1. /\ queue' \in Seq(Seq(Threads \X Nat)) /\ Len(queue') = Len(queue) + 1
      /\ \A p \in 1..Len(queue) : queue'[p] = queue[p]
      /\ queue'[Len(queue) + 1] = <<>>
  <2>1. <<>> \in Seq(Threads \X Nat)
    OBVIOUS
  <2> QED BY <1>0, <2>1, AppendProperties DEF QueueTypes, Create
<1>2. Producers = 1..Len(queue) /\ Producers' = 1..(Len(queue) + 1) /\ Len(queue) \in Nat
  BY <1>0, <1>1, LenProperties DEF Producers, QueueTypes
<1>3. \A p \in Producers : Holds(p)' = Holds(p)
  BY <1>1, <1>2 DEF Holds
<1>4. \A p \in Producers' \ Producers : Holds(p)' = {}
  <2> SUFFICES ASSUME NEW p \in Producers' \ Producers PROVE Holds(p)' = {}
    OBVIOUS
  <2>1. queue'[p] = <<>>
    BY <1>1, <1>2
  <2> QED BY <2>1 DEF Holds
<1>5. ThreadStates \subseteq ThreadStates' /\ ConsumerStates \subseteq ConsumerStates'
  <2>1. Producers \subseteq Producers' /\ Sent \subseteq Sent'
    BY <1>0, <1>2
  <2> QED BY <2>1, StatesGrow
<1>6. PICK r : r = [pc |-> "add", main |-> thread[t].main, producer |-> Len(queue) + 1]
  OBVIOUS
<1>7. r \in ThreadStates' /\ r.pc = "add"
  <2>1. thread[t] \in [pc : {"resize", "locked", "fits", "clear"}, main : Nat, newCount : Int]
    BY <1>0, ThreadAt DEF Create, In
  <2>2. thread[t].main \in Nat /\ Len(queue) + 1 \in Producers'
    BY <1>2, <2>1
  <2> QED BY <1>6, <2>2 DEF ThreadStates
<1>8. /\ thread' \in [Threads -> ThreadStates'] /\ thread'[t] = r
      /\ \A u \in Threads : u # t => thread'[u] = thread[u]
  BY <1>0, <1>5, <1>6, <1>7 DEF Create, Go, QueueTypes
<1>14. /\ counters' \in Seq(Counters) /\ Len(counters') = Len(queue) + 1
       /\ \A p \in Producers : counters'[p] = counters[p]
       /\ counters'[Len(queue) + 1] = NewCounters
  <2>1. NewCounters \in Counters
    BY DEF NewCounters, Counters
  <2>2. counters \in Seq(Counters) /\ Len(counters) = Len(queue) /\ counters' = Append(counters, NewCounters)
    BY <1>0 DEF QueueTypes, Create
  <2>3. /\ counters' \in Seq(Counters) /\ Len(counters') = Len(counters) + 1
        /\ \A p \in 1..Len(counters) : counters'[p] = counters[p]
        /\ counters'[Len(counters) + 1] = NewCounters
    BY <2>1, <2>2, AppendProperties
  <2> QED BY <1>2, <2>2, <2>3
<1>9. QueueTypes'
  <2>1. Seq(Producers) \subseteq Seq(Producers')
    BY <1>2, SeqGrows
  <2>2. list' \in Seq(Producers') /\ sent' \in [Threads -> Nat]
    BY <1>0, <2>1 DEF Create, QueueTypes
  <2>3. consumer' \in [Consumers -> ConsumerStates']
    BY <1>0, <1>5 DEF Create, QueueTypes
  <2>4. counters' \in Seq(Counters) /\ Len(counters') = Len(queue')
    BY <1>0, <1>1, <1>14 DEF QueueTypes
  <2> QED BY <1>0, <1>1, <1>8, <2>2, <2>3, <2>4 DEF QueueTypes
<1>10. TableInv'
  BY <1>0 DEF Create, IInv, TableInv, Gives
<1>11. ThreadInv'
  BY <1>0, <1>7, <1>8 DEF IInv, ThreadInv, In
<1>12. HoldsInv'
  BY <1>0, <1>3, <1>4 DEF IInv, HoldsInv
<1>13. ConsumerInv'
  <2>1. consumer' = consumer /\ Producers \subseteq Producers'
    BY <1>2 DEF Create
  <2>2. ASSUME NEW p \in Producers', NEW i \in DOMAIN queue'[p]
        PROVE  p \in Producers /\ queue'[p] = queue[p]
    <3>1. p \in Producers
      BY <1>4 DEF Holds
    <3> QED BY <1>1, <1>2, <3>1
  <2>3. PlacesKept(Sent)
    BY <1>14, <2>2 DEF PlacesKept
  <2> QED BY <1>14, <2>1, <2>3, ConsumersStay
<1>15. PICK n : n = Len(queue) + 1
  OBVIOUS
<1>16. /\ n \notin Producers /\ Producers' = Producers \cup {n} /\ Len(<<>>) = 0
       /\ counters'[n] = NewCounters /\ queue'[n] = <<>>
  BY <1>1, <1>2, <1>14, <1>15
<1>17. /\ \A p : Claimers(p)' = Claimers(p) /\ Hopeful(p)' = Hopeful(p)
       /\ Claimers(n) = {} /\ Hopeful(n) = {}
  <2>1. \A p : Claimers(p)' = Claimers(p) /\ Hopeful(p)' = Hopeful(p)
    BY DEF Create, Claimers, Hopeful
  <2>2. \A d \in Consumers : consumer[d].pc \in {"recheck", "takeBack"} => consumer[d].try.p \in Producers
    BY ConsumerOk DEF TryOk, Trying
  <2> QED BY <1>16, <2>1, <2>2 DEF Claimers, Hopeful
<1>18. TallyInv'
  <2>1. IsFiniteSet(Claimers(n)) /\ Cardinality(Claimers(n)) = 0
    BY <1>17, FS_EmptySet
  <2>2. ASSUME NEW p \in Producers
        PROVE  /\ IsFiniteSet(Claimers(p)')
               /\ counters'[p].dequeueOptimisticCount = counters'[p].dequeueOvercommit
                    + counters'[p].headIndex + Cardinality(Claimers(p)')
    BY <1>14, <1>17 DEF IInv, TallyInv
  <2>3. /\ IsFiniteSet(Claimers(n)')
        /\ counters'[n].dequeueOptimisticCount = counters'[n].dequeueOvercommit
             + counters'[n].headIndex + Cardinality(Claimers(n)')
    <3>1. /\ counters'[n].dequeueOptimisticCount = 0 /\ counters'[n].dequeueOvercommit = 0
          /\ counters'[n].headIndex = 0
      BY <1>16 DEF NewCounters
    <3>2. Claimers(n)' = Claimers(n)
      BY <1>17
    <3> QED BY <2>1, <3>1, <3>2
  <2> QED BY <1>16, <2>2, <2>3 DEF TallyInv
<1>19. ElementInv'
  <2>1. \A d : Ordinal(d)' = Ordinal(d)
    BY DEF Create, Ordinal
  <2>2. \A p \in Producers : TailIndex(p)' = TailIndex(p)
    BY <1>1, <1>2, <1>14 DEF TailIndex
  <2> QED BY <1>14, <1>16, <1>17, <2>1, <2>2 DEF IInv, ElementInv
<1> QED BY <1>9, <1>10, <1>11, <1>12, <1>13, <1>18, <1>19 DEF IInv

\* add_producer: the list grows at its tail.
LEMMA AddStep == ASSUME IInv, NEW t \in Threads, AddProducer(t) PROVE IInv'
<1>0. /\ QueueTypes /\ Producers' = Producers /\ Sent' = Sent
      /\ ThreadStates' = ThreadStates /\ ConsumerStates' = ConsumerStates
  BY DEF IInv, AddProducer, Producers, Sent, ThreadStates, ConsumerStates, CallStates
<1>1. thread[t] \in [pc : {"add", "insert"}, main : Nat, producer : Producers]
  BY <1>0, ThreadAt DEF AddProducer, In
<1>2. PICK p \in Producers : p = thread[t].producer
  BY <1>1
<1>3. list' \in Seq(Producers) /\ Listed' = Listed \cup {p}
  <2>1. <<p>> \in Seq(Producers) /\ Len(<<p>>) = 1 /\ <<p>>[1] = p
    OBVIOUS
  <2>2. list' = <<p>> \o list
    BY <1>2 DEF AddProducer
  <2>3. list \in Seq(Producers) /\ Len(list) \in Nat /\ DOMAIN list = 1..Len(list)
    BY <1>0, LenProperties DEF QueueTypes
  <2>4. /\ list' \in Seq(Producers) /\ Len(list') = Len(list) + 1
        /\ \A i \in 1..(Len(list) + 1) : list'[i] = IF i <= 1 THEN p ELSE list[i - 1]
    BY <2>1, <2>2, <2>3, ConcatProperties
  <2>5. DOMAIN list' = 1..(Len(list) + 1)
    BY <2>4, LenProperties
  <2>6. p \in Listed'
    <3>1. 1 \in 1..(Len(list) + 1) /\ list'[1] = p
      BY <2>3, <2>4
    <3> QED BY <2>5, <3>1 DEF Listed
  <2>7. ASSUME NEW i \in 1..Len(list) PROVE list[i] \in Listed'
    <3>1. i + 1 \in 1..(Len(list) + 1) /\ list'[i + 1] = list[i]
      BY <2>3, <2>4
    <3> QED BY <2>5, <3>1 DEF Listed
  <2>8. ASSUME NEW i \in 1..(Len(list) + 1) PROVE list'[i] \in Listed \cup {p}
    <3>1. CASE i = 1
      BY <2>3, <2>4, <3>1
    <3>2. CASE i # 1
      <4>1. i - 1 \in 1..Len(list) /\ list'[i] = list[i - 1]
        BY <2>3, <2>4, <3>2
      <4> QED BY <2>3, <4>1 DEF Listed
    <3> QED BY <3>1, <3>2
  <2>9. Listed' \subseteq Listed \cup {p}
    BY <2>5, <2>8 DEF Listed
  <2>10. Listed \subseteq Listed'
    BY <2>3, <2>7 DEF Listed
  <2> QED BY <2>4, <2>6, <2>9, <2>10
<1>4. PICK r : r = [thread[t] EXCEPT !.pc = "insert"]
  OBVIOUS
<1>5. r \in ThreadStates /\ r.pc = "insert" /\ r.producer = p
  BY <1>1, <1>2, <1>4 DEF ThreadStates
<1>6. /\ thread' \in [Threads -> ThreadStates] /\ thread'[t] = r
      /\ \A u \in Threads : u # t => thread'[u] = thread[u]
  BY <1>0, <1>4, <1>5 DEF AddProducer, Go, QueueTypes
<1>7. QueueTypes'
  BY <1>0, <1>3, <1>6 DEF AddProducer, QueueTypes
<1>8. TableInv'
  BY <1>3 DEF AddProducer, IInv, TableInv, Gives
<1>9. ThreadInv'
  BY <1>3, <1>5, <1>6 DEF IInv, ThreadInv, In
<1>10. HoldsInv'
  <2>1. \A q \in Producers : Holds(q)' = Holds(q)
    BY DEF AddProducer, Holds
  <2> QED BY <1>0, <1>3, <2>1 DEF IInv, HoldsInv
<1>11. ConsumerInv'
  BY UnchangedKeep DEF AddProducer, IInv
<1>12. TallyInv' /\ ElementInv'
  BY ClaimsStay DEF AddProducer, IInv
<1> QED BY <1>7, <1>8, <1>9, <1>10, <1>11, <1>12 DEF IInv

-----------------------------------------------------------------------------
(* The dequeuing threads *)

\* What is ahead is the next producer and what is ahead of that.
LEMMA AheadTail ==
  ASSUME NEW S, NEW q \in Seq(S), q # <<>>
  PROVE  /\ Head(q) \in S /\ Tail(q) \in Seq(S)
         /\ \A i \in DOMAIN q : q[i] = Head(q) \/ \E j \in DOMAIN Tail(q) : Tail(q)[j] = q[i]
<1>1. /\ Head(q) \in S /\ Tail(q) \in Seq(S) /\ Len(Tail(q)) = Len(q) - 1
      /\ \A j \in 1..Len(Tail(q)) : Tail(q)[j] = q[j + 1]
  BY HeadTailProperties
<1>2. DOMAIN q = 1..Len(q) /\ DOMAIN Tail(q) = 1..Len(Tail(q)) /\ Len(q) \in Nat
  BY <1>1, LenProperties
<1>3. Head(q) = q[1]
  OBVIOUS
<1>4. ASSUME NEW i \in 1..Len(q), i # 1 PROVE \E j \in 1..Len(Tail(q)) : Tail(q)[j] = q[i]
  <2>1. i - 1 \in 1..Len(Tail(q)) /\ Tail(q)[i - 1] = q[i]
    BY <1>1, <1>2, <1>4
  <2> QED BY <2>1
<1> QED BY <1>1, <1>2, <1>3, <1>4

\* A step of a consumer keeps the threads, tables and elements.
LEMMA RestKeeps ==
  ASSUME IInv, consumer' \in [Consumers -> ConsumerStates],
         counters' \in Seq(Counters), Len(counters') = Len(queue),
         UNCHANGED <<tables, hashCount, list, queue, thread, sent>>
  PROVE  QueueTypes' /\ TableInv' /\ ThreadInv' /\ HoldsInv' /\ Producers' = Producers
<1>2. /\ ThreadStates' = ThreadStates /\ ConsumerStates' = ConsumerStates /\ Listed' = Listed
      /\ Producers' = Producers /\ Sent' = Sent
  BY DEF ThreadStates, ConsumerStates, CallStates, Producers, Sent, Listed
<1>3. QueueTypes'
  BY <1>2 DEF IInv, QueueTypes
<1>4. TableInv' /\ ThreadInv'
  BY <1>2 DEF IInv, TableInv, Gives, ThreadInv, In
<1>5. HoldsInv'
  BY <1>2 DEF IInv, HoldsInv, Holds
<1> QED BY <1>2, <1>3, <1>4, <1>5

\* A consumer goes on, without a claim or as it gives one up.
LEMMA ConsumerGoes ==
  ASSUME IInv, NEW c \in Consumers, NEW r \in ConsumerStates, Set(c, r), TryOk(c, r), Covered(r),
         r.pc # "recheck",
         r.pc = "takeBack" <=> consumer[c].pc \in {"recheck", "takeBack"},
         r.pc = "takeBack" => r.try.p = consumer[c].try.p,
         UNCHANGED <<tables, hashCount, list, queue, counters, thread, sent>>
  PROVE  IInv'
<1>1. /\ consumer' \in [Consumers -> ConsumerStates] /\ consumer'[c] = r
      /\ \A d \in Consumers : d # c => consumer'[d] = consumer[d]
  BY DEF Set, IInv, QueueTypes
<1>2. QueueTypes' /\ TableInv' /\ ThreadInv' /\ HoldsInv' /\ Producers' = Producers
  BY <1>1, RestKeeps DEF IInv, QueueTypes
<1>3. \A p : Claimers(p)' = Claimers(p) /\ Hopeful(p)' \subseteq Hopeful(p) \ {c}
  BY <1>1 DEF Claimers, Hopeful
<1>4. \A d \in Consumers \ {c} : Ordinal(d)' = Ordinal(d)
  BY <1>1 DEF Ordinal
<1>5. \A d \in Consumers : \A p : InTheWay(d, p)' = InTheWay(d, p)
  BY <1>1 DEF InTheWay
<1>6. TallyInv'
  BY <1>2, <1>3 DEF IInv, TallyInv
<1>7. ElementInv'
  <2> SUFFICES ASSUME NEW p \in Producers, NEW D \in SUBSET Hopeful(p)', D # {},
                      ~(counters[p].headIndex + Cardinality(D) <= TailIndex(p))
               PROVE  \E d \in D : Ordinal(d)' >= counters[p].headIndex + Cardinality(D) - 1
    BY <1>2 DEF ElementInv, TailIndex
  <2>1. D \subseteq Hopeful(p) /\ c \notin D /\ D \subseteq Consumers
    BY <1>3 DEF Hopeful
  <2>2. PICK d \in D : Ordinal(d) >= counters[p].headIndex + Cardinality(D) - 1
    BY <2>1 DEF IInv, ElementInv
  <2> QED BY <1>4, <2>1, <2>2
<1>8. PlacesKept(Sent) /\ \A S : PlacesKept(S)
  BY <1>2 DEF PlacesKept
<1>9. ConsumerInv'
  <2> SUFFICES ASSUME NEW d \in Consumers, NEW s \in {consumer'[d]} PROVE TryOk(d, s)' /\ Covered(s)'
    BY DEF ConsumerInv
  <2>1. TryOk(d, s) /\ Covered(s)
    BY <1>1, ConsumerOk
  <2>2. s.pc \in Claiming => s.try.overcommit <= counters[s.try.p].dequeueOvercommit
    BY <2>1 DEF TryOk, Claiming, Trying
  <2> QED BY <1>2, <1>5, <1>8, <2>1, <2>2, ConsumerStays
<1> QED BY <1>2, <1>6, <1>7, <1>9 DEF IInv

\* Where an element of the queue is.
LEMMA ElementsAre ==
  ASSUME IInv
  PROVE  /\ Elements \subseteq Sent
         /\ \A p \in Producers : \A e \in Holds(p) : e \in Elements
         /\ \A e \in Elements : \E p \in Producers : e \in Holds(p)
<1>1. Elements = UNION {Holds(list[i]) : i \in DOMAIN list}
  BY DEF Elements, Holds, Range
<1>2. \A i \in DOMAIN list : list[i] \in Producers
  BY ListedProducers DEF Listed
<1>3. \A p \in Producers : Holds(p) \subseteq Sent /\ (Holds(p) # {} => p \in Listed)
  BY DEF IInv, HoldsInv
<1>4. Elements \subseteq Sent
  BY <1>1, <1>2, <1>3
<1>5. \A p \in Producers : \A e \in Holds(p) : e \in Elements
  BY <1>1, <1>3 DEF Listed
<1>6. \A e \in Elements : \E p \in Producers : e \in Holds(p)
  BY <1>1, <1>2
<1> QED BY <1>4, <1>5, <1>6

\* TryDequeue: all that is there is on the list.
LEMMA TryDequeueStep == ASSUME IInv, NEW c \in Consumers, TryDequeue(c) PROVE IInv'
<1>1. PICK r : r = [pc |-> "scan", rest |-> list, best |-> 0, bestSize |-> 0, nonEmptyCount |-> 0,
                    waiting |-> Elements, excused |-> {}, try |-> NoTry]
  OBVIOUS
<1>2. r \in ConsumerStates
  <2>1. list \in Seq(Producers) /\ Elements \in SUBSET Sent
    BY ElementsAre DEF IInv, QueueTypes
  <2> QED BY <1>1, <2>1 DEF ConsumerStates, CallStates, Tries, NoTry
<1>3. TryOk(c, r) /\ Covered(r)
  <2>1. \A p \in Producers : Holds(p) # {} => \E i \in DOMAIN list : list[i] = p
    BY DEF IInv, HoldsInv, Listed
  <2> QED BY <1>1, <2>1 DEF TryOk, Covered, Remains, Ahead, Trying
<1>4. Set(c, r)
  BY <1>1 DEF TryDequeue
<1> QED BY <1>1, <1>2, <1>3, <1>4, ConsumerGoes DEF TryDequeue, At

\* Scan: a producer passed over has no elements.
LEMMA ScanStep == ASSUME IInv, NEW c \in Consumers, Scan(c) PROVE IInv'
<1>0. QueueTypes
  BY DEF IInv
<1>1. PICK me : me = consumer[c]
  OBVIOUS
<1>2. PICK p, size : p = Head(me.rest) /\ size = Len(queue[p])
  OBVIOUS
<1>3. PICK b, s, n : /\ b = IF size > me.bestSize THEN p ELSE me.best
                     /\ s = IF size > me.bestSize THEN size ELSE me.bestSize
                     /\ n = IF size > 0 THEN me.nonEmptyCount + 1 ELSE me.nonEmptyCount
  OBVIOUS
<1>4. me \in CallStates /\ me.pc = "scan" /\ me.rest # <<>> /\ Covered(me)
  BY <1>0, <1>1, ConsumerAt, ConsumerOk DEF Scan, At
<1>5. PICK r : r = [me EXCEPT !.rest = Tail(@), !.best = b, !.bestSize = s, !.nonEmptyCount = n]
  OBVIOUS
<1>6. Set(c, r)
  BY <1>1, <1>2, <1>3, <1>5 DEF Scan
<1>7. p \in Producers /\ Tail(me.rest) \in Seq(Producers)
  BY <1>2, <1>4, AheadTail, Fields
<1>8. p \in Nat /\ size \in Nat /\ DOMAIN queue[p] = 1..size
  BY <1>0, <1>2, <1>7, ProducersAre
<1>9. b \in Nat /\ s \in Nat /\ n \in Nat /\ me.bestSize \in Nat /\ me.nonEmptyCount \in Nat
  BY <1>3, <1>4, <1>8, Fields
<1>10. /\ r \in ConsumerStates /\ r.pc = "scan" /\ r.rest = Tail(me.rest) /\ r.best = b
       /\ r.bestSize = s /\ r.nonEmptyCount = n /\ r.waiting = me.waiting
  BY <1>4, <1>5, <1>7, <1>9 DEF ConsumerStates, CallStates
<1>11. TryOk(c, r)
  BY <1>10 DEF TryOk, Trying
<1>12. s > 0 \/ n > 0 => b \in Producers
  <2>1. me.bestSize > 0 \/ me.nonEmptyCount > 0 => me.best \in Producers
    BY <1>4 DEF Covered
  <2> QED BY <1>3, <1>7, <1>8, <1>9, <2>1
<1>13. ASSUME NEW q \in Producers, n = 0, Remains(me, q)
       PROVE  \E i \in DOMAIN Tail(me.rest) : Tail(me.rest)[i] = q
  <2>1. me.nonEmptyCount = 0 /\ size = 0
    BY <1>3, <1>9, <1>8, <1>13
  <2>2. Holds(p) = {}
    BY <1>8, <2>1 DEF Holds
  <2>3. PICK i \in DOMAIN me.rest : me.rest[i] = q
    BY <1>4, <1>13, <2>1 DEF Covered, Ahead
  <2>4. q # Head(me.rest)
    BY <1>2, <1>13, <2>2 DEF Remains
  <2> QED BY <1>4, <2>3, <2>4, AheadTail, Fields
<1>14. Covered(r)
  BY <1>10, <1>12, <1>13 DEF Covered, Remains, Ahead, Trying
<1> QED BY <1>6, <1>10, <1>11, <1>14, ConsumerGoes DEF Scan, At

\* SkipBest: what remains is not with the best.
LEMMA SkipStep == ASSUME IInv, NEW c \in Consumers, SkipBest(c) PROVE IInv'
<1>1. PICK me : me = consumer[c]
  OBVIOUS
<1>2. me \in CallStates /\ me.pc = "others" /\ me.rest # <<>> /\ Covered(me) /\ Head(me.rest) = me.best
  BY <1>1, ConsumerAt, ConsumerOk DEF SkipBest, At, IInv
<1>3. PICK r : r = [me EXCEPT !.rest = Tail(@)]
  OBVIOUS
<1>4. /\ r \in ConsumerStates /\ r.pc = "others" /\ r.rest = Tail(me.rest) /\ r.best = me.best
      /\ r.waiting = me.waiting /\ r.excused = me.excused
  BY <1>2, <1>3, AheadTail DEF ConsumerStates, CallStates
<1>5. ASSUME NEW q \in Producers \ me.excused, Remains(me, q)
      PROVE  (\E i \in DOMAIN Tail(me.rest) : Tail(me.rest)[i] = q) /\ q # me.best
  <2>1. q # me.best /\ \E i \in DOMAIN me.rest : me.rest[i] = q
    BY <1>2, <1>5 DEF Covered, Ahead
  <2> QED BY <1>2, <2>1, AheadTail, Fields
<1>6. TryOk(c, r) /\ Covered(r)
  BY <1>4, <1>5 DEF TryOk, Covered, Trying, Remains, Ahead
<1>7. Set(c, r)
  BY <1>1, <1>3 DEF SkipBest
<1> QED BY <1>4, <1>6, <1>7, ConsumerGoes DEF SkipBest, At

\* ReturnFalse: the call is over.
LEMMA ReturnStep == ASSUME IInv, NEW c \in Consumers, ReturnFalse(c) PROVE IInv'
<1>1. Idle \in ConsumerStates /\ TryOk(c, Idle) /\ Covered(Idle) /\ Idle.pc = "idle"
  BY DEF Idle, ConsumerStates, TryOk, Covered, Trying
<1> QED BY <1>1, ConsumerGoes DEF ReturnFalse, Nothing, Scanned, At

-----------------------------------------------------------------------------
(* A consumer on one producer *)

\* LoadTail: what the call saw there is below the tail.
LEMMA LoadTailStep == ASSUME IInv, NEW c \in Consumers, LoadTail(c) PROVE IInv'
<1>0. QueueTypes
  BY DEF IInv
<1>1. PICK me : me = consumer[c]
  OBVIOUS
<1>2. PICK p : p = IF me.pc = "scan" THEN me.best ELSE Head(me.rest)
  OBVIOUS
<1>3. me \in CallStates /\ me.pc \in {"scan", "others"} /\ Covered(me)
  BY <1>0, <1>1, ConsumerAt, ConsumerOk DEF LoadTail, Scanned, At
<1>4. p \in Producers /\ (p # me.best => me.pc = "others" /\ me.rest # <<>> /\ Head(me.rest) = p)
  <2>1. CASE me.pc = "scan"
    BY <1>1, <1>2, <1>3, <2>1 DEF LoadTail, Scanned, At, Covered
  <2>2. CASE me.pc = "others"
    <3>1. me.rest # <<>> /\ p = Head(me.rest)
      BY <1>1, <1>2, <2>2 DEF LoadTail, Scanned, At
    <3> QED BY <1>3, <2>2, <3>1, AheadTail, Fields
  <2> QED BY <1>3, <2>1, <2>2
<1>5. PICK limit : limit = TailIndex(p)
  OBVIOUS
<1>6. /\ limit \in Nat /\ p \in Nat /\ limit = counters[p].headIndex + Len(queue[p])
      /\ counters[p].headIndex \in Nat /\ DOMAIN queue[p] = 1..Len(queue[p]) /\ Len(queue[p]) \in Nat
  BY <1>0, <1>4, <1>5, ProducersAre DEF TailIndex
<1>7. PICK try : try = [NoTry EXCEPT !.p = p, !.tail = limit]
  OBVIOUS
<1>8. PICK rest : rest = IF p = me.best THEN <<>> ELSE me.rest
  OBVIOUS
<1>9. try \in Tries /\ try.p = p /\ try.tail = limit /\ rest \in Seq(Producers)
  <2>1. try \in Tries /\ try.p = p /\ try.tail = limit
    BY <1>6, <1>7 DEF Tries, NoTry
  <2> QED BY <1>3, <1>8, <2>1, Fields
<1>10. PICK r : r = [me EXCEPT !.pc = "overcommit", !.bestSize = 0, !.nonEmptyCount = 0,
                               !.rest = rest, !.try = try]
  OBVIOUS
<1>11. Set(c, r)
  <2>1. [NoTry EXCEPT !.p = p, !.tail = TailIndex(p)] = try
    BY <1>5, <1>7
  <2>2. p = IF At(c, "scan") THEN consumer[c].best ELSE Head(consumer[c].rest)
    BY <1>1, <1>2 DEF At
  <2>3. Set(c, [consumer[c] EXCEPT !.pc = "overcommit", !.bestSize = 0, !.nonEmptyCount = 0,
                       !.rest = IF p = consumer[c].best THEN <<>> ELSE @,
                       !.try = [NoTry EXCEPT !.p = p, !.tail = TailIndex(p)]])
    BY <2>2 DEF LoadTail
  <2> QED BY <1>1, <1>8, <1>10, <2>1, <2>3
<1>12. /\ r \in ConsumerStates /\ r.pc = "overcommit" /\ r.rest = rest /\ r.best = me.best
       /\ r.waiting = me.waiting /\ r.excused = me.excused /\ r.try = try
  BY <1>3, <1>9, <1>10 DEF ConsumerStates, CallStates, Trying
<1>13. TryOk(c, r)
  <2>1. try.p = p /\ try.tail = limit
    BY <1>9
  <2>2. \A i \in DOMAIN queue[p] : counters[p].headIndex + i <= limit
    BY <1>6
  <2> QED BY <1>4, <1>8, <1>12, <2>1, <2>2 DEF TryOk, Trying, Claiming
<1>14. Covered(r)
  <2> SUFFICES ASSUME p # me.best, NEW q \in Producers \ me.excused, Remains(me, q)
               PROVE  Ahead(me, q) /\ q # me.best
    BY <1>8, <1>9, <1>12 DEF Covered, Remains, Ahead, Trying
  <2> QED BY <1>3, <1>4 DEF Covered
<1> QED BY <1>1, <1>3, <1>11, <1>12, <1>13, <1>14, ConsumerGoes DEF LoadTail

\* LoadOvercommit: when no claim is in the way, none is not settled.
LEMMA LoadOvercommitStep == ASSUME IInv, NEW c \in Consumers, LoadOvercommit(c) PROVE IInv'
<1>0. QueueTypes
  BY DEF IInv
<1>1. PICK me, p : me = consumer[c] /\ p = me.try.p
  OBVIOUS
<1>2. me \in CallStates /\ me.pc = "overcommit" /\ Covered(me) /\ TryOk(c, me)
  BY <1>0, <1>1, ConsumerAt, ConsumerOk DEF LoadOvercommit, At
<1>3. p \in Producers /\ counters[p].dequeueOvercommit \in Nat
  BY <1>0, <1>1, <1>2, ProducersAre DEF TryOk, Trying
<1>4. PICK b, k : b = (InTheWay(c, p) # {}) /\ k = counters[p].dequeueOvercommit
  OBVIOUS
<1>5. PICK r : r = [me EXCEPT !.pc = "compare", !.try.contended = b, !.try.overcommit = k]
  OBVIOUS
<1>6. Set(c, r)
  BY <1>1, <1>4, <1>5 DEF LoadOvercommit
<1>7. /\ r \in ConsumerStates /\ r.pc = "compare" /\ r.rest = me.rest /\ r.best = me.best
      /\ r.waiting = me.waiting /\ r.excused = me.excused
      /\ r.try.p = p /\ r.try.tail = me.try.tail /\ r.try.overcommit = k /\ r.try.contended = b
  <2>1. b \in BOOLEAN /\ k \in Nat
    BY <1>3, <1>4
  <2> QED BY <1>1, <1>2, <1>5, <2>1 DEF ConsumerStates, CallStates, Trying, Tries
<1>8. TryOk(c, r)
  <2>1. \A i \in DOMAIN queue[p] : queue[p][i] \in me.waiting => counters[p].headIndex + i <= me.try.tail
    BY <1>1, <1>2 DEF TryOk, Trying
  <2>2. p # me.best => me.rest # <<>> /\ Head(me.rest) = p
    BY <1>1, <1>2 DEF TryOk, Trying
  <2>3. ~b => InTheWay(c, p) = {}
    BY <1>4
  <2>4. k <= counters[p].dequeueOvercommit /\ k = counters[p].dequeueOvercommit
    BY <1>3, <1>4
  <2> QED BY <1>3, <1>7, <2>1, <2>2, <2>3, <2>4 DEF TryOk
<1>9. Covered(r)
  BY <1>1, <1>2, <1>7 DEF Covered, Remains, Ahead, Trying
<1> QED BY <1>1, <1>2, <1>6, <1>7, <1>8, <1>9, ConsumerGoes DEF LoadOvercommit

\* SomeUnclaimed: the consumer will claim.
LEMMA SomeUnclaimedStep == ASSUME IInv, NEW c \in Consumers, SomeUnclaimed(c) PROVE IInv'
<1>1. PICK me : me = consumer[c]
  OBVIOUS
<1>2. me \in CallStates /\ me.pc = "compare" /\ Covered(me) /\ TryOk(c, me)
  BY <1>1, ConsumerAt, ConsumerOk DEF SomeUnclaimed, At, IInv
<1>3. PICK r : r = [me EXCEPT !.pc = "claim"]
  OBVIOUS
<1>4. /\ r \in ConsumerStates /\ r.pc = "claim" /\ r.rest = me.rest /\ r.best = me.best
      /\ r.waiting = me.waiting /\ r.excused = me.excused /\ r.try = me.try
  BY <1>2, <1>3 DEF ConsumerStates, CallStates, Trying
<1>5. TryOk(c, r)
  BY <1>2, <1>4 DEF TryOk, Trying, Claiming
<1>6. Covered(r)
  BY <1>2, <1>4 DEF Covered, Remains, Ahead, Trying
<1>7. Set(c, r)
  BY <1>1, <1>3 DEF SomeUnclaimed
<1> QED BY <1>1, <1>2, <1>4, <1>5, <1>6, <1>7, ConsumerGoes DEF SomeUnclaimed

\* A dequeue that fails: nothing of what the call saw is left there, or a claim was in the way.
LEMMA FailedKeeps ==
  ASSUME IInv, NEW c \in Consumers, NEW me \in CallStates, me.pc \in Trying, Covered(me),
         me.try.p # me.best => me.rest # <<>> /\ Head(me.rest) = me.try.p,
         Remains(me, me.try.p) => me.try.p \in me.excused
  PROVE  /\ Failed(me) \in ConsumerStates /\ Failed(me).pc = "others"
         /\ TryOk(c, Failed(me)) /\ Covered(Failed(me))
<1>1. PICK r : r = Failed(me)
  OBVIOUS
<1>2. PICK rest : rest = IF me.try.p = me.best THEN list ELSE Tail(me.rest)
  OBVIOUS
<1>3. rest \in Seq(Producers) /\ NoTry \in Tries
  <2>1. list \in Seq(Producers)
    BY DEF IInv, QueueTypes
  <2>2. me.try.p # me.best => Tail(me.rest) \in Seq(Producers)
    BY AheadTail, Fields
  <2> QED BY <1>2, <2>1, <2>2 DEF NoTry, Tries
<1>4. r = [me EXCEPT !.pc = "others", !.rest = rest, !.try = NoTry]
  BY <1>1, <1>2 DEF Failed
<1>5. /\ r \in ConsumerStates /\ r.pc = "others" /\ r.rest = rest /\ r.best = me.best
      /\ r.waiting = me.waiting /\ r.excused = me.excused
  BY <1>3, <1>4 DEF ConsumerStates, CallStates
<1>6. TryOk(c, r)
  BY <1>5 DEF TryOk, Trying
<1>7. ASSUME NEW q \in Producers \ me.excused, Remains(me, q)
      PROVE  q # me.best /\ \E i \in DOMAIN rest : rest[i] = q
  <2>1. q # me.try.p
    BY <1>7
  <2>2. CASE me.try.p = me.best
    <3>1. q \in Listed
      BY <1>7 DEF IInv, HoldsInv, Remains
    <3> QED BY <1>2, <2>1, <2>2, <3>1 DEF Listed
  <2>3. CASE me.try.p # me.best
    <3>1. Ahead(me, q) /\ q # me.best
      BY <1>7, <2>3 DEF Covered
    <3>2. \E i \in DOMAIN Tail(me.rest) : Tail(me.rest)[i] = q
      BY <2>1, <2>3, <3>1, AheadTail, Fields DEF Ahead
    <3> QED BY <1>2, <2>3, <3>1, <3>2
  <2> QED BY <2>2, <2>3
<1>8. Covered(r)
  BY <1>5, <1>7 DEF Covered, Remains, Ahead, Trying
<1> QED BY <1>1, <1>5, <1>6, <1>8

\* AllClaimed: without a claim in the way, as many were taken as there are below the tail.
LEMMA AllClaimedStep == ASSUME IInv, NEW c \in Consumers, AllClaimed(c) PROVE IInv'
<1>0. QueueTypes
  BY DEF IInv
<1>1. PICK me, p : me = consumer[c] /\ p = me.try.p
  OBVIOUS
<1>2. me \in CallStates /\ me.pc = "compare" /\ Covered(me) /\ TryOk(c, me)
  BY <1>0, <1>1, ConsumerAt, ConsumerOk DEF AllClaimed, At
<1>3. p \in Producers
  BY <1>1, <1>2 DEF TryOk, Trying
<1>4. PICK ex : ex = Excused(me)
  OBVIOUS
<1>5. PICK m : m = [me EXCEPT !.excused = ex]
  OBVIOUS
<1>6. /\ m \in CallStates /\ m.pc = "compare" /\ m.rest = me.rest /\ m.best = me.best
      /\ m.waiting = me.waiting /\ m.excused = ex /\ m.try = me.try
  <2>1. ex \subseteq Producers /\ me.excused \subseteq ex
    BY <1>1, <1>2, <1>3, <1>4, Fields DEF Excused
  <2> QED BY <1>2, <1>5, <2>1 DEF CallStates
<1>7. ASSUME ~me.try.contended PROVE ~Remains(me, p)
  <2>1. InTheWay(c, p) = {} /\ me.try.overcommit = counters[p].dequeueOvercommit
    BY <1>1, <1>2, <1>7 DEF TryOk, Trying, Claiming
  <2>2. Claimers(p) = {}
    BY <1>1, <1>2, <2>1 DEF Claimers, InTheWay
  <2>3. counters[p].dequeueOptimisticCount = counters[p].dequeueOvercommit + counters[p].headIndex
    BY <1>0, <1>3, <2>2, FS_EmptySet, ProducersAre DEF IInv, TallyInv
  <2>4. ~(counters[p].headIndex < me.try.tail)
    BY <1>0, <1>1, <1>3, <2>1, <2>3, ProducersAre DEF AllClaimed, Unclaimed
  <2>5. \A i \in DOMAIN queue[p] : queue[p][i] \in me.waiting => counters[p].headIndex + i <= me.try.tail
    BY <1>1, <1>2 DEF TryOk, Trying
  <2>6. \A i \in DOMAIN queue[p] : queue[p][i] \notin me.waiting
    <3>1. counters[p].headIndex \in Nat /\ me.try.tail \in Nat /\ DOMAIN queue[p] = 1..Len(queue[p])
      BY <1>0, <1>2, <1>3, ProducersAre, Fields
    <3>2. \A i \in DOMAIN queue[p] : i \in Nat \ {0}
      BY <1>0, <1>3, <3>1, ProducersAre
    <3> QED BY <2>4, <2>5, <3>1, <3>2
  <2> QED BY <2>6 DEF Remains, Holds
<1>8. Covered(m)
  <2>1. me.excused \subseteq ex
    BY <1>4 DEF Excused
  <2> QED BY <1>2, <1>6, <2>1 DEF Covered, Remains, Ahead, Trying
<1>9. Remains(m, m.try.p) => m.try.p \in m.excused
  <2>1. me.try.contended => p \in ex
    BY <1>1, <1>4 DEF Excused
  <2> QED BY <1>1, <1>6, <1>7, <2>1 DEF Remains
<1>10. m.try.p # m.best => m.rest # <<>> /\ Head(m.rest) = m.try.p
  BY <1>2, <1>6 DEF TryOk, Trying
<1>11. Set(c, Failed(m))
  BY <1>1, <1>4, <1>5 DEF AllClaimed
<1>12. /\ Failed(m) \in ConsumerStates /\ Failed(m).pc = "others"
       /\ TryOk(c, Failed(m)) /\ Covered(Failed(m))
  BY <1>6, <1>8, <1>9, <1>10, FailedKeeps DEF Trying
<1> QED BY <1>1, <1>2, <1>11, <1>12, ConsumerGoes DEF AllClaimed

\* TooLate: without another claim in the way, there is no element.
LEMMA TooLateStep == ASSUME IInv, NEW c \in Consumers, TooLate(c) PROVE IInv'
<1>0. QueueTypes
  BY DEF IInv
<1>1. PICK me, p : me = consumer[c] /\ p = me.try.p
  OBVIOUS
<1>2. me \in CallStates /\ me.pc = "recheck" /\ Covered(me) /\ TryOk(c, me)
  BY <1>0, <1>1, ConsumerAt, ConsumerOk DEF TooLate, At
<1>3. p \in Producers
  BY <1>1, <1>2 DEF TryOk, Trying
<1>4. PICK ex : ex = Excused(me)
  OBVIOUS
<1>5. PICK r : r = [me EXCEPT !.pc = "takeBack", !.excused = ex]
  OBVIOUS
<1>6. /\ r \in ConsumerStates /\ r.pc = "takeBack" /\ r.rest = me.rest /\ r.best = me.best
      /\ r.waiting = me.waiting /\ r.excused = ex /\ r.try = me.try
  <2>1. ex \subseteq Producers
    BY <1>1, <1>2, <1>3, <1>4, Fields DEF Excused
  <2> QED BY <1>2, <1>5, <2>1 DEF ConsumerStates, CallStates, Trying
<1>7. ASSUME ~me.try.contended PROVE ~Remains(me, p)
  <2>1. me.try.my = me.try.overcommit + counters[p].headIndex
    BY <1>1, <1>2, <1>7 DEF TryOk, Trying, Claiming
  <2>2. ~(me.try.my - me.try.overcommit < counters[p].headIndex + Len(queue[p]))
    BY <1>1 DEF TooLate, Good, TailIndex
  <2>3. DOMAIN queue[p] = {}
    BY <1>0, <1>2, <1>3, <2>1, <2>2, ProducersAre, Fields
  <2> QED BY <2>3 DEF Remains, Holds
<1>8. Covered(r)
  <2>1. me.excused \subseteq ex
    BY <1>4 DEF Excused
  <2> QED BY <1>2, <1>6, <2>1 DEF Covered, Remains, Ahead, Trying
<1>9. TryOk(c, r)
  <2>1. me.try.contended => p \in ex
    BY <1>1, <1>4 DEF Excused
  <2>2. Remains(r, p) => p \in ex
    BY <1>6, <1>7, <2>1 DEF Remains
  <2>3. p # me.best => me.rest # <<>> /\ Head(me.rest) = p
    BY <1>1, <1>2 DEF TryOk, Trying
  <2> QED BY <1>1, <1>3, <1>6, <2>2, <2>3 DEF TryOk, Claiming
<1>10. Set(c, r)
  BY <1>1, <1>4, <1>5 DEF TooLate
<1> QED BY <1>1, <1>2, <1>6, <1>8, <1>9, <1>10, ConsumerGoes DEF TooLate

\* One counter of a producer is set.
LEMMA CountersSet ==
  ASSUME QueueTypes, NEW p \in Producers, NEW k \in Counters, counters' = [counters EXCEPT ![p] = k]
  PROVE  /\ counters' \in Seq(Counters) /\ Len(counters') = Len(queue)
         /\ \A q \in Producers : counters'[q] = IF q = p THEN k ELSE counters[q]
<1>1. counters \in Seq(Counters) /\ Len(counters) = Len(queue) /\ Producers = 1..Len(queue)
  BY ProducersAre DEF QueueTypes
<1> QED BY <1>1, ExceptSeq

\* The claims that may still be good are not settled.
LEMMA HopefulFinite ==
  ASSUME IInv, NEW p \in Producers, NEW D \in SUBSET Hopeful(p)
  PROVE  IsFiniteSet(D) /\ Cardinality(D) \in Nat /\ D \subseteq Claimers(p)
<1>1. Hopeful(p) \subseteq Claimers(p) /\ IsFiniteSet(Claimers(p))
  BY DEF IInv, TallyInv, Hopeful, Claimers
<1> QED BY <1>1, FS_Subset, FS_CardinalityType

\* Claim: those who compare or claim at the same time may fail because of it.
LEMMA ClaimStep == ASSUME IInv, NEW c \in Consumers, Claim(c) PROVE IInv'
<1>0. QueueTypes
  BY DEF IInv
<1>1. PICK me, p : me = consumer[c] /\ p = me.try.p
  OBVIOUS
<1>2. me \in CallStates /\ me.pc = "claim" /\ Covered(me) /\ TryOk(c, me)
  BY <1>0, <1>1, ConsumerAt, ConsumerOk DEF Claim, At
<1>3. PICK taken, opt, over : /\ taken = counters[p].headIndex /\ opt = counters[p].dequeueOptimisticCount
                             /\ over = counters[p].dequeueOvercommit
  OBVIOUS
<1>4. p \in Producers /\ taken \in Nat /\ opt \in Nat /\ over \in Nat /\ counters[p] \in Counters
  BY <1>0, <1>1, <1>2, <1>3, ProducersAre DEF TryOk, Trying
<1>5. PICK n : n = Cardinality(Claimers(p))
  OBVIOUS
<1>6. n \in Nat /\ IsFiniteSet(Claimers(p)) /\ c \notin Claimers(p) /\ opt = over + taken + n
  BY <1>1, <1>2, <1>3, <1>4, <1>5, FS_CardinalityType DEF IInv, TallyInv, Claimers
<1>7. PICK r : r = [me EXCEPT !.pc = "recheck", !.try.my = opt]
  OBVIOUS
<1>8. /\ r \in ConsumerStates /\ r.pc = "recheck" /\ r.rest = me.rest /\ r.best = me.best
      /\ r.waiting = me.waiting /\ r.excused = me.excused
      /\ r.try.p = p /\ r.try.overcommit = me.try.overcommit /\ r.try.my = opt
      /\ r.try.contended = me.try.contended
  BY <1>1, <1>2, <1>4, <1>7 DEF ConsumerStates, CallStates, Trying, Tries
<1>9. /\ consumer'[c] = r /\ consumer' = [d \in Consumers |-> consumer'[d]]
      /\ \A d \in Consumers \ {c} : consumer'[d] =
           IF consumer[d].pc \in Claiming /\ consumer[d].try.p = p
           THEN [consumer[d] EXCEPT !.try.contended = TRUE] ELSE consumer[d]
  BY <1>1, <1>3, <1>7 DEF Claim, Claiming
<1>10. ASSUME NEW d \in Consumers \ {c}
       PROVE  /\ consumer'[d] \in ConsumerStates /\ consumer'[d].pc = consumer[d].pc
              /\ consumer[d].pc # "idle" =>
                   /\ consumer'[d].try.p = consumer[d].try.p
                   /\ consumer'[d].try.tail = consumer[d].try.tail
                   /\ consumer'[d].try.my = consumer[d].try.my
                   /\ consumer'[d].try.overcommit = consumer[d].try.overcommit
                   /\ consumer'[d].rest = consumer[d].rest /\ consumer'[d].best = consumer[d].best
                   /\ consumer'[d].bestSize = consumer[d].bestSize
                   /\ consumer'[d].nonEmptyCount = consumer[d].nonEmptyCount
                   /\ consumer'[d].waiting = consumer[d].waiting
                   /\ consumer'[d].excused = consumer[d].excused
              /\ consumer'[d].pc \in Claiming /\ consumer'[d].try.p = p => consumer'[d].try.contended
              /\ consumer'[d].pc \in Claiming /\ ~consumer'[d].try.contended => consumer'[d] = consumer[d]
  <2>1. CASE consumer[d].pc \in Claiming /\ consumer[d].try.p = p
    <3>1. consumer[d] \in CallStates
      BY <1>0, <2>1, ConsumerAt DEF Claiming
    <3>2. PICK s : s = consumer[d]
      OBVIOUS
    <3>3. consumer'[d] = [s EXCEPT !.try.contended = TRUE]
      BY <1>9, <2>1, <3>2
    <3>4. s.try \in Tries /\ s.pc \in Claiming /\ s.try.p = p
      BY <2>1, <3>1, <3>2, Fields
    <3>5. PICK try : try = [s.try EXCEPT !.contended = TRUE]
      OBVIOUS
    <3>6. /\ try \in Tries /\ try.contended /\ try.p = p /\ try.tail = s.try.tail /\ try.my = s.try.my
          /\ try.overcommit = s.try.overcommit
      BY <3>4, <3>5 DEF Tries
    <3>7. consumer'[d] = [s EXCEPT !.try = try]
      BY <3>3, <3>5
    <3>8. PICK r1 : r1 = consumer'[d]
      OBVIOUS
    <3>9. /\ r1 \in CallStates /\ r1.try = try /\ r1.pc = s.pc /\ r1.rest = s.rest /\ r1.best = s.best
          /\ r1.bestSize = s.bestSize /\ r1.nonEmptyCount = s.nonEmptyCount
          /\ r1.waiting = s.waiting /\ r1.excused = s.excused
      BY <3>1, <3>2, <3>6, <3>7, <3>8 DEF CallStates
    <3> QED BY <3>2, <3>4, <3>6, <3>8, <3>9 DEF ConsumerStates
  <2>2. CASE ~(consumer[d].pc \in Claiming /\ consumer[d].try.p = p)
    <3>1. consumer'[d] = consumer[d] /\ consumer[d] \in ConsumerStates
      BY <1>0, <1>9, <2>2 DEF QueueTypes
    <3> QED BY <2>2, <3>1
  <2> QED BY <2>1, <2>2
<1>11. /\ Claimers(p)' = Claimers(p) \cup {c} /\ Hopeful(p)' = Hopeful(p) \cup {c}
       /\ \A q \in Producers \ {p} : Claimers(q)' = Claimers(q) /\ Hopeful(q)' = Hopeful(q)
  BY <1>8, <1>9, <1>10, <1>1, <1>2 DEF Claimers, Hopeful
<1>12. Ordinal(c)' = opt - me.try.overcommit
  BY <1>8, <1>9 DEF Ordinal
<1>13. \A d \in Consumers \ {c} : consumer[d].pc # "idle" => Ordinal(d)' = Ordinal(d)
  BY <1>10 DEF Ordinal
<1>14. PICK k : k = [counters[p] EXCEPT !.dequeueOptimisticCount = opt + 1]
  OBVIOUS
<1>15. /\ k \in Counters /\ k.headIndex = taken /\ k.dequeueOvercommit = over
       /\ k.dequeueOptimisticCount = opt + 1
  BY <1>3, <1>4, <1>14 DEF Counters
<1>16. counters' = [counters EXCEPT ![p] = k]
  BY <1>1, <1>3, <1>14 DEF Claim
<1>17. /\ counters' \in Seq(Counters) /\ Len(counters') = Len(queue)
       /\ \A q \in Producers : counters'[q] = IF q = p THEN k ELSE counters[q]
  BY <1>0, <1>4, <1>15, <1>16, CountersSet
<1>18. consumer' \in [Consumers -> ConsumerStates]
  BY <1>8, <1>9, <1>10
<1>19. /\ QueueTypes' /\ TableInv' /\ ThreadInv' /\ HoldsInv' /\ Producers' = Producers
       /\ UNCHANGED <<queue, list>>
  BY <1>17, <1>18, RestKeeps DEF Claim
<1>20. TallyInv'
  <2> SUFFICES ASSUME NEW q \in Producers
               PROVE  /\ IsFiniteSet(Claimers(q)')
                      /\ counters'[q].dequeueOptimisticCount = counters'[q].dequeueOvercommit
                           + counters'[q].headIndex + Cardinality(Claimers(q)')
    BY <1>19 DEF TallyInv
  <2>1. CASE q = p
    <3>1. IsFiniteSet(Claimers(p)') /\ Cardinality(Claimers(p)') = n + 1
      BY <1>5, <1>6, <1>11, FS_AddElement
    <3>2. counters'[q] = k
      BY <1>17, <2>1
    <3> QED BY <1>4, <1>6, <1>15, <2>1, <3>1, <3>2
  <2>2. CASE q # p
    BY <1>11, <1>17, <2>2 DEF IInv, TallyInv
  <2> QED BY <2>1, <2>2
<1>21. \A q \in Producers : counters'[q].headIndex = counters[q].headIndex
  BY <1>3, <1>15, <1>17
<1>22. ElementInv'
  <2> SUFFICES ASSUME NEW q \in Producers, NEW D \in SUBSET Hopeful(q)', D # {},
                      ~(counters[q].headIndex + Cardinality(D) <= TailIndex(q))
               PROVE  \E d \in D : Ordinal(d)' >= counters[q].headIndex + Cardinality(D) - 1
    BY <1>19, <1>21 DEF ElementInv, TailIndex
  <2>1. CASE c \in D
    <3>1. q = p
      BY <1>11, <1>1, <1>2, <2>1 DEF Hopeful
    <3>2. D \subseteq Claimers(p) \cup {c}
      BY <1>11, <3>1 DEF Hopeful, Claimers
    <3>3. /\ IsFiniteSet(Claimers(p) \cup {c}) /\ Cardinality(Claimers(p) \cup {c}) = n + 1
      BY <1>5, <1>6, FS_AddElement
    <3>4. Cardinality(D) <= n + 1 /\ Cardinality(D) \in Nat
      BY <3>2, <3>3, FS_Subset, FS_CardinalityType
    <3>5. me.try.overcommit <= over /\ me.try.overcommit \in Nat
      BY <1>1, <1>2, <1>3, Fields DEF TryOk, Trying, Claiming
    <3>6. Ordinal(c)' >= taken + Cardinality(D) - 1
      BY <1>4, <1>6, <1>12, <3>4, <3>5
    <3> QED BY <1>3, <2>1, <3>1, <3>6
  <2>2. CASE c \notin D
    <3>1. D \subseteq Hopeful(q)
      BY <1>11, <2>2
    <3>2. PICK d \in D : Ordinal(d) >= counters[q].headIndex + Cardinality(D) - 1
      BY <3>1 DEF IInv, ElementInv
    <3>3. d \in Consumers \ {c} /\ consumer[d].pc # "idle"
      BY <2>2, <3>1 DEF Hopeful
    <3> QED BY <1>13, <3>2, <3>3
  <2> QED BY <2>1, <2>2
<1>23. \A S : PlacesKept(S)
  BY <1>19, <1>21 DEF PlacesKept
<1>24. ConsumerInv'
  <2> SUFFICES ASSUME NEW d \in Consumers, NEW s \in {consumer'[d]} PROVE TryOk(d, s)' /\ Covered(s)'
    BY DEF ConsumerInv
  <2>1. CASE d = c
    <3>1. s = r
      BY <1>9, <2>1
    <3>2. Covered(r)'
      BY <1>2, <1>8, <1>19, <1>1 DEF Covered, Remains, Ahead, Holds, Trying
    <3>3. p # me.best => me.rest # <<>> /\ Head(me.rest) = p
      BY <1>1, <1>2 DEF TryOk, Trying
    <3>4. counters'[p].headIndex = taken /\ counters'[p].dequeueOvercommit = over
      BY <1>4, <1>15, <1>17
    <3>5. me.try.overcommit <= over
      BY <1>1, <1>2, <1>3 DEF TryOk, Trying, Claiming
    <3>6. ASSUME ~me.try.contended
          PROVE  InTheWay(c, p)' = {} /\ me.try.overcommit = over /\ opt = over + taken
      <4>1. InTheWay(c, p) = {} /\ me.try.overcommit = over
        BY <1>1, <1>2, <1>3, <3>6 DEF TryOk, Trying, Claiming
      <4>2. Claimers(p) = {}
        BY <1>6, <4>1 DEF Claimers, InTheWay
      <4>3. n = 0
        BY <1>5, <4>2, FS_EmptySet
      <4>4. InTheWay(c, p)' = {}
        BY <1>11, <4>2 DEF InTheWay, Claimers
      <4> QED BY <1>4, <1>6, <4>1, <4>3, <4>4
    <3>7. TryOk(c, r)'
      BY <1>4, <1>8, <1>19, <3>3, <3>4, <3>5, <3>6 DEF TryOk
    <3> QED BY <2>1, <3>1, <3>2, <3>7
  <2>2. CASE d # c
    <3>1. TryOk(d, consumer[d]) /\ Covered(consumer[d])
      BY ConsumerOk
    <3>2. TryOk(d, s) /\ Covered(s)
      <4>1. CASE consumer[d].pc = "idle"
        BY <1>10, <2>2, <4>1 DEF TryOk, Covered, Trying
      <4>2. CASE consumer[d].pc # "idle"
        <5>1. Covered(s)
          BY <1>10, <2>2, <3>1, <4>2 DEF Covered, Remains, Ahead
        <5>2. TryOk(d, s)
          <6>1. PICK o : o = consumer[d]
            OBVIOUS
          <6>2. /\ s.pc = o.pc /\ s.try.p = o.try.p /\ s.try.tail = o.try.tail /\ s.try.my = o.try.my
                /\ s.try.overcommit = o.try.overcommit /\ s.rest = o.rest /\ s.best = o.best
                /\ s.waiting = o.waiting /\ s.excused = o.excused
                /\ s.pc \in Claiming /\ ~s.try.contended => s = o
            BY <1>10, <2>2, <4>2, <6>1
          <6>3. TryOk(d, o)
            BY <3>1, <6>1
          <6> QED BY <6>2, <6>3 DEF TryOk, Remains
        <5> QED BY <5>1, <5>2
      <4> QED BY <4>1, <4>2
    <3>3. ASSUME s.pc \in Claiming
          PROVE  /\ s.try.p \in Producers /\ s.try.overcommit <= counters[s.try.p].dequeueOvercommit
                 /\ counters'[s.try.p].dequeueOvercommit = counters[s.try.p].dequeueOvercommit
                 /\ counters'[s.try.p].headIndex = counters[s.try.p].headIndex
      <4>1. s.try.p \in Producers /\ s.try.overcommit <= counters[s.try.p].dequeueOvercommit
        BY <3>2, <3>3 DEF TryOk, Trying, Claiming
      <4> QED BY <1>3, <1>15, <1>17, <4>1
    <3>4. ASSUME s.pc \in Claiming, ~s.try.contended
          PROVE  InTheWay(d, s.try.p)' = InTheWay(d, s.try.p)
      <4>1. s.try.p \in Producers \ {p}
        BY <1>10, <2>2, <3>3, <3>4
      <4> QED BY <1>11, <4>1 DEF InTheWay, Claimers
    <3> QED BY <1>19, <1>23, <3>2, <3>3, <3>4, ConsumerStays
  <2> QED BY <2>1, <2>2
<1> QED BY <1>19, <1>20, <1>22, <1>24 DEF IInv

\* The claim of c on p is settled: nobody else could go by the counters.
LEMMA SettledStays ==
  ASSUME IInv, NEW c \in Consumers, NEW p \in Producers, c \in Claimers(p),
         Producers' = Producers, \A S : PlacesKept(S),
         \A d \in Consumers \ {c} : consumer'[d] = consumer[d],
         consumer'[c].pc \in {"idle", "others"},
         \A q \in Producers \ {p} : counters'[q] = counters[q],
         counters'[p].dequeueOvercommit \in Nat,
         counters'[p].dequeueOvercommit >= counters[p].dequeueOvercommit,
         NEW d \in Consumers \ {c}
  PROVE  \A s \in {consumer'[d]} : TryOk(d, s)' /\ Covered(s)'
<1>0. QueueTypes
  BY DEF IInv
<1> SUFFICES ASSUME NEW s \in {consumer'[d]} PROVE TryOk(d, s)' /\ Covered(s)'
  OBVIOUS
<1>1. s = consumer[d] /\ TryOk(d, s) /\ Covered(s)
  BY ConsumerOk
<1>2. s.pc \in Claiming => s.try.p \in Producers /\ s.try.overcommit <= counters[s.try.p].dequeueOvercommit
  BY <1>1 DEF TryOk, Trying, Claiming
<1>3. s.pc \in Claiming /\ ~s.try.contended => s.try.p # p
  <2>1. c \in InTheWay(d, p)
    BY DEF Claimers, InTheWay
  <2> QED BY <1>1, <2>1 DEF TryOk, Trying, Claiming
<1>4. \A q : InTheWay(d, q)' \subseteq InTheWay(d, q)
  BY DEF InTheWay
<1>5. s.pc \in Claiming => s.try.overcommit <= counters'[s.try.p].dequeueOvercommit
  <2>1. s.pc \in Claiming => s.try.overcommit \in Nat
    BY <1>0, <1>1, ConsumerAt, Fields DEF Claiming
  <2>2. counters[p].dequeueOvercommit \in Nat
    BY <1>0, ProducersAre
  <2> QED BY <1>2, <2>1, <2>2
<1> QED BY <1>1, <1>2, <1>3, <1>4, <1>5, ConsumerStays

\* TakeBack: the claim is settled, and the dequeue has failed.
LEMMA TakeBackStep == ASSUME IInv, NEW c \in Consumers, TakeBack(c) PROVE IInv'
<1>0. QueueTypes
  BY DEF IInv
<1>1. PICK me, p : me = consumer[c] /\ p = me.try.p
  OBVIOUS
<1>2. me \in CallStates /\ me.pc = "takeBack" /\ Covered(me) /\ TryOk(c, me)
  BY <1>0, <1>1, ConsumerAt, ConsumerOk DEF TakeBack, At
<1>3. PICK taken, opt, over : /\ taken = counters[p].headIndex /\ opt = counters[p].dequeueOptimisticCount
                             /\ over = counters[p].dequeueOvercommit
  OBVIOUS
<1>4. p \in Producers /\ taken \in Nat /\ opt \in Nat /\ over \in Nat /\ counters[p] \in Counters
  BY <1>0, <1>1, <1>2, <1>3, ProducersAre DEF TryOk, Trying
<1>5. PICK r : r = Failed(me)
  OBVIOUS
<1>6. r \in ConsumerStates /\ r.pc = "others" /\ TryOk(c, r) /\ Covered(r)
  <2>1. me.try.p # me.best => me.rest # <<>> /\ Head(me.rest) = me.try.p
    BY <1>2 DEF TryOk, Trying
  <2>2. Remains(me, me.try.p) => me.try.p \in me.excused
    BY <1>2 DEF TryOk, Trying
  <2> QED BY <1>2, <1>5, <2>1, <2>2, FailedKeeps DEF Trying
<1>7. /\ consumer' \in [Consumers -> ConsumerStates] /\ consumer'[c] = r
      /\ \A d \in Consumers \ {c} : consumer'[d] = consumer[d]
  BY <1>0, <1>1, <1>5, <1>6 DEF TakeBack, Set, QueueTypes
<1>8. PICK k : k = [counters[p] EXCEPT !.dequeueOvercommit = over + 1]
  OBVIOUS
<1>9. /\ k \in Counters /\ k.headIndex = taken /\ k.dequeueOvercommit = over + 1
      /\ k.dequeueOptimisticCount = opt
  BY <1>3, <1>4, <1>8 DEF Counters
<1>10. counters' = [counters EXCEPT ![p] = k]
  BY <1>1, <1>3, <1>8 DEF TakeBack
<1>11. /\ counters' \in Seq(Counters) /\ Len(counters') = Len(queue)
       /\ \A q \in Producers : counters'[q] = IF q = p THEN k ELSE counters[q]
  BY <1>0, <1>4, <1>9, <1>10, CountersSet
<1>12. /\ QueueTypes' /\ TableInv' /\ ThreadInv' /\ HoldsInv' /\ Producers' = Producers
       /\ UNCHANGED <<queue, list>>
  BY <1>7, <1>11, RestKeeps DEF TakeBack
<1>13. \A q \in Producers : counters'[q].headIndex = counters[q].headIndex
  BY <1>3, <1>9, <1>11
<1>14. /\ c \in Claimers(p) /\ Claimers(p)' = Claimers(p) \ {c}
       /\ \A q : Hopeful(q)' = Hopeful(q)
       /\ \A q \in Producers \ {p} : Claimers(q)' = Claimers(q)
  BY <1>1, <1>2, <1>6, <1>7 DEF Claimers, Hopeful
<1>15. TallyInv'
  <2> SUFFICES ASSUME NEW q \in Producers
               PROVE  /\ IsFiniteSet(Claimers(q)')
                      /\ counters'[q].dequeueOptimisticCount = counters'[q].dequeueOvercommit
                           + counters'[q].headIndex + Cardinality(Claimers(q)')
    BY <1>12 DEF TallyInv
  <2>1. CASE q = p
    <3>1. IsFiniteSet(Claimers(p)) /\ opt = over + taken + Cardinality(Claimers(p))
      BY <1>3, <1>4 DEF IInv, TallyInv
    <3>2. /\ IsFiniteSet(Claimers(p)') /\ Cardinality(Claimers(p)') = Cardinality(Claimers(p)) - 1
          /\ Cardinality(Claimers(p)) \in Nat
      BY <1>14, <3>1, FS_RemoveElement, FS_CardinalityType
    <3>3. counters'[q] = k
      BY <1>11, <2>1
    <3> QED BY <1>4, <1>9, <2>1, <3>1, <3>2, <3>3
  <2>2. CASE q # p
    BY <1>11, <1>14, <2>2 DEF IInv, TallyInv
  <2> QED BY <2>1, <2>2
<1>16. ElementInv'
  <2> SUFFICES ASSUME NEW q \in Producers, NEW D \in SUBSET Hopeful(q), D # {},
                      ~(counters[q].headIndex + Cardinality(D) <= TailIndex(q))
               PROVE  \E d \in D : Ordinal(d)' >= counters[q].headIndex + Cardinality(D) - 1
    BY <1>12, <1>13, <1>14 DEF ElementInv, TailIndex
  <2>1. PICK d \in D : Ordinal(d) >= counters[q].headIndex + Cardinality(D) - 1
    BY DEF IInv, ElementInv
  <2>2. d \in Consumers /\ d # c
    BY <1>1, <1>2 DEF Hopeful
  <2> QED BY <1>7, <2>1, <2>2 DEF Ordinal
<1>17. \A S : PlacesKept(S)
  BY <1>12, <1>13 DEF PlacesKept
<1>18. ConsumerInv'
  <2> SUFFICES ASSUME NEW d \in Consumers, NEW s \in {consumer'[d]} PROVE TryOk(d, s)' /\ Covered(s)'
    BY DEF ConsumerInv
  <2>1. CASE d = c
    <3>1. s = r
      BY <1>7, <2>1
    <3>2. Covered(r)'
      BY <1>6, <1>12 DEF Covered, Remains, Ahead, Holds
    <3>3. TryOk(d, r)'
      BY <1>6 DEF TryOk, Trying
    <3> QED BY <3>1, <3>2, <3>3
  <2>2. CASE d # c
    <3>1. counters'[p].dequeueOvercommit \in Nat /\ counters'[p].dequeueOvercommit >= counters[p].dequeueOvercommit
      BY <1>3, <1>4, <1>9, <1>11
    <3>2. \A q \in Producers \ {p} : counters'[q] = counters[q]
      BY <1>11
    <3>3. consumer'[c].pc \in {"idle", "others"}
      BY <1>6, <1>7
    <3> QED BY <1>4, <1>7, <1>12, <1>14, <1>17, <2>2, <3>1, <3>2, <3>3, SettledStays
  <2> QED BY <2>1, <2>2
<1> QED BY <1>12, <1>15, <1>16, <1>18 DEF IInv

\* Take: there is an element for a good claim, and what is left has kept its place.
LEMMA TakeStep == ASSUME IInv, NEW c \in Consumers, Take(c) PROVE IInv'
<1>0. QueueTypes /\ Listed' = Listed /\ Sent' = Sent
  BY DEF IInv, Take, Listed, Sent
<1>1. PICK me, p : me = consumer[c] /\ p = me.try.p
  OBVIOUS
<1>2. me \in CallStates /\ me.pc = "recheck" /\ TryOk(c, me)
  BY <1>0, <1>1, ConsumerAt, ConsumerOk DEF Take, At
<1>3. PICK taken, opt, over : /\ taken = counters[p].headIndex /\ opt = counters[p].dequeueOptimisticCount
                             /\ over = counters[p].dequeueOvercommit
  OBVIOUS
<1>4. /\ p \in Producers /\ taken \in Nat /\ opt \in Nat /\ over \in Nat /\ counters[p] \in Counters
      /\ queue[p] \in Seq(Threads \X Nat) /\ Len(queue[p]) \in Nat /\ DOMAIN queue[p] = 1..Len(queue[p])
      /\ Producers = 1..Len(queue) /\ me.try.my \in Nat /\ me.try.overcommit \in Nat
  BY <1>0, <1>1, <1>2, <1>3, ProducersAre, Fields DEF TryOk, Trying
<1>5. Ordinal(c) < taken + Len(queue[p]) /\ Ordinal(c) \in Int
  <2>1. Ordinal(c) = me.try.my - me.try.overcommit
    BY <1>1 DEF Ordinal
  <2>2. me.try.my - me.try.overcommit < counters[p].headIndex + Len(queue[p])
    BY <1>1 DEF Take, Good, TailIndex
  <2> QED BY <1>3, <1>4, <2>1, <2>2
<1>6. queue[p] # <<>>
  <2>1. {c} \in SUBSET Hopeful(p) /\ Cardinality({c}) = 1
    BY <1>1, <1>2, FS_Singleton DEF Hopeful
  <2>2. taken + 1 <= taken + Len(queue[p]) \/ Ordinal(c) >= taken + 1 - 1
    BY <1>3, <1>4, <2>1 DEF IInv, ElementInv, TailIndex
  <2>3. Len(queue[p]) > 0
    BY <1>4, <1>5, <2>2
  <2> QED BY <2>3
<1>7. /\ Tail(queue[p]) \in Seq(Threads \X Nat) /\ Len(Tail(queue[p])) = Len(queue[p]) - 1
      /\ \A i \in 1..Len(Tail(queue[p])) : Tail(queue[p])[i] = queue[p][i + 1]
  BY <1>4, <1>6, HeadTailProperties
<1>8. /\ queue' \in Seq(Seq(Threads \X Nat)) /\ Len(queue') = Len(queue)
      /\ \A q \in 1..Len(queue) : queue'[q] = IF q = p THEN Tail(queue[p]) ELSE queue[q]
  <2>1. queue' = [queue EXCEPT ![p] = Tail(queue[p])]
    BY <1>1 DEF Take
  <2> QED BY <1>0, <1>4, <1>7, <2>1, ExceptSeq DEF QueueTypes
<1>9. PICK k : k = [counters[p] EXCEPT !.headIndex = taken + 1]
  OBVIOUS
<1>10. /\ k \in Counters /\ k.headIndex = taken + 1 /\ k.dequeueOvercommit = over
       /\ k.dequeueOptimisticCount = opt
  <2>1. PICK x : x = counters[p]
    OBVIOUS
  <2>2. x \in Counters /\ taken \in Nat /\ opt = x.dequeueOptimisticCount /\ over = x.dequeueOvercommit
    BY <1>3, <1>4, <2>1
  <2>3. k = [x EXCEPT !.headIndex = taken + 1]
    BY <1>9, <2>1
  <2> QED BY <2>2, <2>3 DEF Counters
<1>11. counters' = [counters EXCEPT ![p] = k]
  BY <1>1, <1>3, <1>9 DEF Take
<1>12. /\ counters' \in Seq(Counters) /\ Len(counters') = Len(queue)
       /\ \A q \in Producers : counters'[q] = IF q = p THEN k ELSE counters[q]
  BY <1>0, <1>4, <1>10, <1>11, CountersSet
<1>13. Producers' = Producers
  BY <1>4, <1>8, LenProperties DEF Producers
<1>14. \A S : PlacesKept(S)
  <2> SUFFICES ASSUME NEW q \in Producers, NEW i \in DOMAIN queue'[q]
               PROVE  \E j \in DOMAIN queue[q] :
                        /\ queue[q][j] = queue'[q][i]
                        /\ counters'[q].headIndex + i = counters[q].headIndex + j
    BY <1>13 DEF PlacesKept
  <2>1. CASE q = p
    <3>1. queue'[q] = Tail(queue[p]) /\ DOMAIN Tail(queue[p]) = 1..(Len(queue[p]) - 1)
      BY <1>4, <1>7, <1>8, <2>1, LenProperties
    <3>2. i + 1 \in DOMAIN queue[p] /\ queue'[q][i] = queue[p][i + 1] /\ i \in Nat
      BY <1>4, <1>7, <3>1
    <3>3. counters'[q].headIndex + i = counters[q].headIndex + (i + 1)
      <4>1. counters'[q].headIndex = taken + 1 /\ counters[q].headIndex = taken
        BY <1>3, <1>4, <1>10, <1>12, <2>1
      <4> QED BY <1>4, <3>2, <4>1
    <3> QED BY <2>1, <3>2, <3>3
  <2>2. CASE q # p
    BY <1>4, <1>8, <1>12, <2>2
  <2> QED BY <2>1, <2>2
<1>15. \A q \in Producers : Holds(q)' \subseteq Holds(q)
  <2> SUFFICES ASSUME NEW q \in Producers, NEW i \in DOMAIN queue'[q] PROVE queue'[q][i] \in Holds(q)
    BY DEF Holds
  <2>1. \E j \in DOMAIN queue[q] : queue[q][j] = queue'[q][i]
    <3>1. PlacesKept({queue'[q][i]})
      BY <1>14
    <3> QED BY <1>13, <3>1 DEF PlacesKept
  <2> QED BY <2>1 DEF Holds
<1>16. /\ Idle \in ConsumerStates /\ consumer' \in [Consumers -> ConsumerStates]
       /\ consumer'[c] = Idle /\ Idle.pc = "idle"
       /\ \A d \in Consumers \ {c} : consumer'[d] = consumer[d]
  BY <1>0 DEF Take, Set, QueueTypes, ConsumerStates, Idle
<1>17. QueueTypes'
  <2>1. ThreadStates' = ThreadStates /\ ConsumerStates' = ConsumerStates
    BY <1>0, <1>13 DEF ThreadStates, ConsumerStates, CallStates
  <2> QED BY <1>0, <1>8, <1>12, <1>13, <1>16, <2>1 DEF Take, QueueTypes
<1>18. TableInv' /\ ThreadInv'
  BY <1>0 DEF Take, IInv, TableInv, Gives, ThreadInv, In
<1>19. HoldsInv'
  BY <1>0, <1>13, <1>15 DEF IInv, HoldsInv
<1>20. /\ c \in Hopeful(p) /\ c \in Claimers(p)
       /\ Claimers(p)' = Claimers(p) \ {c} /\ Hopeful(p)' = Hopeful(p) \ {c}
       /\ \A q \in Producers \ {p} : Claimers(q)' = Claimers(q) /\ Hopeful(q)' = Hopeful(q)
  BY <1>1, <1>2, <1>16 DEF Claimers, Hopeful
<1>21. TallyInv'
  <2> SUFFICES ASSUME NEW q \in Producers
               PROVE  /\ IsFiniteSet(Claimers(q)')
                      /\ counters'[q].dequeueOptimisticCount = counters'[q].dequeueOvercommit
                           + counters'[q].headIndex + Cardinality(Claimers(q)')
    BY <1>13 DEF TallyInv
  <2>1. CASE q = p
    <3>1. IsFiniteSet(Claimers(p)) /\ opt = over + taken + Cardinality(Claimers(p))
      BY <1>3, <1>4 DEF IInv, TallyInv
    <3>2. /\ IsFiniteSet(Claimers(p)') /\ Cardinality(Claimers(p)') = Cardinality(Claimers(p)) - 1
          /\ Cardinality(Claimers(p)) \in Nat
      BY <1>20, <3>1, FS_RemoveElement, FS_CardinalityType
    <3>3. counters'[q] = k
      BY <1>12, <2>1
    <3> QED BY <1>4, <1>10, <2>1, <3>1, <3>2, <3>3
  <2>2. CASE q # p
    BY <1>12, <1>20, <2>2 DEF IInv, TallyInv
  <2> QED BY <2>1, <2>2
<1>22. ElementInv'
  <2>0. \A d \in Consumers \ {c} : Ordinal(d)' = Ordinal(d)
    BY <1>16 DEF Ordinal
  <2> SUFFICES ASSUME NEW q \in Producers, NEW D \in SUBSET Hopeful(q), D # {}, c \notin D,
                      ~(counters'[q].headIndex + Cardinality(D) <= TailIndex(q)')
               PROVE  \E d \in D : Ordinal(d) >= counters'[q].headIndex + Cardinality(D) - 1
    <3> SUFFICES ASSUME NEW q \in Producers, NEW D \in SUBSET Hopeful(q)', D # {},
                        ~(counters'[q].headIndex + Cardinality(D) <= TailIndex(q)')
                 PROVE  \E d \in D : Ordinal(d)' >= counters'[q].headIndex + Cardinality(D) - 1
      BY <1>13 DEF ElementInv
    <3>1. D \subseteq Hopeful(q) /\ c \notin D /\ D \subseteq Consumers \ {c}
      <4>1. Hopeful(q)' = Hopeful(q) \ {c}
        BY <1>1, <1>2, <1>20 DEF Hopeful
      <4> QED BY <4>1 DEF Hopeful
    <3> QED BY <2>0, <3>1
  <2>1. CASE q = p
    <3>1. PICK n : n = Cardinality(D)
      OBVIOUS
    <3>2. n \in Nat /\ IsFiniteSet(D) /\ Cardinality(D \cup {c}) = n + 1
      BY <2>1, <3>1, HopefulFinite, FS_AddElement
    <3>3. D \cup {c} \in SUBSET Hopeful(p) /\ D \cup {c} # {}
      BY <1>20, <2>1
    <3>4. \/ taken + (n + 1) <= taken + Len(queue[p])
          \/ \E d \in D \cup {c} : Ordinal(d) >= taken + (n + 1) - 1
      BY <1>3, <1>4, <3>2, <3>3 DEF IInv, ElementInv, TailIndex
    <3>5. counters'[q].headIndex = taken + 1 /\ TailIndex(q)' = taken + Len(queue[p])
      <4>1. counters'[q].headIndex = taken + 1 /\ queue'[q] = Tail(queue[p])
        <5>1. counters'[p] = k /\ queue'[p] = Tail(queue[p])
          BY <1>4, <1>8, <1>12
        <5> QED BY <1>10, <2>1, <5>1
      <4>2. Len(queue'[q]) = Len(queue[p]) - 1
        BY <1>7, <4>1
      <4>3. PICK m : m = Len(queue[p])
        OBVIOUS
      <4>4. taken \in Nat /\ m \in Nat
        BY <1>4, <4>3
      <4>5. (taken + 1) + (m - 1) = taken + m
        BY <4>4
      <4> QED BY <4>1, <4>2, <4>3, <4>5 DEF TailIndex
    <3>6. ~(taken + 1 + n <= taken + Len(queue[p]))
      BY <3>1, <3>5
    <3>7. PICK d \in D \cup {c} : Ordinal(d) >= taken + n
      BY <1>4, <3>2, <3>4, <3>6
    <3>8. d # c
      BY <1>4, <1>5, <3>2, <3>6, <3>7
    <3>9. counters'[q].headIndex + Cardinality(D) - 1 = taken + n
      BY <1>4, <3>1, <3>2, <3>5
    <3> QED BY <3>7, <3>8, <3>9
  <2>2. CASE q # p
    <3>1. counters'[q] = counters[q] /\ TailIndex(q)' = TailIndex(q)
      BY <1>4, <1>8, <1>12, <2>2 DEF TailIndex
    <3> QED BY <3>1 DEF IInv, ElementInv
  <2> QED BY <2>1, <2>2
<1>23. ConsumerInv'
  <2> SUFFICES ASSUME NEW d \in Consumers, NEW s \in {consumer'[d]} PROVE TryOk(d, s)' /\ Covered(s)'
    BY DEF ConsumerInv
  <2>1. CASE d = c
    BY <1>16, <2>1 DEF TryOk, Covered, Trying
  <2>2. CASE d # c
    <3>1. counters'[p].dequeueOvercommit \in Nat /\ counters'[p].dequeueOvercommit >= counters[p].dequeueOvercommit
      BY <1>3, <1>4, <1>10, <1>12
    <3>2. \A q \in Producers \ {p} : counters'[q] = counters[q]
      BY <1>12
    <3>3. consumer'[c].pc \in {"idle", "others"}
      BY <1>16
    <3> QED BY <1>4, <1>13, <1>14, <1>16, <1>20, <2>2, <3>1, <3>2, <3>3, SettledStays
  <2> QED BY <2>1, <2>2
<1> QED BY <1>17, <1>18, <1>19, <1>21, <1>22, <1>23 DEF IInv

-----------------------------------------------------------------------------
(* The theorem *)

LEMMA InitKeeps == ASSUME Init PROVE IInv
<1>1. PICK n : n = InitialSize
  OBVIOUS
<1>2. tables = <<NewTable(n)>> /\ Len(tables) = 1 /\ tables[1] = NewTable(n)
  BY <1>1 DEF Init
<1>3. Gives(NewTable(n))
  BY DEF Gives, NewTable, None
<1>4. TableInv
  BY <1>2, <1>3 DEF TableInv
<1>5. Producers = {} /\ Idle \in ThreadStates /\ Idle \in ConsumerStates
  BY DEF Init, Producers, Idle, ThreadStates, ConsumerStates
<1>6. QueueTypes
  <2>1. queue \in Seq(Seq(Threads \X Nat)) /\ list \in Seq(Producers) /\ counters \in Seq(Counters)
    BY DEF Init
  <2>2. Len(counters) = Len(queue)
    BY DEF Init
  <2> QED BY <1>5, <2>1, <2>2 DEF Init, QueueTypes
<1>7. ThreadInv /\ HoldsInv /\ TallyInv /\ ElementInv
  BY <1>5 DEF Init, ThreadInv, HoldsInv, TallyInv, ElementInv, In, Idle
<1>8. ConsumerInv
  BY DEF Init, ConsumerInv, TryOk, Covered, Trying, Idle
<1> QED BY <1>4, <1>6, <1>7, <1>8 DEF IInv

LEMMA NextKeeps == ASSUME IInv, [Next]_vars PROVE IInv'
<1>1. CASE UNCHANGED vars
  <2>1. UNCHANGED <<tables, list, queue, counters, thread, consumer, sent, hashCount>>
    BY <1>1 DEF vars
  <2>2. QueueTypes'
    BY <2>1 DEF IInv, QueueTypes, Producers, Sent, ThreadStates, ConsumerStates, CallStates
  <2>3. TableInv' /\ ThreadInv'
    BY <2>1 DEF IInv, TableInv, Gives, ThreadInv, Listed, In
  <2>4. HoldsInv'
    BY <2>1 DEF IInv, HoldsInv, Producers, Listed, Holds, Sent
  <2>5. TallyInv' /\ ElementInv' /\ ConsumerInv'
    BY <2>1, ClaimsStay, UnchangedKeep DEF IInv
  <2> QED BY <2>2, <2>3, <2>4, <2>5 DEF IInv
<1>2. ASSUME NEW t \in Threads, Enqueue(t) PROVE IInv'
  <2>1. CASE \/ FoundOlder(t) \/ NotFound(t) \/ Count(t) \/ TestAndSet(t) \/ AlreadyResized(t)
             \/ ResizeFails(t) \/ Clear(t) \/ Wait(t) \/ CreateFails(t)
    BY <2>1, ThreadStep
  <2>2. CASE Found(t) \/ Copy(t) \/ AddToTable(t)
    BY <2>2, EnqueueStep
  <2>3. CASE Resize(t)
    BY <2>3, ResizeStep
  <2>4. CASE Create(t)
    BY <2>4, CreateStep
  <2>5. CASE AddProducer(t)
    BY <2>5, AddStep
  <2> QED BY <1>2, <2>1, <2>2, <2>3, <2>4, <2>5 DEF Enqueue
<1>3. ASSUME NEW c \in Consumers, Dequeue(c) PROVE IInv'
  BY <1>3, TryDequeueStep, ScanStep, SkipStep, ReturnStep, LoadTailStep, LoadOvercommitStep, AllClaimedStep,
     SomeUnclaimedStep, ClaimStep, TakeStep, TooLateStep, TakeBackStep DEF Dequeue
<1> QED BY <1>1, <1>2, <1>3 DEF Next

\* When nothing is ahead of a call, all that it saw and is left is where a claim was in the way.
LEMMA EmptyIsRight == ASSUME IInv PROVE NotOverlooked
<1> SUFFICES ASSUME NEW c \in Consumers, Nothing(c), NEW p \in Range(list),
                    Range(queue[p]) \cap consumer[c].waiting # {}, p \notin consumer[c].excused
             PROVE  FALSE
  BY DEF NotOverlooked
<1>1. p \in Producers /\ Remains(consumer[c], p)
  <2>1. p \in Listed
    BY DEF Range, Listed
  <2> QED BY <2>1, ListedProducers DEF Remains, Holds, Range
<1>2. Covered(consumer[c])
  BY ConsumerOk
<1>3. Ahead(consumer[c], p)
  <2>1. CASE At(c, "others")
    BY <1>1, <1>2, <2>1 DEF Covered, At
  <2>2. CASE At(c, "scan") /\ consumer[c].nonEmptyCount = 0
    BY <1>1, <1>2, <2>2 DEF Covered, At
  <2> QED BY <2>1, <2>2 DEF Nothing, Scanned
<1>4. consumer[c].rest = <<>>
  <2>1. CASE At(c, "others")
    BY <2>1 DEF Nothing, Scanned, At
  <2>2. CASE At(c, "scan")
    BY <2>2 DEF Nothing, Scanned, At
  <2> QED BY <2>1, <2>2 DEF Nothing, Scanned
<1> QED BY <1>3, <1>4 DEF Ahead

\* What an empty answer of try_dequeue says of the moment the call began, for every number of
\* threads and consumers, however hashes collide, tables grow and allocations fail: an element that
\* was in the queue then and still is, is with a producer where a claim of another consumer, not
\* settled yet, was in the way of this call; although the walk stops at the third producer that has
\* elements, and others empty the one it picked (concurrentqueue.h:1027-1061, 2454-2526).
THEOREM NotOverlookedTheorem == Spec => []NotOverlooked
<1>1. Init => IInv
  BY InitKeeps
<1>2. IInv /\ [Next]_vars => IInv'
  BY NextKeeps
<1>3. IInv => NotOverlooked
  BY EmptyIsRight
<1> QED BY <1>1, <1>2, <1>3, PTL DEF Spec

-----------------------------------------------------------------------------
(* OwnProducer: every thread has a producer of its own, and a table never fills *)

\* A thread may insert when its own count is below three quarters of the table it looked at, whatever
\* other threads have counted since.  That the table still has room follows from all counts below m
\* together: fewer than m threads have one, or are in the table.  The doubling of tables is arithmetic
\* on Power, a recursive function; what holds of each of its values is shown by the least counterexample.

\* The threads whose slot in the tables is counted but not yet used, and those of a count below m.
Waiting == {t \in Threads : thread[t].pc \in {"resize", "locked", "fits", "clear"}}
Below(m) == {t \in Waiting : thread[t].newCount < m}

\* The threads that are in table h or in one before, or will be.
Reg(h) == {t \in Threads :
  \/ thread[t].pc \in {"add", "insert"} /\ thread[t].main \in 1..h
  \/ \E g \in 1..h : Slots(t, g) # {}}

Counted == Waiting \cup Reg(Len(tables))

Entries == {None} \cup (Threads \X Producers)

IsTable(table) ==
  /\ table = [capacity |-> table.capacity, entries |-> table.entries]
  /\ table.capacity \in Nat \ {0, 1}
  /\ table.entries \in [0..(table.capacity - 1) -> Entries]

\* The tables grow, and a thread is in each of them once at most.
ShapeInv ==
  /\ \A h \in 1..Len(tables) : IsTable(tables[h])
  /\ \A g, h \in 1..Len(tables) : g <= h => Capacity(g) <= Capacity(h)
  /\ \A t \in Threads, h \in 1..Len(tables) : \A i, j \in Slots(t, h) : i = j

\* Which table a thread will go to, and where it is already.
PlaceInv == \A t \in Threads :
  /\ thread[t].pc \notin {"idle", "clearFailed"} => thread[t].main \in 1..Len(tables)
  /\ thread[t].pc \notin {"idle", "copy"} => \A h \in 1..Len(tables) : Slots(t, h) = {}
  /\ In(t, "copy") => /\ Slots(t, thread[t].main) = {}
                      /\ \E g \in 1..thread[t].main : Slots(t, g) # {}

CountInv ==
  /\ IsFiniteSet(Counted) /\ hashCount = Cardinality(Counted)
  /\ \A t \in Waiting : thread[t].newCount \in Nat

\* Of the threads of a count below m, and those in table h, there are less than m, for every m
\* that the table admits.
RoomInv == \A h \in 1..Len(tables) : \A m \in Nat :
  ThreeQuarters(Capacity(h)) <= m => Cardinality(Reg(h) \cup Below(m)) < m

\* A producer that was given to t, or will be.
Claims(t, p) ==
  \/ p \in given[t]
  \/ \E h \in 1..Len(tables) : \E i \in Slots(t, h) : tables[h].entries[i][2] = p
  \/ In(t, "copy") /\ thread[t].value = p
  \/ thread[t].pc \in {"add", "insert"} /\ thread[t].producer = p

OwnInv ==
  /\ \A t, u \in Threads : \A p, q \in Producers : Claims(t, p) /\ Claims(u, q) => (t = u <=> p = q)
  /\ given \in [Threads -> SUBSET Producers]
  /\ \A t \in Threads : given[t] # {} => \E h \in 1..Len(tables) : Slots(t, h) # {}

PInv == ShapeInv /\ PlaceInv /\ CountInv /\ RoomInv /\ OwnInv

-----------------------------------------------------------------------------
(* The sizes of tables *)

\* The least element of a set of numbers.
LEMMA LeastExists ==
  ASSUME NEW T \in SUBSET Nat, T # {}
  PROVE  \E m \in T : \A k \in T : m <= k
<1>1. PICK m \in T : \A k \in T : ~ (<<k, m>> \in OpToRel(<, Nat))
  BY NatLessThanWellFounded, WFMin
<1>2. \A k \in T : m <= k
  <2> SUFFICES ASSUME NEW k \in T PROVE m <= k
    OBVIOUS
  <2>1. ~ (k < m)
    BY <1>1 DEF OpToRel
  <2> QED BY <2>1
<1> QED BY <1>2

\* The powers up to the n-th.
Powers(n) == {g \in [0..n -> Nat] : g[0] = 1 /\ \A k \in 1..n : g[k] = 2 * g[k - 1]}

LEMMA PowersExist == \A n \in Nat : Powers(n) # {}
<1> DEFINE T == {n \in Nat : Powers(n) = {}}
<1> SUFFICES ASSUME T # {} PROVE FALSE
  OBVIOUS
<1>1. PICK m \in T : \A k \in T : m <= k
  <2> HIDE DEF T
  <2>1. T \in SUBSET Nat
    BY DEF T
  <2> QED BY <2>1, LeastExists
<1>2. CASE m = 0
  <2>1. [k \in 0..0 |-> 1] \in Powers(0)
    BY DEF Powers
  <2> QED BY <1>2, <2>1
<1>3. CASE m # 0
  <2>1. m - 1 \in Nat /\ m \in Nat /\ m - 1 \notin T
    BY <1>1, <1>3
  <2>2. PICK g : g \in Powers(m - 1)
    BY <2>1
  <2>3. /\ g \in [0..(m - 1) -> Nat] /\ g[0] = 1
        /\ \A k \in 1..(m - 1) : g[k] = 2 * g[k - 1]
    BY <2>2 DEF Powers
  <2>4. PICK h : h = [k \in 0..m |-> IF k = m THEN 2 * g[m - 1] ELSE g[k]]
    OBVIOUS
  <2>5. h \in [0..m -> Nat] /\ h[0] = 1
    BY <2>1, <2>3, <2>4
  <2>6. ASSUME NEW k \in 1..m PROVE h[k] = 2 * h[k - 1]
    <3>1. CASE k = m
      BY <2>1, <2>3, <2>4, <3>1
    <3>2. CASE k # m
      BY <2>1, <2>3, <2>4, <3>2
    <3> QED BY <3>1, <3>2
  <2>7. h \in Powers(m)
    BY <2>5, <2>6 DEF Powers
  <2> QED BY <2>7
<1> QED BY <1>2, <1>3

LEMMA PowersAgree ==
  ASSUME NEW n \in Nat, NEW m \in Nat, n <= m, NEW g \in Powers(n), NEW h \in Powers(m)
  PROVE  \A k \in 0..n : g[k] = h[k]
<1> DEFINE T == {k \in 0..n : g[k] # h[k]}
<1> SUFFICES ASSUME T # {} PROVE FALSE
  OBVIOUS
<1>1. PICK k \in T : \A j \in T : k <= j
  <2> HIDE DEF T
  <2>1. T \in SUBSET Nat
    BY DEF T
  <2> QED BY <2>1, LeastExists
<1>2. k # 0
  BY DEF Powers
<1>3. k - 1 \in 0..n /\ k - 1 \notin T /\ k \in 1..n /\ k \in 1..m
  BY <1>1, <1>2
<1>4. g[k - 1] = h[k - 1]
  BY <1>3
<1>5. g[k] = 2 * g[k - 1] /\ h[k] = 2 * h[k - 1]
  BY <1>3 DEF Powers
<1> QED BY <1>4, <1>5

\* The definition of Power has a meaning.
LEMMA PowerIs ==
  Power \in [Nat -> Nat] /\ Power[0] = 1 /\ \A k \in Nat \ {0} : Power[k] = 2 * Power[k - 1]
<1>1. PICK P : P = [k \in Nat |-> CHOOSE g : g \in Powers(k)]
  OBVIOUS
<1>2. \A k \in Nat : P[k] \in Powers(k)
  BY <1>1, PowersExist
<1>3. PICK f : f = [k \in Nat |-> P[k][k]]
  OBVIOUS
<1>4. \A k \in Nat : f[k] \in Nat
  BY <1>2, <1>3 DEF Powers
<1>5. f[0] = 1
  BY <1>2, <1>3 DEF Powers
<1>6. ASSUME NEW k \in Nat \ {0} PROVE f[k] = 2 * f[k - 1]
  <2>1. k - 1 \in Nat /\ k - 1 <= k /\ k - 1 \in 0..(k - 1) /\ k \in 1..k
    OBVIOUS
  <2>2. P[k][k] = 2 * P[k][k - 1]
    BY <1>2, <2>1 DEF Powers
  <2>3. P[k - 1][k - 1] = P[k][k - 1]
    BY <1>2, <2>1, PowersAgree
  <2> QED BY <1>3, <2>1, <2>2, <2>3
<1>7. f = [k \in Nat |-> IF k = 0 THEN 1 ELSE 2 * f[k - 1]]
  <2>1. \A k \in Nat : f[k] = IF k = 0 THEN 1 ELSE 2 * f[k - 1]
    BY <1>5, <1>6
  <2> QED BY <1>3, <2>1
<1>8. Power = [k \in Nat |-> IF k = 0 THEN 1 ELSE 2 * Power[k - 1]]
  BY <1>7 DEF Power
<1>9. Power[0] = 1 /\ \A k \in Nat \ {0} : Power[k] = 2 * Power[k - 1]
  BY <1>8
<1>10. \A k \in Nat : Power[k] \in Nat
  <2> DEFINE T == {k \in Nat : Power[k] \notin Nat}
  <2> SUFFICES ASSUME T # {} PROVE FALSE
    OBVIOUS
  <2>1. PICK k \in T : \A j \in T : k <= j
    <3> HIDE DEF T
    <3>1. T \in SUBSET Nat
      BY DEF T
    <3> QED BY <3>1, LeastExists
  <2>2. k # 0
    BY <1>9
  <2>3. k - 1 \in Nat /\ k - 1 \notin T
    BY <2>1, <2>2
  <2> QED BY <1>9, <2>2, <2>3
<1>11. Power \in [Nat -> Nat]
  BY <1>8, <1>10
<1> QED BY <1>9, <1>11

LEMMA PowerGrows == \A k \in Nat : Power[k] > k
<1> DEFINE T == {k \in Nat : ~ (Power[k] > k)}
<1> SUFFICES ASSUME T # {} PROVE FALSE
  OBVIOUS
<1>1. PICK k \in T : \A j \in T : k <= j
  <2> HIDE DEF T
  <2>1. T \in SUBSET Nat
    BY DEF T
  <2> QED BY <2>1, LeastExists
<1>2. k # 0
  BY PowerIs
<1>3. k - 1 \in Nat /\ k - 1 \notin T
  BY <1>1, <1>2
<1>4. Power[k] = 2 * Power[k - 1] /\ Power[k - 1] \in Nat
  BY <1>2, <1>3, PowerIs
<1> QED BY <1>3, <1>4

\* A table twice as large, or larger.
LEMMA DoubledGrows ==
  ASSUME NEW n \in Nat \ {0, 1}, NEW count \in Nat
  PROVE  Doubled(n, count) \in Nat /\ Doubled(n, count) >= n
<1> DEFINE K == {j \in 1..(count + 1) : 2 * count < n * Power[j]}
<1> DEFINE S == {n * Power[k] : k \in K}
<1>1. \A k \in K : Power[k] \in Nat /\ Power[k] > 1
  BY PowerIs, PowerGrows
<1>2. \A x \in S : x \in Nat /\ x >= n
  <2> SUFFICES ASSUME NEW k \in K PROVE n * Power[k] \in Nat /\ n * Power[k] >= n
    OBVIOUS
  <2>1. PICK w \in Nat : w = Power[k] /\ w >= 1
    BY <1>1
  <2>2. n * w >= n /\ n * w \in Nat
    BY <2>1
  <2> QED BY <2>1, <2>2
<1>3. count + 1 \in K
  <2>1. PICK w \in Nat : w = Power[count + 1] /\ w > count + 1
    BY PowerIs, PowerGrows
  <2>2. n * w >= 2 * w
    BY <2>1
  <2> QED BY <2>1, <2>2
<1>4. S # {} /\ S \in SUBSET Nat
  BY <1>2, <1>3
<1>5. PICK m \in S : \A k \in S : m <= k
  <2> HIDE DEF S
  <2> QED BY <1>4, LeastExists
<1>6. Min(S) \in S
  BY <1>5 DEF Min
<1>7. Doubled(n, count) = Min(S)
  BY DEF Doubled
<1> QED BY <1>2, <1>6, <1>7

\* Going round a table from any slot, every slot is met.
LEMMA SlotsMet ==
  ASSUME NEW n \in Nat \ {0}, NEW a \in Nat, NEW i \in 0..(n - 1)
  PROVE  \E k \in 0..(n - 1) : (a + k) % n = i
<1>1. PICK q \in Nat, r \in 0..(n - 1) : a = n * q + r
  BY a = n * (a \div n) + (a % n)
<1>2. ASSUME NEW x \in Nat, NEW y \in Nat, x = n * y + i PROVE x % n = i
  <2>1. PICK z, s : z = x \div n /\ s = x % n
    OBVIOUS
  <2>4. z \in Int /\ s \in 0..(n - 1) /\ x = n * z + s
    BY <2>1
  <2>2. n * (y - z) = s - i
    BY <1>2, <2>4
  <2>3. y = z
    <3>1. CASE y - z >= 1
      <4>1. n * (y - z) >= n
        BY <2>4, <3>1
      <4> QED BY <2>2, <2>4, <4>1
    <3>2. CASE z - y >= 1
      <4>1. n * (z - y) >= n
        BY <2>4, <3>2
      <4>2. n * (z - y) = i - s
        BY <2>2, <2>4
      <4> QED BY <2>4, <4>1, <4>2
    <3> QED BY <2>4, <3>1, <3>2
  <2> QED BY <1>2, <2>1, <2>3, <2>4
<1>3. CASE r <= i
  <2>1. i - r \in 0..(n - 1) /\ a + (i - r) = n * q + i /\ a + (i - r) \in Nat
    BY <1>1, <1>3
  <2>2. (a + (i - r)) % n = i
    BY <1>1, <1>2, <2>1
  <2> QED BY <2>1, <2>2
<1>4. CASE r > i
  <2>1. i - r + n \in 0..(n - 1) /\ a + (i - r + n) = n * (q + 1) + i /\ a + (i - r + n) \in Nat
    BY <1>1, <1>4
  <2>2. (a + (i - r + n)) % n = i
    BY <1>1, <1>2, <2>1
  <2> QED BY <2>1, <2>2
<1> QED BY <1>3, <1>4

-----------------------------------------------------------------------------
(* The slots of a table *)

\* What a table holds.
LEMMA TableHas ==
  ASSUME ShapeInv, NEW h \in 1..Len(tables)
  PROVE  /\ Capacity(h) \in Nat \ {0, 1} /\ DOMAIN tables[h].entries = 0..(Capacity(h) - 1)
         /\ \A i \in 0..(Capacity(h) - 1) :
              tables[h].entries[i] # None => /\ tables[h].entries[i][1] \in Threads
                                             /\ tables[h].entries[i][2] \in Producers
                                             /\ i \in Slots(tables[h].entries[i][1], h)
<1>1. IsTable(tables[h])
  BY DEF ShapeInv
<1>2. /\ Capacity(h) \in Nat \ {0, 1} /\ DOMAIN tables[h].entries = 0..(Capacity(h) - 1)
      /\ tables[h].entries \in [0..(Capacity(h) - 1) -> Entries]
  BY <1>1 DEF IsTable, Capacity
<1>3. ASSUME NEW i \in 0..(Capacity(h) - 1), tables[h].entries[i] # None
      PROVE  /\ tables[h].entries[i][1] \in Threads
             /\ tables[h].entries[i][2] \in Producers
             /\ i \in Slots(tables[h].entries[i][1], h)
  <2>1. tables[h].entries[i] \in Threads \X Producers
    BY <1>2, <1>3 DEF Entries
  <2> QED BY <1>2, <1>3, <2>1 DEF Slots
<1> QED BY <1>2, <1>3

\* Three quarters of a table are less than the table.
LEMMA Quarters ==
  ASSUME NEW n \in Nat PROVE ThreeQuarters(n) \in Nat /\ ThreeQuarters(n) <= n
BY DEF ThreeQuarters

LEMMA QuartersGrow ==
  ASSUME NEW n \in Nat, NEW m \in Nat, n <= m PROVE ThreeQuarters(n) <= ThreeQuarters(m)
BY DEF ThreeQuarters

\* Every table has a free slot.
LEMMA FreeSlot ==
  ASSUME ShapeInv, CountInv, RoomInv, NEW h \in 1..Len(tables)
  PROVE  \E i \in 0..(Capacity(h) - 1) : tables[h].entries[i] = None
<1> SUFFICES ASSUME \A i \in 0..(Capacity(h) - 1) : tables[h].entries[i] # None
             PROVE  FALSE
  OBVIOUS
<1>1. PICK n \in Nat \ {0, 1} : n = Capacity(h)
  BY TableHas
<1>2. PICK m \in Nat : m = ThreeQuarters(n) /\ m <= n
  BY <1>1, Quarters
<1>3. PICK All : All = Reg(h) \cup Below(m)
  OBVIOUS
<1>4. Cardinality(All) < m
  BY <1>1, <1>2, <1>3 DEF RoomInv
<1>5. IsFiniteSet(All)
  <2>1. Len(tables) \in Nat => Reg(h) \subseteq Reg(Len(tables))
    BY DEF Reg
  <2>2. All \subseteq Counted
    BY <1>3, <2>1 DEF Counted, Below
  <2> QED BY <2>2, FS_Subset DEF CountInv
<1>6. PICK f : f = [i \in 0..(n - 1) |-> tables[h].entries[i][1]]
  OBVIOUS
<1>7. ASSUME NEW i \in 0..(n - 1) PROVE f[i] \in All /\ i \in Slots(f[i], h)
  <2>1. f[i] \in Threads /\ i \in Slots(f[i], h)
    BY <1>1, <1>6, TableHas
  <2> QED BY <1>3, <2>1 DEF Reg
<1>8. f \in Injection(0..(n - 1), All)
  <2>1. \A i, j \in 0..(n - 1) : f[i] = f[j] => i = j
    <3> SUFFICES ASSUME NEW i \in 0..(n - 1), NEW j \in 0..(n - 1), f[i] = f[j] PROVE i = j
      OBVIOUS
    <3>1. f[i] \in Threads /\ i \in Slots(f[i], h) /\ j \in Slots(f[i], h)
      BY <1>3, <1>7 DEF Reg, Below, Waiting
    <3> QED BY <3>1 DEF ShapeInv
  <2>2. f \in [0..(n - 1) -> All]
    BY <1>6, <1>7
  <2> QED BY <2>1, <2>2 DEF Injection, IsInjective
<1>9. Cardinality(0..(n - 1)) = n /\ IsFiniteSet(0..(n - 1))
  <2>1. 0 \in Int /\ n - 1 \in Int /\ ~ (0 > n - 1) /\ (n - 1) - 0 + 1 = n
    OBVIOUS
  <2> QED BY <2>1, FS_Interval
<1>10. Cardinality(0..(n - 1)) <= Cardinality(All)
  BY <1>5, <1>8, <1>9, FS_Injection
<1> QED BY <1>2, <1>4, <1>5, <1>9, <1>10, FS_CardinalityType

\* Insert puts the thread and its producer into a free slot, and changes nothing else.
LEMMA InsertAt ==
  ASSUME ShapeInv, CountInv, RoomInv, TableInv, TableAssumption,
         NEW t \in Threads, NEW h \in 1..Len(tables), NEW p, Insert(t, h, p)
  PROVE  \E i \in 0..(Capacity(h) - 1) :
           /\ tables[h].entries[i] = None
           /\ tables' = [g \in 1..Len(tables) |->
                IF g = h THEN [capacity |-> Capacity(h),
                               entries |-> [tables[h].entries EXCEPT ![i] = <<t, p>>]]
                         ELSE tables[g]]
<1>1. PICK n \in Nat \ {0, 1} : n = Capacity(h)
  BY TableHas
<1>2. PICK a \in Nat : a = hash_thread_id[t]
  BY DEF TableAssumption
<1>3. PICK entries : entries = tables[h].entries
  OBVIOUS
<1>4. PICK free : free = [k \in 0..(n - 1) |-> entries[(a + k) % n] = None]
  OBVIOUS
<1>5. \E k \in 0..(n - 1) : free[k]
  <2>1. PICK i \in 0..(n - 1) : entries[i] = None
    BY <1>1, <1>3, FreeSlot
  <2>2. PICK k \in 0..(n - 1) : (a + k) % n = i
    BY <1>2, <2>1, SlotsMet
  <2> QED BY <1>4, <2>1, <2>2
<1>6. \E k \in 0..(n - 1) : free[k] /\ \A j \in 0..(k - 1) : ~free[j]
  <2> DEFINE T == {k \in 0..(n - 1) : free[k]}
  <2>1. PICK k \in T : \A j \in T : k <= j
    <3>1. T # {} /\ T \in SUBSET Nat
      BY <1>5
    <3> HIDE DEF T
    <3> QED BY <3>1, LeastExists
  <2>2. \A j \in 0..(k - 1) : j \in 0..(n - 1) /\ j < k
    OBVIOUS
  <2>3. \A j \in 0..(k - 1) : ~free[j]
    BY <2>1, <2>2
  <2> QED BY <2>1, <2>3
<1>7. PICK first : first = CHOOSE k \in 0..(n - 1) : free[k] /\ \A j \in 0..(k - 1) : ~free[j]
  OBVIOUS
<1>8. first \in 0..(n - 1) /\ free[first]
  BY <1>6, <1>7
<1>9. PICK i : i = (a + first) % n
  OBVIOUS
<1>10. i \in 0..(n - 1) /\ entries[i] = None
  <2>1. entries[(a + first) % n] = None
    BY <1>4, <1>8
  <2>2. a + first \in Nat
    BY <1>8
  <2> QED BY <1>9, <2>1, <2>2
<1>11. tables' = [tables EXCEPT ![h].entries[i] = <<t, p>>]
  <2>1. first = CHOOSE k \in 0..(n - 1) : /\ entries[(a + k) % n] = None
                                          /\ \A j \in 0..(k - 1) : ~ (entries[(a + j) % n] = None)
    <3>1. \A k \in 0..(n - 1) :
            (free[k] /\ \A j \in 0..(k - 1) : ~free[j])
              <=> (entries[(a + k) % n] = None /\ \A j \in 0..(k - 1) : ~ (entries[(a + j) % n] = None))
      <4> SUFFICES ASSUME NEW k \in 0..(n - 1)
                   PROVE  /\ free[k] <=> entries[(a + k) % n] = None
                          /\ \A j \in 0..(k - 1) : free[j] <=> entries[(a + j) % n] = None
        OBVIOUS
      <4>1. \A j \in 0..(k - 1) : j \in 0..(n - 1)
        OBVIOUS
      <4> QED BY <1>4, <4>1
    <3> QED BY <1>7, <3>1
  <2> QED BY <1>1, <1>2, <1>3, <1>9, <2>1 DEF Insert
<1>12. PICK table : table = [tables[h] EXCEPT !.entries[i] = <<t, p>>]
  OBVIOUS
<1>13. table = [capacity |-> Capacity(h), entries |-> [tables[h].entries EXCEPT ![i] = <<t, p>>]]
  <2>1. tables[h] = [capacity |-> tables[h].capacity, entries |-> tables[h].entries]
    BY DEF ShapeInv, IsTable
  <2> QED BY <1>12, <2>1 DEF Capacity
<1>14. tables' = [tables EXCEPT ![h] = table]
  BY <1>11, <1>12
<1>15. tables' = [g \in 1..Len(tables) |-> IF g = h THEN table ELSE tables[g]]
  BY <1>14 DEF TableInv
<1> QED BY <1>1, <1>3, <1>10, <1>13, <1>15

-----------------------------------------------------------------------------
(* What a step leaves *)

\* The tables stay as they are.
LEMMA TablesStay ==
  ASSUME ShapeInv, tables' = tables, Producers \subseteq Producers'
  PROVE  /\ ShapeInv' /\ Len(tables') = Len(tables)
         /\ \A t \in Threads, h \in 1..Len(tables) : Slots(t, h)' = Slots(t, h)
         /\ \A h \in 1..Len(tables) : Capacity(h)' = Capacity(h)
<1>1. Entries \subseteq Entries'
  BY DEF Entries, None
<1>2. \A t, h : Slots(t, h)' = Slots(t, h)
  BY DEF Slots, None
<1>3. \A h : Capacity(h)' = Capacity(h)
  BY DEF Capacity
<1>4. \A h \in 1..Len(tables) : IsTable(tables[h])'
  BY <1>1 DEF ShapeInv, IsTable
<1>5. ShapeInv'
  BY <1>2, <1>3, <1>4 DEF ShapeInv
<1> QED BY <1>2, <1>3, <1>5

\* The threads are where they were, and their counts.
LEMMA CountsStay ==
  ASSUME CountInv, RoomInv, hashCount' = hashCount, Len(tables') = Len(tables),
         Waiting' = Waiting, \A t \in Waiting : thread'[t].newCount = thread[t].newCount,
         \A h \in 1..Len(tables) : Reg(h)' = Reg(h) /\ Capacity(h)' = Capacity(h),
         Len(tables) \in Nat \ {0}
  PROVE  CountInv' /\ RoomInv'
<1>1. \A m : Below(m)' = Below(m)
  BY DEF Below
<1>2. Counted' = Counted
  BY DEF Counted
<1>3. CountInv'
  BY <1>2 DEF CountInv
<1>4. RoomInv'
  BY <1>1 DEF RoomInv
<1> QED BY <1>3, <1>4

\* No thread gets a producer that it had no claim to.
LEMMA OwnStays ==
  ASSUME OwnInv, Producers \subseteq Producers',
         \A t \in Threads : \A p : Claims(t, p)' => Claims(t, p),
         given' \in [Threads -> SUBSET Producers'],
         \A t \in Threads : \A p : Claims(t, p) => p \in Producers,
         \A t \in Threads : given'[t] # {} => \E h \in 1..Len(tables') : Slots(t, h)' # {}
  PROVE  OwnInv'
BY DEF OwnInv

\* What is claimed is a producer.
LEMMA ClaimsProducers ==
  ASSUME QueueTypes, ShapeInv, OwnInv, NEW t \in Threads, NEW p, Claims(t, p)
  PROVE  p \in Producers
<1>1. CASE p \in given[t]
  BY <1>1 DEF OwnInv
<1>2. CASE \E h \in 1..Len(tables) : \E i \in Slots(t, h) : tables[h].entries[i][2] = p
  <2>0. PICK h \in 1..Len(tables) : \E i \in Slots(t, h) : tables[h].entries[i][2] = p
    BY <1>2
  <2>1. PICK i \in Slots(t, h) : tables[h].entries[i][2] = p
    BY <2>0
  <2>2. i \in DOMAIN tables[h].entries /\ tables[h].entries[i] # None
    BY <2>1 DEF Slots
  <2> QED BY <2>1, <2>2, TableHas
<1>3. CASE In(t, "copy") /\ thread[t].value = p
  BY <1>3, ThreadAt
<1>4. CASE thread[t].pc \in {"add", "insert"} /\ thread[t].producer = p
  BY <1>4, ThreadAt
<1> QED BY <1>1, <1>2, <1>3, <1>4 DEF Claims

PcWaiting == {"resize", "locked", "fits", "clear"}
PcRegistered == {"add", "insert"}

\* A thread goes on from one step to the next, and is counted and registered as before.
LEMMA Moves ==
  ASSUME PInv, QueueTypes, Len(tables) \in Nat \ {0},
         NEW t \in Threads, NEW r, Go(t, r),
         tables' = tables, given' = given, hashCount' = hashCount, Producers \subseteq Producers',
         r.pc \in PcWaiting <=> thread[t].pc \in PcWaiting,
         r.pc \in PcWaiting => r.newCount = thread[t].newCount,
         r.pc \in PcRegistered <=> thread[t].pc \in PcRegistered,
         r.pc \in PcRegistered => r.main = thread[t].main /\ r.producer = thread[t].producer,
         r.pc \notin {"idle", "clearFailed"} => r.main \in 1..Len(tables),
         r.pc \notin {"idle", "copy"} => \A h \in 1..Len(tables) : Slots(t, h) = {},
         r.pc = "copy" => /\ Slots(t, r.main) = {}
                          /\ \E g \in 1..r.main : Slots(t, g) # {}
                          /\ Claims(t, r.value)
  PROVE  PInv'
<1>1. /\ thread'[t] = r
      /\ \A u \in Threads : u # t => thread'[u] = thread[u]
  BY DEF Go, QueueTypes
<1>2. /\ ShapeInv' /\ Len(tables') = Len(tables)
      /\ \A u \in Threads, h \in 1..Len(tables) : Slots(u, h)' = Slots(u, h)
      /\ \A h \in 1..Len(tables) : Capacity(h)' = Capacity(h)
  BY TablesStay DEF PInv
<1>3. Waiting' = Waiting /\ \A u \in Waiting : thread'[u].newCount = thread[u].newCount
  BY <1>1 DEF Waiting, PcWaiting
<1>4. ASSUME NEW h \in 1..Len(tables) PROVE Reg(h)' = Reg(h)
  <2>1. \A u \in Threads, g \in 1..h : Slots(u, g)' = Slots(u, g)
    BY <1>2
  <2>2. \A u \in Threads : thread'[u].pc \in PcRegistered <=> thread[u].pc \in PcRegistered
    BY <1>1
  <2>3. \A u \in Threads : thread[u].pc \in PcRegistered => thread'[u].main = thread[u].main
    BY <1>1
  <2> QED BY <2>1, <2>2, <2>3 DEF Reg, PcRegistered
<1>5. CountInv' /\ RoomInv'
  BY <1>2, <1>3, <1>4, CountsStay DEF PInv
<1>6. PlaceInv'
  <2> SUFFICES ASSUME NEW u \in Threads
      PROVE  /\ thread'[u].pc \notin {"idle", "clearFailed"} => thread'[u].main \in 1..Len(tables)
             /\ thread'[u].pc \notin {"idle", "copy"} => \A h \in 1..Len(tables) : Slots(u, h) = {}
             /\ thread'[u].pc = "copy" => /\ Slots(u, thread'[u].main) = {}
                                          /\ \E g \in 1..thread'[u].main : Slots(u, g) # {}
    BY <1>2 DEF PlaceInv, In, Slots, None
  <2>1. CASE u = t
    BY <1>1, <2>1
  <2>2. CASE u # t
    BY <1>1, <2>2 DEF PInv, PlaceInv, In
  <2> QED BY <2>1, <2>2
<1>7. OwnInv'
  <2>1. ASSUME NEW u \in Threads, NEW p, Claims(u, p)' PROVE Claims(u, p)
    <3>1. CASE p \in given'[u]
      BY <3>1 DEF Claims
    <3>2. CASE (\E h \in 1..Len(tables) : \E i \in Slots(u, h) : tables[h].entries[i][2] = p)'
      BY <1>2, <3>2 DEF Claims
    <3>3. CASE thread'[u].pc = "copy" /\ thread'[u].value = p
      BY <1>1, <3>3 DEF Claims, In
    <3>4. CASE thread'[u].pc \in {"add", "insert"} /\ thread'[u].producer = p
      BY <1>1, <3>4 DEF Claims, PcRegistered
    <3> QED BY <2>1, <3>1, <3>2, <3>3, <3>4 DEF Claims, In
  <2>2. \A u \in Threads : \A p : Claims(u, p) => p \in Producers
    BY ClaimsProducers DEF PInv
  <2>3. given' \in [Threads -> SUBSET Producers']
    BY DEF PInv, OwnInv
  <2>4. \A u \in Threads : given'[u] # {} => \E h \in 1..Len(tables') : Slots(u, h)' # {}
    BY <1>2 DEF PInv, OwnInv
  <2> QED BY <2>1, <2>2, <2>3, <2>4, OwnStays DEF PInv
<1> QED BY <1>2, <1>5, <1>6, <1>7 DEF PInv

\* The steps of a thread that leave its count and its place.
LEMMA MovesStep ==
  ASSUME IInv, PInv, NEW t \in Threads,
         \/ FoundOlder(t) \/ NotFound(t) \/ TestAndSet(t) \/ AlreadyResized(t) \/ Clear(t)
         \/ Wait(t) \/ AddProducer(t)
  PROVE  PInv'
<1>0. /\ QueueTypes /\ Len(tables) \in Nat \ {0} /\ DOMAIN tables = 1..Len(tables)
      /\ Len(tables) \in 1..Len(tables)
      /\ thread[t].pc \notin {"idle", "clearFailed"} => thread[t].main \in 1..Len(tables)
      /\ thread[t].pc \notin {"idle", "copy"} => \A h \in 1..Len(tables) : Slots(t, h) = {}
  BY DEF IInv, TableInv, PInv, PlaceInv
<1>1. CASE FoundOlder(t)
  <2>1. PICK hs : hs = {h \in DOMAIN tables : Slots(t, h) # {}}
    OBVIOUS
  <2>2. hs # {} /\ hs \subseteq 1..Len(tables) /\ Max(hs) # Len(tables)
    BY <1>0, <1>1, <2>1 DEF FoundOlder
  <2>3. PICK h : h = Max(hs)
    OBVIOUS
  <2>4. h \in hs
    BY <1>0, <2>2, <2>3, MaxIsIn
  <2>5. Slots(t, Len(tables)) = {}
    <3> SUFFICES ASSUME Len(tables) \in hs PROVE FALSE
      BY <1>0, <2>1
    <3>1. \A k \in hs : Len(tables) >= k
      BY <1>0, <2>2
    <3>2. PICK m \in hs : \A k \in hs : m >= k
      BY <3>1
    <3>3. \A k \in hs : h >= k
      BY <2>3, <3>2 DEF Max
    <3> QED BY <1>0, <2>2, <2>3, <2>4, <3>1, <3>3
  <2>6. PICK i \in Slots(t, h) :
          Go(t, [pc |-> "copy", main |-> Len(tables), value |-> tables[h].entries[i][2]])
    BY <1>1, <2>1, <2>3 DEF FoundOlder
  <2>7. PICK v : v = tables[h].entries[i][2]
    OBVIOUS
  <2>8. Claims(t, v)
    BY <2>2, <2>4, <2>6, <2>7 DEF Claims
  <2>9. PICK r : r = [pc |-> "copy", main |-> Len(tables), value |-> v]
    OBVIOUS
  <2>10. /\ r.pc = "copy" /\ r.main = Len(tables) /\ r.value = v /\ Go(t, r)
         /\ \E g \in 1..Len(tables) : Slots(t, g) # {}
         /\ thread[t].pc = "idle"
    BY <1>1, <2>1, <2>2, <2>4, <2>6, <2>7, <2>9 DEF FoundOlder, In
  <2>11. tables' = tables /\ given' = given /\ hashCount' = hashCount /\ Producers' = Producers
    BY <1>1 DEF FoundOlder, Producers
  <2> QED BY <1>0, <2>5, <2>8, <2>10, <2>11, Moves DEF PcWaiting, PcRegistered
<1>2. CASE NotFound(t)
  <2>1. PICK r : r = [pc |-> "count", main |-> Len(tables)]
    OBVIOUS
  <2>2. r.pc = "count" /\ r.main = Len(tables) /\ Go(t, r) /\ thread[t].pc = "idle"
    BY <1>2, <2>1 DEF NotFound, In
  <2>3. /\ tables' = tables /\ given' = given /\ hashCount' = hashCount /\ Producers' = Producers
        /\ \A h \in 1..Len(tables) : Slots(t, h) = {}
    BY <1>0, <1>2 DEF NotFound, Producers
  <2> QED BY <1>0, <2>2, <2>3, Moves DEF PcWaiting, PcRegistered
<1>3. CASE TestAndSet(t) \/ AlreadyResized(t) \/ (Clear(t) /\ In(t, "clear")) \/ Wait(t)
  <2>1. thread[t] \in [pc : PcWaiting, main : Nat, newCount : Int]
    BY <1>0, <1>3, ThreadAt DEF TestAndSet, AlreadyResized, Wait, In, PcWaiting
  <2>2. PICK s \in PcWaiting, m \in 1..Len(tables) : Go(t, [thread[t] EXCEPT !.pc = s, !.main = m])
    <3>1. thread[t] = [thread[t] EXCEPT !.main = thread[t].main] /\ thread[t].main \in 1..Len(tables)
      BY <1>0, <2>1 DEF PcWaiting
    <3>2. CASE TestAndSet(t)
      <4>1. PICK s \in {"locked", "fits"} : Go(t, [thread[t] EXCEPT !.pc = s])
        BY <3>2 DEF TestAndSet
      <4>2. [thread[t] EXCEPT !.pc = s] = [thread[t] EXCEPT !.pc = s, !.main = thread[t].main]
        BY <2>1
      <4> QED BY <3>1, <4>1, <4>2 DEF PcWaiting
    <3>3. CASE AlreadyResized(t)
      BY <1>0, <3>3 DEF AlreadyResized, PcWaiting
    <3>4. CASE Clear(t) /\ In(t, "clear")
      <4>1. Go(t, [thread[t] EXCEPT !.pc = "fits"])
        BY <3>4 DEF Clear
      <4>2. [thread[t] EXCEPT !.pc = "fits"] = [thread[t] EXCEPT !.pc = "fits", !.main = thread[t].main]
        BY <2>1
      <4> QED BY <3>1, <4>1, <4>2 DEF PcWaiting
    <3>5. CASE Wait(t)
      BY <1>0, <3>5 DEF Wait, PcWaiting
    <3> QED BY <1>3, <3>2, <3>3, <3>4, <3>5
  <2>3. PICK r : r = [thread[t] EXCEPT !.pc = s, !.main = m]
    OBVIOUS
  <2>4. r.pc = s /\ r.main = m /\ r.newCount = thread[t].newCount
    BY <2>1, <2>3
  <2>5. tables' = tables /\ given' = given /\ hashCount' = hashCount /\ Producers' = Producers
    BY <1>3 DEF TestAndSet, AlreadyResized, Clear, Wait, Producers
  <2>6. \A h \in 1..Len(tables) : Slots(t, h) = {}
    BY <1>0, <2>1 DEF PcWaiting
  <2> QED BY <1>0, <2>1, <2>2, <2>3, <2>4, <2>5, <2>6, Moves DEF PcWaiting, PcRegistered
<1>4. CASE Clear(t) /\ In(t, "clearFailed")
  <2>1. Go(t, Idle) /\ Idle.pc = "idle" /\ thread[t].pc = "clearFailed"
    BY <1>4 DEF Clear, In, Idle
  <2>2. tables' = tables /\ given' = given /\ hashCount' = hashCount /\ Producers' = Producers
    BY <1>4 DEF Clear, Producers
  <2> QED BY <1>0, <2>1, <2>2, Moves DEF PcWaiting, PcRegistered
<1>5. CASE AddProducer(t)
  <2>1. thread[t] \in [pc : {"add", "insert"}, main : Nat, producer : Producers]
    BY <1>0, <1>5, ThreadAt DEF AddProducer, In
  <2>2. PICK r : r = [thread[t] EXCEPT !.pc = "insert"]
    OBVIOUS
  <2>3. /\ r.pc = "insert" /\ r.main = thread[t].main /\ r.producer = thread[t].producer
        /\ thread[t].pc = "add" /\ Go(t, r)
    BY <1>5, <2>1, <2>2 DEF AddProducer, In
  <2>4. tables' = tables /\ given' = given /\ hashCount' = hashCount /\ Producers' = Producers
    BY <1>5 DEF AddProducer, Producers
  <2> QED BY <1>0, <2>3, <2>4, Moves DEF PcWaiting, PcRegistered
<1> QED BY <1>1, <1>2, <1>3, <1>4, <1>5 DEF Clear

\* The sets that RoomInv counts are finite.
LEMMA RoomFinite ==
  ASSUME CountInv, NEW h \in 1..Len(tables), NEW m, Len(tables) \in Nat
  PROVE  /\ Reg(h) \cup Below(m) \subseteq Counted
         /\ IsFiniteSet(Reg(h) \cup Below(m)) /\ Cardinality(Reg(h) \cup Below(m)) \in Nat
<1>1. Reg(h) \subseteq Reg(Len(tables))
  BY DEF Reg
<1>2. Reg(h) \cup Below(m) \subseteq Counted
  BY <1>1 DEF Counted, Below
<1>3. IsFiniteSet(Reg(h) \cup Below(m))
  BY <1>2, FS_Subset DEF CountInv
<1> QED BY <1>2, <1>3, FS_CardinalityType

\* When the threads that count get fewer, there is room as before.
LEMMA RoomShrinks ==
  ASSUME CountInv, RoomInv, Len(tables) \in Nat, Len(tables') = Len(tables),
         \A h \in 1..Len(tables) : Capacity(h)' = Capacity(h),
         \A h \in 1..Len(tables), m \in Nat :
           ThreeQuarters(Capacity(h)) <= m => (Reg(h) \cup Below(m))' \subseteq Reg(h) \cup Below(m)
  PROVE  RoomInv'
<1> SUFFICES ASSUME NEW h \in 1..Len(tables), NEW m \in Nat, ThreeQuarters(Capacity(h)) <= m
             PROVE  Cardinality((Reg(h) \cup Below(m))') < m
  BY DEF RoomInv
<1>1. PICK A, B : A = Reg(h) \cup Below(m) /\ B = (Reg(h) \cup Below(m))'
  OBVIOUS
<1>2. IsFiniteSet(A) /\ Cardinality(A) \in Nat /\ Cardinality(A) < m
  BY <1>1, RoomFinite DEF RoomInv
<1>3. B \subseteq A
  BY <1>1
<1>4. IsFiniteSet(B) /\ Cardinality(B) <= Cardinality(A)
  BY <1>2, <1>3, FS_Subset
<1>5. Cardinality(B) \in Nat
  BY <1>4, FS_CardinalityType
<1>6. Cardinality(B) < m
  BY <1>2, <1>4, <1>5
<1> QED BY <1>1, <1>6

\* Count: the thread's count is of all the threads that count, itself included.
LEMMA CountStep == ASSUME IInv, PInv, NEW t \in Threads, Count(t) PROVE PInv'
<1>0. /\ QueueTypes /\ Len(tables) \in Nat \ {0} /\ thread[t].pc = "count"
      /\ thread[t].main \in 1..Len(tables) /\ \A h \in 1..Len(tables) : Slots(t, h) = {}
  BY DEF IInv, TableInv, PInv, PlaceInv, Count, In
<1>1. PICK r : r = [pc |-> "resize", main |-> thread[t].main, newCount |-> hashCount + 1]
  OBVIOUS
<1>2. r.pc = "resize" /\ r.main = thread[t].main /\ r.newCount = hashCount + 1
  BY <1>1
<1>3. /\ thread'[t] = r
      /\ \A u \in Threads : u # t => thread'[u] = thread[u]
      /\ tables' = tables /\ given' = given /\ hashCount' = hashCount + 1 /\ Producers' = Producers
  BY <1>0, <1>1 DEF Count, Go, QueueTypes, Producers
<1>4. /\ ShapeInv' /\ Len(tables') = Len(tables)
      /\ \A u \in Threads, h \in 1..Len(tables) : Slots(u, h)' = Slots(u, h)
      /\ \A h \in 1..Len(tables) : Capacity(h)' = Capacity(h)
  BY <1>3, TablesStay DEF PInv
<1>5. ASSUME NEW h \in 1..Len(tables) PROVE Reg(h)' = Reg(h) /\ t \notin Reg(h)
  <2>1. \A u \in Threads, g \in 1..h : Slots(u, g)' = Slots(u, g)
    BY <1>4
  <2>2. \A u \in Threads : thread'[u].pc \in PcRegistered <=> thread[u].pc \in PcRegistered
    BY <1>0, <1>2, <1>3 DEF PcRegistered
  <2>3. \A u \in Threads : thread[u].pc \in PcRegistered => thread'[u].main = thread[u].main
    BY <1>0, <1>3 DEF PcRegistered
  <2> QED BY <1>0, <2>1, <2>2, <2>3 DEF Reg, PcRegistered
<1>6. Waiting' = Waiting \cup {t} /\ t \notin Waiting
  BY <1>0, <1>2, <1>3 DEF Waiting
<1>7. Len(tables) \in 1..Len(tables)
  BY <1>0
<1>8. Counted' = Counted \cup {t} /\ t \notin Counted
  BY <1>4, <1>5, <1>6, <1>7 DEF Counted
<1>9. CountInv'
  <2>1. /\ IsFiniteSet(Counted \cup {t}) /\ Cardinality(Counted \cup {t}) = hashCount + 1
        /\ hashCount \in Nat
    BY <1>8, FS_AddElement, FS_CardinalityType DEF PInv, CountInv
  <2>2. \A u \in Waiting' : thread'[u].newCount \in Nat
    BY <1>2, <1>3, <1>6, <2>1 DEF PInv, CountInv, Waiting
  <2> QED BY <1>3, <1>8, <2>1, <2>2 DEF CountInv
<1>10. RoomInv'
  <2> SUFFICES ASSUME NEW h \in 1..Len(tables), NEW m \in Nat, ThreeQuarters(Capacity(h)) <= m
               PROVE  Cardinality((Reg(h) \cup Below(m))') < m
    BY <1>4 DEF RoomInv
  <2>1. PICK B : B = (Reg(h) \cup Below(m))'
    OBVIOUS
  <2>2. CASE hashCount + 1 < m
    <3>1. IsFiniteSet(Counted') /\ Cardinality(Counted') = hashCount + 1 /\ hashCount + 1 \in Int
      BY <1>0, <1>3, <1>9 DEF CountInv, QueueTypes
    <3>2. B \subseteq Counted'
      BY <1>4, <1>5, <1>9, <2>1, RoomFinite DEF Below, Counted, Reg
    <3>3. IsFiniteSet(B) /\ Cardinality(B) <= Cardinality(Counted')
      BY <3>1, <3>2, FS_Subset
    <3>4. Cardinality(B) \in Nat
      BY <3>3, FS_CardinalityType
    <3> QED BY <2>1, <2>2, <3>1, <3>3, <3>4
  <2>3. CASE ~ (hashCount + 1 < m)
    <3>1. Below(m)' = Below(m)
      BY <1>2, <1>3, <1>6, <2>3 DEF Below, Waiting
    <3>2. B = Reg(h) \cup Below(m)
      BY <1>5, <2>1, <3>1
    <3> QED BY <2>1, <3>2 DEF PInv, RoomInv
  <2> QED BY <2>2, <2>3
<1>11. PlaceInv'
  <2>1. \A u \in Threads : thread'[u].pc = "copy" => u # t
    BY <1>2, <1>3
  <2> QED BY <1>0, <1>2, <1>3, <1>4, <2>1 DEF PInv, PlaceInv, In, Slots, None
<1>12. OwnInv'
  <2>1. ASSUME NEW u \in Threads, NEW p, Claims(u, p)' PROVE Claims(u, p)
    BY <1>2, <1>3, <1>4, <2>1 DEF Claims, In
  <2>2. \A u \in Threads : \A p : Claims(u, p) => p \in Producers
    BY <1>0, ClaimsProducers DEF PInv
  <2>3. given' \in [Threads -> SUBSET Producers']
    BY <1>3 DEF PInv, OwnInv
  <2>4. \A u \in Threads : given'[u] # {} => \E h \in 1..Len(tables') : Slots(u, h)' # {}
    BY <1>3, <1>4 DEF PInv, OwnInv
  <2> QED BY <1>3, <2>1, <2>2, <2>3, <2>4, OwnStays DEF PInv
<1> QED BY <1>4, <1>9, <1>10, <1>11, <1>12 DEF PInv

\* A failed allocation: the thread is not counted any more.
LEMMA FailStep ==
  ASSUME IInv, PInv, NEW t \in Threads, ResizeFails(t) \/ CreateFails(t)
  PROVE  PInv'
<1>0. /\ QueueTypes /\ Len(tables) \in Nat \ {0} /\ thread[t].pc \in PcWaiting
      /\ \A h \in 1..Len(tables) : Slots(t, h) = {}
  BY DEF IInv, TableInv, PInv, PlaceInv, ResizeFails, CreateFails, In, PcWaiting
<1>1. PICK r : Go(t, r) /\ r.pc \in {"idle", "clearFailed"}
  BY DEF ResizeFails, CreateFails, Idle
<1>2. /\ thread'[t] = r
      /\ \A u \in Threads : u # t => thread'[u] = thread[u]
      /\ tables' = tables /\ given' = given /\ hashCount' = hashCount - 1 /\ Producers' = Producers
  BY <1>0, <1>1 DEF ResizeFails, CreateFails, Go, QueueTypes, Producers
<1>3. /\ ShapeInv' /\ Len(tables') = Len(tables)
      /\ \A u \in Threads, h \in 1..Len(tables) : Slots(u, h)' = Slots(u, h)
      /\ \A h \in 1..Len(tables) : Capacity(h)' = Capacity(h)
  BY <1>2, TablesStay DEF PInv
<1>4. ASSUME NEW h \in 1..Len(tables) PROVE Reg(h)' = Reg(h) /\ t \notin Reg(h)
  <2>1. \A u \in Threads, g \in 1..h : Slots(u, g)' = Slots(u, g)
    BY <1>3
  <2>2. \A u \in Threads : thread'[u].pc \in PcRegistered <=> thread[u].pc \in PcRegistered
    BY <1>0, <1>1, <1>2 DEF PcRegistered, PcWaiting
  <2>3. \A u \in Threads : thread[u].pc \in PcRegistered => thread'[u].main = thread[u].main
    BY <1>0, <1>2 DEF PcRegistered, PcWaiting
  <2> QED BY <1>0, <2>1, <2>2, <2>3 DEF Reg, PcRegistered, PcWaiting
<1>5. /\ Waiting' = Waiting \ {t} /\ t \in Waiting
      /\ \A u \in Waiting' : u \in Waiting /\ thread'[u] = thread[u]
  BY <1>0, <1>1, <1>2 DEF Waiting, PcWaiting
<1>6. Len(tables) \in 1..Len(tables)
  BY <1>0
<1>7. Counted' = Counted \ {t} /\ t \in Counted
  BY <1>3, <1>4, <1>5, <1>6 DEF Counted
<1>8. CountInv'
  <2>1. IsFiniteSet(Counted \ {t}) /\ Cardinality(Counted \ {t}) = hashCount - 1
    BY <1>7, FS_RemoveElement DEF PInv, CountInv
  <2>2. \A u \in Waiting' : thread'[u].newCount \in Nat
    BY <1>5 DEF PInv, CountInv
  <2> QED BY <1>2, <1>7, <2>1, <2>2 DEF CountInv
<1>9. RoomInv'
  <2>1. \A m \in Nat : Below(m)' \subseteq Below(m)
    BY <1>5 DEF Below
  <2>2. \A h \in 1..Len(tables), m \in Nat : (Reg(h) \cup Below(m))' \subseteq Reg(h) \cup Below(m)
    BY <1>4, <2>1
  <2> QED BY <1>0, <1>3, <2>2, RoomShrinks DEF PInv
<1>10. PlaceInv'
  <2>1. \A u \in Threads : thread'[u].pc \notin {"idle", "clearFailed"} => u # t
    BY <1>1, <1>2
  <2>2. \A u \in Threads : thread'[u].pc = "copy" => u # t
    BY <1>1, <1>2
  <2> QED BY <1>0, <1>2, <1>3, <2>1, <2>2 DEF PInv, PlaceInv, In, Slots, None
<1>11. OwnInv'
  <2>1. ASSUME NEW u \in Threads, NEW p, Claims(u, p)' PROVE Claims(u, p)
    BY <1>1, <1>2, <1>3, <2>1 DEF Claims, In
  <2>2. \A u \in Threads : \A p : Claims(u, p) => p \in Producers
    BY <1>0, ClaimsProducers DEF PInv
  <2>3. given' \in [Threads -> SUBSET Producers']
    BY <1>2 DEF PInv, OwnInv
  <2>4. \A u \in Threads : given'[u] # {} => \E h \in 1..Len(tables') : Slots(u, h)' # {}
    BY <1>2, <1>3 DEF PInv, OwnInv
  <2> QED BY <1>2, <2>1, <2>2, <2>3, <2>4, OwnStays DEF PInv
<1> QED BY <1>3, <1>8, <1>9, <1>10, <1>11 DEF PInv

\* Create: the thread has no claim yet, and its producer is new.
LEMMA CreateOwn == ASSUME IInv, PInv, NEW t \in Threads, Create(t) PROVE PInv'
<1>0. /\ QueueTypes /\ Len(tables) \in Nat \ {0} /\ thread[t].pc = "fits"
      /\ thread[t].main \in 1..Len(tables)
      /\ thread[t].newCount < ThreeQuarters(Capacity(thread[t].main))
      /\ \A h \in 1..Len(tables) : Slots(t, h) = {}
  BY DEF IInv, TableInv, PInv, PlaceInv, Create, In
<1>1. PICK r, n : n = Len(queue) + 1 /\ r = [pc |-> "add", main |-> thread[t].main, producer |-> n]
  OBVIOUS
<1>2. r.pc = "add" /\ r.main = thread[t].main /\ r.producer = n
  BY <1>1
<1>3. /\ thread'[t] = r
      /\ \A u \in Threads : u # t => thread'[u] = thread[u]
      /\ tables' = tables /\ given' = given /\ hashCount' = hashCount
  BY <1>0, <1>1 DEF Create, Go, QueueTypes
<1>4. n \notin Producers /\ Producers' = Producers \cup {n}
  <2>1. Len(queue) \in Nat /\ Len(queue') = Len(queue) + 1 /\ DOMAIN queue = 1..Len(queue)
        /\ queue' \in Seq(Seq(Threads \X Nat))
    <3>1. queue \in Seq(Seq(Threads \X Nat)) /\ <<>> \in Seq(Threads \X Nat)
      BY <1>0 DEF QueueTypes
    <3> QED BY <3>1, AppendProperties, LenProperties DEF Create
  <2>2. DOMAIN queue' = 1..Len(queue')
    BY <2>1, LenProperties
  <2> QED BY <1>1, <2>1, <2>2 DEF Producers
<1>5. /\ ShapeInv' /\ Len(tables') = Len(tables)
      /\ \A u \in Threads, h \in 1..Len(tables) : Slots(u, h)' = Slots(u, h)
      /\ \A h \in 1..Len(tables) : Capacity(h)' = Capacity(h)
  BY <1>3, <1>4, TablesStay DEF PInv
<1>6. ASSUME NEW h \in 1..Len(tables)
      PROVE  Reg(h)' = Reg(h) \cup (IF r.main <= h THEN {t} ELSE {}) /\ t \notin Reg(h)
  <2>1. \A u \in Threads, g \in 1..h : Slots(u, g)' = Slots(u, g)
    BY <1>5
  <2>2. t \in Reg(h)' <=> r.main <= h
    BY <1>0, <1>2, <1>3, <2>1 DEF Reg
  <2>3. \A u \in Threads \ {t} : u \in Reg(h)' <=> u \in Reg(h)
    BY <1>3, <2>1 DEF Reg
  <2>4. t \notin Reg(h)
    BY <1>0 DEF Reg
  <2>5. Reg(h) \subseteq Threads /\ Reg(h)' \subseteq Threads
    BY DEF Reg
  <2> QED BY <2>2, <2>3, <2>4, <2>5
<1>7. /\ Waiting' = Waiting \ {t} /\ t \in Waiting
      /\ \A u \in Waiting' : u \in Waiting /\ thread'[u] = thread[u]
  BY <1>0, <1>2, <1>3 DEF Waiting
<1>8. Counted' = Counted
  <2>1. Len(tables) \in 1..Len(tables) /\ r.main <= Len(tables)
    BY <1>0, <1>2
  <2> QED BY <1>5, <1>6, <1>7, <2>1 DEF Counted
<1>9. CountInv'
  BY <1>3, <1>7, <1>8 DEF PInv, CountInv
<1>10. RoomInv'
  <2> SUFFICES ASSUME NEW h \in 1..Len(tables), NEW m \in Nat, ThreeQuarters(Capacity(h)) <= m
               PROVE  (Reg(h) \cup Below(m))' \subseteq Reg(h) \cup Below(m)
    BY <1>0, <1>5, RoomShrinks DEF PInv
  <2>1. Below(m)' \subseteq Below(m)
    BY <1>7 DEF Below
  <2>2. CASE r.main <= h
    <3>1. Capacity(r.main) <= Capacity(h) /\ Capacity(r.main) \in Nat /\ Capacity(h) \in Nat
      BY <1>0, <1>2, <2>2, TableHas DEF PInv, ShapeInv
    <3>2. ThreeQuarters(Capacity(r.main)) <= ThreeQuarters(Capacity(h))
      BY <3>1, QuartersGrow
    <3>3. ThreeQuarters(Capacity(r.main)) \in Nat /\ ThreeQuarters(Capacity(h)) \in Nat
      BY <3>1, Quarters
    <3>4. thread[t].newCount \in Nat
      BY <1>7 DEF PInv, CountInv
    <3>5. thread[t].newCount < m
      BY <1>0, <1>2, <3>2, <3>3, <3>4
    <3>6. t \in Below(m)
      BY <1>7, <3>5 DEF Below
    <3> QED BY <1>6, <2>1, <3>6
  <2>3. CASE ~ (r.main <= h)
    BY <1>6, <2>1, <2>3
  <2> QED BY <2>2, <2>3
<1>11. PlaceInv'
  <2>1. \A u \in Threads : thread'[u].pc = "copy" => u # t
    BY <1>2, <1>3
  <2> QED BY <1>0, <1>2, <1>3, <1>5, <2>1 DEF PInv, PlaceInv, In, Slots, None
<1>12. OwnInv'
  <2>1. \A u \in Threads : \A p : Claims(u, p) => p \in Producers
    BY <1>0, ClaimsProducers DEF PInv
  <2>2. ASSUME NEW p PROVE ~ Claims(t, p)
    <3>1. given[t] = {}
      BY <1>0 DEF PInv, OwnInv
    <3> QED BY <1>0, <3>1 DEF Claims, In
  <2>3. ASSUME NEW p, Claims(t, p)' PROVE p = n
    <3>1. ~ (p \in given'[t])
      BY <1>3, <2>2 DEF Claims
    <3> QED BY <1>0, <1>2, <1>3, <1>5, <2>3, <3>1 DEF Claims, In
  <2>4. ASSUME NEW u \in Threads \ {t}, NEW p, Claims(u, p)' PROVE Claims(u, p)
    BY <1>3, <1>5, <2>4 DEF Claims, In
  <2>5. \A u, v \in Threads : \A p, q \in Producers' :
          Claims(u, p)' /\ Claims(v, q)' => (u = v <=> p = q)
    <3> SUFFICES ASSUME NEW u \in Threads, NEW v \in Threads, NEW p, NEW q,
                        Claims(u, p)', Claims(v, q)'
                 PROVE  u = v <=> p = q
      OBVIOUS
    <3>1. CASE u = t /\ v = t
      BY <2>3, <3>1
    <3>2. CASE u # t /\ v # t
      <4>1. Claims(u, p) /\ Claims(v, q) /\ p \in Producers /\ q \in Producers
        BY <2>1, <2>4, <3>2
      <4> QED BY <4>1 DEF PInv, OwnInv
    <3>3. CASE u = t /\ v # t
      <4>1. p = n /\ q \in Producers
        BY <2>1, <2>3, <2>4, <3>3
      <4> QED BY <1>4, <3>3, <4>1
    <3>4. CASE u # t /\ v = t
      <4>1. q = n /\ p \in Producers
        BY <2>1, <2>3, <2>4, <3>4
      <4> QED BY <1>4, <3>4, <4>1
    <3> QED BY <3>1, <3>2, <3>3, <3>4
  <2>6. given' \in [Threads -> SUBSET Producers']
    BY <1>3, <1>4 DEF PInv, OwnInv
  <2>7. \A u \in Threads : given'[u] # {} => \E h \in 1..Len(tables') : Slots(u, h)' # {}
    BY <1>3, <1>5 DEF PInv, OwnInv
  <2> QED BY <2>5, <2>6, <2>7 DEF OwnInv
<1> QED BY <1>5, <1>9, <1>10, <1>11, <1>12 DEF PInv

\* A step that changes no table and no thread.
LEMMA NothingMoves ==
  ASSUME PInv, QueueTypes, Len(tables) \in Nat \ {0},
         tables' = tables, thread' = thread, given' = given, hashCount' = hashCount,
         Producers \subseteq Producers'
  PROVE  PInv'
<1>1. /\ ShapeInv' /\ Len(tables') = Len(tables)
      /\ \A u \in Threads, h \in 1..Len(tables) : Slots(u, h)' = Slots(u, h)
      /\ \A h \in 1..Len(tables) : Capacity(h)' = Capacity(h)
  BY TablesStay DEF PInv
<1>2. Waiting' = Waiting /\ \A h \in 1..Len(tables) : Reg(h)' = Reg(h)
  BY DEF Waiting, Reg, Slots, None
<1>3. CountInv' /\ RoomInv'
  BY <1>1, <1>2, CountsStay DEF PInv
<1>4. PlaceInv'
  BY DEF PInv, PlaceInv, In, Slots, None
<1>5. OwnInv'
  <2>1. \A u \in Threads : \A p : Claims(u, p)' => Claims(u, p)
    BY DEF Claims, In, Slots, None
  <2>2. \A u \in Threads : \A p : Claims(u, p) => p \in Producers
    BY ClaimsProducers DEF PInv
  <2>3. given' \in [Threads -> SUBSET Producers']
    BY DEF PInv, OwnInv
  <2>4. \A u \in Threads : given'[u] # {} => \E h \in 1..Len(tables') : Slots(u, h)' # {}
    BY <1>1 DEF PInv, OwnInv
  <2> QED BY <2>1, <2>2, <2>3, <2>4, OwnStays DEF PInv
<1> QED BY <1>1, <1>3, <1>4, <1>5 DEF PInv

\* Resize: nobody is in the new table, and it is no smaller.
LEMMA ResizeOwn == ASSUME IInv, PInv, NEW t \in Threads, Resize(t) PROVE PInv'
<1>0. /\ QueueTypes /\ Len(tables) \in Nat \ {0} /\ thread[t].pc = "locked"
      /\ tables = [h \in 1..Len(tables) |-> tables[h]] /\ Len(tables) \in 1..Len(tables)
      /\ \A h \in 1..Len(tables) : Slots(t, h) = {}
      /\ thread[t].newCount \in Nat
  BY DEF IInv, TableInv, PInv, PlaceInv, CountInv, Waiting, Resize, In
<1>1. PICK n : n = Doubled(Capacity(Len(tables)), thread[t].newCount)
  OBVIOUS
<1>2. n \in Nat \ {0, 1} /\ Capacity(Len(tables)) <= n /\ Capacity(Len(tables)) \in Nat \ {0, 1}
  BY <1>0, <1>1, TableHas, DoubledGrows DEF PInv
<1>3. PICK new, k : new = NewTable(n) /\ k = Len(tables) + 1
  OBVIOUS
<1>4. /\ Len(tables') = k /\ tables'[k] = new
      /\ \A h \in 1..Len(tables) : tables'[h] = tables[h]
  <2>1. [h \in 1..Len(tables) |-> tables[h]] \in Seq({tables[h] : h \in 1..Len(tables)} \cup {new})
    BY <1>0, IsASeq
  <2>2. tables' = Append(tables, new)
    BY <1>1, <1>3 DEF Resize
  <2> QED BY <1>0, <1>3, <2>1, <2>2, AppendProperties
<1>5. PICK r : r = [thread[t] EXCEPT !.pc = "clear", !.main = k]
  OBVIOUS
<1>6. r.pc = "clear" /\ r.main = k /\ r.newCount = thread[t].newCount
  <2>1. thread[t] \in [pc : {"resize", "locked", "fits", "clear"}, main : Nat, newCount : Int]
    BY <1>0, ThreadAt
  <2> QED BY <1>5, <2>1
<1>7. /\ thread'[t] = r
      /\ \A u \in Threads : u # t => thread'[u] = thread[u]
      /\ given' = given /\ hashCount' = hashCount /\ Producers' = Producers
  BY <1>0, <1>3, <1>5 DEF Resize, Go, QueueTypes, Producers
<1>8. new.capacity = n /\ new.entries = [i \in 0..(n - 1) |-> None] /\ IsTable(new)
  BY <1>2, <1>3 DEF NewTable, IsTable, Entries
<1>9. /\ \A u \in Threads, h \in 1..Len(tables) : Slots(u, h)' = Slots(u, h)
      /\ \A u \in Threads : Slots(u, k)' = {}
      /\ \A h \in 1..Len(tables) : Capacity(h)' = Capacity(h)
      /\ Capacity(k)' = n
  <2>1. \A u \in Threads, h \in 1..Len(tables) : Slots(u, h)' = Slots(u, h)
    BY <1>4 DEF Slots, None
  <2>2. \A u \in Threads : Slots(u, k)' = {}
    BY <1>4, <1>8 DEF Slots
  <2>3. \A h \in 1..Len(tables) : Capacity(h)' = Capacity(h)
    BY <1>4 DEF Capacity
  <2>4. Capacity(k)' = n
    BY <1>4, <1>8 DEF Capacity
  <2> QED BY <2>1, <2>2, <2>3, <2>4
<1>10. ShapeInv'
  <2>1. Entries' = Entries
    BY <1>7 DEF Entries, None
  <2>2. \A h \in 1..Len(tables) : IsTable(tables[h])
    BY DEF PInv, ShapeInv
  <2>3. \A h \in 1..k : IsTable(tables'[h])
    BY <1>0, <1>3, <1>4, <1>8, <2>2
  <2>4. \A h \in 1..k : IsTable(tables[h])'
    BY <2>1, <2>3 DEF IsTable
  <2>5. \A h \in 1..Len(tables) : Capacity(h) \in Nat /\ Capacity(h) <= Capacity(Len(tables))
    BY <1>0, TableHas DEF PInv, ShapeInv
  <2>6. \A g, h \in 1..k : g <= h => Capacity(g)' <= Capacity(h)'
    <3> SUFFICES ASSUME NEW g \in 1..k, NEW h \in 1..k, g <= h PROVE Capacity(g)' <= Capacity(h)'
      OBVIOUS
    <3>1. CASE h \in 1..Len(tables)
      <4>1. g \in 1..Len(tables) /\ Capacity(g) <= Capacity(h)
        BY <1>0, <3>1 DEF PInv, ShapeInv
      <4> QED BY <1>9, <3>1, <4>1
    <3>2. CASE h = k /\ g \in 1..Len(tables)
      <4>1. Capacity(g)' = Capacity(g) /\ Capacity(h)' = n
        BY <1>9, <3>2
      <4> QED BY <1>2, <2>5, <3>2, <4>1
    <3>3. CASE h = k /\ g = k
      BY <1>2, <1>9, <3>3
    <3> QED BY <1>0, <1>3, <3>1, <3>2, <3>3
  <2>7. \A u \in Threads, h \in 1..k : \A i, j \in Slots(u, h)' : i = j
    <3> SUFFICES ASSUME NEW u \in Threads, NEW h \in 1..k PROVE \A i, j \in Slots(u, h)' : i = j
      OBVIOUS
    <3>1. CASE h = k
      BY <1>9, <3>1
    <3>2. CASE h \in 1..Len(tables)
      BY <1>9, <3>2 DEF PInv, ShapeInv
    <3> QED BY <1>0, <1>3, <3>1, <3>2
  <2> QED BY <1>4, <2>4, <2>6, <2>7 DEF ShapeInv
<1>11. Waiting' = Waiting /\ \A u \in Waiting : thread'[u].newCount = thread[u].newCount
  BY <1>0, <1>6, <1>7 DEF Waiting
<1>12. ASSUME NEW h \in 1..Len(tables) PROVE Reg(h)' = Reg(h)
  <2>1. \A u \in Threads, g \in 1..h : Slots(u, g)' = Slots(u, g)
    BY <1>9
  <2>2. \A u \in Threads : thread'[u].pc \in PcRegistered <=> thread[u].pc \in PcRegistered
    BY <1>0, <1>6, <1>7 DEF PcRegistered
  <2>3. \A u \in Threads : thread[u].pc \in PcRegistered => thread'[u].main = thread[u].main
    BY <1>0, <1>7 DEF PcRegistered
  <2> QED BY <2>1, <2>2, <2>3 DEF Reg, PcRegistered
<1>13. Reg(k)' = Reg(Len(tables))
  <2>0. PICK l : l = Len(tables)
    OBVIOUS
  <2>1. ASSUME NEW u \in Threads PROVE u \in Reg(k)' <=> u \in Reg(l)
    <3>1. (\E g \in 1..k : Slots(u, g)' # {}) <=> (\E g \in 1..Len(tables) : Slots(u, g)' # {})
      BY <1>0, <1>3, <1>9
    <3>2. thread'[u].pc \in PcRegistered => thread'[u].main \in 1..Len(tables)
      <4>1. thread'[u].pc \in PcRegistered => u # t /\ thread'[u] = thread[u]
        BY <1>6, <1>7 DEF PcRegistered
      <4>2. thread[u].pc \in PcRegistered => thread[u].main \in 1..Len(tables)
        BY DEF PInv, PlaceInv, PcRegistered
      <4> QED BY <4>1, <4>2
    <3>3. thread'[u].pc \in PcRegistered =>
            (thread'[u].main \in 1..k <=> thread'[u].main \in 1..Len(tables))
      BY <1>0, <1>3, <3>2
    <3>4. u \in Reg(k)' <=> \/ thread'[u].pc \in PcRegistered /\ thread'[u].main \in 1..k
                            \/ \E g \in 1..k : Slots(u, g)' # {}
      BY <1>3 DEF Reg, PcRegistered
    <3>6. u \in Reg(l)' <=> \/ thread'[u].pc \in PcRegistered /\ thread'[u].main \in 1..l
                            \/ \E g \in 1..l : Slots(u, g)' # {}
      BY DEF Reg, PcRegistered
    <3>7. u \in Reg(l) <=> u \in Reg(l)'
      BY <1>0, <1>12, <2>0
    <3> QED BY <2>0, <3>1, <3>2, <3>3, <3>4, <3>6, <3>7
  <2>2. Reg(k)' \subseteq Threads /\ Reg(l) \subseteq Threads
    BY DEF Reg
  <2> QED BY <2>0, <2>1, <2>2
<1>14. Counted' = Counted
  BY <1>4, <1>11, <1>13 DEF Counted
<1>15. CountInv'
  BY <1>7, <1>11, <1>14 DEF PInv, CountInv
<1>16. RoomInv'
  <2> SUFFICES ASSUME NEW h \in 1..k, NEW m \in Nat, ThreeQuarters(Capacity(h)') <= m
               PROVE  Cardinality((Reg(h) \cup Below(m))') < m
    BY <1>4 DEF RoomInv, ThreeQuarters
  <2>1. Below(m)' = Below(m)
    BY <1>11 DEF Below
  <2>2. CASE h \in 1..Len(tables)
    BY <1>9, <1>12, <2>1, <2>2 DEF PInv, RoomInv
  <2>3. CASE h = k
    <3>1. ThreeQuarters(Capacity(Len(tables))) <= ThreeQuarters(n)
      BY <1>2, QuartersGrow
    <3>2. /\ ThreeQuarters(Capacity(Len(tables))) \in Nat /\ ThreeQuarters(n) \in Nat
          /\ ThreeQuarters(n) <= m
      BY <1>2, <1>9, <2>3, Quarters
    <3>3. ThreeQuarters(Capacity(Len(tables))) <= m
      BY <3>1, <3>2
    <3>4. Cardinality(Reg(Len(tables)) \cup Below(m)) < m
      BY <1>0, <3>3 DEF PInv, RoomInv
    <3> QED BY <1>13, <2>1, <2>3, <3>4
  <2> QED BY <1>0, <1>3, <2>2, <2>3
<1>17. PlaceInv'
  <2>1. \A h \in 1..k : Slots(t, h)' = {}
    BY <1>0, <1>3, <1>9
  <2>2. ASSUME NEW u \in Threads \ {t}
        PROVE  /\ thread[u].pc \notin {"idle", "clearFailed"} => thread[u].main \in 1..k
               /\ thread[u].pc \notin {"idle", "copy"} => \A h \in 1..k : Slots(u, h)' = {}
               /\ In(u, "copy") => \A h \in 1..thread[u].main : Slots(u, h)' = Slots(u, h)
    <3>1. 1..Len(tables) \subseteq 1..k /\ \A h \in 1..k : h = k \/ h \in 1..Len(tables)
      BY <1>0, <1>3
    <3>2. \A h \in 1..k : Slots(u, h)' = {} \/ h \in 1..Len(tables)
      BY <1>9, <3>1
    <3>3. thread[u].main \in 1..Len(tables) => 1..thread[u].main \subseteq 1..Len(tables)
      BY <1>0
    <3> QED BY <1>9, <3>1, <3>2, <3>3 DEF PInv, PlaceInv, In
  <2>3. ASSUME NEW u \in Threads \ {t}, NEW h, thread[u].pc = "copy", h = thread[u].main
        PROVE  Slots(u, h)' = {} /\ \E g \in 1..h : Slots(u, g)' # {}
    <3>1. h \in 1..Len(tables) /\ Slots(u, h) = {} /\ \E g \in 1..h : Slots(u, g) # {}
      BY <2>3 DEF PInv, PlaceInv, In
    <3> QED BY <2>2, <2>3, <3>1 DEF In
  <2>4. ASSUME NEW u \in Threads
        PROVE  /\ thread'[u].pc \notin {"idle", "clearFailed"} => thread'[u].main \in 1..k
               /\ thread'[u].pc \notin {"idle", "copy"} => \A h \in 1..k : Slots(u, h)' = {}
               /\ \A h : thread'[u].pc = "copy" /\ h = thread'[u].main =>
                    Slots(u, h)' = {} /\ \E g \in 1..h : Slots(u, g)' # {}
    <3>1. CASE u = t
      BY <1>0, <1>3, <1>6, <1>7, <2>1, <3>1
    <3>2. CASE u # t
      BY <1>7, <2>2, <2>3, <3>2
    <3> QED BY <3>1, <3>2
  <2>5. ASSUME NEW u \in Threads, thread'[u].pc = "copy"
        PROVE  (Slots(u, thread[u].main) = {} /\ \E g \in 1..thread[u].main : Slots(u, g) # {})'
    <3>1. PICK h : h = thread'[u].main
      OBVIOUS
    <3>2. Slots(u, h)' = {} /\ \E g \in 1..h : Slots(u, g)' # {}
      BY <2>4, <2>5, <3>1
    <3> QED BY <3>1, <3>2 DEF Slots
  <2> QED BY <1>4, <2>4, <2>5 DEF PlaceInv, In
<1>18. OwnInv'
  <2>1. ASSUME NEW u \in Threads, NEW p, Claims(u, p)' PROVE Claims(u, p)
    <3>1. CASE p \in given'[u]
      BY <1>7, <3>1 DEF Claims
    <3>2. CASE \E h \in 1..k : \E i \in Slots(u, h)' : tables'[h].entries[i][2] = p
      <4>1. PICK h \in 1..k : \E i \in Slots(u, h)' : tables'[h].entries[i][2] = p
        BY <3>2
      <4>2. h \in 1..Len(tables)
        BY <1>0, <1>3, <1>9, <4>1
      <4> QED BY <1>4, <1>9, <4>1, <4>2 DEF Claims
    <3>3. CASE thread'[u].pc = "copy" /\ thread'[u].value = p
      BY <1>6, <1>7, <3>3 DEF Claims, In
    <3>4. CASE thread'[u].pc \in {"add", "insert"} /\ thread'[u].producer = p
      BY <1>6, <1>7, <3>4 DEF Claims
    <3> QED BY <1>4, <2>1, <3>1, <3>2, <3>3, <3>4 DEF Claims, In
  <2>2. \A u \in Threads : \A p : Claims(u, p) => p \in Producers
    BY <1>0, ClaimsProducers DEF PInv
  <2>3. given' \in [Threads -> SUBSET Producers']
    BY <1>7 DEF PInv, OwnInv
  <2>4. \A u \in Threads : given'[u] # {} => \E h \in 1..Len(tables') : Slots(u, h)' # {}
    <3> SUFFICES ASSUME NEW u \in Threads, given[u] # {} PROVE \E h \in 1..k : Slots(u, h)' # {}
      BY <1>4, <1>7
    <3>1. PICK h \in 1..Len(tables) : Slots(u, h) # {}
      BY DEF PInv, OwnInv
    <3>2. h \in 1..k
      BY <1>0, <1>3
    <3> QED BY <1>9, <3>1, <3>2
  <2> QED BY <1>7, <2>1, <2>2, <2>3, <2>4, OwnStays DEF PInv
<1> QED BY <1>10, <1>15, <1>16, <1>17, <1>18 DEF PInv

\* enqueue makes no producer, and gives one that the thread has a claim to.
LEMMA EnqueuedGives ==
  ASSUME QueueTypes, OwnInv, NEW t \in Threads, NEW p \in Producers, Enqueued(t, p)
  PROVE  /\ Producers' = Producers /\ given' \in [Threads -> SUBSET Producers]
         /\ given'[t] = given[t] \cup {p}
         /\ \A u \in Threads : u # t => given'[u] = given[u]
<1>1. queue' = [queue EXCEPT ![p] = Append(queue[p], <<t, sent[t] + 1>>)]
  BY DEF Enqueued
<1>2. Producers' = Producers
  BY <1>1 DEF Producers, QueueTypes
<1>3. given' = [given EXCEPT ![t] = given[t] \cup {p}] /\ given \in [Threads -> SUBSET Producers]
  BY DEF Enqueued, OwnInv
<1> QED BY <1>2, <1>3

\* A thread puts itself into a table, where it already counts.
LEMMA InsertStep ==
  ASSUME IInv, PInv, TableAssumption,
         NEW t \in Threads, NEW h \in 1..Len(tables), NEW p \in Producers,
         Insert(t, h, p), Enqueued(t, p), Go(t, Idle), hashCount' = hashCount,
         thread[t].pc \in {"copy", "insert"}, Claims(t, p), Slots(t, h) = {},
         \A g \in 1..Len(tables) : t \in Reg(g) <=> (h <= g \/ \E k \in 1..g : Slots(t, k) # {})
  PROVE  PInv'
<1>0. QueueTypes /\ Len(tables) \in Nat \ {0} /\ ShapeInv /\ OwnInv
  BY DEF IInv, TableInv, PInv
<1>1. PICK i \in 0..(Capacity(h) - 1) :
        /\ tables[h].entries[i] = None
        /\ tables' = [g \in 1..Len(tables) |->
             IF g = h THEN [capacity |-> Capacity(h),
                            entries |-> [tables[h].entries EXCEPT ![i] = <<t, p>>]]
                      ELSE tables[g]]
  BY InsertAt DEF IInv, PInv
<1>2. PICK new : new = [capacity |-> Capacity(h),
                        entries |-> [tables[h].entries EXCEPT ![i] = <<t, p>>]]
  OBVIOUS
<1>3. tables' = [g \in 1..Len(tables) |-> IF g = h THEN new ELSE tables[g]]
  BY <1>1, <1>2
<1>4. Len(tables') = Len(tables)
  <2>1. [g \in 1..Len(tables) |-> IF g = h THEN new ELSE tables[g]]
          \in Seq({tables[g] : g \in 1..Len(tables)} \cup {new})
    BY <1>0, IsASeq
  <2> QED BY <1>0, <1>3, <2>1, LenProperties
<1>5. tables'[h] = new /\ \A g \in 1..Len(tables) : g # h => tables'[g] = tables[g]
  BY <1>3
<1>6. /\ Producers' = Producers /\ given' \in [Threads -> SUBSET Producers]
      /\ given'[t] = given[t] \cup {p}
      /\ \A u \in Threads : u # t => given'[u] = given[u]
  BY <1>0, EnqueuedGives
<1>7. /\ thread'[t] = Idle /\ Idle.pc = "idle"
      /\ \A u \in Threads : u # t => thread'[u] = thread[u]
  BY <1>0 DEF Go, QueueTypes, Idle
<1>8. /\ tables[h].entries \in [0..(Capacity(h) - 1) -> Entries] /\ Capacity(h) \in Nat \ {0, 1}
      /\ <<t, p>> \in Entries /\ <<t, p>> # None
  BY <1>0 DEF ShapeInv, IsTable, Capacity, Entries, None
<1>9. /\ new.capacity = Capacity(h) /\ new.entries \in [0..(Capacity(h) - 1) -> Entries]
      /\ new.entries[i] = <<t, p>>
      /\ \A j \in 0..(Capacity(h) - 1) : j # i => new.entries[j] = tables[h].entries[j]
      /\ IsTable(new)
  BY <1>2, <1>8 DEF IsTable
<1>10. ASSUME NEW u \in Threads, NEW g \in 1..Len(tables), u # t \/ g # h
       PROVE  Slots(u, g)' = Slots(u, g)
  <2>1. CASE g # h
    BY <1>5, <2>1 DEF Slots, None
  <2>2. CASE g = h /\ u # t
    <3>1. ASSUME NEW j PROVE j \in Slots(u, g)' <=> j \in Slots(u, g)
      <4>1. CASE j = i
        BY <1>1, <1>5, <1>9, <2>2, <4>1 DEF Slots, None
      <4>2. CASE j # i
        BY <1>5, <1>8, <1>9, <2>2, <4>2 DEF Slots, None
      <4> QED BY <4>1, <4>2
    <3> QED BY <3>1
  <2> QED BY <1>10, <2>1, <2>2
<1>11. Slots(t, h)' = {i}
  <2>1. ASSUME NEW j PROVE j \in Slots(t, h)' <=> j = i
    <3>1. CASE j = i
      <4>1. i \in DOMAIN new.entries
        BY <1>9
      <4>2. new.entries[i] # <<>> /\ new.entries[i][1] = t
        BY <1>8, <1>9 DEF None
      <4> QED BY <1>5, <3>1, <4>1, <4>2 DEF Slots, None
    <3>2. CASE j # i
      <4> SUFFICES ASSUME j \in Slots(t, h)' PROVE j \in Slots(t, h)
        BY <3>2
      <4>1. j \in 0..(Capacity(h) - 1) /\ new.entries[j] # None /\ new.entries[j][1] = t
        BY <1>5, <1>9 DEF Slots, None
      <4>2. tables[h].entries[j] # None /\ tables[h].entries[j][1] = t
        BY <1>9, <3>2, <4>1
      <4> QED BY <1>8, <4>1, <4>2 DEF Slots
    <3> QED BY <3>1, <3>2
  <2> QED BY <2>1
<1>12. \A g \in 1..Len(tables) : Capacity(g)' = Capacity(g)
  BY <1>5, <1>9 DEF Capacity
<1>13. ShapeInv'
  <2>1. Entries' = Entries
    BY <1>6 DEF Entries, None
  <2>2. \A g \in 1..Len(tables) : IsTable(tables'[g])
    BY <1>0, <1>5, <1>9 DEF ShapeInv
  <2>3. \A g \in 1..Len(tables) : IsTable(tables[g])'
    BY <2>1, <2>2 DEF IsTable
  <2>4. \A u \in Threads, g \in 1..Len(tables) : \A j, k \in Slots(u, g)' : j = k
    BY <1>0, <1>10, <1>11 DEF ShapeInv
  <2> QED BY <1>0, <1>4, <1>12, <2>3, <2>4 DEF ShapeInv
<1>14. Waiting' = Waiting /\ \A u \in Waiting : thread'[u].newCount = thread[u].newCount
  BY <1>7 DEF Waiting
<1>15. ASSUME NEW g \in 1..Len(tables) PROVE Reg(g)' = Reg(g)
  <2>1. ASSUME NEW u \in Threads \ {t} PROVE u \in Reg(g)' <=> u \in Reg(g)
    <3>1. \A k \in 1..g : Slots(u, k)' = Slots(u, k)
      BY <1>0, <1>10
    <3> QED BY <1>7, <3>1 DEF Reg
  <2>2. t \in Reg(g)' <=> t \in Reg(g)
    <3>1. t \in Reg(g)' <=> \E k \in 1..g : Slots(t, k)' # {}
      BY <1>7 DEF Reg
    <3>2. CASE h <= g
      <4>1. h \in 1..g
        BY <1>0, <3>2
      <4> QED BY <1>11, <3>1, <3>2, <4>1
    <3>3. CASE ~ (h <= g)
      <4>1. \A k \in 1..g : k \in 1..Len(tables) /\ k # h
        BY <1>0, <3>3
      <4>2. \A k \in 1..g : Slots(t, k)' = Slots(t, k)
        BY <1>10, <4>1
      <4> QED BY <3>1, <3>3, <4>2
    <3> QED BY <3>2, <3>3
  <2>3. Reg(g) \subseteq Threads /\ Reg(g)' \subseteq Threads
    BY DEF Reg
  <2>4. \A u \in Threads : u \in Reg(g)' <=> u \in Reg(g)
    BY <2>1, <2>2
  <2> QED BY <2>3, <2>4
<1>16. CountInv' /\ RoomInv'
  BY <1>0, <1>4, <1>12, <1>14, <1>15, CountsStay DEF PInv
<1>17. PlaceInv'
  <2>1. ASSUME NEW u \in Threads \ {t}
        PROVE  \A g \in 1..Len(tables) : Slots(u, g)' = Slots(u, g)
    BY <1>10
  <2>2. ASSUME NEW u \in Threads \ {t}, NEW g, thread[u].pc = "copy", g = thread[u].main
        PROVE  Slots(u, g)' = {} /\ \E k \in 1..g : Slots(u, k)' # {}
    <3>1. g \in 1..Len(tables) /\ Slots(u, g) = {} /\ \E k \in 1..g : Slots(u, k) # {}
      BY <2>2 DEF PInv, PlaceInv, In
    <3>2. 1..g \subseteq 1..Len(tables)
      BY <1>0, <3>1
    <3> QED BY <2>1, <3>1, <3>2
  <2>3. ASSUME NEW u \in Threads, thread'[u].pc = "copy"
        PROVE  (Slots(u, thread[u].main) = {} /\ \E k \in 1..thread[u].main : Slots(u, k) # {})'
    <3>1. PICK g : g = thread'[u].main
      OBVIOUS
    <3>2. u # t /\ thread'[u] = thread[u]
      BY <1>7, <2>3
    <3>3. Slots(u, g)' = {} /\ \E k \in 1..g : Slots(u, k)' # {}
      BY <2>2, <2>3, <3>1, <3>2
    <3> QED BY <3>1, <3>3 DEF Slots
  <2>4. ASSUME NEW u \in Threads
        PROVE  /\ thread'[u].pc \notin {"idle", "clearFailed"} => thread'[u].main \in 1..Len(tables)
               /\ thread'[u].pc \notin {"idle", "copy"} =>
                    \A g \in 1..Len(tables) : Slots(u, g)' = {}
    <3>1. CASE u = t
      BY <1>7, <3>1
    <3>2. CASE u # t
      BY <1>7, <2>1, <3>2 DEF PInv, PlaceInv
    <3> QED BY <3>1, <3>2
  <2> QED BY <1>4, <2>3, <2>4 DEF PlaceInv, In
<1>18. OwnInv'
  <2>1. ASSUME NEW u \in Threads, NEW q, Claims(u, q)' PROVE Claims(u, q)
    <3>1. CASE q \in given'[u]
      BY <1>6, <3>1 DEF Claims
    <3>2. CASE \E g \in 1..Len(tables) : \E j \in Slots(u, g)' : tables'[g].entries[j][2] = q
      <4>1. PICK g \in 1..Len(tables) : \E j \in Slots(u, g)' : tables'[g].entries[j][2] = q
        BY <3>2
      <4>2. PICK j \in Slots(u, g)' : tables'[g].entries[j][2] = q
        BY <4>1
      <4>3. CASE u = t /\ g = h
        BY <1>5, <1>9, <1>11, <4>2, <4>3
      <4>4. CASE g # h
        BY <1>5, <1>10, <4>2, <4>4 DEF Claims
      <4>5. CASE u # t /\ g = h
        <5>1. j \in Slots(u, h) /\ j # i /\ j \in 0..(Capacity(h) - 1)
          BY <1>1, <1>8, <1>10, <4>2, <4>5 DEF Slots
        <5>2. tables[h].entries[j][2] = q
          BY <1>5, <1>9, <4>2, <4>5, <5>1
        <5> QED BY <5>1, <5>2 DEF Claims
      <4> QED BY <4>3, <4>4, <4>5
    <3>3. CASE thread'[u].pc = "copy" /\ thread'[u].value = q
      BY <1>7, <3>3 DEF Claims, In
    <3>4. CASE thread'[u].pc \in {"add", "insert"} /\ thread'[u].producer = q
      BY <1>7, <3>4 DEF Claims
    <3> QED BY <1>4, <2>1, <3>1, <3>2, <3>3, <3>4 DEF Claims, In
  <2>2. \A u \in Threads : \A q : Claims(u, q) => q \in Producers
    BY <1>0, ClaimsProducers
  <2>3. given' \in [Threads -> SUBSET Producers']
    BY <1>6
  <2>4. \A u \in Threads : given'[u] # {} => \E g \in 1..Len(tables') : Slots(u, g)' # {}
    <3> SUFFICES ASSUME NEW u \in Threads, given'[u] # {}
                 PROVE  \E g \in 1..Len(tables) : Slots(u, g)' # {}
      BY <1>4
    <3>1. CASE u = t
      BY <1>11, <3>1
    <3>2. CASE u # t
      BY <1>0, <1>6, <1>10, <3>2 DEF OwnInv
    <3> QED BY <3>1, <3>2
  <2> QED BY <1>0, <1>6, <2>1, <2>2, <2>3, <2>4, OwnStays
<1> QED BY <1>13, <1>16, <1>17, <1>18 DEF PInv

\* A thread enqueues with the producer of its own.
LEMMA EnqueueOwn ==
  ASSUME IInv, PInv, TableAssumption, NEW t \in Threads, Found(t) \/ Copy(t) \/ AddToTable(t)
  PROVE  PInv'
<1>0. /\ QueueTypes /\ Len(tables) \in Nat \ {0} /\ ShapeInv /\ OwnInv
      /\ Len(tables) \in 1..Len(tables)
  BY DEF IInv, TableInv, PInv
<1>1. CASE Found(t)
  <2>1. PICK h : h = Len(tables)
    OBVIOUS
  <2>2. PICK i \in Slots(t, h) : Enqueued(t, tables[h].entries[i][2])
    BY <1>1, <2>1 DEF Found
  <2>3. PICK p : p = tables[h].entries[i][2]
    OBVIOUS
  <2>4. Claims(t, p) /\ h \in 1..Len(tables)
    BY <1>0, <2>1, <2>2, <2>3 DEF Claims
  <2>5. p \in Producers
    BY <1>0, <2>4, ClaimsProducers
  <2>6. /\ Producers' = Producers /\ given' \in [Threads -> SUBSET Producers]
        /\ given'[t] = given[t] \cup {p}
        /\ \A u \in Threads : u # t => given'[u] = given[u]
    BY <1>0, <2>2, <2>3, <2>5, EnqueuedGives
  <2>7. tables' = tables /\ thread' = thread /\ hashCount' = hashCount
    BY <1>1 DEF Found
  <2>8. /\ ShapeInv' /\ Len(tables') = Len(tables)
        /\ \A u \in Threads, g \in 1..Len(tables) : Slots(u, g)' = Slots(u, g)
        /\ \A g \in 1..Len(tables) : Capacity(g)' = Capacity(g)
    BY <1>0, <2>6, <2>7, TablesStay
  <2>9. Waiting' = Waiting /\ \A g \in 1..Len(tables) : Reg(g)' = Reg(g)
    BY <2>7 DEF Waiting, Reg, Slots, None
  <2>10. CountInv' /\ RoomInv'
    BY <1>0, <2>7, <2>8, <2>9, CountsStay DEF PInv
  <2>11. PlaceInv'
    BY <2>7 DEF PInv, PlaceInv, In, Slots, None
  <2>12. OwnInv'
    <3>1. ASSUME NEW u \in Threads, NEW q, Claims(u, q)' PROVE Claims(u, q)
      <4>1. CASE u = t /\ q = p
        BY <2>4, <4>1
      <4>2. CASE ~ (u = t /\ q = p)
        <5>1. q \in given'[u] => q \in given[u]
          BY <2>6, <4>2
        <5> QED BY <2>7, <3>1, <5>1 DEF Claims, In, Slots, None
      <4> QED BY <4>1, <4>2
    <3>2. \A u \in Threads : \A q : Claims(u, q) => q \in Producers
      BY <1>0, ClaimsProducers
    <3>3. \A u \in Threads : given'[u] # {} => \E g \in 1..Len(tables') : Slots(u, g)' # {}
      <4> SUFFICES ASSUME NEW u \in Threads, given'[u] # {}
                   PROVE  \E g \in 1..Len(tables) : Slots(u, g) # {}
        BY <2>8
      <4>1. CASE u = t
        BY <2>2, <2>4, <4>1
      <4>2. CASE u # t
        BY <1>0, <2>6, <4>2 DEF OwnInv
      <4> QED BY <4>1, <4>2
    <3> QED BY <1>0, <2>6, <3>1, <3>2, <3>3, OwnStays
  <2> QED BY <2>8, <2>10, <2>11, <2>12 DEF PInv
<1>2. CASE Copy(t)
  <2>1. PICK h, p : h = thread[t].main /\ p = thread[t].value
    OBVIOUS
  <2>2. /\ Insert(t, h, p) /\ Enqueued(t, p) /\ Go(t, Idle) /\ hashCount' = hashCount
        /\ thread[t].pc = "copy"
    BY <1>2, <2>1 DEF Copy, In
  <2>3. /\ h \in 1..Len(tables) /\ Slots(t, h) = {} /\ \E g \in 1..h : Slots(t, g) # {}
    BY <2>1, <2>2 DEF PInv, PlaceInv, In
  <2>4. Claims(t, p)
    BY <2>1, <2>2 DEF Claims, In
  <2>5. p \in Producers
    BY <1>0, <2>4, ClaimsProducers
  <2>6. ASSUME NEW g \in 1..Len(tables)
        PROVE  t \in Reg(g) <=> (h <= g \/ \E k \in 1..g : Slots(t, k) # {})
    <3>1. h <= g => 1..h \subseteq 1..g
      BY <1>0, <2>3
    <3> QED BY <2>2, <2>3, <3>1 DEF Reg
  <2> QED BY <2>2, <2>3, <2>4, <2>5, <2>6, InsertStep
<1>3. CASE AddToTable(t)
  <2>1. PICK h, p : h = thread[t].main /\ p = thread[t].producer
    OBVIOUS
  <2>2. /\ Insert(t, h, p) /\ Enqueued(t, p) /\ Go(t, Idle) /\ hashCount' = hashCount
        /\ thread[t].pc = "insert"
    BY <1>3, <2>1 DEF AddToTable, In
  <2>3. h \in 1..Len(tables) /\ \A g \in 1..Len(tables) : Slots(t, g) = {}
    BY <2>1, <2>2 DEF PInv, PlaceInv
  <2>4. Claims(t, p)
    BY <2>1, <2>2 DEF Claims
  <2>5. p \in Producers
    BY <1>0, <2>4, ClaimsProducers
  <2>6. ASSUME NEW g \in 1..Len(tables)
        PROVE  t \in Reg(g) <=> (h <= g \/ \E k \in 1..g : Slots(t, k) # {})
    <3>1. h <= g <=> h \in 1..g
      BY <1>0, <2>3
    <3> QED BY <2>1, <2>2, <3>1 DEF Reg
  <2> QED BY <2>2, <2>3, <2>4, <2>5, <2>6, InsertStep
<1> QED BY <1>1, <1>2, <1>3

-----------------------------------------------------------------------------
(* The theorem *)

LEMMA OwnInit == ASSUME Init, TableAssumption PROVE PInv
<1>1. PICK n : n = InitialSize
  OBVIOUS
<1>2. n \in Nat \ {0, 1} /\ tables = <<NewTable(n)>> /\ Len(tables) = 1 /\ tables[1] = NewTable(n)
  BY <1>1 DEF Init, TableAssumption
<1>3. IsTable(NewTable(n)) /\ \A t \in Threads : Slots(t, 1) = {}
  BY <1>2 DEF IsTable, NewTable, Slots, Entries
<1>4. \A t \in Threads : thread[t].pc = "idle" /\ given[t] = {}
  BY DEF Init, Idle
<1>5. ShapeInv
  <2>1. \A h \in 1..Len(tables) : h = 1 /\ IsTable(tables[h])
    BY <1>2, <1>3
  <2>2. Capacity(1) <= Capacity(1)
    BY <1>2 DEF Capacity, NewTable
  <2> QED BY <1>3, <2>1, <2>2 DEF ShapeInv
<1>6. PlaceInv
  BY <1>4 DEF PlaceInv, In
<1>7. Waiting = {} /\ Reg(1) = {}
  BY <1>3, <1>4 DEF Waiting, Reg
<1>8. CountInv
  BY <1>2, <1>7, FS_EmptySet DEF CountInv, Counted, Init
<1>9. RoomInv
  <2> SUFFICES ASSUME NEW h \in 1..Len(tables), NEW m \in Nat, ThreeQuarters(Capacity(h)) <= m
               PROVE  Cardinality(Reg(h) \cup Below(m)) < m
    BY DEF RoomInv
  <2>1. h = 1 /\ Capacity(h) = n
    BY <1>2 DEF Capacity, NewTable
  <2>2. Reg(h) \cup Below(m) = {}
    BY <1>7, <2>1 DEF Below
  <2>3. ThreeQuarters(n) > 0
    BY <1>2 DEF ThreeQuarters
  <2> QED BY <1>2, <2>1, <2>2, <2>3, Quarters, FS_EmptySet
<1>10. OwnInv
  <2>1. \A t \in Threads : \A p : ~ Claims(t, p)
    BY <1>2, <1>3, <1>4 DEF Claims, In
  <2>2. given \in [Threads -> SUBSET Producers]
    BY DEF Init
  <2> QED BY <1>4, <2>1, <2>2 DEF OwnInv
<1> QED BY <1>5, <1>6, <1>8, <1>9, <1>10 DEF PInv

\* A dequeue makes no producer.
LEMMA DequeueKeeps ==
  ASSUME QueueTypes, NEW c \in Consumers, Dequeue(c)
  PROVE  /\ tables' = tables /\ thread' = thread /\ given' = given /\ hashCount' = hashCount
         /\ Producers' = Producers
<1>1. CASE ~Take(c)
  BY <1>1 DEF Dequeue, TryDequeue, Scan, SkipBest, ReturnFalse, LoadTail, LoadOvercommit, AllClaimed,
              SomeUnclaimed, Claim, TooLate, TakeBack, Producers
<1>2. CASE Take(c)
  <2>1. PICK p : p = consumer[c].try.p
    OBVIOUS
  <2>2. queue' = [queue EXCEPT ![p] = Tail(queue[p])]
    BY <1>2, <2>1 DEF Take
  <2>3. DOMAIN queue' = DOMAIN queue
    BY <2>2 DEF QueueTypes
  <2> QED BY <1>2, <2>3 DEF Take, Producers
<1> QED BY <1>1, <1>2

LEMMA OwnNext == ASSUME IInv, PInv, TableAssumption, [Next]_vars PROVE PInv'
<1>0. QueueTypes /\ Len(tables) \in Nat \ {0}
  BY DEF IInv, TableInv
<1>1. CASE UNCHANGED vars
  <2>1. /\ tables' = tables /\ thread' = thread /\ given' = given /\ hashCount' = hashCount
        /\ Producers' = Producers
    BY <1>1 DEF vars, Producers
  <2> QED BY <1>0, <2>1, NothingMoves
<1>2. ASSUME NEW t \in Threads, Enqueue(t) PROVE PInv'
  <2>1. CASE \/ FoundOlder(t) \/ NotFound(t) \/ TestAndSet(t) \/ AlreadyResized(t) \/ Clear(t)
             \/ Wait(t) \/ AddProducer(t)
    BY <2>1, MovesStep
  <2>2. CASE Found(t) \/ Copy(t) \/ AddToTable(t)
    BY <2>2, EnqueueOwn
  <2>3. CASE Count(t)
    BY <2>3, CountStep
  <2>4. CASE ResizeFails(t) \/ CreateFails(t)
    BY <2>4, FailStep
  <2>5. CASE Resize(t)
    BY <2>5, ResizeOwn
  <2>6. CASE Create(t)
    BY <2>6, CreateOwn
  <2> QED BY <1>2, <2>1, <2>2, <2>3, <2>4, <2>5, <2>6 DEF Enqueue
<1>3. ASSUME NEW c \in Consumers, Dequeue(c) PROVE PInv'
  BY <1>0, <1>3, DequeueKeeps, NothingMoves
<1> QED BY <1>1, <1>2, <1>3 DEF Next

LEMMA OwnImplied == ASSUME IInv, PInv PROVE OwnProducer
<1>1. RoomLeft
  <2> SUFFICES ASSUME NEW h \in DOMAIN tables PROVE None \in Range(tables[h].entries)
    BY DEF RoomLeft
  <2>1. h \in 1..Len(tables)
    BY DEF IInv, TableInv
  <2>2. PICK i \in 0..(Capacity(h) - 1) : tables[h].entries[i] = None
    BY <2>1, FreeSlot DEF PInv
  <2>3. i \in DOMAIN tables[h].entries
    BY <2>1, TableHas DEF PInv
  <2> QED BY <2>2, <2>3 DEF Range
<1>2. ASSUME NEW t \in Threads PROVE Cardinality(given[t]) <= 1
  <2>1. \A p, q \in given[t] : p = q
    BY DEF PInv, OwnInv, Claims
  <2>2. CASE given[t] = {}
    <3>1. Cardinality(given[t]) = 0
      BY <2>2, FS_EmptySet
    <3> QED BY <3>1
  <2>3. CASE given[t] # {}
    <3>1. PICK p : given[t] = {p}
      BY <2>1, <2>3
    <3>2. Cardinality({p}) = 1
      BY FS_Singleton
    <3> QED BY <3>1, <3>2
  <2> QED BY <2>2, <2>3
<1>3. ASSUME NEW t \in Threads, NEW u \in Threads \ {t} PROVE given[t] \cap given[u] = {}
  <2> SUFFICES ASSUME NEW p \in given[t], p \in given[u] PROVE FALSE
    OBVIOUS
  <2> QED BY DEF PInv, OwnInv, Claims
<1> QED BY <1>1, <1>2, <1>3 DEF OwnProducer

\* Every search of a table ends, because each has a free slot, and a thread gets the same producer
\* in every call and no other thread gets it: for every number of threads, however their hashes
\* collide, whichever of them replaces the table or waits for it, and when allocations fail
\* (concurrentqueue.h:3300-3335, 3344-3435).
THEOREM OwnProducerTheorem == Spec => []OwnProducer
<1>1. TableAssumption
  BY TableAssumption
<1>2. Init => IInv /\ PInv
  BY <1>1, InitKeeps, OwnInit
<1>3. IInv /\ PInv /\ [Next]_vars => IInv' /\ PInv'
  BY <1>1, NextKeeps, OwnNext
<1>4. IInv /\ PInv => OwnProducer
  BY OwnImplied
<1> QED BY <1>2, <1>3, <1>4, PTL DEF Spec
=============================================================================
