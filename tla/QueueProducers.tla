--------------------------- MODULE QueueProducers ---------------------------
(***************************************************************************)
(* The front of moodycamel::ConcurrentQueue                                *)
(* (src/ext/MoodyCamel/concurrentqueue.h): every thread that enqueues has  *)
(* a producer of its own, found in a lock-free hash table that is replaced *)
(* by a larger one when it fills; a dequeue walks the list of producers.   *)
(* Of a producer only the counters by which consumers share its elements   *)
(* are here, and they do not wrap; ImplicitProducer has the rest of it.    *)
(*                                                                         *)
(* Keys are only ever added to a table and a thread looks for no key but   *)
(* its own, so that a search and a probe for a free slot are one step.     *)
(* Threads never leave: the build has no thread exit listeners (line 200). *)
(***************************************************************************)
EXTENDS Integers, Sequences, FiniteSets, FiniteSetsExt, Functions

CONSTANTS Threads,          \* threads that enqueue
          Consumers,        \* threads that dequeue
          hash_thread_id,   \* the hash of each thread
          InitialSize,      \* INITIAL_IMPLICIT_PRODUCER_HASH_SIZE
          MaxFailures,      \* bound on failed allocations
          MaxElements,      \* bounds on the elements of each thread
          MaxCalls,         \* and on the dequeues
          Overlapping       \* FALSE bounds who is at work at the same time

ASSUME TableAssumption ==
  /\ hash_thread_id \in [Threads -> Nat]
  /\ InitialSize \in Nat \ {0, 1}     \* a power of two: "& mask" is % capacity
  /\ Overlapping \in BOOLEAN

None == <<>>                \* a slot with invalid_thread_id; the others are <<key, value>>

VARIABLES tables,           \* ImplicitProducerHash: oldest first; implicitProducerHash is the last
          hashCount,        \* implicitProducerHashCount
          resizing,         \* implicitProducerHashResizeInProgress
          list,             \* the producers from producerListTail on
          queue,            \* the elements of each producer
          counters,         \* and the counters of its consumers
          thread, consumer,
          failures, sent, calls,
          given             \* the producers each thread ever got

vars == <<tables, hashCount, resizing, list, queue, counters, thread, consumer, failures, sent, calls, given>>

NewCounters == [headIndex |-> 0, dequeueOptimisticCount |-> 0, dequeueOvercommit |-> 0]

NewTable(n) == [capacity |-> n, entries |-> [i \in 0..(n - 1) |-> None]]

Capacity(h) == tables[h].capacity

Idle == [pc |-> "idle"]

Init ==
  /\ tables = <<NewTable(InitialSize)>>
  /\ hashCount = 0 /\ resizing = FALSE
  /\ list = <<>> /\ queue = <<>> /\ counters = <<>>
  /\ thread = [t \in Threads |-> Idle]
  /\ consumer = [c \in Consumers |-> Idle]
  /\ failures = 0 /\ calls = 0
  /\ sent = [t \in Threads |-> 0]
  /\ given = [t \in Threads |-> {}]

In(t, s) == thread[t].pc = s
Go(t, r) == thread' = [thread EXCEPT ![t] = r]

Dequeuing == {c \in Consumers : consumer[c].pc # "idle"}
Enqueuing == {t \in Threads : ~In(t, "idle")}

\* Bounds: the elements a thread enqueues; without Overlapping, a thread begins when no
\* consumer or no other thread is at work, and while two consumers are only if it ends at once.
MayEnqueue(t, atOnce) ==
  /\ sent[t] < MaxElements[t]
  /\ \/ Overlapping \/ Dequeuing = {}
     \/ Enqueuing = {} /\ (atOnce \/ Cardinality(Dequeuing) = 1)

-----------------------------------------------------------------------------
(* get_or_add_implicit_producer, by thread t *)

\* The slot of table h that has t, if there is one.
Slots(t, h) ==
  {i \in DOMAIN tables[h].entries : tables[h].entries[i] # None /\ tables[h].entries[i][1] = t}

\* t and its producer go to the first free slot from the one it hashes to.
Insert(t, h, p) ==
  LET n == Capacity(h)
      slot(k) == (hash_thread_id[t] + k) % n
      free(k) == tables[h].entries[slot(k)] = None
      first == CHOOSE k \in 0..(n - 1) : free(k) /\ \A j \in 0..(k - 1) : ~free(j)
  IN tables' = [tables EXCEPT ![h].entries[slot(first)] = <<t, p>>]

\* enqueue with the producer it got
Enqueued(t, p) ==
  /\ queue' = [queue EXCEPT ![p] = Append(@, <<t, sent[t] + 1>>)]
  /\ sent' = [sent EXCEPT ![t] = @ + 1]
  /\ given' = [given EXCEPT ![t] = @ \cup {p}]

\* Found in the current table.
Found(t) ==
  LET h == Len(tables) IN
  /\ In(t, "idle") /\ MayEnqueue(t, TRUE)
  /\ \E i \in Slots(t, h) : Enqueued(t, tables[h].entries[i][2])
  /\ UNCHANGED <<tables, hashCount, resizing, list, counters, thread, consumer, failures, calls>>

\* Mutant: only the current table is searched.
NotFoundHere(t) ==
  /\ In(t, "idle") /\ MayEnqueue(t, FALSE)
  /\ Slots(t, Len(tables)) = {}
  /\ Go(t, [pc |-> "count", main |-> Len(tables)])
  /\ UNCHANGED <<tables, hashCount, resizing, list, queue, counters, consumer, failures, sent, given, calls>>

\* Found in an older one, the newest that has it.
FoundOlder(t) ==
  LET hs == {h \in DOMAIN tables : Slots(t, h) # {}} IN
  /\ In(t, "idle") /\ MayEnqueue(t, FALSE)
  /\ hs # {} /\ Max(hs) # Len(tables)
  /\ \E i \in Slots(t, Max(hs)) :
       Go(t, [pc |-> "copy", main |-> Len(tables), value |-> tables[Max(hs)].entries[i][2]])
  /\ UNCHANGED <<tables, hashCount, resizing, list, queue, counters, consumer, failures, sent, given, calls>>

Copy(t) ==
  /\ In(t, "copy")
  /\ Insert(t, thread[t].main, thread[t].value)
  /\ Enqueued(t, thread[t].value)
  /\ Go(t, Idle)
  /\ UNCHANGED <<hashCount, resizing, list, counters, consumer, failures, calls>>

NotFound(t) ==
  /\ In(t, "idle") /\ MayEnqueue(t, FALSE)
  /\ \A h \in DOMAIN tables : Slots(t, h) = {}
  /\ Go(t, [pc |-> "count", main |-> Len(tables)])
  /\ UNCHANGED <<tables, hashCount, resizing, list, queue, counters, consumer, failures, sent, given, calls>>

Count(t) ==
  /\ In(t, "count")
  /\ hashCount' = hashCount + 1
  /\ Go(t, [pc |-> "resize", main |-> thread[t].main, newCount |-> hashCount + 1])
  /\ UNCHANGED <<tables, resizing, list, queue, counters, consumer, failures, sent, given, calls>>

HalfFull(t, h) == thread[t].newCount >= Capacity(h) \div 2

\* The table is half full, and nobody else is replacing it.
TestAndSet(t) ==
  /\ In(t, "resize")
  /\ LET lock == HalfFull(t, thread[t].main) /\ ~resizing
     IN /\ resizing' = (resizing \/ HalfFull(t, thread[t].main))
        /\ Go(t, [thread[t] EXCEPT !.pc = IF lock THEN "locked" ELSE "fits"])
  /\ UNCHANGED <<tables, hashCount, list, queue, counters, consumer, failures, sent, given, calls>>

\* Somebody else has replaced it.
AlreadyResized(t) ==
  /\ In(t, "locked") /\ ~HalfFull(t, Len(tables))
  /\ Go(t, [thread[t] EXCEPT !.pc = "clear", !.main = Len(tables)])
  /\ UNCHANGED <<tables, hashCount, resizing, list, queue, counters, consumer, failures, sent, given, calls>>

Power[k \in Nat] == IF k = 0 THEN 1 ELSE 2 * Power[k - 1]

\* Twice n, then doubled until count is less than half of it.
Doubled(n, count) == Min({n * Power[k] : k \in {j \in 1..(count + 1) : 2 * count < n * Power[j]}})

Resize(t) ==
  /\ In(t, "locked") /\ HalfFull(t, Len(tables))
  /\ tables' = Append(tables, NewTable(Doubled(Capacity(Len(tables)), thread[t].newCount)))
  /\ Go(t, [thread[t] EXCEPT !.pc = "clear", !.main = Len(tables) + 1])
  /\ UNCHANGED <<hashCount, resizing, list, queue, counters, consumer, failures, sent, given, calls>>

\* No memory: the enqueue fails.
ResizeFails(t) ==
  /\ In(t, "locked") /\ HalfFull(t, Len(tables))
  /\ failures < MaxFailures /\ failures' = failures + 1
  /\ hashCount' = hashCount - 1
  /\ Go(t, [pc |-> "clearFailed"])
  /\ UNCHANGED <<tables, resizing, list, queue, counters, consumer, sent, given, calls>>

Clear(t) ==
  /\ In(t, "clear") \/ In(t, "clearFailed")
  /\ resizing' = FALSE
  /\ Go(t, IF In(t, "clear") THEN [thread[t] EXCEPT !.pc = "fits"] ELSE Idle)
  /\ UNCHANGED <<tables, hashCount, list, queue, counters, consumer, failures, sent, given, calls>>

ThreeQuarters(n) == n \div 2 + n \div 4

\* Too full, and somebody is replacing it: look again.
Wait(t) ==
  /\ In(t, "fits") /\ thread[t].newCount >= ThreeQuarters(Capacity(thread[t].main))
  /\ Go(t, [thread[t] EXCEPT !.pc = "resize", !.main = Len(tables)])
  /\ UNCHANGED <<tables, hashCount, resizing, list, queue, counters, consumer, failures, sent, given, calls>>

\* recycle_or_create_producer: no producer is ever inactive, so a new one
Create(t) ==
  /\ In(t, "fits") /\ thread[t].newCount < ThreeQuarters(Capacity(thread[t].main))
  /\ queue' = Append(queue, <<>>) /\ counters' = Append(counters, NewCounters)
  /\ Go(t, [pc |-> "add", main |-> thread[t].main, producer |-> Len(queue) + 1])
  /\ UNCHANGED <<tables, hashCount, resizing, list, consumer, failures, sent, given, calls>>

CreateFails(t) ==
  /\ In(t, "fits") /\ thread[t].newCount < ThreeQuarters(Capacity(thread[t].main))
  /\ failures < MaxFailures /\ failures' = failures + 1
  /\ hashCount' = hashCount - 1
  /\ Go(t, Idle)
  /\ UNCHANGED <<tables, resizing, list, queue, counters, consumer, sent, given, calls>>

\* add_producer: the swap of the list's tail succeeds in the end
AddProducer(t) ==
  /\ In(t, "add")
  /\ list' = <<thread[t].producer>> \o list
  /\ Go(t, [thread[t] EXCEPT !.pc = "insert"])
  /\ UNCHANGED <<tables, hashCount, resizing, queue, counters, consumer, failures, sent, given, calls>>

AddToTable(t) ==
  /\ In(t, "insert")
  /\ Insert(t, thread[t].main, thread[t].producer)
  /\ Enqueued(t, thread[t].producer)
  /\ Go(t, Idle)
  /\ UNCHANGED <<hashCount, resizing, list, counters, consumer, failures, calls>>

-----------------------------------------------------------------------------
(* try_dequeue, by consumer c *)

At(c, s) == consumer[c].pc = s
Set(c, r) == consumer' = [consumer EXCEPT ![c] = r]

Elements == UNION {Range(queue[list[i]]) : i \in DOMAIN list}

\* Bound: a dequeue begins while at most one thread or consumer is at work.
Quiet == Cardinality(Enqueuing) + Cardinality(Dequeuing) <= 1

\* A local of the call to ImplicitProducer::dequeue that is not under way.
NoTry == [p |-> 0, tail |-> 0, overcommit |-> 0, my |-> 0, contended |-> FALSE]

\* waiting and excused are a history: the elements that are there when the call begins, and
\* the producers that another consumer's claim kept it from.
TryDequeue(c) ==
  /\ At(c, "idle") /\ Quiet /\ calls < MaxCalls /\ calls' = calls + 1
  /\ Set(c, [pc |-> "scan", rest |-> list, best |-> 0, bestSize |-> 0, nonEmptyCount |-> 0,
             waiting |-> Elements, excused |-> {}, try |-> NoTry])
  /\ UNCHANGED <<tables, hashCount, resizing, list, queue, counters, thread, failures, sent, given>>

\* The longest of the first three queues that are not empty.
Scan(c) ==
  LET me == consumer[c]
      p == Head(me.rest)
      size == Len(queue[p])
  IN
  /\ At(c, "scan") /\ me.rest # <<>> /\ me.nonEmptyCount < 3
  /\ Set(c, [me EXCEPT !.rest = Tail(@),
                       !.best = IF size > me.bestSize THEN p ELSE @,
                       !.bestSize = IF size > @ THEN size ELSE @,
                       !.nonEmptyCount = IF size > 0 THEN @ + 1 ELSE @])
  /\ UNCHANGED <<tables, hashCount, resizing, list, queue, counters, thread, failures, sent, given, calls>>

Scanned(c) == At(c, "scan") /\ (consumer[c].rest = <<>> \/ consumer[c].nonEmptyCount = 3)

\* The best is tried, then the others in turn.
SkipBest(c) ==
  LET me == consumer[c] IN
  /\ At(c, "others") /\ me.rest # <<>> /\ Head(me.rest) = me.best
  /\ Set(c, [me EXCEPT !.rest = Tail(@)])
  /\ UNCHANGED <<tables, hashCount, resizing, list, queue, counters, thread, failures, sent, given, calls>>

\* try_dequeue returns false
Nothing(c) ==
  \/ Scanned(c) /\ consumer[c].nonEmptyCount = 0
  \/ At(c, "others") /\ consumer[c].rest = <<>>

ReturnFalse(c) ==
  /\ Nothing(c)
  /\ Set(c, Idle)
  /\ UNCHANGED <<tables, hashCount, resizing, list, queue, counters, thread, failures, sent, given, calls>>

-----------------------------------------------------------------------------
(* ImplicitProducer::dequeue, by consumer c on one producer *)

TailIndex(p) == counters[p].headIndex + Len(queue[p])

\* Mutant: only the best is tried.
FailedGivesUp(me) ==
  [me EXCEPT !.pc = "others", !.rest = IF me.try.p = me.best THEN <<>> ELSE Tail(@),
             !.try = NoTry]

\* It returned false: when it was the best's, all the others, on the list as it is now.
Failed(me) ==
  [me EXCEPT !.pc = "others", !.rest = IF me.try.p = me.best THEN list ELSE Tail(@),
             !.try = NoTry]

\* The claims on p that are neither good yet nor taken back, of the other consumers.
InTheWay(c, p) ==
  {d \in Consumers \ {c} : consumer[d].pc \in {"recheck", "takeBack"} /\ consumer[d].try.p = p}

Excused(me) == IF me.try.contended THEN me.excused \cup {me.try.p} ELSE me.excused

LoadTail(c) ==
  LET me == consumer[c]
      p == IF At(c, "scan") THEN me.best ELSE Head(me.rest) IN
  /\ \/ Scanned(c) /\ me.nonEmptyCount > 0
     \/ At(c, "others") /\ me.rest # <<>> /\ p # me.best
  /\ Set(c, [me EXCEPT !.pc = "overcommit", !.bestSize = 0, !.nonEmptyCount = 0,
                       !.rest = IF p = me.best THEN <<>> ELSE @,
                       !.try = [NoTry EXCEPT !.p = p, !.tail = TailIndex(p)]])
  /\ UNCHANGED <<tables, hashCount, resizing, list, queue, counters, thread, failures, sent, given, calls>>

LoadOvercommit(c) ==
  LET p == consumer[c].try.p IN
  /\ At(c, "overcommit")
  /\ Set(c, [consumer[c] EXCEPT !.pc = "compare", !.try.contended = InTheWay(c, p) # {},
                                !.try.overcommit = counters[p].dequeueOvercommit])
  /\ UNCHANGED <<tables, hashCount, resizing, list, queue, counters, thread, failures, sent, given, calls>>

Unclaimed(c, tail) ==
  counters[consumer[c].try.p].dequeueOptimisticCount - consumer[c].try.overcommit < tail

\* Everything there has been claimed: the dequeue fails.
AllClaimed(c) ==
  LET me == consumer[c] IN
  /\ At(c, "compare") /\ ~Unclaimed(c, me.try.tail)
  /\ Set(c, Failed([me EXCEPT !.excused = Excused(me)]))
  /\ UNCHANGED <<tables, hashCount, resizing, list, queue, counters, thread, failures, sent, given, calls>>

SomeUnclaimed(c) ==
  /\ At(c, "compare") /\ Unclaimed(c, consumer[c].try.tail)
  /\ Set(c, [consumer[c] EXCEPT !.pc = "claim"])
  /\ UNCHANGED <<tables, hashCount, resizing, list, queue, counters, thread, failures, sent, given, calls>>

Claim(c) ==
  LET p == consumer[c].try.p IN
  /\ At(c, "claim")
  /\ counters' = [counters EXCEPT ![p].dequeueOptimisticCount = @ + 1]
  /\ consumer' = [d \in Consumers |->
       IF d = c THEN [consumer[c] EXCEPT !.pc = "recheck", !.try.my = counters[p].dequeueOptimisticCount]
       ELSE IF consumer[d].pc \in {"compare", "claim", "recheck"} /\ consumer[d].try.p = p
              THEN [consumer[d] EXCEPT !.try.contended = TRUE] ELSE consumer[d]]
  /\ UNCHANGED <<tables, hashCount, resizing, list, queue, thread, failures, sent, given, calls>>

\* The claim is good, by the tail of now: the element is taken.
Good(c) == consumer[c].try.my - consumer[c].try.overcommit < TailIndex(consumer[c].try.p)

Take(c) ==
  LET p == consumer[c].try.p IN
  /\ At(c, "recheck") /\ Good(c)
  /\ queue' = [queue EXCEPT ![p] = Tail(@)]
  /\ counters' = [counters EXCEPT ![p].headIndex = @ + 1]
  /\ Set(c, Idle)
  /\ UNCHANGED <<tables, hashCount, resizing, list, thread, failures, sent, given, calls>>

\* It is not ...
TooLate(c) ==
  LET me == consumer[c] IN
  /\ At(c, "recheck") /\ ~Good(c)
  /\ Set(c, [me EXCEPT !.pc = "takeBack", !.excused = Excused(me)])
  /\ UNCHANGED <<tables, hashCount, resizing, list, queue, counters, thread, failures, sent, given, calls>>

\* ... and is taken back: the dequeue fails.
TakeBack(c) ==
  /\ At(c, "takeBack")
  /\ counters' = [counters EXCEPT ![consumer[c].try.p].dequeueOvercommit = @ + 1]
  /\ Set(c, Failed(consumer[c]))
  /\ UNCHANGED <<tables, hashCount, resizing, list, queue, thread, failures, sent, given, calls>>

-----------------------------------------------------------------------------
Enqueue(t) ==
  \/ Found(t) \/ FoundOlder(t) \/ NotFound(t) \/ Copy(t) \/ Count(t) \/ TestAndSet(t)
  \/ AlreadyResized(t) \/ Resize(t) \/ ResizeFails(t) \/ Clear(t) \/ Wait(t) \/ Create(t)
  \/ CreateFails(t) \/ AddProducer(t) \/ AddToTable(t)

Dequeue(c) ==
  \/ TryDequeue(c) \/ Scan(c) \/ SkipBest(c) \/ ReturnFalse(c)
  \/ LoadTail(c) \/ LoadOvercommit(c) \/ AllClaimed(c) \/ SomeUnclaimed(c) \/ Claim(c)
  \/ Take(c) \/ TooLate(c) \/ TakeBack(c)

Next == (\E t \in Threads : Enqueue(t)) \/ (\E c \in Consumers : Dequeue(c))

Spec == Init /\ [][Next]_vars

-----------------------------------------------------------------------------
\* The lookups end: "Not an infinite loop because at least one slot is free in the hash
\* table" (concurrentqueue.h:3300), also while threads that saw the table three quarters full,
\* that move over from an older table or whose allocation fails are under way.
RoomLeft == \A h \in DOMAIN tables : None \in Range(tables[h].entries)

\* A thread gets the same producer in every call, and no other thread gets it: what keeps
\* a thread's elements in order (concurrentqueue.h:3300-3335, 3395-3435).
OwnProducer ==
  /\ RoomLeft
  /\ \A t \in Threads :
       /\ Cardinality(given[t]) <= 1
       /\ \A u \in Threads \ {t} : given[t] \cap given[u] = {}

\* An empty answer of try_dequeue. "All producer streams appeared empty at the time they were
\* checked", and the queue is "likely but not guaranteed to be empty" (concurrentqueue.h:1027-1028):
\* an element that was there when the call began and still is can only be in a producer where a
\* claim of another consumer, not settled yet, was in the way when this call tried it; although
\* the call looks at three producers only before it picks one, others take from it meanwhile, and
\* claims that come too late are made and taken back.
NotOverlooked ==
  \A c \in Consumers : Nothing(c) =>
    \A p \in Range(list) : Range(queue[p]) \cap consumer[c].waiting # {} => p \in consumer[c].excused
=============================================================================
