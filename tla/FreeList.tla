------------------------------ MODULE FreeList ------------------------------
(***************************************************************************)
(* The lock-free list on which moodycamel::ConcurrentQueue keeps its empty *)
(* blocks (src/ext/MoodyCamel/concurrentqueue.h:1340-1453).  A node counts *)
(* the threads that look at it, plus one while it is on the list; the      *)
(* count has a flag for a node that is to be put back by whoever drops the *)
(* last reference.  A step is one access to shared memory, sequentially    *)
(* consistent.                                                             *)
(***************************************************************************)
EXTENDS Integers, FiniteSets

CONSTANTS Threads, Nodes,
          Nil,                    \* nullptr
          SHOULD_BE_ON_FREELIST   \* the top bit of a count

\* The flag is 2^31 in the code: every thread can count a node, and the list too.
ASSUME FlagAssumption ==
  /\ Nil \notin Nodes
  /\ IsFiniteSet(Threads)
  /\ SHOULD_BE_ON_FREELIST \in Nat
  /\ Cardinality(Threads) + 1 < SHOULD_BE_ON_FREELIST

VARIABLES freeListHead, freeListNext, freeListRefs,
          held,      \* the nodes each thread has for its own use
          thread     \* where each thread is in add or try_get

vars == <<freeListHead, freeListNext, freeListRefs, held, thread>>

Modulus == 2 * SHOULD_BE_ON_FREELIST
REFS_MASK(refs) == refs % SHOULD_BE_ON_FREELIST

Idle == [pc |-> "idle"]

\* The blocks start out in use.
Init ==
  /\ freeListHead = Nil
  /\ freeListNext = [n \in Nodes |-> Nil]
  /\ freeListRefs = [n \in Nodes |-> 0]
  /\ held \in [Threads -> SUBSET Nodes]
  /\ \A n \in Nodes : Cardinality({t \in Threads : n \in held[t]}) = 1
  /\ thread = [t \in Threads |-> Idle]

In(t, s) == thread[t].pc = s
Go(t, r) == thread' = [thread EXCEPT ![t] = r]
FetchAdd(n, d) == freeListRefs' = [freeListRefs EXCEPT ![n] = (@ + d) % Modulus]

-----------------------------------------------------------------------------
(* add, and add_knowing_refcount_is_zero *)

\* Nobody looks at the node: this thread puts it on the list.
Add(t, n) ==
  /\ In(t, "idle") /\ n \in held[t]
  /\ held' = [held EXCEPT ![t] = @ \ {n}]
  /\ FetchAdd(n, SHOULD_BE_ON_FREELIST)
  /\ Go(t, IF freeListRefs[n] = 0 THEN [pc |-> "load", node |-> n, then |-> Idle] ELSE Idle)
  /\ UNCHANGED <<freeListHead, freeListNext>>

PushLoad(t) ==
  /\ In(t, "load")
  /\ Go(t, [pc |-> "link", node |-> thread[t].node, head |-> freeListHead,
            then |-> thread[t].then])
  /\ UNCHANGED <<freeListHead, freeListNext, freeListRefs, held>>

PushLink(t) ==
  /\ In(t, "link")
  /\ freeListNext' = [freeListNext EXCEPT ![thread[t].node] = thread[t].head]
  /\ Go(t, [thread[t] EXCEPT !.pc = "store"])
  /\ UNCHANGED <<freeListHead, freeListRefs, held>>

PushStore(t) ==
  /\ In(t, "store")
  /\ freeListRefs' = [freeListRefs EXCEPT ![thread[t].node] = 1]
  /\ Go(t, [thread[t] EXCEPT !.pc = "swap"])
  /\ UNCHANGED <<freeListHead, freeListNext, held>>

PushSwap(t) ==
  /\ In(t, "swap")
  /\ IF freeListHead = thread[t].head
     THEN freeListHead' = thread[t].node /\ Go(t, thread[t].then)
     ELSE Go(t, [thread[t] EXCEPT !.pc = "failed", !.head = freeListHead]) /\ UNCHANGED freeListHead
  /\ UNCHANGED <<freeListNext, freeListRefs, held>>

\* The next thread to drop the last reference tries again; perhaps this one.
PushFailed(t) ==
  /\ In(t, "failed")
  /\ FetchAdd(thread[t].node, SHOULD_BE_ON_FREELIST - 1)
  /\ Go(t, IF freeListRefs[thread[t].node] = 1 THEN [thread[t] EXCEPT !.pc = "link"]
           ELSE thread[t].then)
  /\ UNCHANGED <<freeListHead, freeListNext, held>>

-----------------------------------------------------------------------------
(* try_get *)

Look(h) == IF h = Nil THEN Idle ELSE [pc |-> "refs", head |-> h]

GetLoad(t) ==
  /\ In(t, "idle") \/ In(t, "again")
  /\ Go(t, Look(freeListHead))
  /\ UNCHANGED <<freeListHead, freeListNext, freeListRefs, held>>

GetRefs(t) ==
  LET refs == freeListRefs[thread[t].head] IN
  /\ In(t, "refs")
  /\ Go(t, IF REFS_MASK(refs) = 0 THEN [pc |-> "again"]
           ELSE [pc |-> "ref", head |-> thread[t].head, refs |-> refs])
  /\ UNCHANGED <<freeListHead, freeListNext, freeListRefs, held>>

\* Mutant: the count is incremented whatever it has become.
GetRefAny(t) ==
  LET h == thread[t].head IN
  /\ In(t, "ref")
  /\ FetchAdd(h, 1) /\ Go(t, [pc |-> "next", head |-> h])
  /\ UNCHANGED <<freeListHead, freeListNext, held>>

GetRef(t) ==
  LET h == thread[t].head IN
  /\ In(t, "ref")
  /\ IF freeListRefs[h] = thread[t].refs
     THEN FetchAdd(h, 1) /\ Go(t, [pc |-> "next", head |-> h])
     ELSE Go(t, [pc |-> "again"]) /\ UNCHANGED freeListRefs
  /\ UNCHANGED <<freeListHead, freeListNext, held>>

GetNext(t) ==
  /\ In(t, "next")
  /\ Go(t, [pc |-> "take", head |-> thread[t].head, next |-> freeListNext[thread[t].head]])
  /\ UNCHANGED <<freeListHead, freeListNext, freeListRefs, held>>

GetTake(t) ==
  LET h == thread[t].head IN
  /\ In(t, "take")
  /\ IF freeListHead = h
     THEN freeListHead' = thread[t].next /\ Go(t, [pc |-> "taken", head |-> h])
     ELSE Go(t, [pc |-> "missed", prevHead |-> h, head |-> freeListHead]) /\ UNCHANGED freeListHead
  /\ UNCHANGED <<freeListNext, freeListRefs, held>>

\* Its own reference and the list's.
GetTaken(t) ==
  /\ In(t, "taken")
  /\ FetchAdd(thread[t].head, -2)
  /\ held' = [held EXCEPT ![t] = @ \cup {thread[t].head}]
  /\ Go(t, Idle)
  /\ UNCHANGED <<freeListHead, freeListNext>>

\* Mutant: the last reference is dropped without a look at the flag.
GetMissedLeaves(t) ==
  /\ In(t, "missed")
  /\ FetchAdd(thread[t].prevHead, -1)
  /\ Go(t, Look(thread[t].head))
  /\ UNCHANGED <<freeListHead, freeListNext, held>>

GetMissed(t) ==
  LET n == thread[t].prevHead IN
  /\ In(t, "missed")
  /\ FetchAdd(n, -1)
  /\ Go(t, IF freeListRefs[n] = SHOULD_BE_ON_FREELIST + 1
           THEN [pc |-> "load", node |-> n, then |-> Look(thread[t].head)]
           ELSE Look(thread[t].head))
  /\ UNCHANGED <<freeListHead, freeListNext, held>>

Step(t) ==
  \/ \E n \in Nodes : Add(t, n)
  \/ PushLoad(t) \/ PushLink(t) \/ PushStore(t) \/ PushSwap(t) \/ PushFailed(t)
  \/ GetLoad(t) \/ GetRefs(t) \/ GetRef(t) \/ GetNext(t) \/ GetTake(t) \/ GetTaken(t)
  \/ GetMissed(t)

Next == \E t \in Threads : Step(t)

Spec == Init /\ [][Next]_vars

-----------------------------------------------------------------------------
\* A set of nodes with the head of the list and, with a node, the next one.
Closed(S) ==
  /\ freeListHead # Nil => freeListHead \in S
  /\ \A n \in S : freeListNext[n] # Nil => freeListNext[n] \in S

\* What is found from the head.
OnList == {n \in Nodes : \A S \in SUBSET Nodes : Closed(S) => n \in S}

\* The threads that have taken a node off the list, up to the moment they give it back.
Having(n) == {t \in Threads : n \in held[t] \/ (In(t, "taken") /\ thread[t].head = n)}

\* The threads that are putting a node on the list.
Putting(n) == {t \in Threads :
                 thread[t].pc \in {"load", "link", "store", "swap", "failed"} /\ thread[t].node = n}

NextStable ==
  \A t \in Threads : In(t, "take") /\ freeListHead = thread[t].head =>
    freeListNext[thread[t].head] = thread[t].next
TakenUnmarked ==
  \A t \in Threads : In(t, "taken") => freeListRefs[thread[t].head] < SHOULD_BE_ON_FREELIST

\* A block is given to one thread, and while a thread has it it is not on the list, although
\* other threads may still count references to it (concurrentqueue.h:1396-1405).  The head
\* is swapped for a next node that is still its next, although it may have been taken and put
\* back in between, and a node just taken is not marked to be put back (1393-1399).
NotShared ==
  /\ NextStable /\ TakenUnmarked
  /\ \A n \in Nodes :
       /\ Cardinality(Having(n)) + Cardinality(Putting(n)) <= 1
       /\ n \in OnList => Having(n) = {} /\ Putting(n) = {}

\* No block is forgotten: one that nobody has, puts back or can find on the list waits for
\* the last of the threads that still count a reference to it (1372-1377, 1411-1414).
NoneLost ==
  \A n \in Nodes :
    \/ n \in OnList \/ Having(n) # {} \/ Putting(n) # {}
    \/ /\ freeListRefs[n] > SHOULD_BE_ON_FREELIST
       /\ \E t \in Threads : \/ thread[t].pc \in {"next", "take"} /\ thread[t].head = n
                             \/ In(t, "missed") /\ thread[t].prevHead = n
=============================================================================
