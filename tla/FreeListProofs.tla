--------------------------- MODULE FreeListProofs ---------------------------
(***************************************************************************)
(* Proofs about FreeList: a node is never had by two threads, nor by one   *)
(* while it is on the list, and no node is lost, for every number of       *)
(* threads and nodes.  The invariant says what the count of a node is in   *)
(* each of the places it can be: had by a thread, readied for the list,    *)
(* offered to it, on it, just taken off it, or waiting for the last of the *)
(* threads that count it.                                                  *)
(***************************************************************************)
EXTENDS FreeList, FiniteSetTheorems, TLAPS

FLAG == SHOULD_BE_ON_FREELIST
NodeOrNil == Nodes \cup {Nil}

\* Where a thread goes on after add: it returns, or looks at the head it has.
After == [pc : {"idle"}] \cup [pc : {"refs"}, head : Nodes]

ThreadStates ==
  [pc : {"idle", "again"}] \cup [pc : {"refs", "next", "taken"}, head : Nodes]
  \cup [pc : {"ref"}, head : Nodes, refs : Nat]
  \cup [pc : {"take"}, head : Nodes, next : NodeOrNil]
  \cup [pc : {"missed"}, prevHead : Nodes, head : NodeOrNil]
  \cup [pc : {"load"}, node : Nodes, then : After]
  \cup [pc : {"link", "store", "swap", "failed"}, node : Nodes, head : NodeOrNil, then : After]

Types ==
  /\ freeListHead \in NodeOrNil
  /\ freeListNext \in [Nodes -> NodeOrNil]
  /\ freeListRefs \in [Nodes -> Nat]
  /\ held \in [Threads -> SUBSET Nodes]
  /\ thread \in [Threads -> ThreadStates]

\* What a thread is to a node: it has it for its own use, ...
Has(t, n) == n \in held[t]
\* ... has just taken it off the list, ...
Took(t, n) == In(t, "taken") /\ thread[t].head = n
\* ... is about to link it, while nobody counts it, ...
Readies(t, n) == thread[t].pc \in {"load", "link", "store"} /\ thread[t].node = n
\* ... or tries to make it the head, while others may count it again.
Offers(t, n) == thread[t].pc \in {"swap", "failed"} /\ thread[t].node = n
Owns(t, n) == Has(t, n) \/ Took(t, n) \/ Readies(t, n) \/ Offers(t, n)

\* The threads with a reference to the node that they have still to give back.
Counts(t, n) ==
  \/ thread[t].pc \in {"next", "take", "taken"} /\ thread[t].head = n
  \/ In(t, "missed") /\ thread[t].prevHead = n
Counting(n) == {t \in Threads : Counts(t, n)}
Count(n) == Cardinality(Counting(n))

\* One owner at most, and none on the list; the count is the references, plus the list's one,
\* or plus the flag of a node that waits for the last of them.
NodeInv(n) ==
  /\ \A t, u \in Threads : Owns(t, n) /\ Owns(u, n) => t = u
  /\ \A t \in Threads : Has(t, n) => ~Took(t, n) /\ ~Readies(t, n) /\ ~Offers(t, n)
  /\ \A t \in Threads : Owns(t, n) => n \notin OnList
  /\ n \in OnList => freeListRefs[n] = Count(n) + 1
  /\ \A t \in Threads : Took(t, n) \/ Offers(t, n) => freeListRefs[n] = Count(n) + 1
  /\ \A t \in Threads : Has(t, n) => freeListRefs[n] = Count(n)
  /\ \A t \in Threads : Readies(t, n) => freeListRefs[n] = FLAG /\ Counting(n) = {}
  /\ n \notin OnList /\ (\A t \in Threads : ~Owns(t, n)) =>
       freeListRefs[n] = FLAG + Count(n) /\ Counting(n) # {}

NodesInv == \A n \in Nodes : NodeInv(n)
\* The count a thread will compare with was not zero.
SawCounted == \A t \in Threads : In(t, "ref") => REFS_MASK(thread[t].refs) # 0
\* Nobody links a node that is counted.
NextKept == \A t \in Threads : In(t, "take") => freeListNext[thread[t].head] = thread[t].next
\* A node offered is linked to the head it is offered for.
Linked ==
  \A t \in Threads : thread[t].pc \in {"store", "swap"} =>
    freeListNext[thread[t].node] = thread[t].head

\* The list ends: the nodes on it have heights that go down.
Descends(f) == \A n \in OnList : freeListNext[n] # Nil => f[freeListNext[n]] < f[n]
Acyclic == \E f \in [Nodes -> Nat] : Descends(f)

IInv == Types /\ NodesInv /\ SawCounted /\ NextKept /\ Linked /\ Acyclic
-----------------------------------------------------------------------------
\* Remainders by a modulus that is not a number, the part of the prover that needs help.
LEMMA ModSmall == ASSUME NEW M \in Nat, NEW x \in Nat, x < M PROVE x % M = x
  OBVIOUS

LEMMA MaskFlag == ASSUME NEW M \in Nat, M > 0 PROVE M % M = 0
  OBVIOUS

LEMMA Flag == /\ FLAG \in Nat /\ FLAG > 1 /\ Modulus \in Nat /\ Modulus = FLAG + FLAG
              /\ REFS_MASK(FLAG) = 0
              /\ Cardinality(Threads) \in Nat /\ Cardinality(Threads) + 1 < FLAG
              /\ IsFiniteSet(Threads)
<1>1. Cardinality(Threads) \in Nat /\ FLAG \in Nat /\ Cardinality(Threads) + 1 < FLAG
  BY FlagAssumption, FS_CardinalityType DEF FLAG
<1>2. FLAG % FLAG = 0
  BY <1>1, MaskFlag
<1> QED BY <1>1, <1>2, FlagAssumption DEF FLAG, Modulus, REFS_MASK

LEMMA CountBound ==
  ASSUME NEW n
  PROVE  IsFiniteSet(Counting(n)) /\ Count(n) \in Nat /\ Count(n) <= Cardinality(Threads)
BY Flag, FS_Subset, FS_CardinalityType DEF Counting, Count

\* One more thread counts the node, or one fewer.
LEMMA CountMore ==
  ASSUME NEW n, NEW t \in Threads, ~Counts(t, n), Counts(t, n)',
         \A u \in Threads : u # t => (Counts(u, n)' <=> Counts(u, n))
  PROVE  Count(n)' = Count(n) + 1 /\ Counting(n)' # {}
<1>1. Counting(n)' = Counting(n) \cup {t} /\ t \notin Counting(n)
  BY DEF Counting
<1> QED BY <1>1, CountBound, FS_AddElement DEF Count

LEMMA CountFewer ==
  ASSUME NEW n, NEW t \in Threads, Counts(t, n), ~Counts(t, n)',
         \A u \in Threads : u # t => (Counts(u, n)' <=> Counts(u, n))
  PROVE  /\ Count(n)' = Count(n) - 1 /\ Count(n) >= 1
         /\ Count(n)' = 0 <=> Counting(n)' = {}
<1>1. Counting(n)' = Counting(n) \ {t} /\ t \in Counting(n)
  BY DEF Counting
<1>2. Count(n)' = Count(n) - 1
  BY <1>1, CountBound, FS_RemoveElement DEF Count
<1>3. Count(n) # 0
  BY <1>1, CountBound, FS_EmptySet DEF Count
<1>4. Count(n)' = 0 <=> Counting(n)' = {}
  BY <1>1, CountBound, FS_EmptySet, FS_RemoveElement DEF Count
<1> QED BY <1>2, <1>3, <1>4, CountBound

LEMMA CountSame ==
  ASSUME NEW n, \A u \in Threads : Counts(u, n)' <=> Counts(u, n)
  PROVE  Counting(n)' = Counting(n) /\ Count(n)' = Count(n)
BY DEF Counting, Count

LEMMA CountNone == ASSUME NEW n PROVE Count(n) = 0 <=> Counting(n) = {}
BY CountBound, FS_EmptySet DEF Count

\* The arithmetic of a count never wraps round.
LEMMA Added ==
  ASSUME NEW n \in Nodes, NEW d \in Int, FetchAdd(n, d), freeListRefs \in [Nodes -> Nat],
         freeListRefs[n] + d >= 0, freeListRefs[n] + d < FLAG + FLAG
  PROVE  /\ freeListRefs' \in [Nodes -> Nat]
         /\ freeListRefs'[n] = freeListRefs[n] + d
         /\ \A m \in Nodes : m # n => freeListRefs'[m] = freeListRefs[m]
<1> DEFINE x == freeListRefs[n] + d
<1>1. x \in Nat /\ x < Modulus /\ Modulus \in Nat
  BY Flag
<1>2. x % Modulus = x
  BY <1>1, ModSmall
<1>3. freeListRefs' = [freeListRefs EXCEPT ![n] = x]
  BY <1>2 DEF FetchAdd
<1> HIDE DEF x
<1>4. x = freeListRefs[n] + d
  BY DEF x
<1> QED BY <1>1, <1>3, <1>4

-----------------------------------------------------------------------------
LEMMA OnListHead ==
  ASSUME Types, freeListHead # Nil
  PROVE  freeListHead \in OnList
BY DEF OnList, Closed, Types, NodeOrNil

LEMMA OnListNext ==
  ASSUME Types, NEW n \in OnList, freeListNext[n] # Nil
  PROVE  freeListNext[n] \in OnList
BY DEF OnList, Closed, Types, NodeOrNil

LEMMA OnListLeast ==
  ASSUME NEW S \in SUBSET Nodes, Closed(S)
  PROVE  OnList \subseteq S
BY DEF OnList

LEMMA OnListClosed ==
  ASSUME Types
  PROVE  OnList \subseteq Nodes /\ Closed(OnList)
<1>1. OnList \subseteq Nodes
  BY DEF OnList
<1> QED BY <1>1, OnListHead, OnListNext DEF Closed

LEMMA OnListSame ==
  ASSUME UNCHANGED <<freeListHead, freeListNext>>
  PROVE  OnList' = OnList
BY DEF OnList, Closed

\* The list after a step is the least closed set.
LEMMA OnListIs ==
  ASSUME NEW L \in SUBSET Nodes, Closed(L)',
         \A S \in SUBSET Nodes : Closed(S)' => L \subseteq S
  PROVE  OnList' = L
BY DEF OnList

\* Linking a node that is not on the list does not change the list.
LEMMA OnListLink ==
  ASSUME Types, NEW m \in Nodes, NEW h, m \notin OnList,
         freeListNext' = [freeListNext EXCEPT ![m] = h], UNCHANGED freeListHead
  PROVE  OnList' = OnList
<1>0. PICK L : L = OnList
  OBVIOUS
<1>1. L \subseteq Nodes /\ Closed(L) /\ m \notin L
  BY <1>0, OnListClosed
<1>2. Closed(L)'
  BY <1>1 DEF Closed, Types
<1>3. ASSUME NEW S \in SUBSET Nodes, Closed(S)'
      PROVE  L \subseteq S
  <2>1. Closed(S \cap L)
    BY <1>1, <1>3 DEF Closed, Types
  <2> QED BY <2>1, <1>0, OnListLeast
<1> QED BY <1>0, <1>1, <1>2, <1>3, OnListIs

\* Swapping the head for a node linked to it puts the node on the list.
LEMMA OnListPush ==
  ASSUME Types, NEW m \in Nodes, m \notin OnList, freeListNext[m] = freeListHead,
         freeListHead' = m, UNCHANGED freeListNext
  PROVE  OnList' = OnList \cup {m}
<1>0. PICK L : L = OnList
  OBVIOUS
<1>1. L \subseteq Nodes /\ Closed(L)
  BY <1>0, OnListClosed
<1>2. Closed(L \cup {m})'
  BY <1>1 DEF Closed, Types
<1>3. ASSUME NEW S \in SUBSET Nodes, Closed(S)'
      PROVE  L \cup {m} \subseteq S
  <2>1. Closed(S) /\ m \in S
    BY <1>3, FlagAssumption DEF Closed, Types
  <2> QED BY <2>1, <1>0, OnListLeast
<1> QED BY <1>0, <1>1, <1>2, <1>3, OnListIs

\* Swapping the head for its next node takes just that node off the list.
LEMMA OnListTake ==
  ASSUME Types, Acyclic, freeListHead # Nil,
         freeListHead' = freeListNext[freeListHead], UNCHANGED freeListNext
  PROVE  /\ freeListHead \in OnList
         /\ OnList' = OnList \ {freeListHead}
<1>0. PICK L, h : L = OnList /\ h = freeListHead
  OBVIOUS
<1>1. L \subseteq Nodes /\ Closed(L) /\ h \in L
  BY <1>0, OnListClosed, OnListHead
<1>2. PICK f \in [Nodes -> Nat] : \A n \in L : freeListNext[n] # Nil => f[freeListNext[n]] < f[n]
  BY <1>0 DEF Acyclic, Descends
<1>3. \A n \in L : n = h \/ f[n] < f[h]
  <2> DEFINE S == {n \in L : n = h \/ f[n] < f[h]}
  <2>1. S \in SUBSET Nodes /\ h \in S
    BY <1>1
  <2>2. ASSUME NEW n \in S, freeListNext[n] # Nil
        PROVE  freeListNext[n] \in S
    <3>1. freeListNext[n] \in L /\ f[freeListNext[n]] < f[n]
      BY <1>1, <1>2, <2>2 DEF Closed
    <3>2. f[freeListNext[n]] \in Nat /\ f[n] \in Nat /\ f[h] \in Nat
      BY <1>1, <3>1
    <3> QED BY <3>1, <3>2
  <2>3. Closed(S)
    BY <1>0, <2>1, <2>2 DEF Closed
  <2>4. L \subseteq S
    BY <1>0, <2>1, <2>3, OnListLeast
  <2> QED BY <2>4
<1>4. ASSUME NEW n \in L, freeListNext[n] # Nil
      PROVE  freeListNext[n] # h /\ freeListNext[n] \in L
  <2>1. freeListNext[n] \in L /\ f[freeListNext[n]] < f[n]
    BY <1>1, <1>2, <1>4 DEF Closed
  <2>2. f[freeListNext[n]] \in Nat /\ f[n] \in Nat /\ f[h] \in Nat
    BY <1>1, <2>1
  <2> QED BY <1>3, <2>1, <2>2
<1>5. Closed(L \ {h})'
  BY <1>0, <1>1, <1>4 DEF Closed
<1>6. ASSUME NEW S \in SUBSET Nodes, Closed(S)'
      PROVE  L \ {h} \subseteq S
  <2>1. Closed(S \cup {h})
    BY <1>0, <1>6 DEF Closed
  <2> QED BY <1>0, <1>1, <2>1, OnListLeast
<1> QED BY <1>0, <1>1, <1>5, <1>6, OnListIs

-----------------------------------------------------------------------------
\* A thread that stays where it is stays what it was to every node.
LEMMA OthersSame ==
  ASSUME NEW u, NEW n, thread'[u] = thread[u], held'[u] = held[u]
  PROVE  /\ Has(u, n)' <=> Has(u, n)
         /\ Took(u, n)' <=> Took(u, n)
         /\ Readies(u, n)' <=> Readies(u, n)
         /\ Offers(u, n)' <=> Offers(u, n)
         /\ Counts(u, n)' <=> Counts(u, n)
BY DEF Has, Took, Readies, Offers, Counts, In

Same(t, n) ==
  /\ Has(t, n)' <=> Has(t, n)
  /\ Took(t, n)' <=> Took(t, n)
  /\ Readies(t, n)' <=> Readies(t, n)
  /\ Offers(t, n)' <=> Offers(t, n)
  /\ Counts(t, n)' <=> Counts(t, n)

\* Only t moves.
Moves(t) == \A u \in Threads : u # t => thread'[u] = thread[u] /\ held'[u] = held[u]

LEMMA NodeSame ==
  ASSUME NEW n \in Nodes, NodeInv(n), NEW t \in Threads, Moves(t), Same(t, n),
         freeListRefs'[n] = freeListRefs[n], n \in OnList' <=> n \in OnList
  PROVE  NodeInv(n)'
<1>1. \A u \in Threads : Same(u, n)
  BY OthersSame DEF Moves, Same
<1>2. \A u \in Threads : Owns(u, n)' <=> Owns(u, n)
  BY <1>1 DEF Same, Owns
<1>3. Counting(n)' = Counting(n) /\ Count(n)' = Count(n)
  BY <1>1, CountSame DEF Same
<1> QED BY <1>1, <1>2, <1>3 DEF NodeInv, Same

LEMMA GoTo ==
  ASSUME Types, NEW t \in Threads, NEW r \in ThreadStates, Go(t, r)
  PROVE  /\ thread' \in [Threads -> ThreadStates]
         /\ thread'[t] = r
         /\ \A u \in Threads : u # t => thread'[u] = thread[u]
BY DEF Types, Go

LEMMA Fields ==
  ASSUME Types, NEW t \in Threads
  PROVE  /\ thread[t].pc \in {"refs", "next", "taken", "ref", "take"} => thread[t].head \in Nodes
         /\ In(t, "ref") => thread[t].refs \in Nat
         /\ In(t, "take") => thread[t].next \in NodeOrNil
         /\ In(t, "missed") => thread[t].prevHead \in Nodes /\ thread[t].head \in NodeOrNil
         /\ thread[t].pc \in {"load", "link", "store", "swap", "failed"} =>
              thread[t].node \in Nodes /\ thread[t].then \in After
         /\ thread[t].pc \in {"link", "store", "swap", "failed"} =>
              /\ thread[t].head \in NodeOrNil
              /\ thread[t] = [pc |-> thread[t].pc, node |-> thread[t].node,
                             head |-> thread[t].head, then |-> thread[t].then]
<1>1. thread[t] \in ThreadStates
  BY DEF Types
<1> QED BY <1>1 DEF ThreadStates, In

LEMMA Made ==
  /\ \A r \in After : r \in ThreadStates /\ r.pc \in {"idle", "refs"}
  /\ Idle \in After /\ Idle.pc = "idle"
  /\ \A h \in NodeOrNil : Look(h) \in After
  /\ [pc |-> "again"] \in ThreadStates
  /\ \A h \in Nodes, p \in {"refs", "next", "taken"} : [pc |-> p, head |-> h] \in ThreadStates
  /\ \A h \in Nodes, r \in Nat : [pc |-> "ref", head |-> h, refs |-> r] \in ThreadStates
  /\ \A h \in Nodes, m \in NodeOrNil : [pc |-> "take", head |-> h, next |-> m] \in ThreadStates
  /\ \A h \in Nodes, m \in NodeOrNil : [pc |-> "missed", prevHead |-> h, head |-> m] \in ThreadStates
  /\ \A n \in Nodes, a \in After : [pc |-> "load", node |-> n, then |-> a] \in ThreadStates
  /\ \A p \in {"link", "store", "swap", "failed"}, n \in Nodes, h \in NodeOrNil, a \in After :
       [pc |-> p, node |-> n, head |-> h, then |-> a] \in ThreadStates
<1>1. \A h \in NodeOrNil : Look(h) \in After
  BY DEF Look, After, NodeOrNil, Idle
<1>2. \A n \in Nodes, a \in After : [pc |-> "load", node |-> n, then |-> a] \in ThreadStates
  BY DEF ThreadStates
<1>3. \A p \in {"link", "store", "swap", "failed"}, n \in Nodes, h \in NodeOrNil, a \in After :
        [pc |-> p, node |-> n, head |-> h, then |-> a] \in ThreadStates
  BY DEF ThreadStates
<1>4. \A r \in After : r \in ThreadStates /\ r.pc \in {"idle", "refs"}
  BY DEF After, ThreadStates
<1>5. Idle \in After /\ Idle.pc = "idle"
  BY DEF Idle, After
<1>6. /\ [pc |-> "again"] \in ThreadStates
      /\ \A h \in Nodes, p \in {"refs", "next", "taken"} : [pc |-> p, head |-> h] \in ThreadStates
      /\ \A h \in Nodes, r \in Nat : [pc |-> "ref", head |-> h, refs |-> r] \in ThreadStates
      /\ \A h \in Nodes, m \in NodeOrNil : [pc |-> "take", head |-> h, next |-> m] \in ThreadStates
      /\ \A h \in Nodes, m \in NodeOrNil : [pc |-> "missed", prevHead |-> h, head |-> m] \in ThreadStates
  BY DEF ThreadStates
<1> QED BY <1>1, <1>2, <1>3, <1>4, <1>5, <1>6

LEMMA InitIInv == Init => IInv
<1> SUFFICES ASSUME Init PROVE IInv
  OBVIOUS
<1>1. Types
  BY Made DEF Types, Init, NodeOrNil
<1>2. OnList = {}
  <2>1. Closed({})
    BY DEF Closed, Init
  <2> QED BY <2>1, OnListLeast
<1>3. \A t \in Threads : thread[t].pc = "idle"
  BY Made DEF Init
<1>4. ASSUME NEW n \in Nodes PROVE NodeInv(n)
  <2>1. Counting(n) = {} /\ Count(n) = 0
    BY <1>3, CountNone DEF Counting, Counts, In
  <2>2. \E t : {u \in Threads : n \in held[u]} = {t}
    BY FS_Singleton, FS_Subset, FlagAssumption DEF Init
  <2>3. \A t \in Threads : ~Took(t, n) /\ ~Readies(t, n) /\ ~Offers(t, n)
    BY <1>3 DEF Took, Readies, Offers, In
  <2>4. freeListRefs[n] = 0
    BY DEF Init
  <2> QED BY <1>2, <2>1, <2>2, <2>3, <2>4 DEF NodeInv, Owns, Has
<1>5. Acyclic
  <2>1. [n \in Nodes |-> 0] \in [Nodes -> Nat]
    OBVIOUS
  <2> QED BY <1>2, <2>1 DEF Acyclic, Descends
<1> QED BY <1>1, <1>3, <1>4, <1>5 DEF IInv, NodesInv, SawCounted, NextKept, Linked, In

-----------------------------------------------------------------------------
\* What the state a thread goes to has to satisfy on its own.
Sound(r) ==
  /\ r \in ThreadStates
  /\ r.pc = "ref" => REFS_MASK(r.refs) # 0
  /\ r.pc = "take" => freeListNext[r.head] = r.next
  /\ r.pc \in {"store", "swap"} => freeListNext[r.node] = r.head

\* A step that writes no next pointer.
LEMMA NoLink ==
  ASSUME IInv, NEW t \in Threads, NEW r, Sound(r), Go(t, r), UNCHANGED freeListNext,
         freeListHead' \in NodeOrNil, freeListRefs' \in [Nodes -> Nat],
         held' \in [Threads -> SUBSET Nodes], NodesInv', Acyclic'
  PROVE  IInv'
<1> USE DEF IInv
<1>1. /\ thread' \in [Threads -> ThreadStates]
      /\ thread'[t] = r
      /\ \A u \in Threads : u # t => thread'[u] = thread[u]
  BY GoTo DEF Sound
<1>2. Types'
  BY <1>1 DEF Types
<1>3. SawCounted' /\ NextKept' /\ Linked'
  BY <1>1 DEF Sound, SawCounted, NextKept, Linked, In
<1> QED BY <1>2, <1>3

LEMMA AcyclicSame ==
  ASSUME Acyclic, OnList' = OnList, UNCHANGED freeListNext
  PROVE  Acyclic'
BY DEF Acyclic, Descends

\* A step that only takes its thread from one place to another of the same kind.
LEMMA Quiet ==
  ASSUME IInv, NEW t \in Threads, NEW r, Sound(r), Go(t, r),
         UNCHANGED <<freeListHead, freeListNext, freeListRefs, held>>,
         \A n \in Nodes : Same(t, n)
  PROVE  IInv'
<1>1. OnList' = OnList
  BY OnListSame
<1>2. Moves(t)
  BY GoTo DEF Moves, Sound, IInv
<1>3. NodesInv'
  BY <1>1, <1>2, NodeSame DEF NodesInv, IInv
<1> QED BY <1>1, <1>3, NoLink, AcyclicSame DEF IInv, Types

\* A thread's kind to every node, from where it goes.
LEMMA KindOf ==
  ASSUME NEW t \in Threads, NEW r, thread'[t] = r, held'[t] = held[t], NEW n
  PROVE  /\ Has(t, n)' <=> Has(t, n)
         /\ Took(t, n)' <=> r.pc = "taken" /\ r.head = n
         /\ Readies(t, n)' <=> r.pc \in {"load", "link", "store"} /\ r.node = n
         /\ Offers(t, n)' <=> r.pc \in {"swap", "failed"} /\ r.node = n
         /\ Counts(t, n)' <=> \/ r.pc \in {"next", "take", "taken"} /\ r.head = n
                              \/ r.pc = "missed" /\ r.prevHead = n
BY DEF Has, Took, Readies, Offers, Counts, In

LEMMA GetLoadIInv == ASSUME IInv, NEW t \in Threads, GetLoad(t) PROVE IInv'
<1> DEFINE r == Look(freeListHead)
<1>1. r \in After
  BY Made DEF IInv, Types
<1>2. r \in ThreadStates /\ r.pc \in {"idle", "refs"}
  BY <1>1, Made
<1>3. Go(t, r) /\ UNCHANGED <<freeListHead, freeListNext, freeListRefs, held>>
      /\ thread[t].pc \in {"idle", "again"}
  BY DEF GetLoad, In
<1> HIDE DEF r
<1>4. Sound(r)
  BY <1>2 DEF Sound
<1>5. thread'[t] = r
  BY <1>2, <1>3, GoTo DEF IInv
<1>6. ASSUME NEW n \in Nodes PROVE Same(t, n)
  BY <1>2, <1>3, <1>5, KindOf DEF Same, Has, Took, Readies, Offers, Counts, In
<1> QED BY <1>3, <1>4, <1>6, Quiet

LEMMA GetRefsIInv == ASSUME IInv, NEW t \in Threads, GetRefs(t) PROVE IInv'
<1> DEFINE h == thread[t].head
           r == IF REFS_MASK(freeListRefs[h]) = 0 THEN [pc |-> "again"]
                ELSE [pc |-> "ref", head |-> h, refs |-> freeListRefs[h]]
<1>1. In(t, "refs") /\ Go(t, r) /\ UNCHANGED <<freeListHead, freeListNext, freeListRefs, held>>
  BY DEF GetRefs
<1>2. h \in Nodes /\ freeListRefs[h] \in Nat
  BY <1>1, Fields DEF IInv, Types, In
<1>3. Sound(r) /\ r.pc \in {"again", "ref"}
  BY <1>2, Made DEF Sound
<1> HIDE DEF r
<1>5. thread'[t] = r
  BY <1>1, <1>3, GoTo DEF IInv, Sound
<1>6. ASSUME NEW n \in Nodes PROVE Same(t, n)
  BY <1>1, <1>3, <1>5, KindOf DEF Same, Has, Took, Readies, Offers, Counts, In
<1> QED BY <1>1, <1>3, <1>6, Quiet

LEMMA GetNextIInv == ASSUME IInv, NEW t \in Threads, GetNext(t) PROVE IInv'
<1> DEFINE h == thread[t].head
           r == [pc |-> "take", head |-> h, next |-> freeListNext[h]]
<1>1. In(t, "next") /\ Go(t, r) /\ UNCHANGED <<freeListHead, freeListNext, freeListRefs, held>>
  BY DEF GetNext
<1>2. h \in Nodes /\ freeListNext[h] \in NodeOrNil
  BY <1>1, Fields DEF IInv, Types, In
<1>3. Sound(r) /\ r.pc = "take" /\ r.head = h
  BY <1>2, Made DEF Sound
<1> HIDE DEF r
<1>5. thread'[t] = r
  BY <1>1, <1>3, GoTo DEF IInv, Sound
<1>6. ASSUME NEW n \in Nodes PROVE Same(t, n)
  BY <1>1, <1>3, <1>5, KindOf DEF Same, Has, Took, Readies, Offers, Counts, In
<1> QED BY <1>1, <1>3, <1>6, Quiet

LEMMA PushLoadIInv == ASSUME IInv, NEW t \in Threads, PushLoad(t) PROVE IInv'
<1> DEFINE m == thread[t].node
           r == [pc |-> "link", node |-> m, head |-> freeListHead, then |-> thread[t].then]
<1>1. In(t, "load") /\ Go(t, r) /\ UNCHANGED <<freeListHead, freeListNext, freeListRefs, held>>
  BY DEF PushLoad
<1>2. m \in Nodes /\ thread[t].then \in After /\ freeListHead \in NodeOrNil
  BY <1>1, Fields DEF IInv, Types, In
<1>3. Sound(r) /\ r.pc = "link" /\ r.node = m
  BY <1>2, Made DEF Sound
<1> HIDE DEF r
<1>5. thread'[t] = r
  BY <1>1, <1>3, GoTo DEF IInv, Sound
<1>6. ASSUME NEW n \in Nodes PROVE Same(t, n)
  BY <1>1, <1>3, <1>5, KindOf DEF Same, Has, Took, Readies, Offers, Counts, In
<1> QED BY <1>1, <1>3, <1>6, Quiet

\* The thread gets a reference: the node is on the list, or somebody has it, offers it or
\* waits for it, but nobody readies it.
LEMMA GetRefIInv == ASSUME IInv, NEW t \in Threads, GetRef(t) PROVE IInv'
<1>0. PICK h : h = thread[t].head
  OBVIOUS
<1>1. In(t, "ref") /\ UNCHANGED <<freeListHead, freeListNext, held>>
  BY DEF GetRef
<1>2. h \in Nodes /\ freeListRefs[h] \in Nat
  BY <1>0, <1>1, Fields DEF IInv, Types, In
<1>3. CASE freeListRefs[h] # thread[t].refs
  <2> DEFINE r == [pc |-> "again"]
  <2>1. Go(t, r) /\ UNCHANGED freeListRefs
    BY <1>0, <1>3 DEF GetRef
  <2>2. Sound(r) /\ r.pc = "again"
    BY Made DEF Sound
  <2> HIDE DEF r
  <2>3. thread'[t] = r
    BY <2>1, <2>2, GoTo DEF IInv, Sound
  <2>4. ASSUME NEW n \in Nodes PROVE Same(t, n)
    BY <1>1, <2>2, <2>3, KindOf DEF Same, Has, Took, Readies, Offers, Counts, In
  <2> QED BY <1>1, <2>1, <2>2, <2>4, Quiet
<1>4. CASE freeListRefs[h] = thread[t].refs
  <2> DEFINE r == [pc |-> "next", head |-> h]
  <2>1. Go(t, r) /\ FetchAdd(h, 1)
    BY <1>0, <1>4 DEF GetRef
  <2>2. Sound(r) /\ r.pc = "next" /\ r.head = h
    BY <1>2, Made DEF Sound
  <2>3. freeListRefs[h] # FLAG /\ NodeInv(h)
    BY <1>1, <1>2, <1>4, Flag DEF IInv, SawCounted, NodesInv
  <2> HIDE DEF r
  <2>4. thread'[t] = r /\ Moves(t)
    BY <1>1, <2>1, <2>2, GoTo DEF IInv, Sound, Moves
  <2>5. OnList' = OnList
    BY <1>1, OnListSame
  <2>6. \A n : /\ Has(t, n)' <=> Has(t, n)
               /\ Took(t, n)' <=> Took(t, n)
               /\ Readies(t, n)' <=> Readies(t, n)
               /\ Offers(t, n)' <=> Offers(t, n)
               /\ ~Took(t, n) /\ ~Readies(t, n) /\ ~Offers(t, n) /\ ~Counts(t, n)
               /\ Counts(t, n)' <=> n = h
    BY <1>1, <2>2, <2>4, KindOf DEF Has, Took, Readies, Offers, Counts, In
  <2>7. \A u \in Threads : \A n :
          /\ Has(u, n)' <=> Has(u, n)
          /\ Took(u, n)' <=> Took(u, n)
          /\ Readies(u, n)' <=> Readies(u, n)
          /\ Offers(u, n)' <=> Offers(u, n)
          /\ u # t => (Counts(u, n)' <=> Counts(u, n))
    BY <2>4, <2>6, OthersSame DEF Moves
  <2>8. Count(h)' = Count(h) + 1 /\ Counting(h)' # {}
    BY <2>6, <2>7, CountMore
  <2>9. Count(h) \in Nat /\ Count(h) <= Cardinality(Threads)
    BY CountBound
  <2>10. \A u \in Threads : Owns(u, h)' <=> Owns(u, h)
    BY <2>7 DEF Owns
  <2>11. freeListRefs[h] < FLAG + FLAG - 1
    BY <2>3, <2>9, Flag DEF NodeInv, Owns
  <2>12. /\ freeListRefs' \in [Nodes -> Nat]
         /\ freeListRefs'[h] = freeListRefs[h] + 1
         /\ \A m \in Nodes : m # h => freeListRefs'[m] = freeListRefs[m]
    BY <1>2, <2>1, <2>11, Added, Flag DEF IInv, Types
  <2>13. NodeInv(h)'
    BY <1>2, <2>3, <2>5, <2>7, <2>8, <2>9, <2>10, <2>12, Flag DEF NodeInv
  <2>14. ASSUME NEW n \in Nodes, n # h PROVE NodeInv(n)'
    BY <2>4, <2>5, <2>6, <2>12, <2>14, NodeSame DEF Same, IInv, NodesInv
  <2>15. NodesInv'
    BY <2>13, <2>14 DEF NodesInv
  <2> QED BY <1>1, <2>1, <2>2, <2>5, <2>12, <2>15, NoLink, AcyclicSame DEF IInv, Types
<1> QED BY <1>3, <1>4

LEMMA Moved ==
  ASSUME IInv, NEW t \in Threads, NEW r \in ThreadStates, Go(t, r),
         \A u \in Threads : u # t => held'[u] = held[u]
  PROVE  /\ thread'[t] = r
         /\ Moves(t)
         /\ \A u \in Threads : u # t => \A n : Same(u, n)
<1>1. thread'[t] = r /\ Moves(t)
  BY GoTo DEF IInv, Moves
<1> QED BY <1>1, OthersSame DEF Moves, Same

\* A node given back: if nobody counts it this thread readies it, else it waits.
LEMMA AddIInv ==
  ASSUME IInv, NEW t \in Threads, NEW n \in Nodes, Add(t, n)
  PROVE  IInv'
<1> DEFINE r == IF freeListRefs[n] = 0 THEN [pc |-> "load", node |-> n, then |-> Idle] ELSE Idle
<1>1. /\ In(t, "idle") /\ n \in held[t] /\ FetchAdd(n, FLAG) /\ Go(t, r)
      /\ held' = [held EXCEPT ![t] = @ \ {n}]
      /\ UNCHANGED <<freeListHead, freeListNext>>
  BY DEF Add, FLAG
<1>2. held' \in [Threads -> SUBSET Nodes] /\ held'[t] = held[t] \ {n}
      /\ \A u \in Threads : u # t => held'[u] = held[u]
  BY <1>1 DEF IInv, Types
<1>3. /\ Sound(r) /\ r.pc \in {"load", "idle"}
      /\ r.pc = "load" <=> freeListRefs[n] = 0
      /\ r.pc = "load" => r.node = n
  BY Made DEF Sound
<1> HIDE DEF r
<1>4. thread'[t] = r /\ Moves(t) /\ \A u \in Threads : u # t => \A m : Same(u, m)
  BY <1>1, <1>2, <1>3, Moved DEF Sound
<1>5. OnList' = OnList
  BY <1>1, OnListSame
<1>6. \A m : /\ Has(t, m)' <=> Has(t, m) /\ m # n
             /\ ~Took(t, m)' /\ ~Offers(t, m)' /\ ~Counts(t, m)'
             /\ Readies(t, m)' <=> freeListRefs[n] = 0 /\ m = n
             /\ ~Took(t, m) /\ ~Readies(t, m) /\ ~Offers(t, m) /\ ~Counts(t, m)
  BY <1>1, <1>2, <1>3, <1>4 DEF Has, Took, Readies, Offers, Counts, In
<1>7. Count(n)' = Count(n) /\ Counting(n)' = Counting(n)
  BY <1>4, <1>6, CountSame DEF Same
<1>8. Has(t, n) /\ NodeInv(n) /\ freeListRefs[n] = Count(n)
  BY <1>1 DEF Has, NodeInv, NodesInv, IInv
<1>9. Count(n) \in Nat /\ Count(n) <= Cardinality(Threads) /\ (Count(n) = 0 <=> Counting(n) = {})
  BY CountBound, CountNone
<1>10. /\ freeListRefs' \in [Nodes -> Nat]
       /\ freeListRefs'[n] = freeListRefs[n] + FLAG
       /\ \A m \in Nodes : m # n => freeListRefs'[m] = freeListRefs[m]
  BY <1>1, <1>8, <1>9, Added, Flag DEF IInv, Types
<1>11. n \notin OnList /\ \A u \in Threads : u # t => ~Owns(u, n)' /\ ~Owns(u, n)
  BY <1>4, <1>8 DEF NodeInv, Owns, Same
<1>12. NodeInv(n)'
  BY <1>5, <1>6, <1>7, <1>8, <1>9, <1>10, <1>11, Flag DEF NodeInv, Owns
<1>13. ASSUME NEW m \in Nodes, m # n PROVE NodeInv(m)'
  BY <1>4, <1>5, <1>6, <1>10, <1>13, NodeSame DEF Same, IInv, NodesInv
<1>14. NodesInv'
  BY <1>12, <1>13 DEF NodesInv
<1> QED BY <1>1, <1>2, <1>3, <1>5, <1>10, <1>14, NoLink, AcyclicSame DEF IInv, Types

\* The node is written by the only thread that may: nobody counts it, and it is not on the list.
LEMMA PushLinkIInv == ASSUME IInv, NEW t \in Threads, PushLink(t) PROVE IInv'
<1>0. PICK m, r : m = thread[t].node /\ r = [thread[t] EXCEPT !.pc = "store"]
  OBVIOUS
<1>1. /\ In(t, "link") /\ freeListNext' = [freeListNext EXCEPT ![m] = thread[t].head] /\ Go(t, r)
      /\ UNCHANGED <<freeListHead, freeListRefs, held>>
  BY <1>0 DEF PushLink
<1>2. m \in Nodes /\ thread[t].head \in NodeOrNil /\ thread[t].then \in After
      /\ r = [pc |-> "store", node |-> m, head |-> thread[t].head, then |-> thread[t].then]
  <2>1. thread[t].pc \in {"link", "store", "swap", "failed"}
    BY <1>1 DEF In
  <2>2. /\ thread[t].node \in Nodes /\ thread[t].head \in NodeOrNil /\ thread[t].then \in After
        /\ thread[t] = [pc |-> thread[t].pc, node |-> thread[t].node,
                       head |-> thread[t].head, then |-> thread[t].then]
    BY <2>1, Fields DEF IInv
  <2> QED BY <1>0, <2>2
<1>3. r \in ThreadStates /\ r.pc = "store" /\ r.node = m /\ r.head = thread[t].head
  BY <1>2, Made
<1>4. thread'[t] = r /\ Moves(t) /\ \A u \in Threads : u # t => \A n : Same(u, n)
  BY <1>1, <1>3, Moved
<1>5. Readies(t, m) /\ NodeInv(m)
  BY <1>0, <1>1, <1>2 DEF Readies, In, IInv, NodesInv
<1>6. m \notin OnList /\ \A u \in Threads : ~Counts(u, m) /\ (u # t => ~Owns(u, m))
  BY <1>5 DEF NodeInv, Owns, Counting
<1>7. OnList' = OnList
  BY <1>1, <1>2, <1>6, OnListLink DEF IInv
<1>8. Types'
  <2>1. freeListNext' \in [Nodes -> NodeOrNil]
    BY <1>1, <1>2 DEF IInv, Types
  <2>2. thread' \in [Threads -> ThreadStates]
    BY <1>1, <1>3, GoTo DEF IInv
  <2> QED BY <1>1, <2>1, <2>2 DEF IInv, Types
<1>9. ASSUME NEW n \in Nodes PROVE Same(t, n)
  BY <1>0, <1>1, <1>3, <1>4, KindOf DEF Same, Has, Took, Readies, Offers, Counts, In
<1>10. NodesInv'
  BY <1>1, <1>4, <1>7, <1>9, NodeSame DEF IInv, NodesInv
<1>11. /\ freeListNext'[m] = thread[t].head
       /\ \A n \in Nodes : n # m => freeListNext'[n] = freeListNext[n]
  BY <1>1, <1>2 DEF IInv, Types
<1>12. SawCounted' /\ NextKept'
  <2>1. ASSUME NEW u \in Threads, In(u, "take")'
        PROVE  (freeListNext[thread[u].head] = thread[u].next)'
    <3>1. u # t /\ thread'[u] = thread[u] /\ In(u, "take")
      BY <1>3, <1>4, <2>1 DEF In, Moves
    <3>2. thread[u].head \in Nodes /\ thread[u].head # m
      BY <1>6, <3>1, Fields DEF Counts, In, IInv
    <3> QED BY <1>11, <3>1, <3>2 DEF IInv, NextKept
  <2>2. SawCounted'
    BY <1>3, <1>4 DEF IInv, SawCounted, In, Moves
  <2> QED BY <2>1, <2>2 DEF NextKept
<1>13. Linked'
  <2>1. ASSUME NEW u \in Threads, thread'[u].pc \in {"store", "swap"}, u # t
        PROVE  (freeListNext[thread[u].node] = thread[u].head)'
    <3>1. thread'[u] = thread[u] /\ thread[u].pc \in {"store", "swap"}
      BY <1>4, <2>1 DEF Moves
    <3>2. thread[u].node \in Nodes /\ thread[u].node # m
      BY <1>6, <2>1, <3>1, Fields DEF Owns, Readies, Offers, IInv
    <3> QED BY <1>11, <3>1, <3>2 DEF IInv, Linked
  <2> QED BY <1>3, <1>4, <1>11, <2>1 DEF Linked
<1>14. Acyclic'
  BY <1>6, <1>7, <1>11, OnListClosed DEF IInv, Acyclic, Descends
<1> QED BY <1>8, <1>10, <1>12, <1>13, <1>14 DEF IInv

LEMMA PushStoreIInv == ASSUME IInv, NEW t \in Threads, PushStore(t) PROVE IInv'
<1>0. PICK m, r : m = thread[t].node /\ r = [thread[t] EXCEPT !.pc = "swap"]
  OBVIOUS
<1>1. /\ In(t, "store") /\ freeListRefs' = [freeListRefs EXCEPT ![m] = 1] /\ Go(t, r)
      /\ UNCHANGED <<freeListHead, freeListNext, held>>
  BY <1>0 DEF PushStore
<1>2. m \in Nodes /\ thread[t].head \in NodeOrNil /\ thread[t].then \in After
      /\ r = [pc |-> "swap", node |-> m, head |-> thread[t].head, then |-> thread[t].then]
  <2>1. thread[t].pc \in {"link", "store", "swap", "failed"}
    BY <1>1 DEF In
  <2>2. /\ thread[t].node \in Nodes /\ thread[t].head \in NodeOrNil /\ thread[t].then \in After
        /\ thread[t] = [pc |-> thread[t].pc, node |-> thread[t].node,
                       head |-> thread[t].head, then |-> thread[t].then]
    BY <2>1, Fields DEF IInv
  <2> QED BY <1>0, <2>2
<1>3. r \in ThreadStates /\ r.pc = "swap" /\ r.node = m /\ r.head = thread[t].head
  BY <1>2, Made
<1>4. Sound(r)
  BY <1>0, <1>1, <1>3 DEF Sound, IInv, Linked, In
<1>5. thread'[t] = r /\ Moves(t) /\ \A u \in Threads : u # t => \A n : Same(u, n)
  BY <1>1, <1>3, Moved
<1>6. Readies(t, m) /\ NodeInv(m)
  BY <1>0, <1>1, <1>2 DEF Readies, In, IInv, NodesInv
<1>7. \A n : /\ Has(t, n)' <=> Has(t, n)
             /\ ~Took(t, n)' /\ ~Readies(t, n)' /\ ~Counts(t, n)'
             /\ Offers(t, n)' <=> n = m
             /\ ~Took(t, n) /\ ~Offers(t, n) /\ ~Counts(t, n)
             /\ Readies(t, n) <=> n = m
  BY <1>0, <1>1, <1>3, <1>5, KindOf DEF Has, Took, Readies, Offers, Counts, In
<1>8. OnList' = OnList
  BY <1>1, OnListSame
<1>9. freeListRefs' \in [Nodes -> Nat] /\ freeListRefs'[m] = 1
      /\ \A n \in Nodes : n # m => freeListRefs'[n] = freeListRefs[n]
  BY <1>1, <1>2 DEF IInv, Types
<1>10. Count(m)' = Count(m) /\ Count(m) = 0
  BY <1>5, <1>6, <1>7, CountSame, CountNone DEF NodeInv, Same
<1>11. m \notin OnList /\ ~Has(t, m) /\ \A u \in Threads : u # t => ~Owns(u, m)' /\ ~Owns(u, m)
  BY <1>5, <1>6 DEF NodeInv, Owns, Same
<1>12. NodeInv(m)'
  BY <1>7, <1>8, <1>9, <1>10, <1>11 DEF NodeInv, Owns
<1>13. ASSUME NEW n \in Nodes, n # m PROVE NodeInv(n)'
  BY <1>5, <1>7, <1>8, <1>9, <1>13, NodeSame DEF Same, IInv, NodesInv
<1>14. NodesInv'
  BY <1>12, <1>13 DEF NodesInv
<1> QED BY <1>1, <1>4, <1>8, <1>9, <1>14, NoLink, AcyclicSame DEF IInv, Types

\* The head is what the node was linked to: the node comes first.  Otherwise nothing is lost,
\* the node is still offered.
LEMMA PushSwapIInv == ASSUME IInv, NEW t \in Threads, PushSwap(t) PROVE IInv'
<1>0. PICK m, h, a : m = thread[t].node /\ h = thread[t].head /\ a = thread[t].then
  OBVIOUS
<1>1. In(t, "swap") /\ UNCHANGED <<freeListNext, freeListRefs, held>>
  BY DEF PushSwap
<1>2. m \in Nodes /\ h \in NodeOrNil /\ a \in After
      /\ thread[t] = [pc |-> "swap", node |-> m, head |-> h, then |-> a]
  BY <1>0, <1>1, Fields DEF In, IInv
<1>3. Offers(t, m) /\ NodeInv(m)
  BY <1>0, <1>1, <1>2 DEF Offers, In, IInv, NodesInv
<1>4. CASE freeListHead # h
  <2>0. PICK r : r = [pc |-> "failed", node |-> m, head |-> freeListHead, then |-> a]
    OBVIOUS
  <2>1. [thread[t] EXCEPT !.pc = "failed", !.head = freeListHead] = r
    <3>1. PICK y : y = [thread[t] EXCEPT !.pc = "failed"]
      OBVIOUS
    <3>2. y = [pc |-> "failed", node |-> m, head |-> h, then |-> a]
      BY <1>2, <3>1
    <3>3. [y EXCEPT !.head = freeListHead] = r
      BY <2>0, <3>2
    <3>4. [thread[t] EXCEPT !.pc = "failed", !.head = freeListHead] = [y EXCEPT !.head = freeListHead]
      BY <1>2, <3>1
    <3> QED BY <3>3, <3>4
  <2>2. Go(t, r) /\ UNCHANGED freeListHead
    BY <1>0, <1>4, <2>1 DEF PushSwap
  <2>3. Sound(r) /\ r.pc = "failed" /\ r.node = m
    BY <1>2, <2>0, Made DEF Sound, IInv, Types
  <2>4. thread'[t] = r
    BY <1>1, <2>2, <2>3, Moved DEF Sound
  <2>5. ASSUME NEW n \in Nodes PROVE Same(t, n)
    BY <1>0, <1>1, <2>3, <2>4, KindOf DEF Same, Has, Took, Readies, Offers, Counts, In
  <2> QED BY <1>1, <2>2, <2>3, <2>5, Quiet
<1>5. CASE freeListHead = h
  <2>1. freeListHead' = m /\ Go(t, a)
    BY <1>0, <1>5 DEF PushSwap
  <2>2. a \in ThreadStates /\ a.pc \in {"idle", "refs"}
    BY <1>2, Made
  <2>3. Sound(a)
    BY <2>2 DEF Sound
  <2>4. thread'[t] = a /\ Moves(t) /\ \A u \in Threads : u # t => \A n : Same(u, n)
    BY <1>1, <2>1, <2>2, Moved
  <2>5. \A n : /\ Has(t, n)' <=> Has(t, n)
               /\ ~Took(t, n)' /\ ~Readies(t, n)' /\ ~Offers(t, n)' /\ ~Counts(t, n)'
               /\ ~Took(t, n) /\ ~Readies(t, n) /\ ~Counts(t, n)
               /\ Offers(t, n) <=> n = m
    BY <1>0, <1>1, <2>2, <2>4, KindOf DEF Has, Took, Readies, Offers, Counts, In
  <2>6. m \notin OnList /\ ~Has(t, m) /\ freeListRefs[m] = Count(m) + 1
        /\ \A u \in Threads : u # t => ~Owns(u, m)' /\ ~Owns(u, m)
    BY <1>3, <2>4 DEF NodeInv, Owns, Same
  <2>7. freeListNext[m] = h
    BY <1>0, <1>1 DEF IInv, Linked, In
  <2>8. OnList' = OnList \cup {m}
    BY <1>1, <1>2, <1>5, <2>1, <2>6, <2>7, OnListPush DEF IInv
  <2>9. Count(m)' = Count(m)
    BY <2>4, <2>5, CountSame DEF Same
  <2>10. NodeInv(m)'
    BY <1>1, <2>5, <2>6, <2>8, <2>9 DEF NodeInv, Owns
  <2>11. ASSUME NEW n \in Nodes, n # m PROVE NodeInv(n)'
    BY <1>1, <2>4, <2>5, <2>8, <2>11, NodeSame DEF Same, IInv, NodesInv
  <2>12. NodesInv'
    BY <2>10, <2>11 DEF NodesInv
  <2>13. Acyclic'
    <3>1. PICK f \in [Nodes -> Nat] : Descends(f)
      BY DEF IInv, Acyclic
    <3>2. PICK g \in [Nodes -> Nat] : /\ h # Nil => g[m] = f[h] + 1
                                     /\ \A n \in Nodes : n # m => g[n] = f[n]
      <4>1. CASE h = Nil
        BY <3>1, <4>1
      <4>2. CASE h # Nil
        <5>1. f[h] + 1 \in Nat
          BY <1>2, <4>2 DEF NodeOrNil
        <5>2. [f EXCEPT ![m] = f[h] + 1] \in [Nodes -> Nat]
          BY <1>2, <5>1
        <5> QED BY <1>2, <5>2
      <4> QED BY <4>1, <4>2
    <3>3. OnList \subseteq Nodes /\ (h # Nil => h \in OnList)
          /\ \A n \in OnList : freeListNext[n] # Nil => freeListNext[n] \in OnList
      BY <1>5, OnListClosed DEF IInv, Closed
    <3>4. Descends(g)'
      <4>1. ASSUME NEW n \in OnList \cup {m}, freeListNext[n] # Nil
            PROVE  g[freeListNext[n]] < g[n]
        <5>1. CASE n = m
          <6>1. h \in Nodes /\ h # m /\ f[h] \in Nat
            BY <2>6, <2>7, <3>3, <4>1, <5>1
          <6> QED BY <2>7, <3>2, <4>1, <5>1, <6>1
        <5>2. CASE n # m
          <6>1. n \in OnList /\ freeListNext[n] \in OnList /\ f[freeListNext[n]] < f[n]
            BY <3>1, <3>3, <4>1, <5>2 DEF Descends
          <6> QED BY <2>6, <3>2, <3>3, <5>2, <6>1
        <5> QED BY <5>1, <5>2
      <4> QED BY <1>1, <2>8, <4>1 DEF Descends
    <3> QED BY <3>4 DEF Acyclic
  <2> QED BY <1>1, <1>2, <2>1, <2>3, <2>12, <2>13, NoLink DEF IInv, Types, NodeOrNil
<1> QED BY <1>4, <1>5

\* The list's reference is given back: the node waits for the last reference, or for this
\* thread to try again.
LEMMA PushFailedIInv == ASSUME IInv, NEW t \in Threads, PushFailed(t) PROVE IInv'
<1>0. PICK m : m = thread[t].node
  OBVIOUS
<1>1. PICK r : r = IF freeListRefs[m] = 1 THEN [thread[t] EXCEPT !.pc = "link"] ELSE thread[t].then
  OBVIOUS
<1>2. /\ In(t, "failed") /\ FetchAdd(m, FLAG - 1) /\ Go(t, r)
      /\ UNCHANGED <<freeListHead, freeListNext, held>>
  BY <1>0, <1>1 DEF PushFailed, FLAG
<1>3. /\ m \in Nodes /\ thread[t].head \in NodeOrNil /\ thread[t].then \in After
      /\ thread[t] = [pc |-> "failed", node |-> m, head |-> thread[t].head, then |-> thread[t].then]
  BY <1>0, <1>2, Fields DEF In, IInv
<1>4. /\ r \in ThreadStates /\ r.pc \in {"link", "idle", "refs"}
      /\ r.pc = "link" <=> freeListRefs[m] = 1
      /\ r.pc = "link" => r.node = m
  <2>1. CASE freeListRefs[m] = 1
    <3>1. r = [pc |-> "link", node |-> m, head |-> thread[t].head, then |-> thread[t].then]
      BY <1>1, <1>3, <2>1
    <3> QED BY <1>3, <2>1, <3>1, Made
  <2>2. CASE freeListRefs[m] # 1
    <3>1. r \in After
      BY <1>1, <1>3, <2>2
    <3> QED BY <2>2, <3>1, Made
  <2> QED BY <2>1, <2>2
<1>5. Sound(r)
  BY <1>4 DEF Sound
<1>6. thread'[t] = r /\ Moves(t) /\ \A u \in Threads : u # t => \A n : Same(u, n)
  BY <1>2, <1>4, Moved
<1>7. Offers(t, m) /\ NodeInv(m)
  BY <1>0, <1>2, <1>3 DEF Offers, In, IInv, NodesInv
<1>8. \A n : /\ Has(t, n)' <=> Has(t, n)
             /\ ~Took(t, n)' /\ ~Offers(t, n)' /\ ~Counts(t, n)'
             /\ Readies(t, n)' <=> freeListRefs[m] = 1 /\ n = m
             /\ ~Took(t, n) /\ ~Readies(t, n) /\ ~Counts(t, n)
             /\ Offers(t, n) <=> n = m
  BY <1>0, <1>2, <1>4, <1>6, KindOf DEF Has, Took, Readies, Offers, Counts, In
<1>9. OnList' = OnList
  BY <1>2, OnListSame
<1>10. Count(m)' = Count(m) /\ Counting(m)' = Counting(m)
  BY <1>6, <1>8, CountSame DEF Same
<1>11. Count(m) \in Nat /\ Count(m) <= Cardinality(Threads) /\ (Count(m) = 0 <=> Counting(m) = {})
  BY CountBound, CountNone
<1>12. m \notin OnList /\ ~Has(t, m) /\ freeListRefs[m] = Count(m) + 1
       /\ \A u \in Threads : u # t => ~Owns(u, m)' /\ ~Owns(u, m)
  BY <1>6, <1>7 DEF NodeInv, Owns, Same
<1>13. /\ freeListRefs' \in [Nodes -> Nat]
       /\ freeListRefs'[m] = freeListRefs[m] + (FLAG - 1)
       /\ \A n \in Nodes : n # m => freeListRefs'[n] = freeListRefs[n]
  BY <1>2, <1>3, <1>11, <1>12, Added, Flag DEF IInv, Types
<1>14. NodeInv(m)'
  BY <1>8, <1>9, <1>10, <1>11, <1>12, <1>13, Flag DEF NodeInv, Owns
<1>15. ASSUME NEW n \in Nodes, n # m PROVE NodeInv(n)'
  BY <1>6, <1>8, <1>9, <1>13, <1>15, NodeSame DEF Same, IInv, NodesInv
<1>16. NodesInv'
  BY <1>14, <1>15 DEF NodesInv
<1> QED BY <1>2, <1>5, <1>9, <1>13, <1>16, NoLink, AcyclicSame DEF IInv, Types

\* The next node this thread read is still the next one: the first node leaves the list, with
\* its count.
LEMMA GetTakeIInv == ASSUME IInv, NEW t \in Threads, GetTake(t) PROVE IInv'
<1>0. PICK h : h = thread[t].head
  OBVIOUS
<1>1. In(t, "take") /\ UNCHANGED <<freeListNext, freeListRefs, held>>
  BY DEF GetTake
<1>2. h \in Nodes /\ h # Nil /\ thread[t].next \in NodeOrNil
  BY <1>0, <1>1, Fields, FlagAssumption DEF In, IInv
<1>3. CASE freeListHead # h
  <2>0. PICK r : r = [pc |-> "missed", prevHead |-> h, head |-> freeListHead]
    OBVIOUS
  <2>1. Go(t, r) /\ UNCHANGED freeListHead
    BY <1>0, <1>3, <2>0 DEF GetTake
  <2>2. Sound(r) /\ r.pc = "missed" /\ r.prevHead = h
    BY <1>2, <2>0, Made DEF Sound, IInv, Types
  <2>3. thread'[t] = r
    BY <1>1, <2>1, <2>2, Moved DEF Sound
  <2>4. ASSUME NEW n \in Nodes PROVE Same(t, n)
    BY <1>0, <1>1, <2>2, <2>3, KindOf DEF Same, Has, Took, Readies, Offers, Counts, In
  <2> QED BY <1>1, <2>1, <2>2, <2>4, Quiet
<1>4. CASE freeListHead = h
  <2>0. PICK r : r = [pc |-> "taken", head |-> h]
    OBVIOUS
  <2>1. Go(t, r) /\ freeListHead' = thread[t].next
    BY <1>0, <1>4, <2>0 DEF GetTake
  <2>2. Sound(r) /\ r.pc = "taken" /\ r.head = h
    BY <1>2, <2>0, Made DEF Sound
  <2>3. thread'[t] = r /\ Moves(t) /\ \A u \in Threads : u # t => \A n : Same(u, n)
    BY <1>1, <2>1, <2>2, Moved DEF Sound
  <2>4. \A n : /\ Has(t, n)' <=> Has(t, n)
               /\ ~Readies(t, n)' /\ ~Offers(t, n)'
               /\ Took(t, n)' <=> n = h
               /\ Counts(t, n)' <=> Counts(t, n)
               /\ ~Took(t, n) /\ ~Readies(t, n) /\ ~Offers(t, n)
    BY <1>0, <1>1, <2>2, <2>3, KindOf DEF Has, Took, Readies, Offers, Counts, In
  <2>5. freeListNext[h] = thread[t].next
    BY <1>0, <1>1 DEF IInv, NextKept
  <2>6. h \in OnList /\ OnList' = OnList \ {h}
    BY <1>1, <1>2, <1>4, <2>1, <2>5, OnListTake DEF IInv
  <2>7. Count(h)' = Count(h)
    BY <2>3, <2>4, CountSame DEF Same
  <2>8. NodeInv(h)
    BY <1>2 DEF IInv, NodesInv
  <2>9. freeListRefs[h] = Count(h) + 1 /\ \A u \in Threads : ~Owns(u, h)
    BY <2>6, <2>8 DEF NodeInv
  <2>10. \A u \in Threads : u # t => ~Owns(u, h)'
    BY <2>3, <2>9 DEF Owns, Same
  <2>11. NodeInv(h)'
    BY <1>1, <2>4, <2>6, <2>7, <2>9, <2>10 DEF NodeInv, Owns
  <2>12. ASSUME NEW n \in Nodes, n # h PROVE NodeInv(n)'
    BY <1>1, <2>3, <2>4, <2>6, <2>12, NodeSame DEF Same, IInv, NodesInv
  <2>13. NodesInv'
    BY <2>11, <2>12 DEF NodesInv
  <2>14. Acyclic'
    BY <1>1, <2>6 DEF IInv, Acyclic, Descends
  <2> QED BY <1>1, <1>2, <2>1, <2>2, <2>13, <2>14, NoLink DEF IInv, Types
<1> QED BY <1>3, <1>4

\* Two references fewer: its own and the list's.
LEMMA GetTakenIInv == ASSUME IInv, NEW t \in Threads, GetTaken(t) PROVE IInv'
<1>0. PICK h : h = thread[t].head
  OBVIOUS
<1>1. /\ In(t, "taken") /\ FetchAdd(h, -2) /\ Go(t, Idle)
      /\ held' = [held EXCEPT ![t] = @ \cup {h}]
      /\ UNCHANGED <<freeListHead, freeListNext>>
  BY <1>0 DEF GetTaken
<1>2. h \in Nodes
  BY <1>0, <1>1, Fields DEF In, IInv
<1>3. held' \in [Threads -> SUBSET Nodes] /\ held'[t] = held[t] \cup {h}
      /\ \A u \in Threads : u # t => held'[u] = held[u]
  BY <1>1, <1>2 DEF IInv, Types
<1>4. Sound(Idle) /\ Idle.pc = "idle"
  BY Made DEF Sound
<1>5. thread'[t] = Idle /\ Moves(t) /\ \A u \in Threads : u # t => \A n : Same(u, n)
  BY <1>1, <1>3, <1>4, Moved DEF Sound
<1>6. \A n : /\ Has(t, n)' <=> Has(t, n) \/ n = h
             /\ ~Took(t, n)' /\ ~Readies(t, n)' /\ ~Offers(t, n)' /\ ~Counts(t, n)'
             /\ Took(t, n) <=> n = h
             /\ Counts(t, n) <=> n = h
             /\ ~Readies(t, n) /\ ~Offers(t, n)
  BY <1>0, <1>1, <1>3, <1>4, <1>5 DEF Has, Took, Readies, Offers, Counts, In
<1>7. OnList' = OnList
  BY <1>1, OnListSame
<1>8. NodeInv(h) /\ Took(t, h)
  BY <1>2, <1>6 DEF IInv, NodesInv
<1>9. Count(h)' = Count(h) - 1 /\ Count(h) >= 1 /\ Count(h) \in Nat /\ Count(h) <= Cardinality(Threads)
  BY <1>5, <1>6, CountFewer, CountBound DEF Same
<1>10. h \notin OnList /\ freeListRefs[h] = Count(h) + 1
       /\ \A u \in Threads : u # t => ~Owns(u, h)' /\ ~Owns(u, h)
  BY <1>5, <1>8 DEF NodeInv, Owns, Same
<1>11. PICK d \in Int : d = -2
  OBVIOUS
<1>12. FetchAdd(h, d)
  BY <1>1, <1>11
<1>13. /\ freeListRefs' \in [Nodes -> Nat]
       /\ freeListRefs'[h] = freeListRefs[h] + d
       /\ \A n \in Nodes : n # h => freeListRefs'[n] = freeListRefs[n]
  BY <1>2, <1>9, <1>10, <1>11, <1>12, Added, Flag DEF IInv, Types
<1>14. freeListRefs'[h] = Count(h)'
  BY <1>9, <1>10, <1>11, <1>13
<1>15. NodeInv(h)'
  BY <1>6, <1>7, <1>10, <1>14 DEF NodeInv, Owns
<1>16. ASSUME NEW n \in Nodes, n # h PROVE NodeInv(n)'
  BY <1>5, <1>6, <1>7, <1>13, <1>16, NodeSame DEF Same, IInv, NodesInv
<1>17. NodesInv'
  BY <1>15, <1>16 DEF NodesInv
<1> QED BY <1>1, <1>3, <1>4, <1>7, <1>13, <1>17, NoLink, AcyclicSame DEF IInv, Types

\* The last reference to a node that waits makes the thread that drops it put the node back.
LEMMA GetMissedIInv == ASSUME IInv, NEW t \in Threads, GetMissed(t) PROVE IInv'
<1>0. PICK n, a : n = thread[t].prevHead /\ a = Look(thread[t].head)
  OBVIOUS
<1>1. PICK r : r = IF freeListRefs[n] = FLAG + 1 THEN [pc |-> "load", node |-> n, then |-> a] ELSE a
  OBVIOUS
<1>2. /\ In(t, "missed") /\ FetchAdd(n, -1) /\ Go(t, r)
      /\ UNCHANGED <<freeListHead, freeListNext, held>>
  BY <1>0, <1>1 DEF GetMissed, FLAG
<1>3. n \in Nodes /\ a \in After
  BY <1>0, <1>2, Fields, Made DEF In, IInv
<1>4. /\ Sound(r) /\ r \in ThreadStates /\ r.pc \in {"load", "idle", "refs"}
      /\ r.pc = "load" <=> freeListRefs[n] = FLAG + 1
      /\ r.pc = "load" => r.node = n
  BY <1>1, <1>3, Made DEF Sound
<1>5. thread'[t] = r /\ Moves(t) /\ \A u \in Threads : u # t => \A m : Same(u, m)
  BY <1>2, <1>4, Moved
<1>6. \A m : /\ Has(t, m)' <=> Has(t, m)
             /\ ~Took(t, m)' /\ ~Offers(t, m)' /\ ~Counts(t, m)'
             /\ Readies(t, m)' <=> freeListRefs[n] = FLAG + 1 /\ m = n
             /\ Counts(t, m) <=> m = n
             /\ ~Took(t, m) /\ ~Readies(t, m) /\ ~Offers(t, m)
  BY <1>0, <1>2, <1>4, <1>5, KindOf DEF Has, Took, Readies, Offers, Counts, In
<1>7. OnList' = OnList
  BY <1>2, OnListSame
<1>8. NodeInv(n)
  BY <1>3 DEF IInv, NodesInv
<1>9. Count(n)' = Count(n) - 1 /\ Count(n) >= 1 /\ Count(n) \in Nat /\ Count(n) <= Cardinality(Threads)
  BY <1>5, <1>6, CountFewer, CountBound DEF Same
<1>10. Counting(n) # {}
  BY <1>9, CountNone
<1>11. \A u \in Threads : u # t => (Owns(u, n)' <=> Owns(u, n)) /\ Same(u, n)
  BY <1>5 DEF Owns, Same
<1>12. freeListRefs[n] \in {Count(n), Count(n) + 1, FLAG + Count(n)}
       /\ \A u \in Threads : ~Readies(u, n)
  BY <1>8, <1>10 DEF NodeInv, Owns
<1>13. PICK d \in Int : d = -1
  OBVIOUS
<1>14. FetchAdd(n, d)
  BY <1>2, <1>13
<1>15. /\ freeListRefs' \in [Nodes -> Nat]
       /\ freeListRefs'[n] = freeListRefs[n] + d
       /\ \A m \in Nodes : m # n => freeListRefs'[m] = freeListRefs[m]
  BY <1>3, <1>9, <1>12, <1>13, <1>14, Added, Flag DEF IInv, Types
<1>16. Count(n)' = 0 <=> Counting(n)' = {}
  BY <1>5, <1>6, CountFewer DEF Same
<1>17. NodeInv(n)'
  <2>1. CASE freeListRefs[n] = FLAG + 1
    <3>1. Count(n) = 1 /\ n \notin OnList /\ \A u \in Threads : ~Owns(u, n)
      BY <1>8, <1>9, <1>10, <2>1, Flag DEF NodeInv, Owns
    <3>2. Counting(n)' = {} /\ freeListRefs'[n] = FLAG
      BY <1>9, <1>13, <1>15, <1>16, <2>1, <3>1, Flag
    <3> QED BY <1>6, <1>7, <1>11, <2>1, <3>1, <3>2 DEF NodeInv, Owns
  <2>2. CASE freeListRefs[n] # FLAG + 1
    <3>1. \A u \in Threads :
            /\ Has(u, n)' <=> Has(u, n)
            /\ Took(u, n)' <=> Took(u, n)
            /\ Readies(u, n)' <=> Readies(u, n)
            /\ Offers(u, n)' <=> Offers(u, n)
            /\ Owns(u, n)' <=> Owns(u, n)
      BY <1>6, <1>11, <2>2 DEF Owns, Same
    <3>2. freeListRefs'[n] = freeListRefs[n] - 1
      BY <1>3, <1>13, <1>15 DEF IInv, Types
    <3> QED BY <1>7, <1>8, <1>9, <1>12, <1>16, <2>2, <3>1, <3>2, Flag DEF NodeInv
  <2> QED BY <2>1, <2>2
<1>18. ASSUME NEW m \in Nodes, m # n PROVE NodeInv(m)'
  BY <1>5, <1>6, <1>7, <1>15, <1>18, NodeSame DEF Same, IInv, NodesInv
<1>19. NodesInv'
  BY <1>17, <1>18 DEF NodesInv
<1> QED BY <1>2, <1>4, <1>7, <1>15, <1>19, NoLink, AcyclicSame DEF IInv, Types

-----------------------------------------------------------------------------
LEMMA NextIInv == IInv /\ [Next]_vars => IInv'
<1> SUFFICES ASSUME IInv, [Next]_vars PROVE IInv'
  OBVIOUS
<1>1. CASE UNCHANGED vars
  <2>1. OnList' = OnList
    BY <1>1, OnListSame DEF vars
  <2>2. \A n \in Nodes, t \in Threads : Same(t, n)
    BY <1>1, OthersSame DEF vars, Same
  <2>3. NodesInv'
    <3>1. \A n \in Nodes : Counting(n)' = Counting(n) /\ Count(n)' = Count(n)
      BY <2>2, CountSame DEF Same
    <3>2. \A n \in Nodes, t \in Threads : Owns(t, n)' <=> Owns(t, n)
      BY <2>2 DEF Same, Owns
    <3> QED BY <1>1, <2>1, <2>2, <3>1, <3>2 DEF vars, IInv, NodesInv, NodeInv, Same
  <2>4. Types' /\ SawCounted' /\ NextKept' /\ Linked'
    BY <1>1 DEF vars, IInv, Types, SawCounted, NextKept, Linked, In
  <2> QED BY <1>1, <2>1, <2>3, <2>4, AcyclicSame DEF vars, IInv
<1>2. ASSUME NEW t \in Threads, Step(t) PROVE IInv'
  BY <1>2, AddIInv, PushLoadIInv, PushLinkIInv, PushStoreIInv, PushSwapIInv, PushFailedIInv,
     GetLoadIInv, GetRefsIInv, GetRefIInv, GetNextIInv, GetTakeIInv, GetTakenIInv, GetMissedIInv
     DEF Step
<1> QED BY <1>1, <1>2 DEF Next

LEMMA IInvNotShared == IInv => NotShared
<1> SUFFICES ASSUME IInv PROVE NotShared
  OBVIOUS
<1>1. NextStable
  BY DEF IInv, NextKept, NextStable
<1>2. TakenUnmarked
  <2>1. ASSUME NEW t \in Threads, In(t, "taken")
        PROVE  freeListRefs[thread[t].head] < FLAG
    <3>1. thread[t].head \in Nodes
      BY <2>1, Fields DEF IInv, In
    <3> QED BY <2>1, <3>1, CountBound, Flag DEF IInv, NodesInv, NodeInv, Took
  <2> QED BY <2>1 DEF TakenUnmarked, FLAG
<1>3. ASSUME NEW n \in Nodes
      PROVE  /\ Cardinality(Having(n)) + Cardinality(Putting(n)) <= 1
             /\ n \in OnList => Having(n) = {} /\ Putting(n) = {}
  <2>1. /\ Having(n) = {t \in Threads : Has(t, n) \/ Took(t, n)}
        /\ Putting(n) = {t \in Threads : Readies(t, n) \/ Offers(t, n)}
    BY DEF Having, Putting, Has, Took, Readies, Offers
  <2>2. NodeInv(n)
    BY DEF IInv, NodesInv
  <2>3. \A t \in Having(n) \cup Putting(n), u \in Having(n) \cup Putting(n) : t = u
    BY <2>1, <2>2 DEF NodeInv, Owns
  <2>4. Having(n) \cap Putting(n) = {}
    BY <2>1, <2>2 DEF NodeInv, Took, Readies, Offers, In
  <2>5. \/ Having(n) = {} /\ Putting(n) = {}
        \/ \E t : Having(n) = {t} /\ Putting(n) = {}
        \/ \E t : Having(n) = {} /\ Putting(n) = {t}
    BY <2>3, <2>4
  <2>6. Cardinality(Having(n)) + Cardinality(Putting(n)) <= 1
    <3>1. /\ Cardinality(Having(n)) = 0 \/ Cardinality(Having(n)) = 1
          /\ Cardinality(Putting(n)) = 0 \/ Cardinality(Putting(n)) = 1
          /\ Cardinality(Having(n)) = 0 \/ Cardinality(Putting(n)) = 0
      BY <2>5, FS_EmptySet, FS_Singleton
    <3> QED BY <3>1
  <2> QED BY <2>1, <2>2, <2>6 DEF NodeInv, Owns
<1> QED BY <1>1, <1>2, <1>3 DEF NotShared

LEMMA IInvNoneLost == IInv => NoneLost
<1> SUFFICES ASSUME IInv, NEW n \in Nodes, n \notin OnList, Having(n) = {}, Putting(n) = {}
             PROVE  /\ freeListRefs[n] > FLAG
                    /\ \E t \in Threads : \/ thread[t].pc \in {"next", "take"} /\ thread[t].head = n
                                          \/ In(t, "missed") /\ thread[t].prevHead = n
  BY DEF NoneLost, FLAG
<1>1. \A t \in Threads : ~Owns(t, n) /\ ~Took(t, n)
  BY DEF Having, Putting, Owns, Has, Took, Readies, Offers
<1>2. freeListRefs[n] = FLAG + Count(n) /\ Counting(n) # {}
  BY <1>1 DEF IInv, NodesInv, NodeInv
<1>3. freeListRefs[n] > FLAG
  BY <1>2, CountBound, CountNone, Flag
<1> QED BY <1>1, <1>2, <1>3 DEF Counting, Counts, Took, In

LEMMA AlwaysIInv == Spec => []IInv
  BY InitIInv, NextIInv, PTL DEF Spec

\* A node is handed to one thread at a time, never while it is on the list, and the head is
\* swapped for a node that is still next (concurrentqueue.h:1393-1405).
THEOREM FreeListNotShared == Spec => []NotShared
  BY AlwaysIInv, IInvNotShared, PTL

\* A node nobody has and that is not on the list is flagged, and a thread with a reference to
\* it is still to come (concurrentqueue.h:1372-1377, 1411-1414).
THEOREM FreeListNoneLost == Spec => []NoneLost
  BY AlwaysIInv, IInvNoneLost, PTL
=============================================================================
