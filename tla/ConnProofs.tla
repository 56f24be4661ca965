----------------------------- MODULE ConnProofs -----------------------------
(***************************************************************************)
(* Module Conn, for every number of connections, workers, threads and ids: *)
(* what cmap_, pmap_ and connections_ find is alive (MapsLive), and a newer *)
(* connection keeps the id it took over (NewerSurvives).                    *)
(*                                                                         *)
(* The argument follows the answer to a deferred login.  It is in one place *)
(* only: pmap_, an application thread between FinishLogin and its task, or *)
(* the tasks of the connection.  So a connection enters cmap_ once, with an *)
(* id it did not have before.                                               *)
(***************************************************************************)
EXTENDS Conn, SequenceTheorems, TLAPS
LOCAL INSTANCE SequencesExt

---------------------------------------------------------------------------
(* The inductive invariant *)

Statuses == {"none", "ACCEPT", "LOGIN", "WAIT_LOGIN", "READ", "CLOSE", "deleted"}

ConnRecords ==
    [status : Statuses, cid : Ids, lcid : BOOLEAN, ops : SUBSET {"accept", "read", "finish"},
     closers : Int, finishes : Int, lateRead : BOOLEAN, closed : Int]

Tasks == [by : Threads, kind : {"login", "close", "normal"}, id : Ids]

\* Where a worker has a connection in hand, and an index into connections_.
Busy == {"consume", "destroy", "finalize"}
Scanning == Busy \cup {"loop", "final"}

WorkerRecords ==
    [at : Scanning \cup {"unlaunched", "new", "poll", "done"}, c : Conns \cup {NoConn},
     i : Nat, n : Int, ret : {"loop", "final"}]

AppRecords ==
    [at : {"idle", "node", "dangling", "handle", "login"}, c : Conns \cup {NoConn},
     key : Ids, op : {"none", "close", "task"}]

Types ==
    /\ conn \in [Conns -> ConnRecords]
    /\ tasks \in [Conns -> Seq(Tasks)]
    /\ connections \in [Workers -> Seq(Conns)]
    /\ wpc \in [Workers -> WorkerRecords]
    /\ cmap \in [Ids -> Conns \cup {NoConn}]
    /\ pmap \in SUBSET Conns
    /\ app \in [Threads -> AppRecords]

\* The places in which the answer to the deferred login of c can be.
Answers(t, c) == app[t].at = "login" /\ app[t].c = c
AnswerTask(c, j) == j \in 1..Len(tasks[c]) /\ tasks[c][j].kind = "login"
Answered(c) == \E j \in Nat : AnswerTask(c, j)

Pending(c) == c \in pmap \/ (\E t \in Threads : Answers(t, c)) \/ Answered(c)

Mapped(c) == \E k \in Ids : cmap[k] = c

\* A connection nothing refers to yet.
Fresh(c) == ~Mapped(c) /\ ~Pending(c) /\ \A w \in Workers : ~Listed(c, connections[w])

Early(c) == conn[c].status \in {"none", "ACCEPT", "LOGIN"}

FreshInv == \A c \in Conns : Early(c) => Fresh(c)

\* The tag of an accept belongs to a connection that waits for its call.
OpsOf(r) ==
    /\ r.status = "none" => r.ops = {}
    /\ r.status = "ACCEPT" => r.ops = {"accept"}
    /\ "accept" \in r.ops => r.status = "ACCEPT"

OpsInv == \A c \in Conns : OpsOf(conn[c])

OneTask(c) == \A i, j \in Nat : AnswerTask(c, i) /\ AnswerTask(c, j) => i = j

OnePlace ==
    \A c \in Conns :
        /\ OneTask(c)
        /\ c \in pmap => ~Answered(c) /\ \A t \in Threads : ~Answers(t, c)
        /\ \A t, u \in Threads : Answers(t, c) => ~Answered(c) /\ (Answers(u, c) => t = u)

PendingInv == \A c \in Conns : Pending(c) => conn[c].lcid /\ ~Mapped(c)

MapInv == \A k \in Ids : cmap[k] # NoConn => conn[cmap[k]].cid = k /\ Live(cmap[k])

PmapInv == \A c \in pmap : Live(c)

Once(s) == \A i, j \in 1..Len(s) : s[i] = s[j] => i = j

ListInv ==
    \A w \in Workers :
        /\ Once(connections[w])
        /\ \A c \in Conns : Listed(c, connections[w]) => Live(c) /\ WorkerOf[c] = w

\* A worker whose thread has not begun has no connection yet, and the one a
\* worker has in hand is its own.
WorkerOK(w) ==
    /\ wpc[w].at \in Scanning => wpc[w].i >= 1
    /\ wpc[w].at \in Busy => /\ wpc[w].c \in Conns /\ WorkerOf[wpc[w].c] = w
                             /\ conn[wpc[w].c].status \notin {"none", "ACCEPT"}
    /\ wpc[w].at \in {"unlaunched", "new"} =>
           \A c \in Conns : WorkerOf[c] = w => conn[c].status = "none"

WorkerInv == \A w \in Workers : WorkerOK(w)

\* The answer an application thread holds is for a connection.
AppInv == \A t \in Threads : app[t].at = "login" => app[t].c \in Conns

IInv ==
    /\ Types /\ FreshInv /\ OpsInv /\ OnePlace /\ PendingInv
    /\ MapInv /\ PmapInv /\ ListInv /\ WorkerInv /\ AppInv

---------------------------------------------------------------------------
(* Sequences *)

\* What try_dequeue leaves of a queue.
LEMMA DequeueProperties ==
    ASSUME NEW S, NEW q \in Seq(S), NEW j \in 1..Len(q)
    PROVE  /\ Dequeue(q, j) \in Seq(S) /\ Len(Dequeue(q, j)) = Len(q) - 1
           /\ \A i \in 1..(Len(q) - 1) : Dequeue(q, j)[i] = IF i < j THEN q[i] ELSE q[i + 1]
<1>1. Len(q) \in Nat
  BY LenProperties
<1> DEFINE s == SubSeq(q, 1, j - 1)
           t == SubSeq(q, j + 1, Len(q))
<1>2. s \in Seq(S) /\ Len(s) = j - 1 /\ \A i \in 1..(j - 1) : s[i] = q[i]
  BY <1>1, SubSeqProperties
<1>3. t \in Seq(S) /\ Len(t) = Len(q) - j /\ \A i \in 1..(Len(q) - j) : t[i] = q[j + i]
  BY <1>1, SubSeqProperties
<1>4. Dequeue(q, j) = s \o t
  BY DEF Dequeue, RemoveAt
<1> HIDE DEF s, t
<1>5. /\ s \o t \in Seq(S) /\ Len(s \o t) = Len(q) - 1
      /\ \A i \in 1..(Len(q) - 1) : (s \o t)[i] = IF i <= j - 1 THEN s[i] ELSE t[i - (j - 1)]
  <2>1. /\ s \o t \in Seq(S) /\ Len(s \o t) = Len(s) + Len(t)
        /\ \A i \in 1..(Len(s) + Len(t)) : (s \o t)[i] = IF i <= Len(s) THEN s[i] ELSE t[i - Len(s)]
    BY <1>2, <1>3, ConcatProperties
  <2>2. Len(s) + Len(t) = Len(q) - 1
    BY <1>1, <1>2, <1>3
  <2> QED BY <1>2, <2>1, <2>2
<1>6. ASSUME NEW i \in 1..(Len(q) - 1)
      PROVE  (s \o t)[i] = IF i < j THEN q[i] ELSE q[i + 1]
  <2>1. CASE i < j
    BY <1>1, <1>2, <1>5, <2>1
  <2>2. CASE ~(i < j)
    <3>1. i - (j - 1) \in 1..(Len(q) - j) /\ j + (i - (j - 1)) = i + 1
      BY <1>1, <2>2
    <3> QED BY <1>1, <1>3, <1>5, <2>2, <3>1
  <2> QED BY <2>1, <2>2
<1> QED BY <1>4, <1>5, <1>6

\* push_back of an element that is not there.
LEMMA AppendListed ==
    ASSUME NEW S, NEW s \in Seq(S), NEW c \in S, Once(s), ~Listed(c, s)
    PROVE  /\ Append(s, c) \in Seq(S) /\ Once(Append(s, c))
           /\ \A d : Listed(d, Append(s, c)) => Listed(d, s) \/ d = c
<1>1. /\ Len(s) \in Nat /\ Append(s, c) \in Seq(S) /\ Len(Append(s, c)) = Len(s) + 1
      /\ Append(s, c)[Len(s) + 1] = c
      /\ \A i \in 1..Len(s) : Append(s, c)[i] = s[i]
  BY LenProperties, AppendProperties
<1>2. Once(Append(s, c))
  <2>1. ASSUME NEW i \in 1..(Len(s) + 1), NEW j \in 1..(Len(s) + 1),
               Append(s, c)[i] = Append(s, c)[j]
        PROVE  i = j
    BY <1>1, <2>1 DEF Once, Listed
  <2> QED BY <1>1, <2>1 DEF Once
<1>3. ASSUME NEW d, Listed(d, Append(s, c)) PROVE Listed(d, s) \/ d = c
  BY <1>1, <1>3 DEF Listed
<1> QED BY <1>1, <1>2, <1>3

\* std::find and erase: c is gone, the others stay, each once.
LEMMA WithoutProperties ==
    ASSUME NEW S, NEW s \in Seq(S), NEW c, Once(s)
    PROVE  /\ Without(s, c) \in Seq(S) /\ Once(Without(s, c))
           /\ \A d : Listed(d, Without(s, c)) => Listed(d, s) /\ d # c
<1>1. CASE ~Listed(c, s)
  BY <1>1 DEF Without, Listed
<1>2. CASE Listed(c, s)
  <2> DEFINE i == CHOOSE k \in 1..Len(s) : s[k] = c
             r == Without(s, c)
  <2>1. i \in 1..Len(s) /\ s[i] = c
    BY <1>2 DEF Listed
  <2>2. r = Dequeue(s, i)
    BY <1>2 DEF Without, Dequeue, RemoveAt
  <2> HIDE DEF i, r
  <2>3. /\ Len(s) \in Nat /\ r \in Seq(S) /\ Len(r) = Len(s) - 1
        /\ \A k \in 1..(Len(s) - 1) : r[k] = IF k < i THEN s[k] ELSE s[k + 1]
    BY <2>1, <2>2, DequeueProperties, LenProperties
  <2>4. ASSUME NEW k \in 1..Len(r), NEW l \in 1..Len(r), r[k] = r[l] PROVE k = l
    BY <2>1, <2>3, <2>4 DEF Once
  <2>5. ASSUME NEW d, Listed(d, r) PROVE Listed(d, s) /\ d # c
    <3>1. PICK k \in 1..Len(r) : r[k] = d
      BY <2>5 DEF Listed
    <3>2. CASE k < i
      BY <2>1, <2>3, <3>1, <3>2 DEF Once, Listed
    <3>3. CASE ~(k < i)
      <4>1. k + 1 \in 1..Len(s) /\ s[k + 1] = d /\ k + 1 # i
        BY <2>1, <2>3, <3>1, <3>3
      <4> QED BY <2>1, <4>1 DEF Once, Listed
    <3> QED BY <3>2, <3>3
  <2> QED BY <2>3, <2>4, <2>5 DEF Once, r
<1> QED BY <1>1, <1>2

---------------------------------------------------------------------------
(* The records of a connection *)

\* A call of a Conn into its stream leaves its ids alone.
Keeps(s, r) == s \in ConnRecords /\ s.cid = r.cid /\ s.lcid = r.lcid

\* What these calls do to the record.
LEMMA RecordOps ==
    ASSUME NEW r \in ConnRecords
    PROVE  /\ Keeps(Waiting(r), r) /\ Waiting(r).status = "ACCEPT" /\ Waiting(r).ops = {"accept"}
           /\ Keeps(Recv(r), r) /\ Recv(r).status = r.status /\ Recv(r).ops = r.ops \cup {"read"}
           /\ Keeps(Finish(r), r) /\ Finish(r).status = "CLOSE" /\ Finish(r).ops = r.ops \cup {"finish"}
           /\ Keeps(FinishByTask(r), r) /\ FinishByTask(r).status = "CLOSE" /\ FinishByTask(r).ops = r.ops
           /\ Keeps(InternalClose(r), r) /\ InternalClose(r).status = "CLOSE" /\ InternalClose(r).ops = r.ops
           /\ Keeps(Closed(r), r) /\ Closed(r).status = "deleted" /\ Closed(r).ops = r.ops
<1>1. r.closers + 1 \in Int /\ r.finishes + 1 \in Int /\ r.closed + 1 \in Int
  BY DEF ConnRecords
<1>2. Keeps(Waiting(r), r) /\ Waiting(r).status = "ACCEPT" /\ Waiting(r).ops = {"accept"}
  BY DEF Keeps, Waiting, ConnRecords, Statuses
<1>3. Keeps(Recv(r), r) /\ Recv(r).status = r.status /\ Recv(r).ops = r.ops \cup {"read"}
  <2>1. (r.lateRead \/ r.finishes > 0) \in BOOLEAN
    OBVIOUS
  <2> QED BY <2>1 DEF Keeps, Recv, ConnRecords
<1>4. Keeps(Finish(r), r) /\ Finish(r).status = "CLOSE" /\ Finish(r).ops = r.ops \cup {"finish"}
  BY <1>1 DEF Keeps, Finish, ConnRecords, Statuses
<1>5. Keeps(FinishByTask(r), r) /\ FinishByTask(r).status = "CLOSE" /\ FinishByTask(r).ops = r.ops
  BY <1>1 DEF Keeps, FinishByTask, ConnRecords, Statuses
<1>6. Keeps(InternalClose(r), r) /\ InternalClose(r).status = "CLOSE" /\ InternalClose(r).ops = r.ops
  BY DEF Keeps, InternalClose, ConnRecords, Statuses
<1>7. Keeps(Closed(r), r) /\ Closed(r).status = "deleted" /\ Closed(r).ops = r.ops
  BY <1>1 DEF Keeps, Closed, ConnRecords, Statuses
<1> QED BY <1>2, <1>3, <1>4, <1>5, <1>6, <1>7

\* Register gives the connection its id, and the next read.
LEMMA RegisteredProperties ==
    ASSUME NEW r \in ConnRecords, NEW id \in Ids
    PROVE  /\ Registered(r, id) \in ConnRecords /\ Registered(r, id).status = "READ"
           /\ Registered(r, id).ops = r.ops \cup {"read"}
           /\ Registered(r, id).cid = id /\ Registered(r, id).lcid = FALSE
<1> DEFINE q == [r EXCEPT !.cid = id, !.lcid = FALSE, !.status = "READ"]
<1>1. q \in ConnRecords /\ q.status = "READ" /\ q.ops = r.ops /\ q.cid = id /\ q.lcid = FALSE
  BY DEF ConnRecords, Statuses
<1>2. Registered(r, id) = Recv(q)
  BY DEF Registered
<1> HIDE DEF q
<1> QED BY <1>1, <1>2, RecordOps DEF Keeps

\* Without the tag of an accept, and in use, a record satisfies OpsOf.
InUse(r) == r.status \notin {"none", "ACCEPT"} /\ "accept" \notin r.ops

\* It stays in use when it is read from, closed or finished.
LEMMA InUseOps ==
    ASSUME NEW r \in ConnRecords, InUse(r)
    PROVE  /\ OpsOf(r) /\ InUse(Recv(r)) /\ InUse(Finish(r)) /\ InUse(FinishByTask(r))
           /\ InUse(InternalClose(r)) /\ InUse(Closed(r))
BY RecordOps DEF InUse, OpsOf

\* The completion of an operation takes its tag away and nothing else.
LEMMA PoppedProperties ==
    ASSUME Types, NEW c \in Conns, NEW tag
    PROVE  /\ Keeps(Popped(c, tag), conn[c]) /\ Popped(c, tag).status = conn[c].status
           /\ Popped(c, tag).ops = conn[c].ops \ {tag}
BY DEF Types, Keeps, Popped, ConnRecords

---------------------------------------------------------------------------
(* Steps that only lose references *)

\* What refers to a connection.
Referred(c) == Mapped(c) \/ c \in pmap \/ \E w \in Workers : Listed(c, connections[w])

\* What is referred to is alive, and not fresh.
LEMMA ReferredLive ==
    ASSUME IInv, NEW c \in Conns
    PROVE  (Referred(c) => Live(c)) /\ (Fresh(c) => ~Referred(c))
<1>1. Mapped(c) => Live(c)
  BY NoConnAssumption DEF IInv, MapInv, Mapped
<1>2. c \in pmap => Live(c)
  BY DEF IInv, PmapInv
<1>3. (\E w \in Workers : Listed(c, connections[w])) => Live(c)
  BY DEF IInv, ListInv
<1>4. Fresh(c) => ~Referred(c)
  BY DEF Fresh, Referred, Pending
<1> QED BY <1>1, <1>2, <1>3, <1>4 DEF Referred

\* A step that adds no reference, keeps the ids of every connection and leaves
\* alive what is still referred to keeps the invariant.
LEMMA ShrinksIInv ==
    ASSUME IInv, Types', WorkerInv', OpsInv',
           \A c \in Conns : conn'[c].cid = conn[c].cid /\ conn'[c].lcid = conn[c].lcid,
           \A c \in Conns : Early(c)' => Fresh(c),
           \A c \in Conns : OneTask(c)' /\ (Answered(c)' => Answered(c)),
           \A c \in Conns : Referred(c)' => Live(c)',
           pmap' \subseteq pmap,
           \A t \in Threads : app'[t].at = "login" => app[t].at = "login" /\ app'[t].c = app[t].c,
           \A k \in Ids : cmap'[k] = cmap[k] \/ cmap'[k] = NoConn,
           \A w \in Workers : Once(connections'[w]),
           \A w \in Workers, c \in Conns : Listed(c, connections'[w]) => Listed(c, connections[w])
    PROVE  IInv'
<1>1. ASSUME NEW c \in Conns
      PROVE  /\ Mapped(c)' => Mapped(c)
             /\ \A t \in Threads : Answers(t, c)' => Answers(t, c)
             /\ Answered(c)' => Answered(c)
             /\ Pending(c)' => Pending(c)
             /\ Fresh(c) => Fresh(c)'
  <2>1. Mapped(c)' => Mapped(c)
    BY NoConnAssumption DEF Mapped
  <2>2. \A t \in Threads : Answers(t, c)' => Answers(t, c)
    BY DEF Answers
  <2>3. Pending(c)' => Pending(c)
    BY <2>2 DEF Pending
  <2>4. Fresh(c) => Fresh(c)'
    BY <2>1, <2>3 DEF Fresh
  <2> QED BY <2>1, <2>2, <2>3, <2>4
<1>2. FreshInv'
  BY <1>1 DEF FreshInv
<1>3. OnePlace'
  <2>1. ASSUME NEW c \in Conns
        PROVE  (/\ OneTask(c)
                /\ c \in pmap => ~Answered(c) /\ \A t \in Threads : ~Answers(t, c)
                /\ \A t, u \in Threads : Answers(t, c) => ~Answered(c) /\ (Answers(u, c) => t = u))'
    BY <1>1 DEF IInv, OnePlace
  <2> QED BY <2>1 DEF OnePlace
<1>4. PendingInv'
  BY <1>1 DEF IInv, PendingInv
<1>5. MapInv'
  <2>1. ASSUME NEW k \in Ids, cmap'[k] # NoConn
        PROVE  conn'[cmap'[k]].cid = k /\ Live(cmap[k])'
    <3>1. cmap'[k] = cmap[k] /\ cmap[k] \in Conns
      BY <2>1 DEF IInv, Types
    <3>2. conn'[cmap[k]].cid = k
      BY <2>1, <3>1 DEF IInv, MapInv
    <3>3. ASSUME NEW c \in Conns, c = cmap[k] PROVE Live(c)'
      BY <3>1, <3>3 DEF Referred, Mapped
    <3> QED BY <3>1, <3>2, <3>3 DEF Live
  <2> QED BY <2>1 DEF MapInv, Live
<1>6. PmapInv'
  BY DEF PmapInv, Referred, IInv, Types
<1>7. ListInv'
  BY DEF ListInv, Referred, IInv
<1>8. AppInv'
  BY DEF IInv, AppInv
<1> QED BY <1>2, <1>3, <1>4, <1>5, <1>6, <1>7, <1>8 DEF IInv

---------------------------------------------------------------------------
(* The worker threads *)

\* A step of one worker that changes the status of its own connections only.
LEMMA WorkerStep ==
    ASSUME Types, WorkerInv, NEW w \in Workers, WorkerOK(w)',
           \A v \in Workers : v # w => wpc'[v] = wpc[v],
           \A c \in Conns : WorkerOf[c] # w => conn'[c].status = conn[c].status
    PROVE  WorkerInv'
<1>1. ASSUME NEW v \in Workers, v # w PROVE WorkerOK(v)'
  <2>1. WorkerOK(v) /\ wpc'[v] = wpc[v]
    BY <1>1 DEF WorkerInv
  <2> QED BY <1>1, <2>1 DEF WorkerOK
<1> QED BY <1>1 DEF WorkerInv

\* The records of a worker that polls, and of one in its loop.
LEMMA PollProperties ==
    /\ Poll \in WorkerRecords /\ Poll.at = "poll"
    /\ \A i \in Nat, at \in {"loop", "final"} :
          LET x == [Poll EXCEPT !.at = at, !.i = i] IN
          x \in WorkerRecords /\ x.at = at /\ x.i = i
<1>1. Poll \in WorkerRecords /\ Poll.at = "poll"
  BY DEF Poll, WorkerRecords, Scanning, Busy
<1>2. ASSUME NEW i \in Nat, NEW at \in {"loop", "final"}
      PROVE  LET x == [Poll EXCEPT !.at = at, !.i = i] IN x \in WorkerRecords /\ x.at = at /\ x.i = i
  BY <1>1 DEF WorkerRecords, Scanning, Busy
<1> QED BY <1>1, <1>2

\* After an event a worker polls or begins its loop at the first connection.
LEMMA AfterEventOK ==
    ASSUME Types, WorkerInv, NEW w \in Workers, AfterEvent(w),
           \A c \in Conns : WorkerOf[c] # w => conn'[c].status = conn[c].status
    PROVE  wpc' \in [Workers -> WorkerRecords] /\ WorkerInv'
<1> DEFINE loop == [Poll EXCEPT !.at = "loop", !.i = 1]
<1>1. Poll \in WorkerRecords /\ Poll.at = "poll" /\ loop \in WorkerRecords /\ loop.at = "loop" /\ loop.i = 1
  BY PollProperties
<1>2. wpc' = [wpc EXCEPT ![w] = Poll] \/ wpc' = [wpc EXCEPT ![w] = loop]
  BY DEF AfterEvent
<1> HIDE DEF loop
<1>3. wpc' \in [Workers -> WorkerRecords]
  BY <1>1, <1>2 DEF Types
<1>4. wpc'[w].at \in {"poll", "loop"} /\ (wpc'[w].at = "loop" => wpc'[w].i = 1)
  BY <1>1, <1>2 DEF Types
<1>5. \A v \in Workers : v # w => wpc'[v] = wpc[v]
  BY <1>2 DEF Types
<1>6. WorkerOK(w)'
  BY <1>4 DEF WorkerOK, Scanning, Busy
<1> QED BY <1>3, <1>5, <1>6, WorkerStep

\* A step that leaves every task where it is, or takes it away.
NoNewTask ==
    /\ tasks' \in [Conns -> Seq(Tasks)]
    /\ \A c \in Conns : OneTask(c)' /\ (Answered(c)' => Answered(c))

\* One that does not touch the tasks is such a step.
LEMMA SameTasks ==
    ASSUME IInv, UNCHANGED tasks
    PROVE  NoNewTask
BY DEF NoNewTask, IInv, Types, OnePlace, OneTask, Answered, AnswerTask

\* A step that changes the record of one connection, nothing that refers to a
\* connection, and neither its ids nor, if it is in use, that it is alive.
LEMMA OneConnIInv ==
    ASSUME IInv, NEW c \in Conns, NEW r,
           conn' = [conn EXCEPT ![c] = r],
           Keeps(r, conn[c]), OpsOf(r),
           \/ r.status = conn[c].status
           \/ r.status \in {"WAIT_LOGIN", "READ", "CLOSE"}
           \/ Fresh(c),
           UNCHANGED <<connections, cmap, pmap, app>>, NoNewTask,
           wpc' \in [Workers -> WorkerRecords], WorkerInv'
    PROVE  IInv'
<1>1. conn'[c] = r /\ \A d \in Conns : d # c => conn'[d] = conn[d]
  BY DEF IInv, Types
<1>2. Types' /\ OpsInv'
  BY <1>1 DEF IInv, Types, OpsInv, Keeps, NoNewTask
<1>3. ASSUME NEW d \in Conns
      PROVE  /\ conn'[d].cid = conn[d].cid /\ conn'[d].lcid = conn[d].lcid
             /\ Early(d)' => Fresh(d)
             /\ Referred(d)' => Live(d)'
  <2>1. conn'[d].cid = conn[d].cid /\ conn'[d].lcid = conn[d].lcid
    BY <1>1 DEF Keeps
  <2>2. Early(d)' => Fresh(d)
    BY <1>1 DEF IInv, FreshInv, Early
  <2>3. Referred(d)' <=> Referred(d)
    BY DEF Referred, Mapped
  <2>4. (Referred(d) => Live(d)) /\ (Fresh(d) => ~Referred(d))
    BY ReferredLive
  <2>5. Referred(d) => Live(d)'
    BY <1>1, <2>4 DEF Live
  <2> QED BY <2>1, <2>2, <2>3, <2>5
<1>4. \A d \in Conns : OneTask(d)' /\ (Answered(d)' => Answered(d))
  BY DEF NoNewTask
<1>5. \A w \in Workers : Once(connections'[w])
  BY DEF IInv, ListInv
<1> QED BY <1>2, <1>3, <1>4, <1>5, ShrinksIInv

\* A step that changes no connection and nothing that refers to one, and lets
\* application threads keep or drop what they have.
LEMMA ElsewhereIInv ==
    ASSUME IInv, UNCHANGED <<conn, connections, cmap, pmap>>, NoNewTask,
           wpc' \in [Workers -> WorkerRecords], WorkerInv',
           app' \in [Threads -> AppRecords],
           \A t \in Threads : app'[t].at = "login" => app[t].at = "login" /\ app'[t].c = app[t].c
    PROVE  IInv'
<1>1. Types' /\ OpsInv'
  BY DEF IInv, Types, OpsInv, NoNewTask
<1>2. ASSUME NEW d \in Conns
      PROVE  (Early(d)' => Fresh(d)) /\ (Referred(d)' => Live(d)')
  <2>1. Referred(d) => Live(d)
    BY ReferredLive
  <2> QED BY <2>1 DEF IInv, FreshInv, Early, Referred, Mapped, Live
<1>3. \A d \in Conns : OneTask(d)' /\ (Answered(d)' => Answered(d))
  BY DEF NoNewTask
<1>4. \A w \in Workers : Once(connections'[w])
  BY DEF IInv, ListInv
<1> QED BY <1>1, <1>2, <1>3, <1>4, ShrinksIInv

---------------------------------------------------------------------------
(* Events *)

\* The connection whose event a worker takes, if it is not an accept.
LEMMA EventFacts ==
    ASSUME IInv, NEW c \in Conns, NEW tag \in {"read", "finish"}, Event(c, tag)
    PROVE  /\ WorkerOf[c] \in Workers /\ wpc[WorkerOf[c]].at = "poll"
           /\ InUse(Popped(c, tag)) /\ Keeps(Popped(c, tag), conn[c])
           /\ Popped(c, tag).status = conn[c].status
BY WorkerOfAssumption, PoppedProperties DEF InUse, IInv, Types, OpsInv, OpsOf, Event

\* An event that ends with the connection in the given record.
LEMMA EventIInv ==
    ASSUME IInv, NEW c \in Conns, NEW r,
           conn' = [conn EXCEPT ![c] = r],
           Keeps(r, conn[c]), OpsOf(r),
           r.status = conn[c].status \/ r.status = "CLOSE" \/ Fresh(c),
           UNCHANGED <<tasks, connections, cmap, pmap, app>>,
           AfterEvent(WorkerOf[c])
    PROVE  IInv'
<1>1. WorkerOf[c] \in Workers
  BY WorkerOfAssumption
<1>2. \A d \in Conns : WorkerOf[d] # WorkerOf[c] => conn'[d].status = conn[d].status
  BY DEF IInv, Types
<1>3. wpc' \in [Workers -> WorkerRecords] /\ WorkerInv'
  BY <1>1, <1>2, AfterEventOK DEF IInv
<1> QED BY <1>3, OneConnIInv, SameTasks

\* The client asks to close; the acceptor refuses; a request is handled; a
\* closer is done.
LEMMA SimpleEventsIInv ==
    ASSUME IInv, NEW c \in Conns,
           \/ StepClientClose(c) \/ StepRefuse(c) \/ CloserDone(c)
           \/ \E tag \in {"read", "finish"} : StepHandle(c, tag) \/ StepHandleClose(c, tag)
    PROVE  IInv'
<1>1. ASSUME NEW tag \in {"read", "finish"}, Event(c, tag)
      PROVE  LET p == Popped(c, tag) IN
             /\ InUse(p) /\ Keeps(p, conn[c]) /\ p.status = conn[c].status
             /\ OpsOf(Finish(p)) /\ Keeps(Finish(p), conn[c]) /\ Finish(p).status = "CLOSE"
             /\ OpsOf(Recv(p)) /\ Keeps(Recv(p), conn[c]) /\ Recv(p).status = conn[c].status
             /\ OpsOf(Finish(InternalClose(p))) /\ Keeps(Finish(InternalClose(p)), conn[c])
             /\ Finish(InternalClose(p)).status = "CLOSE"
  <2> DEFINE p == Popped(c, tag)
  <2>1. InUse(p) /\ Keeps(p, conn[c]) /\ p.status = conn[c].status
    BY <1>1, EventFacts
  <2> HIDE DEF p
  <2>2. /\ OpsOf(Finish(p)) /\ Keeps(Finish(p), p) /\ Finish(p).status = "CLOSE"
        /\ OpsOf(Recv(p)) /\ Keeps(Recv(p), p) /\ Recv(p).status = p.status
        /\ InUse(InternalClose(p)) /\ Keeps(InternalClose(p), p)
    BY <2>1, RecordOps, InUseOps DEF Keeps
  <2>3. LET q == InternalClose(p) IN OpsOf(Finish(q)) /\ Keeps(Finish(q), q) /\ Finish(q).status = "CLOSE"
    BY <2>2, RecordOps, InUseOps DEF Keeps
  <2> QED BY <2>1, <2>2, <2>3 DEF Keeps, p
<1>4. CASE StepClientClose(c)
  BY <1>1, <1>4, EventIInv DEF StepClientClose, Message
<1>5. CASE StepRefuse(c)
  BY <1>1, <1>5, EventIInv DEF StepRefuse, Message
<1>6. ASSUME NEW tag \in {"read", "finish"}, StepHandle(c, tag) PROVE IInv'
  <2>1. Event(c, tag) /\ UNCHANGED <<tasks, connections, cmap, pmap, app>> /\ AfterEvent(WorkerOf[c])
    BY <1>6 DEF StepHandle, Message
  <2>2. CASE dying[WorkerOf[c]]
    <3>1. conn' = [conn EXCEPT ![c] = Finish(Popped(c, tag))]
      BY <1>6, <2>2 DEF StepHandle
    <3> QED BY <1>1, <2>1, <3>1, EventIInv
  <2>3. CASE ~dying[WorkerOf[c]]
    <3>1. conn' = [conn EXCEPT ![c] = Recv(Popped(c, tag))]
      BY <1>6, <2>3 DEF StepHandle
    <3> QED BY <1>1, <2>1, <3>1, EventIInv
  <2> QED BY <2>2, <2>3
<1>7. ASSUME NEW tag \in {"read", "finish"}, StepHandleClose(c, tag) PROVE IInv'
  BY <1>1, <1>7, EventIInv DEF StepHandleClose, Message
<1>8. CASE CloserDone(c)
  <2> DEFINE r == [conn[c] EXCEPT !.closers = @ - 1]
  <2>1. conn[c] \in ConnRecords /\ OpsOf(conn[c])
    BY DEF IInv, Types, OpsInv
  <2>2. conn[c].closers - 1 \in Int
    BY <2>1 DEF ConnRecords
  <2>3. /\ r \in ConnRecords /\ r.cid = conn[c].cid /\ r.lcid = conn[c].lcid
        /\ r.status = conn[c].status /\ r.ops = conn[c].ops
    BY <2>1, <2>2 DEF ConnRecords
  <2>4. conn' = [conn EXCEPT ![c] = r]
    BY <1>8, <2>1 DEF CloserDone, IInv, Types
  <2> HIDE DEF r
  <2> QED BY <1>8, <2>1, <2>3, <2>4, EventIInv DEF CloserDone, OpsOf, Keeps
<1> QED BY <1>4, <1>5, <1>6, <1>7, <1>8

\* A connection waiting for its call is fresh, whether it gets one or not.
LEMMA AcceptFailIInv ==
    ASSUME IInv, NEW c \in Conns, AcceptFail(c)
    PROVE  IInv'
<1>1. conn[c].status = "ACCEPT" /\ conn[c].ops = {"accept"} /\ Fresh(c)
  BY DEF AcceptFail, Event, IInv, OpsInv, OpsOf, FreshInv, Early
<1> DEFINE r == [Popped(c, "accept") EXCEPT !.status = "deleted"]
<1>2. /\ r \in ConnRecords /\ r.cid = conn[c].cid /\ r.lcid = conn[c].lcid
      /\ r.status = "deleted" /\ r.ops = {}
  BY <1>1, PoppedProperties DEF IInv, Keeps, ConnRecords, Statuses
<1>3. conn' = [conn EXCEPT ![c] = r] /\ UNCHANGED <<tasks, connections, cmap, pmap, app>>
        /\ AfterEvent(WorkerOf[c])
  BY DEF AcceptFail
<1> HIDE DEF r
<1> QED BY <1>1, <1>2, <1>3, EventIInv DEF OpsOf, Keeps

\* The next waiter of a call was not in use either.
LEMMA AcceptIInv ==
    ASSUME IInv, NEW c \in Conns, Accept(c)
    PROVE  IInv'
<1> DEFINE w == WorkerOf[c]
           unused == Uncreated(w)
           n == NextConn(w, unused)
           a == [Popped(c, "accept") EXCEPT !.status = "LOGIN"]
           r == Recv(a)
<1>1. conn[c].status = "ACCEPT" /\ conn[c].ops = {"accept"} /\ Fresh(c)
  BY DEF Accept, Event, IInv, OpsInv, OpsOf, FreshInv, Early
<1>2. n \in unused
  <2>1. unused # {}
    BY DEF Accept
  <2> QED BY <2>1 DEF NextConn, Uncreated
<1>3. n \in Conns /\ WorkerOf[n] = w /\ conn[n].status = "none" /\ Fresh(n) /\ n # c
  BY <1>1, <1>2 DEF IInv, FreshInv, Early, Uncreated
<1>4. conn' = [conn EXCEPT ![c] = r, ![n] = Waiting(@)]
  BY DEF Accept
<1>5. UNCHANGED <<tasks, connections, cmap, pmap, app>> /\ AfterEvent(w)
  BY DEF Accept
<1>6. a \in ConnRecords /\ a.cid = conn[c].cid /\ a.lcid = conn[c].lcid /\ a.status = "LOGIN" /\ a.ops = {}
  BY <1>1, PoppedProperties DEF IInv, Keeps, ConnRecords, Statuses
<1> HIDE DEF n, a, r, unused
<1>8. r \in ConnRecords /\ r.cid = conn[c].cid /\ r.lcid = conn[c].lcid /\ r.status = "LOGIN" /\ r.ops = {"read"}
  BY <1>6, RecordOps DEF r, Keeps
<1>9. conn[n] \in ConnRecords
  BY <1>3 DEF IInv, Types
<1>10. /\ Waiting(conn[n]) \in ConnRecords /\ Waiting(conn[n]).cid = conn[n].cid
       /\ Waiting(conn[n]).lcid = conn[n].lcid
       /\ Waiting(conn[n]).status = "ACCEPT" /\ Waiting(conn[n]).ops = {"accept"}
  BY <1>9, RecordOps DEF Keeps
<1>11. /\ conn'[c] = r /\ conn'[n] = Waiting(conn[n])
       /\ \A d \in Conns : d # c /\ d # n => conn'[d] = conn[d]
       /\ conn' \in [Conns -> ConnRecords]
  BY <1>3, <1>4, <1>8, <1>10 DEF IInv, Types
<1>12. wpc' \in [Workers -> WorkerRecords] /\ WorkerInv'
  <2>1. w \in Workers
    BY WorkerOfAssumption
  <2>2. \A d \in Conns : WorkerOf[d] # w => conn'[d].status = conn[d].status
    BY <1>3, <1>11
  <2> QED BY <1>5, <2>1, <2>2, AfterEventOK DEF IInv
<1>13. Types'
  BY <1>5, <1>11, <1>12 DEF IInv, Types
<1>14. OpsInv'
  <2>1. OpsOf(r) /\ OpsOf(Waiting(conn[n]))
    BY <1>8, <1>10 DEF OpsOf
  <2> QED BY <1>11, <2>1 DEF IInv, OpsInv
<1>15. ASSUME NEW d \in Conns
       PROVE  /\ conn'[d].cid = conn[d].cid /\ conn'[d].lcid = conn[d].lcid
              /\ Early(d)' => Fresh(d)
              /\ Referred(d)' => Live(d)'
  <2>1. conn'[d].cid = conn[d].cid /\ conn'[d].lcid = conn[d].lcid
    BY <1>8, <1>10, <1>11
  <2>2. Early(d)' => Fresh(d)
    BY <1>1, <1>3, <1>11 DEF IInv, FreshInv, Early
  <2>3. Referred(d)' <=> Referred(d)
    BY <1>5 DEF Referred, Mapped
  <2>4. (Referred(d) => Live(d)) /\ (Fresh(d) => ~Referred(d))
    BY ReferredLive
  <2> QED BY <1>1, <1>3, <1>11, <2>1, <2>2, <2>3, <2>4 DEF Live
<1>16. \A d \in Conns : OneTask(d)' /\ (Answered(d)' => Answered(d))
  BY <1>5 DEF IInv, OnePlace, OneTask, Answered, AnswerTask
<1>17. \A v \in Workers : Once(connections'[v])
  BY <1>5 DEF IInv, ListInv
<1> QED BY <1>5, <1>12, <1>13, <1>14, <1>15, <1>16, <1>17, ShrinksIInv

---------------------------------------------------------------------------
(* Destroy *)

\* Destroy, from its check to the tasks or to Finalize.
LEMMA DestroyIInv ==
    ASSUME IInv, NEW c \in Conns, NEW r, NEW i \in Nat \ {0},
           NEW ret \in {"loop", "final"},
           Destroy(WorkerOf[c], c, r, i, ret),
           Keeps(r, conn[c]), InUse(r),
           r.status = conn[c].status \/ r.status = "CLOSE",
           UNCHANGED <<tasks, connections, cmap, pmap, app>>
    PROVE  IInv'
<1> DEFINE w == WorkerOf[c]
           dies == MustClose(w, r)
           s == IF dies THEN FinishByTask(r) ELSE r
           x == [at |-> IF dies THEN "finalize" ELSE "destroy", c |-> c, i |-> i, n |-> -1, ret |-> ret]
<1>1. w \in Workers
  BY WorkerOfAssumption
<1>2. conn' = [conn EXCEPT ![c] = s] /\ wpc' = [wpc EXCEPT ![w] = x]
  BY DEF Destroy
<1>3. x \in WorkerRecords /\ x.at \in {"finalize", "destroy"} /\ x.c = c /\ x.i >= 1
  BY DEF WorkerRecords, Scanning, Busy
<1>4. /\ Keeps(s, conn[c]) /\ InUse(s) /\ OpsOf(s)
      /\ (s.status = conn[c].status \/ s.status = "CLOSE")
  <2>1. Keeps(FinishByTask(r), r) /\ FinishByTask(r).status = "CLOSE" /\ InUse(FinishByTask(r))
    BY RecordOps, InUseOps DEF Keeps
  <2>2. Keeps(s, conn[c]) /\ InUse(s) /\ (s.status = conn[c].status \/ s.status = "CLOSE")
    BY <2>1 DEF Keeps
  <2> QED BY <2>2, InUseOps DEF Keeps
<1> HIDE DEF s, x, dies
<1>5. wpc' \in [Workers -> WorkerRecords] /\ wpc'[w] = x /\ \A v \in Workers : v # w => wpc'[v] = wpc[v]
  BY <1>1, <1>2, <1>3 DEF IInv, Types
<1>6. conn'[c] = s /\ \A d \in Conns : d # c => conn'[d] = conn[d]
  BY <1>2 DEF IInv, Types
<1>7. WorkerOK(w)'
  BY <1>3, <1>4, <1>5, <1>6 DEF WorkerOK, Scanning, Busy, InUse
<1>8. WorkerInv'
  BY <1>1, <1>5, <1>6, <1>7, WorkerStep DEF IInv
<1> QED BY <1>2, <1>4, <1>5, <1>8, OneConnIInv, SameTasks

\* Destroy after the end of a call: case CLOSE, and a read that fails.
LEMMA EndingIInv ==
    ASSUME IInv, NEW c \in Conns,
           ReadFail(c) \/ \E tag \in {"read", "finish"} : StepClose(c, tag)
    PROVE  IInv'
<1>1. PICK tag \in {"read", "finish"} :
          /\ Event(c, tag) /\ Destroy(WorkerOf[c], c, Popped(c, tag), 1, "loop")
          /\ UNCHANGED <<tasks, connections, cmap, pmap, app>>
  BY DEF ReadFail, StepClose, Message
<1>2. /\ Keeps(Popped(c, tag), conn[c]) /\ InUse(Popped(c, tag))
      /\ Popped(c, tag).status = conn[c].status
  BY <1>1, EventFacts
<1>3. 1 \in Nat \ {0}
  OBVIOUS
<1> QED BY <1>1, <1>2, <1>3, DestroyIInv


---------------------------------------------------------------------------
(* The loop over connections_ and the start of a worker *)

\* An entry of connections_ is in use, and belongs to the worker that has it.
LEMMA ListedFacts ==
    ASSUME IInv, NEW w \in Workers, NEW i \in Nat, i >= 1, i <= Len(connections[w])
    PROVE  LET c == connections[w][i] IN
           c \in Conns /\ WorkerOf[c] = w /\ conn[c] \in ConnRecords /\ InUse(conn[c])
<1> DEFINE c == connections[w][i]
<1>1. Len(connections[w]) \in Nat /\ i \in 1..Len(connections[w]) /\ c \in Conns
  BY LenProperties, ElementOfSeq DEF IInv, Types
<1> HIDE DEF c
<1>2. Listed(c, connections[w])
  BY <1>1 DEF Listed, c
<1>3. WorkerOf[c] = w /\ ~Fresh(c)
  BY <1>1, <1>2 DEF IInv, ListInv, Fresh
<1>4. ~Early(c) /\ OpsOf(conn[c]) /\ conn[c] \in ConnRecords
  BY <1>1, <1>3 DEF IInv, FreshInv, OpsInv, Types
<1> QED BY <1>1, <1>3, <1>4 DEF InUse, Early, OpsOf, c

\* A worker moves on without changing anything but its place.
LEMMA MoveIInv ==
    ASSUME IInv, NEW w \in Workers, NEW x \in WorkerRecords,
           wpc' = [wpc EXCEPT ![w] = x],
           x.at \in Scanning => x.i >= 1,
           x.at \in Busy => x.c \in Conns /\ WorkerOf[x.c] = w /\ InUse(conn[x.c]),
           x.at \in {"unlaunched", "new"} => wpc[w].at \in {"unlaunched", "new"},
           UNCHANGED <<conn, tasks, connections, cmap, pmap, app>>
    PROVE  IInv'
<1>1. wpc' \in [Workers -> WorkerRecords] /\ wpc'[w] = x /\ \A v \in Workers : v # w => wpc'[v] = wpc[v]
  BY DEF IInv, Types
<1>2. WorkerOK(w)
  BY DEF IInv, WorkerInv
<1>3. WorkerOK(w)'
  BY <1>1, <1>2 DEF WorkerOK, InUse
<1>4. WorkerInv'
  BY <1>1, <1>3, WorkerStep DEF IInv
<1> QED BY <1>1, <1>4, ElsewhereIInv, SameTasks DEF IInv, Types

\* connections_[i]->ConsumeTask, up to its loop.
LEMMA LoopConnIInv ==
    ASSUME IInv, NEW w \in Workers, LoopConn(w)
    PROVE  IInv'
<1> DEFINE i == wpc[w].i
           c == connections[w][i]
<1>1. wpc[w] \in WorkerRecords /\ wpc[w].at = "loop" /\ i \in Nat /\ i >= 1 /\ i + 1 \in Nat \ {0}
  BY DEF LoopConn, IInv, Types, WorkerInv, WorkerOK, Scanning, WorkerRecords
<1>2. UNCHANGED <<tasks, connections, cmap, pmap, app>>
  BY DEF LoopConn
<1>3. CASE i > Len(connections[w]) /\ wpc' = [wpc EXCEPT ![w] = Poll] /\ UNCHANGED conn
  BY <1>2, <1>3, PollProperties, MoveIInv DEF Scanning, Busy
<1>4. CASE i <= Len(connections[w])
  <2>1. c \in Conns /\ WorkerOf[c] = w /\ conn[c] \in ConnRecords /\ InUse(conn[c])
    BY <1>1, <1>4, ListedFacts
  <2> HIDE DEF c
  <2>2. Keeps(FinishByTask(conn[c]), conn[c]) /\ FinishByTask(conn[c]).status = "CLOSE"
          /\ InUse(FinishByTask(conn[c])) /\ OpsOf(FinishByTask(conn[c]))
    BY <2>1, RecordOps, InUseOps DEF Keeps
  <2>3. CASE MustClose(w, conn[c]) /\ conn[c].status = "WAIT_LOGIN"
    <3>1. Destroy(WorkerOf[c], c, FinishByTask(conn[c]), i + 1, "loop")
      BY <1>1, <1>4, <2>1, <2>3 DEF LoopConn, c
    <3> QED BY <1>1, <1>2, <2>1, <2>2, <3>1, DestroyIInv
  <2>4. CASE MustClose(w, conn[c]) /\ conn[c].status # "WAIT_LOGIN"
    <3>1. conn' = [conn EXCEPT ![c] = FinishByTask(conn[c])] /\ wpc' = [wpc EXCEPT ![w].i = i + 1]
      BY <1>1, <1>4, <2>4 DEF LoopConn, c
    <3>2. /\ wpc' \in [Workers -> WorkerRecords] /\ \A v \in Workers : v # w => wpc'[v] = wpc[v]
          /\ wpc'[w].at = "loop" /\ wpc'[w].i = i + 1
      BY <1>1, <3>1 DEF IInv, Types, WorkerRecords
    <3>3. WorkerOK(w)'
      BY <1>1, <3>2 DEF WorkerOK, Scanning, Busy
    <3>4. \A d \in Conns : WorkerOf[d] # w => conn'[d].status = conn[d].status
      BY <2>1, <3>1 DEF IInv, Types
    <3>5. WorkerInv'
      BY <3>2, <3>3, <3>4, WorkerStep DEF IInv
    <3> QED BY <1>2, <2>1, <2>2, <3>1, <3>2, <3>5, OneConnIInv, SameTasks
  <2>5. CASE ~MustClose(w, conn[c])
    <3> DEFINE y == [wpc[w] EXCEPT !.i = i + 1]
               z == [wpc[w] EXCEPT !.at = "consume", !.c = c, !.i = i + 1, !.n = NProcess]
    <3>1. UNCHANGED conn /\ (wpc' = [wpc EXCEPT ![w] = y] \/ wpc' = [wpc EXCEPT ![w] = z])
      BY <1>1, <1>4, <2>5 DEF LoopConn, c
    <3>2. y \in WorkerRecords /\ y.i = i + 1 /\ y.at = "loop"
      BY <1>1 DEF WorkerRecords
    <3>3. NProcess \in Int
      BY BoundsAssumption
    <3>4. z \in WorkerRecords /\ z.i = i + 1 /\ z.at = "consume" /\ z.c = c
      BY <1>1, <2>1, <3>3 DEF WorkerRecords, Scanning, Busy
    <3> HIDE DEF y, z
    <3>5. i + 1 >= 1
      BY <1>1
    <3>6. CASE wpc' = [wpc EXCEPT ![w] = y]
      <4>1. y.i >= 1 /\ y.at \notin Busy /\ y.at \notin {"unlaunched", "new"}
        BY <3>2, <3>5 DEF Busy
      <4> QED BY <1>2, <3>1, <3>2, <3>6, <4>1, MoveIInv
    <3>7. CASE wpc' = [wpc EXCEPT ![w] = z]
      <4>1. z.i >= 1 /\ z.at \notin {"unlaunched", "new"}
        BY <3>4, <3>5
      <4> QED BY <1>2, <2>1, <3>1, <3>4, <3>7, <4>1, MoveIInv
    <3> QED BY <3>1, <3>6, <3>7
  <2> QED BY <2>3, <2>4, <2>5
<1> QED BY <1>1, <1>3, <1>4 DEF LoopConn

\* The first New of a worker: it has no connection yet.
LEMMA NewIInv ==
    ASSUME IInv, NEW w \in Workers, New(w)
    PROVE  IInv'
<1> DEFINE c == NextConn(w, Conns)
<1>1. c \in Conns /\ WorkerOf[c] = w
  BY WorkerOfAssumption DEF NextConn
<1> HIDE DEF c
<1>2. conn[c].status = "none" /\ Fresh(c) /\ conn[c] \in ConnRecords
  BY <1>1 DEF New, IInv, WorkerInv, WorkerOK, FreshInv, Early, Types
<1>3. Keeps(Waiting(conn[c]), conn[c]) /\ OpsOf(Waiting(conn[c]))
  BY <1>2, RecordOps DEF OpsOf
<1>4. conn' = [conn EXCEPT ![c] = Waiting(conn[c])] /\ wpc' = [wpc EXCEPT ![w] = Poll]
        /\ UNCHANGED <<tasks, connections, cmap, pmap, app>>
  BY DEF New, c
<1>5. wpc' \in [Workers -> WorkerRecords] /\ wpc'[w].at = "poll" /\ \A v \in Workers : v # w => wpc'[v] = wpc[v]
  BY <1>4, PollProperties DEF IInv, Types
<1>6. \A d \in Conns : WorkerOf[d] # w => conn'[d].status = conn[d].status
  BY <1>1, <1>4 DEF IInv, Types
<1>7. WorkerOK(w)'
  BY <1>5 DEF WorkerOK, Scanning, Busy
<1>8. WorkerInv'
  BY <1>5, <1>6, <1>7, WorkerStep DEF IInv
<1> QED BY <1>1, <1>2, <1>3, <1>4, <1>5, <1>8, OneConnIInv, SameTasks

\* The other steps of a worker: it begins, times out, is told of the end of
\* its queue, and destroys what is left.
LEMMA WorkerMovesIInv ==
    ASSUME IInv, NEW w \in Workers,
           Launch(w) \/ Timeout(w) \/ ShutdownEvent(w) \/ FinalConn(w)
    PROVE  IInv'
<1>1. CASE Launch(w)
  <2> DEFINE x == [wpc[w] EXCEPT !.at = "new"]
  <2>1. x \in WorkerRecords /\ x.at = "new"
    BY DEF IInv, Types, WorkerRecords, Scanning, Busy
  <2>2. wpc' = [wpc EXCEPT ![w] = x] /\ wpc[w].at = "unlaunched"
          /\ UNCHANGED <<conn, tasks, connections, cmap, pmap, app>>
    BY <1>1 DEF Launch, IInv, Types
  <2> HIDE DEF x
  <2> QED BY <2>1, <2>2, MoveIInv DEF Scanning, Busy
<1>2. CASE Timeout(w)
  BY <1>2, AfterEventOK, ElsewhereIInv, SameTasks DEF Timeout, IInv, Types
<1>3. CASE ShutdownEvent(w)
  <2> DEFINE x == [Poll EXCEPT !.at = "final", !.i = 1]
  <2>1. x \in WorkerRecords /\ x.at = "final" /\ x.i = 1
    BY PollProperties
  <2>2. wpc' = [wpc EXCEPT ![w] = x] /\ UNCHANGED <<conn, tasks, connections, cmap, pmap, app>>
    BY <1>3 DEF ShutdownEvent
  <2> HIDE DEF x
  <2>3. x.i >= 1 /\ x.at \notin Busy /\ x.at \notin {"unlaunched", "new"}
    BY <2>1 DEF Busy
  <2> QED BY <2>1, <2>2, <2>3, MoveIInv
<1>4. CASE FinalConn(w)
  <2> DEFINE i == wpc[w].i
             c == connections[w][i]
  <2>1. i \in Nat /\ i >= 1 /\ i + 1 \in Nat \ {0}
    BY <1>4 DEF FinalConn, IInv, Types, WorkerInv, WorkerOK, Scanning, WorkerRecords
  <2>2. CASE i <= Len(connections[w])
    <3>1. c \in Conns /\ WorkerOf[c] = w /\ conn[c] \in ConnRecords /\ InUse(conn[c])
      BY <2>1, <2>2, ListedFacts
    <3>2. Destroy(WorkerOf[c], c, conn[c], i + 1, "final") /\ UNCHANGED <<tasks, connections, cmap, pmap, app>>
      BY <1>4, <2>2, <3>1 DEF FinalConn
    <3> HIDE DEF c
    <3> QED BY <2>1, <3>1, <3>2, DestroyIInv DEF Keeps
  <2>3. CASE ~(i <= Len(connections[w]))
    <3> DEFINE x == [Poll EXCEPT !.at = "done"]
    <3>1. x \in WorkerRecords /\ x.at = "done"
      BY PollProperties DEF WorkerRecords, Scanning, Busy
    <3>2. wpc' = [wpc EXCEPT ![w] = x] /\ UNCHANGED <<conn, tasks, connections, cmap, pmap, app>>
      BY <1>4, <2>3 DEF FinalConn
    <3> HIDE DEF x
    <3> QED BY <3>1, <3>2, MoveIInv DEF Scanning, Busy
  <2> QED BY <2>2, <2>3
<1> QED BY <1>1, <1>2, <1>3, <1>4

---------------------------------------------------------------------------
(* Tasks *)

\* The worker that has a connection in hand goes on with it, goes on with its
\* loop, or turns to Finalize.
LEMMA HandIInv ==
    ASSUME IInv, NEW w \in Workers, wpc[w].at \in Busy, NEW x \in WorkerRecords,
           wpc' = [wpc EXCEPT ![w] = x], x.i = wpc[w].i,
           \/ x.at \in Busy /\ x.c = wpc[w].c
           \/ x.at = "loop",
           NEW r, conn' = [conn EXCEPT ![wpc[w].c] = r], InUse(r)
    PROVE  /\ wpc[w].c \in Conns /\ WorkerOf[wpc[w].c] = w
           /\ wpc' \in [Workers -> WorkerRecords] /\ WorkerInv'
<1>1. WorkerOK(w)
  BY DEF IInv, WorkerInv
<1>2. wpc[w].c \in Conns /\ WorkerOf[wpc[w].c] = w /\ wpc[w].i >= 1
  BY <1>1 DEF WorkerOK, Scanning
<1>3. wpc' \in [Workers -> WorkerRecords] /\ wpc'[w] = x /\ \A v \in Workers : v # w => wpc'[v] = wpc[v]
  BY DEF IInv, Types
<1>4. conn'[wpc[w].c] = r /\ \A d \in Conns : d # wpc[w].c => conn'[d] = conn[d]
  BY <1>2 DEF IInv, Types
<1>5. WorkerOK(w)'
  <2>1. x.at \notin {"unlaunched", "new"}
    BY DEF Busy
  <2>2. wpc'[w].at \in Busy => wpc'[w].c \in Conns /\ WorkerOf[wpc'[w].c] = w
                                 /\ conn'[wpc'[w].c].status \notin {"none", "ACCEPT"}
    <3>1. ASSUME wpc'[w].at \in Busy PROVE wpc'[w].c = wpc[w].c
      BY <1>3, <3>1 DEF Busy
    <3> QED BY <1>2, <1>4, <3>1 DEF InUse
  <2> QED BY <1>2, <1>3, <2>1, <2>2 DEF WorkerOK
<1>6. WorkerInv'
  BY <1>2, <1>3, <1>4, <1>5, WorkerStep DEF IInv
<1> QED BY <1>2, <1>3, <1>6

\* A step of that worker which changes its connection and takes a task away.
LEMMA HandConnIInv ==
    ASSUME IInv, NEW w \in Workers, wpc[w].at \in Busy, NEW x \in WorkerRecords,
           wpc' = [wpc EXCEPT ![w] = x], x.i = wpc[w].i,
           \/ x.at \in Busy /\ x.c = wpc[w].c
           \/ x.at = "loop",
           NEW r, conn' = [conn EXCEPT ![wpc[w].c] = r], InUse(r),
           Keeps(r, conn[wpc[w].c]),
           r.status = conn[wpc[w].c].status \/ r.status = "CLOSE",
           UNCHANGED <<connections, cmap, pmap, app>>, NoNewTask
    PROVE  IInv'
<1>1. /\ wpc[w].c \in Conns /\ WorkerOf[wpc[w].c] = w
      /\ wpc' \in [Workers -> WorkerRecords] /\ WorkerInv'
  BY HandIInv
<1>2. OpsOf(r)
  BY InUseOps DEF Keeps
<1> QED BY <1>1, <1>2, OneConnIInv

\* The connection in hand.
LEMMA InHand ==
    ASSUME IInv, NEW w \in Workers, wpc[w].at \in Busy
    PROVE  /\ wpc[w] \in WorkerRecords /\ wpc[w].c \in Conns /\ WorkerOf[wpc[w].c] = w
           /\ conn[wpc[w].c] \in ConnRecords /\ InUse(conn[wpc[w].c])
           /\ conn = [conn EXCEPT ![wpc[w].c] = conn[wpc[w].c]]
<1>1. WorkerOK(w) /\ wpc[w] \in WorkerRecords
  BY DEF IInv, WorkerInv, Types
<1>2. wpc[w].c \in Conns /\ WorkerOf[wpc[w].c] = w /\ conn[wpc[w].c].status \notin {"none", "ACCEPT"}
  BY <1>1 DEF WorkerOK
<1>3. OpsOf(conn[wpc[w].c]) /\ conn[wpc[w].c] \in ConnRecords
  BY <1>2 DEF IInv, OpsInv, Types
<1>4. InUse(conn[wpc[w].c])
  BY <1>2, <1>3 DEF InUse, OpsOf
<1>5. conn = [conn EXCEPT ![wpc[w].c] = conn[wpc[w].c]]
  BY DEF IInv, Types
<1> QED BY <1>1, <1>2, <1>3, <1>4, <1>5

\* A task taken leaves the others as they are; if it is the answer to the
\* deferred login there is no other answer.
LEMMA TakenProperties ==
    ASSUME IInv, NEW w \in Workers, NEW c \in Conns, c = wpc[w].c, NEW kind, NEW j, Taken(w, kind, j)
    PROVE  /\ wpc[w].at \in Busy /\ NoNewTask /\ UNCHANGED app
           /\ tasks[c][j] \in Tasks
           /\ kind = "login" => Answered(c) /\ ~Answered(c)'
<1> DEFINE q == tasks[c]
<1>1. /\ wpc[w].at \in Busy /\ UNCHANGED app /\ q[j].kind = kind
      /\ tasks' = [tasks EXCEPT ![c] = Dequeue(q, j)] /\ j \in Heads(q)
  BY DEF Taken, Busy
<1>2. q \in Seq(Tasks) /\ j \in 1..Len(q) /\ Len(q) \in Nat
  BY <1>1, LenProperties DEF IInv, Types, Heads
<1>3. q[j] \in Tasks
  BY <1>2, ElementOfSeq
<1>4. /\ Dequeue(q, j) \in Seq(Tasks) /\ Len(Dequeue(q, j)) = Len(q) - 1
      /\ \A i \in 1..(Len(q) - 1) : Dequeue(q, j)[i] = IF i < j THEN q[i] ELSE q[i + 1]
  BY <1>2, DequeueProperties
<1>5. /\ tasks' \in [Conns -> Seq(Tasks)] /\ tasks'[c] = Dequeue(q, j)
      /\ \A d \in Conns : d # c => tasks'[d] = tasks[d]
  BY <1>1, <1>4 DEF IInv, Types
<1>6. ASSUME NEW i \in Nat, AnswerTask(c, i)'
      PROVE  (i < j /\ AnswerTask(c, i)) \/ (~(i < j) /\ AnswerTask(c, i + 1))
  <2>1. i \in 1..(Len(q) - 1) /\ Dequeue(q, j)[i].kind = "login"
    BY <1>4, <1>5, <1>6 DEF AnswerTask
  <2>2. CASE i < j
    BY <1>2, <1>4, <2>1, <2>2 DEF AnswerTask
  <2>3. CASE ~(i < j)
    <3>1. q[i + 1].kind = "login" /\ i + 1 \in 1..Len(q)
      BY <1>2, <1>4, <2>1, <2>3
    <3> QED BY <2>3, <3>1 DEF AnswerTask
  <2> QED BY <2>2, <2>3
<1>7. kind = "login" => AnswerTask(c, j)
  BY <1>1, <1>2 DEF AnswerTask
<1> HIDE DEF q
<1>8. OneTask(c) /\ j \in Nat /\ \A i \in Nat : i + 1 \in Nat
  BY <1>2 DEF IInv, OnePlace
<1>9. ASSUME NEW i \in Nat, NEW k \in Nat, AnswerTask(c, i)', AnswerTask(c, k)' PROVE i = k
  BY <1>6, <1>8, <1>9 DEF OneTask
<1>10. Answered(c)' => Answered(c)
  BY <1>6, <1>8 DEF Answered
<1>11. AnswerTask(c, j) => ~Answered(c)'
  <2>1. ASSUME NEW i \in Nat, AnswerTask(c, j), AnswerTask(c, i)' PROVE FALSE
    BY <1>6, <1>8, <2>1 DEF OneTask
  <2> QED BY <2>1 DEF Answered
<1>12. NoNewTask
  <2>1. ASSUME NEW d \in Conns, d # c PROVE OneTask(d)' /\ (Answered(d)' => Answered(d))
    BY <1>5, <2>1 DEF IInv, OnePlace, OneTask, Answered, AnswerTask
  <2>2. OneTask(c)'
    BY <1>9 DEF OneTask
  <2> QED BY <1>5, <1>10, <2>1, <2>2 DEF NoNewTask
<1> QED BY <1>1, <1>3, <1>7, <1>8, <1>11, <1>12 DEF Answered, q

\* The record of the worker after one more task, and after the last.
LEMMA AfterTask ==
    ASSUME NEW w \in Workers, wpc[w] \in WorkerRecords, wpc[w].at \in Busy
    PROVE  /\ LET x == [wpc[w] EXCEPT !.n = @ - 1] IN
              x \in WorkerRecords /\ x.i = wpc[w].i /\ x.at = wpc[w].at /\ x.c = wpc[w].c
           /\ LET x == [wpc[w] EXCEPT !.at = "destroy", !.n = -1] IN
              x \in WorkerRecords /\ x.i = wpc[w].i /\ x.at = "destroy" /\ x.c = wpc[w].c
           /\ /\ Return(w) \in WorkerRecords /\ Return(w).i = wpc[w].i
              /\ \/ Return(w).at \in Busy /\ Return(w).c = wpc[w].c
                 \/ Return(w).at = "loop"
<1>1. wpc[w].n - 1 \in Int /\ wpc[w].i \in Nat
  BY DEF WorkerRecords
<1>2. LET x == [wpc[w] EXCEPT !.n = @ - 1] IN
      x \in WorkerRecords /\ x.i = wpc[w].i /\ x.at = wpc[w].at /\ x.c = wpc[w].c
  BY <1>1 DEF WorkerRecords
<1>3. LET x == [wpc[w] EXCEPT !.at = "destroy", !.n = -1] IN
      x \in WorkerRecords /\ x.i = wpc[w].i /\ x.at = "destroy" /\ x.c = wpc[w].c
  <2> DEFINE n == -1
  <2>1. n \in Int
    OBVIOUS
  <2> HIDE DEF n
  <2>2. LET x == [wpc[w] EXCEPT !.at = "destroy", !.n = n] IN
        x \in WorkerRecords /\ x.i = wpc[w].i /\ x.at = "destroy" /\ x.c = wpc[w].c
    BY <2>1 DEF WorkerRecords, Scanning, Busy
  <2> QED BY <2>2 DEF n
<1>4. CASE wpc[w].at = "destroy"
  <2> DEFINE x == [wpc[w] EXCEPT !.at = "finalize"]
  <2>1. x \in WorkerRecords /\ x.i = wpc[w].i /\ x.at = "finalize" /\ x.c = wpc[w].c
    BY DEF WorkerRecords, Scanning, Busy
  <2>2. Return(w) = x
    BY <1>4 DEF Return
  <2> HIDE DEF x
  <2> QED BY <1>2, <1>3, <2>1, <2>2 DEF Busy
<1>5. CASE wpc[w].at # "destroy"
  <2> DEFINE x == [Poll EXCEPT !.at = "loop", !.i = wpc[w].i]
  <2>1. x \in WorkerRecords /\ x.i = wpc[w].i /\ x.at = "loop"
    BY <1>1, PollProperties
  <2>2. Return(w) = x
    BY <1>5 DEF Return
  <2> HIDE DEF x
  <2> QED BY <1>2, <1>3, <2>1, <2>2
<1> QED BY <1>4, <1>5

\* The tasks that register nothing, and the end of the tasks.
LEMMA TasksIInv ==
    ASSUME IInv, NEW w \in Workers, wpc[w].c \in Conns,
           TasksDone(w) \/ \E j \in Heads(tasks[wpc[w].c]) :
                               TaskDenyLogin(w, j) \/ TaskClose(w, j) \/ TaskHandle(w, j)
    PROVE  IInv'
<1> DEFINE c == wpc[w].c
           r == conn[c]
           next == [wpc[w] EXCEPT !.n = @ - 1]
           deny == [wpc[w] EXCEPT !.at = "destroy", !.n = -1]
<1>1. wpc[w].at \in Busy
  BY DEF TasksDone, TaskDenyLogin, TaskClose, TaskHandle, Taken, Busy
<1>2. /\ wpc[w] \in WorkerRecords /\ r \in ConnRecords /\ InUse(r)
      /\ conn = [conn EXCEPT ![c] = r]
  BY <1>1, InHand
<1>3. /\ next \in WorkerRecords /\ next.i = wpc[w].i /\ next.at \in Busy /\ next.c = c
      /\ deny \in WorkerRecords /\ deny.i = wpc[w].i /\ deny.at \in Busy /\ deny.c = c
      /\ Return(w) \in WorkerRecords /\ Return(w).i = wpc[w].i
      /\ \/ Return(w).at \in Busy /\ Return(w).c = c
         \/ Return(w).at = "loop"
  BY <1>1, <1>2, AfterTask DEF Busy
<1>4. /\ InUse(FinishByTask(r)) /\ Keeps(FinishByTask(r), r) /\ FinishByTask(r).status = "CLOSE"
      /\ InUse(InternalClose(r)) /\ Keeps(InternalClose(r), r) /\ InternalClose(r).status = "CLOSE"
      /\ Keeps(r, r)
  BY <1>2, RecordOps, InUseOps DEF Keeps
<1>5. CASE TasksDone(w)
  <2>1. wpc' = [wpc EXCEPT ![w] = Return(w)] /\ UNCHANGED <<conn, tasks, connections, cmap, pmap, app>>
    BY <1>5 DEF TasksDone
  <2>2. conn' = [conn EXCEPT ![c] = r]
    BY <1>2, <2>1
  <2> HIDE DEF c, r, next, deny
  <2> QED BY <1>1, <1>2, <1>3, <1>4, <2>1, <2>2, HandConnIInv, SameTasks DEF c, r
<1>6. CASE \E j \in Heads(tasks[c]) : TaskDenyLogin(w, j)
  <2>1. PICK j : TaskDenyLogin(w, j)
    BY <1>6
  <2>2. NoNewTask /\ UNCHANGED app
    BY <2>1, TakenProperties DEF TaskDenyLogin
  <2>3. /\ conn' = [conn EXCEPT ![c] = FinishByTask(r)] /\ UNCHANGED <<pmap, cmap, connections>>
        /\ (wpc' = [wpc EXCEPT ![w] = deny] \/ wpc' = [wpc EXCEPT ![w] = Return(w)])
    BY <1>2, <2>1 DEF TaskDenyLogin
  <2> HIDE DEF c, r, next, deny
  <2>4. CASE wpc' = [wpc EXCEPT ![w] = deny]
    BY <1>1, <1>3, <1>4, <2>2, <2>3, <2>4, HandConnIInv DEF c, r
  <2>5. CASE wpc' = [wpc EXCEPT ![w] = Return(w)]
    BY <1>1, <1>3, <1>4, <2>2, <2>3, <2>5, HandConnIInv DEF c, r
  <2> QED BY <2>3, <2>4, <2>5
<1>7. CASE \E j \in Heads(tasks[c]) : TaskClose(w, j)
  <2>1. PICK j : TaskClose(w, j)
    BY <1>7
  <2>2. NoNewTask /\ UNCHANGED app
    BY <2>1, TakenProperties DEF TaskClose
  <2>3. /\ conn' = [conn EXCEPT ![c] = FinishByTask(r)] /\ UNCHANGED <<pmap, cmap, connections>>
        /\ wpc' = [wpc EXCEPT ![w] = next]
    BY <1>2, <2>1 DEF TaskClose, NextTask
  <2> HIDE DEF c, r, next, deny
  <2> QED BY <1>1, <1>3, <1>4, <2>2, <2>3, HandConnIInv DEF c, r
<1>8. CASE \E j \in Heads(tasks[c]) : TaskHandle(w, j)
  <2>1. PICK j : TaskHandle(w, j)
    BY <1>8
  <2>2. NoNewTask /\ UNCHANGED app
    BY <2>1, TakenProperties DEF TaskHandle
  <2>3. /\ UNCHANGED <<pmap, cmap, connections>> /\ wpc' = [wpc EXCEPT ![w] = next]
        /\ (conn' = [conn EXCEPT ![c] = r] \/ conn' = [conn EXCEPT ![c] = InternalClose(r)])
    BY <1>2, <2>1 DEF TaskHandle, NextTask
  <2> HIDE DEF c, r, next, deny
  <2>4. CASE conn' = [conn EXCEPT ![c] = r]
    BY <1>1, <1>2, <1>3, <1>4, <2>2, <2>3, <2>4, HandConnIInv DEF c, r
  <2>5. CASE conn' = [conn EXCEPT ![c] = InternalClose(r)]
    BY <1>1, <1>3, <1>4, <2>2, <2>3, <2>5, HandConnIInv DEF c, r
  <2> QED BY <2>3, <2>4, <2>5
<1> QED BY <1>5, <1>6, <1>7, <1>8

---------------------------------------------------------------------------
(* Logins *)

\* A connection that is not mapped and has no answer left to come is
\* registered under its id.
LEMMA RegisterIInv ==
    ASSUME IInv, NEW c \in Conns, NEW id \in Ids, NEW r, NEW failed,
           Register(c, id, r, failed), Keeps(r, conn[c]), InUse(r),
           ~Mapped(c), c \notin pmap, ~Answered(c)', \A t \in Threads : ~Answers(t, c),
           Listed(c, connections[WorkerOf[c]]) => r.lcid,
           NoNewTask, UNCHANGED app,
           wpc' \in [Workers -> WorkerRecords], WorkerInv'
    PROVE  IInv'
<1> DEFINE w == WorkerOf[c]
           cleared == ClearLoginCid(w, c, r)
           s == Registered(r, id)
<1>1. w \in Workers /\ connections[w] \in Seq(Conns) /\ Once(connections[w])
  BY WorkerOfAssumption DEF IInv, Types, ListInv
<1>2. /\ s \in ConnRecords /\ s.status = "READ" /\ s.ops = r.ops \cup {"read"}
      /\ s.cid = id /\ s.lcid = FALSE
  BY RegisteredProperties DEF Keeps
<1>3. /\ pmap' \subseteq pmap /\ cmap' = [cmap EXCEPT ![id] = c]
      /\ connections' = [connections EXCEPT ![w] = Append(cleared, c)]
      /\ conn' = [conn EXCEPT ![c] = s]
  BY DEF Register, ServerRegister
<1>4. /\ cleared \in Seq(Conns) /\ Once(cleared) /\ ~Listed(c, cleared)
      /\ \A d : Listed(d, cleared) => Listed(d, connections[w])
  <2>1. CASE r.lcid
    <3>1. cleared = Without(connections[w], c)
      BY <2>1 DEF ClearLoginCid
    <3> QED BY <1>1, <3>1, WithoutProperties
  <2>2. CASE ~r.lcid
    BY <1>1, <2>2 DEF ClearLoginCid
  <2> QED BY <2>1, <2>2
<1> HIDE DEF w, cleared, s
<1>5. /\ conn'[c] = s /\ conn' \in [Conns -> ConnRecords]
      /\ \A d \in Conns : d # c => conn'[d] = conn[d]
  BY <1>2, <1>3 DEF IInv, Types
<1>6. /\ connections' \in [Workers -> Seq(Conns)]
      /\ \A v \in Workers : Once(connections'[v])
      /\ \A v \in Workers, d \in Conns :
            Listed(d, connections'[v]) => Listed(d, connections[v]) \/ (d = c /\ v = w)
  <2>1. /\ Append(cleared, c) \in Seq(Conns) /\ Once(Append(cleared, c))
        /\ \A d : Listed(d, Append(cleared, c)) => Listed(d, cleared) \/ d = c
    BY <1>4, AppendListed
  <2>2. /\ connections' \in [Workers -> Seq(Conns)] /\ connections'[w] = Append(cleared, c)
        /\ \A v \in Workers : v # w => connections'[v] = connections[v]
    BY <1>1, <1>3, <2>1 DEF IInv, Types
  <2> QED BY <1>4, <2>1, <2>2 DEF IInv, ListInv
<1>7. /\ cmap' \in [Ids -> Conns \cup {NoConn}] /\ cmap'[id] = c
      /\ \A k \in Ids : k # id => cmap'[k] = cmap[k]
  BY <1>3 DEF IInv, Types
<1>8. Types'
  BY <1>3, <1>5, <1>6, <1>7 DEF IInv, Types, NoNewTask
<1>9. ~Pending(c)'
  BY <1>3 DEF Pending, Answers
<1>10. ASSUME NEW d \in Conns, d # c
       PROVE  /\ conn'[d] = conn[d]
              /\ Mapped(d)' => Mapped(d)
              /\ Pending(d)' => Pending(d)
              /\ Fresh(d) => Fresh(d)'
  <2>1. Mapped(d)' => Mapped(d)
    BY <1>7, <1>10 DEF Mapped
  <2>2. Pending(d)' => Pending(d)
    BY <1>3 DEF Pending, Answers, NoNewTask
  <2>3. Fresh(d) => Fresh(d)'
    BY <1>6, <1>10, <2>1, <2>2 DEF Fresh
  <2> QED BY <1>5, <1>10, <2>1, <2>2, <2>3
<1>11. FreshInv'
  BY <1>2, <1>5, <1>10 DEF IInv, FreshInv, Early
<1>12. OpsInv'
  <2>1. OpsOf(s)
    BY <1>2 DEF OpsOf, InUse
  <2> QED BY <1>5, <2>1 DEF IInv, OpsInv
<1>13. OnePlace'
  <2>1. ASSUME NEW d \in Conns
        PROVE  (/\ OneTask(d)
                /\ d \in pmap => ~Answered(d) /\ \A t \in Threads : ~Answers(t, d)
                /\ \A t, u \in Threads : Answers(t, d) => ~Answered(d) /\ (Answers(u, d) => t = u))'
    BY <1>3 DEF IInv, OnePlace, NoNewTask, Answers
  <2> QED BY <2>1 DEF OnePlace
<1>14. PendingInv'
  BY <1>9, <1>10 DEF IInv, PendingInv
<1>15. MapInv'
  <2>1. ASSUME NEW k \in Ids, cmap'[k] # NoConn
        PROVE  conn'[cmap'[k]].cid = k /\ conn'[cmap'[k]].status \notin {"none", "deleted"}
    <3>1. CASE k = id
      BY <1>2, <1>5, <1>7, <3>1
    <3>2. CASE k # id
      <4>1. cmap'[k] = cmap[k] /\ cmap[k] \in Conns /\ cmap[k] # c
        BY <1>7, <2>1, <3>2 DEF IInv, Types, Mapped
      <4> QED BY <1>5, <2>1, <4>1 DEF IInv, MapInv, Live
    <3> QED BY <3>1, <3>2
  <2> QED BY <2>1 DEF MapInv, Live
<1>16. PmapInv'
  BY <1>3, <1>5 DEF IInv, Types, PmapInv, Live
<1>17. ListInv'
  <2>1. ASSUME NEW v \in Workers, NEW d \in Conns, Listed(d, connections'[v])
        PROVE  conn'[d].status \notin {"none", "deleted"} /\ WorkerOf[d] = v
    <3>1. CASE d = c /\ v = w
      BY <1>2, <1>5, <3>1 DEF w
    <3>2. CASE Listed(d, connections[v])
      <4>1. Live(d) /\ WorkerOf[d] = v
        BY <3>2 DEF IInv, ListInv
      <4> QED BY <1>2, <1>5, <4>1 DEF Live
    <3> QED BY <1>6, <2>1, <3>1, <3>2
  <2> QED BY <1>6, <2>1 DEF ListInv, Live
<1>18. AppInv'
  BY DEF IInv, AppInv
<1> QED BY <1>8, <1>11, <1>12, <1>13, <1>14, <1>15, <1>16, <1>17, <1>18 DEF IInv

\* The acceptor answers at once: a connection in LOGIN is fresh.
LEMMA StepLoginIInv ==
    ASSUME IInv, NEW c \in Conns, NEW id \in Ids, StepLogin(c, id)
    PROVE  IInv'
<1> DEFINE p == Popped(c, "read")
           w == WorkerOf[c]
<1>1. Event(c, "read") /\ conn[c].status = "LOGIN" /\ Fresh(c)
  BY DEF StepLogin, Message, IInv, FreshInv, Early
<1>2. w \in Workers /\ InUse(p) /\ Keeps(p, conn[c]) /\ p.status = "LOGIN"
  BY <1>1, EventFacts
<1> HIDE DEF p
<1>3. UNCHANGED <<tasks, app>> /\ AfterEvent(w)
  BY DEF StepLogin
<1>4. CASE dying[w]
  <2>1. conn' = [conn EXCEPT ![c] = Finish(p)] /\ UNCHANGED <<pmap, cmap, connections>>
    BY <1>4 DEF StepLogin, p
  <2>2. Keeps(Finish(p), conn[c]) /\ OpsOf(Finish(p)) /\ Finish(p).status = "CLOSE"
    BY <1>2, RecordOps, InUseOps DEF Keeps
  <2> QED BY <1>3, <2>1, <2>2, EventIInv
<1>5. CASE ~dying[w]
  <2>1. Register(c, id, p, {})
    BY <1>5 DEF StepLogin, p
  <2>2. \A d \in Conns : WorkerOf[d] # w => conn'[d].status = conn[d].status
    <3>1. conn' = [conn EXCEPT ![c] = Registered(p, id)]
      BY <2>1 DEF Register
    <3> QED BY <3>1 DEF IInv, Types
  <2>3. wpc' \in [Workers -> WorkerRecords] /\ WorkerInv'
    BY <1>2, <1>3, <2>2, AfterEventOK DEF IInv
  <2>4. ~Mapped(c) /\ c \notin pmap /\ ~Answered(c) /\ (\A t \in Threads : ~Answers(t, c))
          /\ ~Listed(c, connections[w])
    BY <1>1, <1>2 DEF Fresh, Pending
  <2>5. NoNewTask
    BY <1>3, SameTasks
  <2> QED BY <1>2, <1>3, <2>1, <2>3, <2>4, <2>5, RegisterIInv DEF NoNewTask
<1> QED BY <1>4, <1>5

\* The answer to a deferred login: it was the only one.
LEMMA TaskAcceptLoginIInv ==
    ASSUME IInv, NEW w \in Workers, NEW c \in Conns, wpc[w].c = c, NEW j, TaskAcceptLogin(w, j)
    PROVE  IInv'
<1> DEFINE id == tasks[c][j].id
           r == conn[c]
           next == [wpc[w] EXCEPT !.n = @ - 1]
<1>1. Taken(w, "login", j)
  BY DEF TaskAcceptLogin
<1>2. /\ wpc[w].at \in Busy /\ NoNewTask /\ UNCHANGED app /\ id \in Ids
      /\ Answered(c) /\ ~Answered(c)'
  BY <1>1, TakenProperties DEF Tasks
<1>3. /\ wpc[w] \in WorkerRecords /\ WorkerOf[c] = w /\ r \in ConnRecords /\ InUse(r)
  BY <1>2, InHand
<1>4. next \in WorkerRecords /\ next.i = wpc[w].i /\ next.at \in Busy /\ next.c = c
  BY <1>2, <1>3, AfterTask
<1>5. wpc' = [wpc EXCEPT ![w] = next]
  BY <1>3 DEF TaskAcceptLogin, NextTask
<1>6. \E failed : Register(c, id, r, failed)
  BY DEF TaskAcceptLogin
<1> HIDE DEF id, next
<1>7. conn' = [conn EXCEPT ![c] = Registered(r, id)] /\ InUse(Registered(r, id))
  <2>1. Registered(r, id).status = "READ" /\ Registered(r, id).ops = r.ops \cup {"read"}
    BY <1>2, <1>3, RegisteredProperties
  <2>2. InUse(Registered(r, id))
    BY <1>3, <2>1 DEF InUse
  <2> QED BY <1>6, <2>2 DEF Register
<1>8. wpc' \in [Workers -> WorkerRecords] /\ WorkerInv'
  BY <1>2, <1>4, <1>5, <1>7, HandIInv
<1>9. r.lcid /\ ~Mapped(c) /\ c \notin pmap /\ \A t \in Threads : ~Answers(t, c)
  BY <1>2 DEF IInv, PendingInv, Pending, OnePlace
<1> QED BY <1>2, <1>3, <1>6, <1>8, <1>9, RegisterIInv DEF Keeps

---------------------------------------------------------------------------
\* The acceptor defers: the fresh connection is now found by its lcid, and
\* listed for its worker.
LEMMA StepDeferIInv ==
    ASSUME IInv, NEW c \in Conns, StepDefer(c)
    PROVE  IInv'
<1> DEFINE w == WorkerOf[c]
           p == Popped(c, "read")
           q == [p EXCEPT !.status = "WAIT_LOGIN", !.lcid = TRUE]
           r == IF dying[w] THEN Finish(q) ELSE q
<1>1. Event(c, "read") /\ conn[c].status = "LOGIN" /\ Fresh(c)
  BY DEF StepDefer, Message, IInv, FreshInv, Early
<1>2. w \in Workers /\ InUse(p) /\ p \in ConnRecords
  BY <1>1, EventFacts DEF Keeps
<1>3. /\ UNCHANGED <<tasks, cmap, app>> /\ AfterEvent(w) /\ pmap' = pmap \cup {c}
      /\ connections' = [connections EXCEPT ![w] = Append(@, c)]
      /\ conn' = [conn EXCEPT ![c] = r]
  BY DEF StepDefer
<1> HIDE DEF p
<1>4. q \in ConnRecords /\ q.status = "WAIT_LOGIN" /\ q.lcid = TRUE /\ q.ops = p.ops
  BY <1>2 DEF ConnRecords, Statuses
<1> HIDE DEF q
<1>5. Keeps(Finish(q), q) /\ Finish(q).status = "CLOSE" /\ Finish(q).ops = q.ops \cup {"finish"}
  BY <1>4, RecordOps
<1>6. r \in ConnRecords /\ r.status \in {"WAIT_LOGIN", "CLOSE"} /\ r.lcid = TRUE /\ "accept" \notin r.ops
  BY <1>2, <1>4, <1>5 DEF InUse, Keeps
<1> HIDE DEF r, w
<1>7. /\ conn'[c] = r /\ conn' \in [Conns -> ConnRecords]
      /\ \A d \in Conns : d # c => conn'[d] = conn[d]
  BY <1>3, <1>6 DEF IInv, Types
<1>8. /\ connections' \in [Workers -> Seq(Conns)]
      /\ \A v \in Workers : Once(connections'[v])
      /\ \A v \in Workers, d \in Conns :
            Listed(d, connections'[v]) => Listed(d, connections[v]) \/ (d = c /\ v = w)
  <2>1. connections[w] \in Seq(Conns) /\ Once(connections[w]) /\ ~Listed(c, connections[w])
    BY <1>1, <1>2 DEF IInv, Types, ListInv, Fresh
  <2>2. /\ Append(connections[w], c) \in Seq(Conns) /\ Once(Append(connections[w], c))
        /\ \A d : Listed(d, Append(connections[w], c)) => Listed(d, connections[w]) \/ d = c
    BY <2>1, AppendListed
  <2>3. /\ connections' \in [Workers -> Seq(Conns)] /\ connections'[w] = Append(connections[w], c)
        /\ \A v \in Workers : v # w => connections'[v] = connections[v]
    BY <1>2, <1>3, <2>2 DEF IInv, Types
  <2> QED BY <2>2, <2>3 DEF IInv, ListInv
<1>9. wpc' \in [Workers -> WorkerRecords] /\ WorkerInv'
  <2>1. \A d \in Conns : WorkerOf[d] # w => conn'[d].status = conn[d].status
    BY <1>7 DEF w
  <2> QED BY <1>2, <1>3, <2>1, AfterEventOK DEF IInv
<1>10. Types'
  BY <1>3, <1>7, <1>8, <1>9 DEF IInv, Types
<1>11. ASSUME NEW d \in Conns
       PROVE  /\ Mapped(d)' <=> Mapped(d)
              /\ Answered(d)' <=> Answered(d)
              /\ OneTask(d)' <=> OneTask(d)
              /\ \A t \in Threads : Answers(t, d)' <=> Answers(t, d)
  BY <1>3 DEF Mapped, Answered, OneTask, AnswerTask, Answers
<1>12. ASSUME NEW d \in Conns, d # c
       PROVE  (Pending(d)' => Pending(d)) /\ (Fresh(d) => Fresh(d)')
  <2>1. Pending(d)' => Pending(d)
    BY <1>3, <1>11, <1>12 DEF Pending
  <2> QED BY <1>8, <1>11, <1>12, <2>1 DEF Fresh
<1>13. FreshInv'
  BY <1>6, <1>7, <1>12 DEF IInv, FreshInv, Early
<1>14. OpsInv'
  <2>1. OpsOf(r)
    BY <1>6 DEF OpsOf
  <2> QED BY <1>7, <2>1 DEF IInv, OpsInv
<1>15. OnePlace'
  <2>1. ASSUME NEW d \in Conns
        PROVE  (/\ OneTask(d)
                /\ d \in pmap => ~Answered(d) /\ \A t \in Threads : ~Answers(t, d)
                /\ \A t, u \in Threads : Answers(t, d) => ~Answered(d) /\ (Answers(u, d) => t = u))'
    <3>1. d \in pmap' => ~Answered(d) /\ \A t \in Threads : ~Answers(t, d)
      BY <1>1, <1>3 DEF IInv, OnePlace, Fresh, Pending
    <3> QED BY <1>11, <3>1 DEF IInv, OnePlace
  <2> QED BY <2>1 DEF OnePlace
<1>16. PendingInv'
  <2>1. ASSUME NEW d \in Conns, Pending(d)' PROVE conn'[d].lcid /\ ~Mapped(d)
    BY <1>1, <1>6, <1>7, <1>12, <2>1 DEF IInv, PendingInv, Fresh
  <2> QED BY <1>11, <2>1 DEF PendingInv
<1>17. MapInv'
  <2>1. ASSUME NEW k \in Ids, cmap[k] # NoConn
        PROVE  conn'[cmap[k]].cid = k /\ conn'[cmap[k]].status \notin {"none", "deleted"}
    <3>1. cmap[k] \in Conns /\ cmap[k] # c
      BY <1>1, <2>1 DEF IInv, Types, Fresh, Mapped
    <3> QED BY <1>7, <2>1, <3>1 DEF IInv, MapInv, Live
  <2> QED BY <1>3, <2>1 DEF MapInv, Live
<1>18. PmapInv'
  BY <1>3, <1>6, <1>7 DEF IInv, PmapInv, Live, Types
<1>19. ListInv'
  <2>1. ASSUME NEW v \in Workers, NEW d \in Conns, Listed(d, connections'[v])
        PROVE  conn'[d].status \notin {"none", "deleted"} /\ WorkerOf[d] = v
    <3>1. CASE d = c /\ v = w
      BY <1>6, <1>7, <3>1 DEF w
    <3>2. CASE Listed(d, connections[v])
      <4>1. Live(d) /\ WorkerOf[d] = v
        BY <3>2 DEF IInv, ListInv
      <4> QED BY <1>6, <1>7, <4>1 DEF Live
    <3> QED BY <1>8, <2>1, <3>1, <3>2
  <2> QED BY <1>8, <2>1 DEF ListInv, Live
<1>20. AppInv'
  BY <1>3 DEF IInv, AppInv
<1> QED BY <1>9, <1>10, <1>13, <1>14, <1>15, <1>16, <1>17, <1>18, <1>19, <1>20 DEF IInv

---------------------------------------------------------------------------
(* Finalize *)

\* The end of Destroy: nothing refers to the connection any more.
LEMMA FinalizeIInv ==
    ASSUME IInv, NEW w \in Workers, NEW c \in Conns, wpc[w].c = c, Finalize(w)
    PROVE  IInv'
<1> DEFINE r == Closed(conn[c])
           x == [Poll EXCEPT !.at = wpc[w].ret, !.i = wpc[w].i]
<1>1. wpc[w].at = "finalize" /\ wpc[w].at \in Busy
  BY DEF Finalize, Busy
<1>2. /\ wpc[w] \in WorkerRecords /\ WorkerOf[c] = w /\ conn[c] \in ConnRecords /\ InUse(conn[c])
      /\ wpc[w].i >= 1
  BY <1>1, InHand DEF IInv, WorkerInv, WorkerOK, Scanning
<1>3. Keeps(r, conn[c]) /\ r.status = "deleted" /\ InUse(r) /\ OpsOf(r)
  <2>1. Keeps(r, conn[c]) /\ r.status = "deleted" /\ InUse(r)
    BY <1>2, RecordOps, InUseOps
  <2> QED BY <2>1, InUseOps DEF Keeps
<1>4. x \in WorkerRecords /\ x.at \in {"loop", "final"} /\ x.i >= 1
  <2>1. wpc[w].ret \in {"loop", "final"} /\ wpc[w].i \in Nat
    BY <1>2 DEF WorkerRecords
  <2> QED BY <1>2, <2>1, PollProperties
<1>5. /\ conn' = [conn EXCEPT ![c] = r] /\ wpc' = [wpc EXCEPT ![w] = x]
      /\ tasks' = [tasks EXCEPT ![c] = <<>>]
      /\ pmap' = IF conn[c].lcid THEN pmap \ {c} ELSE pmap
      /\ connections' = [connections EXCEPT ![w] = Without(@, c)]
      /\ Unregister(c)
  BY DEF Finalize, OnUnregister
<1> HIDE DEF r, x
<1>6. /\ conn'[c] = r /\ conn' \in [Conns -> ConnRecords]
      /\ \A d \in Conns : d # c => conn'[d] = conn[d]
  BY <1>3, <1>5 DEF IInv, Types, Keeps
<1>7. /\ tasks' \in [Conns -> Seq(Tasks)] /\ tasks'[c] = <<>>
      /\ \A d \in Conns : d # c => tasks'[d] = tasks[d]
  <2>1. <<>> \in Seq(Tasks)
    OBVIOUS
  <2> QED BY <1>5, <2>1 DEF IInv, Types
<1>8. /\ connections' \in [Workers -> Seq(Conns)]
      /\ \A v \in Workers : Once(connections'[v])
      /\ \A v \in Workers, d \in Conns :
            Listed(d, connections'[v]) => Listed(d, connections[v]) /\ (v = w => d # c)
  <2>1. connections[w] \in Seq(Conns) /\ Once(connections[w])
    BY DEF IInv, Types, ListInv
  <2>2. /\ Without(connections[w], c) \in Seq(Conns) /\ Once(Without(connections[w], c))
        /\ \A d : Listed(d, Without(connections[w], c)) => Listed(d, connections[w]) /\ d # c
    BY <2>1, WithoutProperties
  <2>3. /\ connections' \in [Workers -> Seq(Conns)] /\ connections'[w] = Without(connections[w], c)
        /\ \A v \in Workers : v # w => connections'[v] = connections[v]
    BY <1>5, <2>2 DEF IInv, Types
  <2> QED BY <2>2, <2>3 DEF IInv, ListInv
<1>9. pmap' \subseteq pmap /\ c \notin pmap'
  BY <1>5 DEF IInv, PendingInv, Pending
<1>10. /\ cmap' \in [Ids -> Conns \cup {NoConn}]
       /\ \A k \in Ids : cmap'[k] = cmap[k] \/ cmap'[k] = NoConn
       /\ \A k \in Ids : cmap'[k] # c
  <2> DEFINE id == conn[c].cid
  <2>1. id \in Ids
    BY <1>2 DEF ConnRecords
  <2>2. \A k \in Ids : cmap[k] = c => k = id
    BY NoConnAssumption DEF IInv, MapInv
  <2> HIDE DEF id
  <2>3. CASE cmap[id] = c
    <3>1. cmap' = [cmap EXCEPT ![id] = NoConn]
      BY <1>5, <2>3 DEF Unregister, id
    <3> QED BY <2>1, <2>2, <3>1, NoConnAssumption DEF IInv, Types
  <2>4. CASE cmap[id] # c
    <3>1. cmap' = cmap
      BY <1>5, <2>4 DEF Unregister, id
    <3> QED BY <2>2, <2>4, <3>1 DEF IInv, Types
  <2> QED BY <2>3, <2>4
<1>11. /\ app' \in [Threads -> AppRecords]
       /\ \A t \in Threads : app'[t].at = "login" => app[t].at = "login" /\ app'[t].c = app[t].c
  <2>1. ASSUME NEW key
        PROVE  /\ Dangle(app, key) \in [Threads -> AppRecords]
               /\ \A t \in Threads : Dangle(app, key)[t].at = "login" => Dangle(app, key)[t] = app[t]
    <3>1. ASSUME NEW t \in Threads
          PROVE  LET a == IF app[t].at = "node" /\ app[t].key = key
                            THEN [app[t] EXCEPT !.at = "dangling"] ELSE app[t] IN
                 a \in AppRecords /\ (a.at = "login" => a = app[t])
      <4>1. app[t] \in AppRecords
        BY DEF IInv, Types
      <4> QED BY <4>1 DEF AppRecords
    <3> QED BY <3>1 DEF Dangle
  <2> QED BY <1>5, <2>1 DEF Unregister, IInv, Types
<1>12. wpc' \in [Workers -> WorkerRecords] /\ wpc'[w] = x /\ \A v \in Workers : v # w => wpc'[v] = wpc[v]
  BY <1>4, <1>5 DEF IInv, Types
<1>13. WorkerInv'
  <2>1. WorkerOK(w)'
    BY <1>4, <1>12 DEF WorkerOK, Busy
  <2>2. \A d \in Conns : WorkerOf[d] # w => conn'[d].status = conn[d].status
    BY <1>2, <1>6
  <2> QED BY <1>12, <2>1, <2>2, WorkerStep DEF IInv
<1>14. Types'
  BY <1>6, <1>7, <1>8, <1>9, <1>10, <1>11, <1>12 DEF IInv, Types
<1>15. OpsInv'
  BY <1>3, <1>6 DEF IInv, OpsInv
<1>16. ASSUME NEW d \in Conns
       PROVE  /\ conn'[d].cid = conn[d].cid /\ conn'[d].lcid = conn[d].lcid
              /\ Early(d)' => Fresh(d)
              /\ OneTask(d)' /\ (Answered(d)' => Answered(d))
              /\ Referred(d)' => Live(d)'
  <2>1. conn'[d].cid = conn[d].cid /\ conn'[d].lcid = conn[d].lcid
    BY <1>3, <1>6 DEF Keeps
  <2>2. Early(d)' => Fresh(d)
    BY <1>3, <1>6 DEF IInv, FreshInv, Early
  <2>3. CASE d = c
    <3>1. ~Referred(d)'
      <4>1. ASSUME NEW v \in Workers, Listed(c, connections'[v]) PROVE FALSE
        BY <1>2, <1>8, <4>1 DEF IInv, ListInv
      <4> QED BY <1>9, <1>10, <2>3, <4>1 DEF Referred, Mapped
    <3>2. \A i \in Nat : ~AnswerTask(d, i)'
      BY <1>7, <2>3 DEF AnswerTask
    <3> QED BY <2>1, <2>2, <3>1, <3>2 DEF OneTask, Answered
  <2>4. CASE d # c
    <3>1. OneTask(d)' /\ (Answered(d)' => Answered(d))
      BY <1>7, <2>4 DEF IInv, OnePlace, OneTask, Answered, AnswerTask
    <3>2. Referred(d)' => Referred(d)
      BY <1>8, <1>9, <1>10, NoConnAssumption DEF Referred, Mapped
    <3>3. Referred(d) => Live(d)
      BY ReferredLive
    <3> QED BY <1>6, <2>1, <2>2, <2>4, <3>1, <3>2, <3>3 DEF Live
  <2> QED BY <2>3, <2>4
<1> QED BY <1>8, <1>9, <1>10, <1>11, <1>13, <1>14, <1>15, <1>16, ShrinksIInv

---------------------------------------------------------------------------
(* Application threads, and the steps of the server *)

\* A step that only moves the answers to deferred logins.
LEMMA AnswersIInv ==
    ASSUME IInv, UNCHANGED <<conn, connections, cmap, wpc>>, pmap' \subseteq pmap,
           tasks' \in [Conns -> Seq(Tasks)], app' \in [Threads -> AppRecords],
           OnePlace', AppInv', \A d \in Conns : Pending(d)' => Pending(d)
    PROVE  IInv'
<1>1. Types' /\ OpsInv' /\ WorkerInv'
  BY DEF IInv, Types, OpsInv, WorkerInv, WorkerOK
<1>2. FreshInv' /\ PendingInv'
  BY DEF IInv, FreshInv, PendingInv, Early, Fresh, Mapped
<1>3. MapInv' /\ PmapInv' /\ ListInv'
  BY DEF IInv, MapInv, PmapInv, ListInv, Live, Types
<1> QED BY <1>1, <1>2, <1>3 DEF IInv

\* A step in which the threads keep or drop their answers.
LEMMA AppIInv ==
    ASSUME IInv, UNCHANGED <<conn, connections, cmap, pmap, wpc>>, NoNewTask,
           app' \in [Threads -> AppRecords],
           \A t \in Threads : app'[t].at = "login" => app[t].at = "login" /\ app'[t].c = app[t].c
    PROVE  IInv'
<1>1. wpc' \in [Workers -> WorkerRecords] /\ WorkerInv'
  BY DEF IInv, Types, WorkerInv, WorkerOK
<1> QED BY <1>1, ElsewhereIInv

\* SysTask and AddTask: the one answer that can be new is the task itself.
LEMMA PutProperties ==
    ASSUME IInv, NEW c \in Conns \cup {NoConn}, NEW t \in Threads,
           NEW kind \in {"login", "close", "normal"}, NEW id \in Ids, Put(c, t, kind, id)
    PROVE  /\ tasks' \in [Conns -> Seq(Tasks)]
           /\ \A d \in Conns, i \in Nat : AnswerTask(d, i)' =>
                 AnswerTask(d, i) \/ (kind = "login" /\ d = c /\ i = Len(tasks[d]) + 1)
<1> DEFINE e == [by |-> t, kind |-> kind, id |-> id]
<1>1. e \in Tasks /\ e.kind = kind
  BY DEF Tasks
<1> HIDE DEF e
<1>2. CASE tasks' = tasks
  BY <1>2 DEF IInv, Types, AnswerTask
<1>3. CASE tasks' = [tasks EXCEPT ![c] = Append(@, e)]
  <2>1. CASE c \in Conns
    <3>1. tasks[c] \in Seq(Tasks)
      BY <2>1 DEF IInv, Types
    <3>2. /\ Append(tasks[c], e) \in Seq(Tasks) /\ Len(Append(tasks[c], e)) = Len(tasks[c]) + 1
          /\ Append(tasks[c], e)[Len(tasks[c]) + 1] = e /\ Len(tasks[c]) \in Nat
          /\ \A i \in 1..Len(tasks[c]) : Append(tasks[c], e)[i] = tasks[c][i]
      BY <1>1, <3>1, AppendProperties, LenProperties
    <3>3. /\ tasks' \in [Conns -> Seq(Tasks)] /\ tasks'[c] = Append(tasks[c], e)
          /\ \A d \in Conns : d # c => tasks'[d] = tasks[d]
      BY <1>3, <2>1, <3>2 DEF IInv, Types
    <3>4. ASSUME NEW i \in Nat, AnswerTask(c, i)'
          PROVE  AnswerTask(c, i) \/ (kind = "login" /\ i = Len(tasks[c]) + 1)
      BY <1>1, <3>2, <3>3, <3>4 DEF AnswerTask
    <3>5. ASSUME NEW d \in Conns, d # c, NEW i \in Nat, AnswerTask(d, i)' PROVE AnswerTask(d, i)
      BY <3>3, <3>5 DEF AnswerTask
    <3> QED BY <3>3, <3>4, <3>5
  <2>2. CASE c \notin Conns
    <3>1. tasks' = tasks
      BY <1>3, <2>2 DEF IInv, Types
    <3> QED BY <1>2, <3>1
  <2> QED BY <2>1, <2>2
<1> QED BY <1>2, <1>3 DEF Put, Enqueue, e

\* The three steps of mtk_cid_close and mtk_cid_task.
LEMMA CidIInv ==
    ASSUME IInv, NEW t \in Threads,
           \/ CidDeref(t) \/ CidEnqueue(t)
           \/ \E k \in Ids, op \in {"close", "task"} : CidLookup(t, k, op)
    PROVE  IInv'
<1>1. app \in [Threads -> AppRecords] /\ app[t] \in AppRecords
  BY DEF IInv, Types
<1>2. Idle \in AppRecords /\ Idle.at = "idle"
  BY DEF Idle, AppRecords, Ids
<1>3. CASE CidDeref(t)
  <2> DEFINE x == [app[t] EXCEPT !.at = "handle", !.c = cmap[app[t].key]]
  <2>1. cmap[app[t].key] \in Conns \cup {NoConn}
    BY <1>1 DEF IInv, Types, AppRecords
  <2>2. x \in AppRecords /\ x.at = "handle"
    BY <1>1, <2>1 DEF AppRecords
  <2>3. app' = [app EXCEPT ![t] = x] \/ app' = [app EXCEPT ![t] = Idle]
    BY <1>1, <1>3 DEF CidDeref
  <2> HIDE DEF x
  <2>4. /\ app' \in [Threads -> AppRecords] /\ app'[t].at # "login"
        /\ \A u \in Threads : u # t => app'[u] = app[u]
    BY <1>1, <1>2, <2>2, <2>3
  <2> QED BY <1>3, <2>4, AppIInv, SameTasks DEF CidDeref
<1>4. CASE CidEnqueue(t)
  <2>1. /\ app' \in [Threads -> AppRecords] /\ app'[t].at # "login"
        /\ \A u \in Threads : u # t => app'[u] = app[u]
    BY <1>1, <1>2, <1>4 DEF CidEnqueue
  <2>2. \E kind \in {"close", "normal"} : Put(app[t].c, t, kind, 0)
    BY <1>4 DEF CidEnqueue
  <2>3. app[t].c \in Conns \cup {NoConn} /\ 0 \in Ids
    BY <1>1 DEF AppRecords, Ids
  <2>4. /\ tasks' \in [Conns -> Seq(Tasks)]
        /\ \A d \in Conns, i \in Nat : AnswerTask(d, i)' => AnswerTask(d, i)
    BY <2>2, <2>3, PutProperties
  <2>5. NoNewTask
    BY <2>4 DEF NoNewTask, OneTask, Answered, IInv, OnePlace
  <2> QED BY <1>4, <2>1, <2>5, AppIInv DEF CidEnqueue
<1>5. ASSUME NEW k \in Ids, NEW op \in {"close", "task"}, CidLookup(t, k, op) PROVE IInv'
  <2> DEFINE x == [Idle EXCEPT !.at = "node", !.key = k, !.op = op]
  <2>1. x \in AppRecords /\ x.at = "node"
    BY <1>2 DEF AppRecords
  <2>2. app' = [app EXCEPT ![t] = x]
    BY <1>5 DEF CidLookup
  <2> HIDE DEF x
  <2>3. /\ app' \in [Threads -> AppRecords] /\ app'[t].at # "login"
        /\ \A u \in Threads : u # t => app'[u] = app[u]
    BY <1>1, <2>1, <2>2
  <2> QED BY <1>5, <2>3, AppIInv, SameTasks DEF CidLookup
<1> QED BY <1>3, <1>4, <1>5

\* FinishLogin takes the answer from pmap_ to the thread ...
LEMMA FinishLoginIInv ==
    ASSUME IInv, NEW t \in Threads, NEW c \in Conns, NEW id \in Ids, FinishLogin(t, c, id)
    PROVE  IInv'
<1> DEFINE x == [Idle EXCEPT !.at = "login", !.c = c, !.key = id]
<1>1. x \in AppRecords /\ x.at = "login" /\ x.c = c
  BY DEF Idle, AppRecords
<1>2. /\ c \in pmap /\ pmap' = pmap \ {c} /\ app' = [app EXCEPT ![t] = x]
      /\ UNCHANGED <<conn, tasks, connections, wpc, cmap>>
  BY DEF FinishLogin
<1> HIDE DEF x
<1>3. /\ app' \in [Threads -> AppRecords] /\ app'[t] = x
      /\ \A u \in Threads : u # t => app'[u] = app[u]
  BY <1>1, <1>2 DEF IInv, Types
<1>4. ASSUME NEW d \in Conns
      PROVE  /\ \A u \in Threads : Answers(u, d)' <=> (u = t /\ d = c) \/ (u # t /\ Answers(u, d))
             /\ (Answered(d)' <=> Answered(d)) /\ (OneTask(d)' <=> OneTask(d))
  BY <1>1, <1>2, <1>3 DEF Answers, Answered, OneTask, AnswerTask
<1>5. OnePlace'
  <2>1. ASSUME NEW d \in Conns
        PROVE  (/\ OneTask(d)
                /\ d \in pmap => ~Answered(d) /\ \A u \in Threads : ~Answers(u, d)
                /\ \A u, v \in Threads : Answers(u, d) => ~Answered(d) /\ (Answers(v, d) => u = v))'
    BY <1>2, <1>4 DEF IInv, OnePlace
  <2> QED BY <2>1 DEF OnePlace
<1>6. \A d \in Conns : Pending(d)' => Pending(d)
  BY <1>2, <1>4 DEF Pending
<1>7. AppInv'
  BY <1>1, <1>3 DEF IInv, AppInv
<1> QED BY <1>2, <1>3, <1>5, <1>6, <1>7, AnswersIInv DEF IInv, Types

\* ... and the thread puts it into the tasks.
LEMMA FinishLoginTaskIInv ==
    ASSUME IInv, NEW t \in Threads, NEW c, app[t].c = c, FinishLoginTask(t)
    PROVE  IInv'
<1>1. /\ app[t].at = "login" /\ Put(c, t, "login", app[t].key) /\ app' = [app EXCEPT ![t] = Idle]
      /\ UNCHANGED <<conn, connections, wpc, cmap, pmap>>
  BY DEF FinishLoginTask
<1>2. c \in Conns /\ app[t].key \in Ids
  BY <1>1 DEF IInv, Types, AppInv, AppRecords
<1>3. Answers(t, c)
  BY <1>1 DEF Answers
<1>4. /\ tasks' \in [Conns -> Seq(Tasks)]
      /\ \A d \in Conns, i \in Nat : AnswerTask(d, i)' =>
            AnswerTask(d, i) \/ (d = c /\ i = Len(tasks[d]) + 1)
  BY <1>1, <1>2, PutProperties
<1>5. /\ app' \in [Threads -> AppRecords] /\ app'[t].at = "idle"
      /\ \A u \in Threads : u # t => app'[u] = app[u]
  BY <1>1 DEF IInv, Types, Idle, AppRecords, Ids
<1>6. \A d \in Conns, u \in Threads : Answers(u, d)' => Answers(u, d) /\ u # t
  BY <1>5 DEF Answers
<1>7. \A d \in Conns : Answered(d)' => Answered(d) \/ d = c
  BY <1>4 DEF Answered
<1>8. OnePlace'
  <2>1. ASSUME NEW d \in Conns, d # c
        PROVE  (/\ OneTask(d)
                /\ d \in pmap => ~Answered(d) /\ \A u \in Threads : ~Answers(u, d)
                /\ \A u, v \in Threads : Answers(u, d) => ~Answered(d) /\ (Answers(v, d) => u = v))'
    <3>1. OneTask(d)'
      BY <1>4, <2>1 DEF IInv, OnePlace, OneTask
    <3> QED BY <1>1, <1>6, <1>7, <2>1, <3>1 DEF IInv, OnePlace
  <2>2. ~Answered(c) /\ c \notin pmap /\ \A u \in Threads : ~Answers(u, c)'
    BY <1>2, <1>3, <1>6 DEF IInv, OnePlace
  <2>3. OneTask(c)'
    <3>1. \A i \in Nat : AnswerTask(c, i)' => i = Len(tasks[c]) + 1
      BY <1>2, <1>4, <2>2 DEF Answered
    <3> QED BY <3>1 DEF OneTask
  <2>4. \A d \in Conns :
            /\ OneTask(d)'
            /\ d \in pmap' => ~Answered(d)' /\ \A u \in Threads : ~Answers(u, d)'
            /\ \A u, v \in Threads : Answers(u, d)' => ~Answered(d)' /\ (Answers(v, d)' => u = v)
    BY <1>1, <2>1, <2>2, <2>3
  <2> QED BY <2>4 DEF OnePlace
<1>9. \A d \in Conns : Pending(d)' => Pending(d)
  BY <1>1, <1>3, <1>6, <1>7 DEF Pending
<1>10. AppInv'
  BY <1>5 DEF IInv, AppInv
<1> QED BY <1>1, <1>4, <1>5, <1>8, <1>9, <1>10, AnswersIInv

\* The steps that no connection, worker or application thread takes part in.
LEMMA OthersIInv ==
    ASSUME IInv, UNCHANGED <<conn, tasks, connections, wpc, cmap, pmap, app>>
    PROVE  IInv'
BY AppIInv, SameTasks DEF IInv, Types

---------------------------------------------------------------------------
(* The theorems *)

\* Every initial state, before and after the start of the server, satisfies
\* the invariant.
THEOREM InitIInv == Init => IInv
<1> SUFFICES ASSUME Init PROVE IInv
  OBVIOUS
<1>1. NewConn \in ConnRecords /\ NewConn.status = "none" /\ NewConn.ops = {} /\ NewConn.lcid = FALSE
  BY DEF NewConn, ConnRecords, Statuses, Ids
<1>2. /\ Waiting(NewConn) \in ConnRecords /\ Waiting(NewConn).status = "ACCEPT"
      /\ Waiting(NewConn).ops = {"accept"}
  BY <1>1, RecordOps DEF Keeps
<1>3. /\ conn \in [Conns -> {NewConn, Waiting(NewConn)}]
      /\ "startup" \in Uses => \A c \in Conns : conn[c] = NewConn
  BY DEF Init
<1>4. Idle \in AppRecords /\ Idle.at = "idle"
  BY DEF Idle, AppRecords, Ids
<1> DEFINE x == [Poll EXCEPT !.at = "unlaunched"]
<1>5. Poll \in WorkerRecords /\ Poll.at = "poll" /\ x \in WorkerRecords /\ x.at = "unlaunched"
  BY PollProperties DEF WorkerRecords
<1> HIDE DEF x
<1>6. /\ wpc \in [Workers -> WorkerRecords]
      /\ \A w \in Workers : wpc[w].at = "poll" \/ (wpc[w].at = "unlaunched" /\ "startup" \in Uses)
  BY <1>5 DEF Init, x
<1>7. <<>> \in Seq(Tasks) /\ <<>> \in Seq(Conns) /\ Len(<<>>) = 0
  OBVIOUS
<1>8. /\ tasks = [c \in Conns |-> <<>>] /\ connections = [w \in Workers |-> <<>>]
      /\ cmap = [k \in Ids |-> NoConn] /\ pmap = {} /\ app = [t \in Threads |-> Idle]
  BY DEF Init
<1>9. Types
  BY <1>1, <1>2, <1>3, <1>4, <1>6, <1>7, <1>8 DEF Types
<1>10. ASSUME NEW c \in Conns
       PROVE  /\ ~Mapped(c) /\ ~Pending(c) /\ OneTask(c)
              /\ \A t \in Threads : ~Answers(t, c)
              /\ \A w \in Workers : ~Listed(c, connections[w])
  <2>1. \A j \in Nat : ~AnswerTask(c, j)
    BY <1>7, <1>8 DEF AnswerTask
  <2>2. \A w \in Workers : ~Listed(c, connections[w])
    BY <1>7, <1>8 DEF Listed
  <2>3. \A t \in Threads : ~Answers(t, c)
    BY <1>4, <1>8 DEF Answers
  <2>4. ~Mapped(c)
    BY <1>8, NoConnAssumption DEF Mapped
  <2> QED BY <1>8, <2>1, <2>2, <2>3, <2>4 DEF OneTask, Pending, Answered
<1>11. FreshInv /\ OnePlace /\ PendingInv
  BY <1>8, <1>10 DEF FreshInv, Fresh, OnePlace, PendingInv
<1>12. OpsInv
  BY <1>1, <1>2, <1>3 DEF OpsInv, OpsOf
<1>13. MapInv /\ PmapInv /\ AppInv
  BY <1>4, <1>8 DEF MapInv, PmapInv, AppInv
<1>14. ListInv
  BY <1>7, <1>8, <1>10 DEF ListInv, Once
<1>15. WorkerInv
  BY <1>1, <1>3, <1>6 DEF WorkerInv, WorkerOK, Scanning, Busy
<1> QED BY <1>9, <1>11, <1>12, <1>13, <1>14, <1>15 DEF IInv

\* Every step keeps the invariant.
THEOREM NextIInv == IInv /\ [Next]_vars => IInv'
<1> SUFFICES ASSUME IInv, [Next]_vars PROVE IInv'
  OBVIOUS
<1>1. CASE Starting
  <2>1. CASE Run \/ BuildAndStart \/ StartWaits \/ Notify
    BY <2>1, OthersIInv DEF Run, BuildAndStart, StartWaits, Notify
  <2>2. ASSUME NEW w \in Workers, Launch(w) \/ New(w) PROVE IInv'
    BY <2>2, WorkerMovesIInv, NewIInv
  <2> QED BY <1>1, <2>1, <2>2 DEF Starting
<1>2. ASSUME NEW c \in Conns,
             \/ CallArrives(c) \/ Accept(c) \/ StepClientClose(c) \/ Login(c) \/ Request(c)
             \/ Ending(c) \/ ClientGone(c)
      PROVE  IInv'
  <2>1. CASE Accept(c)
    BY <2>1, AcceptIInv
  <2>2. CASE StepClientClose(c) \/ Request(c)
    BY <2>2, SimpleEventsIInv DEF Request
  <2>3. CASE Login(c)
    BY <2>3, StepLoginIInv, SimpleEventsIInv, StepDeferIInv DEF Login
  <2>4. CASE Ending(c)
    BY <2>4, EndingIInv, SimpleEventsIInv, AcceptFailIInv DEF Ending
  <2>5. CASE CallArrives(c) \/ ClientGone(c)
    BY <2>5, OthersIInv DEF CallArrives, ClientGone
  <2> QED BY <1>2, <2>1, <2>2, <2>3, <2>4, <2>5
<1>3. ASSUME NEW w \in Workers, Timeout(w) \/ Inside(w) \/ PrepareShutdown(w) \/ ShutdownEvent(w)
      PROVE  IInv'
  <2>1. CASE Timeout(w) \/ ShutdownEvent(w) \/ FinalConn(w)
    BY <2>1, WorkerMovesIInv
  <2>2. CASE PrepareShutdown(w)
    BY <2>2, OthersIInv DEF PrepareShutdown
  <2>3. CASE LoopConn(w)
    BY <2>3, LoopConnIInv
  <2>4. CASE TasksDone(w) \/ Finalize(w)
    <3>1. wpc[w].c \in Conns
      BY <2>4, InHand DEF TasksDone, Finalize, Busy
    <3> QED BY <2>4, <3>1, TasksIInv, FinalizeIInv
  <2>5. ASSUME wpc[w].c \in Conns, NEW j \in Heads(tasks[wpc[w].c]),
               TaskAcceptLogin(w, j) \/ TaskDenyLogin(w, j) \/ TaskClose(w, j) \/ TaskHandle(w, j)
        PROVE  IInv'
    BY <2>5, TasksIInv, TaskAcceptLoginIInv
  <2> QED BY <1>3, <2>1, <2>2, <2>3, <2>4, <2>5 DEF Inside
<1>4. ASSUME NEW t \in Threads,
             \/ AppStep(t)
             \/ \E k \in Ids, op \in {"close", "task"} : CidLookup(t, k, op)
             \/ \E c \in Conns, id \in Ids : FinishLogin(t, c, id)
      PROVE  IInv'
  BY <1>4, CidIInv, FinishLoginIInv, FinishLoginTaskIInv DEF AppStep
<1>5. CASE ServerShutdown \/ CallsOver \/ Joined \/ Join
  BY <1>5, OthersIInv DEF ServerShutdown, CallsOver, Joined, Join
<1>6. CASE UNCHANGED vars
  BY <1>6, OthersIInv DEF vars
<1> QED BY <1>1, <1>2, <1>3, <1>4, <1>5, <1>6 DEF Next

\* What cmap_ and pmap_ find and what connections_ lists is alive, and carries
\* the id it is found by, for every number of connections, workers and threads.
THEOREM MapsLiveTheorem == Safety => []MapsLive
<1>1. IInv => MapsLive
  <2> SUFFICES ASSUME IInv PROVE MapsLive
    OBVIOUS
  <2>1. ASSUME NEW w \in Workers, NEW i \in 1..Cardinality(Conns), NEW j \in 1..Cardinality(Conns),
               i <= Len(connections[w])
        PROVE  /\ Live(connections[w][i]) /\ WorkerOf[connections[w][i]] = w
               /\ j < i => connections[w][i] # connections[w][j]
    <3>1. connections[w] \in Seq(Conns) /\ Once(connections[w]) /\ Len(connections[w]) \in Nat
      BY LenProperties DEF IInv, Types, ListInv
    <3>2. i \in 1..Len(connections[w]) /\ connections[w][i] \in Conns
      BY <2>1, <3>1, ElementOfSeq
    <3>3. Listed(connections[w][i], connections[w])
      BY <3>2 DEF Listed
    <3>4. j < i => j \in 1..Len(connections[w]) /\ j # i
      BY <3>1, <3>2
    <3> QED BY <3>1, <3>2, <3>3, <3>4 DEF IInv, ListInv, Once
  <2>2. ListedLive
    BY <2>1 DEF ListedLive
  <2>3. \A c \in pmap : Live(c) /\ conn[c].lcid
    BY DEF IInv, PmapInv, PendingInv, Pending, Types
  <2> QED BY <2>2, <2>3 DEF MapsLive, IInv, MapInv
<1> QED BY <1>1, InitIInv, NextIInv, PTL DEF Safety

\* Only Finalize erases an id, and only that of the connection it deletes: the
\* end of an older connection does not unregister a newer one.
THEOREM NewerSurvivesTheorem == Safety => NewerSurvives
<1> DEFINE Kept == \A k \in Ids : cmap[k] # NoConn /\ cmap'[k] = NoConn
                                    => conn'[cmap[k]].status = "deleted"
<1>1. ASSUME IInv, [Next]_vars, NEW k \in Ids, cmap[k] # NoConn, cmap'[k] = NoConn
      PROVE  conn'[cmap[k]].status = "deleted"
  <2>1. ~UNCHANGED cmap
    BY <1>1
  <2>2. \/ \E c \in Conns, id \in Ids : StepLogin(c, id)
        \/ \E w \in Workers : Finalize(w)
        \/ \E w \in Workers : wpc[w].c \in Conns /\ \E j \in Heads(tasks[wpc[w].c]) : TaskAcceptLogin(w, j)
    BY <1>1, <2>1
    DEF Next, vars, Starting, Run, BuildAndStart, StartWaits, Notify, Launch, New, CallArrives,
        Accept, StepClientClose, Login, StepRefuse, StepDefer, Request, StepHandle, StepHandleClose, Ending,
        StepClose, ReadFail, CloserDone, AcceptFail, ClientGone, Timeout, Inside, LoopConn, TasksDone,
        FinalConn, TaskDenyLogin, TaskClose, TaskHandle, PrepareShutdown, ShutdownEvent, CidLookup,
        FinishLogin, AppStep, CidDeref, CidEnqueue, FinishLoginTask, ServerShutdown, CallsOver,
        Joined, Join
  <2>3. ASSUME NEW c \in Conns, NEW id, cmap' = [cmap EXCEPT ![id] = c] PROVE FALSE
    BY <1>1, <2>3, NoConnAssumption DEF IInv, Types
  <2>4. ASSUME NEW c \in Conns, NEW id \in Ids, StepLogin(c, id) PROVE FALSE
    BY <2>1, <2>3, <2>4 DEF StepLogin, Register, ServerRegister
  <2>5. ASSUME NEW w \in Workers, wpc[w].c \in Conns, NEW j, TaskAcceptLogin(w, j) PROVE FALSE
    BY <2>3, <2>5 DEF TaskAcceptLogin, Register, ServerRegister
  <2>6. ASSUME NEW w \in Workers, Finalize(w) PROVE conn'[cmap[k]].status = "deleted"
    <3> DEFINE c == wpc[w].c
    <3>1. c \in Conns /\ conn[c] \in ConnRecords
      BY <1>1, <2>6, InHand DEF Finalize, Busy
    <3>2. Unregister(c) /\ conn' = [conn EXCEPT ![c] = Closed(@)]
      BY <2>6 DEF Finalize
    <3> HIDE DEF c
    <3>3. cmap[conn[c].cid] = c /\ cmap' = [cmap EXCEPT ![conn[c].cid] = NoConn]
      BY <2>1, <3>2 DEF Unregister
    <3>4. cmap[k] = c
      BY <1>1, <3>3 DEF IInv, Types
    <3>5. conn'[c].status = "deleted"
      BY <1>1, <3>1, <3>2, RecordOps DEF IInv, Types
    <3> QED BY <3>4, <3>5
  <2> QED BY <2>2, <2>4, <2>5, <2>6
<1>2. IInv /\ [Next]_vars => [Kept]_vars
  BY <1>1
<1> QED BY <1>2, InitIInv, NextIInv, PTL DEF Safety, NewerSurvives
===========================================================================
