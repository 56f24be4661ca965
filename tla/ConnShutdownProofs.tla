------------------------- MODULE ConnShutdownProofs -------------------------
(***************************************************************************)
(* Module Conn, for every number of connections, workers, threads and ids: *)
(* the operations in flight (NoDanglingTag), the assertions of the code     *)
(* (AssertionsHold), what a shutdown leaves (NothingLeft) and the use of    *)
(* deleted objects (NoUseAfterFree), each for the applications it holds of. *)
(*                                                                         *)
(* The argument goes worker by worker.  A connection has one completion to  *)
(* come, none while it waits for its login or is being destroyed; and a     *)
(* worker without a waiter is dying, and passes once more over every        *)
(* connection that waits for its login, unless a closer's completion will   *)
(* make it do so.                                                           *)
(***************************************************************************)
EXTENDS ConnProofs, FiniteSetTheorems
LOCAL INSTANCE SequencesExt

---------------------------------------------------------------------------
(* The applications *)

\* An application that answers deferred logins from its threads does not shut
\* the server down: the answer to a connection which a dying worker has closed
\* would be registered (AcceptLogin's assertion).
NoLateAnswer == Threads = {} \/ "defer" \notin Uses \/ "shutdown" \notin Uses

\* Nor does it close connections with mtk_cid_close, which finishes a call
\* whether it has been finished or not.
NoCidClose == Threads = {} \/ "close" \notin Uses

\* It reaches no connection by its id.
NoStaleUse == Threads = {} \/ {"close", "task"} \cap Uses = {}

---------------------------------------------------------------------------
(* The invariant *)

\* The worker of c is in Destroy with it.
Held(c) == wpc[WorkerOf[c]].at \in {"destroy", "finalize"} /\ wpc[WorkerOf[c]].c = c

\* A connection nobody is destroying.
Rests(c) ==
    LET r == conn[c] IN
    /\ r.status \in {"none", "deleted"} => r.ops = {}
    /\ r.status = "WAIT_LOGIN" => r.ops = {} /\ Listed(c, connections[WorkerOf[c]])
    /\ r.status \in {"ACCEPT", "LOGIN", "READ", "CLOSE"} => \E tag : r.ops = {tag}

\* One completion is due to a connection, none to one that waits for its login
\* or is being destroyed.
OpOK(c) ==
    /\ conn[c].closers \in Nat
    /\ ~Held(c) => Rests(c)
    /\ Held(c) => conn[c].status \in {"LOGIN", "READ", "CLOSE"} /\ conn[c].ops = {}

OwnOps(w) == \A c \in Conns : WorkerOf[c] = w => OpOK(c)

\* The connection whose tasks are consumed in the loop is logged in or waits
\* for its login; Destroy is called in the loop only.
HandOK(w) ==
    /\ wpc[w].at = "consume" => conn[wpc[w].c].status \in {"WAIT_LOGIN", "READ", "CLOSE"}
    /\ wpc[w].at \in Busy \cup {"loop"} => wpc[w].ret = "loop"

Launched(w) == wpc[w].at \notin {"unlaunched", "new"}
Waits(w) == \E c \in Conns : WorkerOf[c] = w /\ conn[c].status = "ACCEPT"
Closing(w) == \E c \in Conns : WorkerOf[c] = w /\ conn[c].closers > 0

\* A connection waits for its login at place j of connections_, and the loop
\* of the worker will come to it.
WaitsAt(w, j) == j \in 1..Len(connections[w]) /\ conn[connections[w][j]].status = "WAIT_LOGIN"
Ahead(w, j) == /\ wpc[w].at \in Busy \cup {"loop"} /\ j >= wpc[w].i
               /\ wpc[w].at \in {"destroy", "finalize"} => wpc[w].i = 1

\* A worker without a waiter is dying.  If Destroy has erased an entry of
\* connections_ and the loop has skipped the next one, the closer of the
\* deleted connection makes the worker loop again.
ScanOK(w) ==
    Launched(w) /\ ~Waits(w) =>
        dying[w] /\ (Closing(w) \/ \A j \in Nat : WaitsAt(w, j) => Ahead(w, j))

\* A worker whose queue was shut down has nothing left.
EndOK(w) ==
    wpc[w].at \in {"final", "done"} =>
        /\ dying[w] /\ connections[w] = <<>>
        /\ \A c \in Conns : WorkerOf[c] = w => ~Live(c) /\ conn[c].ops = {} /\ conn[c].closers = 0

WorkOK(w) == OwnOps(w) /\ HandOK(w) /\ ScanOK(w) /\ EndOK(w)

WorkInv == \A w \in Workers : WorkOK(w)

\* The answer to a deferred login finds the connection waiting for it.
WaitsInv ==
    \A c \in Conns :
        /\ Pending(c) /\ Threads # {} => conn[c].status = "WAIT_LOGIN"
        /\ "defer" \notin Uses => ~Pending(c) /\ conn[c].status # "WAIT_LOGIN"

\* What mtk_cid_* finds has been logged in.
Served(c) == conn[c].status \in {"READ", "CLOSE", "deleted"}

ServedInv ==
    /\ \A k \in Ids : cmap[k] # NoConn => conn[cmap[k]].status \in {"READ", "CLOSE"}
    /\ \A t \in Threads : /\ app[t].at = "node" => cmap[app[t].key] # NoConn
                          /\ app[t].at = "handle" => app[t].c \in Conns /\ Served(app[t].c)
    /\ \A c \in Conns : ~Served(c) => \A j \in 1..Len(tasks[c]) : tasks[c][j].kind = "login"

\* How far the server is, and its workers with it.
PhaseInv ==
    /\ dying \in [Workers -> BOOLEAN]
    /\ \A w \in Workers : dying[w] => "shutdown" \in Uses
    /\ srv \in {"run", "starting", "failing", "failed"} => \A w \in Workers : wpc[w].at = "unlaunched"
    /\ srv \in {"run", "starting", "launching", "failing", "failed", "up", "preparing",
                "shutting", "draining", "down", "deleted"}
    /\ srv \in {"up", "preparing", "shutting", "draining", "down"} =>
           \A w \in Workers : wpc[w].at # "unlaunched"
    /\ srv \in {"shutting", "draining", "down", "deleted"} => \A w \in Workers : dying[w]
    /\ srv = "down" => \A w \in Workers : wpc[w].at = "done"
    /\ srv = "deleted" => \/ \A w \in Workers : wpc[w].at = "done"
                          \/ \A w \in Workers : wpc[w].at = "unlaunched"
    /\ start = "returned" => srv # "run"

SInv == WorkInv /\ WaitsInv /\ ServedInv /\ PhaseInv /\ AssertionsHold

---------------------------------------------------------------------------
(* Sequences *)

\* push_back keeps what is there, and adds c.
LEMMA AppendKeeps ==
    ASSUME NEW S, NEW s \in Seq(S), NEW c \in S
    PROVE  Listed(c, Append(s, c)) /\ \A d : Listed(d, s) => Listed(d, Append(s, c))
<1>1. /\ Len(s) \in Nat /\ Len(Append(s, c)) = Len(s) + 1 /\ Append(s, c)[Len(s) + 1] = c
      /\ \A i \in 1..Len(s) : Append(s, c)[i] = s[i]
  BY LenProperties, AppendProperties
<1>2. 1..Len(s) \subseteq 1..Len(Append(s, c)) /\ Len(s) + 1 \in 1..Len(Append(s, c))
  BY <1>1
<1> QED BY <1>1, <1>2 DEF Listed

\* find and erase keeps every other element.
LEMMA WithoutKeeps ==
    ASSUME NEW S, NEW s \in Seq(S), NEW c, NEW d, d # c, Listed(d, s)
    PROVE  Listed(d, Without(s, c))
<1>1. CASE ~Listed(c, s)
  BY <1>1 DEF Without
<1>2. CASE Listed(c, s)
  <2> DEFINE i == CHOOSE k \in 1..Len(s) : s[k] = c
  <2>1. i \in 1..Len(s) /\ s[i] = c
    BY <1>2 DEF Listed
  <2>2. Without(s, c) = Dequeue(s, i)
    BY <1>2 DEF Without, Dequeue, RemoveAt
  <2> HIDE DEF i
  <2> DEFINE r == Dequeue(s, i)
  <2>3. /\ Len(s) \in Nat /\ Len(r) = Len(s) - 1
        /\ \A k \in 1..(Len(s) - 1) : r[k] = IF k < i THEN s[k] ELSE s[k + 1]
    BY <2>1, DequeueProperties, LenProperties
  <2> HIDE DEF r
  <2>4. PICK k \in 1..Len(s) : s[k] = d
    BY DEF Listed
  <2>5. CASE k < i
    <3>1. k \in 1..Len(r) /\ r[k] = d
      BY <2>1, <2>3, <2>4, <2>5
    <3> QED BY <2>2, <3>1 DEF Listed, r
  <2>6. CASE ~(k < i)
    <3>1. k # i
      BY <2>1, <2>4
    <3>2. k - 1 \in 1..Len(r) /\ ~(k - 1 < i) /\ (k - 1) + 1 = k
      BY <2>1, <2>3, <2>4, <2>6, <3>1
    <3>3. r[k - 1] = d
      BY <2>3, <2>4, <3>2
    <3> QED BY <2>2, <3>2, <3>3 DEF Listed, r
  <2> QED BY <2>5, <2>6
<1> QED BY <1>1, <1>2

---------------------------------------------------------------------------
(* Workers *)

\* What connections_ has at a place belongs to the worker, lives and is in use.
LEMMA AtPlace ==
    ASSUME IInv, NEW w \in Workers, NEW j \in 1..Len(connections[w])
    PROVE  LET c == connections[w][j] IN
           /\ c \in Conns /\ WorkerOf[c] = w /\ Listed(c, connections[w])
           /\ conn[c].status \in {"WAIT_LOGIN", "READ", "CLOSE"} /\ conn[c] \in ConnRecords
<1> DEFINE c == connections[w][j]
<1>1. connections[w] \in Seq(Conns) /\ Len(connections[w]) \in Nat /\ c \in Conns
  BY LenProperties, ElementOfSeq DEF IInv, Types
<1>2. Listed(c, connections[w])
  BY DEF Listed
<1> HIDE DEF c
<1>3. Live(c) /\ WorkerOf[c] = w /\ ~Fresh(c)
  BY <1>1, <1>2 DEF IInv, ListInv, Fresh
<1>4. ~Early(c) /\ conn[c].status \in Statuses /\ conn[c] \in ConnRecords
  BY <1>1, <1>3 DEF IInv, FreshInv, Types, ConnRecords
<1>5. conn[c].status \in {"WAIT_LOGIN", "READ", "CLOSE"}
  BY <1>3, <1>4 DEF Live, Early, Statuses
<1> QED BY <1>1, <1>2, <1>3, <1>4, <1>5 DEF c

\* A step of other workers and threads.
LEMMA WorkElsewhere ==
    ASSUME IInv, NEW v \in Workers, WorkOK(v),
           wpc'[v] = wpc[v], connections'[v] = connections[v], dying[v] => dying'[v],
           \A c \in Conns : WorkerOf[c] = v => conn'[c] = conn[c]
    PROVE  WorkOK(v)'
<1>1. ASSUME NEW c \in Conns, WorkerOf[c] = v PROVE OpOK(c)'
  <2>1. conn'[c] = conn[c] /\ OpOK(c)
    BY <1>1 DEF WorkOK, OwnOps
  <2> QED BY <1>1, <2>1 DEF OpOK, Held, Rests
<1>2. OwnOps(v)'
  BY <1>1 DEF OwnOps
<1>3. wpc[v].at \in Busy => conn'[wpc[v].c] = conn[wpc[v].c]
  BY DEF IInv, WorkerInv, WorkerOK
<1>4. HandOK(v)'
  BY <1>3 DEF WorkOK, HandOK, Busy
<1>5. ASSUME NEW j \in Nat, WaitsAt(v, j)' PROVE WaitsAt(v, j)
  <2>1. connections[v][j] \in Conns /\ WorkerOf[connections[v][j]] = v
    BY <1>5, AtPlace DEF WaitsAt
  <2> QED BY <1>5, <2>1 DEF WaitsAt
<1>6. ScanOK(v)'
  <2>1. (Launched(v)' => Launched(v)) /\ (Waits(v) => Waits(v)') /\ (Closing(v) => Closing(v)')
    BY DEF Launched, Waits, Closing
  <2>2. \A j \in Nat : Ahead(v, j) => Ahead(v, j)'
    BY DEF Ahead
  <2> QED BY <1>5, <2>1, <2>2 DEF WorkOK, ScanOK
<1>7. EndOK(v)'
  BY DEF WorkOK, EndOK, Live
<1> QED BY <1>2, <1>4, <1>6, <1>7 DEF WorkOK

\* A step that no worker takes.
LEMMA WorkersRest ==
    ASSUME IInv, WorkInv, UNCHANGED <<conn, connections, wpc>>,
           \A v \in Workers : dying[v] => dying'[v]
    PROVE  WorkInv'
BY WorkElsewhere DEF WorkInv

\* A step of worker w inside Run.
LEMMA WorkerSInv ==
    ASSUME IInv, SInv, NEW w \in Workers, wpc[w].at \notin {"unlaunched", "new", "done"},
           NEW x, wpc' = [wpc EXCEPT ![w] = x], x.at \notin {"unlaunched", "new"},
           \A v \in Workers : v # w => connections'[v] = connections[v],
           \A c \in Conns : WorkerOf[c] # w => conn'[c] = conn[c],
           UNCHANGED <<dying, srv, start>>,
           WorkOK(w)', WaitsInv', ServedInv', AssertionsHold'
    PROVE  SInv'
<1>1. wpc'[w] = x /\ \A v \in Workers : v # w => wpc'[v] = wpc[v]
  BY DEF IInv, Types
<1>2. WorkInv'
  <2>1. ASSUME NEW v \in Workers, v # w PROVE WorkOK(v)'
    <3>1. WorkOK(v) /\ \A c \in Conns : WorkerOf[c] = v => conn'[c] = conn[c]
      BY <2>1 DEF SInv, WorkInv
    <3> QED BY <1>1, <2>1, <3>1, WorkElsewhere
  <2> QED BY <2>1 DEF WorkInv
<1>3. srv \notin {"run", "starting", "failing", "failed", "down", "deleted"}
  BY DEF SInv, PhaseInv
<1>4. PhaseInv'
  BY <1>1, <1>3 DEF SInv, PhaseInv
<1> QED BY <1>2, <1>4 DEF SInv

\* A step of Start, Kick, Shutdown and mtk_server_join, or of a thread.
LEMMA RestSInv ==
    ASSUME IInv, SInv, UNCHANGED <<conn, connections, wpc>>,
           \A v \in Workers : dying[v] => dying'[v],
           WaitsInv', ServedInv', AssertionsHold', PhaseInv'
    PROVE  SInv'
BY WorkersRest DEF SInv

---------------------------------------------------------------------------
(* What refers to connections *)

\* How a step may change the status of c: a connection waits for its login
\* until its answer has been taken, and once logged in stays so until it is
\* closed.
Moves(c) ==
    \/ conn'[c].status = conn[c].status
    \/ Early(c) /\ conn'[c].status # "WAIT_LOGIN"
    \/ conn[c].status \in {"READ", "CLOSE"} /\ conn'[c].status \in {"READ", "CLOSE"}
    \/ /\ conn[c].status = "WAIT_LOGIN" /\ conn'[c].status \in {"READ", "CLOSE"}
       /\ Threads = {} \/ ~Pending(c)'

\* A step that leaves every task where it is, or takes some away.
TasksShrink ==
    \A c \in Conns : \A j \in 1..Len(tasks'[c]) : \E k \in 1..Len(tasks[c]) : tasks'[c][j] = tasks[c][k]

\* Such a step, which adds to cmap_ only connections in READ.
LEMMA RefsInv ==
    ASSUME IInv, WaitsInv, ServedInv, \A c \in Conns : Moves(c),
           UNCHANGED app, TasksShrink, \A c \in Conns : Pending(c)' => Pending(c),
           \A k \in Ids : /\ cmap[k] # NoConn => cmap'[k] # NoConn
                          /\ cmap'[k] # cmap[k] => conn'[cmap'[k]].status = "READ"
    PROVE  WaitsInv' /\ ServedInv'
<1>1. ASSUME NEW c \in Conns
      PROVE  /\ Pending(c)' /\ Threads # {} => conn'[c].status = "WAIT_LOGIN"
             /\ "defer" \notin Uses => ~Pending(c)' /\ conn'[c].status # "WAIT_LOGIN"
             /\ Served(c) => Served(c)'
  <2>1. Moves(c) /\ (Pending(c)' => Pending(c))
    OBVIOUS
  <2>2. /\ Pending(c) /\ Threads # {} => conn[c].status = "WAIT_LOGIN"
        /\ "defer" \notin Uses => ~Pending(c) /\ conn[c].status # "WAIT_LOGIN"
    BY DEF WaitsInv
  <2>3. Early(c) => ~Pending(c)
    BY DEF IInv, FreshInv, Fresh
  <2> QED BY <2>1, <2>2, <2>3 DEF Moves, Served, Early
<1>2. ASSUME NEW k \in Ids, cmap'[k] # NoConn PROVE conn'[cmap'[k]].status \in {"READ", "CLOSE"}
  <2>1. CASE cmap'[k] # cmap[k]
    BY <2>1
  <2>2. CASE cmap'[k] = cmap[k]
    <3>1. cmap[k] \in Conns /\ conn[cmap[k]].status \in {"READ", "CLOSE"}
      BY <1>2, <2>2 DEF IInv, Types, ServedInv
    <3>2. Moves(cmap[k])
      BY <3>1
    <3> QED BY <2>2, <3>1, <3>2 DEF Moves, Early
  <2> QED BY <2>1, <2>2
<1>3. ASSUME NEW t \in Threads
      PROVE  /\ app[t].at = "node" => cmap'[app[t].key] # NoConn
             /\ app[t].at = "handle" => app[t].c \in Conns /\ Served(app[t].c)'
  <2>1. app[t].key \in Ids
    BY DEF IInv, Types, AppRecords
  <2>2. /\ app[t].at = "node" => cmap[app[t].key] # NoConn
        /\ app[t].at = "handle" => app[t].c \in Conns /\ Served(app[t].c)
    BY DEF ServedInv
  <2>3. app[t].at = "handle" => Served(app[t].c)'
    BY <1>1, <2>2 DEF Served
  <2> QED BY <2>1, <2>2, <2>3
<1>4. ASSUME NEW c \in Conns, ~Served(c)', NEW j \in 1..Len(tasks'[c]) PROVE tasks'[c][j].kind = "login"
  <2>1. ~Served(c)
    BY <1>1, <1>4
  <2>2. PICK k \in 1..Len(tasks[c]) : tasks'[c][j] = tasks[c][k]
    BY <1>4 DEF TasksShrink
  <2> QED BY <2>1, <2>2 DEF ServedInv
<1>5. WaitsInv'
  BY <1>1 DEF WaitsInv
<1>6. ServedInv'
  <2>1. app' = app
    OBVIOUS
  <2> QED BY <1>2, <1>3, <1>4, <2>1 DEF ServedInv, Served
<1> QED BY <1>5, <1>6

\* The step of a worker that changes the record of its connection c, and
\* nothing that refers to a connection.
LEMMA RefsOfOne ==
    ASSUME IInv, SInv, NEW c \in Conns, NEW r, conn' = [conn EXCEPT ![c] = r],
           UNCHANGED <<cmap, pmap, app>>, tasks' = tasks \/ (TasksShrink /\ NoNewTask),
           \/ r.status = conn[c].status
           \/ Early(c) /\ r.status # "WAIT_LOGIN"
           \/ conn[c].status \in {"READ", "CLOSE"} /\ r.status \in {"READ", "CLOSE"}
           \/ /\ conn[c].status = "WAIT_LOGIN" /\ r.status \in {"READ", "CLOSE"}
              /\ Threads = {} \/ ~Pending(c)'
    PROVE  WaitsInv' /\ ServedInv'
<1>1. conn'[c] = r /\ \A d \in Conns : d # c => conn'[d] = conn[d]
  BY DEF IInv, Types
<1>2. \A d \in Conns : Moves(d)
  BY <1>1 DEF Moves
<1>3. TasksShrink /\ \A d \in Conns : Answered(d)' => Answered(d)
  <2>1. CASE tasks' = tasks
    <3>1. \A d \in Conns : Answered(d)' => Answered(d)
      BY <2>1, SameTasks DEF NoNewTask
    <3> QED BY <2>1, <3>1 DEF TasksShrink
  <2> QED BY <2>1 DEF NoNewTask
<1>4. \A d \in Conns : Pending(d)' => Pending(d)
  BY <1>3 DEF Pending, Answers
<1> QED BY <1>2, <1>3, <1>4, RefsInv DEF SInv

---------------------------------------------------------------------------
(* The counters of a connection *)

\* The calls and closers the operations of a Conn count.
Counts(s, r) ==
    s.closers = r.closers /\ s.finishes = r.finishes /\ s.lateRead = r.lateRead /\ s.closed = r.closed

LEMMA CountOps ==
    ASSUME NEW r \in ConnRecords
    PROVE  /\ Counts(Waiting(r), r) /\ Counts(InternalClose(r), r)
           /\ /\ Recv(r).closers = r.closers /\ Recv(r).finishes = r.finishes /\ Recv(r).closed = r.closed
              /\ Recv(r).lateRead = (r.lateRead \/ r.finishes > 0)
           /\ /\ Finish(r).closers = r.closers /\ Finish(r).finishes = r.finishes + 1
              /\ Finish(r).lateRead = r.lateRead /\ Finish(r).closed = r.closed
           /\ /\ FinishByTask(r).closers = r.closers + 1 /\ FinishByTask(r).finishes = r.finishes + 1
              /\ FinishByTask(r).lateRead = r.lateRead /\ FinishByTask(r).closed = r.closed
           /\ /\ Closed(r).closers = r.closers /\ Closed(r).finishes = r.finishes
              /\ Closed(r).lateRead = r.lateRead /\ Closed(r).closed = r.closed + 1
<1>1. Counts(Waiting(r), r) /\ Counts(InternalClose(r), r)
  BY DEF ConnRecords, Counts, Waiting, InternalClose
<1>2. /\ Recv(r).closers = r.closers /\ Recv(r).finishes = r.finishes /\ Recv(r).closed = r.closed
      /\ Recv(r).lateRead = (r.lateRead \/ r.finishes > 0)
  BY DEF ConnRecords, Recv
<1>3. /\ Finish(r).closers = r.closers /\ Finish(r).finishes = r.finishes + 1
      /\ Finish(r).lateRead = r.lateRead /\ Finish(r).closed = r.closed
  BY DEF ConnRecords, Finish
<1>4. /\ FinishByTask(r).closers = r.closers + 1 /\ FinishByTask(r).finishes = r.finishes + 1
      /\ FinishByTask(r).lateRead = r.lateRead /\ FinishByTask(r).closed = r.closed
  BY DEF ConnRecords, FinishByTask
<1>5. /\ Closed(r).closers = r.closers /\ Closed(r).finishes = r.finishes
      /\ Closed(r).lateRead = r.lateRead /\ Closed(r).closed = r.closed + 1
  BY DEF ConnRecords, Closed
<1> QED BY <1>1, <1>2, <1>3, <1>4, <1>5

\* Register reads, and counts as a read does.
LEMMA RegisteredCounts ==
    ASSUME NEW r \in ConnRecords, NEW id \in Ids
    PROVE  /\ Registered(r, id).closers = r.closers /\ Registered(r, id).finishes = r.finishes
           /\ Registered(r, id).closed = r.closed
           /\ Registered(r, id).lateRead = (r.lateRead \/ r.finishes > 0)
<1> DEFINE q == [r EXCEPT !.cid = id, !.lcid = FALSE, !.status = "READ"]
<1>1. q \in ConnRecords /\ Counts(q, r)
  BY DEF ConnRecords, Statuses, Counts
<1>2. Registered(r, id) = Recv(q)
  BY DEF Registered
<1> HIDE DEF q
<1> QED BY <1>1, <1>2, CountOps DEF Counts

\* At an event a connection has that one operation in flight.
LEMMA SoleTag ==
    ASSUME IInv, SInv, NEW c \in Conns, NEW tag, Event(c, tag)
    PROVE  /\ conn[c].status \in {"ACCEPT", "LOGIN", "READ", "CLOSE"} /\ conn[c].ops = {tag}
           /\ Popped(c, tag).ops = {} /\ Counts(Popped(c, tag), conn[c])
           /\ Popped(c, tag) \in ConnRecords /\ Popped(c, tag).status = conn[c].status
           /\ conn[c].closers \in Nat /\ WorkerOf[c] \in Workers /\ wpc[WorkerOf[c]].at = "poll"
<1>1. WorkerOf[c] \in Workers /\ wpc[WorkerOf[c]].at = "poll" /\ tag \in conn[c].ops /\ conn[c] \in ConnRecords
  BY WorkerOfAssumption DEF Event, IInv, Types
<1>2. OpOK(c) /\ ~Held(c)
  BY <1>1 DEF SInv, WorkInv, WorkOK, OwnOps, Held
<1>3. Rests(c) /\ conn[c].status \in Statuses
  BY <1>1, <1>2 DEF OpOK, ConnRecords
<1>4. conn[c].status \in {"ACCEPT", "LOGIN", "READ", "CLOSE"} /\ conn[c].ops = {tag}
  BY <1>1, <1>3 DEF Rests, Statuses
<1>5. Keeps(Popped(c, tag), conn[c]) /\ Popped(c, tag).status = conn[c].status
        /\ Popped(c, tag).ops = conn[c].ops \ {tag}
  BY PoppedProperties DEF IInv
<1>6. Counts(Popped(c, tag), conn[c])
  BY <1>1 DEF Popped, Counts, ConnRecords
<1> QED BY <1>1, <1>2, <1>4, <1>5, <1>6 DEF Keeps, OpOK

---------------------------------------------------------------------------
(* Events *)

\* After an event a worker passes over all of connections_.
LEMMA EventWork ==
    ASSUME IInv, NEW w \in Workers, wpc[w].at = "poll", AfterEvent(w),
           \A d \in Conns : WorkerOf[d] = w => conn'[d].closers \in Nat /\ Rests(d)',
           Waits(w)' \/ dying'[w]
    PROVE  WorkOK(w)' /\ \E x : wpc' = [wpc EXCEPT ![w] = x] /\ x.at \notin {"unlaunched", "new"}
<1> DEFINE loop == [Poll EXCEPT !.at = "loop", !.i = 1]
<1>1. Poll.at = "poll" /\ loop.at = "loop" /\ loop.i = 1 /\ loop.ret = "loop"
  BY DEF Poll
<1>2. \/ wpc' = [wpc EXCEPT ![w] = Poll] /\ connections'[w] = <<>>
      \/ wpc' = [wpc EXCEPT ![w] = loop]
  BY DEF AfterEvent
<1> HIDE DEF loop
<1>3. \/ wpc'[w].at = "poll" /\ connections'[w] = <<>>
      \/ wpc'[w].at = "loop" /\ wpc'[w].i = 1 /\ wpc'[w].ret = "loop"
  BY <1>1, <1>2 DEF IInv, Types
<1>4. \A d \in Conns : WorkerOf[d] = w => ~Held(d)' /\ OpOK(d)'
  BY <1>3 DEF Held, OpOK
<1>5. HandOK(w)' /\ EndOK(w)' /\ OwnOps(w)'
  BY <1>3, <1>4 DEF HandOK, EndOK, OwnOps, Busy
<1>6. ASSUME NEW j \in Nat, WaitsAt(w, j)' PROVE Ahead(w, j)'
  <2>1. connections'[w] # <<>> /\ j >= 1
    BY <1>6 DEF WaitsAt
  <2> QED BY <1>3, <2>1 DEF Ahead
<1>7. ScanOK(w)'
  BY <1>6 DEF ScanOK
<1>8. \E x : wpc' = [wpc EXCEPT ![w] = x] /\ x.at \notin {"unlaunched", "new"}
  BY <1>1, <1>2
<1> QED BY <1>5, <1>7, <1>8 DEF WorkOK

\* At a poll none of the worker's connections is being destroyed, and
\* without a waiter the worker is dying.
LEMMA PollFacts ==
    ASSUME IInv, SInv, NEW w \in Workers, wpc[w].at = "poll"
    PROVE  /\ \A d \in Conns : WorkerOf[d] = w => ~Held(d) /\ Rests(d) /\ conn[d].closers \in Nat
           /\ Waits(w) \/ dying[w]
BY DEF SInv, WorkInv, WorkOK, OwnOps, OpOK, Held, ScanOK, Launched

\* An event that ends with the connection in the given record, and changes
\* nothing that refers to a connection.
LEMMA EventSInv ==
    ASSUME IInv, SInv, NEW c \in Conns, wpc[WorkerOf[c]].at = "poll",
           NEW r, conn' = [conn EXCEPT ![c] = r], r.closers \in Nat,
           \/ r.status \in {"LOGIN", "READ", "CLOSE"} /\ \E tag : r.ops = {tag}
           \/ r.status = "deleted" /\ r.ops = {}
           \/ r.status = conn[c].status /\ r.ops = conn[c].ops,
           \/ r.status = conn[c].status
           \/ Early(c) /\ r.status # "WAIT_LOGIN"
           \/ conn[c].status \in {"READ", "CLOSE"} /\ r.status \in {"READ", "CLOSE"},
           conn[c].status = "ACCEPT" /\ r.status # "ACCEPT" => dying[WorkerOf[c]],
           UNCHANGED <<tasks, connections, dying, cmap, pmap, app, server, broken>>,
           AfterEvent(WorkerOf[c])
    PROVE  SInv'
<1> DEFINE w == WorkerOf[c]
<1>1. w \in Workers
  BY WorkerOfAssumption
<1>2. conn'[c] = r /\ \A d \in Conns : d # c => conn'[d] = conn[d]
  BY DEF IInv, Types
<1>3. /\ \A d \in Conns : WorkerOf[d] = w => Rests(d) /\ conn[d].closers \in Nat
      /\ Waits(w) \/ dying[w]
  BY <1>1, PollFacts
<1>4. ASSUME NEW d \in Conns, WorkerOf[d] = w PROVE conn'[d].closers \in Nat /\ Rests(d)'
  <2>1. UNCHANGED connections /\ Rests(d) /\ conn[d].closers \in Nat
    BY <1>3, <1>4
  <2>2. CASE conn'[d].status = conn[d].status /\ conn'[d].ops = conn[d].ops
    BY <1>2, <2>1, <2>2 DEF Rests
  <2>3. CASE d = c /\ r.status \in {"LOGIN", "READ", "CLOSE"} /\ \E tag : r.ops = {tag}
    BY <1>2, <2>3 DEF Rests
  <2>4. CASE d = c /\ r.status = "deleted" /\ r.ops = {}
    BY <1>2, <2>4 DEF Rests
  <2> QED BY <1>2, <2>1, <2>2, <2>3, <2>4
<1>5. Waits(w)' \/ dying'[w]
  BY <1>2, <1>3 DEF Waits
<1>6. WorkOK(w)' /\ \E x : wpc' = [wpc EXCEPT ![w] = x] /\ x.at \notin {"unlaunched", "new"}
  BY <1>1, <1>4, <1>5, EventWork
<1>7. WaitsInv' /\ ServedInv'
  BY RefsOfOne
<1>8. AssertionsHold'
  BY DEF SInv, AssertionsHold
<1>9. UNCHANGED <<connections, dying, srv, start>> /\ wpc[w].at \notin {"unlaunched", "new", "done"}
  BY DEF server
<1> QED BY <1>1, <1>2, <1>6, <1>7, <1>8, <1>9, WorkerSInv

\* The client asks to close; the acceptor refuses; a request is handled; a
\* closer is done.
LEMMA SimpleEventsSInv ==
    ASSUME IInv, SInv, NEW c \in Conns,
           \/ StepClientClose(c) \/ StepRefuse(c) \/ CloserDone(c)
           \/ \E tag \in {"read", "finish"} : StepHandle(c, tag) \/ StepHandleClose(c, tag)
    PROVE  SInv'
<1>1. ASSUME NEW tag, Event(c, tag)
      PROVE  LET p == Popped(c, tag) IN
             /\ Finish(p).status = "CLOSE" /\ Finish(p).ops = {"finish"} /\ Finish(p).closers \in Nat
             /\ Recv(p).status = conn[c].status /\ Recv(p).ops = {"read"} /\ Recv(p).closers \in Nat
             /\ LET q == Finish(InternalClose(p)) IN
                q.status = "CLOSE" /\ q.ops = {"finish"} /\ q.closers \in Nat
             /\ wpc[WorkerOf[c]].at = "poll"
  <2> DEFINE p == Popped(c, tag)
  <2>1. /\ p \in ConnRecords /\ p.ops = {} /\ p.closers \in Nat /\ p.status = conn[c].status
        /\ wpc[WorkerOf[c]].at = "poll"
    BY <1>1, SoleTag DEF Counts
  <2> HIDE DEF p
  <2>2. /\ Finish(p).status = "CLOSE" /\ Finish(p).ops = {"finish"} /\ Finish(p).closers \in Nat
        /\ Recv(p).status = conn[c].status /\ Recv(p).ops = {"read"} /\ Recv(p).closers \in Nat
    BY <2>1, RecordOps, CountOps
  <2>3. InternalClose(p) \in ConnRecords /\ InternalClose(p).ops = {} /\ InternalClose(p).closers \in Nat
    BY <2>1, RecordOps, CountOps DEF Keeps, Counts
  <2>4. LET q == Finish(InternalClose(p)) IN q.status = "CLOSE" /\ q.ops = {"finish"} /\ q.closers \in Nat
    BY <2>3, RecordOps, CountOps
  <2> QED BY <2>1, <2>2, <2>4 DEF p
<1>2. CASE StepClientClose(c)
  <2>1. PICK st \in {"LOGIN", "READ"} : Message(c, "read", st)
    BY <1>2 DEF StepClientClose
  <2>2. Event(c, "read") /\ conn[c].status \in {"LOGIN", "READ"}
    BY <2>1 DEF Message
  <2> QED BY <1>1, <1>2, <2>2, EventSInv DEF StepClientClose, Early
<1>3. CASE StepRefuse(c)
  <2>1. Event(c, "read") /\ conn[c].status = "LOGIN"
    BY <1>3 DEF StepRefuse, Message
  <2> QED BY <1>1, <1>3, <2>1, EventSInv DEF StepRefuse, Early
<1>4. ASSUME NEW tag \in {"read", "finish"}, StepHandle(c, tag) PROVE SInv'
  <2>1. /\ Event(c, tag) /\ conn[c].status = "READ" /\ AfterEvent(WorkerOf[c])
        /\ UNCHANGED <<tasks, connections, dying, cmap, pmap, app, server, broken>>
    BY <1>4 DEF StepHandle, Message
  <2>2. \/ conn' = [conn EXCEPT ![c] = Finish(Popped(c, tag))]
        \/ conn' = [conn EXCEPT ![c] = Recv(Popped(c, tag))]
    BY <1>4 DEF StepHandle
  <2> QED BY <1>1, <2>1, <2>2, EventSInv
<1>5. ASSUME NEW tag \in {"read", "finish"}, StepHandleClose(c, tag) PROVE SInv'
  <2>1. Event(c, tag) /\ conn[c].status = "READ"
    BY <1>5 DEF StepHandleClose, Message
  <2> QED BY <1>1, <1>5, <2>1, EventSInv DEF StepHandleClose
<1>6. CASE CloserDone(c)
  <2> DEFINE r == [conn[c] EXCEPT !.closers = @ - 1]
  <2>1. conn[c] \in ConnRecords /\ WorkerOf[c] \in Workers /\ wpc[WorkerOf[c]].at = "poll" /\ conn[c].closers > 0
    BY <1>6, WorkerOfAssumption DEF IInv, Types, CloserDone
  <2>2. conn[c].closers \in Nat
    BY <2>1, PollFacts
  <2>3. conn[c].closers - 1 \in Nat
    BY <2>1, <2>2
  <2>4. r.status = conn[c].status /\ r.ops = conn[c].ops /\ r.closers \in Nat
    BY <2>1, <2>3 DEF ConnRecords
  <2>5. conn' = [conn EXCEPT ![c] = r]
    BY <1>6, <2>1 DEF CloserDone, IInv, Types
  <2> HIDE DEF r
  <2> QED BY <1>6, <2>1, <2>4, <2>5, EventSInv DEF CloserDone
<1> QED BY <1>2, <1>3, <1>4, <1>5, <1>6

\* The waiter of a server that shuts down: its worker is dying.
LEMMA AcceptFailSInv ==
    ASSUME IInv, SInv, NEW c \in Conns, AcceptFail(c)
    PROVE  SInv'
<1> DEFINE p == Popped(c, "accept")
           r == [p EXCEPT !.status = "deleted"]
<1>1. /\ p \in ConnRecords /\ p.ops = {} /\ p.closers \in Nat
      /\ WorkerOf[c] \in Workers /\ wpc[WorkerOf[c]].at = "poll"
  BY SoleTag DEF AcceptFail, Counts
<1>2. conn[c].status = "ACCEPT"
  BY DEF AcceptFail, Event, IInv, OpsInv, OpsOf
<1>3. dying[WorkerOf[c]]
  BY <1>1 DEF AcceptFail, Serving, SInv, PhaseInv
<1>4. r.status = "deleted" /\ r.ops = {} /\ r.closers \in Nat
  BY <1>1 DEF ConnRecords
<1>5. /\ conn' = [conn EXCEPT ![c] = r] /\ AfterEvent(WorkerOf[c])
      /\ UNCHANGED <<tasks, connections, dying, cmap, pmap, app, server, broken>>
  BY DEF AcceptFail
<1> HIDE DEF r
<1> QED BY <1>1, <1>2, <1>3, <1>4, <1>5, EventSInv DEF Early

\* A call is accepted: the next waiter takes the place of this one.
LEMMA AcceptSInv ==
    ASSUME IInv, SInv, NEW c \in Conns, Accept(c)
    PROVE  SInv'
<1> DEFINE w == WorkerOf[c]
           unused == Uncreated(w)
           n == NextConn(w, unused)
           p == Popped(c, "accept")
           a == [p EXCEPT !.status = "LOGIN"]
           r == Recv(a)
<1>1. /\ p \in ConnRecords /\ p.ops = {} /\ p.closers \in Nat
      /\ w \in Workers /\ wpc[w].at = "poll"
  BY SoleTag DEF Accept, Counts
<1>2. conn[c].status = "ACCEPT"
  BY DEF Accept, Event, IInv, OpsInv, OpsOf
<1>3. n \in unused
  <2>1. unused # {}
    BY DEF Accept
  <2> QED BY <2>1 DEF NextConn, Uncreated
<1>4. n \in Conns /\ WorkerOf[n] = w /\ conn[n].status = "none" /\ n # c
  BY <1>2, <1>3 DEF Uncreated
<1>5. conn' = [conn EXCEPT ![c] = r, ![n] = Waiting(@)] /\ AfterEvent(w)
        /\ UNCHANGED <<tasks, connections, dying, cmap, pmap, app, server, broken>>
  BY DEF Accept
<1>6. a \in ConnRecords /\ a.status = "LOGIN" /\ a.ops = {} /\ a.closers \in Nat
  BY <1>1 DEF ConnRecords, Statuses
<1> HIDE DEF n, p, a, r, unused
<1>7. r.status = "LOGIN" /\ r.ops = {"read"} /\ r.closers \in Nat
  BY <1>6, RecordOps, CountOps DEF r
<1>8. /\ conn'[c] = r /\ conn'[n] = Waiting(conn[n])
      /\ \A d \in Conns : d # c /\ d # n => conn'[d] = conn[d]
  BY <1>4, <1>5 DEF IInv, Types
<1>9. \A d \in Conns : WorkerOf[d] = w => Rests(d) /\ conn[d].closers \in Nat
  BY <1>1, PollFacts
<1>10. conn'[n].status = "ACCEPT" /\ conn'[n].ops = {"accept"} /\ conn'[n].closers \in Nat
  <2>1. conn[n] \in ConnRecords
    BY <1>4 DEF IInv, Types
  <2> QED BY <1>4, <1>8, <1>9, <2>1, RecordOps, CountOps DEF Counts
<1>11. ASSUME NEW d \in Conns, WorkerOf[d] = w PROVE conn'[d].closers \in Nat /\ Rests(d)'
  <2>1. CASE d # c /\ d # n
    BY <1>5, <1>8, <1>9, <1>11, <2>1 DEF Rests
  <2>2. CASE d = c
    BY <1>7, <1>8, <2>2 DEF Rests
  <2>3. CASE d = n
    BY <1>10, <2>3 DEF Rests
  <2> QED BY <2>1, <2>2, <2>3
<1>12. Waits(w)'
  BY <1>4, <1>10 DEF Waits
<1>13. WorkOK(w)' /\ \E x : wpc' = [wpc EXCEPT ![w] = x] /\ x.at \notin {"unlaunched", "new"}
  BY <1>1, <1>5, <1>11, <1>12, EventWork
<1>14. WaitsInv' /\ ServedInv'
  <2>1. \A d \in Conns : Moves(d)
    BY <1>2, <1>4, <1>7, <1>8, <1>10 DEF Moves, Early
  <2>2. TasksShrink /\ \A d \in Conns : Pending(d)' => Pending(d)
    BY <1>5 DEF TasksShrink, Pending, Answers, Answered, AnswerTask
  <2> QED BY <1>5, <2>1, <2>2, RefsInv DEF SInv
<1>15. AssertionsHold' /\ UNCHANGED <<connections, dying, srv, start>>
         /\ wpc[w].at \notin {"unlaunched", "new", "done"}
  BY <1>1, <1>5 DEF SInv, AssertionsHold, server
<1>16. \A d \in Conns : WorkerOf[d] # w => conn'[d] = conn[d]
  BY <1>4, <1>8
<1> QED BY <1>1, <1>13, <1>14, <1>15, <1>16, WorkerSInv

\* Register: the connection reads, the others stay listed, and OnRegister's
\* assertion holds.
LEMMA RegisterFacts ==
    ASSUME IInv, SInv, NEW c \in Conns, NEW id \in Ids, NEW r, NEW failed,
           Register(c, id, r, failed), r \in ConnRecords, r.ops = {},
           conn[c].status \in {"LOGIN", "WAIT_LOGIN"},
           c \notin pmap, ~Answered(c)', \A t \in Threads : ~Answers(t, c),
           Listed(c, connections[WorkerOf[c]]) => r.lcid,
           NoNewTask, TasksShrink, UNCHANGED app
    PROVE  /\ conn'[c].status = "READ" /\ conn'[c].ops = {"read"} /\ conn'[c].closers = r.closers
           /\ \A d \in Conns : d # c => conn'[d] = conn[d]
           /\ \A d \in Conns : d # c /\ Listed(d, connections[WorkerOf[d]])
                                  => Listed(d, connections'[WorkerOf[d]])
           /\ \A v \in Workers : v # WorkerOf[c] => connections'[v] = connections[v]
           /\ WaitsInv' /\ ServedInv' /\ broken' \subseteq broken \cup failed
<1> DEFINE w == WorkerOf[c]
           cleared == ClearLoginCid(w, c, r)
           s == Registered(r, id)
<1>1. w \in Workers /\ connections[w] \in Seq(Conns) /\ Once(connections[w])
  BY WorkerOfAssumption DEF IInv, Types, ListInv
<1>2. s.status = "READ" /\ s.ops = {"read"} /\ s.closers = r.closers
  <2>1. s.status = "READ" /\ s.ops = r.ops \cup {"read"}
    BY RegisteredProperties
  <2>2. s.closers = r.closers
    BY RegisteredCounts
  <2> QED BY <2>1, <2>2
<1>3. /\ pmap' \subseteq pmap /\ cmap' = [cmap EXCEPT ![id] = c]
      /\ connections' = [connections EXCEPT ![w] = Append(cleared, c)]
      /\ conn' = [conn EXCEPT ![c] = s]
      /\ broken' = broken \cup failed \cup (IF Listed(c, cleared) THEN {"OnRegister"} ELSE {})
  BY DEF Register, ServerRegister
<1>4. /\ cleared \in Seq(Conns) /\ ~Listed(c, cleared)
      /\ \A d : d # c /\ Listed(d, connections[w]) => Listed(d, cleared)
  <2>1. CASE r.lcid
    <3>1. cleared = Without(connections[w], c)
      BY <2>1 DEF ClearLoginCid
    <3> QED BY <1>1, <3>1, WithoutProperties, WithoutKeeps
  <2>2. CASE ~r.lcid
    BY <1>1, <2>2 DEF ClearLoginCid
  <2> QED BY <2>1, <2>2
<1> HIDE DEF w, cleared, s
<1>5. conn'[c] = s /\ \A d \in Conns : d # c => conn'[d] = conn[d]
  BY <1>3 DEF IInv, Types
<1>6. /\ connections'[w] = Append(cleared, c)
      /\ \A v \in Workers : v # w => connections'[v] = connections[v]
  BY <1>1, <1>3 DEF IInv, Types
<1>7. ASSUME NEW d \in Conns, d # c, Listed(d, connections[WorkerOf[d]])
      PROVE  Listed(d, connections'[WorkerOf[d]])
  <2>1. WorkerOf[d] \in Workers
    BY WorkerOfAssumption
  <2>2. CASE WorkerOf[d] = w
    <3>1. Listed(d, cleared)
      BY <1>4, <1>7, <2>2
    <3> QED BY <1>4, <1>6, <2>2, <3>1, AppendKeeps
  <2>3. CASE WorkerOf[d] # w
    BY <1>6, <1>7, <2>1, <2>3
  <2> QED BY <2>2, <2>3
<1>8. ~Pending(c)' /\ \A d \in Conns : Pending(d)' => Pending(d)
  BY <1>3 DEF Pending, Answers, NoNewTask
<1>9. \A d \in Conns : Moves(d)
  <2>1. Moves(c)
    BY <1>2, <1>5, <1>8 DEF Moves, Early
  <2> QED BY <1>5, <2>1 DEF Moves
<1>10. ASSUME NEW k \in Ids
       PROVE  /\ cmap[k] # NoConn => cmap'[k] # NoConn
              /\ cmap'[k] # cmap[k] => conn'[cmap'[k]].status = "READ"
  <2>1. cmap'[k] = cmap[k] \/ cmap'[k] = c
    BY <1>3 DEF IInv, Types
  <2> QED BY <1>2, <1>5, <2>1, NoConnAssumption
<1>11. WaitsInv' /\ ServedInv'
  BY <1>8, <1>9, <1>10, RefsInv DEF SInv
<1> QED BY <1>2, <1>3, <1>4, <1>5, <1>6, <1>7, <1>11 DEF w

\* The acceptor answers at once.
LEMMA StepLoginSInv ==
    ASSUME IInv, SInv, NEW c \in Conns, NEW id \in Ids, StepLogin(c, id)
    PROVE  SInv'
<1> DEFINE p == Popped(c, "read")
           w == WorkerOf[c]
<1>1. Event(c, "read") /\ conn[c].status = "LOGIN" /\ Fresh(c)
  BY DEF StepLogin, Message, IInv, FreshInv, Early
<1>2. p \in ConnRecords /\ p.ops = {} /\ p.closers \in Nat /\ w \in Workers /\ wpc[w].at = "poll"
  BY <1>1, SoleTag DEF Counts
<1> HIDE DEF p
<1>3. UNCHANGED <<tasks, app, dying, server>> /\ AfterEvent(w)
  BY DEF StepLogin
<1>4. CASE dying[w]
  <2>1. conn' = [conn EXCEPT ![c] = Finish(p)] /\ UNCHANGED <<pmap, cmap, connections, broken>>
    BY <1>4 DEF StepLogin, p
  <2>2. Finish(p).ops = {"finish"} /\ Finish(p).status = "CLOSE" /\ Finish(p).closers \in Nat
    BY <1>2, RecordOps, CountOps
  <2> QED BY <1>1, <1>2, <1>3, <2>1, <2>2, EventSInv DEF Early
<1>5. CASE ~dying[w]
  <2>1. Register(c, id, p, {})
    BY <1>5 DEF StepLogin, p
  <2>2. c \notin pmap /\ ~Answered(c) /\ (\A t \in Threads : ~Answers(t, c))
          /\ ~Listed(c, connections[w])
    BY <1>1, <1>2 DEF Fresh, Pending
  <2>3. NoNewTask /\ TasksShrink
    BY <1>3, SameTasks DEF TasksShrink
  <2>4. /\ conn'[c].status = "READ" /\ conn'[c].ops = {"read"} /\ conn'[c].closers = p.closers
        /\ \A d \in Conns : d # c => conn'[d] = conn[d]
        /\ \A d \in Conns : d # c /\ Listed(d, connections[WorkerOf[d]])
                               => Listed(d, connections'[WorkerOf[d]])
        /\ \A v \in Workers : v # w => connections'[v] = connections[v]
        /\ WaitsInv' /\ ServedInv' /\ broken' \subseteq broken
    BY <1>1, <1>2, <1>3, <2>1, <2>2, <2>3, RegisterFacts DEF NoNewTask
  <2>5. \A d \in Conns : WorkerOf[d] = w => Rests(d) /\ conn[d].closers \in Nat
    BY <1>2, PollFacts
  <2>6. ASSUME NEW d \in Conns, WorkerOf[d] = w PROVE conn'[d].closers \in Nat /\ Rests(d)'
    <3>1. CASE d = c
      BY <1>2, <2>4, <3>1 DEF Rests
    <3>2. CASE d # c
      BY <2>4, <2>5, <2>6, <3>2 DEF Rests
    <3> QED BY <3>1, <3>2
  <2>7. Waits(w)'
    <3>1. PICK d \in Conns : WorkerOf[d] = w /\ conn[d].status = "ACCEPT"
      BY <1>2, <1>5, PollFacts DEF Waits
    <3> QED BY <1>1, <2>4, <3>1 DEF Waits
  <2>8. WorkOK(w)' /\ \E x : wpc' = [wpc EXCEPT ![w] = x] /\ x.at \notin {"unlaunched", "new"}
    BY <1>2, <1>3, <2>6, <2>7, EventWork
  <2>9. AssertionsHold' /\ UNCHANGED <<dying, srv, start>>
    BY <1>3, <2>4 DEF SInv, AssertionsHold, server
  <2>10. wpc[w].at \notin {"unlaunched", "new", "done"} /\ \A d \in Conns : WorkerOf[d] # w => conn'[d] = conn[d]
    BY <1>2, <2>4
  <2> QED BY <1>2, <2>4, <2>8, <2>9, <2>10, WorkerSInv
<1> QED BY <1>4, <1>5

\* The acceptor defers: the connection is listed, or finished by a dying
\* worker, in which case no thread will answer.
LEMMA StepDeferSInv ==
    ASSUME NoLateAnswer, IInv, SInv, NEW c \in Conns, StepDefer(c)
    PROVE  SInv'
<1> DEFINE w == WorkerOf[c]
           p == Popped(c, "read")
           q == [p EXCEPT !.status = "WAIT_LOGIN", !.lcid = TRUE]
           r == IF dying[w] THEN Finish(q) ELSE q
<1>1. Event(c, "read") /\ conn[c].status = "LOGIN" /\ Fresh(c) /\ "defer" \in Uses
  BY DEF StepDefer, Message, IInv, FreshInv, Early
<1>2. p \in ConnRecords /\ p.ops = {} /\ p.closers \in Nat /\ w \in Workers /\ wpc[w].at = "poll"
  BY <1>1, SoleTag DEF Counts
<1>3. /\ UNCHANGED <<tasks, cmap, app, dying, server>> /\ AfterEvent(w) /\ pmap' = pmap \cup {c}
      /\ connections' = [connections EXCEPT ![w] = Append(@, c)]
      /\ conn' = [conn EXCEPT ![c] = r]
      /\ broken' = broken \cup (IF Listed(c, connections[w]) THEN {"OnRegister"} ELSE {})
  BY DEF StepDefer
<1> HIDE DEF p
<1>4. q \in ConnRecords /\ q.status = "WAIT_LOGIN" /\ q.ops = {} /\ q.closers \in Nat
  BY <1>2 DEF ConnRecords, Statuses
<1> HIDE DEF q
<1>5. Finish(q).status = "CLOSE" /\ Finish(q).ops = {"finish"} /\ Finish(q).closers \in Nat
  BY <1>4, RecordOps, CountOps
<1>6. /\ r.closers \in Nat
      /\ dying[w] => r.status = "CLOSE" /\ r.ops = {"finish"}
      /\ ~dying[w] => r.status = "WAIT_LOGIN" /\ r.ops = {}
  BY <1>4, <1>5
<1> HIDE DEF r, w
<1>7. conn'[c] = r /\ \A d \in Conns : d # c => conn'[d] = conn[d]
  BY <1>3 DEF IInv, Types
<1>8. connections[w] \in Seq(Conns) /\ ~Listed(c, connections[w])
  BY <1>1, <1>2 DEF IInv, Types, Fresh
<1>9. /\ connections'[w] = Append(connections[w], c)
      /\ \A v \in Workers : v # w => connections'[v] = connections[v]
  BY <1>2, <1>3 DEF IInv, Types
<1>10. Listed(c, connections'[w]) /\ \A d : Listed(d, connections[w]) => Listed(d, connections'[w])
  BY <1>8, <1>9, AppendKeeps
<1>11. \A d \in Conns : WorkerOf[d] = w => Rests(d) /\ conn[d].closers \in Nat
  BY <1>2, PollFacts
<1>12. ASSUME NEW d \in Conns, WorkerOf[d] = w PROVE conn'[d].closers \in Nat /\ Rests(d)'
  <2>1. CASE d = c
    BY <1>6, <1>7, <1>10, <1>12, <2>1 DEF Rests
  <2>2. CASE d # c
    BY <1>7, <1>10, <1>11, <1>12, <2>2 DEF Rests
  <2> QED BY <2>1, <2>2
<1>13. Waits(w)' \/ dying'[w]
  <2>1. CASE dying[w]
    BY <1>3, <2>1
  <2>2. CASE Waits(w)
    <3>1. PICK d \in Conns : WorkerOf[d] = w /\ conn[d].status = "ACCEPT"
      BY <2>2 DEF Waits
    <3> QED BY <1>1, <1>7, <3>1 DEF Waits
  <2> QED BY <1>2, <2>1, <2>2, PollFacts
<1>14. WorkOK(w)' /\ \E x : wpc' = [wpc EXCEPT ![w] = x] /\ x.at \notin {"unlaunched", "new"}
  BY <1>2, <1>3, <1>12, <1>13, EventWork
<1>15. dying[w] => Threads = {}
  BY <1>1, <1>2 DEF NoLateAnswer, SInv, PhaseInv
<1>16. WaitsInv'
  <2>1. ASSUME NEW d \in Conns, Pending(d)', Threads # {} PROVE conn'[d].status = "WAIT_LOGIN"
    <3>1. CASE d = c
      BY <1>6, <1>7, <1>15, <2>1, <3>1
    <3>2. CASE d # c
      <4>1. Pending(d)
        BY <1>3, <2>1, <3>2 DEF Pending, Answers, Answered, AnswerTask
      <4> QED BY <1>7, <2>1, <3>2, <4>1 DEF SInv, WaitsInv
    <3> QED BY <3>1, <3>2
  <2> QED BY <1>1, <2>1 DEF WaitsInv
<1>17. ServedInv'
  <2>1. ~Served(c)
    BY <1>1 DEF Served
  <2>2. \A d \in Conns : Served(d) => Served(d)' /\ conn'[d] = conn[d]
    BY <1>7, <2>1 DEF Served
  <2>3. \A d \in Conns : ~Served(d)' => ~Served(d)
    BY <2>2
  <2>4. ASSUME NEW k \in Ids, cmap[k] # NoConn PROVE conn'[cmap[k]].status \in {"READ", "CLOSE"}
    <3>1. cmap[k] \in Conns /\ conn[cmap[k]].status \in {"READ", "CLOSE"}
      BY <2>4 DEF IInv, Types, SInv, ServedInv
    <3> QED BY <1>1, <1>7, <3>1
  <2>5. ASSUME NEW t \in Threads, app[t].at = "handle" PROVE app[t].c \in Conns /\ conn'[app[t].c] = conn[app[t].c]
    <3>1. app[t].c \in Conns /\ Served(app[t].c)
      BY <2>5 DEF SInv, ServedInv
    <3> QED BY <2>2, <3>1
  <2>6. cmap' = cmap /\ app' = app /\ tasks' = tasks
    BY <1>3
  <2>7. \A t \in Threads : /\ app[t].at = "node" => cmap[app[t].key] # NoConn
                           /\ app[t].at = "handle" => app[t].c \in Conns /\ Served(app[t].c)'
    BY <2>5, <2>6 DEF SInv, ServedInv, Served
  <2>8. \A d \in Conns : ~Served(d)' => \A j \in 1..Len(tasks[d]) : tasks[d][j].kind = "login"
    BY <2>3 DEF SInv, ServedInv
  <2> QED BY <2>4, <2>6, <2>7, <2>8 DEF ServedInv, Served
<1>18. AssertionsHold' /\ UNCHANGED <<dying, srv, start>>
  BY <1>3, <1>8 DEF SInv, AssertionsHold, server
<1>19. wpc[w].at \notin {"unlaunched", "new", "done"} /\ \A d \in Conns : WorkerOf[d] # w => conn'[d] = conn[d]
  BY <1>2, <1>7 DEF w
<1> QED BY <1>2, <1>9, <1>14, <1>16, <1>17, <1>18, <1>19, WorkerSInv

---------------------------------------------------------------------------
(* Destroy, and the loop over connections_ *)

\* Destroy is called with the record r of a connection that has no completion
\* to come, before the loop or with a closer for it.
LEMMA DestroySInv ==
    ASSUME IInv, SInv, NEW c \in Conns, NEW r \in ConnRecords, NEW i \in Nat \ {0},
           wpc[WorkerOf[c]].at \in {"poll", "loop"},
           Destroy(WorkerOf[c], c, r, i, "loop"),
           r.ops = {}, r.status \in {"LOGIN", "READ", "CLOSE"}, r.closers \in Nat,
           \/ r.status = conn[c].status
           \/ conn[c].status = "WAIT_LOGIN" /\ r.status = "CLOSE" /\ Threads = {},
           i = 1 \/ r.closers > 0,
           UNCHANGED <<tasks, connections, dying, cmap, pmap, app, server>>
    PROVE  SInv' /\ broken' = broken
<1> DEFINE w == WorkerOf[c]
           dies == MustClose(w, r)
           s == IF dies THEN FinishByTask(r) ELSE r
           x == [at |-> IF dies THEN "finalize" ELSE "destroy", c |-> c, i |-> i, n |-> -1, ret |-> "loop"]
<1>1. w \in Workers
  BY WorkerOfAssumption
<1>2. conn' = [conn EXCEPT ![c] = s] /\ wpc' = [wpc EXCEPT ![w] = x] /\ broken' = broken
  BY DEF Destroy
<1>3. x.at \in {"finalize", "destroy"} /\ x.c = c /\ x.i = i /\ x.ret = "loop"
  OBVIOUS
<1>4. /\ s.ops = {} /\ s.closers \in Nat /\ s.closers >= r.closers
      /\ s.status = r.status \/ s.status = "CLOSE"
  <2>1. /\ FinishByTask(r).status = "CLOSE" /\ FinishByTask(r).ops = {}
        /\ FinishByTask(r).closers = r.closers + 1
    BY RecordOps, CountOps
  <2> QED BY <2>1
<1> HIDE DEF s, x, dies
<1>5. wpc'[w] = x /\ conn'[c] = s /\ \A d \in Conns : d # c => conn'[d] = conn[d]
  BY <1>1, <1>2 DEF IInv, Types
<1>6. ASSUME NEW d \in Conns, WorkerOf[d] = w PROVE OpOK(d)'
  <2>1. CASE d = c
    BY <1>3, <1>4, <1>5, <2>1 DEF OpOK, Held
  <2>2. CASE d # c
    <3>1. OpOK(d) /\ ~Held(d) /\ ~Held(d)'
      BY <1>1, <1>3, <1>5, <1>6, <2>2 DEF SInv, WorkInv, WorkOK, OwnOps, Held
    <3> QED BY <1>5, <2>2, <3>1 DEF OpOK, Rests
  <2> QED BY <2>1, <2>2
<1>7. OwnOps(w)' /\ HandOK(w)' /\ EndOK(w)'
  BY <1>3, <1>5, <1>6 DEF OwnOps, HandOK, EndOK
<1>8. ScanOK(w)'
  <2>1. ASSUME ~Waits(w)' PROVE dying'[w]
    <3>1. ~Waits(w)
      BY <1>5, <2>1 DEF Waits
    <3> QED BY <1>1, <3>1 DEF SInv, WorkInv, WorkOK, ScanOK, Launched
  <2>2. CASE r.closers > 0
    <3>1. Closing(w)'
      BY <1>4, <1>5, <2>2 DEF Closing
    <3> QED BY <2>1, <3>1 DEF ScanOK
  <2>3. CASE i = 1
    <3>1. \A j \in Nat : WaitsAt(w, j)' => Ahead(w, j)'
      BY <1>3, <1>5, <2>3 DEF WaitsAt, Ahead, Busy
    <3> QED BY <2>1, <3>1 DEF ScanOK
  <2> QED BY <2>2, <2>3
<1>9. WaitsInv' /\ ServedInv'
  BY <1>2, <1>4, RefsOfOne DEF Early
<1>10. AssertionsHold' /\ UNCHANGED <<connections, dying, srv, start>>
         /\ wpc[w].at \notin {"unlaunched", "new", "done"} /\ x.at \notin {"unlaunched", "new"}
  BY <1>2, <1>3 DEF SInv, AssertionsHold, server
<1>11. \A d \in Conns : WorkerOf[d] # w => conn'[d] = conn[d]
  BY <1>5
<1>12. WorkOK(w)'
  BY <1>7, <1>8 DEF WorkOK
<1> QED BY <1>1, <1>2, <1>9, <1>10, <1>11, <1>12, WorkerSInv

\* Destroy after the end of a call: case CLOSE, and a read that fails.
LEMMA EndingSInv ==
    ASSUME IInv, SInv, NEW c \in Conns,
           ReadFail(c) \/ \E tag \in {"read", "finish"} : StepClose(c, tag)
    PROVE  SInv' /\ broken' = broken
<1>1. PICK tag \in {"read", "finish"} :
          /\ Event(c, tag) /\ Destroy(WorkerOf[c], c, Popped(c, tag), 1, "loop")
          /\ UNCHANGED <<tasks, connections, dying, cmap, pmap, app, server>>
  BY DEF ReadFail, StepClose, Message
<1> DEFINE p == Popped(c, tag)
<1>2. /\ p \in ConnRecords /\ p.ops = {} /\ p.closers \in Nat /\ p.status = conn[c].status
      /\ conn[c].status \in {"ACCEPT", "LOGIN", "READ", "CLOSE"} /\ conn[c].ops = {tag}
      /\ wpc[WorkerOf[c]].at = "poll"
  BY <1>1, SoleTag DEF Counts
<1>3. conn[c].status # "ACCEPT"
  BY <1>2 DEF IInv, OpsInv, OpsOf
<1>4. 1 \in Nat \ {0}
  OBVIOUS
<1> HIDE DEF p
<1> QED BY <1>1, <1>2, <1>3, <1>4, DestroySInv DEF p

\* A worker moves on without changing anything but its place.
LEMMA MoveSInv ==
    ASSUME IInv, SInv, NEW w \in Workers, NEW x, wpc' = [wpc EXCEPT ![w] = x],
           wpc[w].at \notin {"unlaunched", "new", "done"}, x.at \notin {"unlaunched", "new"},
           UNCHANGED <<conn, tasks, connections, dying, cmap, pmap, app, server, broken>>,
           OwnOps(w)', HandOK(w)', EndOK(w)',
           dying[w] /\ ~Waits(w) => \A j \in Nat : WaitsAt(w, j) /\ Ahead(w, j) => Ahead(w, j)'
    PROVE  SInv'
<1>1. wpc'[w] = x
  BY DEF IInv, Types
<1>2. ScanOK(w)'
  <2>1. (Waits(w)' <=> Waits(w)) /\ (Closing(w)' <=> Closing(w)) /\ \A j \in Nat : WaitsAt(w, j)' <=> WaitsAt(w, j)
    BY DEF Waits, Closing, WaitsAt
  <2>2. ScanOK(w) /\ Launched(w)
    BY DEF SInv, WorkInv, WorkOK, Launched
  <2> QED BY <2>1, <2>2 DEF ScanOK
<1>3. WaitsInv' /\ ServedInv'
  <2>1. \A d \in Conns : Moves(d)
    BY DEF Moves
  <2>2. TasksShrink /\ \A d \in Conns : Pending(d)' => Pending(d)
    BY DEF TasksShrink, Pending, Answers, Answered, AnswerTask
  <2> QED BY <2>1, <2>2, RefsInv DEF SInv
<1>4. AssertionsHold' /\ UNCHANGED <<dying, srv, start>>
  BY DEF SInv, AssertionsHold, server
<1>5. WorkOK(w)'
  BY <1>2 DEF WorkOK
<1> QED BY <1>3, <1>4, <1>5, WorkerSInv

\* connections_[i]->ConsumeTask, up to its loop: what the loop leaves behind
\* does not wait for its login if the worker is dying.
LEMMA LoopConnSInv ==
    ASSUME NoLateAnswer, IInv, SInv, NEW w \in Workers, LoopConn(w)
    PROVE  SInv' /\ broken' = broken
<1> DEFINE i == wpc[w].i
           c == connections[w][i]
<1>1. wpc[w] \in WorkerRecords /\ wpc[w].at = "loop" /\ i \in Nat /\ i >= 1 /\ i + 1 \in Nat \ {0}
  BY DEF LoopConn, IInv, Types, WorkerInv, WorkerOK, Scanning, WorkerRecords
<1>2. UNCHANGED <<tasks, connections, dying, cmap, pmap, app, cidOps, client, server>>
  BY DEF LoopConn
<1>3. \A d \in Conns : WorkerOf[d] = w => ~Held(d) /\ Rests(d) /\ conn[d].closers \in Nat
  BY <1>1 DEF SInv, WorkInv, WorkOK, OwnOps, OpOK, Held
<1>4. Len(connections[w]) \in Nat
  BY LenProperties DEF IInv, Types
<1>5. CASE i > Len(connections[w]) /\ wpc' = [wpc EXCEPT ![w] = Poll] /\ UNCHANGED <<conn, broken>>
  <2>1. wpc'[w] = Poll /\ Poll.at = "poll"
    BY <1>5 DEF IInv, Types, Poll
  <2>2. ASSUME NEW d \in Conns, WorkerOf[d] = w PROVE OpOK(d)'
    BY <1>2, <1>3, <1>5, <2>1, <2>2 DEF OpOK, Held, Rests
  <2>3. OwnOps(w)' /\ HandOK(w)' /\ EndOK(w)'
    BY <2>1, <2>2 DEF OwnOps, HandOK, EndOK, Busy
  <2>4. \A j \in Nat : ~(WaitsAt(w, j) /\ Ahead(w, j))
    BY <1>1, <1>4, <1>5 DEF WaitsAt, Ahead
  <2> QED BY <1>1, <1>2, <1>5, <2>1, <2>3, <2>4, MoveSInv
<1>6. CASE i <= Len(connections[w])
  <2>1. /\ c \in Conns /\ WorkerOf[c] = w /\ conn[c] \in ConnRecords
        /\ conn[c].status \in {"WAIT_LOGIN", "READ", "CLOSE"} /\ conn[c].closers \in Nat
    BY <1>1, <1>3, <1>4, <1>6, AtPlace
  <2> HIDE DEF c
  <2> DEFINE f == FinishByTask(conn[c])
  <2>2. /\ f \in ConnRecords /\ f.status = "CLOSE" /\ f.ops = conn[c].ops
        /\ f.closers = conn[c].closers + 1
    BY <2>1, RecordOps, CountOps DEF Keeps
  <2> HIDE DEF f
  <2>3. f.closers \in Nat /\ f.closers > 0
    BY <2>1, <2>2
  <2>4. CASE MustClose(w, conn[c]) /\ conn[c].status = "WAIT_LOGIN"
    <3>1. Destroy(WorkerOf[c], c, f, i + 1, "loop")
      BY <1>1, <1>6, <2>1, <2>4 DEF LoopConn, c, f
    <3>2. conn[c].ops = {} /\ "defer" \in Uses
      BY <1>3, <2>1, <2>4 DEF Rests, SInv, WaitsInv
    <3>3. Threads = {}
      BY <2>4, <3>2 DEF NoLateAnswer, MustClose, SInv, PhaseInv
    <3>4. wpc[WorkerOf[c]].at \in {"poll", "loop"} /\ f.ops = {}
            /\ UNCHANGED <<tasks, connections, dying, cmap, pmap, app, server>>
      BY <1>1, <1>2, <2>1, <2>2, <3>2
    <3> QED BY <1>1, <2>1, <2>2, <2>3, <2>4, <3>1, <3>3, <3>4, DestroySInv
  <2>5. CASE MustClose(w, conn[c]) /\ conn[c].status # "WAIT_LOGIN"
    <3> DEFINE x == [wpc[w] EXCEPT !.i = i + 1]
    <3>1. conn' = [conn EXCEPT ![c] = f] /\ wpc' = [wpc EXCEPT ![w] = x] /\ UNCHANGED broken
      BY <1>1, <1>6, <2>5 DEF LoopConn, c, f, IInv, Types
    <3>2. x.at = "loop" /\ x.ret = "loop"
      BY <1>1 DEF WorkerRecords, SInv, WorkInv, WorkOK, HandOK
    <3> HIDE DEF x
    <3>3. wpc'[w] = x /\ conn'[c] = f /\ \A d \in Conns : d # c => conn'[d] = conn[d]
      BY <2>1, <3>1 DEF IInv, Types
    <3>4. ASSUME NEW d \in Conns, WorkerOf[d] = w PROVE OpOK(d)'
      <4>1. ~Held(d)'
        BY <3>2, <3>3, <3>4 DEF Held
      <4>2. CASE d = c
        <5>1. \E tag : f.ops = {tag}
          BY <1>3, <2>1, <2>2, <2>5 DEF Rests
        <5> QED BY <2>2, <2>3, <3>3, <4>1, <4>2, <5>1 DEF OpOK, Rests
      <4>3. CASE d # c
        BY <1>2, <1>3, <3>3, <3>4, <4>1, <4>3 DEF OpOK, Rests
      <4> QED BY <4>2, <4>3
    <3>5. OwnOps(w)' /\ HandOK(w)' /\ EndOK(w)'
      BY <3>2, <3>3, <3>4 DEF OwnOps, HandOK, EndOK, Busy
    <3>6. Closing(w)' /\ dying'[w]
      BY <1>2, <2>1, <2>3, <2>5, <3>3 DEF Closing, MustClose
    <3>7. WorkOK(w)'
      BY <3>5, <3>6 DEF WorkOK, ScanOK
    <3>8. WaitsInv' /\ ServedInv'
      BY <1>2, <2>1, <2>2, <2>5, <3>1, RefsOfOne
    <3>9. AssertionsHold' /\ UNCHANGED <<connections, dying, srv, start>>
            /\ wpc[w].at \notin {"unlaunched", "new", "done"} /\ x.at \notin {"unlaunched", "new"}
      BY <1>1, <1>2, <3>1, <3>2 DEF SInv, AssertionsHold, server
    <3>10. \A d \in Conns : WorkerOf[d] # w => conn'[d] = conn[d]
      BY <2>1, <3>3
    <3> QED BY <3>1, <3>7, <3>8, <3>9, <3>10, WorkerSInv
  <2>6. CASE ~MustClose(w, conn[c])
    <3> DEFINE y == [wpc[w] EXCEPT !.i = i + 1]
               z == [wpc[w] EXCEPT !.at = "consume", !.c = c, !.i = i + 1, !.n = NProcess]
    <3>1. UNCHANGED <<conn, broken>> /\ (wpc' = [wpc EXCEPT ![w] = y] \/ wpc' = [wpc EXCEPT ![w] = z])
      BY <1>1, <1>6, <2>6 DEF LoopConn, c
    <3>2. PICK x : /\ wpc' = [wpc EXCEPT ![w] = x] /\ x.i = i + 1 /\ x.ret = wpc[w].ret
                   /\ x.at = "loop" \/ (x.at = "consume" /\ x.c = c)
      <4>1. y.i = i + 1 /\ y.ret = wpc[w].ret /\ y.at = "loop"
        BY <1>1 DEF WorkerRecords
      <4>2. z.i = i + 1 /\ z.ret = wpc[w].ret /\ z.at = "consume" /\ z.c = c
        BY <1>1 DEF WorkerRecords
      <4> HIDE DEF y, z
      <4> QED BY <3>1, <4>1, <4>2
    <3>3. wpc'[w] = x
      BY <3>2 DEF IInv, Types
    <3>4. ASSUME NEW d \in Conns, WorkerOf[d] = w PROVE OpOK(d)'
      BY <1>2, <1>3, <3>1, <3>2, <3>3, <3>4 DEF OpOK, Held, Rests
    <3>5. OwnOps(w)' /\ HandOK(w)' /\ EndOK(w)'
      <4>1. wpc[w].ret = "loop"
        BY <1>1 DEF SInv, WorkInv, WorkOK, HandOK
      <4> QED BY <2>1, <3>1, <3>2, <3>3, <3>4, <4>1 DEF OwnOps, HandOK, EndOK, Busy
    <3>6. ASSUME dying[w], NEW j \in Nat, WaitsAt(w, j), Ahead(w, j) PROVE Ahead(w, j)'
      <4>1. conn[c].status = "CLOSE"
        BY <2>6, <3>6 DEF MustClose
      <4>2. j # i /\ j >= i
        BY <3>6, <4>1 DEF WaitsAt, Ahead, c
      <4>3. j >= i + 1
        BY <1>1, <4>2
      <4> QED BY <3>2, <3>3, <4>3 DEF Ahead, Busy
    <3> QED BY <1>1, <1>2, <3>1, <3>2, <3>5, <3>6, MoveSInv
  <2> QED BY <2>4, <2>5, <2>6
<1> QED BY <1>1, <1>4, <1>5, <1>6 DEF LoopConn

---------------------------------------------------------------------------
(* Tasks *)

\* The connection a worker has in hand.
LEMMA InHandOps ==
    ASSUME IInv, SInv, NEW w \in Workers, wpc[w].at \in Busy, NEW c \in Conns, c = wpc[w].c
    PROVE  /\ WorkerOf[c] = w /\ conn[c] \in ConnRecords /\ conn[c].closers \in Nat
           /\ wpc[w].at = "consume" =>
                 ~Held(c) /\ Rests(c) /\ conn[c].status \in {"WAIT_LOGIN", "READ", "CLOSE"}
           /\ wpc[w].at \in {"destroy", "finalize"} =>
                 Held(c) /\ conn[c].status \in {"LOGIN", "READ", "CLOSE"} /\ conn[c].ops = {}
           /\ \A d \in Conns : WorkerOf[d] = w /\ d # c => ~Held(d) /\ OpOK(d)
<1>1. WorkerOf[c] = w /\ conn[c] \in ConnRecords
  BY InHand
<1>2. \A d \in Conns : WorkerOf[d] = w => OpOK(d)
  BY DEF SInv, WorkInv, WorkOK, OwnOps
<1>3. wpc[w].at = "consume" => conn[c].status \in {"WAIT_LOGIN", "READ", "CLOSE"}
  BY DEF SInv, WorkInv, WorkOK, HandOK
<1>4. \A d \in Conns : WorkerOf[d] = w /\ d # c => ~Held(d)
  BY DEF Held
<1>5. (wpc[w].at = "consume" => ~Held(c)) /\ (wpc[w].at \in {"destroy", "finalize"} => Held(c))
  BY <1>1 DEF Held
<1> QED BY <1>1, <1>2, <1>3, <1>4, <1>5 DEF OpOK

\* Tasks come from threads: the worker has a waiter, or no login is deferred.
LEMMA TakenFacts ==
    ASSUME NoLateAnswer, IInv, SInv, NEW w \in Workers, NEW c \in Conns, c = wpc[w].c,
           NEW kind, NEW j, Taken(w, kind, j)
    PROVE  /\ Threads # {} /\ (~Waits(w) => dying[w] /\ "defer" \notin Uses)
           /\ TasksShrink /\ tasks[c][j].kind = kind /\ j \in 1..Len(tasks[c])
           /\ wpc[w].at \in {"consume", "destroy"} /\ UNCHANGED <<dying, app, srv, start>>
<1>1. /\ wpc[w].at \in {"consume", "destroy"} /\ tasks[c][j].kind = kind /\ j \in Heads(tasks[c])
      /\ tasks' = [tasks EXCEPT ![c] = Dequeue(tasks[c], j)] /\ UNCHANGED <<dying, app, srv, start>>
  BY DEF Taken, server
<1>2. tasks[c] \in Seq(Tasks) /\ j \in 1..Len(tasks[c]) /\ Len(tasks[c]) \in Nat
  BY <1>1, LenProperties DEF IInv, Types, Heads
<1>3. tasks[c][j] \in Tasks
  BY <1>2, ElementOfSeq
<1>4. Threads # {}
  BY <1>3 DEF Tasks
<1>5. ~Waits(w) => dying[w] /\ "defer" \notin Uses
  <2>1. ~Waits(w) => dying[w]
    BY <1>1 DEF SInv, WorkInv, WorkOK, ScanOK, Launched
  <2> QED BY <1>4, <2>1 DEF NoLateAnswer, SInv, PhaseInv
<1>6. TasksShrink
  <2> DEFINE q == Dequeue(tasks[c], j)
  <2>1. /\ Len(q) = Len(tasks[c]) - 1
        /\ \A k \in 1..(Len(tasks[c]) - 1) : q[k] = IF k < j THEN tasks[c][k] ELSE tasks[c][k + 1]
    BY <1>2, DequeueProperties
  <2>2. tasks'[c] = q /\ \A d \in Conns : d # c => tasks'[d] = tasks[d]
    BY <1>1 DEF IInv, Types
  <2> HIDE DEF q
  <2>3. ASSUME NEW k \in 1..Len(q) PROVE \E l \in 1..Len(tasks[c]) : q[k] = tasks[c][l]
    <3>1. k \in 1..Len(tasks[c]) /\ k + 1 \in 1..Len(tasks[c])
      BY <1>2, <2>1
    <3> QED BY <2>1, <3>1
  <2>4. ASSUME NEW d \in Conns, NEW k \in 1..Len(tasks'[d])
        PROVE  \E l \in 1..Len(tasks[d]) : tasks'[d][k] = tasks[d][l]
    <3>1. CASE d = c
      BY <2>2, <2>3, <2>4, <3>1
    <3>2. CASE d # c
      BY <2>2, <2>4, <3>2
    <3> QED BY <3>1, <3>2
  <2> QED BY <2>4 DEF TasksShrink
<1> QED BY <1>1, <1>2, <1>4, <1>5, <1>6

\* The step of a worker that takes a task of the connection it has in hand.
LEMMA TaskSInv ==
    ASSUME NoLateAnswer, IInv, IInv', SInv, NEW w \in Workers, NEW c \in Conns, c = wpc[w].c,
           NEW kind, NEW j, Taken(w, kind, j),
           NEW x, wpc' = [wpc EXCEPT ![w] = x], x.at \in {"consume", "destroy"},
           x.c = c, x.ret = wpc[w].ret,
           OpOK(c)', x.at = "consume" => conn'[c].status \in {"WAIT_LOGIN", "READ", "CLOSE"},
           \A d \in Conns : d # c => conn'[d] = conn[d],
           \A d \in Conns : d # c /\ Listed(d, connections[WorkerOf[d]])
                                  => Listed(d, connections'[WorkerOf[d]]),
           \A v \in Workers : v # w => connections'[v] = connections[v],
           WaitsInv', ServedInv', AssertionsHold'
    PROVE  SInv'
<1>1. /\ ~Waits(w) => dying[w] /\ "defer" \notin Uses
      /\ wpc[w].at \in {"consume", "destroy"} /\ UNCHANGED <<dying, app, srv, start>>
  BY TakenFacts
<1>2. wpc'[w] = x
  BY DEF IInv, Types
<1>3. /\ WorkerOf[c] = w /\ conn[c].status \in {"WAIT_LOGIN", "LOGIN", "READ", "CLOSE"}
      /\ \A d \in Conns : WorkerOf[d] = w /\ d # c => ~Held(d) /\ OpOK(d)
  BY <1>1, InHandOps DEF Busy
<1>4. ASSUME NEW d \in Conns, WorkerOf[d] = w PROVE OpOK(d)'
  <2>1. CASE d # c
    <3>1. ~Held(d)' /\ OpOK(d) /\ ~Held(d) /\ conn'[d] = conn[d]
      BY <1>2, <1>3, <1>4, <2>1 DEF Held
    <3> QED BY <2>1, <3>1 DEF OpOK, Rests
  <2> QED BY <2>1
<1>5. OwnOps(w)' /\ EndOK(w)' /\ HandOK(w)'
  <2>1. wpc[w].ret = "loop"
    BY <1>1 DEF SInv, WorkInv, WorkOK, HandOK, Busy
  <2> QED BY <1>2, <1>4, <2>1 DEF OwnOps, EndOK, HandOK
<1>6. ScanOK(w)'
  <2>1. CASE Waits(w)
    <3>1. PICK d \in Conns : WorkerOf[d] = w /\ conn[d].status = "ACCEPT"
      BY <2>1 DEF Waits
    <3>2. Waits(w)'
      BY <1>3, <3>1 DEF Waits
    <3> QED BY <3>2 DEF ScanOK
  <2>2. CASE ~Waits(w)
    <3>1. \A d \in Conns : conn'[d].status # "WAIT_LOGIN"
      BY <1>1, <2>2 DEF WaitsInv
    <3>2. ASSUME NEW k \in Nat, WaitsAt(w, k)' PROVE FALSE
      <4>1. connections'[w] \in Seq(Conns) /\ k \in 1..Len(connections'[w])
        BY <3>2 DEF IInv, Types, WaitsAt
      <4>2. connections'[w][k] \in Conns
        BY <4>1, ElementOfSeq
      <4> QED BY <3>1, <3>2, <4>2 DEF WaitsAt
    <3> QED BY <1>1, <2>2, <3>2 DEF ScanOK
  <2> QED BY <2>1, <2>2
<1>7. WorkOK(w)'
  BY <1>5, <1>6 DEF WorkOK
<1>8. \A d \in Conns : WorkerOf[d] # w => conn'[d] = conn[d]
  BY <1>3
<1>9. wpc[w].at \notin {"unlaunched", "new", "done"} /\ x.at \notin {"unlaunched", "new"}
  BY <1>1
<1> QED BY <1>1, <1>7, <1>8, <1>9, WorkerSInv

\* An answer accepts: the connection was waiting for it.
LEMMA TaskAcceptLoginSInv ==
    ASSUME NoLateAnswer, IInv, IInv', SInv, NEW w \in Workers, NEW c \in Conns, wpc[w].c = c,
           NEW j, TaskAcceptLogin(w, j)
    PROVE  SInv' /\ broken' \subseteq broken
<1> DEFINE id == tasks[c][j].id
           x == [wpc[w] EXCEPT !.n = @ - 1]
<1>1. Taken(w, "login", j)
  BY DEF TaskAcceptLogin
<1>2. /\ wpc[w].at \in Busy /\ NoNewTask /\ id \in Ids /\ Answered(c) /\ ~Answered(c)'
      /\ UNCHANGED app
  BY <1>1, TakenProperties DEF Tasks
<1>3. Threads # {} /\ TasksShrink /\ wpc[w].at \in {"consume", "destroy"}
  BY <1>1, TakenFacts
<1>4. conn[c].status = "WAIT_LOGIN"
  BY <1>2, <1>3 DEF SInv, WaitsInv, Pending
<1>5. /\ WorkerOf[c] = w /\ conn[c] \in ConnRecords /\ conn[c].closers \in Nat
      /\ wpc[w].at = "consume" /\ conn[c].ops = {}
  BY <1>2, <1>3, <1>4, InHandOps DEF Rests
<1>6. Register(c, id, conn[c], {})
  BY <1>4 DEF TaskAcceptLogin
<1>7. conn[c].lcid /\ c \notin pmap /\ \A t \in Threads : ~Answers(t, c)
  BY <1>2 DEF IInv, PendingInv, Pending, OnePlace
<1>8. wpc' = [wpc EXCEPT ![w] = x]
  BY <1>5 DEF TaskAcceptLogin, NextTask
<1>9. x.at = "consume" /\ x.c = c /\ x.ret = wpc[w].ret
  BY <1>2, <1>5, InHand DEF WorkerRecords
<1> HIDE DEF id, x
<1>10. /\ conn'[c].status = "READ" /\ conn'[c].ops = {"read"} /\ conn'[c].closers = conn[c].closers
       /\ \A d \in Conns : d # c => conn'[d] = conn[d]
       /\ \A d \in Conns : d # c /\ Listed(d, connections[WorkerOf[d]])
                              => Listed(d, connections'[WorkerOf[d]])
       /\ \A v \in Workers : v # WorkerOf[c] => connections'[v] = connections[v]
       /\ WaitsInv' /\ ServedInv' /\ broken' \subseteq broken
  BY <1>2, <1>3, <1>4, <1>5, <1>6, <1>7, RegisterFacts
<1>11. OpOK(c)'
  <2>1. ~Held(c)'
    BY <1>5, <1>8, <1>9 DEF Held, IInv, Types
  <2> QED BY <1>5, <1>10, <2>1 DEF OpOK, Rests
<1>12. AssertionsHold'
  BY <1>10 DEF SInv, AssertionsHold
<1>13. /\ x.at \in {"consume", "destroy"} /\ conn'[c].status \in {"WAIT_LOGIN", "READ", "CLOSE"}
       /\ \A v \in Workers : v # w => connections'[v] = connections[v]
  BY <1>5, <1>9, <1>10
<1>14. SInv'
  BY <1>1, <1>8, <1>9, <1>10, <1>11, <1>12, <1>13, TaskSInv
<1> QED BY <1>10, <1>14

\* The other tasks: an answer that denies finds the connection waiting for it,
\* and any other task one that has been logged in.
LEMMA TasksSInv ==
    ASSUME NoLateAnswer, IInv, IInv', SInv, NEW w \in Workers, NEW c \in Conns, wpc[w].c = c, NEW j,
           TaskDenyLogin(w, j) \/ TaskClose(w, j) \/ TaskHandle(w, j)
    PROVE  SInv' /\ broken' = broken
<1>1. PICK kind \in {"login", "close", "normal"} :
          /\ Taken(w, kind, j) /\ UNCHANGED <<pmap, cmap, connections>>
          /\ kind = "login" => TaskDenyLogin(w, j)
          /\ kind = "close" => TaskClose(w, j)
          /\ kind = "normal" => TaskHandle(w, j)
  BY DEF TaskDenyLogin, TaskClose, TaskHandle
<1>2. /\ Threads # {} /\ TasksShrink /\ wpc[w].at \in {"consume", "destroy"}
      /\ tasks[c][j].kind = kind /\ j \in 1..Len(tasks[c])
  BY <1>1, TakenFacts
<1>3. /\ wpc[w].at \in Busy /\ NoNewTask /\ UNCHANGED app
      /\ kind = "login" => Answered(c) /\ ~Answered(c)'
  BY <1>1, TakenProperties
<1>4. /\ WorkerOf[c] = w /\ conn[c] \in ConnRecords /\ conn[c].closers \in Nat /\ wpc[w] \in WorkerRecords
      /\ wpc[w].at = "consume" =>
            ~Held(c) /\ Rests(c) /\ conn[c].status \in {"WAIT_LOGIN", "READ", "CLOSE"}
      /\ wpc[w].at \in {"destroy", "finalize"} =>
            Held(c) /\ conn[c].status \in {"LOGIN", "READ", "CLOSE"} /\ conn[c].ops = {}
  BY <1>3, InHandOps, InHand
<1> DEFINE f == FinishByTask(conn[c])
           g == InternalClose(conn[c])
<1>5. /\ f.status = "CLOSE" /\ f.ops = conn[c].ops /\ f.closers \in Nat
      /\ g.status = "CLOSE" /\ g.ops = conn[c].ops /\ g.closers \in Nat
  BY <1>4, RecordOps, CountOps DEF Counts
<1> HIDE DEF f, g
<1>6. CASE kind = "login"
  <2>1. conn[c].status = "WAIT_LOGIN"
    BY <1>2, <1>3, <1>6 DEF SInv, WaitsInv, Pending
  <2>2. wpc[w].at = "consume" /\ conn[c].ops = {}
    BY <1>2, <1>4, <2>1 DEF Rests
  <2> DEFINE x == [wpc[w] EXCEPT !.at = "destroy", !.n = -1]
  <2>3. conn' = [conn EXCEPT ![c] = f] /\ wpc' = [wpc EXCEPT ![w] = x] /\ broken' = broken
    BY <1>1, <1>6, <2>1 DEF TaskDenyLogin, f
  <2>4. x.at = "destroy" /\ x.c = c /\ x.ret = wpc[w].ret
    BY <1>4 DEF WorkerRecords
  <2> HIDE DEF x
  <2>5. conn'[c] = f /\ wpc'[w] = x /\ \A d \in Conns : d # c => conn'[d] = conn[d]
    BY <2>3 DEF IInv, Types
  <2>6. OpOK(c)'
    BY <1>4, <1>5, <2>2, <2>4, <2>5 DEF OpOK, Held
  <2>7. ~Pending(c)'
    BY <1>1, <1>3, <1>6 DEF Pending, Answers, IInv, OnePlace
  <2>8. WaitsInv' /\ ServedInv'
    BY <1>1, <1>2, <1>3, <1>5, <2>1, <2>3, <2>7, RefsOfOne
  <2>9. AssertionsHold'
    BY <2>3 DEF SInv, AssertionsHold
  <2> QED BY <1>1, <2>3, <2>4, <2>5, <2>6, <2>8, <2>9, TaskSInv
<1>7. CASE kind # "login"
  <2>1. Served(c)
    BY <1>2, <1>7 DEF SInv, ServedInv
  <2>2. conn[c].status \in {"READ", "CLOSE"}
    BY <1>2, <1>4, <2>1 DEF Served
  <2> DEFINE x == [wpc[w] EXCEPT !.n = @ - 1]
  <2>3. x.at = wpc[w].at /\ x.c = c /\ x.ret = wpc[w].ret
    BY <1>4 DEF WorkerRecords
  <2>4. wpc' = [wpc EXCEPT ![w] = x] /\ broken' = broken
    BY <1>1, <1>4, <1>7 DEF TaskClose, TaskHandle, NextTask
  <2>5. PICK r : conn' = [conn EXCEPT ![c] = r] /\ r \in {f, g, conn[c]}
    <3>1. CASE kind = "close"
      BY <1>1, <3>1 DEF TaskClose, f
    <3>2. CASE kind = "normal"
      <4>1. conn = [conn EXCEPT ![c] = conn[c]]
        BY DEF IInv, Types
      <4>2. conn' = conn \/ conn' = [conn EXCEPT ![c] = g]
        BY <1>1, <3>2 DEF TaskHandle, g
      <4> QED BY <4>1, <4>2
    <3> QED BY <1>7, <3>1, <3>2
  <2> HIDE DEF x
  <2>6. r.status \in {"READ", "CLOSE"} /\ r.ops = conn[c].ops /\ r.closers \in Nat
    BY <1>4, <1>5, <2>2, <2>5
  <2>7. conn'[c] = r /\ wpc'[w] = x /\ \A d \in Conns : d # c => conn'[d] = conn[d]
    BY <2>4, <2>5 DEF IInv, Types
  <2>8. Held(c)' <=> Held(c)
    BY <1>4, <2>3, <2>7 DEF Held
  <2>9. OpOK(c)'
    <3>1. CASE Held(c)
      BY <1>4, <2>6, <2>7, <2>8, <3>1 DEF OpOK, Held
    <3>2. CASE ~Held(c)
      <4>1. Rests(c)
        BY <1>2, <1>4, <3>2
      <4>2. \E tag : conn[c].ops = {tag}
        BY <2>2, <4>1 DEF Rests
      <4> QED BY <2>6, <2>7, <2>8, <3>2, <4>2 DEF OpOK, Rests
    <3> QED BY <3>1, <3>2
  <2>10. WaitsInv' /\ ServedInv'
    BY <1>1, <1>2, <1>3, <2>2, <2>5, <2>6, RefsOfOne
  <2>11. AssertionsHold'
    BY <2>4 DEF SInv, AssertionsHold
  <2>12. UNCHANGED connections
    BY <1>1
  <2> QED BY <1>1, <1>2, <2>3, <2>4, <2>6, <2>7, <2>9, <2>10, <2>11, <2>12, TaskSInv
<1> QED BY <1>6, <1>7

---------------------------------------------------------------------------
(* The end of Destroy, and of the worker *)

\* ConsumeTask returns.
LEMMA TasksDoneSInv ==
    ASSUME IInv, SInv, NEW w \in Workers, TasksDone(w)
    PROVE  SInv'
<1>1. /\ wpc[w].at \in {"consume", "destroy"} /\ wpc' = [wpc EXCEPT ![w] = Return(w)]
      /\ UNCHANGED <<conn, tasks, connections, dying, cmap, pmap, app, server, broken>>
  BY DEF TasksDone
<1>2. wpc[w] \in WorkerRecords /\ wpc[w].ret = "loop" /\ wpc[w].i \in Nat
  BY <1>1 DEF IInv, Types, WorkerRecords, SInv, WorkInv, WorkOK, HandOK, Busy
<1>3. PICK x : /\ wpc' = [wpc EXCEPT ![w] = x] /\ x.i = wpc[w].i /\ x.ret = "loop"
               /\ \/ wpc[w].at = "destroy" /\ x.at = "finalize" /\ x.c = wpc[w].c
                  \/ wpc[w].at = "consume" /\ x.at = "loop"
  <2> DEFINE y == [wpc[w] EXCEPT !.at = "finalize"]
             z == [Poll EXCEPT !.at = "loop", !.i = wpc[w].i]
  <2>1. y.at = "finalize" /\ y.i = wpc[w].i /\ y.c = wpc[w].c /\ y.ret = "loop"
    BY <1>2 DEF WorkerRecords
  <2>2. z.at = "loop" /\ z.i = wpc[w].i /\ z.ret = "loop"
    BY DEF Poll
  <2>3. (wpc[w].at = "destroy" => Return(w) = y) /\ (wpc[w].at = "consume" => Return(w) = z)
    BY DEF Return
  <2> HIDE DEF y, z
  <2> QED BY <1>1, <2>1, <2>2, <2>3
<1>4. wpc'[w] = x
  BY <1>3 DEF IInv, Types
<1>5. ASSUME NEW d \in Conns, WorkerOf[d] = w PROVE OpOK(d)'
  <2>1. OpOK(d) /\ (Held(d)' <=> Held(d))
    BY <1>3, <1>4, <1>5 DEF SInv, WorkInv, WorkOK, OwnOps, Held
  <2> QED BY <1>1, <2>1 DEF OpOK, Rests
<1>6. OwnOps(w)' /\ HandOK(w)' /\ EndOK(w)'
  BY <1>3, <1>4, <1>5 DEF OwnOps, HandOK, EndOK
<1>7. \A j \in Nat : Ahead(w, j) => Ahead(w, j)'
  BY <1>3, <1>4 DEF Ahead, Busy
<1>8. wpc[w].at \notin {"unlaunched", "new", "done"} /\ x.at \notin {"unlaunched", "new"}
  BY <1>1, <1>3
<1> QED BY <1>1, <1>3, <1>6, <1>7, <1>8, MoveSInv

\* What the end of Destroy leaves: the connection is deleted, and nothing refers
\* to it but the handles of the application.
LEMMA FinalizeFacts ==
    ASSUME IInv, SInv, NEW w \in Workers, NEW c \in Conns, c = wpc[w].c, Finalize(w)
    PROVE  /\ conn' = [conn EXCEPT ![c] = Closed(@)] /\ wpc[w].at = "finalize" /\ WorkerOf[c] = w
           /\ conn'[c].status = "deleted" /\ conn'[c].ops = {} /\ conn'[c].closers = conn[c].closers
           /\ conn[c].status \in {"LOGIN", "READ", "CLOSE"}
           /\ \A d \in Conns : d # c => conn'[d] = conn[d]
           /\ pmap' \subseteq pmap
           /\ \A k \in Ids : cmap'[k] = cmap[k] \/ (cmap[k] = c /\ cmap'[k] = NoConn)
           /\ \A k \in Ids : cmap'[k] # c
           /\ \A t \in Threads : \/ app'[t] = app[t] /\ (app[t].at = "node" => cmap'[app[t].key] = cmap[app[t].key])
                                 \/ app'[t].at = "dangling" /\ app[t].at = "node" /\ cmap[app[t].key] = c
           /\ UNCHANGED <<dying, client, srv, start, broken>>
<1>1. wpc[w].at = "finalize" /\ wpc[w].at \in Busy
  BY DEF Finalize, Busy
<1>2. /\ WorkerOf[c] = w /\ conn[c] \in ConnRecords /\ conn[c].closers \in Nat
      /\ conn[c].status \in {"LOGIN", "READ", "CLOSE"} /\ conn[c].ops = {}
  BY <1>1, InHandOps
<1>3. /\ Closed(conn[c]).status = "deleted" /\ Closed(conn[c]).ops = {}
      /\ Closed(conn[c]).closers = conn[c].closers
  BY <1>2, RecordOps, CountOps
<1>4. /\ conn' = [conn EXCEPT ![c] = Closed(@)] /\ Unregister(c)
      /\ pmap' = IF conn[c].lcid THEN pmap \ {c} ELSE pmap
      /\ UNCHANGED <<dying, client, srv, start, broken>>
  BY DEF Finalize, server
<1>5. conn'[c] = Closed(conn[c]) /\ \A d \in Conns : d # c => conn'[d] = conn[d]
  BY <1>4 DEF IInv, Types
<1> DEFINE id == conn[c].cid
<1>6. id \in Ids
  BY <1>2 DEF ConnRecords
<1>7. \A k \in Ids : cmap[k] = c => k = id
  BY NoConnAssumption DEF IInv, MapInv
<1>8. \A t \in Threads : app[t] \in AppRecords
  BY DEF IInv, Types
<1> HIDE DEF id
<1>9. CASE cmap[id] = c
  <2>1. cmap' = [cmap EXCEPT ![id] = NoConn] /\ app' = Dangle(app, id)
    BY <1>4, <1>9 DEF Unregister, id
  <2>2. cmap'[id] = NoConn /\ \A k \in Ids : k # id => cmap'[k] = cmap[k]
    BY <1>6, <2>1 DEF IInv, Types
  <2>3. ASSUME NEW t \in Threads
        PROVE  \/ app'[t] = app[t] /\ (app[t].at = "node" => cmap'[app[t].key] = cmap[app[t].key])
               \/ app'[t].at = "dangling" /\ app[t].at = "node" /\ cmap[app[t].key] = c
    <3>1. app[t].key \in Ids
      BY <1>8 DEF AppRecords
    <3>2. CASE app[t].at = "node" /\ app[t].key = id
      <4>1. app'[t] = [app[t] EXCEPT !.at = "dangling"]
        BY <2>1, <3>2 DEF Dangle
      <4>2. app'[t].at = "dangling"
        BY <1>8, <4>1 DEF AppRecords
      <4> QED BY <1>9, <3>2, <4>2
    <3>3. CASE ~(app[t].at = "node" /\ app[t].key = id)
      <4>1. app'[t] = app[t]
        BY <2>1, <3>3 DEF Dangle
      <4> QED BY <2>2, <3>1, <3>3, <4>1
    <3> QED BY <3>2, <3>3
  <2> QED BY <1>1, <1>2, <1>3, <1>4, <1>5, <1>7, <1>9, <2>2, <2>3, NoConnAssumption
<1>10. CASE cmap[id] # c
  <2>1. UNCHANGED <<cmap, app>>
    BY <1>4, <1>10 DEF Unregister, id
  <2> QED BY <1>1, <1>2, <1>3, <1>4, <1>5, <1>7, <1>10, <2>1
<1> QED BY <1>9, <1>10

\* The worker goes on in the loop where Destroy was called.
LEMMA FinalizeSInv ==
    ASSUME IInv, IInv', SInv, NEW w \in Workers, Finalize(w)
    PROVE  SInv' /\ broken' = broken
<1> DEFINE c == wpc[w].c
           x == [Poll EXCEPT !.at = wpc[w].ret, !.i = wpc[w].i]
<1>1. c \in Conns /\ wpc[w].at = "finalize" /\ wpc[w].ret = "loop" /\ wpc[w].i \in Nat /\ wpc[w].i >= 1
  <2>1. wpc[w].at = "finalize" /\ wpc[w].at \in Busy
    BY DEF Finalize, Busy
  <2> QED BY <2>1, InHand DEF SInv, WorkInv, WorkOK, HandOK, IInv, WorkerInv, WorkerOK, Scanning, WorkerRecords
<1>2. x.at = "loop" /\ x.i = wpc[w].i /\ x.ret = "loop"
  BY <1>1 DEF Poll
<1>3. /\ wpc' = [wpc EXCEPT ![w] = x] /\ tasks' = [tasks EXCEPT ![c] = <<>>]
      /\ connections' = [connections EXCEPT ![w] = Without(@, c)]
  BY DEF Finalize, OnUnregister
<1> HIDE DEF c, x
<1>4. /\ WorkerOf[c] = w
      /\ conn'[c].status = "deleted" /\ conn'[c].ops = {} /\ conn'[c].closers = conn[c].closers
      /\ conn[c].status \in {"LOGIN", "READ", "CLOSE"}
      /\ \A d \in Conns : d # c => conn'[d] = conn[d]
      /\ pmap' \subseteq pmap
      /\ \A k \in Ids : cmap'[k] = cmap[k] \/ (cmap[k] = c /\ cmap'[k] = NoConn)
      /\ \A k \in Ids : cmap'[k] # c
      /\ \A t \in Threads : \/ app'[t] = app[t] /\ (app[t].at = "node" => cmap'[app[t].key] = cmap[app[t].key])
                            \/ app'[t].at = "dangling" /\ app[t].at = "node" /\ cmap[app[t].key] = c
      /\ UNCHANGED <<dying, client, srv, start, broken>>
  BY <1>1, FinalizeFacts DEF c
<1>5. wpc'[w] = x
  BY <1>3 DEF IInv, Types
<1>6. /\ connections[w] \in Seq(Conns) /\ Once(connections[w]) /\ connections'[w] = Without(connections[w], c)
      /\ \A v \in Workers : v # w => connections'[v] = connections[v]
  BY <1>3 DEF IInv, Types, ListInv
<1>7. \A d : Listed(d, connections'[w]) => Listed(d, connections[w]) /\ d # c
  BY <1>6, WithoutProperties
<1>8. /\ \A d \in Conns : WorkerOf[d] = w => OpOK(d) /\ conn[d].closers \in Nat
      /\ \A d \in Conns : WorkerOf[d] = w /\ d # c => ~Held(d)
  BY <1>1 DEF SInv, WorkInv, WorkOK, OwnOps, OpOK, Held, c
<1>9. ASSUME NEW d \in Conns, WorkerOf[d] = w PROVE OpOK(d)'
  <2>1. ~Held(d)'
    BY <1>2, <1>5, <1>9 DEF Held
  <2>2. CASE d = c
    BY <1>4, <1>8, <1>9, <2>1, <2>2 DEF OpOK, Rests
  <2>3. CASE d # c
    <3>1. OpOK(d) /\ ~Held(d) /\ conn'[d] = conn[d]
      BY <1>4, <1>8, <1>9, <2>3
    <3>2. Listed(d, connections[w]) => Listed(d, connections'[w])
      BY <1>6, <2>3, WithoutKeeps
    <3> QED BY <1>9, <2>1, <3>1, <3>2 DEF OpOK, Rests
  <2> QED BY <2>2, <2>3
<1>10. OwnOps(w)' /\ HandOK(w)' /\ EndOK(w)'
  BY <1>2, <1>5, <1>9 DEF OwnOps, HandOK, EndOK
<1>11. ScanOK(w)'
  <2>1. ASSUME ~Waits(w)' PROVE ~Waits(w)
    <3>1. ASSUME NEW d \in Conns, WorkerOf[d] = w, conn[d].status = "ACCEPT" PROVE FALSE
      BY <1>4, <2>1, <3>1 DEF Waits
    <3> QED BY <3>1 DEF Waits
  <2>2. ~Waits(w) => dying[w] /\ (Closing(w) \/ \A j \in Nat : WaitsAt(w, j) => Ahead(w, j))
    BY <1>1 DEF SInv, WorkInv, WorkOK, ScanOK, Launched
  <2>3. Closing(w) => Closing(w)'
    BY <1>4 DEF Closing
  <2>4. ASSUME \A j \in Nat : WaitsAt(w, j) => Ahead(w, j), NEW j \in Nat, WaitsAt(w, j)'
        PROVE  Ahead(w, j)'
    <3>1. j \in 1..Len(connections'[w]) /\ conn'[connections'[w][j]].status = "WAIT_LOGIN"
      BY <2>4 DEF WaitsAt
    <3>2. PICK d : d = connections'[w][j]
      OBVIOUS
    <3>3. Listed(d, connections[w]) /\ d # c
      BY <1>7, <3>1, <3>2 DEF Listed
    <3>4. PICK l \in 1..Len(connections[w]) : connections[w][l] = d
      BY <3>3 DEF Listed
    <3>5. d \in Conns /\ l \in Nat
      BY <1>6, <3>4, ElementOfSeq
    <3>6. WaitsAt(w, l)
      BY <1>4, <3>1, <3>2, <3>3, <3>4, <3>5 DEF WaitsAt
    <3>7. wpc[w].i = 1
      BY <1>1, <2>4, <3>5, <3>6 DEF Ahead
    <3> QED BY <1>2, <1>5, <3>1, <3>7 DEF Ahead
  <2> QED BY <1>4, <2>1, <2>2, <2>3, <2>4 DEF ScanOK
<1>12. tasks'[c] = <<>> /\ \A d \in Conns : d # c => tasks'[d] = tasks[d]
  BY <1>1, <1>3 DEF IInv, Types
<1>13. WaitsInv'
  <2>1. ASSUME NEW d \in Conns, Pending(d)' PROVE Pending(d)
    <3>1. Answered(d)' => Answered(d)
      <4>1. CASE d = c
        <5>1. Len(<<>>) = 0
          OBVIOUS
        <5>2. \A j \in Nat : ~AnswerTask(d, j)'
          BY <1>12, <4>1, <5>1 DEF AnswerTask
        <5> QED BY <5>2 DEF Answered
      <4>2. CASE d # c
        BY <1>12, <4>2 DEF Answered, AnswerTask
      <4> QED BY <4>1, <4>2
    <3>2. \A t \in Threads : Answers(t, d)' => Answers(t, d)
      BY <1>4 DEF Answers
    <3> QED BY <1>4, <2>1, <3>1, <3>2 DEF Pending
  <2>2. ASSUME NEW d \in Conns
        PROVE  /\ Pending(d)' /\ Threads # {} => conn'[d].status = "WAIT_LOGIN"
               /\ "defer" \notin Uses => ~Pending(d)' /\ conn'[d].status # "WAIT_LOGIN"
    <3>1. /\ Pending(d) /\ Threads # {} => conn[d].status = "WAIT_LOGIN"
          /\ "defer" \notin Uses => ~Pending(d) /\ conn[d].status # "WAIT_LOGIN"
      BY DEF SInv, WaitsInv
    <3>2. CASE d = c
      BY <1>4, <2>1, <3>1, <3>2
    <3>3. CASE d # c
      BY <1>4, <2>1, <3>1, <3>3
    <3> QED BY <3>2, <3>3
  <2> QED BY <2>2 DEF WaitsInv
<1>14. ServedInv'
  <2>1. ASSUME NEW k \in Ids, cmap'[k] # NoConn PROVE conn'[cmap'[k]].status \in {"READ", "CLOSE"}
    <3>1. cmap'[k] = cmap[k] /\ cmap[k] # c /\ cmap[k] \in Conns /\ conn[cmap[k]].status \in {"READ", "CLOSE"}
      BY <1>4, <2>1 DEF IInv, Types, SInv, ServedInv
    <3> QED BY <1>4, <3>1
  <2>2. \A d \in Conns : Served(d) => Served(d)'
    BY <1>4 DEF Served
  <2>3. ASSUME NEW t \in Threads
        PROVE  /\ app'[t].at = "node" => cmap'[app'[t].key] # NoConn
               /\ app'[t].at = "handle" => app'[t].c \in Conns
                                             /\ conn'[app'[t].c].status \in {"READ", "CLOSE", "deleted"}
    <3>1. /\ app[t].at = "node" => cmap[app[t].key] # NoConn
          /\ app[t].at = "handle" => app[t].c \in Conns /\ Served(app[t].c)
      BY DEF SInv, ServedInv
    <3>2. CASE app'[t] = app[t] /\ (app[t].at = "node" => cmap'[app[t].key] = cmap[app[t].key])
      <4>1. app[t].at = "handle" => conn'[app[t].c].status \in {"READ", "CLOSE", "deleted"}
        BY <2>2, <3>1 DEF Served
      <4> QED BY <3>1, <3>2, <4>1
    <3>3. CASE app'[t].at = "dangling"
      BY <3>3
    <3> QED BY <1>4, <3>2, <3>3
  <2>4. ASSUME NEW d \in Conns, ~Served(d)' PROVE \A j \in 1..Len(tasks'[d]) : tasks'[d][j].kind = "login"
    <3>1. d # c /\ ~Served(d)
      BY <1>4, <2>2, <2>4 DEF Served
    <3> QED BY <1>12, <3>1 DEF SInv, ServedInv
  <2> QED BY <2>1, <2>3, <2>4 DEF ServedInv, Served
<1>15. AssertionsHold'
  BY <1>4 DEF SInv, AssertionsHold
<1>16. WorkOK(w)'
  BY <1>10, <1>11 DEF WorkOK
<1>17. /\ wpc[w].at \notin {"unlaunched", "new", "done"} /\ x.at \notin {"unlaunched", "new"}
       /\ \A d \in Conns : WorkerOf[d] # w => conn'[d] = conn[d]
  BY <1>1, <1>2, <1>4
<1>18. SInv'
  BY <1>3, <1>4, <1>6, <1>13, <1>14, <1>15, <1>16, <1>17, WorkerSInv
<1> QED BY <1>4, <1>18

\* The last loop of Run finds nothing.
LEMMA FinalConnSInv ==
    ASSUME IInv, SInv, NEW w \in Workers, FinalConn(w)
    PROVE  SInv' /\ broken' = broken
<1> DEFINE x == [Poll EXCEPT !.at = "done"]
<1>1. wpc[w].at = "final" /\ wpc[w].i \in Nat /\ wpc[w].i >= 1
  BY DEF FinalConn, IInv, Types, WorkerRecords, WorkerInv, WorkerOK, Scanning
<1>2. EndOK(w) /\ connections[w] = <<>>
  BY <1>1 DEF SInv, WorkInv, WorkOK, EndOK
<1>3. Len(connections[w]) = 0
  BY <1>2
<1>4. /\ wpc' = [wpc EXCEPT ![w] = x]
      /\ UNCHANGED <<conn, tasks, connections, dying, cmap, pmap, app, server, broken>>
  BY <1>1, <1>3 DEF FinalConn
<1>5. x.at = "done"
  BY DEF Poll
<1> HIDE DEF x
<1>6. wpc'[w] = x
  BY <1>4 DEF IInv, Types
<1>7. ASSUME NEW d \in Conns, WorkerOf[d] = w PROVE OpOK(d)'
  <2>1. OpOK(d) /\ ~Held(d) /\ ~Held(d)'
    BY <1>1, <1>5, <1>6, <1>7 DEF SInv, WorkInv, WorkOK, OwnOps, Held
  <2> QED BY <1>4, <2>1 DEF OpOK, Rests
<1>8. EndOK(w)'
  BY <1>1, <1>2, <1>4 DEF EndOK, Live
<1>9. OwnOps(w)' /\ HandOK(w)'
  BY <1>5, <1>6, <1>7 DEF OwnOps, HandOK, Busy
<1>10. \A j \in Nat : ~Ahead(w, j)
  BY <1>1 DEF Ahead, Busy
<1>11. SInv'
  BY <1>1, <1>4, <1>5, <1>8, <1>9, <1>10, MoveSInv
<1> QED BY <1>4, <1>11

\* The queue was shut down and is empty: every connection of the worker is gone.
LEMMA ShutdownEventSInv ==
    ASSUME IInv, SInv, NEW w \in Workers, ShutdownEvent(w)
    PROVE  SInv'
<1> DEFINE x == [Poll EXCEPT !.at = "final", !.i = 1]
<1>1. /\ wpc[w].at = "poll" /\ wpc' = [wpc EXCEPT ![w] = x] /\ srv = "draining"
      /\ \A d \in Conns : WorkerOf[d] = w => conn[d].ops = {} /\ conn[d].closers = 0
      /\ UNCHANGED <<conn, tasks, connections, dying, cmap, pmap, app, server, broken>>
  BY DEF ShutdownEvent
<1>2. x.at = "final"
  BY DEF Poll
<1> HIDE DEF x
<1>3. wpc'[w] = x /\ dying[w]
  BY <1>1 DEF IInv, Types, SInv, PhaseInv
<1>4. \A d \in Conns : WorkerOf[d] = w => ~Held(d) /\ Rests(d)
  BY <1>1, PollFacts
<1>5. ~Waits(w) /\ ~Closing(w)
  <2>1. ~Waits(w)
    BY <1>1, <1>4 DEF Waits, Rests
  <2>2. ~Closing(w)
    BY <1>1 DEF Closing
  <2> QED BY <2>1, <2>2
<1>6. \A j \in Nat : ~WaitsAt(w, j)
  BY <1>1, <1>5 DEF SInv, WorkInv, WorkOK, ScanOK, Launched, Ahead, Busy
<1>7. connections[w] \in Seq(Conns) /\ Len(connections[w]) \in Nat
  BY LenProperties DEF IInv, Types
<1>8. ASSUME NEW d \in Conns, WorkerOf[d] = w PROVE ~Live(d)
  <2>1. Rests(d) /\ conn[d].ops = {} /\ conn[d].status \in Statuses
    BY <1>1, <1>4, <1>8 DEF IInv, Types, ConnRecords
  <2>2. conn[d].status # "WAIT_LOGIN"
    <3>1. ASSUME conn[d].status = "WAIT_LOGIN" PROVE FALSE
      <4>1. PICK j \in 1..Len(connections[w]) : connections[w][j] = d
        BY <1>8, <2>1, <3>1 DEF Rests, Listed
      <4>2. j \in Nat /\ WaitsAt(w, j)
        BY <1>7, <3>1, <4>1 DEF WaitsAt
      <4> QED BY <1>6, <4>2
    <3> QED BY <3>1
  <2> QED BY <2>1, <2>2 DEF Rests, Statuses, Live
<1>9. connections[w] = <<>>
  <2>1. ASSUME Len(connections[w]) # 0 PROVE FALSE
    <3>1. 1 \in 1..Len(connections[w])
      BY <1>7, <2>1
    <3>2. PICK d \in Conns : WorkerOf[d] = w /\ conn[d].status \in {"WAIT_LOGIN", "READ", "CLOSE"}
      BY <3>1, AtPlace
    <3> QED BY <1>8, <3>2 DEF Live
  <2> QED BY <1>7, <2>1, EmptySeq
<1>10. EndOK(w)'
  BY <1>1, <1>3, <1>8, <1>9 DEF EndOK, Live
<1>11. ASSUME NEW d \in Conns, WorkerOf[d] = w PROVE OpOK(d)'
  <2>1. OpOK(d) /\ ~Held(d) /\ ~Held(d)'
    BY <1>2, <1>3, <1>4, <1>11 DEF SInv, WorkInv, WorkOK, OwnOps, Held
  <2> QED BY <1>1, <2>1 DEF OpOK, Rests
<1>12. OwnOps(w)' /\ HandOK(w)'
  BY <1>2, <1>3, <1>11 DEF OwnOps, HandOK, Busy
<1> QED BY <1>1, <1>2, <1>6, <1>10, <1>12, MoveSInv
---------------------------------------------------------------------------
(* The steps that change no connection *)

\* A step that changes nothing that refers to a connection.
LEMMA RefsRest ==
    ASSUME IInv, SInv, UNCHANGED <<conn, tasks, cmap, pmap, app>>
    PROVE  WaitsInv' /\ ServedInv'
<1>1. \A d \in Conns : Moves(d)
  BY DEF Moves
<1>2. TasksShrink /\ \A d \in Conns : Pending(d)' => Pending(d)
  BY DEF TasksShrink, Pending, Answers, Answered, AnswerTask
<1> QED BY <1>1, <1>2, RefsInv DEF SInv

\* AsyncNext returns TIMEOUT.
LEMMA TimeoutSInv ==
    ASSUME IInv, SInv, NEW w \in Workers, Timeout(w)
    PROVE  SInv'
<1>1. /\ wpc[w].at = "poll" /\ AfterEvent(w)
      /\ UNCHANGED <<conn, tasks, connections, dying, cmap, pmap, app, server, broken>>
  BY DEF Timeout
<1>2. /\ \A d \in Conns : WorkerOf[d] = w => Rests(d) /\ conn[d].closers \in Nat
      /\ Waits(w) \/ dying[w]
  BY <1>1, PollFacts
<1>3. /\ \A d \in Conns : WorkerOf[d] = w => conn'[d].closers \in Nat /\ Rests(d)'
      /\ Waits(w)' \/ dying'[w]
  BY <1>1, <1>2 DEF Rests, Waits
<1>4. WorkOK(w)' /\ \E x : wpc' = [wpc EXCEPT ![w] = x] /\ x.at \notin {"unlaunched", "new"}
  BY <1>1, <1>3, EventWork
<1>5. WaitsInv' /\ ServedInv'
  BY <1>1, RefsRest
<1>6. AssertionsHold' /\ UNCHANGED <<connections, dying, srv, start>>
        /\ wpc[w].at \notin {"unlaunched", "new", "done"}
        /\ \A d \in Conns : WorkerOf[d] # w => conn'[d] = conn[d]
  BY <1>1 DEF SInv, AssertionsHold, server
<1> QED BY <1>4, <1>5, <1>6, WorkerSInv

\* The first New of a worker creates its waiter.
LEMMA NewSInv ==
    ASSUME IInv, SInv, NEW w \in Workers, New(w)
    PROVE  SInv'
<1> DEFINE n == NextConn(w, Conns)
           r == Waiting(conn[n])
<1>1. /\ wpc[w].at = "new" /\ wpc' = [wpc EXCEPT ![w] = Poll] /\ conn' = [conn EXCEPT ![n] = r]
      /\ UNCHANGED <<tasks, connections, dying, cmap, pmap, app, srv, start, broken>>
  BY DEF New, server
<1>2. n \in Conns /\ WorkerOf[n] = w
  BY WorkerOfAssumption DEF NextConn
<1>3. conn[n].status = "none" /\ conn[n] \in ConnRecords
  BY <1>1, <1>2 DEF IInv, Types, WorkerInv, WorkerOK
<1>4. r.status = "ACCEPT" /\ r.ops = {"accept"} /\ r.closers = conn[n].closers
  BY <1>3, RecordOps, CountOps DEF Counts
<1> HIDE DEF n, r
<1>5. conn'[n] = r /\ \A d \in Conns : d # n => conn'[d] = conn[d]
  BY <1>1, <1>2 DEF IInv, Types
<1>6. wpc'[w] = Poll /\ Poll.at = "poll" /\ \A v \in Workers : v # w => wpc'[v] = wpc[v]
  BY <1>1 DEF IInv, Types, Poll
<1>7. ASSUME NEW d \in Conns, WorkerOf[d] = w PROVE OpOK(d)'
  <2>1. OpOK(d) /\ ~Held(d) /\ ~Held(d)'
    BY <1>1, <1>6, <1>7 DEF SInv, WorkInv, WorkOK, OwnOps, Held
  <2>2. CASE d = n
    BY <1>4, <1>5, <2>1, <2>2 DEF OpOK, Rests
  <2>3. CASE d # n
    BY <1>1, <1>5, <2>1, <2>3 DEF OpOK, Rests
  <2> QED BY <2>2, <2>3
<1>8. WorkOK(w)'
  <2>1. Waits(w)'
    BY <1>2, <1>4, <1>5 DEF Waits
  <2> QED BY <1>6, <1>7, <2>1 DEF WorkOK, OwnOps, HandOK, ScanOK, EndOK, Busy
<1>9. WorkInv'
  <2>1. ASSUME NEW v \in Workers, v # w PROVE WorkOK(v)'
    <3>1. \A d \in Conns : WorkerOf[d] = v => conn'[d] = conn[d]
      BY <1>2, <1>5, <2>1
    <3>2. WorkOK(v)
      BY DEF SInv, WorkInv
    <3> QED BY <1>1, <1>6, <2>1, <3>1, <3>2, WorkElsewhere
  <2> QED BY <1>8, <2>1 DEF WorkInv
<1>10. WaitsInv' /\ ServedInv'
  BY <1>1, <1>2, <1>3, <1>4, RefsOfOne DEF Early
<1>11. srv \notin {"run", "starting", "failing", "failed", "down", "deleted"}
  BY <1>1 DEF SInv, PhaseInv
<1>12. PhaseInv' /\ AssertionsHold'
  BY <1>1, <1>6, <1>11 DEF SInv, PhaseInv, AssertionsHold
<1> QED BY <1>9, <1>10, <1>12 DEF SInv

\* A worker's thread is created.
LEMMA LaunchSInv ==
    ASSUME IInv, SInv, NEW w \in Workers, Launch(w)
    PROVE  SInv'
<1> DEFINE x == [wpc[w] EXCEPT !.at = "new"]
<1>1. /\ srv = "launching" /\ wpc[w].at = "unlaunched" /\ wpc' = [wpc EXCEPT ![w] = x]
      /\ UNCHANGED <<conn, tasks, connections, dying, cmap, pmap, app, srv, start, broken>>
  BY DEF Launch, server, IInv, Types
<1>2. x.at = "new"
  BY DEF IInv, Types, WorkerRecords
<1> HIDE DEF x
<1>3. wpc'[w] = x /\ \A v \in Workers : v # w => wpc'[v] = wpc[v]
  BY <1>1 DEF IInv, Types
<1>4. ASSUME NEW d \in Conns, WorkerOf[d] = w PROVE OpOK(d)'
  <2>1. OpOK(d) /\ ~Held(d) /\ ~Held(d)'
    BY <1>1, <1>2, <1>3, <1>4 DEF SInv, WorkInv, WorkOK, OwnOps, Held
  <2> QED BY <1>1, <2>1 DEF OpOK, Rests
<1>5. WorkOK(w)'
  BY <1>2, <1>3, <1>4 DEF WorkOK, OwnOps, HandOK, ScanOK, Launched, EndOK, Busy
<1>6. WorkInv'
  <2>1. ASSUME NEW v \in Workers, v # w PROVE WorkOK(v)'
    BY <1>1, <1>3, <2>1, WorkElsewhere DEF SInv, WorkInv
  <2> QED BY <1>5, <2>1 DEF WorkInv
<1>7. WaitsInv' /\ ServedInv'
  BY <1>1, RefsRest
<1>8. PhaseInv' /\ AssertionsHold'
  BY <1>1, <1>2, <1>3 DEF SInv, PhaseInv, AssertionsHold
<1> QED BY <1>6, <1>7, <1>8 DEF SInv

\* The steps of Start, Kick, Shutdown and mtk_server_join, and of clients.
LEMMA ServerSInv ==
    ASSUME IInv, SInv,
           \/ Run \/ BuildAndStart \/ StartWaits \/ Notify
           \/ \E w \in Workers : PrepareShutdown(w)
           \/ ServerShutdown \/ CallsOver \/ Joined \/ Join
           \/ \E c \in Conns : CallArrives(c) \/ ClientGone(c)
    PROVE  SInv'
<1>1. UNCHANGED <<conn, tasks, connections, wpc, cmap, pmap, app>>
  BY DEF Run, BuildAndStart, StartWaits, Notify, PrepareShutdown, ServerShutdown, CallsOver, Joined, Join,
         CallArrives, ClientGone
<1>2. WaitsInv' /\ ServedInv'
  BY <1>1, RefsRest
<1>3. PhaseInv
  BY DEF SInv
<1>4. CASE Run \/ BuildAndStart \/ StartWaits \/ Notify
  <2>1. UNCHANGED <<dying, broken>>
    BY <1>4 DEF Run, BuildAndStart, StartWaits, Notify
  <2>2. PhaseInv'
    <3>1. CASE Run
      BY <1>1, <1>3, <2>1, <3>1 DEF PhaseInv, Run
    <3>2. CASE BuildAndStart
      BY <1>1, <1>3, <2>1, <3>2 DEF PhaseInv, BuildAndStart
    <3>3. CASE StartWaits
      BY <1>1, <1>3, <2>1, <3>3 DEF PhaseInv, StartWaits
    <3>4. CASE Notify
      BY <1>1, <1>3, <2>1, <3>4 DEF PhaseInv, Notify
    <3> QED BY <1>4, <3>1, <3>2, <3>3, <3>4
  <2> QED BY <1>1, <1>2, <2>1, <2>2, RestSInv DEF SInv, AssertionsHold
<1>5. CASE \E w \in Workers : PrepareShutdown(w)
  <2>1. PICK w \in Workers : PrepareShutdown(w)
    BY <1>5
  <2>2. /\ "shutdown" \in Uses /\ srv \in {"up", "preparing"} /\ srv' = "preparing"
        /\ dying' = [dying EXCEPT ![w] = TRUE] /\ UNCHANGED <<start, broken>>
    BY <2>1 DEF PrepareShutdown, MayShutdown
  <2>3. dying' \in [Workers -> BOOLEAN] /\ \A v \in Workers : dying[v] => dying'[v]
    BY <1>3, <2>2 DEF PhaseInv
  <2>4. PhaseInv'
    BY <1>1, <1>3, <2>2, <2>3 DEF PhaseInv
  <2> QED BY <1>1, <1>2, <2>2, <2>3, <2>4, RestSInv DEF SInv, AssertionsHold
<1>6. CASE ServerShutdown \/ CallsOver \/ Joined
  <2>1. UNCHANGED <<dying, broken>>
    BY <1>6 DEF ServerShutdown, CallsOver, Joined
  <2>2. PhaseInv'
    BY <1>1, <1>3, <1>6, <2>1 DEF PhaseInv, ServerShutdown, CallsOver, Joined
  <2> QED BY <1>1, <1>2, <2>1, <2>2, RestSInv DEF SInv, AssertionsHold
<1>7. CASE Join
  <2>1. /\ "shutdown" \in Uses /\ srv \in {"down", "failed"} /\ srv' = "deleted"
        /\ dying' = [w \in Workers |-> TRUE] /\ UNCHANGED start /\ broken' \subseteq broken \cup {"uaf"}
    BY <1>7 DEF Join, MayShutdown
  <2>2. PhaseInv'
    BY <1>1, <1>3, <2>1 DEF PhaseInv
  <2> QED BY <1>1, <1>2, <2>1, <2>2, RestSInv DEF SInv, AssertionsHold
<1>8. CASE \E c \in Conns : CallArrives(c) \/ ClientGone(c)
  <2>1. UNCHANGED <<dying, broken, srv, start>>
    BY <1>8 DEF CallArrives, ClientGone, server
  <2>2. PhaseInv'
    BY <1>1, <1>3, <2>1 DEF PhaseInv
  <2> QED BY <1>1, <1>2, <2>1, <2>2, RestSInv DEF SInv, AssertionsHold
<1> QED BY <1>4, <1>5, <1>6, <1>7, <1>8

\* A step of an application thread.
LEMMA AppSInv ==
    ASSUME IInv, SInv, UNCHANGED <<conn, connections, wpc, dying, srv, start>>,
           broken' \subseteq broken \cup {"uaf"}, WaitsInv', ServedInv'
    PROVE  SInv'
<1>1. PhaseInv' /\ AssertionsHold'
  BY DEF SInv, PhaseInv, AssertionsHold
<1> QED BY <1>1, RestSInv

\* mtk_cid_close and mtk_cid_task find a connection that has been logged in.
LEMMA CidSInv ==
    ASSUME IInv, SInv, NEW t \in Threads,
           \/ CidDeref(t) \/ CidEnqueue(t)
           \/ \E k \in Ids, op \in {"close", "task"} : CidLookup(t, k, op)
    PROVE  SInv'
<1>1. app[t] \in AppRecords /\ Idle.at = "idle"
  BY DEF IInv, Types, Idle
<1>2. UNCHANGED <<conn, connections, wpc, dying, srv, start, cmap, pmap>> /\ broken' \subseteq broken \cup {"uaf"}
  BY DEF CidDeref, CidEnqueue, CidLookup, server
<1>3. \A u \in Threads : /\ app[u].at = "node" => cmap[app[u].key] # NoConn
                         /\ app[u].at = "handle" => app[u].c \in Conns /\ Served(app[u].c)
  BY DEF SInv, ServedInv
<1>4. ASSUME app' \in [Threads -> AppRecords], \A u \in Threads : u # t => app'[u] = app[u],
             app'[t].at # "login", \A d \in Conns : Answered(d)' => Answered(d),
             app'[t].at = "node" => cmap[app'[t].key] # NoConn,
             app'[t].at = "handle" => app'[t].c \in Conns /\ conn[app'[t].c].status \in {"READ", "CLOSE", "deleted"},
             \A d \in Conns : ~Served(d) => tasks'[d] = tasks[d]
      PROVE  SInv'
  <2>1. \A d \in Conns : Pending(d)' => Pending(d)
    BY <1>2, <1>4 DEF Pending, Answers
  <2>2. WaitsInv'
    BY <1>2, <2>1 DEF SInv, WaitsInv
  <2>3. \A u \in Threads : /\ app'[u].at = "node" => cmap[app'[u].key] # NoConn
                           /\ app'[u].at = "handle" => app'[u].c \in Conns
                                 /\ conn[app'[u].c].status \in {"READ", "CLOSE", "deleted"}
    BY <1>3, <1>4 DEF Served
  <2>4. \A k \in Ids : cmap[k] # NoConn => conn[cmap[k]].status \in {"READ", "CLOSE"}
    BY DEF SInv, ServedInv
  <2>5. ASSUME NEW d \in Conns, ~Served(d) PROVE \A j \in 1..Len(tasks'[d]) : tasks'[d][j].kind = "login"
    BY <1>4, <2>5 DEF SInv, ServedInv
  <2>6. ServedInv'
    BY <1>2, <2>3, <2>4, <2>5 DEF ServedInv, Served
  <2> QED BY <1>2, <2>2, <2>6, AppSInv
<1>5. CASE CidDeref(t)
  <2>1. tasks' = tasks
    BY <1>5 DEF CidDeref
  <2>2. \A d \in Conns : Answered(d)' => Answered(d)
    BY <2>1 DEF Answered, AnswerTask
  <2>3. CASE app[t].at = "node"
    <3> DEFINE x == [app[t] EXCEPT !.at = "handle", !.c = cmap[app[t].key]]
    <3>1. /\ cmap[app[t].key] \in Conns /\ conn[cmap[app[t].key]].status \in {"READ", "CLOSE"}
      BY <1>1, <1>3, <2>3 DEF IInv, Types, AppRecords, SInv, ServedInv
    <3>2. x \in AppRecords /\ x.at = "handle" /\ x.c = cmap[app[t].key]
      BY <1>1, <3>1 DEF AppRecords
    <3>3. app' = [app EXCEPT ![t] = x]
      BY <1>1, <1>5, <2>3 DEF CidDeref, IInv, Types
    <3> HIDE DEF x
    <3>4. app' \in [Threads -> AppRecords] /\ app'[t] = x /\ \A u \in Threads : u # t => app'[u] = app[u]
      BY <3>2, <3>3 DEF IInv, Types
    <3> QED BY <1>4, <2>1, <2>2, <3>1, <3>2, <3>4
  <2>4. CASE app[t].at # "node"
    <3>1. app' = [app EXCEPT ![t] = Idle]
      BY <1>5, <2>4 DEF CidDeref
    <3>2. app' \in [Threads -> AppRecords] /\ app'[t] = Idle /\ \A u \in Threads : u # t => app'[u] = app[u]
      BY <3>1 DEF IInv, Types, Idle, AppRecords, Ids
    <3> QED BY <1>1, <1>4, <2>1, <2>2, <3>2
  <2> QED BY <2>3, <2>4
<1>6. CASE CidEnqueue(t)
  <2> DEFINE c == app[t].c
  <2>1. /\ app[t].at = "handle" /\ app' = [app EXCEPT ![t] = Idle]
        /\ \E kind \in {"close", "normal"} : Put(c, t, kind, 0)
    BY <1>6 DEF CidEnqueue
  <2>2. c \in Conns /\ Served(c)
    BY <1>3, <2>1
  <2> HIDE DEF c
  <2>3. \A d \in Conns, i \in Nat : AnswerTask(d, i)' => AnswerTask(d, i)
    BY <2>1, <2>2, PutProperties DEF Ids
  <2>4. \A d \in Conns : Answered(d)' => Answered(d)
    BY <2>3 DEF Answered
  <2>5. \A d \in Conns : d # c => tasks'[d] = tasks[d]
    BY <2>1 DEF Put, IInv, Types
  <2>6. app' \in [Threads -> AppRecords] /\ app'[t] = Idle /\ \A u \in Threads : u # t => app'[u] = app[u]
    BY <2>1 DEF IInv, Types, Idle, AppRecords, Ids
  <2> QED BY <1>1, <1>4, <2>2, <2>4, <2>5, <2>6
<1>7. ASSUME NEW k \in Ids, NEW op \in {"close", "task"}, CidLookup(t, k, op) PROVE SInv'
  <2> DEFINE x == [Idle EXCEPT !.at = "node", !.key = k, !.op = op]
  <2>1. app' = [app EXCEPT ![t] = x] /\ cmap[k] # NoConn /\ tasks' = tasks
    BY <1>7 DEF CidLookup
  <2>2. x \in AppRecords /\ x.at = "node" /\ x.key = k
    BY DEF Idle, AppRecords, Ids
  <2> HIDE DEF x
  <2>3. app' \in [Threads -> AppRecords] /\ app'[t] = x /\ \A u \in Threads : u # t => app'[u] = app[u]
    BY <2>1, <2>2 DEF IInv, Types
  <2>4. \A d \in Conns : Answered(d)' => Answered(d)
    BY <2>1 DEF Answered, AnswerTask
  <2> QED BY <1>4, <2>1, <2>2, <2>3, <2>4
<1> QED BY <1>5, <1>6, <1>7

\* mtk_svconn_finish_login: the answer goes from pmap_ to the thread.
LEMMA FinishLoginSInv ==
    ASSUME IInv, SInv, NEW t \in Threads, NEW c \in Conns, NEW id \in Ids, FinishLogin(t, c, id)
    PROVE  SInv'
<1> DEFINE x == [Idle EXCEPT !.at = "login", !.c = c, !.key = id]
<1>1. /\ c \in pmap /\ pmap' = pmap \ {c} /\ app' = [app EXCEPT ![t] = x]
      /\ UNCHANGED <<conn, tasks, connections, wpc, dying, cmap, srv, start, broken>>
  BY DEF FinishLogin, server
<1>2. x.at = "login" /\ x.c = c
  BY DEF Idle
<1> HIDE DEF x
<1>3. app'[t] = x /\ \A u \in Threads : u # t => app'[u] = app[u]
  BY <1>1 DEF IInv, Types
<1>4. ASSUME NEW d \in Conns, Pending(d)' PROVE Pending(d)
  <2>1. Answered(d)' => Answered(d)
    BY <1>1 DEF Answered, AnswerTask
  <2>2. \A u \in Threads : Answers(u, d)' => Answers(u, d) \/ d = c
    BY <1>2, <1>3 DEF Answers
  <2> QED BY <1>1, <1>4, <2>1, <2>2 DEF Pending
<1>5. WaitsInv'
  BY <1>1, <1>4 DEF SInv, WaitsInv
<1>6. \A u \in Threads : /\ app'[u].at = "node" => cmap[app'[u].key] # NoConn
                         /\ app'[u].at = "handle" => app'[u].c \in Conns
                               /\ conn[app'[u].c].status \in {"READ", "CLOSE", "deleted"}
  BY <1>2, <1>3 DEF SInv, ServedInv, Served
<1>7. ServedInv'
  <2>1. /\ \A k \in Ids : cmap[k] # NoConn => conn[cmap[k]].status \in {"READ", "CLOSE"}
        /\ \A d \in Conns : ~Served(d) => \A j \in 1..Len(tasks[d]) : tasks[d][j].kind = "login"
    BY DEF SInv, ServedInv
  <2> QED BY <1>1, <1>6, <2>1 DEF ServedInv, Served
<1> QED BY <1>1, <1>5, <1>7, AppSInv

\* ... and from there to the tasks of the connection.
LEMMA FinishLoginTaskSInv ==
    ASSUME IInv, SInv, NEW t \in Threads, FinishLoginTask(t)
    PROVE  SInv'
<1> DEFINE c == app[t].c
           key == app[t].key
           e == [by |-> t, kind |-> "login", id |-> key]
<1>1. /\ app[t].at = "login" /\ Put(c, t, "login", key) /\ app' = [app EXCEPT ![t] = Idle]
      /\ UNCHANGED <<conn, connections, wpc, dying, cmap, pmap, srv, start>>
      /\ broken' \subseteq broken \cup {"uaf"}
  BY DEF FinishLoginTask, server
<1>2. c \in Conns /\ key \in Ids /\ e \in Tasks /\ e.kind = "login" /\ Answers(t, c)
  BY <1>1 DEF IInv, Types, AppInv, AppRecords, Tasks, Answers
<1>3. tasks' = tasks \/ tasks' = [tasks EXCEPT ![c] = Append(@, e)]
  BY <1>1 DEF Put, Enqueue
<1>4. \A d \in Conns, i \in Nat : AnswerTask(d, i)' => AnswerTask(d, i) \/ d = c
  BY <1>1, <1>2, PutProperties
<1> HIDE DEF c, key, e
<1>5. app'[t] = Idle /\ Idle.at = "idle" /\ \A u \in Threads : u # t => app'[u] = app[u]
  BY <1>1 DEF IInv, Types, Idle
<1>6. ASSUME NEW d \in Conns, Pending(d)' PROVE Pending(d)
  <2>1. Answered(d)' => Answered(d) \/ d = c
    BY <1>4 DEF Answered
  <2>2. \A u \in Threads : Answers(u, d)' => Answers(u, d)
    BY <1>5 DEF Answers
  <2> QED BY <1>1, <1>2, <1>6, <2>1, <2>2 DEF Pending
<1>7. WaitsInv'
  BY <1>1, <1>6 DEF SInv, WaitsInv
<1>8. ASSUME NEW d \in Conns, ~Served(d), NEW j \in 1..Len(tasks'[d]) PROVE tasks'[d][j].kind = "login"
  <2>1. \A k \in 1..Len(tasks[d]) : tasks[d][k].kind = "login"
    BY <1>8 DEF SInv, ServedInv
  <2>2. CASE tasks'[d] = tasks[d]
    BY <1>8, <2>1, <2>2
  <2>3. CASE tasks'[d] = Append(tasks[d], e)
    <3>1. tasks[d] \in Seq(Tasks)
      BY DEF IInv, Types
    <3>2. /\ Len(Append(tasks[d], e)) = Len(tasks[d]) + 1 /\ Len(tasks[d]) \in Nat
          /\ Append(tasks[d], e)[Len(tasks[d]) + 1] = e
          /\ \A i \in 1..Len(tasks[d]) : Append(tasks[d], e)[i] = tasks[d][i]
      BY <1>2, <3>1, AppendProperties, LenProperties
    <3>3. j \in 1..Len(tasks[d]) \/ j = Len(tasks[d]) + 1
      BY <1>8, <2>3, <3>2
    <3> QED BY <1>2, <2>1, <2>3, <3>2, <3>3
  <2> QED BY <1>2, <1>3, <2>2, <2>3 DEF IInv, Types
<1>9. \A u \in Threads : /\ app'[u].at = "node" => cmap[app'[u].key] # NoConn
                         /\ app'[u].at = "handle" => app'[u].c \in Conns
                               /\ conn[app'[u].c].status \in {"READ", "CLOSE", "deleted"}
  BY <1>5 DEF SInv, ServedInv, Served
<1>10. ServedInv'
  <2>1. \A k \in Ids : cmap[k] # NoConn => conn[cmap[k]].status \in {"READ", "CLOSE"}
    BY DEF SInv, ServedInv
  <2> QED BY <1>1, <1>8, <1>9, <2>1 DEF ServedInv, Served
<1> QED BY <1>1, <1>7, <1>10, AppSInv
---------------------------------------------------------------------------
(* Operations in flight, and the assertions *)

\* Every initial state satisfies the invariant.
THEOREM InitSInv == Init => SInv
<1> SUFFICES ASSUME Init PROVE SInv
  OBVIOUS
<1>1. IInv
  BY InitIInv
<1> DEFINE u == [Poll EXCEPT !.at = "unlaunched"]
           first(w) == NextConn(w, Conns)
<1>2. /\ NewConn \in ConnRecords /\ NewConn.status = "none" /\ NewConn.ops = {} /\ NewConn.closers = 0
      /\ Poll.at = "poll" /\ u.at = "unlaunched" /\ Idle.at = "idle"
  BY DEF NewConn, ConnRecords, Statuses, Ids, Poll, Idle
<1>3. /\ Waiting(NewConn).status = "ACCEPT" /\ Waiting(NewConn).ops = {"accept"}
      /\ Waiting(NewConn).closers = 0
  BY <1>2, RecordOps, CountOps DEF Counts
<1>4. /\ tasks = [c \in Conns |-> <<>>] /\ connections = [w \in Workers |-> <<>>]
      /\ dying = [w \in Workers |-> FALSE] /\ cmap = [k \in Ids |-> NoConn] /\ pmap = {}
      /\ app = [t \in Threads |-> Idle] /\ broken = {}
      /\ \A w \in Workers : wpc[w] = IF "startup" \notin Uses THEN Poll ELSE u
      /\ \A c \in Conns : conn[c] = IF "startup" \notin Uses /\ c = first(WorkerOf[c])
                                      THEN Waiting(NewConn) ELSE NewConn
      /\ IF "startup" \notin Uses THEN srv = "up" /\ start = "returned"
                                  ELSE srv = "run" /\ start \in {"locked", "exclusive"}
  BY DEF Init
<1> HIDE DEF u, first
<1>5. ASSUME NEW w \in Workers PROVE WorkOK(w)
  <2>1. (wpc[w].at = "poll" /\ "startup" \notin Uses) \/ (wpc[w].at = "unlaunched" /\ "startup" \in Uses)
    BY <1>2, <1>4
  <2>2. ASSUME NEW c \in Conns, WorkerOf[c] = w PROVE OpOK(c)
    <3>1. ~Held(c)
      BY <2>1, <2>2 DEF Held
    <3>2. conn[c] = Waiting(NewConn) \/ conn[c] = NewConn
      BY <1>4
    <3>3. /\ conn[c].closers = 0
          /\ \/ conn[c].status = "none" /\ conn[c].ops = {}
             \/ conn[c].status = "ACCEPT" /\ conn[c].ops = {"accept"}
      <4>1. CASE conn[c] = Waiting(NewConn)
        BY <1>3, <4>1
      <4>2. CASE conn[c] = NewConn
        BY <1>2, <4>2
      <4> QED BY <3>2, <4>1, <4>2
    <3>4. Rests(c) /\ conn[c].closers \in Nat
      BY <3>3 DEF Rests
    <3> QED BY <3>1, <3>4 DEF OpOK
  <2>3. "startup" \notin Uses => Waits(w)
    <3>1. first(w) \in Conns /\ WorkerOf[first(w)] = w
      BY WorkerOfAssumption DEF first, NextConn
    <3>2. "startup" \notin Uses => conn[first(w)].status = "ACCEPT"
      BY <1>3, <1>4, <3>1
    <3> QED BY <3>1, <3>2 DEF Waits
  <2>4. ScanOK(w)
    BY <2>1, <2>3 DEF ScanOK, Launched
  <2> QED BY <2>1, <2>2, <2>4 DEF WorkOK, OwnOps, HandOK, EndOK, Busy
<1>6. \A c \in Conns : ~Pending(c) /\ conn[c].status # "WAIT_LOGIN"
  <2>1. ASSUME NEW c \in Conns PROVE ~Pending(c) /\ conn[c].status # "WAIT_LOGIN"
    <3>1. Len(<<>>) = 0
      OBVIOUS
    <3>2. \A j \in Nat : ~AnswerTask(c, j)
      BY <1>4, <3>1 DEF AnswerTask
    <3>3. \A t \in Threads : ~Answers(t, c)
      BY <1>2, <1>4 DEF Answers
    <3> QED BY <1>2, <1>3, <1>4, <3>2, <3>3 DEF Pending, Answered
  <2> QED BY <2>1
<1>7. WaitsInv /\ AssertionsHold
  BY <1>4, <1>6 DEF WaitsInv, AssertionsHold
<1>8. ServedInv
  <2>1. \A c \in Conns : Len(tasks[c]) = 0
    BY <1>4
  <2> QED BY <1>2, <1>4, <2>1 DEF ServedInv
<1>9. PhaseInv
  BY <1>2, <1>4 DEF PhaseInv
<1> QED BY <1>5, <1>7, <1>8, <1>9 DEF SInv, WorkInv

\* Every step of an application without late answers keeps it.
THEOREM NextSInv == NoLateAnswer /\ IInv /\ SInv /\ [Next]_vars => SInv'
<1> SUFFICES ASSUME NoLateAnswer, IInv, SInv, [Next]_vars PROVE SInv'
  OBVIOUS
<1>1. IInv'
  BY NextIInv
<1>2. CASE Starting
  BY <1>2, ServerSInv, LaunchSInv, NewSInv DEF Starting
<1>3. ASSUME NEW c \in Conns,
             \/ CallArrives(c) \/ Accept(c) \/ StepClientClose(c) \/ Login(c) \/ Request(c)
             \/ Ending(c) \/ ClientGone(c)
      PROVE  SInv'
  <2>1. CASE CallArrives(c) \/ Accept(c) \/ ClientGone(c)
    BY <2>1, AcceptSInv, ServerSInv
  <2>2. CASE StepClientClose(c) \/ Request(c)
    BY <2>2, SimpleEventsSInv DEF Request
  <2>3. CASE Login(c)
    BY <2>3, StepLoginSInv, SimpleEventsSInv, StepDeferSInv DEF Login
  <2>4. CASE Ending(c)
    BY <2>4, EndingSInv, SimpleEventsSInv, AcceptFailSInv DEF Ending
  <2> QED BY <1>3, <2>1, <2>2, <2>3, <2>4
<1>4. ASSUME NEW w \in Workers, Timeout(w) \/ Inside(w) \/ PrepareShutdown(w) \/ ShutdownEvent(w)
      PROVE  SInv'
  <2>1. CASE Timeout(w) \/ ShutdownEvent(w) \/ PrepareShutdown(w)
    BY <2>1, TimeoutSInv, ShutdownEventSInv, ServerSInv
  <2>2. CASE LoopConn(w) \/ TasksDone(w) \/ Finalize(w) \/ FinalConn(w)
    BY <1>1, <2>2, LoopConnSInv, TasksDoneSInv, FinalizeSInv, FinalConnSInv
  <2>3. ASSUME wpc[w].c \in Conns, NEW j \in Heads(tasks[wpc[w].c]),
               TaskAcceptLogin(w, j) \/ TaskDenyLogin(w, j) \/ TaskClose(w, j) \/ TaskHandle(w, j)
        PROVE  SInv'
    BY <1>1, <2>3, TasksSInv, TaskAcceptLoginSInv
  <2> QED BY <1>4, <2>1, <2>2, <2>3 DEF Inside
<1>5. ASSUME NEW t \in Threads,
             \/ AppStep(t)
             \/ \E k \in Ids, op \in {"close", "task"} : CidLookup(t, k, op)
             \/ \E c \in Conns, id \in Ids : FinishLogin(t, c, id)
      PROVE  SInv'
  BY <1>5, CidSInv, FinishLoginSInv, FinishLoginTaskSInv DEF AppStep
<1>6. CASE ServerShutdown \/ CallsOver \/ Joined \/ Join
  BY <1>6, ServerSInv
<1>7. CASE UNCHANGED vars
  <2>1. UNCHANGED <<conn, tasks, connections, wpc, dying, cmap, pmap, app, srv, start, broken>>
    BY <1>7 DEF vars, server
  <2>2. WaitsInv' /\ ServedInv' /\ PhaseInv' /\ AssertionsHold'
    BY <2>1, RefsRest DEF SInv, PhaseInv, AssertionsHold
  <2> QED BY <2>1, <2>2, RestSInv
<1> QED BY <1>2, <1>3, <1>4, <1>5, <1>6, <1>7 DEF Next

\* A connection is stepped by the completion of its one operation, and a
\* deleted one has none left, for every number of connections, workers, threads
\* and ids.
THEOREM NoDanglingTagTheorem == NoLateAnswer => (Safety => []NoDanglingTag)
<1>1. IInv /\ SInv => NoDanglingTag
  <2> SUFFICES ASSUME IInv, SInv PROVE NoDanglingTag
    OBVIOUS
  <2>1. ASSUME NEW c \in Conns PROVE OpOK(c) /\ conn[c].status \in Statuses /\ WorkerOf[c] \in Workers
    BY WorkerOfAssumption DEF SInv, WorkInv, WorkOK, OwnOps, IInv, Types, ConnRecords
  <2>2. ASSUME NEW c \in Conns, Live(c), wpc[WorkerOf[c]].c # c
        PROVE  IF conn[c].status = "WAIT_LOGIN"
                 THEN conn[c].ops = {} /\ Listed(c, connections[WorkerOf[c]])
                 ELSE Cardinality(conn[c].ops) = 1
    <3>1. Rests(c)
      BY <2>1, <2>2 DEF OpOK, Held
    <3>2. CASE conn[c].status = "WAIT_LOGIN"
      BY <3>1, <3>2 DEF Rests
    <3>3. CASE conn[c].status # "WAIT_LOGIN"
      <4>1. conn[c].status \in {"ACCEPT", "LOGIN", "READ", "CLOSE"}
        BY <2>1, <2>2, <3>3 DEF Live, Statuses
      <4>2. PICK tag : conn[c].ops = {tag}
        BY <3>1, <4>1 DEF Rests
      <4> QED BY <3>3, <4>2, FS_Singleton
    <3> QED BY <3>2, <3>3
  <2>3. ASSUME NEW c \in Conns, conn[c].status = "deleted" PROVE conn[c].ops = {}
    BY <2>1, <2>3 DEF OpOK, Rests
  <2> QED BY <2>2, <2>3 DEF NoDanglingTag, OneOperation
<1>2. NoLateAnswer /\ IInv /\ SInv /\ [Next]_vars => (IInv /\ SInv)'
  BY NextIInv, NextSInv
<1>3. Init => IInv /\ SInv
  BY InitIInv, InitSInv
<1>4. NoLateAnswer => NoLateAnswer'
  BY DEF NoLateAnswer
<1>5. SUFFICES ASSUME NoLateAnswer PROVE Safety => []NoDanglingTag
  OBVIOUS
<1>6. IInv /\ SInv /\ [Next]_vars => (IInv /\ SInv)'
  BY <1>2, <1>5
<1> QED BY <1>1, <1>3, <1>6, PTL DEF Safety

\* The assertions of conn.h, conn.cpp and worker.cpp hold: the answer to a
\* deferred login finds the connection waiting for it, and a connection is
\* registered with its worker once.
THEOREM AssertionsHoldTheorem == NoLateAnswer => (Safety => []AssertionsHold)
<1>1. SUFFICES ASSUME NoLateAnswer PROVE Safety => []AssertionsHold
  OBVIOUS
<1>2. IInv /\ SInv /\ [Next]_vars => (IInv /\ SInv)'
  BY <1>1, NextIInv, NextSInv
<1>3. Init => IInv /\ SInv
  BY InitIInv, InitSInv
<1>4. SInv => AssertionsHold
  BY DEF SInv
<1> QED BY <1>2, <1>3, <1>4, PTL DEF Safety
---------------------------------------------------------------------------
(* Calls: finished once, not read from afterwards, closed once *)

\* What gRPC and the handler have seen of a connection whose client is in cl.
CallOK(r, cl) ==
    /\ r.finishes \in {0, 1} /\ ~r.lateRead
    /\ r.status \notin {"CLOSE", "deleted"} => r.finishes = 0
    /\ r.status = "none" => cl = "idle"
    /\ r.status \in {"LOGIN", "WAIT_LOGIN", "READ", "CLOSE"} => cl # "idle"
    /\ r.closed = IF r.status = "deleted" /\ cl # "idle" THEN 1 ELSE 0

\* Nobody calls mtk_cid_close.
NoCloseTask ==
    /\ \A t \in Threads : app[t].op # "close"
    /\ \A c \in Conns : \A j \in 1..Len(tasks[c]) : tasks[c][j].kind # "close"

CallInv ==
    /\ client \in [Conns -> {"idle", "open", "gone"}]
    /\ \A c \in Conns : CallOK(conn[c], client[c])
    /\ NoCloseTask

\* The operations of a Conn on its call, each in the states it is called in.
LEMMA CallOps ==
    ASSUME NEW r \in ConnRecords, NEW cl, CallOK(r, cl)
    PROVE  /\ r.status = "none" => CallOK(Waiting(r), cl)
           /\ r.status \in {"LOGIN", "WAIT_LOGIN", "READ"} =>
                 /\ CallOK(Recv(r), cl) /\ CallOK(Finish(r), cl) /\ CallOK(FinishByTask(r), cl)
                 /\ CallOK(Finish(InternalClose(r)), cl)
                 /\ \A id \in Ids : CallOK(Registered(r, id), cl)
           /\ r.status \in {"LOGIN", "WAIT_LOGIN", "READ", "CLOSE"} =>
                 CallOK(InternalClose(r), cl) /\ CallOK(Closed(r), cl)
<1> DEFINE active == {"LOGIN", "WAIT_LOGIN", "READ"}
<1>1. r.status = "none" => CallOK(Waiting(r), cl)
  BY RecordOps, CountOps DEF CallOK, Counts
<1>2. r.status \in active => r.finishes = 0 /\ ~r.lateRead /\ r.closed = 0 /\ cl # "idle"
  BY DEF CallOK
<1>3. r.status \in active => CallOK(Recv(r), cl)
  <2>1. r.status \in active => Recv(r).lateRead = FALSE
    BY <1>2, CountOps DEF ConnRecords
  <2> QED BY <1>2, <2>1, RecordOps, CountOps DEF CallOK
<1>4. r.status \in active => CallOK(Finish(r), cl) /\ CallOK(FinishByTask(r), cl)
  BY <1>2, RecordOps, CountOps DEF CallOK
<1>5. r.status \in active \cup {"CLOSE"} => CallOK(InternalClose(r), cl)
  BY RecordOps, CountOps DEF CallOK, Counts
<1>6. r.status \in active \cup {"CLOSE"} => CallOK(Closed(r), cl)
  BY RecordOps, CountOps DEF CallOK
<1>7. r.status \in active => CallOK(Finish(InternalClose(r)), cl)
  <2> DEFINE q == InternalClose(r)
  <2>1. /\ q \in ConnRecords /\ q.finishes = r.finishes /\ q.lateRead = r.lateRead /\ q.closed = r.closed
    BY RecordOps, CountOps DEF Keeps, Counts
  <2> HIDE DEF q
  <2>2. /\ Finish(q).status = "CLOSE" /\ Finish(q).finishes = r.finishes + 1
        /\ Finish(q).lateRead = r.lateRead /\ Finish(q).closed = r.closed
    BY <2>1, RecordOps, CountOps
  <2>3. r.status \in active => CallOK(Finish(q), cl)
    BY <1>2, <2>2 DEF CallOK
  <2> QED BY <2>3 DEF q
<1>8. ASSUME NEW id \in Ids, r.status \in active PROVE CallOK(Registered(r, id), cl)
  <2>1. /\ Registered(r, id).finishes = r.finishes /\ Registered(r, id).closed = r.closed
        /\ Registered(r, id).lateRead = (r.lateRead \/ r.finishes > 0)
    BY RegisteredCounts
  <2>2. Registered(r, id).lateRead = FALSE
    BY <1>2, <1>8, <2>1 DEF ConnRecords
  <2>3. Registered(r, id).status = "READ"
    BY RegisteredProperties
  <2> QED BY <1>2, <1>8, <2>1, <2>2, <2>3 DEF CallOK
<1> QED BY <1>1, <1>3, <1>4, <1>5, <1>6, <1>7, <1>8

\* A step that changes the record of one connection.
LEMMA OneCall ==
    ASSUME IInv, CallInv, NEW c \in Conns, NEW r, conn' = [conn EXCEPT ![c] = r],
           CallOK(r, client[c]), UNCHANGED client
    PROVE  \A d \in Conns : CallOK(conn'[d], client'[d])
<1>1. conn'[c] = r /\ \A d \in Conns : d # c => conn'[d] = conn[d]
  BY DEF IInv, Types
<1> QED BY <1>1 DEF CallInv

\* At an event, as SoleTag.
LEMMA EventCall ==
    ASSUME IInv, SInv, CallInv, NEW c \in Conns, NEW tag, Event(c, tag)
    PROVE  /\ Popped(c, tag) \in ConnRecords /\ Popped(c, tag).status = conn[c].status
           /\ CallOK(Popped(c, tag), client[c])
           /\ conn[c].status \in {"ACCEPT", "LOGIN", "READ", "CLOSE"} /\ conn[c].ops = {tag}
<1>1. /\ Popped(c, tag) \in ConnRecords /\ Popped(c, tag).status = conn[c].status
      /\ Counts(Popped(c, tag), conn[c])
      /\ conn[c].status \in {"ACCEPT", "LOGIN", "READ", "CLOSE"} /\ conn[c].ops = {tag}
  BY SoleTag
<1>2. CallOK(conn[c], client[c])
  BY DEF CallInv
<1>3. CallOK(Popped(c, tag), client[c])
  BY <1>1, <1>2 DEF CallOK, Counts
<1> QED BY <1>1, <1>3

\* The events of a connection that has a client.
LEMMA EventsCall ==
    ASSUME IInv, SInv, CallInv, NEW c \in Conns,
           StepClientClose(c) \/ Login(c) \/ Request(c) \/ CloserDone(c)
    PROVE  \A d \in Conns : CallOK(conn'[d], client'[d])
<1>1. CASE StepClientClose(c)
  <2>1. Event(c, "read") /\ conn[c].status \in {"LOGIN", "READ"}
    BY <1>1 DEF StepClientClose, Message
  <2>2. CallOK(Finish(Popped(c, "read")), client[c])
    BY <2>1, EventCall, CallOps
  <2> QED BY <1>1, <2>2, OneCall DEF StepClientClose
<1>2. ASSUME NEW id \in Ids, StepLogin(c, id) PROVE \A d \in Conns : CallOK(conn'[d], client'[d])
  <2>1. Event(c, "read") /\ conn[c].status = "LOGIN" /\ UNCHANGED client
    BY <1>2 DEF StepLogin, Message
  <2>2. CallOK(Finish(Popped(c, "read")), client[c]) /\ CallOK(Registered(Popped(c, "read"), id), client[c])
    BY <2>1, EventCall, CallOps
  <2>3. \/ conn' = [conn EXCEPT ![c] = Finish(Popped(c, "read"))]
        \/ conn' = [conn EXCEPT ![c] = Registered(Popped(c, "read"), id)]
    BY <1>2 DEF StepLogin, Register
  <2> QED BY <2>1, <2>2, <2>3, OneCall
<1>3. CASE StepRefuse(c)
  <2>1. Event(c, "read") /\ conn[c].status = "LOGIN"
    BY <1>3 DEF StepRefuse, Message
  <2>2. CallOK(Finish(InternalClose(Popped(c, "read"))), client[c])
    BY <2>1, EventCall, CallOps
  <2> QED BY <1>3, <2>2, OneCall DEF StepRefuse
<1>4. CASE StepDefer(c)
  <2> DEFINE p == Popped(c, "read")
             q == [p EXCEPT !.status = "WAIT_LOGIN", !.lcid = TRUE]
  <2>1. Event(c, "read") /\ conn[c].status = "LOGIN" /\ UNCHANGED client
    BY <1>4 DEF StepDefer, Message
  <2>2. p \in ConnRecords /\ p.status = "LOGIN" /\ CallOK(p, client[c])
    BY <2>1, EventCall
  <2> HIDE DEF p
  <2>3. q \in ConnRecords /\ q.status = "WAIT_LOGIN" /\ Counts(q, p)
    BY <2>2 DEF ConnRecords, Statuses, Counts
  <2> HIDE DEF q
  <2>4. CallOK(q, client[c])
    BY <2>2, <2>3 DEF CallOK, Counts
  <2>5. CallOK(Finish(q), client[c])
    BY <2>3, <2>4, CallOps
  <2>6. conn' = [conn EXCEPT ![c] = Finish(q)] \/ conn' = [conn EXCEPT ![c] = q]
    BY <1>4 DEF StepDefer, p, q
  <2> QED BY <2>1, <2>4, <2>5, <2>6, OneCall
<1>5. ASSUME NEW tag \in {"read", "finish"}, StepHandle(c, tag) \/ StepHandleClose(c, tag)
      PROVE  \A d \in Conns : CallOK(conn'[d], client'[d])
  <2>1. Event(c, tag) /\ conn[c].status = "READ" /\ UNCHANGED client
    BY <1>5 DEF StepHandle, StepHandleClose, Message
  <2>2. CallOK(Finish(Popped(c, tag)), client[c]) /\ CallOK(Recv(Popped(c, tag)), client[c])
    BY <2>1, EventCall, CallOps
  <2>3. \/ conn' = [conn EXCEPT ![c] = Finish(Popped(c, tag))]
        \/ conn' = [conn EXCEPT ![c] = Recv(Popped(c, tag))]
    BY <1>5 DEF StepHandle, StepHandleClose
  <2> QED BY <2>1, <2>2, <2>3, OneCall
<1>6. CASE CloserDone(c)
  <2> DEFINE r == [conn[c] EXCEPT !.closers = @ - 1]
  <2>1. conn' = [conn EXCEPT ![c] = r] /\ UNCHANGED client
    BY <1>6 DEF CloserDone, IInv, Types
  <2>2. /\ r.status = conn[c].status /\ r.finishes = conn[c].finishes /\ r.lateRead = conn[c].lateRead
        /\ r.closed = conn[c].closed
    BY DEF IInv, Types, ConnRecords
  <2> HIDE DEF r
  <2>3. CallOK(r, client[c])
    BY <2>2 DEF CallInv, CallOK
  <2> QED BY <2>1, <2>3, OneCall
<1> QED BY <1>1, <1>2, <1>3, <1>4, <1>5, <1>6 DEF Login, Request

\* A waiter: it is given its call, or none has come.
LEMMA AcceptCall ==
    ASSUME IInv, SInv, CallInv, NEW c \in Conns, Accept(c) \/ AcceptFail(c)
    PROVE  \A d \in Conns : CallOK(conn'[d], client'[d])
<1> DEFINE p == Popped(c, "accept")
<1>1. Event(c, "accept")
  BY DEF Accept, AcceptFail
<1>2. conn[c].status = "ACCEPT"
  BY <1>1 DEF Event, IInv, OpsInv, OpsOf
<1>3. p \in ConnRecords /\ p.status = "ACCEPT" /\ CallOK(p, client[c])
  BY <1>1, <1>2, EventCall
<1>4. p.finishes = 0 /\ ~p.lateRead /\ p.closed = 0
  BY <1>3 DEF CallOK
<1>5. CASE AcceptFail(c)
  <2> DEFINE r == [p EXCEPT !.status = "deleted"]
  <2>1. conn' = [conn EXCEPT ![c] = r] /\ client[c] = "idle" /\ UNCHANGED client
    BY <1>5 DEF AcceptFail
  <2> HIDE DEF p
  <2>2. r.status = "deleted" /\ Counts(r, p)
    BY <1>3 DEF ConnRecords, Counts
  <2> HIDE DEF r
  <2>3. CallOK(r, client[c])
    BY <1>4, <2>1, <2>2 DEF CallOK, Counts
  <2> QED BY <2>1, <2>3, OneCall DEF CallInv
<1>6. CASE Accept(c)
  <2> DEFINE w == WorkerOf[c]
             unused == Uncreated(w)
             n == NextConn(w, unused)
             a == [p EXCEPT !.status = "LOGIN"]
             r == Recv(a)
  <2>1. n \in unused
    <3>1. unused # {}
      BY <1>6 DEF Accept
    <3> QED BY <3>1 DEF NextConn, Uncreated
  <2>2. n \in Conns /\ conn[n].status = "none" /\ n # c
    BY <1>2, <2>1 DEF Uncreated
  <2>3. /\ conn' = [conn EXCEPT ![c] = r, ![n] = Waiting(@)]
        /\ client[c] # "idle" /\ UNCHANGED client
    BY <1>6 DEF Accept
  <2> HIDE DEF p, n
  <2>4. a \in ConnRecords /\ a.status = "LOGIN" /\ Counts(a, p)
    BY <1>3 DEF ConnRecords, Statuses, Counts
  <2> HIDE DEF a
  <2>5. CallOK(a, client[c])
    BY <1>4, <2>3, <2>4 DEF CallOK, Counts
  <2>6. CallOK(r, client[c])
    BY <2>4, <2>5, CallOps
  <2>7. CallOK(Waiting(conn[n]), client[n])
    <3>1. conn[n] \in ConnRecords /\ CallOK(conn[n], client[n])
      BY <2>2 DEF IInv, Types, CallInv
    <3> QED BY <2>2, <3>1, CallOps
  <2> HIDE DEF r
  <2>8. /\ conn'[c] = r /\ conn'[n] = Waiting(conn[n])
        /\ \A d \in Conns : d # c /\ d # n => conn'[d] = conn[d]
    BY <2>2, <2>3 DEF IInv, Types
  <2>9. ASSUME NEW d \in Conns PROVE CallOK(conn'[d], client'[d])
    <3>1. CASE d = c
      BY <2>3, <2>6, <2>8, <3>1
    <3>2. CASE d = n
      BY <2>2, <2>3, <2>7, <2>8, <3>2
    <3>3. CASE d # c /\ d # n
      BY <2>3, <2>8, <3>3 DEF CallInv
    <3> QED BY <3>1, <3>2, <3>3
  <2> QED BY <2>9
<1> QED BY <1>5, <1>6

\* Destroy, of a connection that is not deleted.
LEMMA DestroyCall ==
    ASSUME IInv, CallInv, NEW c \in Conns, NEW r \in ConnRecords, NEW w, NEW i, NEW ret,
           Destroy(w, c, r, i, ret), CallOK(r, client[c]),
           r.status \in {"LOGIN", "READ", "CLOSE"}, UNCHANGED client
    PROVE  \A d \in Conns : CallOK(conn'[d], client'[d])
<1>1. \/ r.status # "CLOSE" /\ conn' = [conn EXCEPT ![c] = FinishByTask(r)]
      \/ conn' = [conn EXCEPT ![c] = r]
  BY DEF Destroy, MustClose
<1>2. r.status # "CLOSE" => CallOK(FinishByTask(r), client[c])
  BY CallOps
<1> QED BY <1>1, <1>2, OneCall

\* The end of a call.
LEMMA EndingCall ==
    ASSUME IInv, SInv, CallInv, NEW c \in Conns,
           ReadFail(c) \/ \E tag \in {"read", "finish"} : StepClose(c, tag)
    PROVE  \A d \in Conns : CallOK(conn'[d], client'[d])
<1>1. PICK tag \in {"read", "finish"} :
          /\ Event(c, tag) /\ Destroy(WorkerOf[c], c, Popped(c, tag), 1, "loop") /\ UNCHANGED client
  BY DEF ReadFail, StepClose, Message
<1> DEFINE p == Popped(c, tag)
<1>2. /\ p \in ConnRecords /\ p.status = conn[c].status /\ CallOK(p, client[c])
      /\ conn[c].status \in {"ACCEPT", "LOGIN", "READ", "CLOSE"} /\ conn[c].ops = {tag}
  BY <1>1, EventCall
<1>3. conn[c].status # "ACCEPT"
  BY <1>2 DEF IInv, OpsInv, OpsOf
<1> HIDE DEF p
<1> QED BY <1>1, <1>2, <1>3, DestroyCall DEF p

\* The loop over connections_ finishes the calls of a dying worker once.
LEMMA LoopCall ==
    ASSUME IInv, SInv, CallInv, NEW w \in Workers, LoopConn(w)
    PROVE  \A d \in Conns : CallOK(conn'[d], client'[d])
<1> DEFINE i == wpc[w].i
           c == connections[w][i]
           f == FinishByTask(conn[c])
<1>1. wpc[w].at = "loop" /\ i \in Nat /\ i >= 1 /\ Len(connections[w]) \in Nat /\ UNCHANGED client
  BY LenProperties DEF LoopConn, IInv, Types, WorkerInv, WorkerOK, Scanning, WorkerRecords
<1>2. CASE UNCHANGED conn
  BY <1>1, <1>2 DEF CallInv
<1>3. CASE ~UNCHANGED conn
  <2>1. /\ i <= Len(connections[w]) /\ MustClose(w, conn[c])
        /\ IF conn[c].status = "WAIT_LOGIN"
             THEN Destroy(w, c, f, i + 1, "loop")
             ELSE conn' = [conn EXCEPT ![c] = f]
    BY <1>3 DEF LoopConn
  <2>2. c \in Conns /\ conn[c] \in ConnRecords /\ conn[c].status \in {"WAIT_LOGIN", "READ", "CLOSE"}
    BY <1>1, <2>1, AtPlace
  <2> HIDE DEF c
  <2>3. CallOK(f, client[c])
    BY <2>1, <2>2, CallOps DEF CallInv, MustClose
  <2>4. f \in ConnRecords /\ f.status = "CLOSE"
    BY <2>2, RecordOps DEF Keeps
  <2> HIDE DEF f
  <2>5. CASE conn[c].status = "WAIT_LOGIN"
    BY <1>1, <2>1, <2>2, <2>3, <2>4, <2>5, DestroyCall
  <2>6. CASE conn[c].status # "WAIT_LOGIN"
    BY <1>1, <2>1, <2>2, <2>3, <2>6, OneCall
  <2> QED BY <2>5, <2>6
<1> QED BY <1>2, <1>3

\* Tasks: a denied login finishes the call, and no task of the application does.
LEMMA TaskCall ==
    ASSUME NoLateAnswer, IInv, SInv, CallInv, NEW w \in Workers, NEW c \in Conns, wpc[w].c = c, NEW j,
           TaskAcceptLogin(w, j) \/ TaskDenyLogin(w, j) \/ TaskClose(w, j) \/ TaskHandle(w, j)
    PROVE  \A d \in Conns : CallOK(conn'[d], client'[d])
<1>1. PICK kind \in {"login", "close", "normal"} :
          /\ Taken(w, kind, j)
          /\ kind = "login" => TaskAcceptLogin(w, j) \/ TaskDenyLogin(w, j)
          /\ kind = "normal" => TaskHandle(w, j)
  BY DEF TaskAcceptLogin, TaskDenyLogin, TaskClose, TaskHandle
<1>2. /\ Threads # {} /\ tasks[c][j].kind = kind /\ j \in 1..Len(tasks[c])
      /\ wpc[w].at \in Busy
  BY <1>1, TakenFacts DEF Busy
<1>3. tasks[c][j] \in Tasks /\ (kind = "login" => Answered(c)) /\ UNCHANGED client
  BY <1>1, TakenProperties DEF Taken
<1>4. conn[c] \in ConnRecords /\ CallOK(conn[c], client[c]) /\ tasks[c][j].id \in Ids
  BY <1>3 DEF IInv, Types, CallInv, Tasks
<1>5. CASE kind = "login"
  <2>1. conn[c].status = "WAIT_LOGIN"
    BY <1>2, <1>3, <1>5 DEF SInv, WaitsInv, Pending
  <2>2. CallOK(FinishByTask(conn[c]), client[c]) /\ CallOK(Registered(conn[c], tasks[c][j].id), client[c])
    BY <1>4, <2>1, CallOps
  <2>3. \/ conn' = [conn EXCEPT ![c] = FinishByTask(conn[c])]
        \/ conn' = [conn EXCEPT ![c] = Registered(conn[c], tasks[c][j].id)]
    BY <1>1, <1>5 DEF TaskAcceptLogin, TaskDenyLogin, Register
  <2> QED BY <1>3, <2>2, <2>3, OneCall
<1>6. CASE kind = "normal"
  <2>1. Served(c)
    BY <1>2, <1>6 DEF SInv, ServedInv
  <2>2. conn[c].status \in {"LOGIN", "WAIT_LOGIN", "READ", "CLOSE"}
    BY <1>2, <2>1, InHandOps DEF Served, Busy
  <2>3. CallOK(InternalClose(conn[c]), client[c])
    BY <1>4, <2>2, CallOps
  <2>4. conn' = conn \/ conn' = [conn EXCEPT ![c] = InternalClose(conn[c])]
    BY <1>1, <1>6 DEF TaskHandle
  <2>5. CASE conn' = conn
    BY <1>3, <2>5 DEF CallInv
  <2> QED BY <1>3, <2>3, <2>4, <2>5, OneCall
<1>7. kind # "close"
  BY <1>2 DEF CallInv, NoCloseTask
<1> QED BY <1>5, <1>6, <1>7

\* The end of Destroy closes the handler's connection.
LEMMA FinalizeCall ==
    ASSUME IInv, SInv, CallInv, NEW w \in Workers, Finalize(w)
    PROVE  \A d \in Conns : CallOK(conn'[d], client'[d])
<1> DEFINE c == wpc[w].c
<1>1. c \in Conns
  BY InHand DEF Finalize, Busy
<1>2. /\ conn' = [conn EXCEPT ![c] = Closed(@)] /\ UNCHANGED client
      /\ conn[c].status \in {"LOGIN", "READ", "CLOSE"}
  BY <1>1, FinalizeFacts
<1> HIDE DEF c
<1>3. conn[c] \in ConnRecords /\ CallOK(conn[c], client[c])
  BY <1>1 DEF IInv, Types, CallInv
<1>4. CallOK(Closed(conn[c]), client[c])
  BY <1>2, <1>3, CallOps
<1>5. conn' = [conn EXCEPT ![c] = Closed(conn[c])]
  BY <1>2
<1> QED BY <1>1, <1>2, <1>4, <1>5, OneCall

\* The first waiter of a worker.
LEMMA NewCall ==
    ASSUME IInv, CallInv, NEW w \in Workers, New(w)
    PROVE  \A d \in Conns : CallOK(conn'[d], client'[d])
<1> DEFINE n == NextConn(w, Conns)
<1>1. conn' = [conn EXCEPT ![n] = Waiting(conn[n])] /\ wpc[w].at = "new" /\ UNCHANGED client
  BY DEF New
<1>2. n \in Conns /\ WorkerOf[n] = w
  BY WorkerOfAssumption DEF NextConn
<1> HIDE DEF n
<1>3. conn[n].status = "none" /\ conn[n] \in ConnRecords /\ CallOK(conn[n], client[n])
  BY <1>1, <1>2 DEF IInv, Types, WorkerInv, WorkerOK, CallInv
<1>4. CallOK(Waiting(conn[n]), client[n])
  BY <1>3, CallOps
<1> QED BY <1>1, <1>2, <1>4, OneCall
\* What one more task adds to the queue of a connection.
LEMMA PutKinds ==
    ASSUME IInv, NEW c \in Conns, NEW t, NEW kind, NEW id, Put(c, t, kind, id),
           [by |-> t, kind |-> kind, id |-> id] \in Tasks,
           NEW d \in Conns, NEW j \in 1..Len(tasks'[d])
    PROVE  \/ \E k \in 1..Len(tasks[d]) : tasks'[d][j] = tasks[d][k]
           \/ tasks'[d][j].kind = kind
<1> DEFINE e == [by |-> t, kind |-> kind, id |-> id]
<1>1. e.kind = kind /\ e \in Tasks
  OBVIOUS
<1>2. tasks' = tasks \/ tasks' = [tasks EXCEPT ![c] = Append(@, e)]
  BY DEF Put, Enqueue
<1> HIDE DEF e
<1>3. tasks'[d] = tasks[d] \/ tasks'[d] = Append(tasks[d], e)
  BY <1>2 DEF IInv, Types
<1>4. CASE tasks'[d] = Append(tasks[d], e)
  <2>1. tasks[d] \in Seq(Tasks)
    BY DEF IInv, Types
  <2>2. /\ Len(Append(tasks[d], e)) = Len(tasks[d]) + 1 /\ Len(tasks[d]) \in Nat
        /\ Append(tasks[d], e)[Len(tasks[d]) + 1] = e
        /\ \A i \in 1..Len(tasks[d]) : Append(tasks[d], e)[i] = tasks[d][i]
    BY <1>1, <2>1, AppendProperties, LenProperties
  <2>3. j \in 1..Len(tasks[d]) \/ j = Len(tasks[d]) + 1
    BY <1>4, <2>2
  <2> QED BY <1>1, <1>4, <2>2, <2>3
<1> QED BY <1>3, <1>4

\* No close task comes up where the application does not call mtk_cid_close.
LEMMA NextNoCloseTask ==
    ASSUME NoLateAnswer, NoCidClose, IInv, SInv, NoCloseTask, [Next]_vars
    PROVE  NoCloseTask'
<1>1. ASSUME \A t \in Threads : app'[t].op = app[t].op \/ app'[t].op # "close", TasksShrink
      PROVE  NoCloseTask'
  BY <1>1 DEF NoCloseTask, TasksShrink
<1>2. CASE UNCHANGED <<tasks, app>>
  BY <1>1, <1>2 DEF TasksShrink
<1>3. ASSUME NEW w \in Workers, NEW kind, NEW j, wpc[w].c \in Conns, Taken(w, kind, j) PROVE NoCloseTask'
  BY <1>1, <1>3, TakenFacts
<1>4. ASSUME NEW w \in Workers, Finalize(w) PROVE NoCloseTask'
  <2> DEFINE c == wpc[w].c
  <2>1. c \in Conns
    BY <1>4, InHand DEF Finalize, Busy
  <2>2. tasks' = [tasks EXCEPT ![c] = <<>>] /\ Unregister(c)
    BY <1>4 DEF Finalize
  <2> HIDE DEF c
  <2>3. tasks'[c] = <<>> /\ (\A d \in Conns : d # c => tasks'[d] = tasks[d]) /\ Len(<<>>) = 0
    BY <2>1, <2>2 DEF IInv, Types
  <2>4. TasksShrink
    BY <2>3 DEF TasksShrink
  <2>5. ASSUME NEW t \in Threads PROVE app'[t].op = app[t].op
    <3>1. \/ app'[t] = app[t]
          \/ app'[t] = [app[t] EXCEPT !.at = "dangling"]
      BY <2>2 DEF Unregister, Dangle
    <3> QED BY <3>1 DEF IInv, Types, AppRecords
  <2> QED BY <1>1, <2>4, <2>5
<1>5. ASSUME NEW t \in Threads,
             \/ AppStep(t)
             \/ \E k \in Ids, op \in {"close", "task"} : CidLookup(t, k, op)
             \/ \E c \in Conns, id \in Ids : FinishLogin(t, c, id)
      PROVE  NoCloseTask'
  <2>1. app[t] \in AppRecords /\ app[t].op # "close"
    BY DEF IInv, Types, NoCloseTask
  <2>2. /\ \A u \in Threads : u # t => app'[u] = app[u]
        /\ app'[t].op # "close"
    <3>1. Idle.op = "none"
      BY DEF Idle
    <3>2. CASE CidDeref(t) \/ CidEnqueue(t) \/ FinishLoginTask(t)
      <4>1. \/ app' = [app EXCEPT ![t] = Idle]
            \/ app' = [app EXCEPT ![t].at = "handle", ![t].c = cmap[app[t].key]]
        BY <3>2 DEF CidDeref, CidEnqueue, FinishLoginTask
      <4>2. CASE app' = [app EXCEPT ![t] = Idle]
        BY <3>1, <4>2 DEF IInv, Types
      <4>3. CASE app' = [app EXCEPT ![t].at = "handle", ![t].c = cmap[app[t].key]]
        BY <2>1, <4>3 DEF IInv, Types, AppRecords
      <4> QED BY <4>1, <4>2, <4>3
    <3>3. ASSUME NEW k \in Ids, NEW op \in {"close", "task"}, CidLookup(t, k, op)
          PROVE  (\A u \in Threads : u # t => app'[u] = app[u]) /\ app'[t].op # "close"
      <4> DEFINE x == [Idle EXCEPT !.at = "node", !.key = k, !.op = op]
      <4>1. x.op = op /\ op # "close" /\ app' = [app EXCEPT ![t] = x]
        BY <3>3 DEF CidLookup, Idle, NoCidClose
      <4> HIDE DEF x
      <4> QED BY <4>1 DEF IInv, Types
    <3>4. ASSUME NEW c \in Conns, NEW id \in Ids, FinishLogin(t, c, id)
          PROVE  (\A u \in Threads : u # t => app'[u] = app[u]) /\ app'[t].op # "close"
      <4> DEFINE x == [Idle EXCEPT !.at = "login", !.c = c, !.key = id]
      <4>1. x.op = "none" /\ app' = [app EXCEPT ![t] = x]
        BY <3>4 DEF FinishLogin, Idle
      <4> HIDE DEF x
      <4> QED BY <4>1 DEF IInv, Types
    <3> QED BY <1>5, <3>2, <3>3, <3>4 DEF AppStep
  <2>3. CASE UNCHANGED tasks
    BY <1>1, <2>2, <2>3 DEF TasksShrink
  <2>4. ASSUME NEW c \in Conns, NEW kind \in {"login", "normal"}, NEW id \in Ids, Put(c, t, kind, id)
        PROVE  NoCloseTask'
    <3>1. [by |-> t, kind |-> kind, id |-> id] \in Tasks
      BY DEF Tasks
    <3>2. ASSUME NEW d \in Conns, NEW j \in 1..Len(tasks'[d]) PROVE tasks'[d][j].kind # "close"
      <4>1. \/ \E k \in 1..Len(tasks[d]) : tasks'[d][j] = tasks[d][k]
            \/ tasks'[d][j].kind = kind
        BY <2>4, <3>1, <3>2, PutKinds
      <4> QED BY <4>1 DEF NoCloseTask
    <3> QED BY <2>2, <3>2 DEF NoCloseTask
  <2>5. CASE CidEnqueue(t)
    <3>1. Put(app[t].c, t, "normal", 0) /\ 0 \in Ids
      BY <2>1, <2>5 DEF CidEnqueue, Ids
    <3>2. app[t].c \in Conns
      BY <2>5 DEF CidEnqueue, SInv, ServedInv
    <3> QED BY <2>4, <3>1, <3>2
  <2>6. CASE FinishLoginTask(t)
    <3>1. Put(app[t].c, t, "login", app[t].key) /\ app[t].key \in Ids /\ app[t].c \in Conns
      BY <2>1, <2>6 DEF FinishLoginTask, AppRecords, IInv, AppInv
    <3> QED BY <2>4, <3>1
  <2> QED BY <1>5, <2>3, <2>5, <2>6 DEF AppStep, CidDeref, CidLookup, FinishLogin
<1>6. \/ UNCHANGED <<tasks, app>>
      \/ \E w \in Workers : Finalize(w)
      \/ \E w \in Workers : wpc[w].c \in Conns /\ \E j, kind : Taken(w, kind, j)
      \/ \E t \in Threads :
            \/ AppStep(t)
            \/ \E k \in Ids, op \in {"close", "task"} : CidLookup(t, k, op)
            \/ \E c \in Conns, id \in Ids : FinishLogin(t, c, id)
  <2>1. CASE Starting
    BY <2>1 DEF Starting, Run, BuildAndStart, StartWaits, Notify, Launch, New
  <2>2. ASSUME NEW c \in Conns,
               \/ CallArrives(c) \/ Accept(c) \/ StepClientClose(c) \/ Login(c) \/ Request(c)
             \/ Ending(c) \/ ClientGone(c)
        PROVE  UNCHANGED <<tasks, app>>
    BY <2>2 DEF CallArrives, Accept, StepClientClose, Login, StepLogin, StepRefuse, StepDefer, Request,
                StepHandle, StepHandleClose, Ending, StepClose, ReadFail, CloserDone, AcceptFail, ClientGone
  <2>3. ASSUME NEW w \in Workers, Timeout(w) \/ Inside(w) \/ PrepareShutdown(w) \/ ShutdownEvent(w)
        PROVE  \/ UNCHANGED <<tasks, app>> \/ Finalize(w)
               \/ wpc[w].c \in Conns /\ \E j, kind : Taken(w, kind, j)
    BY <2>3 DEF Timeout, Inside, PrepareShutdown, ShutdownEvent, LoopConn, TasksDone, FinalConn,
                TaskAcceptLogin, TaskDenyLogin, TaskClose, TaskHandle
  <2>4. CASE ServerShutdown \/ CallsOver \/ Joined \/ Join
    BY <2>4 DEF ServerShutdown, CallsOver, Joined, Join
  <2>5. CASE UNCHANGED vars
    BY <2>5 DEF vars
  <2> QED BY <2>1, <2>2, <2>3, <2>4, <2>5 DEF Next
<1> QED BY <1>2, <1>3, <1>4, <1>5, <1>6

\* Every step keeps the calls in order.
THEOREM NextCallInv ==
    NoLateAnswer /\ NoCidClose /\ IInv /\ SInv /\ CallInv /\ [Next]_vars => CallInv'
<1> SUFFICES ASSUME NoLateAnswer, NoCidClose, IInv, SInv, CallInv, [Next]_vars PROVE CallInv'
  OBVIOUS
<1> DEFINE Calls == /\ client' \in [Conns -> {"idle", "open", "gone"}]
                    /\ \A d \in Conns : CallOK(conn'[d], client'[d])
<1>1. ASSUME UNCHANGED <<conn, client>> PROVE Calls
  BY <1>1 DEF CallInv
<1>2. ASSUME UNCHANGED client, \A d \in Conns : CallOK(conn'[d], client'[d]) PROVE Calls
  BY <1>2 DEF CallInv
<1> HIDE DEF Calls
<1>3. ASSUME Starting PROVE Calls
  <2>1. CASE \E w \in Workers : New(w)
    BY <1>2, <2>1, NewCall DEF New
  <2>2. CASE ~\E w \in Workers : New(w)
    <3>1. UNCHANGED <<conn, client>>
      BY <1>3, <2>2 DEF Starting, Run, BuildAndStart, StartWaits, Notify, Launch
    <3> QED BY <1>1, <3>1 DEF Calls
  <2> QED BY <2>1, <2>2
<1>4. ASSUME NEW c \in Conns,
             \/ CallArrives(c) \/ Accept(c) \/ StepClientClose(c) \/ Login(c) \/ Request(c)
             \/ Ending(c) \/ ClientGone(c)
      PROVE  Calls
  <2>1. CASE Accept(c) \/ AcceptFail(c)
    BY <1>2, <2>1, AcceptCall DEF Accept, AcceptFail
  <2>2. CASE StepClientClose(c) \/ Login(c) \/ Request(c) \/ CloserDone(c)
    <3>1. UNCHANGED client
      BY <2>2 DEF StepClientClose, Login, StepLogin, StepRefuse, StepDefer, Request, StepHandle,
                  StepHandleClose, CloserDone
    <3> QED BY <1>2, <2>2, <3>1, EventsCall
  <2>3. CASE ReadFail(c) \/ \E tag \in {"read", "finish"} : StepClose(c, tag)
    BY <1>2, <2>3, EndingCall DEF ReadFail, StepClose
  <2>4. CASE ClientGone(c)
    <3>1. client[c] = "open" /\ client' = [client EXCEPT ![c] = "gone"] /\ conn' = conn
      BY <2>4 DEF ClientGone
    <3>2. /\ client' \in [Conns -> {"idle", "open", "gone"}] /\ client'[c] = "gone"
          /\ \A d \in Conns : d # c => client'[d] = client[d]
      BY <3>1 DEF CallInv
    <3>3. CallOK(conn[c], "gone")
      BY <3>1 DEF CallInv, CallOK
    <3>4. \A d \in Conns : CallOK(conn'[d], client'[d])
      BY <3>1, <3>2, <3>3 DEF CallInv
    <3> QED BY <3>2, <3>4 DEF Calls
  <2>5. CASE CallArrives(c)
    <3>1. client' = [client EXCEPT ![c] = "open"] /\ conn' = conn /\ conn[c].status = "ACCEPT"
      BY <2>5 DEF CallArrives, IInv, OpsInv, OpsOf
    <3>2. /\ client' \in [Conns -> {"idle", "open", "gone"}] /\ client'[c] = "open"
          /\ \A d \in Conns : d # c => client'[d] = client[d]
      BY <3>1 DEF CallInv
    <3>3. CallOK(conn[c], "open")
      BY <3>1 DEF CallInv, CallOK
    <3>4. \A d \in Conns : CallOK(conn'[d], client'[d])
      BY <3>1, <3>2, <3>3 DEF CallInv
    <3> QED BY <3>2, <3>4 DEF Calls
  <2> QED BY <1>4, <2>1, <2>2, <2>3, <2>4, <2>5 DEF Ending
<1>5. ASSUME NEW w \in Workers, Timeout(w) \/ Inside(w) \/ PrepareShutdown(w) \/ ShutdownEvent(w)
      PROVE  Calls
  <2>1. CASE Timeout(w) \/ PrepareShutdown(w) \/ ShutdownEvent(w) \/ TasksDone(w)
    <3>1. UNCHANGED <<conn, client>>
      BY <2>1 DEF Timeout, PrepareShutdown, ShutdownEvent, TasksDone
    <3> QED BY <1>1, <3>1 DEF Calls
  <2>2. CASE LoopConn(w)
    BY <1>2, <2>2, LoopCall DEF LoopConn
  <2>3. CASE Finalize(w)
    BY <1>2, <2>3, FinalizeCall DEF Finalize
  <2>4. CASE FinalConn(w)
    <3>1. wpc[w].at = "final" /\ wpc[w].i \in Nat /\ wpc[w].i >= 1 /\ connections[w] = <<>>
      BY <2>4 DEF FinalConn, IInv, Types, WorkerRecords, WorkerInv, WorkerOK, Scanning, SInv, WorkInv,
                  WorkOK, EndOK
    <3>2. Len(connections[w]) = 0
      BY <3>1
    <3>3. UNCHANGED <<conn, client>>
      BY <2>4, <3>1, <3>2 DEF FinalConn
    <3> QED BY <1>1, <3>3 DEF Calls
  <2>5. ASSUME wpc[w].c \in Conns, NEW j \in Heads(tasks[wpc[w].c]),
               TaskAcceptLogin(w, j) \/ TaskDenyLogin(w, j) \/ TaskClose(w, j) \/ TaskHandle(w, j)
        PROVE  Calls
    <3>1. UNCHANGED client
      BY <2>5 DEF TaskAcceptLogin, TaskDenyLogin, TaskClose, TaskHandle, Taken
    <3> QED BY <1>2, <2>5, <3>1, TaskCall
  <2> QED BY <1>5, <2>1, <2>2, <2>3, <2>4, <2>5 DEF Inside
<1>6. ASSUME NEW t \in Threads,
             \/ AppStep(t)
             \/ \E k \in Ids, op \in {"close", "task"} : CidLookup(t, k, op)
             \/ \E c \in Conns, id \in Ids : FinishLogin(t, c, id)
      PROVE  Calls
  <2>1. UNCHANGED <<conn, client>>
    BY <1>6 DEF AppStep, CidDeref, CidEnqueue, FinishLoginTask, CidLookup, FinishLogin
  <2> QED BY <1>1, <2>1 DEF Calls
<1>7. ASSUME ServerShutdown \/ CallsOver \/ Joined \/ Join \/ UNCHANGED vars PROVE Calls
  <2>1. UNCHANGED <<conn, client>>
    BY <1>7 DEF ServerShutdown, CallsOver, Joined, Join, vars
  <2> QED BY <1>1, <2>1 DEF Calls
<1>8. Calls
  BY <1>3, <1>4, <1>5, <1>6, <1>7 DEF Next
<1>9. NoCloseTask'
  BY NextNoCloseTask DEF CallInv
<1> QED BY <1>8, <1>9 DEF Calls, CallInv

\* No call has been finished when the server starts.
THEOREM InitCallInv == Init => CallInv
<1> SUFFICES ASSUME Init PROVE CallInv
  OBVIOUS
<1>1. /\ NewConn \in ConnRecords /\ NewConn.status = "none" /\ NewConn.finishes = 0
      /\ NewConn.lateRead = FALSE /\ NewConn.closed = 0 /\ Idle.op = "none" /\ Len(<<>>) = 0
  BY DEF NewConn, ConnRecords, Statuses, Ids, Idle
<1>2. CallOK(NewConn, "idle")
  BY <1>1 DEF CallOK
<1>3. CallOK(Waiting(NewConn), "idle")
  BY <1>1, <1>2, CallOps
<1>4. /\ client = [c \in Conns |-> "idle"] /\ app = [t \in Threads |-> Idle] /\ tasks = [c \in Conns |-> <<>>]
      /\ \A c \in Conns : conn[c] \in {NewConn, Waiting(NewConn)}
  BY DEF Init
<1>5. \A c \in Conns : Len(tasks[c]) = 0
  BY <1>1, <1>4
<1> QED BY <1>1, <1>2, <1>3, <1>4, <1>5 DEF CallInv, NoCloseTask

\* After a shutdown nothing is left of the connections: the last loop of Run has
\* nothing to do, each call was finished at most once and not read from
\* afterwards, and the handler's Close was called once for each client.
THEOREM NothingLeftTheorem == NoLateAnswer /\ NoCidClose => (Safety => []NothingLeft)
<1>1. SUFFICES ASSUME NoLateAnswer, NoCidClose PROVE Safety => []NothingLeft
  OBVIOUS
<1>2. IInv /\ SInv /\ CallInv => NothingLeft
  <2> SUFFICES ASSUME IInv, SInv, CallInv PROVE NothingLeft
    OBVIOUS
  <2>1. ASSUME NEW c \in Conns
        PROVE  /\ conn[c].finishes <= 1 /\ ~conn[c].lateRead
               /\ conn[c].closed = IF conn[c].status = "deleted" /\ client[c] # "idle" THEN 1 ELSE 0
    BY DEF CallInv, CallOK
  <2>2. \A w \in Workers : wpc[w].at \in {"final", "done"} => connections[w] = <<>>
    BY DEF SInv, WorkInv, WorkOK, EndOK
  <2>3. ASSUME srv \in {"down", "failed", "deleted"}
        PROVE  pmap = {} /\ (\A k \in Ids : cmap[k] = NoConn) /\ ~\E c \in Conns : Live(c)
    <3>1. \/ \A w \in Workers : wpc[w].at = "done"
          \/ \A w \in Workers : wpc[w].at = "unlaunched"
      BY <2>3 DEF SInv, PhaseInv
    <3>2. ASSUME NEW c \in Conns PROVE ~Live(c)
      <4>1. WorkerOf[c] \in Workers
        BY WorkerOfAssumption
      <4>2. CASE wpc[WorkerOf[c]].at = "done"
        BY <4>1, <4>2 DEF SInv, WorkInv, WorkOK, EndOK
      <4>3. CASE wpc[WorkerOf[c]].at = "unlaunched"
        BY <4>1, <4>3 DEF IInv, WorkerInv, WorkerOK, Live
      <4> QED BY <3>1, <4>1, <4>2, <4>3
    <3>3. pmap = {}
      BY <3>2 DEF IInv, PmapInv, Types
    <3>4. \A k \in Ids : cmap[k] = NoConn
      BY <3>2 DEF IInv, MapInv, Types
    <3> QED BY <3>2, <3>3, <3>4
  <2> QED BY <2>1, <2>2, <2>3 DEF NothingLeft
<1>3. IInv /\ SInv /\ CallInv /\ [Next]_vars => (IInv /\ SInv /\ CallInv)'
  BY <1>1, NextIInv, NextSInv, NextCallInv
<1>4. Init => IInv /\ SInv /\ CallInv
  BY InitIInv, InitSInv, InitCallInv
<1> QED BY <1>2, <1>3, <1>4, PTL DEF Safety
---------------------------------------------------------------------------
(* Use of deleted objects *)

\* Nothing deleted has been used, and no thread is on its way to a connection
\* which it looked up by its id.
UInv == "uaf" \notin broken /\ \A t \in Threads : app[t].at \in {"idle", "login"}

\* The server is deleted when its workers have ended or were never launched.
LEMMA JoinUInv ==
    ASSUME SInv, UInv, Join
    PROVE  UInv'
<1>1. srv \in {"down", "failed"} /\ UNCHANGED app
  BY DEF Join
<1>2. \A w \in Workers : wpc[w].at \in {"done", "unlaunched"}
  BY <1>1 DEF SInv, PhaseInv
<1>3. broken' = broken
  BY <1>2 DEF Join
<1> QED BY <1>1, <1>3 DEF UInv

\* The threads of the application: the answer to a deferred login reaches a
\* connection that waits for it.
LEMMA ThreadsUInv ==
    ASSUME NoStaleUse, IInv, SInv, UInv, NEW t \in Threads,
           \/ AppStep(t)
           \/ \E k \in Ids, op \in {"close", "task"} : CidLookup(t, k, op)
           \/ \E c \in Conns, id \in Ids : FinishLogin(t, c, id)
    PROVE  UInv'
<1>1. app[t].at \in {"idle", "login"} /\ Idle.at = "idle"
  BY DEF UInv, Idle
<1>2. ASSUME NEW x, app' = [app EXCEPT ![t] = x], x.at \in {"idle", "login"}, UNCHANGED broken
      PROVE  UInv'
  BY <1>2 DEF UInv, IInv, Types
<1>3. CASE FinishLoginTask(t)
  <2>1. app[t].at = "login" /\ app' = [app EXCEPT ![t] = Idle]
    BY <1>3 DEF FinishLoginTask
  <2>2. app[t].c \in Conns /\ Answers(t, app[t].c)
    BY <2>1 DEF IInv, AppInv, Answers
  <2>3. conn[app[t].c].status = "WAIT_LOGIN"
    BY <2>2 DEF SInv, WaitsInv, Pending
  <2>4. broken' = broken
    BY <1>3, <2>3 DEF FinishLoginTask
  <2> QED BY <1>1, <1>2, <2>1, <2>4
<1>4. ASSUME NEW c \in Conns, NEW id \in Ids, FinishLogin(t, c, id) PROVE UInv'
  <2> DEFINE x == [Idle EXCEPT !.at = "login", !.c = c, !.key = id]
  <2>1. x.at = "login" /\ app' = [app EXCEPT ![t] = x] /\ UNCHANGED broken
    BY <1>4 DEF FinishLogin, Idle
  <2> HIDE DEF x
  <2> QED BY <1>2, <2>1
<1>5. ~CidDeref(t) /\ ~CidEnqueue(t)
  BY <1>1 DEF CidDeref, CidEnqueue
<1>6. \A k \in Ids, op \in {"close", "task"} : ~CidLookup(t, k, op)
  BY DEF NoStaleUse, CidLookup
<1> QED BY <1>3, <1>4, <1>5, <1>6 DEF AppStep

\* Every step of an application without stale uses uses nothing deleted.
THEOREM NextUInv ==
    NoLateAnswer /\ NoStaleUse /\ IInv /\ SInv /\ UInv /\ [Next]_vars => UInv'
<1> SUFFICES ASSUME NoLateAnswer, NoStaleUse, IInv, SInv, UInv, [Next]_vars PROVE UInv'
  OBVIOUS
<1>1. IInv'
  BY NextIInv
<1>2. ASSUME UNCHANGED app, broken' \subseteq broken \cup {"OnRegister"} PROVE UInv'
  BY <1>2 DEF UInv
<1>3. CASE Starting
  <2>1. UNCHANGED <<app, broken>>
    BY <1>3 DEF Starting, Run, BuildAndStart, StartWaits, Notify, Launch, New
  <2> QED BY <1>2, <2>1
<1>4. ASSUME NEW c \in Conns,
             \/ CallArrives(c) \/ Accept(c) \/ StepClientClose(c) \/ Login(c) \/ Request(c)
             \/ Ending(c) \/ ClientGone(c)
      PROVE  UInv'
  <2>1. CASE \/ CallArrives(c) \/ Accept(c) \/ StepClientClose(c) \/ Request(c)
             \/ CloserDone(c) \/ AcceptFail(c) \/ ClientGone(c)
    <3>1. UNCHANGED <<app, broken>>
      BY <2>1 DEF CallArrives, Accept, StepClientClose, Request, StepHandle, StepHandleClose, CloserDone,
                  AcceptFail, ClientGone
    <3> QED BY <1>2, <3>1
  <2>2. CASE Login(c)
    <3>1. UNCHANGED app /\ broken' \subseteq broken \cup {"OnRegister"}
      BY <2>2 DEF Login, StepLogin, StepRefuse, StepDefer, Register
    <3> QED BY <1>2, <3>1
  <2>3. CASE ReadFail(c) \/ \E tag \in {"read", "finish"} : StepClose(c, tag)
    <3>1. UNCHANGED app
      BY <2>3 DEF ReadFail, StepClose
    <3> QED BY <1>2, <2>3, <3>1, EndingSInv
  <2> QED BY <1>4, <2>1, <2>2, <2>3 DEF Ending
<1>5. ASSUME NEW w \in Workers, Timeout(w) \/ Inside(w) \/ PrepareShutdown(w) \/ ShutdownEvent(w)
      PROVE  UInv'
  <2>1. CASE Timeout(w) \/ PrepareShutdown(w) \/ ShutdownEvent(w) \/ TasksDone(w)
    <3>1. UNCHANGED <<app, broken>>
      BY <2>1 DEF Timeout, PrepareShutdown, ShutdownEvent, TasksDone
    <3> QED BY <1>2, <3>1
  <2>2. CASE LoopConn(w) \/ FinalConn(w)
    <3>1. UNCHANGED app
      BY <2>2 DEF LoopConn, FinalConn
    <3> QED BY <1>2, <2>2, <3>1, LoopConnSInv, FinalConnSInv
  <2>3. CASE Finalize(w)
    <3>1. UNCHANGED broken /\ Unregister(wpc[w].c)
      BY <2>3 DEF Finalize
    <3>2. \A id : Dangle(app, id) = app
      BY DEF Dangle, UInv, IInv, Types
    <3>3. app' = app
      BY <3>1, <3>2 DEF Unregister
    <3> QED BY <1>2, <3>1, <3>3
  <2>4. ASSUME wpc[w].c \in Conns, NEW j \in Heads(tasks[wpc[w].c]),
               TaskAcceptLogin(w, j) \/ TaskDenyLogin(w, j) \/ TaskClose(w, j) \/ TaskHandle(w, j)
        PROVE  UInv'
    <3>1. UNCHANGED app
      BY <2>4 DEF TaskAcceptLogin, TaskDenyLogin, TaskClose, TaskHandle, Taken
    <3>2. broken' \subseteq broken
      BY <1>1, <2>4, TasksSInv, TaskAcceptLoginSInv
    <3> QED BY <1>2, <3>1, <3>2
  <2> QED BY <1>5, <2>1, <2>2, <2>3, <2>4 DEF Inside
<1>6. ASSUME NEW t \in Threads,
             \/ AppStep(t)
             \/ \E k \in Ids, op \in {"close", "task"} : CidLookup(t, k, op)
             \/ \E c \in Conns, id \in Ids : FinishLogin(t, c, id)
      PROVE  UInv'
  BY <1>6, ThreadsUInv
<1>7. CASE ServerShutdown \/ CallsOver \/ Joined \/ UNCHANGED vars
  <2>1. UNCHANGED <<app, broken>>
    BY <1>7 DEF ServerShutdown, CallsOver, Joined, vars
  <2> QED BY <1>2, <2>1
<1>8. CASE Join
  BY <1>8, JoinUInv
<1> QED BY <1>3, <1>4, <1>5, <1>6, <1>7, <1>8 DEF Next

\* No thread uses a connection or a map node that is gone, and the application
\* no queue of events that is not there yet, where it reaches no connection by
\* its id.
THEOREM NoUseAfterFreeTheorem == NoLateAnswer /\ NoStaleUse => (Safety => []NoUseAfterFree)
<1>1. SUFFICES ASSUME NoLateAnswer, NoStaleUse PROVE Safety => []NoUseAfterFree
  OBVIOUS
<1>2. IInv /\ SInv /\ UInv => NoUseAfterFree
  BY DEF SInv, PhaseInv, UInv, NoUseAfterFree
<1>3. IInv /\ SInv /\ UInv /\ [Next]_vars => (IInv /\ SInv /\ UInv)'
  BY <1>1, NextIInv, NextSInv, NextUInv
<1>4. Init => UInv
  BY DEF Init, UInv, Idle
<1> QED BY <1>2, <1>3, <1>4, InitIInv, InitSInv, PTL DEF Safety
===========================================================================
