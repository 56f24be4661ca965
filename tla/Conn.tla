------------------------------- MODULE Conn -------------------------------
(***************************************************************************)
(* The server: connections (class Conn), the worker threads that step them *)
(* (class Worker), the server's map of connections and its shutdown (class *)
(* IServer), and the application threads that reach a connection by id     *)
(* (mtk_cid_*, mtk_svconn_finish_login).                                   *)
(*                                                                         *)
(* A worker runs its loop: one event of its completion queue (or a         *)
(* timeout), then ConsumeTask on every connection of connections_.  An     *)
(* event handler is one action; every task is one action; the deletion of  *)
(* a Conn is its own action, after the tasks Destroy consumes.  The actions *)
(* of application threads are cut where the code unlocks: GetStream looks  *)
(* up under cmap_mtx_ and dereferences after unlocking, FinishLogin looks  *)
(* up under pmap_mtx_ and uses the Conn after unlocking.                   *)
(*                                                                         *)
(* gRPC is external: an operation given a tag completes once, a read with  *)
(* ok = false once the client has gone or the call was finished, an accept *)
(* with the call that has arrived, which the worker may take much later,   *)
(* and server_->Shutdown() returns when no call is left.  An operation     *)
(* started on a queue that was shut down may abort the program; the model  *)
(* says when it happens (NoWorkOnShutQueue) and goes on.                   *)
(***************************************************************************)
EXTENDS Sequences, Integers, FiniteSets, ConcurrentQueue
LOCAL INSTANCE SequencesExt

CONSTANTS
    Conns,          \* the Conn objects that can be created; the last one of
                    \* each worker stays a waiter (bound on Accept)
    Workers,        \* the worker threads
    WorkerOf,       \* the worker whose New creates each Conn
    Cids,           \* connection ids the application hands out (0 is deny)
    Threads,        \* application threads
    NProcess,       \* n_process of Worker::Run (3 in the code)
    MaxCidOps,      \* bound on the mtk_cid_close / mtk_cid_task calls
    Uses,           \* what the application does, a subset of AllUses
    NoConn          \* no connection

AllUses == {"defer", "deny", "refuse", "close", "task", "closeInTask", "startup", "shutdown"}

ASSUME WorkerOfAssumption == WorkerOf \in [Conns -> Workers] /\ \A w \in Workers : \E c \in Conns : WorkerOf[c] = w
ASSUME CidsAssumption == 0 \notin Cids
ASSUME NoConnAssumption == NoConn \notin Conns
ASSUME UsesAssumption == Uses \subseteq AllUses
ASSUME BoundsAssumption == NProcess \in Nat \ {0} /\ MaxCidOps \in Nat

VARIABLES
    conn,           \* the Conn objects: status_, cid_, lcid_ and what gRPC
                    \* and the handler have seen of them
    tasks,          \* SVStream::tasks_ of each connection
    connections,    \* Worker::connections_
    wpc,            \* where each worker thread is in Run
    dying,          \* Worker::dying_
    cmap,           \* IServer::cmap_
    pmap,           \* Conn::pmap_: the connections found by their lcid
    app,            \* where each application thread is
    cidOps,         \* mtk_cid_* calls made
    client,         \* the client of each connection: "idle", "open", "gone"
    srv,            \* phase of Server::Run (with Kick) and IServer::Shutdown
    start,          \* where mtk_listen is in IServer::Start
    broken          \* assertions of the code that failed, and "uaf" when a
                    \* deleted object was used

server == <<srv, start>>

vars == <<conn, tasks, connections, wpc, dying, cmap, pmap, app, cidOps,
          client, server, broken>>

Ids == Cids \cup {0}

NewConn ==
    [status |-> "none", cid |-> 0, lcid |-> FALSE,
     ops |-> {},            \* tags "accept", "read", "finish" of this Conn
     closers |-> 0,         \* Finish operations tagged with a StreamCloser
     finishes |-> 0,        \* calls of io_.Finish
     lateRead |-> FALSE,    \* io_.Read called after io_.Finish
     closed |-> 0]          \* calls of the handler's Close

Poll == [at |-> "poll", c |-> NoConn, i |-> 0, n |-> 0, ret |-> "loop"]

Idle == [at |-> "idle", c |-> NoConn, key |-> 0, op |-> "none"]

---------------------------------------------------------------------------
(* Conn's calls into its stream, as functions of the Conn *)

\* worker_->WaitAccept, in case INIT of Step
Waiting(r) == [r EXCEPT !.status = "ACCEPT", !.ops = {"accept"}]

Recv(r) == [r EXCEPT !.ops = @ \cup {"read"},
                     !.lateRead = @ \/ r.finishes > 0]

\* Finish(false): the Conn is the tag
Finish(r) == [r EXCEPT !.status = "CLOSE", !.ops = @ \cup {"finish"},
                       !.finishes = @ + 1]

\* Mutant: the status is left alone.
FinishStaysOpen(r) == [r EXCEPT !.closers = @ + 1, !.finishes = @ + 1]

\* Finish(true): a new StreamCloser is the tag
FinishByTask(r) == [r EXCEPT !.status = "CLOSE", !.closers = @ + 1,
                             !.finishes = @ + 1]

\* InternalClose, through mtk_svconn_close
InternalClose(r) == [r EXCEPT !.status = "CLOSE"]

\* Mutant: connections are left alone by a shutdown.
MustCloseNever(w, r) == FALSE

\* A dying worker closes the connection (head of ConsumeTask).
MustClose(w, r) == dying[w] /\ r.status # "CLOSE"

Listed(c, s) == \E i \in 1..Len(s) : s[i] = c

\* std::find and erase; an element is there once at most (OnRegister's assertion).
Without(s, c) == IF Listed(c, s) THEN RemoveAt(s, CHOOSE i \in 1..Len(s) : s[i] = c) ELSE s

\* The threads whose map iterator points to an erased node hold a dangling one.
Dangle(a, key) ==
    [t \in Threads |-> IF a[t].at = "node" /\ a[t].key = key
                         THEN [a[t] EXCEPT !.at = "dangling"] ELSE a[t]]

\* The object the next New of worker w creates, out of the set S.
NextConn(w, S) == CHOOSE c \in S : WorkerOf[c] = w

---------------------------------------------------------------------------
\* mtk_listen has been called: it runs the server itself (exclusive), or in
\* a thread it creates while it holds mutex_.  Without "startup" every worker
\* has launched and its first New waits for a call.
Init ==
    LET up == "startup" \notin Uses IN
    /\ conn = [c \in Conns |-> IF up /\ c = NextConn(WorkerOf[c], Conns)
                                 THEN Waiting(NewConn) ELSE NewConn]
    /\ tasks = [c \in Conns |-> <<>>]
    /\ connections = [w \in Workers |-> <<>>]
    /\ wpc = [w \in Workers |-> IF up THEN Poll ELSE [Poll EXCEPT !.at = "unlaunched"]]
    /\ dying = [w \in Workers |-> FALSE]
    /\ cmap = [k \in Ids |-> NoConn]
    /\ pmap = {}
    /\ app = [t \in Threads |-> Idle]
    /\ cidOps = 0
    /\ client = [c \in Conns |-> "idle"]
    /\ IF up THEN srv = "up" /\ start = "returned"
             ELSE srv = "run" /\ start \in {"locked", "exclusive"}
    /\ broken = {}

---------------------------------------------------------------------------
(* The start of the server *)

\* Server::Run makes the handler, and with it queue_; then Kick.
Run ==
    /\ srv = "run" /\ srv' = "starting"
    /\ UNCHANGED <<conn, tasks, connections, wpc, dying, cmap, pmap, app, cidOps, client, start, broken>>

\* The listening ports, the workers with their queues, BuildAndStart, which may fail.
BuildAndStart ==
    /\ srv = "starting" /\ srv' \in {"launching", "failing"}
    /\ UNCHANGED <<conn, tasks, connections, wpc, dying, cmap, pmap, app, cidOps, client, start, broken>>

Launch(w) ==
    /\ srv = "launching" /\ wpc[w].at = "unlaunched"
    /\ wpc' = [wpc EXCEPT ![w].at = "new"]
    /\ UNCHANGED <<conn, tasks, connections, dying, cmap, pmap, app, cidOps, client, server, broken>>

\* The worker's thread begins: its first New.
New(w) ==
    /\ wpc[w].at = "new"
    /\ wpc' = [wpc EXCEPT ![w] = Poll]
    /\ conn' = [conn EXCEPT ![NextConn(w, Conns)] = Waiting(@)]
    /\ UNCHANGED <<tasks, connections, dying, cmap, pmap, app, cidOps, client, server, broken>>

\* cond_.wait(lock) in Start: mutex_ is free from here on.
StartWaits ==
    /\ start = "locked" /\ start' = "waiting"
    /\ UNCHANGED <<conn, tasks, connections, wpc, dying, cmap, pmap, app, cidOps, client, srv, broken>>

MutexFree == start # "locked"

\* Kick takes mutex_ and notifies, whether the server runs or not; Start
\* returns if it waits.
Notify ==
    /\ \/ srv = "launching" /\ (\A w \in Workers : wpc[w].at # "unlaunched") /\ srv' = "up"
       \/ srv = "failing" /\ srv' = "failed"
    /\ MutexFree
    /\ start' = IF start = "waiting" THEN "returned" ELSE start
    /\ UNCHANGED <<conn, tasks, connections, wpc, dying, cmap, pmap, app, cidOps, client, broken>>

---------------------------------------------------------------------------
(* Where a worker goes after an event: to the loop over connections_ *)

AfterEvent(w) ==
    wpc' = [wpc EXCEPT ![w] = IF connections'[w] = <<>> THEN Poll
                                ELSE [Poll EXCEPT !.at = "loop", !.i = 1]]

\* Conn::Destroy of a connection that has a peer, r being its current record:
\* the check at the head of ConsumeTask(-1), then the tasks, then Finalize.
\* A connection waiting for its login would be deleted twice.
Destroy(w, c, r, i, ret) ==
    LET dies == MustClose(w, r) IN
    /\ conn' = [conn EXCEPT ![c] = IF dies THEN FinishByTask(r) ELSE r]
    /\ wpc' = [wpc EXCEPT ![w] = [at |-> IF dies THEN "finalize" ELSE "destroy",
                                  c |-> c, i |-> i, n |-> -1, ret |-> ret]]
    /\ broken' = IF dies /\ r.status = "WAIT_LOGIN" THEN broken \cup {"uaf"}
                                                    ELSE broken

\* The server takes calls.
Serving == srv \in {"launching", "up", "preparing"}

\* An event of c's completion queue with c as tag.
Event(c, tag) == wpc[WorkerOf[c]].at = "poll" /\ tag \in conn[c].ops

Popped(c, tag) == [conn[c] EXCEPT !.ops = @ \ {tag}]

---------------------------------------------------------------------------
(* Case ACCEPT of Step: the next waiter is created, then the first read *)

\* The objects worker w has not created yet.
Uncreated(w) == {d \in Conns : WorkerOf[d] = w /\ conn[d].status = "none"}

\* A client opens a stream: gRPC completes the accept of a waiter.
CallArrives(c) ==
    /\ Serving
    /\ "accept" \in conn[c].ops /\ client[c] = "idle" /\ Uncreated(WorkerOf[c]) # {}
    /\ client' = [client EXCEPT ![c] = "open"]
    /\ UNCHANGED <<conn, tasks, connections, wpc, dying, cmap, pmap, app, cidOps, server, broken>>

\* The worker takes that event: by then the client may be gone, or the server
\* shutting down.
Accept(c) ==
    LET w == WorkerOf[c] IN
    /\ Event(c, "accept")
    /\ client[c] # "idle" /\ Uncreated(w) # {}
    /\ conn' = [conn EXCEPT ![c] = Recv([Popped(c, "accept") EXCEPT !.status = "LOGIN"]),
                            ![NextConn(w, Uncreated(w))] = Waiting(@)]
    /\ UNCHANGED <<tasks, connections, dying, cmap, pmap, app, cidOps, client, server, broken>>
    /\ AfterEvent(w)

\* The waiter of a server that shuts down: ok = false, Destroy without a peer.
AcceptFail(c) ==
    /\ Event(c, "accept")
    /\ client[c] = "idle" /\ ~Serving
    /\ conn' = [conn EXCEPT ![c] = [Popped(c, "accept") EXCEPT !.status = "deleted"]]
    /\ UNCHANGED <<tasks, connections, dying, cmap, pmap, app, cidOps, client, server, broken>>
    /\ AfterEvent(WorkerOf[c])

---------------------------------------------------------------------------
(* Register: ClearLoginCid, IServer::Register, Worker::OnRegister *)

\* Mutant: the pending login stays listed.
ClearLoginCidKeeps(w, c, r) == connections[w]

\* What ClearLoginCid leaves of connections_.
ClearLoginCid(w, c, r) == IF r.lcid THEN Without(connections[w], c) ELSE connections[w]

\* Mutant: the next read is forgotten.
RegisteredOnly(r, id) == [r EXCEPT !.cid = id, !.lcid = FALSE, !.status = "READ"]

\* status_ = READ; Recv()
Registered(r, id) == Recv([r EXCEPT !.cid = id, !.lcid = FALSE, !.status = "READ"])

\* IServer::Register: a newer connection takes the place of an older one.
ServerRegister(c, id) == cmap' = [cmap EXCEPT ![id] = c]

Register(c, id, r, failed) ==
    LET w == WorkerOf[c]
        cleared == ClearLoginCid(w, c, r) IN
    /\ pmap' = IF r.lcid THEN pmap \ {c} ELSE pmap
    /\ ServerRegister(c, id)
    /\ connections' = [connections EXCEPT ![w] = Append(cleared, c)]
    /\ conn' = [conn EXCEPT ![c] = Registered(r, id)]
    /\ broken' = broken \cup failed
          \cup (IF Listed(c, cleared) THEN {"OnRegister"} ELSE {})

---------------------------------------------------------------------------
(* Case LOGIN of Step *)

\* An event that hands a message of the client to a Conn in the given state;
\* the client may have gone since.
Message(c, tag, status) ==
    /\ Event(c, tag)
    /\ conn[c].status = status
    /\ tag = "read" => client[c] # "idle"

\* The client asks to close, in case LOGIN or READ.
StepClientClose(c) ==
    /\ \E st \in {"LOGIN", "READ"} : Message(c, "read", st)
    /\ conn' = [conn EXCEPT ![c] = Finish(Popped(c, "read"))]
    /\ UNCHANGED <<tasks, connections, dying, cmap, pmap, app, cidOps, client, server, broken>>
    /\ AfterEvent(WorkerOf[c])

\* The acceptor answers at once with id: an id of the application, or 0 for
\* "denied".  Either way the Conn is registered, unless the worker is dying.
StepLogin(c, id) ==
    LET r == Popped(c, "read") IN
    /\ Message(c, "read", "LOGIN")
    /\ id = 0 => "deny" \in Uses
    /\ IF dying[WorkerOf[c]]
         THEN /\ conn' = [conn EXCEPT ![c] = Finish(r)]
              /\ UNCHANGED <<pmap, cmap, connections, broken>>
         ELSE Register(c, id, r, {})
    /\ UNCHANGED <<tasks, dying, app, cidOps, client, server>>
    /\ AfterEvent(WorkerOf[c])

\* The acceptor calls mtk_svconn_close and returns 0.
StepRefuse(c) ==
    /\ "refuse" \in Uses
    /\ Message(c, "read", "LOGIN")
    /\ conn' = [conn EXCEPT ![c] = Finish(InternalClose(Popped(c, "read")))]
    /\ UNCHANGED <<tasks, connections, dying, cmap, pmap, app, cidOps, client, server, broken>>
    /\ AfterEvent(WorkerOf[c])

\* The acceptor calls mtk_svconn_defer_login: DeferLogin, NewLoginCid,
\* OnWaitLogin.  A dying worker finishes the call right away.
StepDefer(c) ==
    LET w == WorkerOf[c]
        r == [Popped(c, "read") EXCEPT !.status = "WAIT_LOGIN", !.lcid = TRUE] IN
    /\ "defer" \in Uses
    /\ Message(c, "read", "LOGIN")
    /\ conn' = [conn EXCEPT ![c] = IF dying[w] THEN Finish(r) ELSE r]
    /\ pmap' = pmap \cup {c}
    /\ connections' = [connections EXCEPT ![w] = Append(@, c)]
    /\ broken' = broken \cup (IF Listed(c, connections[w]) THEN {"OnRegister"} ELSE {})
    /\ UNCHANGED <<tasks, dying, cmap, app, cidOps, client, server>>
    /\ AfterEvent(w)

---------------------------------------------------------------------------
(* Case READ of Step.  The tag is the read, or a Finish that completes      *)
(* while the status is READ (then req_ is the previous request).            *)

\* The handler succeeds and leaves the connection open.
StepHandle(c, tag) ==
    LET r == Popped(c, tag) IN
    /\ Message(c, tag, "READ")
    /\ conn' = [conn EXCEPT ![c] = IF dying[WorkerOf[c]] THEN Finish(r) ELSE Recv(r)]
    /\ UNCHANGED <<tasks, connections, dying, cmap, pmap, app, cidOps, client, server, broken>>
    /\ AfterEvent(WorkerOf[c])

\* Mutant: the read goes on after Finish.
StepHandleReads(c, tag) ==
    /\ Message(c, tag, "READ")
    /\ conn' = [conn EXCEPT ![c] = Recv(Finish(Popped(c, tag)))]
    /\ UNCHANGED <<tasks, connections, dying, cmap, pmap, app, cidOps, client, server, broken>>
    /\ AfterEvent(WorkerOf[c])

\* The handler fails, or calls mtk_svconn_close.
StepHandleClose(c, tag) ==
    /\ Message(c, tag, "READ")
    /\ conn' = [conn EXCEPT ![c] = Finish(Popped(c, tag))]
    /\ UNCHANGED <<tasks, connections, dying, cmap, pmap, app, cidOps, client, server, broken>>
    /\ AfterEvent(WorkerOf[c])

---------------------------------------------------------------------------
(* Case CLOSE of Step, and any event with ok = false: Destroy *)

StepClose(c, tag) ==
    /\ Message(c, tag, "CLOSE")
    /\ Destroy(WorkerOf[c], c, Popped(c, tag), 1, "loop")
    /\ UNCHANGED <<tasks, connections, dying, cmap, pmap, app, cidOps, client, server>>

ReadFail(c) ==
    /\ Event(c, "read")
    /\ client[c] = "gone" \/ conn[c].finishes > 0
    /\ Destroy(WorkerOf[c], c, Popped(c, "read"), 1, "loop")
    /\ UNCHANGED <<tasks, connections, dying, cmap, pmap, app, cidOps, client, server>>

\* A StreamCloser's Finish completes: the closer is deleted.
CloserDone(c) ==
    /\ wpc[WorkerOf[c]].at = "poll" /\ conn[c].closers > 0
    /\ conn' = [conn EXCEPT ![c].closers = @ - 1]
    /\ UNCHANGED <<tasks, connections, dying, cmap, pmap, app, cidOps, client, server, broken>>
    /\ AfterEvent(WorkerOf[c])

\* AsyncNext returns TIMEOUT.
Timeout(w) ==
    /\ wpc[w].at = "poll" /\ connections[w] # <<>>
    /\ UNCHANGED <<conn, tasks, connections, dying, cmap, pmap, app, cidOps, client, server, broken>>
    /\ AfterEvent(w)

---------------------------------------------------------------------------
(* The loop over connections_ and ConsumeTask *)

\* connections_[i]->ConsumeTask(n_process), up to its loop; past the end the
\* worker polls again.
LoopConn(w) ==
    LET i == wpc[w].i
        c == connections[w][i] IN
    /\ wpc[w].at = "loop"
    /\ \/ /\ i > Len(connections[w])
          /\ wpc' = [wpc EXCEPT ![w] = Poll]
          /\ UNCHANGED <<conn, broken>>
       \/ /\ i <= Len(connections[w])
          /\ MustClose(w, conn[c])
          /\ IF conn[c].status = "WAIT_LOGIN"
               THEN Destroy(w, c, FinishByTask(conn[c]), i + 1, "loop")
               ELSE /\ conn' = [conn EXCEPT ![c] = FinishByTask(@)]
                    /\ wpc' = [wpc EXCEPT ![w].i = i + 1]
                    /\ UNCHANGED broken
       \/ /\ i <= Len(connections[w])
          /\ ~MustClose(w, conn[c])
          /\ wpc' = [wpc EXCEPT ![w] =
                       IF tasks[c] = <<>> THEN [@ EXCEPT !.i = i + 1]
                         ELSE [@ EXCEPT !.at = "consume", !.c = c, !.i = i + 1,
                                        !.n = NProcess]]
          /\ UNCHANGED <<conn, broken>>
    /\ UNCHANGED <<tasks, connections, dying, cmap, pmap, app, cidOps, client, server>>

\* The worker has taken a task of the given kind off its connection's queue.
Taken(w, kind, j) ==
    LET c == wpc[w].c IN
    /\ wpc[w].at \in {"consume", "destroy"} /\ wpc[w].n # 0
    /\ j \in Heads(tasks[c]) /\ tasks[c][j].kind = kind
    /\ tasks' = [tasks EXCEPT ![c] = Dequeue(@, j)]
    /\ UNCHANGED <<dying, app, cidOps, client, server>>

NextTask(w) == wpc' = [wpc EXCEPT ![w].n = @ - 1]

\* ConsumeTask returns: to the loop, or to the rest of Destroy.
Return(w) == IF wpc[w].at = "destroy"
               THEN [wpc[w] EXCEPT !.at = "finalize"]
               ELSE [Poll EXCEPT !.at = "loop", !.i = wpc[w].i]

\* A Login task that accepts: AcceptLogin.
TaskAcceptLogin(w, j) ==
    LET c == wpc[w].c
        id == tasks[c][j].id IN
    /\ Taken(w, "login", j) /\ id # 0
    /\ Register(c, id, conn[c],
                IF conn[c].status # "WAIT_LOGIN" THEN {"AcceptLogin"} ELSE {})
    /\ NextTask(w)

\* A Login task that denies: the connection is finished, and destroyed when
\* it was waiting for this answer.
TaskDenyLogin(w, j) ==
    LET c == wpc[w].c
        waiting == conn[c].status = "WAIT_LOGIN" IN
    /\ Taken(w, "login", j) /\ tasks[c][j].id = 0
    /\ conn' = [conn EXCEPT ![c] = FinishByTask(@)]
    /\ wpc' = [wpc EXCEPT ![w] = IF waiting THEN [@ EXCEPT !.at = "destroy", !.n = -1]
                                            ELSE Return(w)]
    /\ broken' = broken \cup (IF waiting THEN {} ELSE {"ConsumeTask"})
    /\ UNCHANGED <<pmap, cmap, connections>>

\* A Close task (mtk_cid_close).
TaskClose(w, j) ==
    LET c == wpc[w].c IN
    /\ Taken(w, "close", j)
    /\ conn' = [conn EXCEPT ![c] = FinishByTask(@)]
    /\ NextTask(w)
    /\ UNCHANGED <<pmap, cmap, connections, broken>>

\* A task of the application (mtk_cid_task): the handler's result is not
\* looked at, but the handler may call mtk_svconn_close.
TaskHandle(w, j) ==
    LET c == wpc[w].c IN
    /\ Taken(w, "normal", j)
    /\ conn' \in {conn} \cup (IF "closeInTask" \in Uses
                               THEN {[conn EXCEPT ![c] = InternalClose(@)]} ELSE {})
    /\ NextTask(w)
    /\ UNCHANGED <<pmap, cmap, connections, broken>>

\* No task left, or n_process of them done.
TasksDone(w) ==
    /\ wpc[w].at \in {"consume", "destroy"}
    /\ wpc[w].n = 0 \/ tasks[wpc[w].c] = <<>>
    /\ wpc' = [wpc EXCEPT ![w] = Return(w)]
    /\ UNCHANGED <<conn, tasks, connections, dying, cmap, pmap, app, cidOps, client, server, broken>>

\* handler_->Close ... delete this
Closed(r) == [r EXCEPT !.status = "deleted", !.closed = @ + 1]

\* Mutant: the id is left in cmap_.
UnregisterNothing(c) == UNCHANGED <<cmap, app>>

\* Mutant: the id is erased whoever holds it.
UnregisterAnyone(c) == cmap' = [cmap EXCEPT ![conn[c].cid] = NoConn] /\ UNCHANGED app

\* IServer::Unregister: the id is erased when this connection holds it.
Unregister(c) ==
    LET id == conn[c].cid IN
    IF cmap[id] = c
      THEN cmap' = [cmap EXCEPT ![id] = NoConn] /\ app' = Dangle(app, id)
      ELSE UNCHANGED <<cmap, app>>

\* Mutant: the connection stays listed.
StayListed(w, c) == UNCHANGED connections

OnUnregister(w, c) == connections' = [connections EXCEPT ![w] = Without(@, c)]

\* The rest of Destroy.  The tasks left go with the stream (~SVStream).
Finalize(w) ==
    LET c == wpc[w].c IN
    /\ wpc[w].at = "finalize"
    /\ conn' = [conn EXCEPT ![c] = Closed(@)]
    /\ pmap' = IF conn[c].lcid THEN pmap \ {c} ELSE pmap
    /\ Unregister(c)
    /\ OnUnregister(w, c)
    /\ tasks' = [tasks EXCEPT ![c] = <<>>]
    /\ wpc' = [wpc EXCEPT ![w] = [Poll EXCEPT !.at = wpc[w].ret, !.i = wpc[w].i]]
    /\ UNCHANGED <<dying, cidOps, client, server, broken>>

---------------------------------------------------------------------------
(* Application threads *)

Put(c, t, kind, id) ==
    tasks' = IF conn[c].status = "deleted" THEN tasks
               ELSE [tasks EXCEPT ![c] = Enqueue(@, [by |-> t, kind |-> kind, id |-> id])]

\* mtk_cid_close and mtk_cid_task: GetStream finds the id under cmap_mtx_.
CidLookup(t, k, op) ==
    /\ op \in Uses
    /\ app[t].at = "idle" /\ cidOps < MaxCidOps
    /\ cmap[k] # NoConn
    /\ app' = [app EXCEPT ![t] = [Idle EXCEPT !.at = "node", !.key = k, !.op = op]]
    /\ cidOps' = cidOps + 1
    /\ UNCHANGED <<conn, tasks, connections, wpc, dying, cmap, pmap, client, server, broken>>

\* (*it).second->stream_ after the unlock; the handle refers to the stream.
CidDeref(t) ==
    /\ app[t].at \in {"node", "dangling"}
    /\ IF app[t].at = "node"
         THEN /\ app' = [app EXCEPT ![t].at = "handle", ![t].c = cmap[app[t].key]]
              /\ UNCHANGED broken
         ELSE /\ app' = [app EXCEPT ![t] = Idle]
              /\ broken' = broken \cup {"uaf"}
    /\ UNCHANGED <<conn, tasks, connections, wpc, dying, cmap, pmap, cidOps, client, server>>

\* s->Close() or s->AddTask(); a deleted Conn never sees the task.
CidEnqueue(t) ==
    /\ app[t].at = "handle"
    /\ Put(app[t].c, t, IF app[t].op = "close" THEN "close" ELSE "normal", 0)
    /\ app' = [app EXCEPT ![t] = Idle]
    /\ UNCHANGED <<conn, connections, wpc, dying, cmap, pmap, cidOps, client, server, broken>>

\* FinishLogin finds and erases the pending login under pmap_mtx_.
FinishLogin(t, c, id) ==
    /\ app[t].at = "idle" /\ c \in pmap
    /\ pmap' = pmap \ {c}
    /\ app' = [app EXCEPT ![t] = [Idle EXCEPT !.at = "login", !.c = c, !.key = id]]
    /\ UNCHANGED <<conn, tasks, connections, wpc, dying, cmap, cidOps, client, server, broken>>

\* mc->SysTask(Request::Login, a) after the unlock.
FinishLoginTask(t) ==
    /\ app[t].at = "login"
    /\ Put(app[t].c, t, "login", app[t].key)
    /\ app' = [app EXCEPT ![t] = Idle]
    /\ broken' = IF conn[app[t].c].status = "deleted" THEN broken \cup {"uaf"} ELSE broken
    /\ UNCHANGED <<conn, connections, wpc, dying, cmap, pmap, cidOps, client, server>>

---------------------------------------------------------------------------
(* Shutdown *)

\* The application has its server; its workers' threads may not have begun.
MayShutdown ==
    /\ "shutdown" \in Uses
    /\ start \in {"returned", "exclusive"}

\* IServer::Shutdown tells the workers one after the other ...
PrepareShutdown(w) ==
    /\ MayShutdown /\ srv \in {"up", "preparing"} /\ ~dying[w]
    /\ dying' = [dying EXCEPT ![w] = TRUE]
    /\ srv' = "preparing"
    /\ UNCHANGED <<conn, tasks, connections, wpc, cmap, pmap, app, cidOps, client, start, broken>>

\* ... and then calls server_->Shutdown(), which refuses new calls ...
ServerShutdown ==
    /\ srv = "preparing" /\ \A w \in Workers : dying[w]
    /\ srv' = "shutting"
    /\ UNCHANGED <<conn, tasks, connections, wpc, dying, cmap, pmap, app, cidOps, client, start, broken>>

\* The client has gone, or the Finish of the call has completed.
CallOver(c) ==
    \/ client[c] # "open"
    \/ /\ conn[c].finishes > 0 /\ conn[c].closers = 0
       /\ "finish" \notin conn[c].ops

\* ... and ends when all calls are over: Kick shuts the queues down.
CallsOver ==
    /\ srv = "shutting" /\ \A c \in Conns : CallOver(c)
    /\ srv' = "draining"
    /\ UNCHANGED <<conn, tasks, connections, wpc, dying, cmap, pmap, app, cidOps, client, start, broken>>

\* AsyncNext returns SHUTDOWN once the queue is empty.
ShutdownEvent(w) ==
    /\ srv = "draining" /\ wpc[w].at = "poll"
    /\ \A c \in Conns : WorkerOf[c] = w => conn[c].ops = {} /\ conn[c].closers = 0
    /\ wpc' = [wpc EXCEPT ![w] = [Poll EXCEPT !.at = "final", !.i = 1]]
    /\ UNCHANGED <<conn, tasks, connections, dying, cmap, pmap, app, cidOps, client, server, broken>>

\* The last loop of Run destroys what is left in connections_.
FinalConn(w) ==
    LET i == wpc[w].i IN
    /\ wpc[w].at = "final"
    /\ IF i <= Len(connections[w])
         THEN Destroy(w, connections[w][i], conn[connections[w][i]], i + 1, "final")
         ELSE wpc' = [wpc EXCEPT ![w] = [Poll EXCEPT !.at = "done"]] /\ UNCHANGED <<conn, broken>>
    /\ UNCHANGED <<tasks, connections, dying, cmap, pmap, app, cidOps, client, server>>

\* Kick joins the workers and returns.
Joined ==
    /\ srv = "draining" /\ \A w \in Workers : wpc[w].at = "done"
    /\ srv' = "down"
    /\ UNCHANGED <<conn, tasks, connections, wpc, dying, cmap, pmap, app, cidOps, client, start, broken>>

\* mtk_server_join: it has shut the server down (one that failed to start has
\* nothing to shut down but its workers), joins and deletes it.
Join ==
    /\ MayShutdown /\ srv \in {"down", "failed"} /\ \A t \in Threads : app[t] = Idle
    /\ srv' = "deleted"
    /\ dying' = [w \in Workers |-> TRUE]
    /\ broken' = broken \cup (IF \A w \in Workers : wpc[w].at \in {"done", "unlaunched"} THEN {} ELSE {"uaf"})
    /\ UNCHANGED <<conn, tasks, connections, wpc, cmap, pmap, app, cidOps, client, start>>

---------------------------------------------------------------------------
ClientGone(c) ==
    /\ client[c] = "open"
    /\ client' = [client EXCEPT ![c] = "gone"]
    /\ UNCHANGED <<conn, tasks, connections, wpc, dying, cmap, pmap, app, cidOps, server, broken>>

\* The client's first message, whatever the acceptor does with it.
Login(c) == (\E id \in Ids : StepLogin(c, id)) \/ StepRefuse(c) \/ StepDefer(c)

\* A message of the client in state READ.
Request(c) == \E tag \in {"read", "finish"} : StepHandle(c, tag) \/ StepHandleClose(c, tag)

\* An event that ends a connection or a closer.
Ending(c) ==
    \/ \E tag \in {"read", "finish"} : StepClose(c, tag)
    \/ ReadFail(c) \/ CloserDone(c) \/ AcceptFail(c)

\* A step of a worker inside its loop.
Inside(w) ==
    \/ LoopConn(w) \/ TasksDone(w) \/ Finalize(w) \/ FinalConn(w)
    \/ wpc[w].c \in Conns /\ \E j \in Heads(tasks[wpc[w].c]) :
           TaskAcceptLogin(w, j) \/ TaskDenyLogin(w, j) \/ TaskClose(w, j) \/ TaskHandle(w, j)

\* The second half of an application thread's call.
AppStep(t) == CidDeref(t) \/ CidEnqueue(t) \/ FinishLoginTask(t)

\* A step of mtk_listen or of Kick before the server waits.
Starting ==
    \/ Run \/ BuildAndStart \/ StartWaits \/ Notify
    \/ \E w \in Workers : Launch(w) \/ New(w)

Next ==
    \/ Starting
    \/ \E c \in Conns : CallArrives(c) \/ Accept(c) \/ StepClientClose(c) \/ Login(c) \/ Request(c)
                           \/ Ending(c) \/ ClientGone(c)
    \/ \E w \in Workers : Timeout(w) \/ Inside(w) \/ PrepareShutdown(w) \/ ShutdownEvent(w)
    \/ \E t \in Threads, k \in Ids, op \in {"close", "task"} : CidLookup(t, k, op)
    \/ \E t \in Threads, c \in Conns, id \in Ids : FinishLogin(t, c, id)
    \/ \E t \in Threads : AppStep(t)
    \/ ServerShutdown \/ CallsOver \/ Joined \/ Join

\* Worker threads run; a completion queue is FIFO, so an event that keeps
\* being ready is taken; the thread in Shutdown and Kick runs; a call an
\* application thread began it ends.
Fairness ==
    /\ \A w \in Workers : WF_vars(Inside(w)) /\ SF_vars(Timeout(w)) /\ WF_vars(ShutdownEvent(w))
                            /\ WF_vars(srv = "preparing" /\ PrepareShutdown(w))
    /\ \A c \in Conns : SF_vars(Accept(c) \/ Ending(c))
    /\ \A t \in Threads : WF_vars(AppStep(t))
    /\ WF_vars(ServerShutdown) /\ WF_vars(CallsOver) /\ WF_vars(Joined) /\ WF_vars(Join)
    /\ WF_vars(Run) /\ WF_vars(BuildAndStart) /\ WF_vars(StartWaits) /\ WF_vars(Notify)
    /\ \A w \in Workers : WF_vars(Launch(w)) /\ WF_vars(New(w))

\* A client sends its Connect request as soon as its stream is open (the
\* RPCStream client does), unless it goes away.
ClientsLogIn == \A c \in Conns : SF_vars(Login(c))

Safety == Init /\ [][Next]_vars

Spec == Safety /\ Fairness

SpecClientsLogIn == Spec /\ ClientsLogIn

---------------------------------------------------------------------------
(* Properties *)

Live(c) == conn[c].status \notin {"none", "deleted"}

\* connections_, without deleted or repeated entries
ListedLive ==
    \A w \in Workers, i, j \in 1..Cardinality(Conns) :
        i <= Len(connections[w]) =>
            /\ Live(connections[w][i]) /\ WorkerOf[connections[w][i]] = w
            /\ j < i => connections[w][i] # connections[w][j]

\* Whatever cmap_ and pmap_ find is a live connection that still carries the
\* id, although connections with the same id replace each other and
\* connections are deleted by several workers.  connections_ lists each once,
\* on its own worker, while it is alive: the worker's loop never steps a
\* deleted one.
MapsLive ==
    /\ ListedLive
    /\ \A k \in Ids : cmap[k] # NoConn => Live(cmap[k]) /\ conn[cmap[k]].cid = k
    /\ \A c \in pmap : Live(c) /\ conn[c].lcid

\* Unless it waits for its login a connection has exactly one operation in
\* flight, whose completion is its next step.
OneOperation ==
    \A c \in Conns :
        Live(c) /\ wpc[WorkerOf[c]].c # c =>
            IF conn[c].status = "WAIT_LOGIN"
              THEN conn[c].ops = {} /\ Listed(c, connections[WorkerOf[c]])
              ELSE Cardinality(conn[c].ops) = 1

\* Nothing in gRPC refers to a deleted connection: a completion is never
\* stepped with a dangling tag; and no live connection is left without one.
NoDanglingTag ==
    OneOperation /\ \A c \in Conns : conn[c].status = "deleted" => conn[c].ops = {}

\* The assertions of conn.h, conn.cpp and worker.cpp hold.
AssertionsHold == broken \subseteq {"uaf"}

\* No thread uses a connection or a map node that has been deleted and, once
\* mtk_listen has returned, the application no queue of events that is not
\* there yet.
NoUseAfterFree == "uaf" \notin broken /\ (start = "returned" => srv # "run")

\* "wait until all RPC processed" (server.cpp:16): once the queues have been
\* shut down no worker starts an operation on its own.  A known disagreement: a
\* call is over for gRPC as soon as its client has gone, and its worker, which
\* has not heard of it, may still accept it, finish it or wait for the next one.
NoWorkOnShutQueue ==
    [][srv = "draining" => \A c \in Conns :
          conn'[c].ops \subseteq conn[c].ops /\ conn'[c].finishes = conn[c].finishes]_vars

\* When a worker's queue is shut down connections_ is empty, so the last
\* loop of Run (whose index skips elements while Destroy erases them) never
\* leaves a connection behind; and when Run returns, and with it the handler
\* it made goes, no connection is left that refers to it.  On the way each call
\* was finished at most once and not read from afterwards, as gRPC demands, and
\* the handler's Close was called exactly once for each connection that had a
\* client and is gone.
NothingLeft ==
    /\ \A c \in Conns :
          /\ conn[c].finishes <= 1 /\ ~conn[c].lateRead
          /\ conn[c].closed = IF conn[c].status = "deleted" /\ client[c] # "idle" THEN 1 ELSE 0
    /\ \A w \in Workers : wpc[w].at \in {"final", "done"} => connections[w] = <<>>
    /\ srv \in {"down", "failed", "deleted"} =>
          pmap = {} /\ (\A k \in Ids : cmap[k] = NoConn) /\ ~\E c \in Conns : Live(c)

\* A connection whose login was denied is not served: no connection in state
\* READ has id 0.
DeniedNotServed == \A c \in Conns : conn[c].status = "READ" => conn[c].cid # 0

\* An id leaves cmap_ only when the connection that holds it is deleted: the
\* end of an older connection with the same id does not unregister a newer one.
NewerSurvives ==
    [][\A k \in Ids : cmap[k] # NoConn /\ cmap'[k] = NoConn
          => conn'[cmap[k]].status = "deleted"]_vars

\* A logged-in connection whose client has gone is eventually deleted.
GoneDeleted ==
    \A c \in Conns : (client[c] = "gone" /\ conn[c].status = "READ")
                        ~> (conn[c].status = "deleted")

\* mtk_listen returns, whether the server could be started or not; a server
\* that failed to start is deleted, and a shutdown, once begun, ends: all
\* workers leave Run, Kick returns, and mtk_server_join deletes the server.
ShutdownEnds ==
    []<>(start \in {"returned", "exclusive"} /\ srv \in {"up", "deleted"})
===========================================================================
