------------------------------ MODULE Exchange ------------------------------
(***************************************************************************)
(* One client and the connections it makes to one server, field by field:  *)
(* what the two applications hand to mtk, the messages built from it, the  *)
(* fields on the stream, and what comes out of the callbacks.  The life of  *)
(* the objects and the threads are modules RPCStream, Conn and SVStream;   *)
(* here each of their steps is one action.  A stream delivers in order and *)
(* may end at any time (external: gRPC).  The server's application has its *)
(* handlers called, or (use_queue) takes events from a queue in a thread   *)
(* of its own and answers by the ids they carry, whenever it gets to it.   *)
(***************************************************************************)
EXTENDS Messages

CONSTANTS
    Starts,       \* what on_start gives: an id and a payload
    Cids,         \* what the acceptor returns, or mtk_svconn_finish_login is given
    Sends,        \* the calls in their order: a type and a payload each
    Pushes,       \* the same for notifies and tasks
    Payloads,     \* what goes with an answer
    MaxOpen,      \* bound on streams
    MaxPushes,    \* bound on notifies and tasks
    MaxHeld       \* bound on events popped and not yet dealt with

ASSUME CidsAssumption == 0 \notin Cids
ASSUME PayloadsAssumption == \A p \in Payloads : \A k \in 1..Len(p) : p[k].size = 1

MTK_APPLICATION_ERROR == -1
MTK_ACCEPT_DENY == -3

VARIABLES
    status,       \* status_ of RPCStream; "FIN" once Finalize was called
    msgid_seed,   \* msgid_seed_
    reqmap,       \* reqmap_: message id -> "open" (StartWrite's callback) or "call"
    crep, cid,    \* crep_ and cid_ of Client
    up, down,     \* the Requests and Replys on the stream
    conn,         \* status_, req_, cid_ and lcid_ of the Conn at the other end
    tasks,        \* tasks_ of its SVStream
    use_queue,    \* conf_.use_queue of Server
    events, held, \* the events in queue_, and those the application has popped
                  \* and not yet dealt with, in whatever threads it has
    opened, called, pushed,  \* streams, calls, and notifies and tasks, so far
    said, heard,  \* what the client's application sent on this stream, and what
                  \* the server's handlers were called with
    tasked, ran,  \* the same for the tasks
    noted, watched, \* the same for the notifies
    given, got,   \* stream and message id -> the server's answer, and what its
                  \* callback got
    greeted       \* and what on_connect got

client == <<status, msgid_seed, reqmap, crep, cid>>
stream == <<up, down>>
queue == <<use_queue, events, held>>
server == <<conn, tasks, queue>>
ghosts == <<opened, called, pushed, said, heard, tasked, ran, noted, watched, given, got, greeted>>
vars == <<client, stream, server, ghosts>>

NewConn == [status |-> "LOGIN", req |-> NewRequest, cid |-> 0, lcid |-> 0]
NoConn == [NewConn EXCEPT !.status = "CLOSE"]

\* mtk_svevent_t, with the number of the stream it comes from and whether it
\* was a task.  Nobody can see the last two.
Event(lcid, c, msgid, result, data, task) ==
  [lcid |-> lcid, cid |-> c, msgid |-> msgid, result |-> result, data |-> data,
   stream |-> opened, task |-> task]

Init ==
  /\ status = "DISCONNECT" /\ msgid_seed = 0 /\ reqmap = <<>>
  /\ crep = NewConnect /\ cid = 0
  /\ up = <<>> /\ down = <<>>
  /\ conn = NoConn /\ tasks = <<>>
  /\ use_queue \in BOOLEAN /\ events = <<>> /\ held = {}
  /\ opened = 0 /\ called = 0 /\ pushed = 0
  /\ said = <<>> /\ heard = <<>> /\ tasked = <<>> /\ ran = <<>> /\ noted = <<>> /\ watched = <<>>
  /\ given = <<>> /\ got = <<>> /\ greeted = <<>>

-----------------------------------------------------------------------------
(* The client *)

\* Call(Request *): the next message id, and an entry for the answer.
Call(req, entry) ==
  /\ msgid_seed' = msgid_seed + 1
  /\ reqmap' = msgid_seed' :> entry @@ reqmap
  /\ \E m \in {[req EXCEPT !.msgid = msgid_seed']} :
       up' = Append(up, Pack(RequestSerialize(m), RequestByteSizeLong(m)))

\* AddPayload
AddPayload(id, p) == ConnectSet(NewConnect, id, p)

\* Update after an ESTABLISHED_EVENT: StartWrite, Call(Connect).  The packed
\* Connect is the payload of a Request.  At the other end is a new Conn.
StartWrite ==
  /\ status = "DISCONNECT" /\ opened < MaxOpen
  /\ status' = "INITIALIZING" /\ opened' = opened + 1
  /\ conn' = NewConn
  /\ \E <<id, p>> \in Starts :
       /\ \E spl \in {AddPayload(id, p)} :
            Call([NewRequest EXCEPT !.kind = Connect,
                                    !.payload = Pack(ConnectSerialize(spl), ConnectByteSizeLong(spl))],
                 "open")
       /\ said' = << <<"login", id, p>> >>
  /\ heard' = <<>> /\ tasked' = <<>> /\ ran' = <<>>
  /\ UNCHANGED <<crep, cid, down, tasks, queue, called, pushed, noted, watched, given, got, greeted>>

\* mtk_conn_send: as soon as Connect is on its way, accepted or not.
mtk_conn_send ==
  /\ status \in {"INITIALIZING", "CONNECT"} /\ called < Len(Sends) /\ called' = called + 1
  /\ \E <<type, p>> \in {Sends[called']} :
       /\ Call([NewRequest EXCEPT !.type = type, !.payload = p], "call")
       /\ said' = Append(said, <<"msg", type, p>>)
  /\ UNCHANGED <<status, crep, cid, down, server, opened, pushed, heard, tasked, ran, noted, watched,
                 given, got, greeted>>

\* Finalize, SendShutdownRequest: the last request, without a message id.
Finalize ==
  /\ status \in {"INITIALIZING", "CONNECT"}
  /\ status' = "FIN"
  /\ \E m \in {[NewRequest EXCEPT !.kind = Close]} :
       up' = Append(up, Pack(RequestSerialize(m), RequestByteSizeLong(m)))
  /\ UNCHANGED <<msgid_seed, reqmap, crep, cid, down, server, ghosts>>

\* Destroy of a Conn with a peer: handler_->Close, which is _OnClose with a queue.
Closed ==
  events' = IF use_queue /\ conn.status # "CLOSE"
            THEN Append(events, Event(0, conn.cid, 0, 0, <<>>, FALSE)) ELSE events

\* Mutant: the ids start anew with each stream.
DisconnectAnew ==
  /\ status \notin {"DISCONNECT", "FIN"}
  /\ status' = "DISCONNECT" /\ reqmap' = <<>> /\ msgid_seed' = 0
  /\ up' = <<>> /\ down' = <<>> /\ Closed /\ conn' = NoConn /\ tasks' = <<>>
  /\ noted' = <<>> /\ watched' = <<>> /\ given' = <<>> /\ got' = <<>> /\ greeted' = <<>>
  /\ UNCHANGED <<crep, cid, use_queue, held, opened, called, pushed, said, heard, tasked, ran>>

\* DISCONNECT_EVENT, whether the stream has failed or the Connect was
\* denied: DrainQueue.  The Conn goes with the stream.
Disconnect ==
  /\ status \notin {"DISCONNECT", "FIN"}
  /\ status' = "DISCONNECT" /\ reqmap' = <<>>
  /\ up' = <<>> /\ down' = <<>> /\ Closed /\ conn' = NoConn /\ tasks' = <<>>
  /\ noted' = <<>> /\ watched' = <<>> /\ given' = <<>> /\ got' = <<>> /\ greeted' = <<>>
  /\ UNCHANGED <<msgid_seed, crep, cid, use_queue, held, opened, called, pushed, said, heard, tasked, ran>>

\* OnOpenStream: Unpack merges into crep_, which is never cleared.
OnOpenStream(rep) == Unpack(rep.payload, crep, ConnectField)

\* An answer to the Connect: StartWrite's callback.
Opened(rep) ==
  /\ reqmap[rep.msgid] = "open" /\ ~has_error(rep)
  /\ \E u \in {OnOpenStream(rep)} :
       /\ u.ok /\ crep' = u.m /\ cid' = u.m.id
       /\ greeted' = <<opened, rep.msgid>> :> [r |-> u.m.id, payload |-> u.m.payload] @@ greeted
  /\ status' = "CONNECT"
  /\ UNCHANGED got

\* SEntry::Respond with an error, or with the reply to a call
Respond(rep) ==
  /\ has_error(rep) \/ reqmap[rep.msgid] = "call"
  /\ got' = <<opened, rep.msgid>> :>
              [r |-> IF has_error(rep) THEN rep.error.error_code ELSE rep.type,
               payload |-> IF has_error(rep) THEN rep.error.payload ELSE rep.payload] @@ got
  /\ UNCHANGED <<status, crep, cid, greeted>>

\* ProcessReply: a notify, an answer to what is in reqmap_, or "msgid not found"
ProcessReply ==
  /\ status \in {"INITIALIZING", "CONNECT"} /\ down # <<>>
  /\ down' = Tail(down)
  /\ \E rep \in {Parse(NewReply, ReplyField, Head(down))} :
        \/ /\ rep.msgid = 0
           /\ watched' = Append(watched, <<rep.type, rep.payload>>)
           /\ UNCHANGED <<client, got, greeted>>
        \/ /\ rep.msgid \in DOMAIN reqmap
           /\ Opened(rep) \/ Respond(rep)
           /\ reqmap' = [m \in DOMAIN reqmap \ {rep.msgid} |-> reqmap[m]]
           /\ UNCHANGED <<msgid_seed, watched>>
        \/ /\ rep.msgid \notin DOMAIN reqmap \cup {0}
           /\ UNCHANGED <<client, watched, got, greeted>>
  /\ UNCHANGED <<up, server, opened, called, pushed, said, heard, tasked, ran, noted, given>>

-----------------------------------------------------------------------------
(* The server *)

\* SVStream::Send, Write
Send(r) == \E rep \in {r} : down' = Append(down, Pack(ReplySerialize(rep), ReplyByteSizeLong(rep)))

\* SetupPayload, SetupReply: an application's bytes are not packed.
SetupPayload(rep, p) == [rep EXCEPT !.payload = p]
SetupReply(msgid, p) == [SetupPayload(NewReply, p) EXCEPT !.msgid = msgid]

\* SysRep, SetupSystemReply
SysRep(msgid, w) ==
  \E sysrep \in {w} :
    Send([NewReply EXCEPT !.msgid = msgid,
                          !.payload = Pack(ConnectSerialize(sysrep), ConnectByteSizeLong(sysrep))])

\* Throw, SetupThrow
Throw(msgid, e) ==
  Send(set_allocated_error([NewReply EXCEPT !.msgid = msgid], e))

\* The application's answer to a message; the first one is the one that counts.
Gives(s, msgid, r, p) == given' = given @@ (<<s, msgid>> :> [r |-> r, payload |-> p])

\* What a Read leaves in req_: the same object, cleared first.
Read == IF up = <<>> THEN {} ELSE {Parse(RequestClear(conn.req), RequestField, Head(up))}

\* DeferLogin: the stream's number serves for the next login_cid_seed_.
DeferLogin(req) == conn' = [conn EXCEPT !.req = req, !.status = "WAIT_LOGIN", !.lcid = opened]

\* Login: the acceptor accepts, denies or defers.  A denied connection is
\* registered under 0, and read from all the same.
ConnLogin(req) ==
  \/ /\ \E c \in Cids, p \in Payloads :
          /\ Gives(opened, req.msgid, c, p)
          /\ SysRep(req.msgid, ConnectSet(NewConnect, c, p))
          /\ conn' = [conn EXCEPT !.req = req, !.status = "READ", !.cid = c]
  \/ /\ \E p \in Payloads :
          /\ Gives(opened, req.msgid, MTK_ACCEPT_DENY, p)
          /\ Throw(req.msgid, ErrorSet(MTK_ACCEPT_DENY, p))
     /\ conn' = [conn EXCEPT !.req = req, !.status = "READ"]
  \/ DeferLogin(req) /\ UNCHANGED <<down, given>>

\* _OnAccept: the login is deferred and an event takes its place.
OnAcceptEvent(req, creq) ==
  /\ DeferLogin(req)
  /\ events' = Append(events, Event(opened, creq.id, req.msgid, 0, creq.payload, FALSE))

\* Step in state LOGIN: FunctionHandler::Login unpacks the Connect.
StepLogin ==
  /\ conn.status = "LOGIN"
  /\ \E req \in Read :
       /\ req.kind # Close
       /\ up' = Tail(up)
       /\ \E creq \in {Unpack(req.payload, NewConnect, ConnectField).m} :
            \/ /\ ~use_queue /\ ConnLogin(req)
               /\ heard' = Append(heard, <<"login", creq.id, creq.payload>>)
               /\ UNCHANGED events
            \/ /\ use_queue /\ OnAcceptEvent(req, creq)
               /\ UNCHANGED <<down, given, heard>>
  /\ UNCHANGED <<client, tasks, use_queue, held, opened, called, pushed, said, tasked, ran, noted, watched,
                 got, greeted>>

\* _OnRecv, for a message and for a task: the message id is that of req_.
OnRecvEvent(c, type, p, task) ==
  events' = Append(events, Event(0, c.cid, c.req.msgid, type, p, task))

\* Step in state READ: FunctionHandler::Handle
StepRead ==
  /\ conn.status = "READ"
  /\ \E req \in Read :
       /\ req.kind # Close
       /\ up' = Tail(up)
       /\ conn' = [conn EXCEPT !.req = req]
       /\ \/ /\ ~use_queue
             /\ heard' = Append(heard, <<"msg", req.type, req.payload>>)
             /\ UNCHANGED events
          \/ /\ use_queue
             /\ OnRecvEvent(conn', req.type, req.payload, FALSE)
             /\ UNCHANGED heard
  /\ UNCHANGED <<client, down, tasks, use_queue, held, opened, called, pushed, said, tasked, ran, noted, watched,
                 given, got, greeted>>

\* Step: "app closed by Client shutdown"
StepClose ==
  /\ conn.status \in {"LOGIN", "READ"}
  /\ \E req \in Read :
       /\ req.kind = Close
       /\ up' = Tail(up)
       /\ conn' = [conn EXCEPT !.req = req, !.status = "CLOSE"]
  /\ Closed
  /\ UNCHANGED <<client, down, tasks, use_queue, held, ghosts>>

\* mtk_svconn_send and mtk_svconn_error, for the message read last
\* (mtk_svconn_msgid)
Answer ==
  /\ ~use_queue
  /\ conn.status = "READ" /\ conn.req.kind = Normal /\ <<opened, conn.req.msgid>> \notin DOMAIN given
  /\ \E p \in Payloads :
       \/ /\ Send(SetupReply(conn.req.msgid, p))
          /\ Gives(opened, conn.req.msgid, 0, p)
       \/ /\ Throw(conn.req.msgid, ErrorSet(MTK_APPLICATION_ERROR, p))
          /\ Gives(opened, conn.req.msgid, MTK_APPLICATION_ERROR, p)
  /\ UNCHANGED <<client, up, server, opened, called, pushed, said, heard, tasked, ran, noted, watched, got, greeted>>

\* mtk_svconn_notify, mtk_cid_notify: SetupNotify
Notify ==
  /\ conn.status = "READ" /\ pushed < MaxPushes /\ pushed' = pushed + 1
  /\ \E <<type, p>> \in Pushes :
       /\ Send([SetupPayload(NewReply, p) EXCEPT !.type = type])
       /\ noted' = Append(noted, <<type, p>>)
  /\ UNCHANGED <<client, up, server, opened, called, said, heard, tasked, ran, watched, given, got, greeted>>

\* SetupRequest
SetupRequest(type, p) == [NewRequest EXCEPT !.type = type, !.payload = p]

\* mtk_svconn_task, mtk_cid_task
AddTask ==
  /\ conn.status = "READ" /\ pushed < MaxPushes /\ pushed' = pushed + 1
  /\ \E <<type, p>> \in Pushes :
       /\ tasks' = Append(tasks, SetupRequest(type, p))
       /\ tasked' = Append(tasked, <<type, p>>)
  /\ UNCHANGED <<client, stream, conn, queue, opened, called, said, heard, ran, noted, watched, given, got, greeted>>

\* SetupSysTask with a Login; the Close of mtk_cid_close has no fields
SysTask(kind, payload) == tasks' = Append(tasks, [NewRequest EXCEPT !.kind = kind, !.payload = payload])

\* FinishLogin: cid 0 denies.  The pending entry goes; without one nothing happens.
FinishLogin(lcid, c, msgid, p) ==
  IF conn.status = "WAIT_LOGIN" /\ conn.lcid = lcid
  THEN /\ \E a \in {LoginSet(lcid, c, msgid, p)} :
            SysTask(Login, Pack(LoginSerialize(a), LoginByteSizeLong(a)))
       /\ Gives(opened, msgid, IF c = 0 THEN MTK_ACCEPT_DENY ELSE c, p)
       /\ conn' = [conn EXCEPT !.lcid = 0]
  ELSE UNCHANGED <<tasks, given, conn>>

\* mtk_svconn_finish_login, of the login that was deferred by the acceptor
mtk_svconn_finish_login ==
  /\ ~use_queue /\ conn.status = "WAIT_LOGIN"
  /\ \E c \in Cids \cup {0}, p \in Payloads : FinishLogin(opened, c, conn.req.msgid, p)
  /\ UNCHANGED <<client, stream, queue, opened, called, pushed, said, heard, tasked, ran, noted, watched, got, greeted>>

\* mtk_cid_close
mtk_cid_close ==
  /\ conn.status = "READ" /\ \A k \in 1..Len(tasks) : tasks[k].kind # Close
  /\ SysTask(Close, Pack(<<>>, 0))
  /\ UNCHANGED <<client, stream, conn, queue, ghosts>>

\* Mutant: the reply is built before the id is set.
AcceptLoginEarly(a) ==
  IF a.id = 0
  THEN /\ Throw(a.msgid, ErrorSet(MTK_ACCEPT_DENY, a.payload))
       /\ conn' = [conn EXCEPT !.status = "CLOSE"] /\ Closed
  ELSE /\ SysRep(a.msgid, ConnectSet(NewConnect, conn.cid, a.payload))
       /\ conn' = [conn EXCEPT !.status = "READ", !.cid = a.id] /\ UNCHANGED events

\* AcceptLogin
AcceptLogin(a) ==
  IF a.id = 0
  THEN /\ Throw(a.msgid, ErrorSet(MTK_ACCEPT_DENY, a.payload))
       /\ conn' = [conn EXCEPT !.status = "CLOSE"] /\ Closed
  ELSE /\ SysRep(a.msgid, ConnectSet(NewConnect, a.id, a.payload))
       /\ conn' = [conn EXCEPT !.status = "READ", !.cid = a.id] /\ UNCHANGED events

\* ConsumeTask, one task
ConsumeTask ==
  /\ conn.status \in {"READ", "WAIT_LOGIN"} /\ tasks # <<>>
  /\ tasks' = Tail(tasks)
  /\ \E t \in {Head(tasks)} :
        \/ /\ t.kind = Login
           /\ \E lreq \in {Unpack(t.payload, NewLogin, LoginField).m} : AcceptLogin(lreq)
           /\ UNCHANGED ran
        \/ /\ t.kind = Close
           /\ conn' = [conn EXCEPT !.status = "CLOSE"] /\ Closed
           /\ UNCHANGED <<down, ran>>
        \/ /\ t.kind = Normal /\ ~use_queue
           /\ ran' = Append(ran, <<t.type, t.payload>>)
           /\ UNCHANGED <<conn, down, events>>
        \/ /\ t.kind = Normal /\ use_queue
           /\ OnRecvEvent(conn, t.type, t.payload, TRUE)
           /\ UNCHANGED <<conn, down, ran>>
  /\ UNCHANGED <<client, up, use_queue, held, opened, called, pushed, said, heard, tasked, noted, watched, given, got, greeted>>

-----------------------------------------------------------------------------
(* The application of a server with a queue *)

\* mtk_queue_pop
mtk_queue_pop ==
  /\ events # <<>> /\ Cardinality(held) < MaxHeld
  /\ \E e \in {Head(events)} :
       /\ held' = held \cup {e} /\ events' = Tail(events)
       /\ heard' = IF e.stream # opened \/ e.task \/ e.msgid = 0 THEN heard
                   ELSE Append(heard, <<IF e.lcid # 0 THEN "login" ELSE "msg",
                                        IF e.lcid # 0 THEN e.cid ELSE e.result, e.data>>)
       /\ ran' = IF e.stream = opened /\ e.task THEN Append(ran, <<e.result, e.data>>) ELSE ran
  /\ UNCHANGED <<client, stream, conn, tasks, use_queue, opened, called, pushed, said, tasked, noted, watched,
                 given, got, greeted>>

\* mtk_cid_send or mtk_cid_error to the event's cid, if it is connected
ReplyTo(e) ==
  \E p \in Payloads :
    IF conn.status = "READ" /\ conn.cid = e.cid
    THEN \/ /\ Send(SetupReply(e.msgid, p))
            /\ Gives(e.stream, e.msgid, 0, p)
         \/ /\ Throw(e.msgid, ErrorSet(MTK_APPLICATION_ERROR, p))
            /\ Gives(e.stream, e.msgid, MTK_APPLICATION_ERROR, p)
    ELSE UNCHANGED <<down, given>>

\* An event is dealt with, and given back with mtk_queue_elem_free.  A login
\* is finished and a message is answered; a task, which the application knows
\* by its type, and a close are not.
HandleEvent ==
  /\ \E e \in held :
       /\ held' = held \ {e}
       /\ \/ /\ e.lcid # 0
             /\ \E c \in Cids \cup {0}, p \in Payloads : FinishLogin(e.lcid, c, e.msgid, p)
             /\ UNCHANGED down
          \/ /\ e.lcid = 0 /\ e.msgid # 0 /\ ~e.task
             /\ ReplyTo(e)
             /\ UNCHANGED <<conn, tasks>>
          \/ /\ e.lcid = 0 /\ (e.msgid = 0 \/ e.task)
             /\ UNCHANGED <<conn, tasks, down, given>>
  /\ UNCHANGED <<client, up, use_queue, events, opened, called, pushed, said, heard, tasked, ran, noted, watched,
                 got, greeted>>

-----------------------------------------------------------------------------
Next ==
  \/ StartWrite \/ mtk_conn_send \/ Finalize \/ Disconnect \/ ProcessReply
  \/ StepLogin \/ StepRead \/ StepClose \/ Answer \/ Notify \/ AddTask
  \/ mtk_svconn_finish_login \/ mtk_cid_close \/ ConsumeTask
  \/ mtk_queue_pop \/ HandleEvent

Spec == Init /\ [][Next]_vars

-----------------------------------------------------------------------------
(* Properties *)

\* The server's acceptor and handlers, or the application that pops events,
\* get exactly what the client's application sent, in its order, although
\* req_ is one object for all reads and defaults are not on the wire; its
\* tasks come back likewise, and nothing of a connection comes after the
\* event of its close.
ServerHears ==
  /\ IsPrefix(heard, said) /\ IsPrefix(ran, tasked)
  /\ \A i, j \in 1..Len(events) :
       i < j /\ events[i].stream = events[j].stream => events[i].msgid # 0

\* A call's callback gets the very answer the server gave for that call, a
\* reply as a reply and an error with its negative code, and never one that
\* was meant for a call of an earlier stream of the same cid; the notifier
\* gets the notifies in order.
ClientHears ==
  /\ IsPrefix(watched, noted)
  /\ \A m \in DOMAIN got : m \in DOMAIN given /\ got[m] = given[m]

\* on_connect gets the id that the server gave in this very login, answered
\* at once or deferred, on this stream and not an earlier one, and the
\* payload if the server gave one (mtk.cpp:185-194, conn.cpp:157-176).
ConnectHears ==
  \A m \in DOMAIN greeted :
    /\ m \in DOMAIN given /\ greeted[m].r = given[m].r
    /\ given[m].payload # <<>> => greeted[m].payload = given[m].payload

\* Known disagreement, no run checks it: it gets just what the server gave.
\* An answer without a payload comes with that of an earlier login, since
\* Unpack merges into crep_, which is never cleared (mtk.cpp:167, 189).
ConnectHearsExactly ==
  \A m \in DOMAIN greeted : m \in DOMAIN given /\ greeted[m] = given[m]

\* Fields of a class, each once and in the order of their numbers.
Intact(s, numbers) ==
  /\ \A k \in 1..Len(s) : \E f \in DOMAIN numbers : numbers[f] = s[k].tag \div 8
  /\ \A k \in 2..Len(s) : s[k - 1].tag < s[k].tag

\* Parsing s onto an object m that already has fields merges: a field that s
\* does not carry keeps its old value, one it carries replaces it, and a
\* copy, which clears first, has only what s carries.
Merges(s, m, new, Field(_, _), MergeImpl(_, _), CopyFrom(_, _)) ==
  \E n \in {Parse(new, Field, s)} :
    /\ Parse(m, Field, s) = MergeImpl(m, n)
    /\ CopyFrom(m, n) = n

\* Every message on the stream, every error inside one and every packed
\* payload fills its buffer exactly, with fields its reader's class knows,
\* each once and in the order of their numbers: no byte is lost to a size
\* computed too small, none is sent that was never written.  What Unpack
\* leaves in an object that was used before is the merge of the two.  (A Ping
\* of what is at hand stands for the Pings nobody sends.)
Readable ==
  /\ \A k \in 1..Len(up) :
       /\ Intact(up[k], RequestFields)
       /\ Merges(up[k], conn.req, NewRequest, RequestField, RequestMergeImpl, RequestCopyFrom)
  /\ \A k \in 1..Len(down) :
       /\ Intact(down[k], ReplyFields)
       /\ \A n \in 1..Len(down[k]) : down[k][n].tag = 26 => Intact(down[k][n].v, ErrorFields)
       /\ \E r \in {Parse(NewReply, ReplyField, down[1])} :
            /\ Merges(down[k], r, NewReply, ReplyField, ReplyMergeImpl, ReplyCopyFrom)
            /\ ErrorCopyFrom(mutable_error(r), NewError) = NewError
  /\ \A k \in 1..Len(tasks) : tasks[k].kind = Login =>
       /\ Intact(tasks[k].payload, LoginFields)
       /\ Merges(tasks[k].payload, LoginSet(1, 1, 1, <<>>), NewLogin, LoginField, LoginMergeImpl, LoginCopyFrom)
  /\ conn.req.kind = Connect =>
       /\ Intact(conn.req.payload, ConnectFields)
       /\ Merges(conn.req.payload, crep, NewConnect, ConnectField, ConnectMergeImpl, ConnectCopyFrom)
       /\ \E ping \in {PingSet(msgid_seed, conn.req.payload)} :
          \E s \in {Pack(PingSerialize(ping), PingByteSizeLong(ping))} :
            /\ Intact(s, PingFields)
            /\ Merges(s, PingSet(1, <<>>), NewPing, PingField, PingMergeImpl, PingCopyFrom)
=============================================================================
