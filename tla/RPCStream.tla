----------------------------- MODULE RPCStream -----------------------------
(***************************************************************************)
(* The client: class RPCStream, whose Update an application thread polls,  *)
(* class IOThread, which owns the gRPC stream, and the threads that call   *)
(* mtk_conn_send.  They meet in two lock-free queues, requests_ and        *)
(* replys_, and in reqmap_ (under reqmtx_).                                *)
(*                                                                         *)
(* Update is cut at every access to state another thread writes: one       *)
(* reply, the three parts of DrainQueue, the switch, ProcessTimeout.  An   *)
(* event of the IO thread is one action: what it shares is touched once.   *)
(*                                                                         *)
(* gRPC and the server are external: each operation completes once, with   *)
(* ok = false only on a call that is over; deleting a ClientContext ends   *)
(* its call; the server answers a request it received at most once, the    *)
(* login first.  Time is a choice, but long against the threads' steps:    *)
(* the reconnect wait (4 seconds at least, unless on_close shortens it)    *)
(* and a login's 30 seconds end after the completions of a dead call were  *)
(* taken.  The two seconds of IOThread::Stop may be over at any moment.    *)
(***************************************************************************)
EXTENDS Sequences, Integers, FiniteSets, ConcurrentQueue
LOCAL INSTANCE SequencesExt

CONSTANTS
    Threads,        \* threads other than the polling one that call mtk_conn_send
    MaxOpen,        \* bound on the streams opened
    MaxCalls,       \* bound on mtk_conn_send calls
    Events          \* what may happen, a subset of AllEvents

\* The network breaks; mtk_conn_reset; on_ready returns false; the login is
\* denied; the answer to the login takes more than TIMEOUT_DURATION;
\* mtk_conn_close.
AllEvents == {"net", "reset", "unready", "deny", "late", "close"}

ASSUME OpenAssumption == MaxOpen \in Nat \ {0} /\ MaxCalls \in Nat
ASSUME EventsAssumption == Events \subseteq AllEvents

VARIABLES
    status,         \* status_
    restarting,     \* restarting_
    poll,           \* where Update is, and the event it handles
    replys,         \* replys_
    requests,       \* requests_
    reqmap,         \* reqmap_: the entries waiting for a reply
    msgid,          \* msgid_seed_
    caller,         \* where each other thread is in Call
    calls,          \* mtk_conn_send calls accepted
    seq,            \* IOThread::connect_sequence_num_; io_ is stream[seq]
    isSending,      \* IOThread::is_sending_
    replyWork,      \* IOThread::reply_work_: the stream whose Read was given
                    \* this buffer, 0 for nullptr
    stream,         \* the gRPC calls opened, and their server
    called,         \* callbacks made for each message id
    misuse,         \* undefined behaviour reached: "sentinel", "buffer",
                    \* "queue", "unfinished"
    io,             \* IOThread::thr_: "none", "running" or "left"
    closing,        \* mtk_conn_close: "no", "waiting" for the answer, "joining"
                    \* the IO thread or "closed"; its two seconds over,
                    \* "cutting" (cq_ is shut down), "forced" (alive_ is
                    \* cleared as well) or "cutOff" (the end)
    cqShut          \* cq_.Shutdown() was called

stopVars == <<io, closing, cqShut>>
vars == <<status, restarting, poll, replys, requests, reqmap, msgid, caller, calls,
          seq, isSending, replyWork, stream, called, misuse, stopVars>>

Streams == 1..MaxOpen
MsgIds == 1..(MaxCalls + 2 * MaxOpen)

Request(by, kind, id) == [by |-> by, kind |-> kind, id |-> id]
NoRequest == Request("none", "none", 0)

NoStream ==
    [st |-> "none",         \* "none", "open" or "dead"
     start |-> FALSE,       \* the start of the call has not completed
     read |-> FALSE,        \* a Read has not completed
     write |-> NoRequest,   \* the message of the Write that has not completed
     doomed |-> FALSE,      \* that Write was issued on a dead call
     inbox |-> <<>>,        \* received by the server and not answered
     back |-> <<>>,         \* answered and not read by the client
     login |-> "none"]      \* "accepted" or "denied" by the server

Idle == [at |-> "idle", ev |-> "none"]

Init ==
    /\ status = "DISCONNECT" /\ restarting = FALSE
    /\ poll = Idle
    /\ replys = <<>> /\ requests = <<>> /\ reqmap = {} /\ msgid = 0
    /\ caller = [t \in Threads |-> [at |-> "idle", id |-> 0]]
    /\ calls = 0
    /\ seq = 0 /\ isSending = FALSE /\ replyWork = 0
    /\ stream = [s \in Streams |-> NoStream]
    /\ called = [m \in MsgIds |-> 0]
    /\ misuse = {}
    /\ io = "none" /\ closing = "no" /\ cqShut = FALSE

Shared == <<msgid, caller, calls, seq, isSending, replyWork, stream, misuse, stopVars>>
Client == <<status, restarting, poll, reqmap, msgid, caller, calls, called>>
Polling == <<Client, stopVars>>

Event(by, kind) == [by |-> by, kind |-> kind, id |-> 0, ok |-> TRUE]
Reply(id, ok) == [by |-> "io", kind |-> "reply", id |-> id, ok |-> ok]

\* The states in which Call does not answer NOT_CONNECT_ERROR.
Connected == {"ESTABLISHED", "INITIALIZING", "CONNECT"}

---------------------------------------------------------------------------
(* Update: Ready and ProcessReply *)

UpdateReady ==
    /\ poll.at = "idle" /\ closing = "no"
    /\ poll' = [Idle EXCEPT !.at = "replies"]
    /\ UNCHANGED <<status, restarting, replys, requests, reqmap, called>>
    /\ UNCHANGED Shared

\* !delegate_->Ready(): DrainQueue begins with the replies.
UpdateUnready ==
    /\ "unready" \in Events /\ seq < MaxOpen
    /\ poll.at = "idle" /\ closing = "no"
    /\ poll' = [at |-> "drainReq", ev |-> "unready"]
    /\ replys' = <<>>
    /\ UNCHANGED <<status, restarting, requests, reqmap, called>>
    /\ UNCHANGED Shared

\* DISCONNECT_EVENT or ESTABLISHED_EVENT: DrainQueue begins with the replies.
ProcessEvent(j) ==
    /\ poll.at = "replies" /\ replys[j].kind # "reply"
    /\ poll' = [at |-> "drainReq", ev |-> replys[j].kind]
    /\ replys' = <<>>
    /\ UNCHANGED <<status, restarting, requests, reqmap, called>>
    /\ UNCHANGED Shared

\* The callback of an entry.  The one of the login (StartWrite) sets the
\* status or disconnects; the others belong to the application.
Callback(e, ok, rest) ==
    /\ called' = [called EXCEPT ![e.id] = @ + 1]
    /\ status' = IF e.kind = "connect" /\ ok THEN "CONNECT" ELSE status
    /\ replys' = IF e.kind = "connect" /\ ~ok THEN Enqueue(rest, Event("poll", "DISCONNECT"))
                                              ELSE rest

\* A reply: ignored while restarting or when its id is unknown.
ProcessReply(j) ==
    LET rep == replys[j]
        known == {e \in reqmap : e.id = rep.id} IN
    /\ poll.at = "replies" /\ rep.kind = "reply"
    /\ IF restarting \/ known = {}
         THEN replys' = Dequeue(replys, j) /\ UNCHANGED <<called, status, reqmap>>
         ELSE /\ reqmap' = reqmap \ known
              /\ \E e \in known : Callback(e, rep.ok, Dequeue(replys, j))
    /\ UNCHANGED <<restarting, poll, requests>>
    /\ UNCHANGED Shared

NoReply ==
    /\ poll.at = "replies" /\ replys = <<>>
    /\ poll' = [Idle EXCEPT !.at = "switch"]
    /\ UNCHANGED <<status, restarting, replys, requests, reqmap, called>>
    /\ UNCHANGED Shared

\* DrainRequestQueue of DrainQueue
DrainRequests ==
    /\ poll.at = "drainReq"
    /\ requests' = <<>>
    /\ poll' = [poll EXCEPT !.at = "drainMap"]
    /\ UNCHANGED <<status, restarting, replys, reqmap, called>>
    /\ UNCHANGED Shared

\* Mutant: the entries stay.
DrainMapKeeps ==
    /\ poll.at = "drainMap"
    /\ status' = IF poll.ev = "ESTABLISHED" THEN "ESTABLISHED" ELSE "DISCONNECT"
    /\ restarting' = (poll.ev = "unready" \/ (poll.ev = "DISCONNECT" /\ restarting))
    /\ poll' = [Idle EXCEPT !.at = "switch"]
    /\ UNCHANGED <<reqmap, replys, requests, called>>
    /\ UNCHANGED Shared

\* reqmap_.clear(), and the state change of the event
DrainMap ==
    /\ poll.at = "drainMap"
    /\ reqmap' = {}
    /\ status' = IF poll.ev = "ESTABLISHED" THEN "ESTABLISHED" ELSE "DISCONNECT"
    /\ restarting' = CASE poll.ev = "ESTABLISHED" -> FALSE
                       [] poll.ev = "unready" -> TRUE
                       [] OTHER -> restarting
    /\ poll' = [Idle EXCEPT !.at = "switch"]
    /\ UNCHANGED <<replys, requests, called>>
    /\ UNCHANGED Shared

---------------------------------------------------------------------------
(* Update: the switch and ProcessTimeout *)

\* NewMsgId, the queue and the entry
Register(by, kind) ==
    /\ msgid' = msgid + 1
    /\ requests' = Enqueue(requests, Request(by, kind, msgid + 1))
    /\ reqmap' = reqmap \cup {[id |-> msgid + 1, kind |-> kind]}

\* Still waiting to reconnect, or CONNECTING: Update returns.
SwitchReturn ==
    /\ poll.at = "switch" /\ status \in {"DISCONNECT", "CONNECTING"}
    /\ poll' = Idle
    /\ UNCHANGED <<status, restarting, replys, requests, reqmap, called>>
    /\ UNCHANGED Shared

\* The IO thread has taken what a dead call completed with.
Settled(s) == stream[s].st = "dead" =>
                 ~stream[s].start /\ ~stream[s].read /\ stream[s].write = NoRequest

\* The reconnect wait is over (see the head of the module): other Updates
\* came before this one and left no event in replys_.
WaitOver == replys = <<>> /\ \A s \in Streams : Settled(s)

SwitchReconnect ==
    /\ poll.at = "switch" /\ status = "DISCONNECT"
    /\ WaitOver /\ seq < MaxOpen
    /\ status' = "CONNECTING"
    /\ requests' = Enqueue(requests, Request("poll", "establish", 0))
    /\ io' = "running"
    /\ poll' = Idle
    /\ UNCHANGED <<restarting, replys, reqmap, called, msgid, caller, calls, seq, isSending,
                   replyWork, stream, misuse, closing, cqShut>>

\* ESTABLISHED: StartWrite calls with the Connect payload.
SwitchStartWrite ==
    /\ poll.at = "switch" /\ status = "ESTABLISHED"
    /\ msgid + 1 \in MsgIds
    /\ status' = "INITIALIZING"
    /\ Register("poll", "connect")
    /\ poll' = [poll EXCEPT !.at = "timeout"]
    /\ UNCHANGED <<restarting, replys, called, caller, calls, seq, isSending,
                   replyWork, stream, misuse, stopVars>>

SwitchNothing ==
    /\ poll.at = "switch" /\ status \in {"INITIALIZING", "CONNECT"}
    /\ poll' = [poll EXCEPT !.at = "timeout"]
    /\ UNCHANGED <<status, restarting, replys, requests, reqmap, called>>
    /\ UNCHANGED Shared

\* Mutant: no entry is ever old enough.
NeverExpires(e) == FALSE

\* A login expires on a dead call, or when its answer may be late.
MayExpire(e) ==
    e.kind = "connect" => \/ stream[seq].st = "dead" /\ Settled(seq)
                          \/ "late" \in Events /\ seq < MaxOpen

\* Mutant: the expired entries are not erased.
ProcessTimeoutKeeps(expired) ==
    /\ poll.at = "timeout"
    /\ expired \subseteq {e \in reqmap : MayExpire(e)}
    /\ called' = [m \in MsgIds |-> IF \E e \in expired : e.id = m THEN called[m] + 1 ELSE called[m]]
    /\ poll' = Idle
    /\ UNCHANGED <<status, restarting, replys, requests, reqmap>>
    /\ UNCHANGED Shared

\* ProcessTimeout takes all expired entries out, then calls them back; it is
\* the end of Update.
ProcessTimeout(expired) ==
    LET logins == {e \in expired : e.kind = "connect"} IN
    /\ poll.at = "timeout"
    /\ expired \subseteq {e \in reqmap : MayExpire(e)}
    /\ reqmap' = reqmap \ expired
    /\ called' = [m \in MsgIds |-> IF \E e \in expired : e.id = m THEN called[m] + 1 ELSE called[m]]
    /\ replys' = IF logins = {} THEN replys ELSE Enqueue(replys, Event("poll", "DISCONNECT"))
    /\ poll' = Idle
    /\ UNCHANGED <<status, restarting, requests>>
    /\ UNCHANGED Shared

---------------------------------------------------------------------------
(* Call (when the status is below ESTABLISHED the callback gets              *)
(* NOT_CONNECT_ERROR at once and nothing changes)                           *)

\* mtk_conn_send on the polling thread
PollCall ==
    /\ poll.at = "idle" /\ closing = "no" /\ status \in Connected
    /\ calls < MaxCalls /\ msgid + 1 \in MsgIds
    /\ calls' = calls + 1
    /\ Register("poll", "call")
    /\ UNCHANGED <<status, restarting, poll, replys, called, caller, seq, isSending,
                   replyWork, stream, misuse, stopVars>>

\* mtk_conn_send on another thread: status_ is read without a lock ...
CallCheck(t) ==
    /\ caller[t].at = "idle" /\ status \in Connected /\ closing = "no"
    /\ calls < MaxCalls
    /\ calls' = calls + 1
    /\ caller' = [caller EXCEPT ![t].at = "checked"]
    /\ UNCHANGED <<status, restarting, poll, replys, requests, reqmap, called, msgid,
                   seq, isSending, replyWork, stream, misuse, stopVars>>

\* ... the request is enqueued ...
CallEnqueue(t) ==
    /\ caller[t].at = "checked" /\ msgid + 1 \in MsgIds
    /\ msgid' = msgid + 1
    /\ requests' = Enqueue(requests, Request(t, "call", msgid + 1))
    /\ caller' = [caller EXCEPT ![t] = [at |-> "queued", id |-> msgid + 1]]
    /\ UNCHANGED <<status, restarting, poll, replys, reqmap, called, calls,
                   seq, isSending, replyWork, stream, misuse, stopVars>>

\* ... and then its entry is registered.
CallRegister(t) ==
    /\ caller[t].at = "queued"
    /\ reqmap' = reqmap \cup {[id |-> caller[t].id, kind |-> "call"]}
    /\ caller' = [caller EXCEPT ![t] = [at |-> "idle", id |-> 0]]
    /\ UNCHANGED <<status, restarting, poll, replys, requests, called, msgid, calls,
                   seq, isSending, replyWork, stream, misuse, stopVars>>

\* mtk_conn_reset: RPCStream::Release
Release ==
    /\ "reset" \in Events /\ seq \in 1..(MaxOpen - 1) /\ ~restarting /\ closing = "no"
    /\ restarting' = TRUE
    /\ replys' = Enqueue(replys, Event("poll", "DISCONNECT"))
    /\ UNCHANGED <<status, poll, requests, reqmap, called>>
    /\ UNCHANGED Shared

---------------------------------------------------------------------------
(* The IO thread *)

\* Open, with Close: the old context is deleted, which ends its call.
Open ==
    /\ seq < MaxOpen
    /\ seq' = seq + 1
    /\ stream' = [s \in Streams |->
                    CASE s = seq + 1 -> [NoStream EXCEPT !.st = "open", !.start = TRUE]
                      [] s = seq -> [stream[s] EXCEPT !.st = "dead"]
                      [] OTHER -> stream[s]]

\* gRPC takes no operation for a queue that is shut down.
StartOperation == misuse' = IF cqShut THEN misuse \cup {"queue"} ELSE misuse

\* io_->Write
Writing(r, req) == [r EXCEPT !.write = req, !.doomed = (r.st = "dead")]

\* No operation that could complete is left.
Drained == \A s \in Streams :
    ~stream[s].start /\ ~stream[s].read /\ stream[s].write = NoRequest

\* What AsyncNext gives: TIMEOUT, an event, or SHUTDOWN when the last one was taken.
ShutDown == cqShut /\ Drained

\* AsyncNext times out: the next request when nothing is being sent.
RunTimeout(j) ==
    /\ ~isSending /\ ~ShutDown
    /\ requests' = Dequeue(requests, j)
    /\ StartOperation
    /\ \/ /\ requests[j].kind = "establish"
          /\ Open
          /\ UNCHANGED isSending
       \/ /\ requests[j].kind # "establish"
          /\ stream' = [stream EXCEPT ![seq] = Writing(@, requests[j])]
          /\ isSending' = TRUE
          /\ UNCHANGED seq
    /\ UNCHANGED <<replys, replyWork>> /\ UNCHANGED Polling

\* The server receives the message of a write that completed.
Received(r) ==
    IF r.st = "dead" THEN [r EXCEPT !.write = NoRequest]
      ELSE [r EXCEPT !.write = NoRequest, !.inbox = Append(@, r.write)]

\* The Write completes with ok = true.
Written == seq # 0 /\ stream[seq].write # NoRequest /\ ~stream[seq].doomed

\* A write completes: the next request is written, whatever it is.
WriteDone(j) ==
    /\ Written
    /\ requests' = Dequeue(requests, j)
    /\ IF requests[j].kind = "establish"
         THEN misuse' = misuse \cup {"sentinel"} /\ UNCHANGED stream
         ELSE /\ stream' = [stream EXCEPT ![seq] = Writing(Received(@), requests[j])]
              /\ StartOperation
    /\ UNCHANGED <<replys, seq, isSending, replyWork>> /\ UNCHANGED Polling

\* A write completes and requests_ is empty.
WriteIdle ==
    /\ Written /\ requests = <<>>
    /\ stream' = [stream EXCEPT ![seq] = Received(@)]
    /\ isSending' = FALSE
    /\ UNCHANGED <<replys, requests, seq, replyWork, misuse>> /\ UNCHANGED Polling

\* A write fails: the handler returns, is_sending_ stays set.
WriteFail ==
    /\ seq # 0 /\ stream[seq].write # NoRequest /\ stream[seq].st = "dead"
    /\ stream' = [stream EXCEPT ![seq].write = NoRequest]
    /\ UNCHANGED <<replys, requests, seq, isSending, replyWork, misuse>> /\ UNCHANGED Polling

\* io_->Read into a new reply_work_
Read(str) == replyWork' = seq /\ stream' = [str EXCEPT ![seq].read = TRUE]

\* The start of a call completes: it is taken for its establishment when
\* reply_work_ is null, for a reply otherwise.
StartDone(s) ==
    /\ stream[s].start /\ stream[s].st = "open"
    /\ replys' = Enqueue(replys, IF replyWork = 0 THEN Event("io", "ESTABLISHED")
                                                  ELSE Reply(0, TRUE))
    /\ Read([stream EXCEPT ![s].start = FALSE])
    /\ StartOperation
    /\ UNCHANGED <<requests, seq, isSending>> /\ UNCHANGED Polling

\* A read completes: gRPC has stored the reply in the buffer of the Read.
ReadDone(s) ==
    /\ stream[s].read /\ stream[s].back # <<>>
    /\ LET rep == Head(stream[s].back) IN
       /\ replys' = Enqueue(replys, IF replyWork = 0 THEN Event("io", "ESTABLISHED")
                                      ELSE Reply(rep.id, rep.ok))
       /\ Read([stream EXCEPT ![s].back = Tail(@), ![s].read = FALSE])
    /\ misuse' = misuse \cup (IF replyWork = s THEN {} ELSE {"buffer"})
                       \cup (IF cqShut THEN {"queue"} ELSE {})
    /\ UNCHANGED <<requests, seq, isSending>> /\ UNCHANGED Polling

\* The completion of s that fails; a write that succeeded came before it.
Failing(s) ==
    /\ stream[s].start \/ stream[s].read
    /\ stream[s].st = "dead"
    /\ stream' = [stream EXCEPT ![s].start = FALSE, ![s].read = FALSE, ![s].doomed = TRUE]

\* Mutant: reply_work_ is not released.
ReadFailKeeps(s) ==
    /\ closing = "no"
    /\ Failing(s)
    /\ requests' = <<>>
    /\ replys' = IF seq = s THEN Enqueue(replys, Event("io", "DISCONNECT")) ELSE replys
    /\ UNCHANGED <<replyWork, seq, isSending, misuse>> /\ UNCHANGED Polling

\* The start or a read fails: the requests are drained, and the client hears
\* of it unless a newer stream has been opened.
ReadFail(s) ==
    /\ closing = "no"
    /\ Failing(s)
    /\ replyWork' = 0
    /\ requests' = <<>>
    /\ replys' = IF seq = s THEN Enqueue(replys, Event("io", "DISCONNECT")) ELSE replys
    /\ UNCHANGED <<seq, isSending, misuse>> /\ UNCHANGED Polling

\* The same while sending_shutdown_ is set: it is the end of the connection.
ReadFailClosing(s) ==
    /\ closing # "no"
    /\ Failing(s)
    /\ replyWork' = 0
    /\ cqShut' = TRUE
    /\ UNCHANGED <<replys, requests, seq, isSending, misuse, io, closing>> /\ UNCHANGED Client

---------------------------------------------------------------------------
(* mtk_conn_close: IOThread::Stop.  The application closes a connection on  *)
(* its polling thread, when no other thread uses it any more.               *)

\* Mutant: the server is not asked.
StopAtOnce ==
    /\ "close" \in Events /\ closing = "no"
    /\ poll.at = "idle" /\ \A t \in Threads : caller[t].at = "idle"
    /\ closing' = "joining" /\ cqShut' = (io = "running")
    /\ UNCHANGED <<requests, replys, seq, isSending, replyWork, stream, misuse, io>>
    /\ UNCHANGED Client

\* Mutant: without a connection the queue is not shut down.
StopNoShutdown ==
    /\ "close" \in Events /\ closing = "no"
    /\ poll.at = "idle" /\ \A t \in Threads : caller[t].at = "idle"
    /\ IF io = "none" \/ status = "DISCONNECT"
         THEN closing' = "joining" /\ UNCHANGED requests
         ELSE /\ closing' = "waiting"
              /\ requests' = Enqueue(requests, Request("poll", "close", 0))
    /\ UNCHANGED <<cqShut, replys, seq, isSending, replyWork, stream, misuse, io>>
    /\ UNCHANGED Client

\* Stop: a shutdown request when there is a connection, otherwise an end of
\* the queue; nothing to wait for if the IO thread was never started.
Stop ==
    /\ "close" \in Events /\ closing = "no"
    /\ poll.at = "idle" /\ \A t \in Threads : caller[t].at = "idle"
    /\ IF io = "none" \/ status = "DISCONNECT"
         THEN /\ closing' = "joining" /\ cqShut' = (io = "running")
              /\ UNCHANGED requests
         ELSE /\ closing' = "waiting"
              /\ requests' = Enqueue(requests, Request("poll", "close", 0))
              /\ UNCHANGED cqShut
    /\ UNCHANGED <<replys, seq, isSending, replyWork, stream, misuse, io>> /\ UNCHANGED Client

\* Run leaves its loop: the queue is shut down and empty, or alive_ is false.
RunLeaves ==
    /\ io = "running"
    /\ closing = "forced" \/ ShutDown
    /\ io' = "left"
    /\ UNCHANGED <<replys, requests, seq, isSending, replyWork, stream, misuse, closing, cqShut>>
    /\ UNCHANGED Client

\* The helper of Stop has waited two seconds, whatever is still under way: it
\* shuts the queue down, with the IO thread at work ...
StopTimeout ==
    /\ closing = "waiting" /\ io = "running"
    /\ closing' = "cutting" /\ cqShut' = TRUE
    /\ UNCHANGED <<replys, requests, seq, isSending, replyWork, stream, misuse, io>>
    /\ UNCHANGED Client

\* ... and clears alive_.
StopForce ==
    /\ closing = "cutting"
    /\ closing' = "forced"
    /\ UNCHANGED <<replys, requests, seq, isSending, replyWork, stream, misuse, io, cqShut>>
    /\ UNCHANGED Client

\* The helper and the IO thread are joined; IOThread and RPCStream go, and the
\* context ends the call.  Nobody calls the entries that are left back.
Join ==
    /\ closing \in {"waiting", "forced", "joining"} /\ io # "running"
    /\ closing' = IF closing = "forced" THEN "cutOff" ELSE "closed"
    /\ reqmap' = {} /\ requests' = <<>> /\ replys' = <<>> /\ replyWork' = 0
    /\ stream' = [s \in Streams |-> NoStream]
    /\ misuse' = IF Drained THEN misuse ELSE misuse \cup {"unfinished"}
    /\ UNCHANGED <<status, restarting, poll, msgid, caller, calls, called, seq, isSending,
                   io, cqShut>>

---------------------------------------------------------------------------
(* The server and the network *)

\* The first message is taken for a login, and a Connect request is one; a
\* Connect request that comes later is an unknown request (module Conn).
Answer(s, i, ok) ==
    LET r == stream[s]
        req == r.inbox[i] IN
    /\ r.st = "open" /\ i \in 1..Len(r.inbox) /\ req.kind # "close"
    /\ IF r.login = "none"
         THEN /\ i = 1
              /\ ok => req.kind = "connect"
              /\ ~ok => req.kind = "call" \/ ("deny" \in Events /\ s < MaxOpen)
         ELSE ok <=> req.kind = "call"
    /\ stream' = [stream EXCEPT
           ![s].inbox = RemoveAt(@, i),
           ![s].back = Append(@, [id |-> req.id, ok |-> ok]),
           ![s].login = IF @ # "none" THEN @ ELSE IF ok THEN "accepted" ELSE "denied"]
    /\ UNCHANGED <<replys, requests, seq, isSending, replyWork, misuse>> /\ UNCHANGED Polling

\* A request to close ends the call (module Conn); behind an unanswered login
\* it waits.
ServerClose(s) ==
    LET r == stream[s] IN
    /\ r.st = "open"
    /\ \E i \in 1..Len(r.inbox) : r.inbox[i].kind = "close" /\ (i = 1 \/ r.login # "none")
    /\ stream' = [stream EXCEPT ![s].st = "dead"]
    /\ UNCHANGED <<replys, requests, seq, isSending, replyWork, misuse>> /\ UNCHANGED Polling

\* The network, or the server closing the connection.
CallBreaks(s) ==
    /\ "net" \in Events /\ s < MaxOpen /\ stream[s].st = "open"
    /\ stream' = [stream EXCEPT ![s].st = "dead"]
    /\ UNCHANGED <<replys, requests, seq, isSending, replyWork, misuse>> /\ UNCHANGED Polling

---------------------------------------------------------------------------
\* Update, up to the switch that may wait for the reconnect time.
UpdateStep ==
    \/ UpdateReady \/ UpdateUnready \/ NoReply \/ DrainRequests \/ DrainMap
    \/ \E j \in Heads(replys) : ProcessEvent(j) \/ ProcessReply(j)
    \/ SwitchReturn \/ SwitchStartWrite \/ SwitchNothing
    \/ \E expired \in SUBSET reqmap : ProcessTimeout(expired)

CallStep(t) == CallEnqueue(t) \/ CallRegister(t)

Running == io = "running" /\ closing # "forced"

Write ==
    /\ Running
    /\ \/ \E j \in Heads(requests) : RunTimeout(j) \/ WriteDone(j)
       \/ WriteIdle \/ WriteFail

ReadEvent(s) == Running /\ (StartDone(s) \/ ReadDone(s) \/ ReadFail(s) \/ ReadFailClosing(s))

StopStep == RunLeaves \/ StopTimeout \/ StopForce \/ Join

Defined == misuse = {}

Next ==
    /\ Defined
    /\ \/ UpdateStep \/ SwitchReconnect \/ PollCall \/ Release
       \/ \E t \in Threads : CallCheck(t) \/ CallStep(t)
       \/ Write
       \/ \E s \in Streams : ReadEvent(s) \/ CallBreaks(s) \/ ServerClose(s)
       \/ Stop \/ StopStep
       \/ \E s \in Streams, i \in 1..Cardinality(MsgIds), ok \in BOOLEAN : Answer(s, i, ok)

\* The application polls and time passes (an expired entry is not skipped for
\* ever); the IO thread runs and gRPC completes its operations; the server
\* answers a login and a request to close.  Nothing is assumed of the answers
\* to other calls.
Fairness ==
    /\ WF_vars(Defined /\ UpdateStep)
    /\ SF_vars(Defined /\ SwitchReconnect)
    /\ \A m \in MsgIds : SF_vars(\E expired \in SUBSET reqmap :
            (\E e \in expired : e.id = m) /\ Defined /\ ProcessTimeout(expired))
    /\ \A t \in Threads : WF_vars(Defined /\ CallStep(t))
    /\ WF_vars(Defined /\ Write) /\ WF_vars(Defined /\ StopStep)
    /\ \A s \in Streams : WF_vars(Defined /\ ReadEvent(s)) /\ WF_vars(Defined /\ ServerClose(s))
    /\ \A s \in Streams : WF_vars(Defined /\ stream[s].login = "none"
                                  /\ \E ok \in BOOLEAN : Answer(s, 1, ok))

Safety == Init /\ [][Next]_vars

Spec == Safety /\ Fairness

---------------------------------------------------------------------------
(* Properties *)

\* A call gets at most one callback, whatever reply, timeout, disconnect and
\* reset do with its entry.
OneCallback == \A m \in MsgIds : called[m] <= 1

\* The helper of Stop lost its patience.
Cut == closing \in {"cutting", "forced", "cutOff"}

\* The IO thread's contract with gRPC: no sentinel is dereferenced, a read
\* completes into a buffer that still is reply_work_, no operation is started
\* on a queue that is shut down, and none is unfinished when IOThread is
\* deleted.  The last two hold as long as the two seconds of Stop suffice.
NoMisuse == misuse # {} => Cut /\ misuse \subseteq {"queue", "unfinished"}

\* Where that ends the program.
Crash == Cut /\ misuse # {}

\* Stop asks the server first: "otherwise, unprocessed request appeared in
\* completion queue, then crash".  A known disagreement: it happens all the
\* same when the answer takes longer than two seconds.
StopClean == misuse = {}

\* The client believes to be connected only on a stream whose server has
\* accepted its login: an answer of an older stream never counts.
Handshake == status = "CONNECT" => seq # 0 /\ stream[seq].login = "accepted"

\* No entry waits in a state in which Update does not look for timeouts.
NoOrphan ==
    status \in {"DISCONNECT", "CONNECTING"} /\ poll.at \notin {"drainReq", "drainMap"} => reqmap = {}

\* A client that went through the handshake on a call that is over will hear
\* of it: from the read, from a queued event, because it is draining its
\* queues, or because its login expires (a DISCONNECT_EVENT behind an
\* ESTABLISHED_EVENT is drained).
WillHear ==
    status \in Connected /\ seq # 0 /\ stream[seq].st = "dead" =>
        \/ stream[seq].start \/ stream[seq].read
        \/ \E j \in 1..Len(replys) : replys[j].kind = "DISCONNECT"
        \/ poll.at \in {"drainReq", "drainMap"}
        \/ status = "ESTABLISHED"
        \/ \E e \in reqmap : e.kind = "connect"

\* What status_ tells the application is true, or will be corrected: connected
\* means logged in on this stream, a call that is over is noticed, and a
\* client without a connection has no call waiting.
StatusTruthful == closing = "no" => Handshake /\ NoOrphan /\ WillHear

\* A failed write has left is_sending_ set with nothing being written.
WriteFailed == isSending /\ seq # 0 /\ stream[seq].write = NoRequest

\* A client that has lost its connection gets a new one, unless a write failed
\* or the application closes it.
ReconnectsUnlessWriteFailed == (status = "DISCONNECT") ~> (status = "CONNECT" \/ WriteFailed \/ closing # "no")

\* A client that has lost its connection gets a new one.
Reconnects == (status = "DISCONNECT") ~> (status = "CONNECT")

\* mtk_conn_reset restarts the connection.
ResetRestarts == restarting ~> ~restarting

\* mtk_conn_close comes back, unless the end of its two seconds makes the IO
\* thread crash.
StopEnds == (closing # "no") ~> (closing \in {"closed", "cutOff"} \/ Crash)

\* Every entry eventually leaves reqmap_: replied, expired or dropped.
CallsSettle == \A m \in MsgIds :
    (\E e \in reqmap : e.id = m) ~> ~(\E e \in reqmap : e.id = m) \/ Crash
===========================================================================
