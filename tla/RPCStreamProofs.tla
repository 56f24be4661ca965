--------------------------- MODULE RPCStreamProofs ---------------------------
(***************************************************************************)
(* Module RPCStream, for every number of threads, streams and calls,       *)
(* first: an id stays in one place.  It is unused, or with a thread        *)
(* that has enqueued its request and not registered its entry, or in       *)
(* reqmap_, or called back; and only the last step of that way makes a     *)
(* callback.                                                               *)
(*                                                                         *)
(* Then, whatever may happen: what status_ tells the application is        *)
(* true, or will be corrected.  The invariant follows the login: its id    *)
(* is in one entry of reqmap_ and in messages of the call in use only,     *)
(* so that an answer to it is an answer of that call's server; while it    *)
(* waits the client is INITIALIZING, so that no other call is being        *)
(* opened; and a call in use that is open has its start or a read under    *)
(* way, whose failure leaves the event that is heard.                      *)
(*                                                                         *)
(* Last: the IO thread keeps its contract with gRPC (NoMisuse) as long as  *)
(* one thread uses the client, which resets nothing and is not refused.    *)
(* The invariant follows the operations under way: they are on the call    *)
(* in use, and are over when another call is opened and when the queue is  *)
(* shut down and has given its last event.  That takes what the client     *)
(* says: between the start of a call and its ESTABLISHED event nothing is  *)
(* requested, the login is the first request and is accepted, and          *)
(* DISCONNECT is said of a call that is over.                              *)
(***************************************************************************)
EXTENDS RPCStream, SequenceTheorems, TLAPS
LOCAL INSTANCE SequencesExt

---------------------------------------------------------------------------
(* Where an id is *)

Types ==
    /\ msgid \in Nat
    /\ called \in [MsgIds -> 0..1]
    /\ caller \in [Threads -> [at : {"idle", "checked", "queued"}, id : Nat]]

\* An id NewMsgId has not given yet.
Unused(m) == m > msgid /\ m \in MsgIds

\* A thread between CallEnqueue and CallRegister.
Queued(t) == caller[t].at = "queued"

\* An id given that awaits its callback.
Awaiting(m) == m \in MsgIds /\ m <= msgid /\ called[m] = 0

UnusedInv == \A m \in MsgIds : Unused(m) => called[m] = 0

EntryInv == \A e \in reqmap : Awaiting(e.id)

EntriesDiffer == \A e, f \in reqmap : e.id = f.id => e = f

QueuedInv == \A t \in Threads : Queued(t) =>
                 Awaiting(caller[t].id) /\ \A e \in reqmap : e.id # caller[t].id

QueuedDiffer == \A t, u \in Threads :
    Queued(t) /\ Queued(u) /\ caller[t].id = caller[u].id => t = u

IInv == Types /\ UnusedInv /\ EntryInv /\ EntriesDiffer /\ QueuedInv /\ QueuedDiffer

---------------------------------------------------------------------------
(* The initial states, and the actions that leave the ids alone *)

\* When the client is created no id has been given.
THEOREM InitIInv == Init => IInv
<1> SUFFICES ASSUME Init PROVE IInv
  OBVIOUS
<1>1. Types
  BY DEF Init, Types
<1> QED
  BY <1>1 DEF Init, IInv, UnusedInv, Unused, EntryInv, EntriesDiffer, QueuedInv, QueuedDiffer, Queued

\* The invariant depends on four variables only; losing entries keeps it.
LEMMA KeepsIInv ==
    ASSUME IInv, UNCHANGED <<msgid, called, caller>>, reqmap' \subseteq reqmap
    PROVE  IInv'
BY DEF IInv, Types, UnusedInv, Unused, EntryInv, EntriesDiffer, QueuedInv, QueuedDiffer, Queued, Awaiting

\* The IO thread, the server, the network and the wait in Stop touch no id.
LEMMA OthersIInv ==
    ASSUME IInv, \/ Write \/ Stop \/ RunLeaves \/ StopTimeout \/ StopForce
                 \/ \E s \in Streams : ReadEvent(s) \/ CallBreaks(s) \/ ServerClose(s)
                 \/ \E s \in Streams, i \in 1..Cardinality(MsgIds), ok \in BOOLEAN : Answer(s, i, ok)
    PROVE  IInv'
<1>1. CASE Write
  BY <1>1, KeepsIInv DEF Write, RunTimeout, WriteDone, WriteIdle, WriteFail, Polling, Client
<1>2. CASE Stop \/ RunLeaves \/ StopTimeout \/ StopForce
  BY <1>2, KeepsIInv DEF Stop, RunLeaves, StopTimeout, StopForce, Client
<1>3. ASSUME NEW s \in Streams, ReadEvent(s) PROVE IInv'
  BY <1>3, KeepsIInv DEF ReadEvent, StartDone, ReadDone, ReadFail, ReadFailClosing, Polling, Client
<1>4. ASSUME NEW s \in Streams, CallBreaks(s) \/ ServerClose(s) PROVE IInv'
  BY <1>4, KeepsIInv DEF CallBreaks, ServerClose, Polling, Client
<1>5. ASSUME NEW s \in Streams, NEW i \in 1..Cardinality(MsgIds), NEW ok \in BOOLEAN, Answer(s, i, ok)
      PROVE  IInv'
  BY <1>5, KeepsIInv DEF Answer, Polling, Client
<1> QED BY <1>1, <1>2, <1>3, <1>4, <1>5

---------------------------------------------------------------------------
(* Update *)

\* The steps of Update that call nobody back and register nothing: the queues
\* are drained, and with them reqmap_.
LEMMA QuietUpdateIInv ==
    ASSUME IInv, \/ UpdateReady \/ UpdateUnready \/ NoReply \/ DrainRequests \/ DrainMap
                 \/ SwitchReturn \/ SwitchNothing \/ SwitchReconnect \/ Release \/ Join
                 \/ \E j \in Heads(replys) : ProcessEvent(j)
    PROVE  IInv'
<1>1. UNCHANGED <<msgid, called, caller>>
  BY DEF UpdateReady, UpdateUnready, NoReply, DrainRequests, DrainMap, SwitchReturn, SwitchNothing,
         SwitchReconnect, Release, Join, ProcessEvent, Shared
<1>2. reqmap' \subseteq reqmap
  BY DEF UpdateReady, UpdateUnready, NoReply, DrainRequests, DrainMap, SwitchReturn, SwitchNothing,
         SwitchReconnect, Release, Join, ProcessEvent, Shared
<1> QED BY <1>1, <1>2, KeepsIInv

\* Entries that leave reqmap_ and are called back, each once, keep the
\* invariant: no other entry and no queued thread has their ids.
LEMMA CallbackIInv ==
    ASSUME IInv, NEW gone \in SUBSET reqmap,
           reqmap' = reqmap \ gone, UNCHANGED <<msgid, caller>>,
           called' = [m \in MsgIds |-> IF \E e \in gone : e.id = m THEN called[m] + 1 ELSE called[m]]
    PROVE  IInv'
<1>1. ASSUME NEW m \in MsgIds
      PROVE  /\ called[m] \in 0..1
             /\ (\E e \in gone : e.id = m) => called[m] = 0 /\ m <= msgid
             /\ called'[m] = IF \E e \in gone : e.id = m THEN called[m] + 1 ELSE called[m]
  BY DEF IInv, Types, EntryInv, Awaiting
<1>2. Types'
  <2>1. ASSUME NEW m \in MsgIds PROVE called'[m] \in 0..1
    BY <1>1
  <2> QED BY <2>1 DEF IInv, Types
<1>3. UnusedInv'
  BY <1>1 DEF IInv, Types, UnusedInv, Unused, MsgIds
<1>4. ASSUME NEW m, Awaiting(m), ~\E e \in gone : e.id = m
      PROVE  Awaiting(m)'
  BY <1>1, <1>4 DEF Awaiting
<1>5. EntryInv' /\ EntriesDiffer'
  <2>1. ASSUME NEW e \in reqmap' PROVE Awaiting(e.id)'
    <3>1. e \in reqmap /\ Awaiting(e.id)
      BY DEF IInv, EntryInv
    <3>2. ~\E f \in gone : f.id = e.id
      BY <3>1 DEF IInv, EntriesDiffer
    <3> QED BY <1>4, <3>1, <3>2
  <2> QED BY <2>1 DEF IInv, EntryInv, EntriesDiffer
<1>6. QueuedInv' /\ QueuedDiffer'
  <2>1. ASSUME NEW t \in Threads, Queued(t)
        PROVE  Awaiting(caller[t].id)' /\ \A e \in reqmap : e.id # caller[t].id
    <3>1. Awaiting(caller[t].id) /\ \A e \in reqmap : e.id # caller[t].id
      BY <2>1 DEF IInv, QueuedInv
    <3> QED BY <1>4, <3>1
  <2> QED BY <2>1 DEF IInv, QueuedInv, QueuedDiffer, Queued, Awaiting
<1> QED BY <1>2, <1>3, <1>5, <1>6 DEF IInv

\* A reply calls back the one entry with its id.
LEMMA ProcessReplyIInv ==
    ASSUME IInv, NEW j \in Heads(replys), ProcessReply(j)
    PROVE  IInv'
<1> DEFINE known == {e \in reqmap : e.id = replys[j].id}
<1>1. UNCHANGED <<msgid, caller>>
  BY DEF ProcessReply, Shared
<1>2. CASE restarting \/ known = {}
  BY <1>1, <1>2, KeepsIInv DEF ProcessReply
<1>3. CASE ~(restarting \/ known = {})
  <2>1. /\ reqmap' = reqmap \ known
        /\ \E e \in known : Callback(e, replys[j].ok, Dequeue(replys, j))
    BY <1>3 DEF ProcessReply
  <2>2. PICK e \in known : Callback(e, replys[j].ok, Dequeue(replys, j))
    BY <2>1
  <2>3. called' = [called EXCEPT ![e.id] = @ + 1] /\ called \in [MsgIds -> 0..1]
    BY <2>2 DEF Callback, IInv, Types
  <2>4. called' = [m \in MsgIds |-> IF \E f \in known : f.id = m THEN called[m] + 1 ELSE called[m]]
    BY <2>2, <2>3
  <2> HIDE DEF known
  <2>5. known \in SUBSET reqmap
    BY DEF known
  <2> QED BY <1>1, <2>1, <2>4, <2>5, CallbackIInv
<1> QED BY <1>2, <1>3

\* ProcessTimeout calls each expired entry back.
LEMMA ProcessTimeoutIInv ==
    ASSUME IInv, NEW expired \in SUBSET reqmap, ProcessTimeout(expired)
    PROVE  IInv'
<1>1. /\ reqmap' = reqmap \ expired /\ UNCHANGED <<msgid, caller>>
      /\ called' = [m \in MsgIds |-> IF \E e \in expired : e.id = m THEN called[m] + 1 ELSE called[m]]
  BY DEF ProcessTimeout, Shared
<1> QED BY <1>1, CallbackIInv

---------------------------------------------------------------------------
(* Call *)

\* An entry on the polling thread is registered under a new id.
LEMMA RegisterIInv ==
    ASSUME IInv, NEW by, NEW kind, Register(by, kind), msgid + 1 \in MsgIds,
           UNCHANGED <<called, caller>>
    PROVE  IInv'
<1>1. msgid \in Nat /\ msgid' = msgid + 1 /\ called[msgid + 1] = 0
  BY DEF IInv, Types, UnusedInv, Unused, Register
<1>2. ASSUME NEW m PROVE Awaiting(m) => Awaiting(m)' /\ m # msgid + 1
  BY <1>1 DEF Awaiting, MsgIds
<1>3. Awaiting(msgid)'
  BY <1>1 DEF Awaiting, Register
<1>4. reqmap' = reqmap \cup {[id |-> msgid + 1, kind |-> kind]}
  BY DEF Register
<1>5. Types' /\ UnusedInv'
  BY <1>1 DEF IInv, Types, UnusedInv, Unused, MsgIds
<1>6. EntryInv' /\ EntriesDiffer'
  BY <1>1, <1>2, <1>3, <1>4 DEF IInv, EntryInv, EntriesDiffer
<1>7. QueuedInv' /\ QueuedDiffer'
  BY <1>2, <1>4 DEF IInv, QueuedInv, QueuedDiffer, Queued
<1> QED BY <1>5, <1>6, <1>7 DEF IInv

\* StartWrite and mtk_conn_send on the polling thread
LEMMA PollingCallIInv ==
    ASSUME IInv, SwitchStartWrite \/ PollCall
    PROVE  IInv'
<1>1. CASE SwitchStartWrite
  BY <1>1, RegisterIInv DEF SwitchStartWrite
<1>2. CASE PollCall
  BY <1>2, RegisterIInv DEF PollCall
<1> QED BY <1>1, <1>2

\* Another thread that begins a call has no id yet.
LEMMA CallCheckIInv ==
    ASSUME IInv, NEW t \in Threads, CallCheck(t)
    PROVE  IInv'
<1>1. UNCHANGED <<msgid, called, reqmap>> /\ caller' = [caller EXCEPT ![t].at = "checked"]
  BY DEF CallCheck
<1>2. Types' /\ ~Queued(t)'
  BY <1>1 DEF IInv, Types, Queued
<1>3. ASSUME NEW u \in Threads, u # t PROVE caller'[u] = caller[u]
  BY <1>1, <1>3 DEF IInv, Types
<1>4. UnusedInv' /\ EntryInv' /\ EntriesDiffer'
  BY <1>1 DEF IInv, UnusedInv, Unused, EntryInv, Awaiting, EntriesDiffer
<1>5. QueuedInv' /\ QueuedDiffer'
  BY <1>1, <1>2, <1>3 DEF IInv, QueuedInv, QueuedDiffer, Queued, Awaiting
<1> QED BY <1>2, <1>4, <1>5 DEF IInv

\* It takes a new id with its request.
LEMMA CallEnqueueIInv ==
    ASSUME IInv, NEW t \in Threads, CallEnqueue(t)
    PROVE  IInv'
<1>1. /\ UNCHANGED <<called, reqmap>> /\ msgid' = msgid + 1 /\ msgid + 1 \in MsgIds
      /\ caller' = [caller EXCEPT ![t] = [at |-> "queued", id |-> msgid + 1]]
  BY DEF CallEnqueue
<1>2. msgid \in Nat /\ called[msgid + 1] = 0
  BY <1>1 DEF IInv, Types, UnusedInv, Unused
<1>3. ASSUME NEW m PROVE Awaiting(m) => Awaiting(m)' /\ m # msgid + 1
  BY <1>1, <1>2 DEF Awaiting, MsgIds
<1>4. Awaiting(msgid)' /\ caller'[t].id = msgid'
  BY <1>1, <1>2 DEF Awaiting, IInv, Types
<1>5. ASSUME NEW u \in Threads, u # t PROVE caller'[u] = caller[u]
  BY <1>1, <1>5 DEF IInv, Types
<1>6. Types' /\ UnusedInv'
  BY <1>1, <1>2 DEF IInv, Types, UnusedInv, Unused, MsgIds
<1>7. EntryInv' /\ EntriesDiffer'
  BY <1>1, <1>3 DEF IInv, EntryInv, EntriesDiffer
<1>8. QueuedInv'
  <2>1. ASSUME NEW u \in Threads, Queued(u)'
        PROVE  Awaiting(caller[u].id)' /\ \A e \in reqmap' : e.id # caller'[u].id
    <3>1. CASE u = t
      BY <1>1, <1>3, <1>4, <3>1 DEF IInv, EntryInv, Awaiting
    <3>2. CASE u # t
      BY <1>1, <1>3, <1>5, <2>1, <3>2 DEF IInv, QueuedInv, Queued, Awaiting
    <3> QED BY <3>1, <3>2
  <2> QED BY <2>1 DEF QueuedInv
<1>9. QueuedDiffer'
  <2>1. ASSUME NEW u \in Threads, u # t, Queued(u)' PROVE caller'[u].id # caller'[t].id
    BY <1>1, <1>3, <1>4, <1>5, <2>1 DEF IInv, QueuedInv, Queued
  <2> QED BY <1>5, <2>1 DEF IInv, QueuedDiffer, Queued
<1> QED BY <1>6, <1>7, <1>8, <1>9 DEF IInv

\* It hands its id over to reqmap_.
LEMMA CallRegisterIInv ==
    ASSUME IInv, NEW t \in Threads, CallRegister(t)
    PROVE  IInv'
<1>1. /\ UNCHANGED <<msgid, called>> /\ Queued(t)
      /\ reqmap' = reqmap \cup {[id |-> caller[t].id, kind |-> "call"]}
      /\ caller' = [caller EXCEPT ![t] = [at |-> "idle", id |-> 0]]
  BY DEF CallRegister, Queued
<1>2. ASSUME NEW m PROVE Awaiting(m)' = Awaiting(m)
  BY <1>1 DEF Awaiting
<1>3. Types' /\ ~Queued(t)' /\ UnusedInv'
  BY <1>1 DEF IInv, Types, Queued, UnusedInv, Unused
<1>4. ASSUME NEW u \in Threads, u # t PROVE caller'[u] = caller[u]
  BY <1>1, <1>4 DEF IInv, Types
<1>5. Awaiting(caller[t].id) /\ \A e \in reqmap : e.id # caller[t].id
  BY <1>1 DEF IInv, QueuedInv
<1>6. EntryInv' /\ EntriesDiffer'
  BY <1>1, <1>2, <1>5 DEF IInv, EntryInv, EntriesDiffer
<1>7. QueuedInv'
  <2>1. ASSUME NEW u \in Threads, Queued(u)'
        PROVE  Awaiting(caller[u].id)' /\ \A e \in reqmap' : e.id # caller'[u].id
    <3>1. u # t /\ caller'[u] = caller[u] /\ Queued(u)
      BY <1>3, <1>4, <2>1 DEF Queued
    <3>2. caller[u].id # caller[t].id
      BY <1>1, <3>1 DEF IInv, QueuedDiffer
    <3>3. Awaiting(caller[u].id) /\ \A e \in reqmap : e.id # caller[u].id
      BY <3>1 DEF IInv, QueuedInv
    <3> QED BY <1>1, <3>1, <3>2, <3>3 DEF Awaiting
  <2> QED BY <2>1 DEF QueuedInv
<1>8. QueuedDiffer'
  BY <1>3, <1>4 DEF IInv, QueuedDiffer, Queued
<1> QED BY <1>3, <1>6, <1>7, <1>8 DEF IInv

---------------------------------------------------------------------------
(* One callback *)

\* Every step of the client, its threads, the IO thread and the server keeps
\* the invariant.
THEOREM NextIInv == IInv /\ [Next]_vars => IInv'
<1> SUFFICES ASSUME IInv, [Next]_vars PROVE IInv'
  OBVIOUS
<1>1. CASE UpdateStep
  BY <1>1, QuietUpdateIInv, ProcessReplyIInv, PollingCallIInv, ProcessTimeoutIInv DEF UpdateStep
<1>2. CASE SwitchReconnect \/ Release
  BY <1>2, QuietUpdateIInv
<1>3. CASE PollCall
  BY <1>3, PollingCallIInv
<1>4. CASE \E t \in Threads : CallCheck(t) \/ CallStep(t)
  BY <1>4, CallCheckIInv, CallEnqueueIInv, CallRegisterIInv DEF CallStep
<1>5. CASE \/ Write \/ Stop
           \/ \E s \in Streams : ReadEvent(s) \/ CallBreaks(s) \/ ServerClose(s)
           \/ \E s \in Streams, i \in 1..Cardinality(MsgIds), ok \in BOOLEAN : Answer(s, i, ok)
  BY <1>5, OthersIInv
<1>6. CASE StopStep
  BY <1>6, OthersIInv, QuietUpdateIInv DEF StopStep
<1>7. CASE UNCHANGED vars
  BY <1>7, KeepsIInv DEF vars
<1> QED BY <1>1, <1>2, <1>3, <1>4, <1>5, <1>6, <1>7 DEF Next

\* The invariant says that a call has had at most one callback.
LEMMA IInvOneCallback == IInv => OneCallback
BY DEF IInv, Types, OneCallback

\* However many threads call mtk_conn_send while Update polls, and whatever
\* replies, timeouts, disconnects, resets and the close do: the callback of a
\* request is called at most once.
THEOREM OneCallbackTheorem == Safety => []OneCallback
<1>1. Init => IInv
  BY InitIInv
<1>2. IInv /\ [Next]_vars => IInv'
  BY NextIInv
<1>3. IInv => OneCallback
  BY IInvOneCallback
<1> QED BY <1>1, <1>2, <1>3, PTL DEF Safety

---------------------------------------------------------------------------
(* status_: the inductive invariant *)

\* What a queue holds, in whatever order.
Elems(q) == {q[j] : j \in 1..Len(q)}

\* What the queues and the calls carry.
RequestSet == [by : Threads \cup {"poll", "none"}, kind : {"none", "call", "connect", "establish", "close"},
               id : Nat]
ReplySet == [by : {"poll", "io"}, kind : {"reply", "ESTABLISHED", "DISCONNECT"}, id : Nat, ok : BOOLEAN]
AnswerSet == [id : Nat, ok : BOOLEAN]
StreamSet == [st : {"none", "open", "dead"}, start : BOOLEAN, read : BOOLEAN, write : RequestSet,
              doomed : BOOLEAN, inbox : Seq(RequestSet), back : Seq(AnswerSet),
              login : {"none", "accepted", "denied"}]
EntrySet == [id : Nat, kind : {"call", "connect"}]

\* The types of what the invariant is about.
QueueTypes ==
    /\ requests \in Seq(RequestSet)
    /\ replys \in Seq(ReplySet)
    /\ stream \in [Streams -> StreamSet]
    /\ reqmap \subseteq EntrySet
    /\ seq \in 0..MaxOpen
    /\ poll \in [at : {"idle", "replies", "drainReq", "drainMap", "switch", "timeout"},
                ev : {"none", "unready", "ESTABLISHED", "DISCONNECT"}]

\* No message has an id NewMsgId has not given.
FreshInv ==
    /\ \A r \in Elems(requests) : r.id <= msgid
    /\ \A r \in Elems(replys) : r.id <= msgid
    /\ \A s \in Streams : /\ stream[s].write.id <= msgid
                          /\ \A r \in Elems(stream[s].inbox) : r.id <= msgid
                          /\ \A b \in Elems(stream[s].back) : b.id <= msgid

\* The entries of StartWrite that wait for the answer to the login.
Logins == {e \in reqmap : e.kind = "connect"}
\* The server of the call in use has accepted the login.
Accepted == seq # 0 /\ stream[seq].login = "accepted"

\* What has the id of a waiting login is that login, on the call in use; an answer with
\* ok = true comes from the server that has accepted it.
LoginInv == \A e \in Logins :
    /\ \A r \in Elems(requests) : r.id = e.id => r.kind = "connect"
    /\ \A s \in Streams :
         /\ stream[s].write.id = e.id => s = seq /\ stream[s].write.kind = "connect"
         /\ \A r \in Elems(stream[s].inbox) : r.id = e.id => s = seq /\ r.kind = "connect"
         /\ \A b \in Elems(stream[s].back) : b.id = e.id => s = seq /\ (b.ok => Accepted)
    /\ \A r \in Elems(replys) : r.kind = "reply" /\ r.id = e.id /\ r.ok => Accepted

\* A login waits only behind ESTABLISHED.
LoginStatus == Logins # {} => status \in {"INITIALIZING", "CONNECT"}

\* Only a client that is CONNECTING has asked for a call to be opened.
Establishing == \A r \in Elems(requests) :
    r.kind = "establish" => status = "CONNECTING" /\ poll.at # "drainMap"

\* The call in use has a completion under way, or its end is queued.
Hears == \/ stream[seq].start \/ stream[seq].read
         \/ \E r \in Elems(replys) : r.kind = "DISCONNECT"

\* Update is in DrainQueue and will set the state.
Draining == poll.at \in {"drainReq", "drainMap"}

\* An open call has its start or a read under way.
Busy == seq # 0 /\ stream[seq].st = "open" => stream[seq].start \/ stream[seq].read

\* A queued answer to the login has not silenced its call.
Answered == \A e \in Logins, r \in Elems(replys) :
    seq # 0 /\ r.kind = "reply" /\ r.id = e.id => Hears

\* The end of the call in use is noticed.
Noticed == status \in Connected /\ seq # 0 /\ stream[seq].st = "dead" =>
              Hears \/ Draining \/ status = "ESTABLISHED" \/ Logins # {}

\* What holds until the connection is closed.
Truth == closing = "no" => Handshake /\ Busy /\ Answered /\ Noticed

SInv == IInv /\ QueueTypes /\ FreshInv /\ LoginInv /\ LoginStatus /\ Establishing /\ Truth
---------------------------------------------------------------------------
(* Queues *)

\* What is queued has the type of the queue.
LEMMA ElemsIn == ASSUME NEW S, NEW q \in Seq(S) PROVE Elems(q) \subseteq S
  BY ElementOfSeq DEF Elems

\* The empty queue.
LEMMA ElemsEmpty == Elems(<<>>) = {}
  BY DEF Elems

\* enqueue adds one element.
LEMMA ElemsEnqueue ==
  ASSUME NEW S, NEW q \in Seq(S), NEW e \in S
  PROVE  /\ Enqueue(q, e) \in Seq(S) /\ Append(q, e) \in Seq(S)
         /\ Elems(Enqueue(q, e)) = Elems(q) \cup {e}
         /\ Elems(Append(q, e)) = Elems(q) \cup {e}
<1>1. Len(q) \in Nat
  BY LenProperties
<1>2. PICK a : a = Append(q, e)
  OBVIOUS
<1>3. a \in Seq(S) /\ Len(a) = Len(q) + 1 /\ a[Len(q) + 1] = e
      /\ \A i \in 1..Len(q) : a[i] = q[i]
  BY <1>2, AppendProperties
<1>4. Elems(a) = Elems(q) \cup {e}
  BY <1>1, <1>3 DEF Elems
<1> QED BY <1>2, <1>3, <1>4 DEF Enqueue

\* RemoveAt, position by position.
LEMMA RemoveProperties ==
  ASSUME NEW S, NEW q \in Seq(S), NEW j \in 1..Len(q)
  PROVE  /\ RemoveAt(q, j) \in Seq(S) /\ Len(RemoveAt(q, j)) = Len(q) - 1
         /\ \A i \in 1..(Len(q) - 1) : RemoveAt(q, j)[i] = IF i < j THEN q[i] ELSE q[i + 1]
<1>1. Len(q) \in Nat
  BY LenProperties
<1> DEFINE s == SubSeq(q, 1, j - 1)
           t == SubSeq(q, j + 1, Len(q))
<1>2. s \in Seq(S) /\ Len(s) = j - 1 /\ \A i \in 1..(j - 1) : s[i] = q[i]
  BY <1>1, SubSeqProperties
<1>3. t \in Seq(S) /\ Len(t) = Len(q) - j /\ \A i \in 1..(Len(q) - j) : t[i] = q[j + i]
  BY <1>1, SubSeqProperties
<1>4. RemoveAt(q, j) = s \o t
  BY DEF RemoveAt
<1> HIDE DEF s, t
<1>5. /\ s \o t \in Seq(S) /\ Len(s \o t) = Len(s) + Len(t)
      /\ \A i \in 1..(Len(s) + Len(t)) : (s \o t)[i] = IF i <= Len(s) THEN s[i] ELSE t[i - Len(s)]
  BY <1>2, <1>3, ConcatProperties
<1>6. Len(s) + Len(t) = Len(q) - 1
  BY <1>1, <1>2, <1>3
<1>7. ASSUME NEW i \in 1..(Len(q) - 1)
      PROVE  (s \o t)[i] = IF i < j THEN q[i] ELSE q[i + 1]
  <2>1. CASE i < j
    BY <1>1, <1>2, <1>5, <1>6, <2>1
  <2>2. CASE ~(i < j)
    <3>1. (s \o t)[i] = t[i - (j - 1)]
      BY <1>1, <1>2, <1>5, <1>6, <2>2
    <3>2. i - (j - 1) \in 1..(Len(q) - j) /\ j + (i - (j - 1)) = i + 1
      BY <1>1, <2>2
    <3>3. t[i - (j - 1)] = q[j + (i - (j - 1))]
      BY <1>3, <3>2
    <3> QED BY <2>2, <3>1, <3>2, <3>3
  <2> QED BY <2>1, <2>2
<1> QED BY <1>4, <1>5, <1>6, <1>7

\* It takes one element and leaves the others.
LEMMA ElemsRemove ==
  ASSUME NEW S, NEW q \in Seq(S), NEW j \in 1..Len(q)
  PROVE  /\ RemoveAt(q, j) \in Seq(S) /\ Elems(RemoveAt(q, j)) \subseteq Elems(q)
         /\ Elems(q) \subseteq Elems(RemoveAt(q, j)) \cup {q[j]}
         /\ q[j] \in Elems(q)
<1>1. Len(q) \in Nat
  BY LenProperties
<1>2. PICK a : a = RemoveAt(q, j)
  OBVIOUS
<1>3. /\ a \in Seq(S) /\ Len(a) = Len(q) - 1
      /\ \A i \in 1..(Len(q) - 1) : a[i] = IF i < j THEN q[i] ELSE q[i + 1]
  BY <1>2, RemoveProperties
<1>4. Elems(a) \subseteq Elems(q)
  <2>1. ASSUME NEW i \in 1..Len(a) PROVE a[i] \in Elems(q)
    <3>1. i \in 1..Len(q) /\ i + 1 \in 1..Len(q)
      BY <1>1, <1>3
    <3>2. a[i] = q[i] \/ a[i] = q[i + 1]
      BY <1>3
    <3> QED BY <3>1, <3>2 DEF Elems
  <2> QED BY <2>1 DEF Elems
<1>5. ASSUME NEW k \in 1..Len(q), k # j PROVE q[k] \in Elems(a)
  <2>1. CASE k < j
    BY <1>1, <1>3, <2>1 DEF Elems
  <2>2. CASE k > j
    <3>1. k - 1 \in 1..(Len(q) - 1) /\ ~(k - 1 < j) /\ (k - 1) + 1 = k
      BY <1>1, <2>2
    <3>2. a[k - 1] = q[k]
      BY <1>3, <3>1
    <3> QED BY <1>3, <3>1, <3>2 DEF Elems
  <2> QED BY <1>1, <1>5, <2>1, <2>2
<1>6. Elems(q) \subseteq Elems(a) \cup {q[j]}
  BY <1>5 DEF Elems
<1> QED BY <1>2, <1>3, <1>4, <1>6 DEF Elems

\* try_dequeue takes the element it gives and leaves the others.
LEMMA ElemsDequeue ==
  ASSUME NEW S, NEW q \in Seq(S), NEW j \in Heads(q)
  PROVE  /\ j \in 1..Len(q) /\ q[j] \in S
         /\ Dequeue(q, j) \in Seq(S) /\ Elems(Dequeue(q, j)) \subseteq Elems(q)
         /\ Elems(q) \subseteq Elems(Dequeue(q, j)) \cup {q[j]}
         /\ q[j] \in Elems(q)
<1>1. j \in 1..Len(q)
  BY DEF Heads
<1> QED BY <1>1, ElemsRemove, ElemsIn DEF Dequeue

\* Taking the oldest answer of a call leaves the others.
LEMMA ElemsTail ==
  ASSUME NEW S, NEW q \in Seq(S), q # <<>>
  PROVE  /\ Tail(q) \in Seq(S) /\ Elems(Tail(q)) \subseteq Elems(q)
         /\ Head(q) \in Elems(q) /\ Head(q) \in S
<1>1. Len(q) \in Nat /\ Len(q) > 0
  BY LenProperties, EmptySeq
<1>2. Tail(q) \in Seq(S) /\ Len(Tail(q)) = Len(q) - 1 /\ \A i \in 1..Len(Tail(q)) : Tail(q)[i] = q[i + 1]
      /\ Head(q) = q[1]
  BY HeadTailProperties
<1>3. q[1] \in Elems(q)
  BY <1>1 DEF Elems
<1>4. Elems(Tail(q)) \subseteq Elems(q)
  BY <1>1, <1>2 DEF Elems
<1> QED BY <1>2, <1>3, <1>4, ElemsIn

---------------------------------------------------------------------------
(* Messages in flight *)

\* What a step without a new message id may do to a call.
StreamFlow(s) ==
    /\ \/ stream'[s].write = stream[s].write \/ stream'[s].write.id = 0
       \/ s = seq /\ stream'[s].write \in Elems(requests)
    /\ \A r \in Elems(stream'[s].inbox) : r \in Elems(stream[s].inbox) \/ r = stream[s].write
    /\ \A b \in Elems(stream'[s].back) :
         \/ b \in Elems(stream[s].back)
         \/ \E r \in Elems(stream[s].inbox) :
              b.id = r.id /\ (b.ok /\ r.kind = "connect" => stream'[s].login = "accepted")
    /\ stream[s].login = "accepted" => stream'[s].login = "accepted"

\* What is under way for the login stays what it is while messages move on.
LEMMA FlowLogin ==
  ASSUME IInv, QueueTypes, FreshInv, LoginInv, UNCHANGED <<msgid, seq>>, reqmap' \subseteq reqmap,
         \A r \in Elems(requests') : r \in Elems(requests) \/ r.id = 0,
         \A r \in Elems(replys') : \/ r \in Elems(replys) \/ r.id = 0
                                   \/ \E s \in Streams : \E b \in Elems(stream[s].back) :
                                        b.id = r.id /\ b.ok = r.ok,
         \A s \in Streams : StreamFlow(s)
  PROVE  FreshInv' /\ LoginInv'
<1>1. msgid \in Nat /\ \A e \in reqmap : e.id \in Nat /\ e.id > 0 /\ e.id <= msgid
  BY DEF IInv, Types, EntryInv, Awaiting, MsgIds
<1>2. FreshInv'
  <2>1. \A r \in Elems(requests') : r.id <= msgid
    BY <1>1 DEF FreshInv
  <2>2. \A r \in Elems(replys') : r.id <= msgid
    BY <1>1 DEF FreshInv
  <2>3. ASSUME NEW s \in Streams
        PROVE  /\ stream'[s].write.id <= msgid
               /\ \A r \in Elems(stream'[s].inbox) : r.id <= msgid
               /\ \A b \in Elems(stream'[s].back) : b.id <= msgid
    <3>1. StreamFlow(s)
      OBVIOUS
    <3>2. stream'[s].write.id <= msgid
      BY <1>1, <3>1 DEF FreshInv, StreamFlow
    <3>3. \A r \in Elems(stream'[s].inbox) : r.id <= msgid
      BY <3>1 DEF FreshInv, StreamFlow
    <3>4. \A b \in Elems(stream'[s].back) : b.id <= msgid
      BY <3>1 DEF FreshInv, StreamFlow
    <3> QED BY <3>2, <3>3, <3>4
  <2> QED BY <2>1, <2>2, <2>3 DEF FreshInv
<1>3. Accepted => Accepted'
  <2>1. seq # 0 => seq \in Streams
    BY DEF QueueTypes, Streams
  <2> QED BY <2>1 DEF Accepted, StreamFlow
<1>4. ASSUME NEW e \in Logins'
      PROVE  /\ \A r \in Elems(requests') : r.id = e.id => r.kind = "connect"
             /\ \A s \in Streams :
                  /\ stream'[s].write.id = e.id => s = seq' /\ stream'[s].write.kind = "connect"
                  /\ \A r \in Elems(stream'[s].inbox) : r.id = e.id => s = seq' /\ r.kind = "connect"
                  /\ \A b \in Elems(stream'[s].back) : b.id = e.id => s = seq' /\ (b.ok => Accepted')
             /\ \A r \in Elems(replys') : r.kind = "reply" /\ r.id = e.id /\ r.ok => Accepted'
  <2>1. e \in Logins /\ e.id # 0
    BY <1>1 DEF Logins
  <2>2. \A r \in Elems(requests') : r.id = e.id => r.kind = "connect"
    BY <2>1 DEF LoginInv
  <2>3. \A r \in Elems(replys') : r.kind = "reply" /\ r.id = e.id /\ r.ok => Accepted'
    BY <1>3, <2>1 DEF LoginInv
  <2>4. ASSUME NEW s \in Streams
        PROVE  /\ stream'[s].write.id = e.id => s = seq' /\ stream'[s].write.kind = "connect"
               /\ \A r \in Elems(stream'[s].inbox) : r.id = e.id => s = seq' /\ r.kind = "connect"
    <3>1. StreamFlow(s) /\ seq' = seq
      OBVIOUS
    <3>2. stream'[s].write.id = e.id => s = seq' /\ stream'[s].write.kind = "connect"
      BY <2>1, <3>1 DEF LoginInv, StreamFlow
    <3>3. \A r \in Elems(stream'[s].inbox) : r.id = e.id => s = seq' /\ r.kind = "connect"
      BY <2>1, <3>1 DEF LoginInv, StreamFlow
    <3> QED BY <3>2, <3>3
  <2>5. ASSUME NEW s \in Streams, NEW b \in Elems(stream'[s].back), b.id = e.id
        PROVE  s = seq' /\ (b.ok => Accepted')
    <3>1. CASE b \in Elems(stream[s].back)
      BY <1>3, <2>1, <2>5, <3>1 DEF LoginInv
    <3>2. CASE b \notin Elems(stream[s].back)
      <4>1. PICK r \in Elems(stream[s].inbox) :
              b.id = r.id /\ (b.ok /\ r.kind = "connect" => stream'[s].login = "accepted")
        BY <3>2 DEF StreamFlow
      <4>2. s = seq /\ r.kind = "connect"
        BY <2>1, <2>5, <4>1 DEF LoginInv
      <4>3. s # 0
        BY DEF Streams
      <4> QED BY <4>1, <4>2, <4>3 DEF Accepted
    <3> QED BY <3>1, <3>2
  <2> QED BY <2>2, <2>3, <2>4, <2>5
<1>5. LoginInv'
  BY <1>4 DEF LoginInv
<1> QED BY <1>2, <1>5

\* What a step does to what the client will hear, while its state stays.
LEMMA FlowTruth ==
  ASSUME QueueTypes, Truth, closing' = "no" => closing = "no", UNCHANGED <<seq, status, reqmap>>,
         Draining => Draining', \A s \in Streams : StreamFlow(s),
         closing' = "no" /\ seq # 0 =>
           /\ Hears => Hears' \/ (Draining' /\ Elems(replys') = {})
           /\ stream'[seq].st = stream[seq].st \/ (stream[seq].st = "open" /\ stream'[seq].st = "dead")
           /\ stream'[seq].st = "open" /\ (stream[seq].start \/ stream[seq].read) =>
                stream'[seq].start \/ stream'[seq].read
           /\ \A r \in Elems(replys') : r \in Elems(replys) \/ r.kind # "reply" \/ Hears'
  PROVE  Truth'
<1> SUFFICES ASSUME closing' = "no" PROVE (Handshake /\ Busy /\ Answered /\ Noticed)'
  BY DEF Truth
<1>1. Handshake /\ Busy /\ Answered /\ Noticed /\ Logins' = Logins
  BY DEF Truth, Logins
<1>2. Handshake'
  <2>1. seq # 0 => seq \in Streams
    BY DEF QueueTypes, Streams
  <2> QED BY <1>1, <2>1 DEF Handshake, StreamFlow
<1>3. Busy'
  BY <1>1 DEF Busy
<1>4. Answered'
  <2>1. ASSUME NEW e \in Logins, NEW r \in Elems(replys'), seq # 0, r.kind = "reply", r.id = e.id
        PROVE  Hears'
    BY <1>1, <2>1 DEF Answered
  <2> QED BY <1>1, <2>1 DEF Answered
<1>5. Noticed'
  <2> SUFFICES ASSUME status \in Connected, seq # 0, stream'[seq].st = "dead"
               PROVE  Hears' \/ Draining' \/ status = "ESTABLISHED" \/ Logins # {}
    BY <1>1 DEF Noticed, Connected
  <2>1. CASE stream[seq].st = "open"
    BY <1>1, <2>1 DEF Busy, Hears
  <2>2. CASE stream[seq].st = "dead"
    BY <1>1, <2>2 DEF Noticed
  <2> QED BY <2>1, <2>2
<1> QED BY <1>2, <1>3, <1>4, <1>5

\* A step that registers nothing and changes neither the state nor the call in use.
LEMMA FlowSInv ==
  ASSUME SInv, IInv', QueueTypes', UNCHANGED <<msgid, seq, status, reqmap>>,
         closing' = "no" => closing = "no", Draining => Draining',
         poll'.at = "drainMap" => poll.at = "drainMap" \/ Elems(requests') = {},
         \A r \in Elems(requests') : r \in Elems(requests) \/ (r.id = 0 /\ r.kind = "close"),
         \A r \in Elems(replys') : \/ r \in Elems(replys) \/ r.id = 0
                                   \/ \E s \in Streams : \E b \in Elems(stream[s].back) :
                                        b.id = r.id /\ b.ok = r.ok,
         \A s \in Streams : StreamFlow(s),
         closing' = "no" /\ seq # 0 =>
           /\ Hears => Hears' \/ (Draining' /\ Elems(replys') = {})
           /\ stream'[seq].st = stream[seq].st \/ (stream[seq].st = "open" /\ stream'[seq].st = "dead")
           /\ stream'[seq].st = "open" /\ (stream[seq].start \/ stream[seq].read) =>
                stream'[seq].start \/ stream'[seq].read
           /\ \A r \in Elems(replys') : r \in Elems(replys) \/ r.kind # "reply" \/ Hears'
  PROVE  SInv'
<1>1. Logins' = Logins
  BY DEF Logins
<1>2. FreshInv' /\ LoginInv'
  BY FlowLogin DEF SInv
<1>3. Truth'
  BY FlowTruth DEF SInv
<1>4. LoginStatus' /\ Establishing'
  BY <1>1 DEF SInv, LoginStatus, Establishing
<1> QED BY <1>2, <1>3, <1>4 DEF SInv

---------------------------------------------------------------------------
(* The calls *)

\* Calls that stay as they are flow.
LEMMA StreamStays == ASSUME NEW s, stream'[s] = stream[s] PROVE StreamFlow(s)
  BY DEF StreamFlow

\* What the client would hear, it hears when its call and its events stay.
LEMMA HearsSame ==
  ASSUME stream'[seq] = stream[seq], seq' = seq, Elems(replys) \subseteq Elems(replys')
  PROVE  Hears => Hears'
  BY DEF Hears

\* The messages the client makes.
LEMMA MessagesMade ==
  /\ NoRequest \in RequestSet /\ NoRequest.id = 0 /\ NoRequest.kind = "none"
  /\ NoStream \in StreamSet
  /\ \A b \in {"poll", "io"}, k \in {"ESTABLISHED", "DISCONNECT"} :
       Event(b, k) \in ReplySet /\ Event(b, k).id = 0 /\ Event(b, k).kind = k
  /\ \A i \in Nat, k \in BOOLEAN :
       Reply(i, k) \in ReplySet /\ Reply(i, k).id = i /\ Reply(i, k).kind = "reply" /\ Reply(i, k).ok = k
  /\ \A t \in Threads \cup {"poll"}, k \in {"call", "connect", "establish", "close"}, i \in Nat :
       Request(t, k, i) \in RequestSet /\ Request(t, k, i).id = i /\ Request(t, k, i).kind = k
<1>1. NoRequest \in RequestSet /\ NoRequest.id = 0 /\ NoRequest.kind = "none"
  BY DEF NoRequest, Request, RequestSet
<1>2. <<>> \in Seq(RequestSet) /\ <<>> \in Seq(AnswerSet)
  OBVIOUS
<1>3. NoStream \in StreamSet
  BY <1>1, <1>2 DEF NoStream, StreamSet
<1> QED BY <1>1, <1>3 DEF Event, Reply, Request, ReplySet, RequestSet

\* A Write changes one field of its call.
LEMMA Wrote ==
  ASSUME NEW r \in StreamSet, NEW req \in RequestSet
  PROVE  /\ Writing(r, req) \in StreamSet
         /\ Writing(r, req).write = req
         /\ Writing(r, req).st = r.st /\ Writing(r, req).start = r.start /\ Writing(r, req).read = r.read
         /\ Writing(r, req).inbox = r.inbox /\ Writing(r, req).back = r.back
         /\ Writing(r, req).login = r.login
BY DEF StreamSet, Writing

\* A Write that completes hands its message to the server of its call.
LEMMA ReceivedFields ==
  ASSUME NEW r \in StreamSet
  PROVE  /\ Received(r) \in StreamSet
         /\ Received(r).write = NoRequest
         /\ Received(r).st = r.st /\ Received(r).start = r.start /\ Received(r).read = r.read
         /\ Elems(Received(r).inbox) \subseteq Elems(r.inbox) \cup {r.write}
         /\ Received(r).back = r.back /\ Received(r).login = r.login
<1>0. NoRequest \in RequestSet
  BY MessagesMade
<1>1. r.inbox \in Seq(RequestSet) /\ r.write \in RequestSet
  BY DEF StreamSet
<1>2. Append(r.inbox, r.write) \in Seq(RequestSet)
      /\ Elems(Append(r.inbox, r.write)) = Elems(r.inbox) \cup {r.write}
  BY <1>1, ElemsEnqueue
<1>3. CASE r.st = "dead"
  <2>1. PICK x : x = [r EXCEPT !.write = NoRequest]
    OBVIOUS
  <2>2. /\ x \in StreamSet /\ x.write = NoRequest /\ x.st = r.st /\ x.start = r.start /\ x.read = r.read
        /\ x.inbox = r.inbox /\ x.back = r.back /\ x.login = r.login
    BY <1>0, <2>1 DEF StreamSet
  <2> QED BY <1>3, <2>1, <2>2 DEF Received
<1>4. CASE r.st # "dead"
  <2>1. PICK x, q : x = [r EXCEPT !.write = NoRequest, !.inbox = q] /\ q = Append(r.inbox, r.write)
    OBVIOUS
  <2>2. Received(r) = x
    BY <1>4, <2>1 DEF Received
  <2>3. q \in Seq(RequestSet) /\ Elems(q) = Elems(r.inbox) \cup {r.write}
    BY <1>2, <2>1
  <2>4. /\ x \in StreamSet /\ x.write = NoRequest /\ x.st = r.st /\ x.start = r.start /\ x.read = r.read
        /\ x.inbox = q /\ x.back = r.back /\ x.login = r.login
    BY <1>0, <2>1, <2>3 DEF StreamSet
  <2> QED BY <2>2, <2>3, <2>4
<1> QED BY <1>3, <1>4

\* One call changes.
LEMMA ReplaceStream ==
  ASSUME QueueTypes, NEW s, NEW r, s \in Streams => r \in StreamSet,
         stream' = [stream EXCEPT ![s] = r]
  PROVE  /\ stream' \in [Streams -> StreamSet]
         /\ s \in Streams => stream'[s] = r
         /\ \A u \in Streams : u # s => stream'[u] = stream[u]
BY DEF QueueTypes

---------------------------------------------------------------------------
(* The IO thread *)

\* The IO thread takes a request: it writes it on its call, or opens the next call.
LEMMA RunTimeoutSInv ==
  ASSUME SInv, IInv', NEW j \in Heads(requests), RunTimeout(j)
  PROVE  SInv'
<1>1. /\ j \in 1..Len(requests) /\ requests[j] \in RequestSet
      /\ requests' = Dequeue(requests, j) /\ requests' \in Seq(RequestSet)
      /\ Elems(requests') \subseteq Elems(requests) /\ requests[j] \in Elems(requests)
  BY ElemsDequeue DEF RunTimeout, SInv, QueueTypes
<1>2. UNCHANGED <<replys, status, reqmap, msgid, poll, closing>>
  BY DEF RunTimeout, Polling, Client, stopVars
<1>3. seq \in 0..MaxOpen /\ MaxOpen \in Nat /\ stream \in [Streams -> StreamSet]
  BY OpenAssumption DEF SInv, QueueTypes
<1>4. CASE requests[j].kind # "establish"
  <2>1. PICK r : r = Writing(stream[seq], requests[j])
    OBVIOUS
  <2>2. stream' = [stream EXCEPT ![seq] = r] /\ UNCHANGED seq
    BY <1>4, <2>1 DEF RunTimeout
  <2>3. seq \in Streams =>
        /\ r \in StreamSet /\ r.write = requests[j] /\ r.st = stream[seq].st /\ r.start = stream[seq].start
        /\ r.read = stream[seq].read /\ r.inbox = stream[seq].inbox /\ r.back = stream[seq].back
        /\ r.login = stream[seq].login
    BY <1>1, <1>3, <2>1, Wrote
  <2>4. /\ stream' \in [Streams -> StreamSet]
        /\ seq \in Streams => stream'[seq] = r
        /\ \A u \in Streams : u # seq => stream'[u] = stream[u]
    BY <1>3, <2>2, <2>3, ReplaceStream DEF SInv
  <2>5. QueueTypes'
    BY <1>1, <1>2, <2>2, <2>4 DEF SInv, QueueTypes
  <2>6. ASSUME NEW s \in Streams PROVE StreamFlow(s)
    BY <1>1, <2>3, <2>4, StreamStays DEF StreamFlow
  <2>7. seq # 0 => seq \in Streams
    BY <1>3 DEF Streams
  <2>8. seq # 0 => (Hears => Hears')
    BY <1>2, <2>2, <2>3, <2>4, <2>7 DEF Hears
  <2>9. seq # 0 =>
           /\ Hears => Hears' \/ (Draining' /\ Elems(replys') = {})
           /\ stream'[seq].st = stream[seq].st \/ (stream[seq].st = "open" /\ stream'[seq].st = "dead")
           /\ stream'[seq].st = "open" /\ (stream[seq].start \/ stream[seq].read) =>
                stream'[seq].start \/ stream'[seq].read
           /\ \A r2 \in Elems(replys') : r2 \in Elems(replys) \/ r2.kind # "reply" \/ Hears'
    BY <1>2, <2>3, <2>4, <2>7, <2>8
  <2>10. Draining = Draining' /\ \A r2 \in Elems(replys') : r2 \in Elems(replys)
    BY <1>2 DEF Draining
  <2> QED BY <1>1, <1>2, <2>2, <2>5, <2>6, <2>9, <2>10, FlowSInv
<1>5. CASE requests[j].kind = "establish"
  <2>1. /\ seq < MaxOpen /\ seq' = seq + 1
        /\ stream' = [s \in Streams |->
                    CASE s = seq + 1 -> [NoStream EXCEPT !.st = "open", !.start = TRUE]
                      [] s = seq -> [stream[s] EXCEPT !.st = "dead"]
                      [] OTHER -> stream[s]]
    BY <1>5 DEF RunTimeout, Open
  <2>2. status = "CONNECTING" /\ Logins = {} /\ Logins' = {}
    BY <1>1, <1>2, <1>5 DEF SInv, Establishing, LoginStatus, Logins
  <2>3. PICK n : n = [NoStream EXCEPT !.st = "open", !.start = TRUE]
    OBVIOUS
  <2>4. n \in StreamSet /\ n.start = TRUE /\ n.st = "open" /\ n.write.id = 0 /\ n.inbox = <<>> /\ n.back = <<>>
    <3>1. NoStream.write = NoRequest /\ NoStream.inbox = <<>> /\ NoStream.back = <<>>
      BY DEF NoStream
    <3> QED BY <2>3, <3>1, MessagesMade DEF StreamSet
  <2>5. ASSUME NEW s \in Streams
        PROVE  /\ stream'[s] \in StreamSet
               /\ s = seq + 1 => stream'[s] = n
               /\ s # seq + 1 => /\ stream'[s].write = stream[s].write /\ stream'[s].inbox = stream[s].inbox
                                /\ stream'[s].back = stream[s].back
    <3>1. CASE s = seq + 1
      BY <1>3, <2>1, <2>3, <2>4, <3>1
    <3>2. CASE s = seq
      <4>1. s # seq + 1 /\ stream[s] \in StreamSet /\ stream'[s] = [stream[s] EXCEPT !.st = "dead"]
        BY <1>3, <2>1, <3>2
      <4>2. PICK x, y : x = stream[s] /\ y = [x EXCEPT !.st = "dead"]
        OBVIOUS
      <4>3. y \in StreamSet /\ y.write = x.write /\ y.inbox = x.inbox /\ y.back = x.back
        BY <4>1, <4>2 DEF StreamSet
      <4> QED BY <4>1, <4>2, <4>3
    <3>3. CASE s # seq + 1 /\ s # seq
      BY <1>3, <2>1, <3>3
    <3> QED BY <3>1, <3>2, <3>3
  <2>6. QueueTypes'
    BY <1>1, <1>2, <1>3, <2>1, <2>5 DEF SInv, QueueTypes
  <2>7. FreshInv'
    <3>1. msgid \in Nat
      BY DEF SInv, IInv, Types
    <3>2. ASSUME NEW s \in Streams
          PROVE  /\ stream'[s].write.id <= msgid
                 /\ \A r \in Elems(stream'[s].inbox) : r.id <= msgid
                 /\ \A b \in Elems(stream'[s].back) : b.id <= msgid
      BY <2>4, <2>5, <3>1, ElemsEmpty DEF SInv, FreshInv
    <3> QED BY <1>1, <1>2, <3>2 DEF SInv, FreshInv
  <2>8. LoginInv' /\ LoginStatus' /\ Establishing'
    BY <1>1, <1>2, <2>2 DEF SInv, LoginInv, LoginStatus, Establishing
  <2>9. Truth'
    <3>1. seq + 1 \in Streams
      BY <1>3, <2>1 DEF Streams
    <3>2. Busy'
      BY <2>1, <2>4, <2>5, <3>1 DEF Busy
    <3> QED BY <1>2, <2>2, <3>2 DEF Truth, Handshake, Answered, Noticed, Connected
  <2> QED BY <2>6, <2>7, <2>8, <2>9 DEF SInv
<1> QED BY <1>4, <1>5

\* What FlowSInv asks of the call in use, when it stays open or dead as it is.
LEMMA SameHearing ==
  ASSUME seq' = seq, Elems(replys') = Elems(replys), poll' = poll,
         seq # 0 => /\ stream'[seq].st = stream[seq].st
                    /\ stream'[seq].start = stream[seq].start /\ stream'[seq].read = stream[seq].read
  PROVE  /\ Draining => Draining'
         /\ seq # 0 =>
           /\ Hears => Hears' \/ (Draining' /\ Elems(replys') = {})
           /\ stream'[seq].st = stream[seq].st \/ (stream[seq].st = "open" /\ stream'[seq].st = "dead")
           /\ stream'[seq].st = "open" /\ (stream[seq].start \/ stream[seq].read) =>
                stream'[seq].start \/ stream'[seq].read
           /\ \A r \in Elems(replys') : r \in Elems(replys) \/ r.kind # "reply" \/ Hears'
BY DEF Hears, Draining

\* The steps that only the IO thread's writes make.
LEMMA WriteSInv ==
  ASSUME SInv, IInv', NEW r, stream' = [stream EXCEPT ![seq] = r],
         UNCHANGED <<replys, seq>>, UNCHANGED Polling,
         requests' \in Seq(RequestSet), Elems(requests') \subseteq Elems(requests),
         seq \in Streams =>
           /\ r \in StreamSet
           /\ r.st = stream[seq].st /\ r.start = stream[seq].start /\ r.read = stream[seq].read
           /\ r.write = NoRequest \/ r.write \in Elems(requests) \/ r.write = stream[seq].write
           /\ Elems(r.inbox) \subseteq Elems(stream[seq].inbox) \cup {stream[seq].write}
           /\ r.back = stream[seq].back /\ r.login = stream[seq].login
  PROVE  SInv'
<1>1. UNCHANGED <<status, reqmap, msgid, poll, closing>>
  BY DEF Polling, Client, stopVars
<1>2. seq \in 0..MaxOpen /\ MaxOpen \in Nat
  BY OpenAssumption DEF SInv, QueueTypes
<1>3. /\ stream' \in [Streams -> StreamSet]
      /\ seq \in Streams => stream'[seq] = r
      /\ \A u \in Streams : u # seq => stream'[u] = stream[u]
  BY ReplaceStream DEF SInv
<1>4. QueueTypes'
  BY <1>1, <1>2, <1>3 DEF SInv, QueueTypes
<1>5. NoRequest.id = 0
  BY DEF NoRequest, Request
<1>6. ASSUME NEW s \in Streams PROVE StreamFlow(s)
  BY <1>3, <1>5, StreamStays DEF StreamFlow
<1>7. seq # 0 => seq \in Streams
  BY <1>2 DEF Streams
<1>8. seq # 0 => /\ stream'[seq].st = stream[seq].st
                 /\ stream'[seq].start = stream[seq].start /\ stream'[seq].read = stream[seq].read
  BY <1>3, <1>7
<1> QED BY <1>1, <1>4, <1>6, <1>8, SameHearing, FlowSInv

\* A write completes and the next request is written.
LEMMA WriteDoneSInv ==
  ASSUME SInv, IInv', NEW j \in Heads(requests), WriteDone(j)
  PROVE  SInv'
<1>1. /\ requests[j] \in RequestSet
      /\ requests' \in Seq(RequestSet)
      /\ Elems(requests') \subseteq Elems(requests) /\ requests[j] \in Elems(requests)
  BY ElemsDequeue DEF WriteDone, SInv, QueueTypes
<1>2. UNCHANGED <<replys, seq>> /\ UNCHANGED Polling
  BY DEF WriteDone
<1>3. stream \in [Streams -> StreamSet]
  BY DEF SInv, QueueTypes
<1>4. PICK x, y : x = Received(stream[seq]) /\ y = IF requests[j].kind = "establish" THEN stream[seq]
                                                 ELSE Writing(x, requests[j])
  OBVIOUS
<1>5. stream' = [stream EXCEPT ![seq] = y]
  <2>1. CASE requests[j].kind = "establish"
    BY <1>3, <1>4, <2>1 DEF WriteDone
  <2>2. CASE requests[j].kind # "establish"
    BY <1>4, <2>2 DEF WriteDone
  <2> QED BY <2>1, <2>2
<1>6. ASSUME seq \in Streams
      PROVE  /\ y \in StreamSet
             /\ y.st = stream[seq].st /\ y.start = stream[seq].start /\ y.read = stream[seq].read
             /\ y.write = NoRequest \/ y.write \in Elems(requests) \/ y.write = stream[seq].write
             /\ Elems(y.inbox) \subseteq Elems(stream[seq].inbox) \cup {stream[seq].write}
             /\ y.back = stream[seq].back /\ y.login = stream[seq].login
  <2>1. CASE requests[j].kind = "establish"
    BY <1>3, <1>4, <1>6, <2>1
  <2>2. CASE requests[j].kind # "establish"
    <3>1. /\ x \in StreamSet /\ x.st = stream[seq].st /\ x.start = stream[seq].start
          /\ x.read = stream[seq].read /\ x.back = stream[seq].back /\ x.login = stream[seq].login
          /\ Elems(x.inbox) \subseteq Elems(stream[seq].inbox) \cup {stream[seq].write}
      BY <1>3, <1>4, <1>6, ReceivedFields
    <3> QED BY <1>1, <1>4, <2>2, <3>1, Wrote
  <2> QED BY <2>1, <2>2
<1> QED BY <1>1, <1>2, <1>5, <1>6, WriteSInv

\* A write completes with nothing to write behind it, or fails.
LEMMA WriteEndSInv ==
  ASSUME SInv, IInv', WriteIdle \/ WriteFail
  PROVE  SInv'
<1>1. UNCHANGED <<replys, seq, requests>> /\ UNCHANGED Polling
  BY DEF WriteIdle, WriteFail
<1>2. stream \in [Streams -> StreamSet] /\ requests \in Seq(RequestSet)
  BY DEF SInv, QueueTypes
<1>3. CASE WriteIdle
  <2>1. PICK x : x = Received(stream[seq])
    OBVIOUS
  <2>2. stream' = [stream EXCEPT ![seq] = x]
    BY <1>3, <2>1 DEF WriteIdle
  <2>3. seq \in Streams =>
          /\ x \in StreamSet /\ x.st = stream[seq].st /\ x.start = stream[seq].start
          /\ x.read = stream[seq].read /\ x.back = stream[seq].back /\ x.login = stream[seq].login
          /\ Elems(x.inbox) \subseteq Elems(stream[seq].inbox) \cup {stream[seq].write}
          /\ x.write = NoRequest
    BY <1>2, <2>1, ReceivedFields
  <2> QED BY <1>1, <1>2, <2>2, <2>3, WriteSInv
<1>4. CASE WriteFail
  <2>1. PICK x : x = [stream[seq] EXCEPT !.write = NoRequest]
    OBVIOUS
  <2>2. stream' = [stream EXCEPT ![seq] = x]
    BY <1>4, <2>1 DEF WriteFail
  <2>3. seq \in Streams =>
          /\ x \in StreamSet /\ x.st = stream[seq].st /\ x.start = stream[seq].start
          /\ x.read = stream[seq].read /\ x.back = stream[seq].back /\ x.login = stream[seq].login
          /\ x.inbox = stream[seq].inbox
          /\ x.write = NoRequest
    <3>1. NoRequest \in RequestSet
      BY MessagesMade
    <3> QED BY <1>2, <2>1, <3>1 DEF StreamSet
  <2> QED BY <1>1, <1>2, <2>2, <2>3, WriteSInv
<1> QED BY <1>3, <1>4

\* io_->Read: a Read is under way on stream s.
ReadGiven(f, g, s) == g = [f EXCEPT ![s].read = TRUE]

\* It changes one field of the call in use.
LEMMA SetRead ==
  ASSUME NEW f \in [Streams -> StreamSet], NEW g, NEW s, ReadGiven(f, g, s)
  PROVE  /\ g \in [Streams -> StreamSet]
         /\ \A u \in Streams :
              /\ g[u].st = f[u].st /\ g[u].start = f[u].start /\ g[u].write = f[u].write
              /\ g[u].inbox = f[u].inbox /\ g[u].back = f[u].back /\ g[u].login = f[u].login
              /\ u = s => g[u].read = TRUE
<1>1. PICK y : y = [f[s] EXCEPT !.read = TRUE]
  OBVIOUS
<1>2. g = [f EXCEPT ![s] = y]
  BY <1>1 DEF ReadGiven
<1>3. TRUE \in BOOLEAN
  OBVIOUS
<1>4. s \in Streams => /\ y \in StreamSet /\ y.read = TRUE
                      /\ y.st = f[s].st /\ y.start = f[s].start /\ y.write = f[s].write
                      /\ y.inbox = f[s].inbox /\ y.back = f[s].back /\ y.login = f[s].login
  <2> SUFFICES ASSUME s \in Streams
               PROVE  /\ y \in StreamSet /\ y.read = TRUE
                      /\ y.st = f[s].st /\ y.start = f[s].start /\ y.write = f[s].write
                      /\ y.inbox = f[s].inbox /\ y.back = f[s].back /\ y.login = f[s].login
    OBVIOUS
  <2>1. PICK x : x = f[s]
    OBVIOUS
  <2>2. x \in StreamSet /\ y = [x EXCEPT !.read = TRUE]
    BY <1>1, <2>1
  <2>3. /\ y \in StreamSet /\ y.read = TRUE
        /\ y.st = x.st /\ y.start = x.start /\ y.write = x.write
        /\ y.inbox = x.inbox /\ y.back = x.back /\ y.login = x.login
    BY <2>2 DEF StreamSet
  <2> QED BY <2>1, <2>3
<1>5. g \in [Streams -> StreamSet]
  BY <1>2, <1>4
<1>6. ASSUME NEW u \in Streams
      PROVE  /\ g[u].st = f[u].st /\ g[u].start = f[u].start /\ g[u].write = f[u].write
             /\ g[u].inbox = f[u].inbox /\ g[u].back = f[u].back /\ g[u].login = f[u].login
             /\ u = s => g[u].read = TRUE
  <2>1. u # s => g[u] = f[u]
    BY <1>2
  <2>2. u = s => g[u] = y
    BY <1>2
  <2> QED BY <1>4, <2>1, <2>2
<1> QED BY <1>5, <1>6

\* A read is given a buffer: the client will hear of the end of the call.
LEMMA ReadingSInv ==
  ASSUME SInv, IInv', NEW s \in Streams, NEW y, NEW e,
         UNCHANGED <<requests, seq>>, UNCHANGED Polling,
         e \in ReplySet,
         e.id = 0 \/ \E b \in Elems(stream[s].back) : b.id = e.id /\ b.ok = e.ok,
         replys' = Enqueue(replys, e),
         y \in StreamSet, y.write = stream[s].write, y.inbox = stream[s].inbox,
         Elems(y.back) \subseteq Elems(stream[s].back), y.login = stream[s].login, y.st = stream[s].st,
         stream' = [[stream EXCEPT ![s] = y] EXCEPT ![seq].read = TRUE]
  PROVE  SInv'
<1>1. UNCHANGED <<requests, seq>> /\ UNCHANGED <<status, reqmap, msgid, poll, closing>>
  BY DEF Polling, Client, stopVars
<1>2. seq \in 0..MaxOpen /\ MaxOpen \in Nat /\ stream \in [Streams -> StreamSet] /\ replys \in Seq(ReplySet)
  BY OpenAssumption DEF SInv, QueueTypes
<1>5. replys' \in Seq(ReplySet) /\ Elems(replys') = Elems(replys) \cup {e}
  BY <1>2, ElemsEnqueue
<1>6. PICK x : x = [stream EXCEPT ![s] = y]
  OBVIOUS
<1>7. stream' = [x EXCEPT ![seq].read = TRUE]
  BY <1>6
<1>8. /\ x \in [Streams -> StreamSet] /\ x[s] = y
      /\ \A u \in Streams : u # s => x[u] = stream[u]
  BY <1>2, <1>6
<1>9. PICK g : g = stream'
  OBVIOUS
<1>91. ReadGiven(x, g, seq)
  BY <1>7, <1>9 DEF ReadGiven
<1>92. /\ g \in [Streams -> StreamSet]
       /\ \A u \in Streams :
              /\ g[u].st = x[u].st /\ g[u].start = x[u].start /\ g[u].write = x[u].write
              /\ g[u].inbox = x[u].inbox /\ g[u].back = x[u].back /\ g[u].login = x[u].login
              /\ u = seq => g[u].read = TRUE
  <2>1. x \in [Streams -> StreamSet]
    BY <1>8
  <2>2. g \in [Streams -> StreamSet]
    BY <2>1, <1>91, SetRead
  <2>3. ASSUME NEW u \in Streams
        PROVE  /\ g[u].st = x[u].st /\ g[u].start = x[u].start /\ g[u].write = x[u].write
               /\ g[u].inbox = x[u].inbox /\ g[u].back = x[u].back /\ g[u].login = x[u].login
               /\ u = seq => g[u].read = TRUE
    BY <2>1, <1>91, SetRead
  <2> QED BY <2>2, <2>3
<1>10. ASSUME NEW u \in Streams
       PROVE  /\ stream'[u].write = stream[u].write /\ stream'[u].inbox = stream[u].inbox
              /\ Elems(stream'[u].back) \subseteq Elems(stream[u].back)
              /\ stream'[u].login = stream[u].login /\ stream'[u].st = stream[u].st
              /\ u = seq => stream'[u].read = TRUE
  <2>1. CASE u = s
    BY <1>8, <1>9, <1>92, <2>1
  <2>2. CASE u # s
    BY <1>8, <1>9, <1>92, <2>2
  <2> QED BY <2>1, <2>2
<1>11. QueueTypes'
  BY <1>1, <1>2, <1>5, <1>9, <1>92 DEF SInv, QueueTypes
<1>12. \A u \in Streams : StreamFlow(u)
  BY <1>10 DEF StreamFlow
<1>13. seq # 0 => seq \in Streams
  BY <1>2 DEF Streams
<1>14. seq # 0 => Hears' /\ stream'[seq].st = stream[seq].st /\ stream'[seq].read
  BY <1>1, <1>10, <1>13 DEF Hears
<1>15. /\ Draining = Draining'
       /\ \A r \in Elems(replys') : \/ r \in Elems(replys) \/ r.id = 0
                                    \/ \E v \in Streams : \E b \in Elems(stream[v].back) :
                                         b.id = r.id /\ b.ok = r.ok
  BY <1>1, <1>5 DEF Draining
<1> QED BY <1>1, <1>11, <1>12, <1>14, <1>15, FlowSInv

\* The start of a call completes.
LEMMA StartDoneSInv ==
  ASSUME SInv, IInv', NEW s \in Streams, StartDone(s)
  PROVE  SInv'
<1>1. UNCHANGED <<requests, seq>> /\ UNCHANGED Polling
  BY DEF StartDone
<1>2. stream \in [Streams -> StreamSet]
  BY DEF SInv, QueueTypes
<1>3. PICK e : e = IF replyWork = 0 THEN Event("io", "ESTABLISHED") ELSE Reply(0, TRUE)
  OBVIOUS
<1>4. e \in ReplySet /\ e.id = 0
  <2>1. Event("io", "ESTABLISHED") \in ReplySet /\ Event("io", "ESTABLISHED").id = 0
    BY MessagesMade
  <2>2. Reply(0, TRUE) \in ReplySet /\ Reply(0, TRUE).id = 0
    BY DEF Reply, ReplySet
  <2> QED BY <1>3, <2>1, <2>2
<1>5. replys' = Enqueue(replys, e)
  BY <1>3 DEF StartDone
<1>6. PICK x, y : x = stream[s] /\ y = [x EXCEPT !.start = FALSE]
  OBVIOUS
<1>7. /\ y \in StreamSet /\ y.write = x.write /\ y.inbox = x.inbox /\ y.back = x.back
      /\ y.login = x.login /\ y.st = x.st
  BY <1>2, <1>6 DEF StreamSet
<1>8. stream' = [[stream EXCEPT ![s] = y] EXCEPT ![seq].read = TRUE]
  BY <1>6 DEF StartDone, Read
<1> QED BY <1>1, <1>4, <1>5, <1>6, <1>7, <1>8, ReadingSInv

\* A read completes with an answer of the server.
LEMMA ReadDoneSInv ==
  ASSUME SInv, IInv', NEW s \in Streams, ReadDone(s)
  PROVE  SInv'
<1>1. UNCHANGED <<requests, seq>> /\ UNCHANGED Polling
  BY DEF ReadDone
<1>2. stream \in [Streams -> StreamSet]
  BY DEF SInv, QueueTypes
<1>3. PICK x, b : x = stream[s] /\ b = Head(x.back)
  OBVIOUS
<1>4. x \in StreamSet /\ x.back \in Seq(AnswerSet) /\ x.back # <<>>
  BY <1>2, <1>3 DEF ReadDone, StreamSet
<1>5. /\ b \in AnswerSet /\ b \in Elems(x.back)
      /\ Tail(x.back) \in Seq(AnswerSet) /\ Elems(Tail(x.back)) \subseteq Elems(x.back)
  BY <1>3, <1>4, ElemsTail
<1>6. PICK e : e = IF replyWork = 0 THEN Event("io", "ESTABLISHED") ELSE Reply(b.id, b.ok)
  OBVIOUS
<1>7. e \in ReplySet /\ (e.id = 0 \/ (e.id = b.id /\ e.ok = b.ok))
  <2>1. Event("io", "ESTABLISHED") \in ReplySet /\ Event("io", "ESTABLISHED").id = 0
    BY MessagesMade
  <2>2. b.id \in Nat /\ b.ok \in BOOLEAN
    BY <1>5 DEF AnswerSet
  <2>3. Reply(b.id, b.ok) \in ReplySet /\ Reply(b.id, b.ok).id = b.id /\ Reply(b.id, b.ok).ok = b.ok
    BY <2>2, MessagesMade
  <2> QED BY <1>6, <2>1, <2>3
<1>8. replys' = Enqueue(replys, e)
  BY <1>3, <1>6 DEF ReadDone
<1>9. PICK y, q : y = [x EXCEPT !.back = q, !.read = FALSE] /\ q = Tail(x.back)
  OBVIOUS
<1>10. /\ y \in StreamSet /\ y.write = x.write /\ y.inbox = x.inbox /\ y.back = q
       /\ y.login = x.login /\ y.st = x.st
  <2>1. q \in Seq(AnswerSet)
    BY <1>5, <1>9
  <2> QED BY <1>4, <1>9, <2>1 DEF StreamSet
<1>11. PICK w : w = [stream EXCEPT ![s].back = Tail(@), ![s].read = FALSE]
  OBVIOUS
<1>12. w = [stream EXCEPT ![s] = y]
  BY <1>2, <1>3, <1>9, <1>11
<1>13. stream' = [w EXCEPT ![seq].read = TRUE]
  BY <1>11 DEF ReadDone, Read
<1>14. stream' = [[stream EXCEPT ![s] = y] EXCEPT ![seq].read = TRUE]
  BY <1>12, <1>13
<1>15. e.id = 0 \/ \E d \in Elems(stream[s].back) : d.id = e.id /\ d.ok = e.ok
  BY <1>3, <1>5, <1>7
<1>16. Elems(y.back) \subseteq Elems(stream[s].back)
  BY <1>3, <1>5, <1>9, <1>10
<1> QED BY <1>1, <1>3, <1>7, <1>8, <1>10, <1>14, <1>15, <1>16, ReadingSInv

\* The end of a call: the completion that fails.
LEMMA FailingFields ==
  ASSUME SInv, NEW s \in Streams, Failing(s)
  PROVE  /\ stream' \in [Streams -> StreamSet]
         /\ \A u \in Streams :
              /\ stream'[u].write = stream[u].write /\ stream'[u].inbox = stream[u].inbox
              /\ stream'[u].back = stream[u].back /\ stream'[u].login = stream[u].login
              /\ stream'[u].st = stream[u].st
              /\ u # s => stream'[u] = stream[u]
<1>1. stream \in [Streams -> StreamSet]
  BY DEF SInv, QueueTypes
<1>2. PICK x, y : x = stream[s] /\ y = [x EXCEPT !.start = FALSE, !.read = FALSE, !.doomed = TRUE]
  OBVIOUS
<1>3. x \in StreamSet
  BY <1>1, <1>2
<1>4. /\ y \in StreamSet /\ y.write = x.write /\ y.inbox = x.inbox /\ y.back = x.back
      /\ y.login = x.login /\ y.st = x.st
  BY <1>2, <1>3 DEF StreamSet
<1>5. stream' = [stream EXCEPT ![s] = y]
  BY <1>1, <1>2 DEF Failing
<1>6. stream' \in [Streams -> StreamSet] /\ stream'[s] = y /\ \A u \in Streams : u # s => stream'[u] = stream[u]
  BY <1>1, <1>4, <1>5
<1> QED BY <1>2, <1>4, <1>6

\* The completion that fails takes the read away and leaves an event in its place, if the
\* call is the one in use.
LEMMA ReadFailSInv ==
  ASSUME SInv, IInv', NEW s \in Streams, ReadFail(s)
  PROVE  SInv'
<1>1. UNCHANGED seq /\ UNCHANGED <<status, reqmap, msgid, poll, closing>> /\ requests' = <<>> /\ Failing(s)
  BY DEF ReadFail, Polling, Client, stopVars
<1>2. seq \in 0..MaxOpen /\ MaxOpen \in Nat /\ replys \in Seq(ReplySet)
  BY OpenAssumption DEF SInv, QueueTypes
<1>3. PICK e : e = Event("io", "DISCONNECT")
  OBVIOUS
<1>4. e \in ReplySet /\ e.id = 0 /\ e.kind = "DISCONNECT"
  BY <1>3, MessagesMade
<1>5. Enqueue(replys, e) \in Seq(ReplySet) /\ Elems(Enqueue(replys, e)) = Elems(replys) \cup {e}
  BY <1>2, <1>4, ElemsEnqueue
<1>6. replys' = IF seq = s THEN Enqueue(replys, e) ELSE replys
  BY <1>3 DEF ReadFail
<1>7. replys' \in Seq(ReplySet)
  BY <1>2, <1>5, <1>6
<1>8. Elems(replys) \subseteq Elems(replys') /\ Elems(replys') \subseteq Elems(replys) \cup {e}
  BY <1>5, <1>6
<1>9. requests' \in Seq(RequestSet) /\ Elems(requests') = {}
  BY <1>1, ElemsEmpty
<1>10. /\ stream' \in [Streams -> StreamSet]
       /\ \A u \in Streams :
              /\ stream'[u].write = stream[u].write /\ stream'[u].inbox = stream[u].inbox
              /\ stream'[u].back = stream[u].back /\ stream'[u].login = stream[u].login
              /\ stream'[u].st = stream[u].st
              /\ u # s => stream'[u] = stream[u]
  BY <1>1, FailingFields
<1>11. QueueTypes'
  BY <1>1, <1>2, <1>7, <1>9, <1>10 DEF SInv, QueueTypes
<1>12. \A u \in Streams : StreamFlow(u)
  BY <1>10 DEF StreamFlow
<1>13. seq # 0 => seq \in Streams
  BY <1>2 DEF Streams
<1>14. seq # 0 => (Hears => Hears')
  <2>1. CASE seq = s
    BY <1>4, <1>5, <1>6, <2>1 DEF Hears
  <2>2. CASE seq # s
    BY <1>1, <1>8, <1>10, <1>13, <2>2 DEF Hears
  <2> QED BY <2>1, <2>2
<1>15. seq # 0 => /\ stream'[seq].st = stream[seq].st
                  /\ stream'[seq].st = "open" /\ (stream[seq].start \/ stream[seq].read) =>
                       stream'[seq].start \/ stream'[seq].read
  BY <1>1, <1>10, <1>13 DEF Failing
<1>16. /\ Draining = Draining'
       /\ \A r \in Elems(replys') : r \in Elems(replys) \/ r.id = 0
       /\ \A r \in Elems(replys') : r \in Elems(replys) \/ r.kind # "reply"
  BY <1>1, <1>4, <1>8 DEF Draining
<1> QED BY <1>1, <1>9, <1>11, <1>12, <1>14, <1>15, <1>16, FlowSInv

\* While the connection is closed, what the client hears no longer counts.
LEMMA ClosedSInv ==
  ASSUME SInv, IInv', closing' # "no", UNCHANGED <<status, reqmap, msgid, poll, replys, seq>>,
         QueueTypes', \A u \in Streams : StreamFlow(u),
         \A r \in Elems(requests') : r \in Elems(requests) \/ (r.id = 0 /\ r.kind = "close")
  PROVE  SInv'
<1>1. Draining = Draining'
  BY DEF Draining
<1> QED BY <1>1, FlowSInv

\* The same while the connection is closed: no event.
LEMMA ReadFailClosingSInv ==
  ASSUME SInv, IInv', NEW s \in Streams, ReadFailClosing(s)
  PROVE  SInv'
<1>1. UNCHANGED <<status, reqmap, msgid, poll, replys, seq>> /\ requests' = requests
      /\ closing' # "no" /\ Failing(s)
  BY DEF ReadFailClosing, Client
<1>2. /\ stream' \in [Streams -> StreamSet]
      /\ \A u \in Streams :
              /\ stream'[u].write = stream[u].write /\ stream'[u].inbox = stream[u].inbox
              /\ stream'[u].back = stream[u].back /\ stream'[u].login = stream[u].login
  BY <1>1, FailingFields
<1>3. QueueTypes'
  BY <1>1, <1>2 DEF SInv, QueueTypes
<1>4. \A u \in Streams : StreamFlow(u)
  BY <1>2 DEF StreamFlow
<1> QED BY <1>1, <1>3, <1>4, ClosedSInv

---------------------------------------------------------------------------
(* Stop, the server and the network *)

\* mtk_conn_close enqueues at most its own request.
LEMMA StopSInv ==
  ASSUME SInv, IInv', Stop
  PROVE  SInv'
<1>1. UNCHANGED <<status, reqmap, msgid, poll, replys, seq>> /\ stream' = stream /\ closing' # "no"
  BY DEF Stop, Client
<1>2. PICK e : e = Request("poll", "close", 0)
  OBVIOUS
<1>3. e \in RequestSet /\ e.id = 0 /\ e.kind = "close"
  BY <1>2 DEF Request, RequestSet
<1>4. requests \in Seq(RequestSet)
  BY DEF SInv, QueueTypes
<1>5. Enqueue(requests, e) \in Seq(RequestSet) /\ Elems(Enqueue(requests, e)) = Elems(requests) \cup {e}
  BY <1>3, <1>4, ElemsEnqueue
<1>6. requests' = requests \/ requests' = Enqueue(requests, e)
  BY <1>2 DEF Stop
<1>7. requests' \in Seq(RequestSet) /\ Elems(requests') \subseteq Elems(requests) \cup {e}
  BY <1>4, <1>5, <1>6
<1>8. QueueTypes'
  BY <1>1, <1>7 DEF SInv, QueueTypes
<1>9. \A u \in Streams : StreamFlow(u)
  BY <1>1, StreamStays
<1>10. \A r \in Elems(requests') : r \in Elems(requests) \/ (r.id = 0 /\ r.kind = "close")
  BY <1>3, <1>7
<1> QED BY <1>1, <1>8, <1>9, <1>10, ClosedSInv

\* Steps that leave all the invariant speaks of alone.
LEMMA SameSInv ==
  ASSUME SInv, IInv', UNCHANGED <<requests, replys, stream, seq, status, reqmap, msgid, poll>>,
         closing' = "no" => closing = "no"
  PROVE  SInv'
<1>1. QueueTypes'
  BY DEF SInv, QueueTypes
<1>2. \A u \in Streams : StreamFlow(u)
  BY StreamStays
<1>3. /\ Draining => Draining'
      /\ seq # 0 =>
           /\ Hears => Hears' \/ (Draining' /\ Elems(replys') = {})
           /\ stream'[seq].st = stream[seq].st \/ (stream[seq].st = "open" /\ stream'[seq].st = "dead")
           /\ stream'[seq].st = "open" /\ (stream[seq].start \/ stream[seq].read) =>
                stream'[seq].start \/ stream'[seq].read
           /\ \A r \in Elems(replys') : r \in Elems(replys) \/ r.kind # "reply" \/ Hears'
  BY SameHearing
<1> QED BY <1>1, <1>2, <1>3, FlowSInv

\* The end of Run, the two seconds of Stop, and the check of Call on another thread.
LEMMA StillSInv ==
  ASSUME SInv, IInv',
         RunLeaves \/ StopTimeout \/ StopForce \/ UNCHANGED vars \/ \E t \in Threads : CallCheck(t)
  PROVE  SInv'
<1>1. UNCHANGED <<requests, replys, stream, seq, status, reqmap, msgid, poll>>
  BY DEF RunLeaves, StopTimeout, StopForce, vars, CallCheck, Client
<1>2. closing' = "no" => closing = "no"
  BY DEF RunLeaves, StopTimeout, StopForce, vars, stopVars, CallCheck
<1> QED BY <1>1, <1>2, SameSInv

\* A call that ends.
LEMMA BreakSInv ==
  ASSUME SInv, IInv', NEW s \in Streams, CallBreaks(s) \/ ServerClose(s)
  PROVE  SInv'
<1>1. /\ UNCHANGED <<requests, replys, seq>> /\ UNCHANGED <<status, reqmap, msgid, poll, closing>>
      /\ stream[s].st = "open" /\ stream' = [stream EXCEPT ![s].st = "dead"]
  BY DEF CallBreaks, ServerClose, Polling, Client, stopVars
<1>2. seq \in 0..MaxOpen /\ MaxOpen \in Nat /\ stream \in [Streams -> StreamSet]
  BY OpenAssumption DEF SInv, QueueTypes
<1>3. PICK x, y : x = stream[s] /\ y = [x EXCEPT !.st = "dead"]
  OBVIOUS
<1>4. /\ y \in StreamSet /\ y.write = x.write /\ y.inbox = x.inbox /\ y.back = x.back
      /\ y.login = x.login /\ y.st = "dead" /\ y.start = x.start /\ y.read = x.read
  BY <1>2, <1>3 DEF StreamSet
<1>5. stream' = [stream EXCEPT ![s] = y]
  BY <1>1, <1>3
<1>6. stream' \in [Streams -> StreamSet] /\ stream'[s] = y /\ \A u \in Streams : u # s => stream'[u] = stream[u]
  BY <1>2, <1>4, <1>5
<1>7. QueueTypes'
  BY <1>1, <1>6 DEF SInv, QueueTypes
<1>8. \A u \in Streams : StreamFlow(u)
  BY <1>3, <1>4, <1>6 DEF StreamFlow
<1>9. seq # 0 => seq \in Streams
  BY <1>2 DEF Streams
<1>10. seq # 0 => /\ Hears => Hears'
                  /\ stream'[seq].st = stream[seq].st \/ (stream[seq].st = "open" /\ stream'[seq].st = "dead")
                  /\ stream'[seq].start = stream[seq].start /\ stream'[seq].read = stream[seq].read
  BY <1>1, <1>3, <1>4, <1>6, <1>9 DEF Hears
<1>11. Draining = Draining' /\ \A r \in Elems(replys') : r \in Elems(replys)
  BY <1>1 DEF Draining
<1> QED BY <1>1, <1>7, <1>8, <1>10, <1>11, FlowSInv

\* The server answers a request it has.
LEMMA AnswerSInv ==
  ASSUME SInv, IInv', NEW s \in Streams, NEW i, NEW ok \in BOOLEAN, Answer(s, i, ok)
  PROVE  SInv'
<1>1. /\ UNCHANGED <<requests, replys, seq>> /\ UNCHANGED <<status, reqmap, msgid, poll, closing>>
      /\ i \in 1..Len(stream[s].inbox)
  BY DEF Answer, Polling, Client, stopVars
<1>2. seq \in 0..MaxOpen /\ MaxOpen \in Nat /\ stream \in [Streams -> StreamSet]
  BY OpenAssumption DEF SInv, QueueTypes
<1>3. PICK x, req, a, q, b, l : x = stream[s] /\ req = x.inbox[i] /\ a = [id |-> req.id, ok |-> ok]
        /\ q = RemoveAt(x.inbox, i) /\ b = Append(x.back, a)
        /\ l = IF x.login # "none" THEN x.login ELSE IF ok THEN "accepted" ELSE "denied"
  OBVIOUS
<1>4. x \in StreamSet /\ x.inbox \in Seq(RequestSet) /\ x.back \in Seq(AnswerSet)
      /\ x.login \in {"none", "accepted", "denied"}
  BY <1>2, <1>3 DEF StreamSet
<1>5. q \in Seq(RequestSet) /\ Elems(q) \subseteq Elems(x.inbox) /\ req \in Elems(x.inbox)
  <2>1. i \in 1..Len(x.inbox)
    BY <1>1, <1>3
  <2> QED BY <1>3, <1>4, <2>1, ElemsRemove
<1>6. req \in RequestSet
  BY <1>4, <1>5, ElemsIn
<1>7. a \in AnswerSet /\ a.id = req.id /\ a.ok = ok
  BY <1>3, <1>6 DEF RequestSet, AnswerSet
<1>8. b \in Seq(AnswerSet) /\ Elems(b) = Elems(x.back) \cup {a}
  <2>1. PICK d : d = x.back
    OBVIOUS
  <2>2. d \in Seq(AnswerSet) /\ a \in AnswerSet
    BY <1>4, <1>7, <2>1
  <2>3. Append(d, a) \in Seq(AnswerSet) /\ Elems(Append(d, a)) = Elems(d) \cup {a}
    BY <2>2, ElemsEnqueue
  <2> QED BY <1>3, <2>1, <2>3
<1>9. l \in {"none", "accepted", "denied"} /\ (x.login = "accepted" => l = "accepted")
  BY <1>3, <1>4
<1>10. ok /\ req.kind = "connect" => l = "accepted"
  BY <1>3 DEF Answer
<1>11. PICK y : y = [x EXCEPT !.inbox = q, !.back = b, !.login = l]
  OBVIOUS
<1>12. /\ y \in StreamSet /\ y.write = x.write /\ y.inbox = q /\ y.back = b
       /\ y.login = l /\ y.st = x.st /\ y.start = x.start /\ y.read = x.read
  BY <1>4, <1>5, <1>8, <1>9, <1>11 DEF StreamSet
<1>13. stream' = [stream EXCEPT ![s] = y]
  BY <1>2, <1>3, <1>11 DEF Answer
<1>14. stream' \in [Streams -> StreamSet] /\ stream'[s] = y /\ \A u \in Streams : u # s => stream'[u] = stream[u]
  BY <1>2, <1>12, <1>13
<1>15. QueueTypes'
  BY <1>1, <1>14 DEF SInv, QueueTypes
<1>16. ASSUME NEW u \in Streams PROVE StreamFlow(u)
  <2>1. CASE u # s
    BY <1>14, <2>1, StreamStays
  <2>2. CASE u = s
    <3>1. y.write = x.write /\ \A r \in Elems(y.inbox) : r \in Elems(x.inbox)
      BY <1>5, <1>12
    <3>2. \A d \in Elems(y.back) : d \in Elems(x.back) \/ d = a
      BY <1>8, <1>12
    <3>3. a.id = req.id /\ (a.ok /\ req.kind = "connect" => y.login = "accepted")
      BY <1>7, <1>10, <1>12
    <3>4. x.login = "accepted" => y.login = "accepted"
      BY <1>9, <1>12
    <3>5. stream[u] = x /\ stream'[u] = y
      BY <1>3, <1>14, <2>2
    <3> QED BY <1>5, <3>1, <3>2, <3>3, <3>4, <3>5 DEF StreamFlow
  <2> QED BY <2>1, <2>2
<1>17. seq # 0 => seq \in Streams
  BY <1>2 DEF Streams
<1>18. seq # 0 => /\ stream'[seq].st = stream[seq].st
                  /\ stream'[seq].start = stream[seq].start /\ stream'[seq].read = stream[seq].read
  BY <1>3, <1>12, <1>14, <1>17
<1>19. /\ Draining => Draining'
       /\ seq # 0 =>
           /\ Hears => Hears' \/ (Draining' /\ Elems(replys') = {})
           /\ stream'[seq].st = stream[seq].st \/ (stream[seq].st = "open" /\ stream'[seq].st = "dead")
           /\ stream'[seq].st = "open" /\ (stream[seq].start \/ stream[seq].read) =>
                stream'[seq].start \/ stream'[seq].read
           /\ \A r \in Elems(replys') : r \in Elems(replys) \/ r.kind # "reply" \/ Hears'
  BY <1>1, <1>18, SameHearing
<1> QED BY <1>1, <1>15, <1>16, <1>19, FlowSInv

\* mtk_conn_reset leaves an event.
LEMMA ReleaseSInv ==
  ASSUME SInv, IInv', Release
  PROVE  SInv'
<1>1. UNCHANGED <<requests, stream, seq, status, reqmap, msgid, poll, closing>>
  BY DEF Release, Shared, stopVars
<1>2. PICK e : e = Event("poll", "DISCONNECT")
  OBVIOUS
<1>3. e \in ReplySet /\ e.id = 0 /\ e.kind = "DISCONNECT"
  BY <1>2, MessagesMade
<1>4. replys' \in Seq(ReplySet) /\ Elems(replys') = Elems(replys) \cup {e}
  BY <1>2, <1>3, ElemsEnqueue DEF Release, SInv, QueueTypes
<1>5. QueueTypes'
  BY <1>1, <1>4 DEF SInv, QueueTypes
<1>6. \A u \in Streams : StreamFlow(u)
  BY <1>1, StreamStays
<1>7. Hears'
  BY <1>3, <1>4 DEF Hears
<1>8. Draining = Draining'
  BY <1>1 DEF Draining
<1> QED BY <1>1, <1>3, <1>4, <1>5, <1>6, <1>7, <1>8, FlowSInv

---------------------------------------------------------------------------
(* Update and Call *)

\* Update moves on, outside of DrainQueue.
LEMMA PollMovesSInv ==
  ASSUME SInv, IInv', UpdateReady \/ NoReply \/ SwitchReturn \/ SwitchNothing
  PROVE  SInv'
<1>1. /\ UNCHANGED <<requests, replys, stream, seq, status, reqmap, msgid, closing>>
      /\ poll.at \notin {"drainReq", "drainMap"}
  BY DEF UpdateReady, NoReply, SwitchReturn, SwitchNothing, Shared, stopVars
<1>2. /\ poll' \in [at : {"idle", "replies", "drainReq", "drainMap", "switch", "timeout"},
                    ev : {"none", "unready", "ESTABLISHED", "DISCONNECT"}]
      /\ poll'.at \notin {"drainReq", "drainMap"}
  <2>1. Idle \in [at : {"idle", "replies", "drainReq", "drainMap", "switch", "timeout"},
                  ev : {"none", "unready", "ESTABLISHED", "DISCONNECT"}]
        /\ Idle.at = "idle"
    BY DEF Idle
  <2>2. PICK p, q : p = Idle /\ q = poll
    OBVIOUS
  <2>3. p \in [at : {"idle", "replies", "drainReq", "drainMap", "switch", "timeout"},
               ev : {"none", "unready", "ESTABLISHED", "DISCONNECT"}]
        /\ q \in [at : {"idle", "replies", "drainReq", "drainMap", "switch", "timeout"},
               ev : {"none", "unready", "ESTABLISHED", "DISCONNECT"}]
        /\ p.at = "idle"
    BY <2>1, <2>2 DEF SInv, QueueTypes
  <2>4. \/ poll' = [p EXCEPT !.at = "replies"] \/ poll' = [p EXCEPT !.at = "switch"]
        \/ poll' = p \/ poll' = [q EXCEPT !.at = "timeout"]
    BY <2>2 DEF UpdateReady, NoReply, SwitchReturn, SwitchNothing
  <2> QED BY <2>3, <2>4
<1>3. QueueTypes'
  BY <1>1, <1>2 DEF SInv, QueueTypes
<1>4. \A u \in Streams : StreamFlow(u)
  BY <1>1, StreamStays
<1>5. ~Draining
  BY <1>1 DEF Draining
<1>6. Hears => Hears'
  BY <1>1 DEF Hears
<1> QED BY <1>1, <1>2, <1>3, <1>4, <1>5, <1>6, FlowSInv

\* DrainQueue begins: no event is left, but Update will change the state.
LEMMA DrainBeginsSInv ==
  ASSUME SInv, IInv', UpdateUnready \/ \E j \in Heads(replys) : ProcessEvent(j)
  PROVE  SInv'
<1>1. /\ UNCHANGED <<requests, stream, seq, status, reqmap, msgid, closing>>
      /\ replys' = <<>>
  BY DEF UpdateUnready, ProcessEvent, Shared, stopVars
<1>2. /\ poll' \in [at : {"idle", "replies", "drainReq", "drainMap", "switch", "timeout"},
                    ev : {"none", "unready", "ESTABLISHED", "DISCONNECT"}]
      /\ poll'.at = "drainReq"
  <2>1. CASE UpdateUnready
    BY <2>1 DEF UpdateUnready
  <2>2. ASSUME NEW j \in Heads(replys), ProcessEvent(j)
        PROVE  /\ poll' \in [at : {"idle", "replies", "drainReq", "drainMap", "switch", "timeout"},
                             ev : {"none", "unready", "ESTABLISHED", "DISCONNECT"}]
               /\ poll'.at = "drainReq"
    <3>1. replys[j] \in ReplySet
      BY ElemsDequeue DEF SInv, QueueTypes
    <3>2. replys[j].kind \in {"ESTABLISHED", "DISCONNECT"}
      BY <2>2, <3>1 DEF ProcessEvent, ReplySet
    <3> QED BY <2>2, <3>2 DEF ProcessEvent
  <2> QED BY <2>1, <2>2
<1>3. replys' \in Seq(ReplySet) /\ Elems(replys') = {}
  BY <1>1, ElemsEmpty
<1>4. QueueTypes'
  BY <1>1, <1>2, <1>3 DEF SInv, QueueTypes
<1>5. \A u \in Streams : StreamFlow(u)
  BY <1>1, StreamStays
<1>6. Draining'
  BY <1>2 DEF Draining
<1> QED BY <1>1, <1>2, <1>3, <1>4, <1>5, <1>6, FlowSInv

\* DrainQueue empties requests_ before reqmap_.
LEMMA DrainRequestsSInv ==
  ASSUME SInv, IInv', DrainRequests
  PROVE  SInv'
<1>1. /\ UNCHANGED <<replys, stream, seq, status, reqmap, msgid, closing>>
      /\ requests' = <<>> /\ poll' = [poll EXCEPT !.at = "drainMap"]
  BY DEF DrainRequests, Shared, stopVars
<1>2. PICK p : p = poll
  OBVIOUS
<1>3. /\ poll' \in [at : {"idle", "replies", "drainReq", "drainMap", "switch", "timeout"},
                    ev : {"none", "unready", "ESTABLISHED", "DISCONNECT"}]
      /\ poll'.at = "drainMap"
  <2>1. p \in [at : {"idle", "replies", "drainReq", "drainMap", "switch", "timeout"},
               ev : {"none", "unready", "ESTABLISHED", "DISCONNECT"}]
    BY <1>2 DEF SInv, QueueTypes
  <2>2. poll' = [p EXCEPT !.at = "drainMap"]
    BY <1>1, <1>2
  <2> QED BY <2>1, <2>2
<1>4. requests' \in Seq(RequestSet) /\ Elems(requests') = {}
  BY <1>1, ElemsEmpty
<1>5. QueueTypes'
  BY <1>1, <1>3, <1>4 DEF SInv, QueueTypes
<1>6. \A u \in Streams : StreamFlow(u)
  BY <1>1, StreamStays
<1>7. Draining' /\ (Hears => Hears')
  BY <1>1, <1>3 DEF Draining, Hears
<1> QED BY <1>1, <1>4, <1>5, <1>6, <1>7, FlowSInv

\* reqmap_ is cleared: no login waits.
LEMMA DrainMapSInv ==
  ASSUME SInv, IInv', DrainMap
  PROVE  SInv'
<1>1. /\ UNCHANGED <<requests, replys, stream, seq, msgid, closing>>
      /\ reqmap' = {} /\ status' \in {"ESTABLISHED", "DISCONNECT"}
      /\ poll' = [Idle EXCEPT !.at = "switch"] /\ poll.at = "drainMap"
  BY DEF DrainMap, Shared, stopVars
<1>2. Logins' = {}
  BY <1>1 DEF Logins
<1>3. QueueTypes'
  <2>1. poll' \in [at : {"idle", "replies", "drainReq", "drainMap", "switch", "timeout"},
                   ev : {"none", "unready", "ESTABLISHED", "DISCONNECT"}]
    BY <1>1 DEF Idle
  <2> QED BY <1>1, <2>1 DEF SInv, QueueTypes
<1>4. FreshInv'
  BY <1>1 DEF SInv, FreshInv
<1>5. LoginInv' /\ LoginStatus'
  BY <1>2 DEF LoginInv, LoginStatus
<1>6. Establishing'
  BY <1>1 DEF SInv, Establishing
<1>7. Truth'
  <2> SUFFICES ASSUME closing = "no" PROVE (Handshake /\ Busy /\ Answered /\ Noticed)'
    BY <1>1 DEF Truth
  <2>1. Busy'
    BY <1>1 DEF SInv, Truth, Busy
  <2>2. Handshake' /\ Answered' /\ Noticed'
    BY <1>1, <1>2 DEF Handshake, Answered, Noticed, Connected
  <2> QED BY <2>1, <2>2
<1> QED BY <1>3, <1>4, <1>5, <1>6, <1>7 DEF SInv

\* The wait is over: the request to open a call is enqueued.
LEMMA SwitchReconnectSInv ==
  ASSUME SInv, IInv', SwitchReconnect
  PROVE  SInv'
<1>1. /\ UNCHANGED <<replys, stream, seq, msgid, closing, reqmap>>
      /\ status = "DISCONNECT" /\ status' = "CONNECTING" /\ poll' = Idle
      /\ requests' = Enqueue(requests, Request("poll", "establish", 0))
  BY DEF SwitchReconnect
<1>2. PICK e : e = Request("poll", "establish", 0)
  OBVIOUS
<1>3. e \in RequestSet /\ e.id = 0 /\ e.kind = "establish"
  BY <1>2 DEF Request, RequestSet
<1>4. requests' \in Seq(RequestSet) /\ Elems(requests') = Elems(requests) \cup {e}
  BY <1>1, <1>2, <1>3, ElemsEnqueue DEF SInv, QueueTypes
<1>5. Logins = {} /\ Logins' = {}
  BY <1>1 DEF SInv, LoginStatus, Logins
<1>6. QueueTypes' /\ poll'.at = "idle"
  <2>1. poll' \in [at : {"idle", "replies", "drainReq", "drainMap", "switch", "timeout"},
                   ev : {"none", "unready", "ESTABLISHED", "DISCONNECT"}] /\ poll'.at = "idle"
    BY <1>1 DEF Idle
  <2> QED BY <1>1, <1>4, <2>1 DEF SInv, QueueTypes
<1>7. FreshInv'
  <2>1. msgid \in Nat
    BY DEF SInv, IInv, Types
  <2>2. \A r \in Elems(requests') : r.id <= msgid
    BY <1>3, <1>4, <2>1 DEF SInv, FreshInv
  <2> QED BY <1>1, <2>2 DEF SInv, FreshInv
<1>8. LoginInv' /\ LoginStatus' /\ Establishing'
  BY <1>1, <1>5, <1>6 DEF LoginInv, LoginStatus, Establishing
<1>9. Truth'
  <2> SUFFICES ASSUME closing = "no" PROVE (Handshake /\ Busy /\ Answered /\ Noticed)'
    BY <1>1 DEF Truth
  <2>1. Busy'
    BY <1>1 DEF SInv, Truth, Busy
  <2>2. Handshake' /\ Answered' /\ Noticed'
    BY <1>1, <1>5 DEF Handshake, Answered, Noticed, Connected
  <2> QED BY <2>1, <2>2
<1> QED BY <1>6, <1>7, <1>8, <1>9 DEF SInv

\* A new id is in no message.
LEMMA NewId ==
  ASSUME SInv
  PROVE  /\ msgid \in Nat
         /\ \A r \in Elems(requests) : r.id # msgid + 1
         /\ \A r \in Elems(replys) : r.id # msgid + 1
         /\ \A s \in Streams : /\ stream[s].write.id # msgid + 1
                               /\ \A r \in Elems(stream[s].inbox) : r.id # msgid + 1
                               /\ \A b \in Elems(stream[s].back) : b.id # msgid + 1
<1>1. msgid \in Nat
  BY DEF SInv, IInv, Types
<1>2. \A i : i <= msgid => i # msgid + 1
  BY <1>1
<1> QED BY <1>1, <1>2 DEF SInv, FreshInv

\* The same messages are older than a newer id.
LEMMA FreshMore ==
  ASSUME SInv, QueueTypes', msgid' = msgid + 1, UNCHANGED <<replys, stream>>,
         \A r \in Elems(requests') : r \in Elems(requests) \/ r.id = msgid + 1
  PROVE  FreshInv'
<1>1. msgid \in Nat
  BY DEF SInv, IInv, Types
<1>2. ASSUME NEW i \in Nat, i <= msgid PROVE i <= msgid + 1
  BY <1>1, <1>2
<1>3. ASSUME NEW r \in Elems(requests') PROVE r.id <= msgid'
  <2>1. CASE r \in Elems(requests)
    <3>1. r \in RequestSet
      BY <2>1, ElemsIn DEF SInv, QueueTypes
    <3>2. r.id \in Nat /\ r.id <= msgid
      BY <2>1, <3>1 DEF RequestSet, SInv, FreshInv
    <3> QED BY <1>2, <3>2
  <2>2. CASE r.id = msgid + 1
    BY <1>1, <2>2
  <2> QED BY <2>1, <2>2
<1>4. ASSUME NEW r \in Elems(replys) PROVE r.id <= msgid'
  <2>1. r \in ReplySet
    BY ElemsIn DEF SInv, QueueTypes
  <2>2. r.id \in Nat /\ r.id <= msgid
    BY <2>1 DEF ReplySet, SInv, FreshInv
  <2> QED BY <1>2, <2>2
<1>5. ASSUME NEW s \in Streams
      PROVE  /\ stream[s].write.id <= msgid'
             /\ \A r \in Elems(stream[s].inbox) : r.id <= msgid'
             /\ \A b \in Elems(stream[s].back) : b.id <= msgid'
  <2>1. /\ stream[s].write \in RequestSet /\ stream[s].inbox \in Seq(RequestSet)
        /\ stream[s].back \in Seq(AnswerSet)
    BY DEF SInv, QueueTypes, StreamSet
  <2>2. stream[s].write.id <= msgid'
    <3>1. stream[s].write.id \in Nat /\ stream[s].write.id <= msgid
      BY <2>1 DEF RequestSet, SInv, FreshInv
    <3> QED BY <1>2, <3>1
  <2>3. ASSUME NEW r \in Elems(stream[s].inbox) PROVE r.id <= msgid'
    <3>1. r \in RequestSet
      BY <2>1, ElemsIn
    <3>2. r.id \in Nat /\ r.id <= msgid
      BY <3>1 DEF RequestSet, SInv, FreshInv
    <3> QED BY <1>2, <3>2
  <2>4. ASSUME NEW b \in Elems(stream[s].back) PROVE b.id <= msgid'
    <3>1. b \in AnswerSet
      BY <2>1, ElemsIn
    <3>2. b.id \in Nat /\ b.id <= msgid
      BY <3>1 DEF AnswerSet, SInv, FreshInv
    <3> QED BY <1>2, <3>2
  <2> QED BY <2>2, <2>3, <2>4
<1> QED BY <1>3, <1>4, <1>5 DEF FreshInv

\* StartWrite: the one login, under a new id.
LEMMA SwitchStartWriteSInv ==
  ASSUME SInv, IInv', SwitchStartWrite
  PROVE  SInv'
<1>1. /\ UNCHANGED <<replys, stream, seq, closing>>
      /\ status = "ESTABLISHED" /\ status' = "INITIALIZING" /\ poll' = [poll EXCEPT !.at = "timeout"]
      /\ msgid' = msgid + 1
      /\ requests' = Enqueue(requests, Request("poll", "connect", msgid + 1))
      /\ reqmap' = reqmap \cup {[id |-> msgid + 1, kind |-> "connect"]}
  BY DEF SwitchStartWrite, Register, stopVars
<1>2. PICK e, n : e = Request("poll", "connect", msgid + 1) /\ n = [id |-> msgid + 1, kind |-> "connect"]
  OBVIOUS
<1>3. msgid \in Nat
  BY NewId
<1>4. e \in RequestSet /\ e.id = msgid + 1 /\ e.kind = "connect"
  BY <1>2, <1>3 DEF Request, RequestSet
<1>5. n \in EntrySet /\ n.id = msgid + 1 /\ n.kind = "connect"
  BY <1>2, <1>3 DEF EntrySet
<1>6. requests' \in Seq(RequestSet) /\ Elems(requests') = Elems(requests) \cup {e}
  BY <1>1, <1>2, <1>4, ElemsEnqueue DEF SInv, QueueTypes
<1>7. Logins' = {n}
  <2>1. Logins = {}
    BY <1>1 DEF SInv, LoginStatus
  <2>2. reqmap' = reqmap \cup {n}
    BY <1>1, <1>2
  <2> QED BY <1>5, <2>1, <2>2 DEF Logins
<1>8. QueueTypes'
  <2>1. PICK p : p = poll
    OBVIOUS
  <2>2. p \in [at : {"idle", "replies", "drainReq", "drainMap", "switch", "timeout"},
               ev : {"none", "unready", "ESTABLISHED", "DISCONNECT"}] /\ poll' = [p EXCEPT !.at = "timeout"]
    BY <1>1, <2>1 DEF SInv, QueueTypes
  <2>3. poll' \in [at : {"idle", "replies", "drainReq", "drainMap", "switch", "timeout"},
                   ev : {"none", "unready", "ESTABLISHED", "DISCONNECT"}]
    BY <2>2
  <2>4. reqmap' \subseteq EntrySet
    BY <1>1, <1>2, <1>5 DEF SInv, QueueTypes
  <2> QED BY <1>1, <1>6, <2>3, <2>4 DEF SInv, QueueTypes
<1>9. FreshInv'
  BY <1>1, <1>4, <1>6, <1>8, FreshMore
<1>10. LoginInv'
  <2>1. \A r \in Elems(requests') : r.id = n.id => r.kind = "connect"
    BY <1>4, <1>5, <1>6, NewId
  <2>2. \A s \in Streams : /\ stream[s].write.id # n.id
                           /\ \A r \in Elems(stream[s].inbox) : r.id # n.id
                           /\ \A b \in Elems(stream[s].back) : b.id # n.id
    BY <1>5, NewId
  <2>3. \A r \in Elems(replys) : r.id # n.id
    BY <1>5, NewId
  <2> QED BY <1>1, <1>7, <2>1, <2>2, <2>3 DEF LoginInv
<1>11. LoginStatus'
  BY <1>1 DEF LoginStatus
<1>12. Establishing'
  BY <1>1, <1>4, <1>6 DEF SInv, Establishing
<1>13. Truth'
  <2> SUFFICES ASSUME closing = "no" PROVE (Handshake /\ Busy /\ Answered /\ Noticed)'
    BY <1>1 DEF Truth
  <2>1. Busy'
    BY <1>1 DEF SInv, Truth, Busy
  <2>2. Handshake' /\ Noticed'
    BY <1>1, <1>7 DEF Handshake, Noticed
  <2>3. Answered'
    <3>1. \A r \in Elems(replys) : r.id # n.id
      BY <1>5, NewId
    <3> QED BY <1>1, <1>7, <3>1 DEF Answered
  <2> QED BY <2>1, <2>2, <2>3
<1> QED BY <1>8, <1>9, <1>10, <1>11, <1>12, <1>13 DEF SInv

\* A call, on whatever thread, is no login.
LEMMA RequestSInv ==
  ASSUME SInv, IInv', NEW by \in Threads \cup {"poll"},
         UNCHANGED <<replys, stream, seq, closing, poll, status>>,
         msgid' = msgid + 1, requests' = Enqueue(requests, Request(by, "call", msgid + 1)),
         reqmap' = reqmap \/ reqmap' = reqmap \cup {[id |-> msgid + 1, kind |-> "call"]}
  PROVE  SInv'
<1>1. PICK e, n : e = Request(by, "call", msgid + 1) /\ n = [id |-> msgid + 1, kind |-> "call"]
  OBVIOUS
<1>2. msgid \in Nat
  BY NewId
<1>3. e \in RequestSet /\ e.id = msgid + 1 /\ e.kind = "call"
  BY <1>1, <1>2 DEF Request, RequestSet
<1>4. n \in EntrySet /\ n.kind = "call"
  BY <1>1, <1>2 DEF EntrySet
<1>5. requests' \in Seq(RequestSet) /\ Elems(requests') = Elems(requests) \cup {e}
  BY <1>1, <1>3, ElemsEnqueue DEF SInv, QueueTypes
<1>6. Logins' = Logins /\ reqmap' \subseteq EntrySet
  <2>1. reqmap' = reqmap \/ reqmap' = reqmap \cup {n}
    BY <1>1
  <2> QED BY <1>4, <2>1 DEF Logins, SInv, QueueTypes
<1>7. QueueTypes'
  BY <1>5, <1>6 DEF SInv, QueueTypes
<1>8. FreshInv'
  BY <1>3, <1>5, <1>7, FreshMore
<1>9. \A l \in Logins : l.id # msgid + 1
  BY <1>2 DEF Logins, SInv, IInv, EntryInv, Awaiting, MsgIds
<1>10. LoginInv'
  <2>1. ASSUME NEW l \in Logins, NEW r \in Elems(requests'), r.id = l.id PROVE r.kind = "connect"
    BY <1>3, <1>5, <1>9, <2>1 DEF SInv, LoginInv
  <2> QED BY <1>6, <2>1 DEF SInv, LoginInv, Accepted
<1>11. LoginStatus'
  BY <1>6 DEF SInv, LoginStatus
<1>12. Establishing'
  BY <1>3, <1>5 DEF SInv, Establishing
<1>13. Truth'
  <2> SUFFICES ASSUME closing = "no" PROVE (Handshake /\ Busy /\ Answered /\ Noticed)'
    BY DEF Truth
  <2>1. Hears' = Hears /\ Draining' = Draining
    BY DEF Hears, Draining
  <2> QED BY <1>6, <2>1 DEF SInv, Truth, Handshake, Busy, Answered, Noticed
<1> QED BY <1>7, <1>8, <1>10, <1>11, <1>12, <1>13 DEF SInv

\* mtk_conn_send, on the polling thread and on another.
LEMMA CallsSInv ==
  ASSUME SInv, IInv', PollCall \/ \E t \in Threads : CallEnqueue(t)
  PROVE  SInv'
<1>1. CASE PollCall
  <2>1. UNCHANGED <<replys, stream, seq, closing, poll, status>>
    BY <1>1 DEF PollCall, stopVars
  <2>2. /\ msgid' = msgid + 1 /\ requests' = Enqueue(requests, Request("poll", "call", msgid + 1))
        /\ reqmap' = reqmap \cup {[id |-> msgid + 1, kind |-> "call"]}
    BY <1>1 DEF PollCall, Register
  <2>3. "poll" \in Threads \cup {"poll"}
    OBVIOUS
  <2> QED BY <2>1, <2>2, <2>3, RequestSInv
<1>2. ASSUME NEW t \in Threads, CallEnqueue(t) PROVE SInv'
  <2>1. UNCHANGED <<replys, stream, seq, closing, poll, status>>
    BY <1>2 DEF CallEnqueue, stopVars
  <2>2. /\ msgid' = msgid + 1 /\ requests' = Enqueue(requests, Request(t, "call", msgid + 1))
        /\ reqmap' = reqmap
    BY <1>2 DEF CallEnqueue
  <2>3. t \in Threads \cup {"poll"}
    OBVIOUS
  <2> QED BY <2>1, <2>2, <2>3, RequestSInv
<1> QED BY <1>1, <1>2

\* An entry registered late is no login either.
LEMMA CallRegisterSInv ==
  ASSUME SInv, IInv', NEW t \in Threads, CallRegister(t)
  PROVE  SInv'
<1>1. /\ UNCHANGED <<replys, requests, stream, seq, closing, poll, status, msgid>>
      /\ reqmap' = reqmap \cup {[id |-> caller[t].id, kind |-> "call"]}
  BY DEF CallRegister, stopVars
<1>2. PICK n : n = [id |-> caller[t].id, kind |-> "call"]
  OBVIOUS
<1>3. n \in EntrySet /\ n.kind = "call"
  BY <1>2 DEF EntrySet, SInv, IInv, Types
<1>4. Logins' = Logins /\ reqmap' \subseteq EntrySet
  <2>1. reqmap' = reqmap \cup {n}
    BY <1>1, <1>2
  <2> QED BY <1>3, <2>1 DEF Logins, SInv, QueueTypes
<1>5. QueueTypes' /\ FreshInv'
  BY <1>1, <1>4 DEF SInv, QueueTypes, FreshInv
<1>6. LoginInv' /\ LoginStatus' /\ Establishing'
  BY <1>1, <1>4 DEF SInv, LoginInv, LoginStatus, Establishing, Accepted
<1>7. Truth'
  <2> SUFFICES ASSUME closing = "no" PROVE (Handshake /\ Busy /\ Answered /\ Noticed)'
    BY <1>1 DEF Truth
  <2>1. Hears' = Hears /\ Draining' = Draining
    BY <1>1 DEF Hears, Draining
  <2> QED BY <1>1, <1>4, <2>1 DEF SInv, Truth, Handshake, Busy, Answered, Noticed
<1> QED BY <1>5, <1>6, <1>7 DEF SInv

\* Entries leave reqmap_, and an event may be added; the state may only become CONNECT.
LEMMA LeavingSInv ==
  ASSUME SInv, IInv', QueueTypes', reqmap' \subseteq reqmap,
         UNCHANGED <<stream, seq, closing, requests, msgid>>,
         poll.at \notin {"drainReq", "drainMap"}, poll'.at \notin {"drainReq", "drainMap"},
         \A r \in Elems(replys') : r \in Elems(replys) \/ (r.id = 0 /\ r.kind # "reply"),
         Hears => Hears',
         \/ status' = status
         \/ status' = "CONNECT" /\ Accepted /\ Logins # {} /\ (closing = "no" => Hears'),
         closing = "no" => Logins' = Logins \/ Hears'
  PROVE  SInv'
<1>1. Logins' \subseteq Logins
  BY DEF Logins
<1>2. ASSUME NEW s \in Streams PROVE StreamFlow(s)
  BY StreamStays
<1>3. FreshInv' /\ LoginInv'
  BY <1>2, FlowLogin DEF SInv
<1>4. LoginStatus'
  BY <1>1 DEF SInv, LoginStatus
<1>5. Establishing'
  BY DEF SInv, LoginStatus, Establishing
<1>6. Truth'
  <2> SUFFICES ASSUME closing = "no" PROVE (Handshake /\ Busy /\ Answered /\ Noticed)'
    BY DEF Truth
  <2>1. Handshake /\ Busy /\ Answered /\ Noticed
    BY DEF SInv, Truth
  <2>2. Handshake' /\ Busy'
    BY <2>1 DEF Handshake, Busy, Accepted
  <2>3. Answered'
    BY <1>1, <2>1 DEF Answered
  <2>4. Noticed'
    <3>1. CASE Hears'
      BY <3>1 DEF Noticed
    <3>2. CASE ~Hears'
      <4>1. status' = status /\ Logins' = Logins /\ ~Hears
        BY <3>2
      <4>2. ~Draining
        BY DEF Draining
      <4> QED BY <2>1, <4>1, <4>2 DEF Noticed
    <3> QED BY <3>1, <3>2
  <2> QED BY <2>2, <2>3, <2>4
<1> QED BY <1>3, <1>4, <1>5, <1>6 DEF SInv

\* A reply: the callback of the login is the only one that changes the state.
LEMMA ProcessReplySInv ==
  ASSUME SInv, IInv', NEW j \in Heads(replys), ProcessReply(j)
  PROVE  SInv'
<1>1. /\ UNCHANGED <<stream, seq, closing, requests, msgid, poll>>
      /\ poll.at = "replies" /\ replys[j].kind = "reply"
  BY DEF ProcessReply, Shared, stopVars
<1>2. PICK rep, d, known : rep = replys[j] /\ d = Dequeue(replys, j) /\ known = {e \in reqmap : e.id = rep.id}
  OBVIOUS
<1>3. /\ rep \in ReplySet /\ d \in Seq(ReplySet) /\ Elems(d) \subseteq Elems(replys)
      /\ Elems(replys) \subseteq Elems(d) \cup {rep} /\ rep \in Elems(replys) /\ rep.kind = "reply"
  BY <1>1, <1>2, ElemsDequeue DEF SInv, QueueTypes
<1>4. Elems(d) \subseteq Elems(replys') => (Hears => Hears')
  BY <1>1, <1>3 DEF Hears
<1>5. CASE restarting \/ known = {}
  <2>1. replys' = d /\ UNCHANGED <<status, reqmap>>
    BY <1>2, <1>5 DEF ProcessReply
  <2>2. QueueTypes' /\ Logins' = Logins
    BY <1>1, <1>3, <2>1 DEF SInv, QueueTypes, Logins
  <2>3. Hears => Hears'
    BY <1>4, <2>1
  <2> QED BY <1>1, <1>3, <2>1, <2>2, <2>3, LeavingSInv
<1>6. CASE ~(restarting \/ known = {})
  <2>1. reqmap' = reqmap \ known /\ \E e \in known : Callback(e, rep.ok, d)
    BY <1>2, <1>6 DEF ProcessReply
  <2>2. PICK e \in known : Callback(e, rep.ok, d)
    BY <2>1
  <2>3. e \in reqmap /\ e.id = rep.id /\ \A f \in known : f = e
    BY <1>2 DEF SInv, IInv, EntriesDiffer
  <2>4. PICK v : v = Event("poll", "DISCONNECT")
    OBVIOUS
  <2>5. v \in ReplySet /\ v.id = 0 /\ v.kind = "DISCONNECT"
    BY <2>4, MessagesMade
  <2>6. Enqueue(d, v) \in Seq(ReplySet) /\ Elems(Enqueue(d, v)) = Elems(d) \cup {v}
    BY <1>3, <2>5, ElemsEnqueue
  <2>7. replys' = IF e.kind = "connect" /\ ~rep.ok THEN Enqueue(d, v) ELSE d
    BY <2>2, <2>4 DEF Callback
  <2>8. replys' \in Seq(ReplySet) /\ Elems(d) \subseteq Elems(replys') /\ Elems(replys') \subseteq Elems(d) \cup {v}
    BY <1>3, <2>6, <2>7
  <2>9. status' = IF e.kind = "connect" /\ rep.ok THEN "CONNECT" ELSE status
    BY <2>2 DEF Callback
  <2>10. QueueTypes' /\ reqmap' \subseteq reqmap
    BY <1>1, <2>1, <2>8 DEF SInv, QueueTypes
  <2>11. Hears => Hears'
    BY <1>4, <2>8
  <2>12. \A r \in Elems(replys') : r \in Elems(replys) \/ (r.id = 0 /\ r.kind # "reply")
    BY <1>3, <2>5, <2>8
  <2>13. CASE e.kind # "connect"
    <3>1. Logins' = Logins
      BY <2>1, <2>3, <2>13 DEF Logins
    <3> QED BY <1>1, <2>9, <2>10, <2>11, <2>12, <2>13, <3>1, LeavingSInv
  <2>14. CASE e.kind = "connect" /\ rep.ok
    <3>1. e \in Logins
      BY <2>3, <2>14 DEF Logins
    <3>2. Accepted
      BY <1>3, <2>3, <2>14, <3>1 DEF SInv, LoginInv
    <3>3. closing = "no" => Hears
      BY <1>3, <2>3, <3>1, <3>2 DEF SInv, Truth, Answered, Accepted
    <3>4. closing = "no" => Logins' = Logins \/ Hears'
      BY <2>11, <3>3
    <3> QED BY <1>1, <2>9, <2>10, <2>11, <2>12, <2>14, <3>1, <3>2, <3>3, <3>4, LeavingSInv
  <2>15. CASE e.kind = "connect" /\ ~rep.ok
    <3>1. Hears'
      BY <2>5, <2>6, <2>7, <2>15 DEF Hears
    <3> QED BY <1>1, <2>9, <2>10, <2>11, <2>12, <2>15, <3>1, LeavingSInv
  <2> QED BY <2>13, <2>14, <2>15
<1> QED BY <1>5, <1>6

\* Entries expire; a login among them leaves an event.
LEMMA ProcessTimeoutSInv ==
  ASSUME SInv, IInv', NEW expired \in SUBSET reqmap, ProcessTimeout(expired)
  PROVE  SInv'
<1>1. PICK logins : logins = {e \in expired : e.kind = "connect"}
  OBVIOUS
<1>2. /\ UNCHANGED <<stream, seq, closing, requests, msgid, status>>
      /\ poll.at = "timeout" /\ poll' = Idle /\ reqmap' = reqmap \ expired
      /\ replys' = IF logins = {} THEN replys ELSE Enqueue(replys, Event("poll", "DISCONNECT"))
  BY <1>1 DEF ProcessTimeout, Shared, stopVars
<1>3. PICK v : v = Event("poll", "DISCONNECT")
  OBVIOUS
<1>4. v \in ReplySet /\ v.id = 0 /\ v.kind = "DISCONNECT"
  BY <1>3, MessagesMade
<1>5. replys \in Seq(ReplySet)
  BY DEF SInv, QueueTypes
<1>6. Enqueue(replys, v) \in Seq(ReplySet) /\ Elems(Enqueue(replys, v)) = Elems(replys) \cup {v}
  BY <1>4, <1>5, ElemsEnqueue
<1>7. /\ replys' \in Seq(ReplySet) /\ Elems(replys) \subseteq Elems(replys')
      /\ Elems(replys') \subseteq Elems(replys) \cup {v}
      /\ logins # {} => v \in Elems(replys')
  BY <1>2, <1>3, <1>5, <1>6
<1>8. poll' \in [at : {"idle", "replies", "drainReq", "drainMap", "switch", "timeout"},
                 ev : {"none", "unready", "ESTABLISHED", "DISCONNECT"}] /\ poll'.at = "idle"
  BY <1>2 DEF Idle
<1>9. QueueTypes'
  BY <1>2, <1>7, <1>8 DEF SInv, QueueTypes
<1>10. Hears => Hears'
  BY <1>2, <1>7 DEF Hears
<1>11. Logins' = Logins \/ Hears'
  <2>1. CASE logins = {}
    BY <1>1, <1>2, <2>1 DEF Logins
  <2>2. CASE logins # {}
    BY <1>4, <1>7, <2>2 DEF Hears
  <2> QED BY <2>1, <2>2
<1>12. \A r \in Elems(replys') : r \in Elems(replys) \/ (r.id = 0 /\ r.kind # "reply")
  BY <1>4, <1>7
<1> QED BY <1>2, <1>8, <1>9, <1>10, <1>11, <1>12, LeavingSInv

---------------------------------------------------------------------------
(* The theorems *)

\* IOThread and RPCStream are gone.
LEMMA JoinSInv ==
  ASSUME SInv, IInv', Join
  PROVE  SInv'
<1>1. /\ UNCHANGED <<seq, msgid, status, poll>>
      /\ closing' # "no" /\ reqmap' = {} /\ requests' = <<>> /\ replys' = <<>>
      /\ stream' = [s \in Streams |-> NoStream]
  BY DEF Join
<1>2. /\ NoStream \in StreamSet /\ NoStream.write.id = 0
      /\ NoStream.inbox = <<>> /\ NoStream.back = <<>>
  BY MessagesMade DEF NoStream
<1>3. requests' \in Seq(RequestSet) /\ replys' \in Seq(ReplySet)
      /\ Elems(requests') = {} /\ Elems(replys') = {} /\ Elems(<<>>) = {}
  BY <1>1, ElemsEmpty
<1>4. QueueTypes'
  BY <1>1, <1>2, <1>3 DEF SInv, QueueTypes
<1>5. FreshInv'
  <2>1. msgid \in Nat
    BY DEF SInv, IInv, Types
  <2>2. \A s \in Streams : stream'[s] = NoStream
    BY <1>1
  <2>3. 0 <= msgid
    BY <2>1
  <2> QED BY <1>1, <1>2, <1>3, <2>2, <2>3 DEF FreshInv
<1>6. Logins' = {}
  BY <1>1 DEF Logins
<1>7. LoginInv' /\ LoginStatus' /\ Establishing' /\ Truth'
  BY <1>1, <1>3, <1>6 DEF LoginInv, LoginStatus, Establishing, Truth
<1> QED BY <1>4, <1>5, <1>7 DEF SInv

\* A client that was created has sent nothing.
LEMMA InitSInv == Init => SInv
<1> SUFFICES ASSUME Init PROVE SInv
  OBVIOUS
<1>1. /\ requests = <<>> /\ replys = <<>> /\ reqmap = {} /\ msgid = 0 /\ seq = 0
      /\ stream = [s \in Streams |-> NoStream] /\ status = "DISCONNECT" /\ poll = Idle
  BY DEF Init
<1>2. /\ NoStream \in StreamSet /\ NoStream.write.id = 0
      /\ NoStream.inbox = <<>> /\ NoStream.back = <<>>
  BY MessagesMade DEF NoStream
<1>3. requests \in Seq(RequestSet) /\ replys \in Seq(ReplySet)
      /\ Elems(requests) = {} /\ Elems(replys) = {} /\ Elems(<<>>) = {}
  BY <1>1, ElemsEmpty
<1>4. QueueTypes
  <2>1. seq \in 0..MaxOpen
    BY <1>1, OpenAssumption
  <2>2. poll \in [at : {"idle", "replies", "drainReq", "drainMap", "switch", "timeout"},
                  ev : {"none", "unready", "ESTABLISHED", "DISCONNECT"}]
    BY <1>1 DEF Idle
  <2>3. stream \in [Streams -> StreamSet]
    BY <1>1, <1>2
  <2> QED BY <1>1, <1>3, <2>1, <2>2, <2>3 DEF QueueTypes
<1>5. FreshInv
  <2>1. \A s \in Streams : stream[s] = NoStream
    BY <1>1
  <2> QED BY <1>1, <1>2, <1>3, <2>1 DEF FreshInv
<1>6. Logins = {}
  BY <1>1 DEF Logins
<1>7. LoginInv /\ LoginStatus /\ Establishing
  BY <1>3, <1>6 DEF LoginInv, LoginStatus, Establishing
<1>8. Truth
  BY <1>1, <1>6 DEF Truth, Handshake, Busy, Answered, Noticed, Connected
<1> QED BY <1>4, <1>5, <1>7, <1>8, InitIInv DEF SInv

\* Every step of the client, its threads, the IO thread and the server.
LEMMA NextSInv == SInv /\ [Next]_vars => SInv'
<1> SUFFICES ASSUME SInv, [Next]_vars PROVE SInv'
  OBVIOUS
<1>0. IInv'
  BY NextIInv DEF SInv
<1>1. CASE UpdateStep
  BY <1>0, <1>1, PollMovesSInv, DrainBeginsSInv, DrainRequestsSInv, DrainMapSInv, ProcessReplySInv,
     SwitchStartWriteSInv, ProcessTimeoutSInv DEF UpdateStep
<1>2. CASE SwitchReconnect \/ Release \/ PollCall
  BY <1>0, <1>2, SwitchReconnectSInv, ReleaseSInv, CallsSInv
<1>3. CASE \E t \in Threads : CallCheck(t) \/ CallStep(t)
  BY <1>0, <1>3, StillSInv, CallsSInv, CallRegisterSInv DEF CallStep
<1>4. CASE Write
  BY <1>0, <1>4, RunTimeoutSInv, WriteDoneSInv, WriteEndSInv DEF Write
<1>5. CASE \E s \in Streams : ReadEvent(s)
  BY <1>0, <1>5, StartDoneSInv, ReadDoneSInv, ReadFailSInv, ReadFailClosingSInv DEF ReadEvent
<1>6. CASE \E s \in Streams : CallBreaks(s) \/ ServerClose(s)
  BY <1>0, <1>6, BreakSInv
<1>7. CASE \E s \in Streams, i \in 1..Cardinality(MsgIds), ok \in BOOLEAN : Answer(s, i, ok)
  BY <1>0, <1>7, AnswerSInv
<1>8. CASE Stop \/ StopStep \/ UNCHANGED vars
  BY <1>0, <1>8, StopSInv, StillSInv, JoinSInv DEF StopStep
<1> QED BY <1>1, <1>2, <1>3, <1>4, <1>5, <1>6, <1>7, <1>8 DEF Next

\* StatusTruthful, without NoOrphan: a thread that has enqueued its request registers its entry
\* late, also when DrainQueue has emptied reqmap_ in between.
Told == closing = "no" => Handshake /\ WillHear

\* What the invariant says of the state the application sees.
LEMMA SInvTold == SInv => Told
<1> SUFFICES ASSUME SInv, closing = "no" PROVE Handshake /\ WillHear
  BY DEF Told
<1>1. Handshake /\ Noticed
  BY DEF SInv, Truth
<1>2. WillHear
  BY <1>1 DEF WillHear, Noticed, Hears, Draining, Logins, Elems
<1> QED BY <1>1, <1>2

\* However many threads send, and whatever the network, the server, resets and an unready
\* application do: a client that believes to be connected has logged in on the call it uses,
\* and will hear of the end of that call.
THEOREM ToldTheorem == Safety => []Told
<1>1. Init => SInv
  BY InitSInv
<1>2. SInv /\ [Next]_vars => SInv'
  BY NextSInv
<1>3. SInv => Told
  BY SInvTold
<1> QED BY <1>1, <1>2, <1>3, PTL DEF Safety

\* Without other threads an entry is only registered while the client is connected.
Waiting == status \in {"DISCONNECT", "CONNECTING"} => reqmap = {}

\* Then no entry is there in the states in which Update looks for no timeout.
LEMMA NextWaiting ==
  ASSUME Threads = {}, SInv, Waiting, [Next]_vars
  PROVE  Waiting'
<1>1. CASE UNCHANGED <<status, reqmap>>
  BY <1>1 DEF Waiting
<1>2. CASE DrainMap \/ SwitchStartWrite \/ SwitchReconnect \/ PollCall \/ Join
  BY <1>2 DEF DrainMap, SwitchStartWrite, SwitchReconnect, PollCall, Connected, Join, Waiting
<1>3. CASE \E expired \in SUBSET reqmap : ProcessTimeout(expired)
  BY <1>3 DEF ProcessTimeout, Waiting
<1>4. ASSUME NEW j \in Heads(replys), ProcessReply(j) PROVE Waiting'
  <2> DEFINE known == {e \in reqmap : e.id = replys[j].id}
  <2>1. CASE restarting \/ known = {}
    BY <1>1, <1>4, <2>1 DEF ProcessReply
  <2>2. CASE ~(restarting \/ known = {})
    <3>1. reqmap' = reqmap \ known /\ known # {} /\ known \subseteq reqmap
      BY <1>4, <2>2 DEF ProcessReply
    <3>2. status' = status \/ status' = "CONNECT"
      BY <1>4, <2>2 DEF ProcessReply, Callback
    <3> HIDE DEF known
    <3> QED BY <3>1, <3>2 DEF Waiting
  <2> QED BY <2>1, <2>2
<1>5. UNCHANGED <<status, reqmap>> \/ DrainMap \/ SwitchStartWrite \/ SwitchReconnect \/ PollCall \/ Join
      \/ (\E expired \in SUBSET reqmap : ProcessTimeout(expired))
      \/ (\E j \in Heads(replys) : ProcessReply(j))
  <2>1. CASE UpdateStep
    BY <2>1 DEF UpdateStep, UpdateReady, UpdateUnready, NoReply, DrainRequests, ProcessEvent,
                SwitchReturn, SwitchNothing
  <2>2. CASE Write
    BY <2>2 DEF Write, RunTimeout, WriteDone, WriteIdle, WriteFail, Polling, Client
  <2>3. CASE \E s \in Streams : ReadEvent(s) \/ CallBreaks(s) \/ ServerClose(s)
    BY <2>3 DEF ReadEvent, StartDone, ReadDone, ReadFail, ReadFailClosing, CallBreaks, ServerClose,
                Polling, Client
  <2>4. CASE \E s \in Streams, i \in 1..Cardinality(MsgIds), ok \in BOOLEAN : Answer(s, i, ok)
    BY <2>4 DEF Answer, Polling, Client
  <2>5. CASE Stop \/ StopStep \/ Release \/ UNCHANGED vars
    BY <2>5 DEF Stop, StopStep, RunLeaves, StopTimeout, StopForce, Release, vars, Client
  <2> QED BY <2>1, <2>2, <2>3, <2>4, <2>5 DEF Next
<1> QED BY <1>1, <1>2, <1>3, <1>4, <1>5

\* A client that only its polling thread uses: what its status tells the application is true,
\* or will be corrected, and no entry is left waiting for a connection.
THEOREM StatusTruthfulTheorem == ASSUME Threads = {} PROVE Safety => []StatusTruthful
<1>1. Init => SInv /\ Waiting
  BY InitSInv DEF Init, Waiting
<1>2. SInv /\ Waiting /\ [Next]_vars => (SInv /\ Waiting)'
  BY NextSInv, NextWaiting
<1>3. SInv /\ Waiting => StatusTruthful
  BY SInvTold DEF Told, Waiting, NoOrphan, StatusTruthful
<1> QED BY <1>1, <1>2, <1>3, PTL DEF Safety

---------------------------------------------------------------------------
(* The operations under way *)

\* One thread uses the client, which only loses its connection or closes it: no "reset",
\* "deny", "unready" or "late".  With one of them, or with a second thread and "close",
\* NoMisuse fails.
Alone == Threads = {} /\ Events \subseteq {"net", "close"}

\* gRPC has no operation of this call.
Quiet(s) == ~stream[s].start /\ ~stream[s].read /\ stream[s].write = NoRequest
\* ... or nothing but a write that will fail.
Over(s) == ~stream[s].start /\ ~stream[s].read /\ (stream[s].write # NoRequest => stream[s].doomed)

Asked == \E r \in Elems(requests) : r.kind = "establish"
Says(k) == \E r \in Elems(replys) : r.kind = k

\* Only the call in use has operations under way, and what is read goes to its buffer.
CurrentInv ==
    /\ \A s \in Streams : s # seq => stream[s].st # "open" /\ Quiet(s)
    /\ seq # 0 /\ stream[seq].write # NoRequest => isSending
    /\ seq # 0 /\ stream[seq].read => replyWork = seq
    /\ seq # 0 /\ io = "running" => stream[seq].st # "none"

\* A call is opened when nothing is left of the one before.
OpeningInv ==
    /\ \A j \in 1..Len(requests) : requests[j].by = "poll" /\ (requests[j].kind = "establish" => j = 1)
    /\ Asked /\ seq # 0 => stream[seq].st # "open" /\ Quiet(seq)

\* A queue that is shut down has at most a failing write left; an IO thread that has left its
\* loop has nothing.
ShutInv ==
    /\ cqShut => closing # "no" /\ (seq # 0 => Over(seq))
    /\ io = "left" => Drained /\ closing # "no"
    /\ closing \in {"no", "waiting", "joining", "closed"}
    /\ io = "none" => seq = 0 /\ ~Asked /\ status = "DISCONNECT"
    /\ closing # "no" => poll.at = "idle"
    /\ io \in {"none", "running", "left"}

\* Nothing has been said on the call in use.
Silent(s) == stream[s].inbox = <<>> /\ stream[s].write = NoRequest /\ stream[s].back = <<>>
             /\ stream[s].login = "none"

\* From the start of a call to its ESTABLISHED event the client waits and asks for nothing.
Starting == \/ seq # 0 /\ stream[seq].start
            \/ Says("ESTABLISHED")
            \/ Draining /\ poll.ev = "ESTABLISHED"
StartInv ==
    /\ Starting => status = "CONNECTING" /\ requests = <<>> /\ seq # 0 /\ Silent(seq)
    /\ seq # 0 /\ (Says("ESTABLISHED") \/ Draining) => ~stream[seq].start
    /\ Draining => ~Says("ESTABLISHED") /\ poll.ev \in {"ESTABLISHED", "DISCONNECT"}
    /\ status = "ESTABLISHED" => poll.at = "switch" /\ requests = <<>> /\ seq # 0 /\ Silent(seq)

\* DISCONNECT is said of a call that is over.
LostInv ==
    /\ seq # 0 /\ (status = "DISCONNECT" \/ Says("DISCONNECT") \/ (Draining /\ poll.ev = "DISCONNECT"))
         => stream[seq].st = "dead" /\ Over(seq)
    /\ status = "DISCONNECT" \/ poll.at = "drainMap" => requests = <<>>
    /\ Asked => status = "CONNECTING" /\ replys = <<>> /\ ~Draining /\ Len(requests) = 1

\* The login is the first thing said, so that it is not refused.
FirstInv ==
    /\ \A j \in 1..Len(requests) : requests[j].kind = "connect" =>
         j = 1 /\ seq # 0 /\ Silent(seq)
    /\ seq # 0 => /\ stream[seq].write.kind = "connect" => stream[seq].inbox = <<>> /\ stream[seq].login = "none"
                  /\ \A i \in 1..Len(stream[seq].inbox) : stream[seq].inbox[i].kind = "connect" =>
                        i = 1 /\ stream[seq].login = "none"

\* No answer to a waiting login is a refusal.
NotDenied == \A e \in Logins :
    /\ seq # 0 => \A b \in Elems(stream[seq].back) : b.id = e.id => b.ok
    /\ \A r \in Elems(replys) : r.kind = "reply" /\ r.id = e.id => r.ok

InUse == closing = "no" => StartInv /\ LostInv /\ FirstInv /\ NotDenied

MInv == StopClean /\ CurrentInv /\ OpeningInv /\ ShutInv /\ InUse
---------------------------------------------------------------------------
(* What the invariant says of a queue and of a call *)

\* All requests come from one thread, so that the oldest is taken.
LEMMA TakesFirst ==
  ASSUME SInv, OpeningInv, NEW j \in Heads(requests), requests' = Dequeue(requests, j)
  PROVE  /\ j = 1 /\ requests # <<>>
         /\ Len(requests) \in Nat /\ Len(requests') = Len(requests) - 1
         /\ \A k \in 1..Len(requests') : k + 1 \in 1..Len(requests) /\ requests'[k] = requests[k + 1]
         /\ ~Asked'
<1>1. j \in 1..Len(requests) /\ requests \in Seq(RequestSet)
  BY DEF Heads, SInv, QueueTypes
<1>2. Len(requests) \in Nat
  BY <1>1, LenProperties
<1>3. j = 1
  <2>1. 1 \in 1..Len(requests)
    BY <1>1, <1>2
  <2>2. requests[1].by = "poll" /\ requests[j].by = "poll"
    BY <1>1, <2>1 DEF OpeningInv
  <2>3. \A k \in 1..(j - 1) : requests[k].by # requests[j].by
    BY DEF Heads
  <2>4. ~(1 \in 1..(j - 1))
    BY <2>2, <2>3
  <2> QED BY <1>1, <1>2, <2>4
<1>4. /\ Len(requests') = Len(requests) - 1
      /\ \A i \in 1..(Len(requests) - 1) : requests'[i] = IF i < 1 THEN requests[i] ELSE requests[i + 1]
  BY <1>1, <1>3, RemoveProperties DEF Dequeue
<1>5. \A k \in 1..Len(requests') : k + 1 \in 1..Len(requests) /\ requests'[k] = requests[k + 1]
  BY <1>2, <1>4
<1>6. ~Asked'
  <2> SUFFICES ASSUME NEW k \in 1..Len(requests'), requests'[k].kind = "establish" PROVE FALSE
    BY DEF Asked, Elems
  <2>1. k + 1 = 1
    BY <1>5 DEF OpeningInv
  <2> QED BY <1>2, <1>4, <2>1
<1>7. requests # <<>>
  BY <1>1, <1>2, EmptySeq
<1> QED BY <1>2, <1>3, <1>4, <1>5, <1>6, <1>7

\* An empty queue asks for nothing and says nothing.
LEMMA NothingSaid ==
  /\ requests = <<>> => ~Asked /\ Len(requests) = 0
  /\ replys = <<>> => \A k : ~Says(k)
  /\ (requests = <<>>)' => ~Asked' /\ Len(requests') = 0
  /\ (replys = <<>>)' => \A k : ~(\E r \in Elems(replys') : r.kind = k)
BY ElemsEmpty DEF Asked, Says

\* A call on which something happens is the one in use.
LEMMA OnCurrent ==
  ASSUME CurrentInv, NEW s \in Streams,
         stream[s].st = "open" \/ stream[s].start \/ stream[s].read \/ stream[s].write # NoRequest
  PROVE  s = seq
BY DEF CurrentInv, Quiet

\* seq is a call or 0.
LEMMA SeqRange == ASSUME SInv PROVE seq \in Nat /\ (seq # 0 => seq \in Streams) /\ 0 \notin Streams
  BY OpenAssumption DEF SInv, QueueTypes, Streams

\* When the call in use has nothing under way, gRPC has nothing.
LEMMA AllQuiet ==
  ASSUME CurrentInv, seq # 0 => Quiet(seq)
  PROVE  Drained
<1> SUFFICES ASSUME NEW s \in Streams PROVE Quiet(s)
  BY DEF Drained, Quiet
<1>1. CASE s # seq
  BY <1>1 DEF CurrentInv
<1>2. CASE s = seq
  <2>1. CASE seq # 0
    BY <1>2, <2>1
  <2>2. CASE seq = 0
    BY <1>2, <2>2, SMT DEF Streams
  <2> QED BY <2>1, <2>2
<1> QED BY <1>1, <1>2

---------------------------------------------------------------------------
(* The IO thread writes *)

\* A step of the IO thread that changes the write of the call in use, and takes no more
\* than the oldest request.
LEMMA WritesMInv ==
  ASSUME MInv, SInv, Running, UNCHANGED <<replys, seq, replyWork, misuse>>, UNCHANGED Polling,
         NEW r, stream' = [stream EXCEPT ![seq] = r], stream \in [Streams -> StreamSet],
         seq # 0 => /\ r.st = stream[seq].st /\ r.start = stream[seq].start
                    /\ r.read = stream[seq].read /\ r.back = stream[seq].back
                    /\ r.login = stream[seq].login
                    /\ r.write # NoRequest => isSending'
                    /\ cqShut => r.write = NoRequest
                    /\ stream[seq].st = "dead" /\ Over(seq) /\ r.write # NoRequest => r.doomed,
         \A k \in 1..Len(requests') : requests'[k].by = "poll",
         ~Asked', requests = <<>> => requests' = <<>>,
         closing = "no" =>
           /\ ~Starting /\ status # "ESTABLISHED"
           /\ \A k \in 1..Len(requests') : requests'[k].kind # "connect"
           /\ seq # 0 => /\ r.write.kind = "connect" => r.inbox = <<>> /\ r.login = "none"
                         /\ \A i \in 1..Len(r.inbox) : r.inbox[i].kind = "connect" => i = 1 /\ r.login = "none"
  PROVE  MInv'
<1>1. UNCHANGED <<status, reqmap, poll, closing, io, cqShut>>
  BY DEF Polling, Client, stopVars
<1>2. seq # 0 => seq \in Streams
  BY SeqRange
<1>3. /\ seq # 0 => stream'[seq] = r
      /\ \A u \in Streams : u # seq => stream'[u] = stream[u]
  BY <1>2
<1>4. CurrentInv'
  BY <1>1, <1>2, <1>3 DEF MInv, CurrentInv, Quiet
<1>5. OpeningInv'
  BY DEF OpeningInv, Asked, Elems
<1>6. ShutInv'
  <2>1. closing # "forced" /\ io = "running"
    BY DEF Running
  <2>2. cqShut /\ seq # 0 => Over(seq)'
    BY <1>3 DEF MInv, ShutInv, Over
  <2> QED BY <1>1, <2>1, <2>2 DEF MInv, ShutInv
<1>7. ASSUME closing = "no" PROVE StartInv' /\ LostInv' /\ FirstInv' /\ NotDenied'
  <2>1. ~Starting' /\ (seq # 0 => stream'[seq].start = stream[seq].start)
    BY <1>1, <1>3, <1>7 DEF Starting, Says, Draining
  <2>2. StartInv'
    BY <1>1, <1>7, <2>1 DEF MInv, InUse, StartInv, Says, Draining
  <2>3. LostInv'
    <3>1. seq # 0 /\ stream[seq].st = "dead" /\ Over(seq) => stream'[seq].st = "dead" /\ Over(seq)'
      BY <1>3 DEF Over
    <3> QED BY <1>1, <1>7, <3>1 DEF MInv, InUse, LostInv, Says, Draining
  <2>4. FirstInv'
    BY <1>1, <1>3, <1>7 DEF FirstInv
  <2>5. NotDenied'
    BY <1>1, <1>3, <1>7 DEF MInv, InUse, NotDenied, Logins
  <2> QED BY <2>2, <2>3, <2>4, <2>5
<1> QED BY <1>1, <1>4, <1>5, <1>6, <1>7 DEF MInv, InUse, StopClean

\* Nothing is written on a call that is starting, nor when a new call is asked for.
LEMMA NotStarting ==
  ASSUME MInv, closing = "no", requests # <<>> \/ (seq # 0 /\ stream[seq].write # NoRequest)
  PROVE  ~Starting /\ (status = "ESTABLISHED" => FALSE)
BY DEF MInv, InUse, StartInv, Silent

\* A request is written: the login is the first, and a queue that is shut down has taken the last.
LEMMA RunTimeoutMInv ==
  ASSUME MInv, SInv, Running, NEW j \in Heads(requests), RunTimeout(j)
  PROVE  MInv'
<1>1. /\ j = 1 /\ requests # <<>>
      /\ Len(requests) \in Nat /\ Len(requests') = Len(requests) - 1
      /\ \A k \in 1..Len(requests') : k + 1 \in 1..Len(requests) /\ requests'[k] = requests[k + 1]
      /\ ~Asked'
  BY TakesFirst DEF RunTimeout, MInv
<1>2. /\ UNCHANGED <<replys, replyWork, status, reqmap, poll, closing, io, cqShut>> /\ UNCHANGED Polling
      /\ ~isSending /\ ~ShutDown
  BY DEF RunTimeout, Polling, Client, stopVars
<1>3. seq \in Nat /\ (seq # 0 => seq \in Streams) /\ stream \in [Streams -> StreamSet]
      /\ MaxOpen \in Nat
  BY SeqRange, OpenAssumption DEF SInv, QueueTypes
<1>4. 1 \in 1..Len(requests) /\ requests[1] \in Elems(requests)
  BY <1>1, ElemsDequeue, <1>1 DEF SInv, QueueTypes, Heads
<1>5. seq # 0 => stream[seq].write = NoRequest
  BY <1>2 DEF MInv, CurrentInv
<1>6. ~cqShut
  <2> SUFFICES ASSUME cqShut PROVE FALSE
    OBVIOUS
  <2>1. seq # 0 => Quiet(seq)
    BY <1>5 DEF MInv, ShutInv, Over, Quiet
  <2>2. Drained
    BY <2>1, AllQuiet DEF MInv
  <2> QED BY <1>2, <2>2 DEF ShutDown
<1>7. misuse' = misuse
  BY <1>6 DEF RunTimeout, StartOperation
<1>8. \A k \in 1..Len(requests') : requests'[k].by = "poll"
  BY <1>1 DEF MInv, OpeningInv
<1>9. CASE requests[j].kind # "establish"
  <2>1. PICK req, r : req = requests[1] /\ r = Writing(stream[seq], req)
    OBVIOUS
  <2>2. stream' = [stream EXCEPT ![seq] = r] /\ UNCHANGED seq /\ isSending'
    BY <1>1, <1>9, <2>1 DEF RunTimeout
  <2>3. req \in RequestSet
    BY <1>4, <2>1, ElemsIn DEF SInv, QueueTypes
  <2>4. seq # 0 =>
        /\ r.write = req /\ r.st = stream[seq].st /\ r.start = stream[seq].start
        /\ r.read = stream[seq].read /\ r.inbox = stream[seq].inbox /\ r.back = stream[seq].back
        /\ r.login = stream[seq].login
    BY <1>3, <2>1, <2>3, Wrote
  <2>5. seq # 0 /\ stream[seq].st = "dead" => r.doomed
    <3>1. seq # 0 => r.doomed = (stream[seq].st = "dead")
      <4>1. ASSUME NEW x \in StreamSet PROVE Writing(x, req).doomed = (x.st = "dead")
        BY DEF StreamSet, Writing
      <4> QED BY <1>3, <2>1, <4>1
    <3> QED BY <3>1
  <2>6. requests = <<>> => requests' = <<>>
    BY <1>1
  <2>7. ASSUME closing = "no"
        PROVE  /\ ~Starting /\ status # "ESTABLISHED"
               /\ \A k \in 1..Len(requests') : requests'[k].kind # "connect"
               /\ seq # 0 => /\ r.write.kind = "connect" => r.inbox = <<>> /\ r.login = "none"
                             /\ \A i \in 1..Len(r.inbox) :
                                  r.inbox[i].kind = "connect" => i = 1 /\ r.login = "none"
    <3>1. ~Starting /\ status # "ESTABLISHED"
      BY <1>1, <2>7, NotStarting
    <3>2. FirstInv
      BY <2>7 DEF MInv, InUse
    <3>3. ASSUME NEW k \in 1..Len(requests') PROVE requests'[k].kind # "connect"
      <4>1. k + 1 \in 1..Len(requests) /\ requests'[k] = requests[k + 1] /\ k + 1 # 1
        BY <1>1
      <4> QED BY <3>2, <4>1 DEF FirstInv
    <3>4. req.kind = "connect" /\ seq # 0 => stream[seq].inbox = <<>> /\ stream[seq].login = "none"
      BY <1>4, <2>1, <3>2 DEF FirstInv, Silent
    <3>5. seq # 0 => \A i \in 1..Len(stream[seq].inbox) :
             stream[seq].inbox[i].kind = "connect" => i = 1 /\ stream[seq].login = "none"
      BY <3>2 DEF FirstInv
    <3> QED BY <2>4, <3>1, <3>3, <3>4, <3>5
  <2> QED BY <1>1, <1>2, <1>3, <1>6, <1>7, <1>8, <2>2, <2>4, <2>5, <2>6, <2>7, WritesMInv
<1>10. CASE requests[j].kind = "establish"
  <2>1. /\ seq < MaxOpen /\ seq' = seq + 1 /\ UNCHANGED isSending
        /\ stream' = [s \in Streams |->
                    CASE s = seq + 1 -> [NoStream EXCEPT !.st = "open", !.start = TRUE]
                      [] s = seq -> [stream[s] EXCEPT !.st = "dead"]
                      [] OTHER -> stream[s]]
    BY <1>10 DEF RunTimeout, Open
  <2>2. Asked
    BY <1>1, <1>4, <1>10 DEF Asked
  <2>3. seq # 0 => stream[seq].st # "open" /\ Quiet(seq)
    BY <2>2 DEF MInv, OpeningInv
  <2>4. seq + 1 \in Streams /\ seq + 1 # 0 /\ seq # seq + 1
    BY <1>3, <2>1 DEF Streams
  <2>5. PICK n : n = [NoStream EXCEPT !.st = "open", !.start = TRUE]
    OBVIOUS
  <2>6. /\ n.write = NoRequest /\ n.read = FALSE /\ n.st = "open" /\ n.inbox = <<>>
        /\ n.back = <<>> /\ n.login = "none"
    BY <2>5 DEF NoStream
  <2>7. stream'[seq'] = n
    BY <2>1, <2>4, <2>5
  <2>8. ASSUME NEW s \in Streams, s # seq'
        PROVE  stream'[s].st # "open" /\ Quiet(s)'
    <3>1. CASE s = seq
      <4>1. stream'[s] = [stream[s] EXCEPT !.st = "dead"] /\ stream[s] \in StreamSet
        BY <1>3, <2>1, <2>4, <3>1
      <4>2. PICK x, y : x = stream[s] /\ y = [x EXCEPT !.st = "dead"]
        OBVIOUS
      <4>3. y.st = "dead" /\ y.start = x.start /\ y.read = x.read /\ y.write = x.write
        BY <4>1, <4>2 DEF StreamSet
      <4>4. seq # 0
        BY <3>1 DEF Streams
      <4> QED BY <2>3, <3>1, <4>1, <4>2, <4>3, <4>4 DEF Quiet
    <3>2. CASE s # seq
      <4>1. stream'[s] = stream[s]
        BY <2>1, <2>8, <3>2
      <4> QED BY <3>2, <4>1 DEF MInv, CurrentInv, Quiet
    <3> QED BY <3>1, <3>2
  <2>9. CurrentInv'
    BY <2>6, <2>7, <2>8 DEF CurrentInv
  <2>10. OpeningInv'
    BY <1>1, <1>8 DEF OpeningInv, Asked, Elems
  <2>11. ShutInv'
    BY <1>2, <1>6 DEF MInv, ShutInv, Running
  <2>12. ASSUME closing = "no" PROVE StartInv' /\ LostInv' /\ FirstInv' /\ NotDenied'
    <3>1. status = "CONNECTING" /\ replys = <<>> /\ ~Draining /\ Len(requests) = 1
      BY <2>2, <2>12 DEF MInv, InUse, LostInv
    <3>2. requests' = <<>>
      <4>1. requests' \in Seq(RequestSet)
        BY ElemsDequeue DEF RunTimeout, SInv, QueueTypes
      <4> QED BY <1>1, <3>1, <4>1, EmptySeq
    <3>3. ~Says("ESTABLISHED")' /\ ~Says("DISCONNECT")'
      BY <1>2, <3>1, ElemsEmpty DEF Says
    <3>4. ~Draining'
      BY <1>2, <3>1 DEF Draining
    <3>5. Silent(seq)'
      BY <2>6, <2>7 DEF Silent
    <3>6. StartInv'
      BY <1>2, <2>1, <2>4, <3>1, <3>2, <3>3, <3>4, <3>5 DEF StartInv
    <3>7. LostInv'
      BY <1>1, <1>2, <3>1, <3>2, <3>3, <3>4 DEF LostInv
    <3>8. FirstInv'
      <4>1. Len(requests') = 0 /\ Len(n.inbox) = 0
        BY <1>1, <2>6, <3>1
      <4>2. n.write.kind # "connect"
        BY <2>6, MessagesMade
      <4> QED BY <2>6, <2>7, <4>1, <4>2 DEF FirstInv
    <3>9. Logins' = {}
      BY <1>2, <3>1 DEF SInv, LoginStatus, Logins
    <3> QED BY <3>6, <3>7, <3>8, <3>9 DEF NotDenied
  <2> QED BY <1>2, <1>7, <2>9, <2>10, <2>11, <2>12 DEF MInv, InUse, StopClean
<1> QED BY <1>9, <1>10

\* A message that was written comes behind those the server has.
LEMMA ReceivedInbox ==
  ASSUME NEW r \in StreamSet, r.write.kind = "connect" => r.inbox = <<>> /\ r.login = "none",
         \A i \in 1..Len(r.inbox) : r.inbox[i].kind = "connect" => i = 1 /\ r.login = "none"
  PROVE  \A i \in 1..Len(Received(r).inbox) :
            Received(r).inbox[i].kind = "connect" => i = 1 /\ r.login = "none"
<1>1. r.inbox \in Seq(RequestSet) /\ r.write \in RequestSet /\ Len(r.inbox) \in Nat
  BY LenProperties DEF StreamSet
<1>2. CASE r.st = "dead"
  <2>1. [r EXCEPT !.write = NoRequest].inbox = r.inbox
    BY DEF StreamSet
  <2> QED BY <1>2, <2>1 DEF Received
<1>3. CASE r.st # "dead"
  <2>1. PICK q : q = Append(r.inbox, r.write)
    OBVIOUS
  <2>2. PICK y : y = [r EXCEPT !.write = NoRequest, !.inbox = q]
    OBVIOUS
  <2>3. y.inbox = q
    BY <2>2 DEF StreamSet
  <2>4. Received(r) = y
    BY <1>3, <2>1, <2>2 DEF Received
  <2>5. Len(q) = Len(r.inbox) + 1 /\ q[Len(r.inbox) + 1] = r.write
        /\ \A i \in 1..Len(r.inbox) : q[i] = r.inbox[i]
    BY <1>1, <2>1, AppendProperties
  <2>6. ASSUME NEW i \in 1..Len(q), q[i].kind = "connect" PROVE i = 1 /\ r.login = "none"
    <3>1. CASE i \in 1..Len(r.inbox)
      BY <2>5, <2>6, <3>1
    <3>2. CASE i = Len(r.inbox) + 1
      <4>1. r.inbox = <<>> /\ r.login = "none"
        BY <2>5, <2>6, <3>2
      <4> QED BY <3>2, <4>1
    <3> QED BY <1>1, <2>5, <3>1, <3>2
  <2> QED BY <2>3, <2>4, <2>6
<1> QED BY <1>2, <1>3

\* A write that completes is that of a call that is neither over nor shut down.
LEMMA WrittenNow ==
  ASSUME MInv, Written
  PROVE  /\ ~cqShut /\ ~Asked /\ isSending
         /\ closing = "no" => ~Starting /\ status # "ESTABLISHED" /\ FirstInv
  BY NotStarting DEF MInv, Written, ShutInv, Over, OpeningInv, Quiet, CurrentInv, InUse

\* The next request is written: it is no sentinel.
LEMMA WriteDoneMInv ==
  ASSUME MInv, SInv, Running, NEW j \in Heads(requests), WriteDone(j)
  PROVE  MInv'
<1>0. Written /\ seq # 0 /\ stream[seq].write # NoRequest /\ ~stream[seq].doomed
  BY DEF WriteDone, Written
<1>1. /\ j = 1 /\ requests # <<>>
      /\ Len(requests) \in Nat /\ Len(requests') = Len(requests) - 1
      /\ \A k \in 1..Len(requests') : k + 1 \in 1..Len(requests) /\ requests'[k] = requests[k + 1]
      /\ ~Asked'
  BY TakesFirst DEF WriteDone, MInv
<1>2. seq \in Streams /\ stream \in [Streams -> StreamSet]
  BY <1>0, SeqRange DEF SInv, QueueTypes
<1>3. 1 \in 1..Len(requests) /\ requests[1] \in Elems(requests) /\ requests[1] \in RequestSet
  BY <1>1, ElemsDequeue DEF SInv, QueueTypes, Heads
<1>4. requests[j].kind # "establish"
  BY <1>0, <1>1, <1>3, WrittenNow DEF Asked
<1>5. PICK req, x, r : req = requests[1] /\ x = Received(stream[seq]) /\ r = Writing(x, req)
  OBVIOUS
<1>6. /\ stream' = [stream EXCEPT ![seq] = r] /\ misuse' = misuse
      /\ UNCHANGED <<replys, seq, replyWork, isSending>> /\ UNCHANGED Polling
  BY <1>0, <1>1, <1>4, <1>5, WrittenNow DEF WriteDone, StartOperation
<1>7. /\ x \in StreamSet /\ x.st = stream[seq].st /\ x.start = stream[seq].start
      /\ x.read = stream[seq].read /\ x.back = stream[seq].back /\ x.login = stream[seq].login
  BY <1>2, <1>5, ReceivedFields
<1>8. /\ r.write = req /\ r.st = x.st /\ r.start = x.start /\ r.read = x.read
      /\ r.inbox = x.inbox /\ r.back = x.back /\ r.login = x.login
  BY <1>3, <1>5, <1>7, Wrote
<1>9. stream[seq].st = "dead" /\ Over(seq) => FALSE
  BY <1>0 DEF Over
<1>10. \A k \in 1..Len(requests') : requests'[k].by = "poll"
  BY <1>1 DEF MInv, OpeningInv
<1>11. ASSUME closing = "no"
       PROVE  /\ ~Starting /\ status # "ESTABLISHED"
              /\ \A k \in 1..Len(requests') : requests'[k].kind # "connect"
              /\ r.write.kind = "connect" => r.inbox = <<>> /\ r.login = "none"
              /\ \A i \in 1..Len(r.inbox) : r.inbox[i].kind = "connect" => i = 1 /\ r.login = "none"
  <2>1. ~Starting /\ status # "ESTABLISHED" /\ FirstInv
    BY <1>0, <1>11, WrittenNow
  <2>2. \A k \in 1..Len(requests) : requests[k].kind # "connect"
    BY <1>0, <2>1 DEF FirstInv, Silent
  <2>3. \A k \in 1..Len(requests') : requests'[k].kind # "connect"
    BY <1>1, <2>2
  <2>4. req.kind # "connect"
    BY <1>3, <1>5, <2>2
  <2>5. \A i \in 1..Len(x.inbox) : x.inbox[i].kind = "connect" => i = 1 /\ x.login = "none"
    BY <1>0, <1>2, <1>5, <1>7, <2>1, ReceivedInbox DEF FirstInv
  <2> QED BY <1>8, <2>1, <2>3, <2>4, <2>5
<1>12. ~cqShut /\ isSending'
  BY <1>0, <1>6, WrittenNow
<1> QED BY <1>0, <1>1, <1>2, <1>6, <1>7, <1>8, <1>9, <1>10, <1>11, <1>12, WritesMInv

\* A write completes, and nothing is behind it.
LEMMA WriteIdleMInv ==
  ASSUME MInv, SInv, Running, WriteIdle
  PROVE  MInv'
<1>0. Written /\ seq # 0 /\ stream[seq].write # NoRequest /\ ~stream[seq].doomed
      /\ requests = <<>> /\ requests' = <<>>
      /\ UNCHANGED <<replys, seq, replyWork, misuse>> /\ UNCHANGED Polling
  BY DEF WriteIdle, Written
<1>1. seq \in Streams /\ stream \in [Streams -> StreamSet]
  BY <1>0, SeqRange DEF SInv, QueueTypes
<1>2. PICK r : r = Received(stream[seq])
  OBVIOUS
<1>3. stream' = [stream EXCEPT ![seq] = r]
  BY <1>2 DEF WriteIdle
<1>4. /\ r.st = stream[seq].st /\ r.start = stream[seq].start /\ r.write = NoRequest
      /\ r.read = stream[seq].read /\ r.back = stream[seq].back /\ r.login = stream[seq].login
  BY <1>1, <1>2, ReceivedFields
<1>5. ~Asked' /\ Len(requests') = 0
  BY <1>0, NothingSaid
<1>6. r.write.kind # "connect"
  BY <1>4, MessagesMade
<1>7. closing = "no" =>
        /\ ~Starting /\ status # "ESTABLISHED"
        /\ \A i \in 1..Len(r.inbox) : r.inbox[i].kind = "connect" => i = 1 /\ r.login = "none"
  BY <1>0, <1>1, <1>2, <1>4, WrittenNow, ReceivedInbox DEF FirstInv
<1>8. /\ \A k \in 1..Len(requests') : requests'[k].by = "poll" /\ requests'[k].kind # "connect"
      /\ requests = <<>> => requests' = <<>>
  BY <1>0, <1>5
<1> QED BY <1>1, <1>0, <1>3, <1>4, <1>5, <1>6, <1>7, <1>8, WritesMInv

\* A write fails.
LEMMA WriteFailMInv ==
  ASSUME MInv, SInv, Running, WriteFail
  PROVE  MInv'
<1>0. seq # 0 /\ stream[seq].write # NoRequest
      /\ UNCHANGED <<replys, requests, seq, replyWork, misuse>> /\ UNCHANGED Polling
  BY DEF WriteFail
<1>1. seq \in Streams /\ stream \in [Streams -> StreamSet]
  BY <1>0, SeqRange DEF SInv, QueueTypes
<1>2. PICK x, r : x = stream[seq] /\ r = [x EXCEPT !.write = NoRequest]
  OBVIOUS
<1>3. stream' = [stream EXCEPT ![seq] = r]
  BY <1>2 DEF WriteFail
<1>4. /\ r.st = x.st /\ r.start = x.start /\ r.write = NoRequest /\ r.inbox = x.inbox
      /\ r.read = x.read /\ r.back = x.back /\ r.login = x.login
  BY <1>1, <1>2 DEF StreamSet
<1>5. ~Asked /\ ~Asked'
  BY <1>0 DEF MInv, OpeningInv, Quiet, Asked
<1>6. r.write.kind # "connect"
  BY <1>4, MessagesMade
<1>7. closing = "no" =>
        /\ ~Starting /\ status # "ESTABLISHED"
        /\ \A k \in 1..Len(requests') : requests'[k].kind # "connect"
        /\ \A i \in 1..Len(r.inbox) : r.inbox[i].kind = "connect" => i = 1 /\ r.login = "none"
  BY <1>0, <1>2, <1>4, NotStarting DEF MInv, InUse, FirstInv, Silent
<1>8. \A k \in 1..Len(requests') : requests'[k].by = "poll"
  BY <1>0 DEF MInv, OpeningInv
<1> QED BY <1>0, <1>1, <1>2, <1>3, <1>4, <1>5, <1>6, <1>7, <1>8, WritesMInv

---------------------------------------------------------------------------
(* The IO thread reads *)

\* The start of the call in use completes: the only event that it is established.
LEMMA StartDoneMInv ==
  ASSUME MInv, SInv, Running, NEW s \in Streams, StartDone(s)
  PROVE  MInv'
<1>0. stream[s].start /\ s = seq /\ seq # 0
  <2>1. stream[s].start
    BY DEF StartDone
  <2> QED BY <2>1, OnCurrent, SeqRange DEF MInv
<1>1. /\ UNCHANGED <<requests, seq, isSending>> /\ replyWork' = seq
      /\ UNCHANGED <<status, reqmap, poll, closing, io, cqShut>>
  BY DEF StartDone, Read, Polling, Client, stopVars
<1>2. stream \in [Streams -> StreamSet] /\ replys \in Seq(ReplySet)
  BY DEF SInv, QueueTypes
<1>3. ~cqShut /\ misuse' = misuse
  <2>1. ~cqShut
    BY <1>0 DEF MInv, ShutInv, Over
  <2> QED BY <2>1 DEF StartDone, StartOperation
<1>4. ~Asked /\ ~Asked'
  BY <1>0, <1>1 DEF MInv, OpeningInv, Quiet, Asked
<1>5. PICK x, y : x = stream[s] /\ y = [x EXCEPT !.start = FALSE, !.read = TRUE]
  OBVIOUS
<1>6. /\ y.start = FALSE /\ y.read = TRUE /\ y.st = x.st /\ y.write = x.write
      /\ y.inbox = x.inbox /\ y.back = x.back /\ y.login = x.login
  BY <1>2, <1>5 DEF StreamSet
<1>7. stream'[s] = y /\ \A u \in Streams : u # s => stream'[u] = stream[u]
  <2>1. stream' = [[stream EXCEPT ![s].start = FALSE] EXCEPT ![s].read = TRUE]
    BY <1>0 DEF StartDone, Read
  <2> QED BY <1>2, <1>5, <2>1
<1>8. CurrentInv'
  BY <1>0, <1>1, <1>5, <1>6, <1>7 DEF MInv, CurrentInv, Quiet
<1>9. OpeningInv' /\ ShutInv'
  BY <1>1, <1>3, <1>4 DEF MInv, OpeningInv, ShutInv, Running
<1>10. PICK e : e = IF replyWork = 0 THEN Event("io", "ESTABLISHED") ELSE Reply(0, TRUE)
  OBVIOUS
<1>11. e \in ReplySet /\ e.kind # "DISCONNECT" /\ e.ok
  BY <1>10 DEF Event, Reply, ReplySet
<1>12. Elems(replys') = Elems(replys) \cup {e}
  <2>1. replys' = Enqueue(replys, e)
    BY <1>10 DEF StartDone
  <2> QED BY <1>2, <1>11, <2>1, ElemsEnqueue
<1>13. ASSUME closing = "no" PROVE StartInv' /\ LostInv' /\ FirstInv' /\ NotDenied'
  <2>1. StartInv /\ LostInv /\ NotDenied
    BY <1>13 DEF MInv, InUse
  <2>2. status = "CONNECTING" /\ requests = <<>> /\ Silent(seq)
    BY <1>0, <2>1 DEF StartInv, Starting
  <2>3. ~Draining /\ ~Draining' /\ ~Says("DISCONNECT")
    BY <1>0, <1>1, <2>1 DEF StartInv, LostInv, Over, Draining
  <2>4. ~Says("DISCONNECT")'
    BY <1>11, <1>12, <2>3 DEF Says
  <2>5. Silent(seq)'
    BY <1>0, <1>1, <1>5, <1>6, <1>7, <2>2 DEF Silent
  <2>6. StartInv'
    BY <1>0, <1>1, <1>6, <1>7, <2>2, <2>3, <2>5 DEF StartInv
  <2>7. LostInv'
    BY <1>1, <1>4, <2>2, <2>3, <2>4 DEF LostInv, Draining
  <2>8. FirstInv'
    <3>1. Len(requests') = 0 /\ Len(stream'[seq].inbox) = 0
      BY <1>1, <2>2, <2>5 DEF Silent
    <3>2. stream'[seq].write.kind # "connect"
      BY <1>1, <2>5, MessagesMade DEF Silent
    <3> QED BY <1>1, <3>1, <3>2 DEF FirstInv
  <2>9. NotDenied'
    <3>1. Logins' = {}
      BY <1>1, <2>2 DEF SInv, LoginStatus, Logins
    <3> QED BY <3>1 DEF NotDenied
  <2> QED BY <2>6, <2>7, <2>8, <2>9
<1> QED BY <1>1, <1>3, <1>8, <1>9, <1>13 DEF MInv, InUse, StopClean

\* A read completes into the buffer it was given, with an answer.
LEMMA ReadDoneMInv ==
  ASSUME MInv, SInv, Running, NEW s \in Streams, ReadDone(s)
  PROVE  MInv'
<1>0. stream[s].read /\ s = seq /\ seq # 0 /\ stream[s].back # <<>>
  <2>1. stream[s].read /\ stream[s].back # <<>>
    BY DEF ReadDone
  <2> QED BY <2>1, OnCurrent, SeqRange DEF MInv
<1>1. /\ UNCHANGED <<requests, seq, isSending>> /\ replyWork' = seq
      /\ UNCHANGED <<status, reqmap, poll, closing, io, cqShut>>
  BY DEF ReadDone, Read, Polling, Client, stopVars
<1>2. stream \in [Streams -> StreamSet] /\ replys \in Seq(ReplySet)
  BY DEF SInv, QueueTypes
<1>3. ~cqShut /\ replyWork = s
  BY <1>0 DEF MInv, ShutInv, Over, CurrentInv
<1>30. misuse' = misuse
  BY <1>3 DEF ReadDone
<1>4. ~Asked /\ ~Asked'
  BY <1>0, <1>1 DEF MInv, OpeningInv, Quiet, Asked
<1>5. PICK x, q, b : x = stream[s] /\ q = Tail(x.back) /\ b = Head(x.back)
  OBVIOUS
<1>51. /\ x \in StreamSet /\ q \in Seq(AnswerSet) /\ Elems(q) \subseteq Elems(x.back)
       /\ b \in Elems(x.back) /\ b \in AnswerSet
  <2>1. x.back \in Seq(AnswerSet) /\ x.back # <<>> /\ x \in StreamSet
    BY <1>0, <1>2, <1>5 DEF StreamSet
  <2> QED BY <1>5, <2>1, ElemsTail
<1>52. PICK z, y : z = [x EXCEPT !.back = q, !.read = FALSE] /\ y = [z EXCEPT !.read = TRUE]
  OBVIOUS
<1>6. /\ y.start = x.start /\ y.read = TRUE /\ y.st = x.st /\ y.write = x.write
      /\ y.inbox = x.inbox /\ y.back = q /\ y.login = x.login
  <2>1. /\ z \in StreamSet /\ z.start = x.start /\ z.st = x.st /\ z.write = x.write
        /\ z.inbox = x.inbox /\ z.back = q /\ z.login = x.login
    BY <1>51, <1>52 DEF StreamSet
  <2> QED BY <1>52, <2>1 DEF StreamSet
<1>7. stream'[s] = y /\ \A u \in Streams : u # s => stream'[u] = stream[u]
  <2>1. PICK f : f = [stream EXCEPT ![s].back = Tail(@), ![s].read = FALSE]
    OBVIOUS
  <2>2. stream' = [f EXCEPT ![s].read = TRUE]
    BY <1>0, <2>1 DEF ReadDone, Read
  <2>3. f = [stream EXCEPT ![s] = z]
    BY <1>2, <1>5, <1>52, <2>1
  <2> QED BY <1>2, <1>52, <2>2, <2>3
<1>8. CurrentInv'
  BY <1>0, <1>1, <1>5, <1>6, <1>7 DEF MInv, CurrentInv, Quiet
<1>9. OpeningInv' /\ ShutInv'
  BY <1>1, <1>3, <1>4 DEF MInv, OpeningInv, ShutInv, Running
<1>10. PICK e : e = Reply(b.id, b.ok)
  OBVIOUS
<1>11. e \in ReplySet /\ e.kind = "reply" /\ e.id = b.id /\ e.ok = b.ok
  BY <1>10, <1>51 DEF Reply, ReplySet, AnswerSet
<1>12. Elems(replys') = Elems(replys) \cup {e}
  <2>1. replys' = Enqueue(replys, e)
    BY <1>0, <1>3, <1>5, <1>10 DEF ReadDone
  <2> QED BY <1>2, <1>11, <2>1, ElemsEnqueue
<1>13. ASSUME closing = "no" PROVE StartInv' /\ LostInv' /\ FirstInv' /\ NotDenied'
  <2>1. StartInv /\ LostInv /\ NotDenied /\ FirstInv
    BY <1>13 DEF MInv, InUse
  <2>2. ~Silent(seq)
    BY <1>0 DEF Silent
  <2>3. ~Starting /\ status # "ESTABLISHED"
    BY <2>1, <2>2 DEF StartInv
  <2>4. Says("ESTABLISHED")' = Says("ESTABLISHED") /\ Says("DISCONNECT")' = Says("DISCONNECT")
        /\ Draining' = Draining
    BY <1>1, <1>11, <1>12 DEF Says, Draining
  <2>5. ~Starting'
    BY <1>0, <1>1, <1>5, <1>6, <1>7, <2>3, <2>4 DEF Starting
  <2>6. StartInv'
    BY <1>0, <1>1, <1>5, <1>6, <1>7, <2>1, <2>3, <2>4, <2>5 DEF StartInv
  <2>7. LostInv'
    <3>1. ~(status = "DISCONNECT" \/ Says("DISCONNECT") \/ (Draining /\ poll.ev = "DISCONNECT"))
      BY <1>0, <2>1 DEF LostInv, Over
    <3> QED BY <1>1, <1>4, <2>1, <2>4, <3>1 DEF LostInv
  <2>8. FirstInv'
    BY <1>0, <1>1, <1>5, <1>6, <1>7, <2>1, <2>2 DEF FirstInv
  <2>9. NotDenied'
    BY <1>0, <1>1, <1>5, <1>51, <1>6, <1>7, <1>11, <1>12, <2>1 DEF NotDenied, Logins
  <2> QED BY <2>6, <2>7, <2>8, <2>9
<1> QED BY <1>1, <1>30, <1>8, <1>9, <1>13 DEF MInv, InUse, StopClean

\* The completion that fails is of the call in use.
LEMMA FailingCurrent ==
  ASSUME CurrentInv, SInv, NEW s \in Streams, Failing(s)
  PROVE  /\ s = seq /\ seq # 0
         /\ stream[s].st = "dead" /\ stream'[s].st = "dead" /\ ~stream'[s].start /\ ~stream'[s].read /\ stream'[s].doomed
         /\ stream'[s].write = stream[s].write /\ stream'[s].inbox = stream[s].inbox
         /\ stream'[s].back = stream[s].back /\ stream'[s].login = stream[s].login
         /\ \A u \in Streams : u # s => stream'[u] = stream[u]
<1>0. stream[s].start \/ stream[s].read
  BY DEF Failing
<1>1. s = seq /\ seq # 0
  BY <1>0, OnCurrent, SeqRange
<1>3. PICK x, y : x = stream[s] /\ y = [x EXCEPT !.start = FALSE, !.read = FALSE, !.doomed = TRUE]
  OBVIOUS
<1>4. x \in StreamSet /\ stream \in [Streams -> StreamSet]
  BY <1>3 DEF SInv, QueueTypes
<1>5. /\ ~y.start /\ ~y.read /\ y.doomed /\ y.write = x.write /\ y.inbox = x.inbox /\ y.back = x.back
      /\ y.login = x.login /\ y.st = x.st
  BY <1>3, <1>4 DEF StreamSet
<1>6. stream' = [stream EXCEPT ![s] = y] /\ x.st = "dead"
  BY <1>3, <1>4 DEF Failing
<1>7. stream'[s] = y /\ \A u \in Streams : u # s => stream'[u] = stream[u]
  BY <1>4, <1>6
<1> QED BY <1>1, <1>3, <1>5, <1>6, <1>7

\* That call is over then.
LEMMA FailingNow ==
  ASSUME MInv, SInv, NEW s \in Streams, Failing(s)
  PROVE  /\ s = seq /\ seq # 0 /\ ~Asked /\ ~cqShut
         /\ stream'[s].st = "dead" /\ ~stream'[s].start /\ ~stream'[s].read /\ stream'[s].doomed
         /\ stream'[s].write = stream[s].write /\ stream'[s].inbox = stream[s].inbox
         /\ stream'[s].back = stream[s].back /\ stream'[s].login = stream[s].login
         /\ \A u \in Streams : u # s => stream'[u] = stream[u]
<1>1. /\ s = seq /\ seq # 0
      /\ stream'[s].st = "dead" /\ ~stream'[s].start /\ ~stream'[s].read /\ stream'[s].doomed
      /\ stream'[s].write = stream[s].write /\ stream'[s].inbox = stream[s].inbox
      /\ stream'[s].back = stream[s].back /\ stream'[s].login = stream[s].login
      /\ \A u \in Streams : u # s => stream'[u] = stream[u]
  BY FailingCurrent DEF MInv
<1>2. stream[s].start \/ stream[s].read
  BY DEF Failing
<1>3. ~Asked /\ ~cqShut
  BY <1>1, <1>2 DEF MInv, OpeningInv, Quiet, ShutInv, Over
<1> QED BY <1>1, <1>3

\* The requests are dropped, and DISCONNECT is said.
LEMMA ReadFailMInv ==
  ASSUME MInv, SInv, Running, NEW s \in Streams, ReadFail(s)
  PROVE  MInv'
<1>0. /\ s = seq /\ seq # 0 /\ ~Asked /\ ~cqShut
      /\ stream'[s].st = "dead" /\ ~stream'[s].start /\ ~stream'[s].read /\ stream'[s].doomed
      /\ stream'[s].write = stream[s].write /\ stream'[s].inbox = stream[s].inbox
      /\ stream'[s].back = stream[s].back /\ stream'[s].login = stream[s].login
      /\ \A u \in Streams : u # s => stream'[u] = stream[u]
  BY FailingNow DEF ReadFail
<1>1. /\ requests' = <<>> /\ closing = "no" /\ misuse' = misuse
      /\ UNCHANGED <<seq, isSending, status, reqmap, poll, closing, io, cqShut>>
  BY DEF ReadFail, Polling, Client, stopVars
<1>2. replys \in Seq(ReplySet)
  BY DEF SInv, QueueTypes
<1>3. PICK e : e = Event("io", "DISCONNECT")
  OBVIOUS
<1>4. e \in ReplySet /\ e.kind = "DISCONNECT"
  BY <1>3, MessagesMade
<1>5. Elems(replys') = Elems(replys) \cup {e}
  <2>1. replys' = Enqueue(replys, e)
    BY <1>0, <1>3 DEF ReadFail
  <2> QED BY <1>2, <1>4, <2>1, ElemsEnqueue
<1>6. ~Asked' /\ Len(requests') = 0
  BY <1>1, NothingSaid
<1>7. CurrentInv'
  BY <1>0, <1>1 DEF MInv, CurrentInv, Quiet
<1>8. OpeningInv' /\ ShutInv'
  BY <1>0, <1>1, <1>6 DEF MInv, OpeningInv, ShutInv, Running
<1>9. StartInv /\ LostInv /\ FirstInv /\ NotDenied
  BY <1>1 DEF MInv, InUse
<1>10. Says("ESTABLISHED")' = Says("ESTABLISHED") /\ Draining' = Draining
  BY <1>1, <1>4, <1>5 DEF Says, Draining
<1>11. Starting' => Starting
  BY <1>0, <1>1, <1>10 DEF Starting
<1>12. Silent(seq) => Silent(seq)'
  BY <1>0, <1>1 DEF Silent
<1>13. StartInv'
  BY <1>0, <1>1, <1>9, <1>10, <1>11, <1>12 DEF StartInv
<1>14. LostInv'
  BY <1>0, <1>1, <1>6 DEF LostInv, Over
<1>15. FirstInv'
  BY <1>0, <1>1, <1>6, <1>9 DEF FirstInv
<1>16. NotDenied'
  BY <1>0, <1>1, <1>4, <1>5, <1>9 DEF NotDenied, Logins
<1> QED BY <1>1, <1>7, <1>8, <1>13, <1>14, <1>15, <1>16 DEF MInv, InUse, StopClean

\* While the connection is closed the queue is shut down instead.
LEMMA ReadFailClosingMInv ==
  ASSUME MInv, SInv, Running, NEW s \in Streams, ReadFailClosing(s)
  PROVE  MInv'
<1>0. /\ s = seq /\ seq # 0 /\ ~Asked
      /\ stream'[s].st = "dead" /\ ~stream'[s].start /\ ~stream'[s].read /\ stream'[s].doomed
      /\ stream'[s].write = stream[s].write
      /\ \A u \in Streams : u # s => stream'[u] = stream[u]
  BY FailingNow DEF ReadFailClosing
<1>1. /\ UNCHANGED <<requests, misuse>> /\ closing # "no" /\ cqShut'
      /\ UNCHANGED <<seq, isSending, status, poll, closing, io>>
  BY DEF ReadFailClosing, Client
<1>2. ~Asked'
  BY <1>0, <1>1 DEF Asked
<1>3. CurrentInv'
  BY <1>0, <1>1 DEF MInv, CurrentInv, Quiet
<1>4. OpeningInv'
  BY <1>1, <1>2 DEF MInv, OpeningInv
<1>5. ShutInv'
  <2>1. Over(seq)'
    BY <1>0, <1>1 DEF Over
  <2> QED BY <1>1, <2>1 DEF MInv, ShutInv, Running
<1> QED BY <1>1, <1>3, <1>4, <1>5 DEF MInv, InUse, StopClean

---------------------------------------------------------------------------
(* The server and the network *)

\* The call in use ends.
LEMMA BreakMInv ==
  ASSUME MInv, SInv, NEW s \in Streams, CallBreaks(s) \/ ServerClose(s)
  PROVE  MInv'
<1>0. stream[s].st = "open" /\ s = seq /\ seq # 0
  <2>1. stream[s].st = "open"
    BY DEF CallBreaks, ServerClose
  <2> QED BY <2>1, OnCurrent, SeqRange DEF MInv
<1>1. /\ UNCHANGED <<requests, replys, seq, isSending, replyWork, misuse>>
      /\ UNCHANGED <<status, reqmap, poll, closing, io, cqShut>>
      /\ stream' = [stream EXCEPT ![s].st = "dead"]
  BY DEF CallBreaks, ServerClose, Polling, Client, stopVars
<1>2. PICK x, y : x = stream[s] /\ y = [x EXCEPT !.st = "dead"]
  OBVIOUS
<1>3. x \in StreamSet /\ stream \in [Streams -> StreamSet]
  BY <1>2 DEF SInv, QueueTypes
<1>4. /\ y.st = "dead" /\ y.start = x.start /\ y.read = x.read /\ y.write = x.write
      /\ y.doomed = x.doomed /\ y.inbox = x.inbox /\ y.back = x.back /\ y.login = x.login
  BY <1>2, <1>3 DEF StreamSet
<1>5. stream'[s] = y /\ \A u \in Streams : u # s => stream'[u] = stream[u]
  BY <1>1, <1>2, <1>3
<1>6. CurrentInv'
  BY <1>0, <1>1, <1>2, <1>4, <1>5 DEF MInv, CurrentInv, Quiet
<1>7. OpeningInv'
  BY <1>0, <1>1 DEF MInv, OpeningInv, Asked
<1>8. ShutInv'
  <2>1. Over(seq) => Over(seq)'
    BY <1>0, <1>1, <1>2, <1>4, <1>5 DEF Over
  <2>2. Drained => Drained'
    <3>1. ASSUME Drained, NEW u \in Streams PROVE Quiet(u)'
      BY <1>2, <1>4, <1>5, <3>1 DEF Drained, Quiet
    <3> QED BY <3>1 DEF Drained, Quiet
  <2>3. Asked' = Asked
    BY <1>1 DEF Asked
  <2> QED BY <1>1, <2>1, <2>2, <2>3 DEF MInv, ShutInv
<1>9. ASSUME closing = "no" PROVE StartInv' /\ LostInv' /\ FirstInv' /\ NotDenied'
  <2>1. StartInv /\ LostInv /\ NotDenied /\ FirstInv
    BY <1>9 DEF MInv, InUse
  <2>2. Silent(seq) => Silent(seq)'
    BY <1>0, <1>1, <1>2, <1>4, <1>5 DEF Silent
  <2>3. stream'[seq].start = stream[seq].start
    BY <1>0, <1>2, <1>4, <1>5
  <2>4. Starting' = Starting
    BY <1>1, <2>3 DEF Starting, Says, Draining
  <2>5. StartInv'
    BY <1>1, <2>1, <2>2, <2>3, <2>4 DEF StartInv, Says, Draining
  <2>6. LostInv'
    <3>1. Asked' = Asked
      BY <1>1 DEF Asked
    <3>2. ~(status = "DISCONNECT" \/ Says("DISCONNECT") \/ (Draining /\ poll.ev = "DISCONNECT"))
      BY <1>0, <2>1 DEF LostInv
    <3> QED BY <1>1, <2>1, <3>1, <3>2 DEF LostInv, Says, Draining
  <2>7. FirstInv'
    BY <1>0, <1>1, <1>2, <1>4, <1>5, <2>1, <2>2 DEF FirstInv
  <2>8. NotDenied'
    BY <1>0, <1>1, <1>2, <1>4, <1>5, <2>1 DEF NotDenied, Logins
  <2> QED BY <2>5, <2>6, <2>7, <2>8
<1> QED BY <1>1, <1>6, <1>7, <1>8, <1>9 DEF MInv, InUse, StopClean

\* A login is the first request and is accepted.
LEMMA AnswerMInv ==
  ASSUME Alone, MInv, SInv, NEW s \in Streams, NEW i, NEW ok \in BOOLEAN, Answer(s, i, ok)
  PROVE  MInv'
<1>0. stream[s].st = "open" /\ s = seq /\ seq # 0
  <2>1. stream[s].st = "open"
    BY DEF Answer
  <2> QED BY <2>1, OnCurrent, SeqRange DEF MInv
<1>1. /\ UNCHANGED <<requests, replys, seq, isSending, replyWork, misuse>>
      /\ UNCHANGED <<status, reqmap, poll, closing, io, cqShut>>
      /\ i \in 1..Len(stream[s].inbox)
  BY DEF Answer, Polling, Client, stopVars
<1>2. stream \in [Streams -> StreamSet]
  BY DEF SInv, QueueTypes
<1>3. PICK x, req, a, q, b, l : x = stream[s] /\ req = x.inbox[i] /\ a = [id |-> req.id, ok |-> ok]
        /\ q = RemoveAt(x.inbox, i) /\ b = Append(x.back, a)
        /\ l = IF x.login # "none" THEN x.login ELSE IF ok THEN "accepted" ELSE "denied"
  OBVIOUS
<1>4. x \in StreamSet /\ x.inbox \in Seq(RequestSet) /\ x.back \in Seq(AnswerSet)
      /\ x.login \in {"none", "accepted", "denied"} /\ Len(x.inbox) \in Nat /\ i \in 1..Len(x.inbox)
  <2>1. x \in StreamSet
    BY <1>2, <1>3
  <2> QED BY <1>1, <1>3, <2>1, LenProperties DEF StreamSet
<1>5. /\ Len(q) = Len(x.inbox) - 1
      /\ \A k \in 1..(Len(x.inbox) - 1) : q[k] = IF k < i THEN x.inbox[k] ELSE x.inbox[k + 1]
  BY <1>3, <1>4, RemoveProperties
<1>6. req \in Elems(x.inbox) /\ req \in RequestSet
  <2>1. req \in Elems(x.inbox)
    BY <1>3, <1>4 DEF Elems
  <2> QED BY <1>4, <2>1, ElemsIn
<1>7. a \in AnswerSet /\ a.id = req.id /\ a.ok = ok
  BY <1>3, <1>6 DEF RequestSet, AnswerSet
<1>8. Elems(b) = Elems(x.back) \cup {a}
  <2>1. PICK d : d = x.back
    OBVIOUS
  <2>2. d \in Seq(AnswerSet) /\ a \in AnswerSet
    BY <1>4, <1>7, <2>1
  <2>3. Elems(Append(d, a)) = Elems(d) \cup {a}
    BY <2>2, ElemsEnqueue
  <2> QED BY <1>3, <2>1, <2>3
<1>9. PICK y : y = [x EXCEPT !.inbox = q, !.back = b, !.login = l]
  OBVIOUS
<1>10. /\ y.write = x.write /\ y.inbox = q /\ y.back = b /\ y.doomed = x.doomed
       /\ y.login = l /\ y.st = x.st /\ y.start = x.start /\ y.read = x.read
  BY <1>4, <1>9 DEF StreamSet
<1>11. stream'[s] = y /\ \A u \in Streams : u # s => stream'[u] = stream[u]
  <2>1. stream' = [stream EXCEPT ![s] = y]
    BY <1>2, <1>3, <1>9 DEF Answer
  <2> QED BY <1>2, <2>1
<1>12. CurrentInv'
  BY <1>0, <1>1, <1>3, <1>10, <1>11 DEF MInv, CurrentInv, Quiet
<1>13. ~Asked /\ ~Asked' /\ OpeningInv'
  BY <1>0, <1>1 DEF MInv, OpeningInv, Asked
<1>14. ShutInv'
  <2>1. Over(seq) => Over(seq)'
    BY <1>0, <1>1, <1>3, <1>10, <1>11 DEF Over
  <2>2. Drained => Drained'
    <3>1. ASSUME Drained, NEW u \in Streams PROVE Quiet(u)'
      BY <1>3, <1>10, <1>11, <3>1 DEF Drained, Quiet
    <3> QED BY <3>1 DEF Drained, Quiet
  <2> QED BY <1>1, <1>13, <2>1, <2>2 DEF MInv, ShutInv
<1>15. ASSUME closing = "no" PROVE StartInv' /\ LostInv' /\ FirstInv' /\ NotDenied'
  <2>1. StartInv /\ LostInv /\ NotDenied /\ FirstInv
    BY <1>15 DEF MInv, InUse
  <2>2. x.inbox # <<>>
    BY <1>4
  <2>3. ~Starting /\ status # "ESTABLISHED" /\ x.write.kind # "connect"
        /\ \A j \in 1..Len(requests) : requests[j].kind # "connect"
    BY <1>0, <1>3, <2>1, <2>2 DEF StartInv, FirstInv, Silent
  <2>4. stream'[seq].start = stream[seq].start
    BY <1>0, <1>3, <1>10, <1>11
  <2>5. ~Starting'
    BY <1>1, <2>3, <2>4 DEF Starting, Says, Draining
  <2>6. StartInv'
    BY <1>1, <2>1, <2>3, <2>4, <2>5 DEF StartInv, Says, Draining
  <2>7. LostInv'
    <3>1. ~(status = "DISCONNECT" \/ Says("DISCONNECT") \/ (Draining /\ poll.ev = "DISCONNECT"))
      BY <1>0, <2>1 DEF LostInv
    <3> QED BY <1>1, <1>13, <2>1, <3>1 DEF LostInv, Says, Draining
  <2>8. \A k \in 1..Len(x.inbox) : x.inbox[k].kind = "connect" => k = 1 /\ x.login = "none"
    BY <1>0, <1>3, <2>1 DEF FirstInv
  <2>9. x.login = "none" => i = 1
    BY <1>3 DEF Answer
  <2>10. \A k \in 1..Len(q) : q[k].kind # "connect"
    <3> SUFFICES ASSUME NEW k \in 1..Len(q), q[k].kind = "connect" PROVE FALSE
      OBVIOUS
    <3>1. CASE k < i
      <4>1. q[k] = x.inbox[k] /\ k \in 1..Len(x.inbox)
        BY <1>4, <1>5, <3>1
      <4>2. k = 1 /\ i = 1
        BY <2>8, <2>9, <4>1
      <4> QED BY <3>1, <4>2
    <3>2. CASE ~(k < i)
      <4>1. q[k] = x.inbox[k + 1] /\ k + 1 \in 1..Len(x.inbox) /\ k + 1 # 1
        BY <1>4, <1>5, <3>2
      <4> QED BY <2>8, <4>1
    <3> QED BY <3>1, <3>2
  <2>11. FirstInv'
    BY <1>0, <1>1, <1>10, <1>11, <2>3, <2>10 DEF FirstInv
  <2>12. req.kind = "connect" => ok
    <3>1. req.kind = "connect" => x.login = "none"
      BY <1>3, <1>4, <2>8
    <3>2. x.login = "none" /\ ~ok => req.kind = "call"
      BY <1>3 DEF Answer, Alone
    <3> QED BY <3>1, <3>2
  <2>13. NotDenied'
    <3>1. Logins' = Logins
      BY <1>1 DEF Logins
    <3>2. ASSUME NEW e \in Logins, a.id = e.id PROVE a.ok
      <4>1. req.kind = "connect"
        BY <1>3, <1>6, <1>7, <3>2 DEF SInv, LoginInv
      <4> QED BY <1>7, <2>12, <4>1
    <3>3. ASSUME NEW e \in Logins, NEW c \in Elems(b), c.id = e.id PROVE c.ok
      <4>1. CASE c \in Elems(x.back)
        BY <1>0, <1>3, <2>1, <3>3, <4>1 DEF NotDenied
      <4>2. CASE c = a
        BY <3>2, <3>3, <4>2
      <4> QED BY <1>8, <4>1, <4>2
    <3>4. stream'[seq].back = b /\ replys' = replys /\ seq' = seq
      BY <1>0, <1>1, <1>10, <1>11
    <3> QED BY <2>1, <3>1, <3>3, <3>4 DEF NotDenied
  <2> QED BY <2>6, <2>7, <2>11, <2>13
<1> QED BY <1>1, <1>12, <1>13, <1>14, <1>15 DEF MInv, InUse, StopClean

---------------------------------------------------------------------------
(* The connection is closed *)

\* The application closes: from now on nothing is polled.
LEMMA StopMInv ==
  ASSUME MInv, SInv, Stop
  PROVE  MInv'
<1>1. /\ UNCHANGED <<replys, seq, isSending, replyWork, stream, misuse, io>>
      /\ UNCHANGED <<status, reqmap, poll>> /\ closing = "no" /\ poll.at = "idle"
  BY DEF Stop, Client
<1>2. CASE io = "none" \/ status = "DISCONNECT"
  <2>1. closing' = "joining" /\ (cqShut' => io = "running") /\ UNCHANGED requests
    BY <1>2 DEF Stop
  <2>2. Asked' = Asked
    BY <2>1 DEF Asked
  <2>3. CurrentInv' /\ OpeningInv'
    BY <1>1, <2>1, <2>2 DEF MInv, CurrentInv, OpeningInv, Quiet
  <2>4. cqShut' /\ seq # 0 => Over(seq)
    BY <1>1, <1>2, <2>1 DEF MInv, InUse, LostInv
  <2>5. ShutInv'
    BY <1>1, <2>1, <2>2, <2>4 DEF MInv, ShutInv, Over, Drained
  <2> QED BY <1>1, <2>1, <2>3, <2>5 DEF MInv, InUse, StopClean
<1>3. CASE ~(io = "none" \/ status = "DISCONNECT")
  <2>1. PICK r : r = Request("poll", "close", 0)
    OBVIOUS
  <2>2. r \in RequestSet /\ r.kind = "close" /\ r.by = "poll"
    <3>1. 0 \in Nat
      OBVIOUS
    <3> QED BY <2>1, <3>1, MessagesMade DEF Request
  <2>3. closing' = "waiting" /\ requests' = Append(requests, r) /\ UNCHANGED cqShut
    BY <1>3, <2>1 DEF Stop, Enqueue
  <2>4. requests \in Seq(RequestSet) /\ Len(requests) \in Nat
    BY LenProperties DEF SInv, QueueTypes
  <2>5. /\ Len(requests') = Len(requests) + 1 /\ requests'[Len(requests) + 1] = r
        /\ \A k \in 1..Len(requests) : requests'[k] = requests[k]
    BY <2>2, <2>3, <2>4, AppendProperties
  <2>6. \A k \in 1..Len(requests') : requests'[k] = r \/ (k \in 1..Len(requests) /\ requests'[k] = requests[k])
    BY <2>4, <2>5
  <2>7. Asked' => Asked
    BY <2>2, <2>6 DEF Asked, Elems
  <2>8. CurrentInv'
    BY <1>1 DEF MInv, CurrentInv, Quiet
  <2>9. OpeningInv'
    BY <1>1, <2>2, <2>6, <2>7 DEF MInv, OpeningInv, Quiet
  <2>10. ShutInv'
    BY <1>1, <1>3, <2>3 DEF MInv, ShutInv, Over, Drained
  <2> QED BY <1>1, <2>3, <2>8, <2>9, <2>10 DEF MInv, InUse, StopClean
<1> QED BY <1>2, <1>3

\* The IO thread leaves its loop when the queue is empty.
LEMMA RunLeavesMInv ==
  ASSUME MInv, RunLeaves
  PROVE  MInv'
<1>1. /\ UNCHANGED <<replys, requests, seq, isSending, replyWork, stream, misuse, closing, cqShut>>
      /\ UNCHANGED <<status, reqmap, poll>> /\ io = "running" /\ io' = "left"
      /\ closing = "forced" \/ ShutDown
  BY DEF RunLeaves, Client
<1>2. Drained /\ closing # "no"
  BY <1>1 DEF MInv, ShutInv, ShutDown
<1>3. Drained' /\ Asked' = Asked
  BY <1>1, <1>2 DEF Drained, Asked
<1>4. CurrentInv' /\ OpeningInv' /\ ShutInv'
  BY <1>1, <1>2, <1>3 DEF MInv, CurrentInv, OpeningInv, ShutInv, Quiet, Over
<1> QED BY <1>1, <1>2, <1>4 DEF MInv, InUse, StopClean

\* What the IO thread leaves behind has no operation.
LEMMA JoinMInv ==
  ASSUME MInv, SInv, Join
  PROVE  MInv'
<1>1. /\ UNCHANGED <<seq, isSending, status, poll, io, cqShut>> /\ io # "running" /\ closing # "no"
      /\ closing' = "closed" /\ requests' = <<>> /\ stream' = [s \in Streams |-> NoStream]
      /\ misuse' = IF Drained THEN misuse ELSE misuse \cup {"unfinished"}
  BY DEF Join, MInv, ShutInv
<1>2. io \in {"none", "running", "left"}
  BY DEF MInv, ShutInv
<1>3. Drained
  <2>1. CASE io = "none"
    <3>1. seq # 0 => Quiet(seq)
      BY <2>1 DEF MInv, ShutInv
    <3> QED BY <3>1, AllQuiet DEF MInv
  <2>2. CASE io = "left"
    BY <2>2 DEF MInv, ShutInv
  <2> QED BY <1>1, <1>2, <2>1, <2>2
<1>4. \A s \in Streams : stream'[s] = NoStream
  BY <1>1
<1>5. NoStream.st = "none" /\ ~NoStream.start /\ ~NoStream.read /\ NoStream.write = NoRequest
  BY DEF NoStream
<1>6. ~Asked' /\ Len(requests') = 0
  BY <1>1, NothingSaid
<1>7. seq \in Nat /\ (seq # 0 => seq \in Streams)
  BY SeqRange
<1>8. CurrentInv'
  BY <1>1, <1>4, <1>5, <1>7 DEF CurrentInv, Quiet
<1>9. OpeningInv'
  BY <1>6 DEF OpeningInv
<1>10. ShutInv'
  BY <1>1, <1>4, <1>5, <1>6, <1>7 DEF MInv, ShutInv, Over, Drained
<1> QED BY <1>1, <1>3, <1>8, <1>9, <1>10 DEF MInv, InUse, StopClean

---------------------------------------------------------------------------
(* The application polls *)

\* A step of the polling thread leaves the calls and the IO thread alone.
LEMMA PollMInv ==
  ASSUME MInv, closing = "no",
         UNCHANGED <<stream, seq, isSending, replyWork, misuse, closing, cqShut, io>>,
         OpeningInv', StartInv', LostInv', FirstInv', NotDenied',
         io = "none" => status' = "DISCONNECT" /\ ~Asked'
  PROVE  MInv'
<1>1. CurrentInv'
  BY DEF MInv, CurrentInv, Quiet
<1>2. ShutInv'
  BY DEF MInv, ShutInv
<1> QED BY <1>1, <1>2 DEF MInv, InUse, StopClean

\* A request is the last of the queue.
LEMMA Requested ==
  ASSUME SInv, NEW r \in RequestSet, requests' = Enqueue(requests, r)
  PROVE  /\ Len(requests) \in Nat /\ Len(requests') = Len(requests) + 1
         /\ \A k \in 1..Len(requests') :
              \/ k = Len(requests) + 1 /\ requests'[k] = r
              \/ k \in 1..Len(requests) /\ requests'[k] = requests[k]
         /\ r.kind # "establish" => (Asked' => Asked)
<1>1. requests \in Seq(RequestSet) /\ requests' = Append(requests, r) /\ Len(requests) \in Nat
  BY LenProperties DEF SInv, QueueTypes, Enqueue
<1>2. /\ Len(requests') = Len(requests) + 1 /\ requests'[Len(requests) + 1] = r
      /\ \A k \in 1..Len(requests) : requests'[k] = requests[k]
  BY <1>1, AppendProperties
<1>3. \A k \in 1..Len(requests') :
        \/ k = Len(requests) + 1 /\ requests'[k] = r
        \/ k \in 1..Len(requests) /\ requests'[k] = requests[k]
  BY <1>1, <1>2
<1>4. r.kind # "establish" => (Asked' => Asked)
  BY <1>3 DEF Asked, Elems
<1> QED BY <1>1, <1>2, <1>3, <1>4

\* Update moves on, outside of DrainQueue.
LEMMA PollMovesMInv ==
  ASSUME MInv, SInv, UpdateReady \/ NoReply \/ SwitchReturn \/ SwitchNothing
  PROVE  MInv'
<1>1. /\ UNCHANGED <<stream, seq, isSending, replyWork, misuse, closing, cqShut, io>>
      /\ UNCHANGED <<status, replys, requests, reqmap>>
      /\ ~Draining /\ closing = "no"
  BY DEF UpdateReady, NoReply, SwitchReturn, SwitchNothing, Shared, stopVars, Draining, MInv, ShutInv
<1>2. poll'.at \in {"idle", "replies", "switch", "timeout"}
  <2>1. PICK p, q : p = Idle /\ q = poll
    OBVIOUS
  <2>2. p = [at |-> "idle", ev |-> "none"]
        /\ q \in [at : {"idle", "replies", "drainReq", "drainMap", "switch", "timeout"},
                  ev : {"none", "unready", "ESTABLISHED", "DISCONNECT"}]
    BY <2>1 DEF SInv, QueueTypes, Idle
  <2>3. \/ poll' = [p EXCEPT !.at = "replies"] \/ poll' = [p EXCEPT !.at = "switch"]
        \/ poll' = p \/ poll' = [q EXCEPT !.at = "timeout"]
    BY <2>1 DEF UpdateReady, NoReply, SwitchReturn, SwitchNothing
  <2> QED BY <2>2, <2>3
<1>3. StartInv /\ LostInv /\ FirstInv /\ NotDenied /\ OpeningInv /\ ShutInv
  BY <1>1 DEF MInv, InUse
<1>4. ~Draining'
  BY <1>2 DEF Draining
<1>5. Asked' = Asked /\ Starting' = Starting
  BY <1>1, <1>4 DEF Asked, Starting, Says
<1>6. status = "ESTABLISHED" => poll'.at = "switch"
  <2>1. status # "ESTABLISHED"
    BY <1>3 DEF UpdateReady, NoReply, SwitchReturn, SwitchNothing, StartInv
  <2> QED BY <2>1
<1>7. StartInv'
  BY <1>1, <1>3, <1>4, <1>5, <1>6 DEF StartInv, Says, Silent
<1>8. LostInv'
  BY <1>1, <1>2, <1>3, <1>4, <1>5 DEF LostInv, Says, Over
<1>9. FirstInv' /\ NotDenied' /\ OpeningInv'
  BY <1>1, <1>3, <1>5 DEF FirstInv, NotDenied, OpeningInv, Silent, Logins, Quiet
<1>10. io = "none" => status' = "DISCONNECT" /\ ~Asked'
  BY <1>1, <1>3, <1>5 DEF ShutInv
<1> QED BY <1>1, <1>7, <1>8, <1>9, <1>10, PollMInv

\* An event is taken: what it says is what Update will do, and no other is left.
LEMMA ProcessEventMInv ==
  ASSUME MInv, SInv, NEW j \in Heads(replys), ProcessEvent(j)
  PROVE  MInv'
<1>1. /\ UNCHANGED <<stream, seq, isSending, replyWork, misuse, closing, cqShut, io>>
      /\ UNCHANGED <<status, requests, reqmap>> /\ replys' = <<>>
      /\ poll.at = "replies" /\ replys[j].kind # "reply"
  BY DEF ProcessEvent, Shared, stopVars
<1>2. PICK k : k = replys[j].kind
  OBVIOUS
<1>3. k \in {"ESTABLISHED", "DISCONNECT"} /\ Says(k) /\ replys # <<>>
  <2>1. replys[j] \in ReplySet /\ replys[j] \in Elems(replys)
    BY ElemsDequeue DEF SInv, QueueTypes
  <2> QED BY <1>1, <1>2, <2>1, ElemsEmpty DEF ReplySet, Says
<1>4. poll'.at = "drainReq" /\ poll'.ev = k /\ Draining'
  <2>1. poll' = [at |-> "drainReq", ev |-> k]
    BY <1>2 DEF ProcessEvent
  <2> QED BY <2>1 DEF Draining
<1>5. closing = "no"
  BY <1>1 DEF MInv, ShutInv
<1>6. StartInv /\ LostInv /\ FirstInv /\ NotDenied /\ OpeningInv /\ ShutInv
  BY <1>5 DEF MInv, InUse
<1>7. ~Asked /\ ~Asked'
  BY <1>1, <1>3, <1>6 DEF LostInv, Asked
<1>8. ~Says("ESTABLISHED")' /\ ~Says("DISCONNECT")'
  BY <1>1, ElemsEmpty DEF Says
<1>9. Starting' => Starting
  BY <1>1, <1>3, <1>4, <1>8 DEF Starting
<1>10. StartInv'
  <2>1. seq # 0 => ~stream[seq].start
    BY <1>3, <1>6 DEF StartInv, LostInv, Over
  <2>2. status # "ESTABLISHED"
    BY <1>1, <1>6 DEF StartInv
  <2>3. Starting' => status = "CONNECTING" /\ requests = <<>> /\ seq # 0 /\ Silent(seq)
    BY <1>6, <1>9 DEF StartInv
  <2> QED BY <1>1, <1>3, <1>4, <1>8, <2>1, <2>2, <2>3 DEF StartInv, Silent
<1>11. LostInv'
  BY <1>1, <1>3, <1>4, <1>6, <1>7, <1>8 DEF LostInv, Over
<1>12. FirstInv' /\ OpeningInv'
  BY <1>1, <1>6, <1>7 DEF FirstInv, OpeningInv, Silent
<1>13. NotDenied'
  <2>1. Elems(replys') = {}
    BY <1>1, ElemsEmpty
  <2> QED BY <1>1, <1>6, <2>1 DEF NotDenied, Logins
<1>14. io = "none" => status' = "DISCONNECT" /\ ~Asked'
  BY <1>1, <1>6, <1>7 DEF ShutInv
<1> QED BY <1>1, <1>5, <1>10, <1>11, <1>12, <1>13, <1>14, PollMInv

\* A reply is taken: the login was not refused.
LEMMA ProcessReplyMInv ==
  ASSUME MInv, SInv, NEW j \in Heads(replys), ProcessReply(j)
  PROVE  MInv'
<1>1. /\ UNCHANGED <<stream, seq, isSending, replyWork, misuse, closing, cqShut, io>>
      /\ UNCHANGED <<requests, poll>>
      /\ poll.at = "replies" /\ replys[j].kind = "reply" /\ ~Draining
  BY DEF ProcessReply, Shared, stopVars, Draining
<1>2. PICK rep, d, known : rep = replys[j] /\ d = Dequeue(replys, j) /\ known = {e \in reqmap : e.id = rep.id}
  OBVIOUS
<1>3. Elems(d) \subseteq Elems(replys) /\ rep \in Elems(replys) /\ rep.kind = "reply"
  BY <1>1, <1>2, ElemsDequeue DEF SInv, QueueTypes
<1>4. closing = "no"
  BY <1>1 DEF MInv, ShutInv
<1>5. StartInv /\ LostInv /\ FirstInv /\ NotDenied /\ OpeningInv /\ ShutInv
  BY <1>4 DEF MInv, InUse
<1>6. /\ replys' = d /\ reqmap' \subseteq reqmap
      /\ status' = status \/ (status' = "CONNECT" /\ Logins # {})
  <2>1. CASE restarting \/ known = {}
    BY <1>2, <2>1 DEF ProcessReply
  <2>2. CASE ~(restarting \/ known = {})
    <3>1. reqmap' = reqmap \ known /\ \E e \in known : Callback(e, rep.ok, d)
      BY <1>2, <2>2 DEF ProcessReply
    <3>2. PICK e \in known : Callback(e, rep.ok, d)
      BY <3>1
    <3>3. e.kind = "connect" => e \in Logins /\ rep.ok
      <4>1. e.kind = "connect" => e \in Logins
        BY <1>2 DEF Logins
      <4> QED BY <1>2, <1>3, <1>5, <4>1 DEF NotDenied
    <3> QED BY <3>1, <3>2, <3>3 DEF Callback
  <2> QED BY <2>1, <2>2
<1>7. Logins # {} => status \in {"INITIALIZING", "CONNECT"}
  BY DEF SInv, LoginStatus
<1>8. ~Asked /\ ~Asked'
  <2>1. replys # <<>>
    BY <1>3, ElemsEmpty
  <2> QED BY <1>1, <1>5, <2>1 DEF LostInv, Asked
<1>9. (Says("ESTABLISHED")' => Says("ESTABLISHED")) /\ (Says("DISCONNECT")' => Says("DISCONNECT"))
  BY <1>3, <1>6 DEF Says
<1>10. ~Draining' /\ (Starting' => Starting)
  BY <1>1, <1>9 DEF Draining, Starting
<1>11. Starting' => status' = status
  BY <1>5, <1>6, <1>7, <1>10 DEF StartInv
<1>12. StartInv'
  <2>1. Starting' => status' = "CONNECTING" /\ requests = <<>> /\ seq # 0 /\ Silent(seq)
    BY <1>5, <1>10, <1>11 DEF StartInv
  <2>2. status' # "ESTABLISHED"
    BY <1>1, <1>5, <1>6 DEF StartInv
  <2>3. seq # 0 /\ Says("ESTABLISHED")' => ~stream[seq].start
    BY <1>5, <1>9 DEF StartInv
  <2> QED BY <1>1, <1>10, <2>1, <2>2, <2>3 DEF StartInv, Silent
<1>13. LostInv'
  BY <1>1, <1>5, <1>6, <1>8, <1>9, <1>10 DEF LostInv, Over
<1>14. FirstInv' /\ OpeningInv'
  BY <1>1, <1>5, <1>8 DEF FirstInv, OpeningInv, Silent
<1>15. NotDenied'
  <2>1. Logins' \subseteq Logins
    BY <1>6 DEF Logins
  <2> QED BY <1>1, <1>3, <1>5, <1>6, <2>1 DEF NotDenied
<1>16. io = "none" => status' = "DISCONNECT" /\ ~Asked'
  BY <1>1, <1>5, <1>6, <1>7, <1>8 DEF ShutInv
<1> QED BY <1>1, <1>4, <1>12, <1>13, <1>14, <1>15, <1>16, PollMInv

\* DrainQueue empties requests_ ...
LEMMA DrainRequestsMInv ==
  ASSUME MInv, SInv, DrainRequests
  PROVE  MInv'
<1>1. /\ UNCHANGED <<stream, seq, isSending, replyWork, misuse, closing, cqShut, io>>
      /\ UNCHANGED <<status, replys, reqmap>> /\ requests' = <<>> /\ poll.at = "drainReq"
  BY DEF DrainRequests, Shared, stopVars
<1>2. poll'.at = "drainMap" /\ poll'.ev = poll.ev
  <2>1. PICK q : q = poll
    OBVIOUS
  <2>2. q \in [at : {"idle", "replies", "drainReq", "drainMap", "switch", "timeout"},
               ev : {"none", "unready", "ESTABLISHED", "DISCONNECT"}]
        /\ poll' = [q EXCEPT !.at = "drainMap"]
    BY <2>1 DEF SInv, QueueTypes, DrainRequests
  <2> QED BY <2>1, <2>2
<1>3. Draining /\ Draining'
  BY <1>1, <1>2 DEF Draining
<1>4. closing = "no"
  BY <1>1 DEF MInv, ShutInv
<1>5. StartInv /\ LostInv /\ FirstInv /\ NotDenied /\ OpeningInv /\ ShutInv
  BY <1>4 DEF MInv, InUse
<1>6. ~Asked' /\ Len(requests') = 0
  BY <1>1, NothingSaid
<1>7. Starting' = Starting
  BY <1>1, <1>2, <1>3 DEF Starting, Says
<1>8. status # "ESTABLISHED"
  BY <1>1, <1>5 DEF StartInv
<1>9. StartInv'
  BY <1>1, <1>2, <1>3, <1>5, <1>7, <1>8 DEF StartInv, Says, Silent
<1>10. LostInv'
  BY <1>1, <1>2, <1>3, <1>5, <1>6 DEF LostInv, Says, Over
<1>11. FirstInv' /\ OpeningInv' /\ NotDenied'
  BY <1>1, <1>5, <1>6 DEF FirstInv, OpeningInv, NotDenied, Silent, Logins
<1>12. io = "none" => status' = "DISCONNECT" /\ ~Asked'
  BY <1>1, <1>5, <1>6 DEF ShutInv
<1> QED BY <1>1, <1>4, <1>9, <1>10, <1>11, <1>12, PollMInv

\* ... and then reqmap_, and sets the state.
LEMMA DrainMapMInv ==
  ASSUME MInv, SInv, DrainMap
  PROVE  MInv'
<1>1. /\ UNCHANGED <<stream, seq, isSending, replyWork, misuse, closing, cqShut, io>>
      /\ UNCHANGED <<replys, requests>> /\ reqmap' = {} /\ poll.at = "drainMap" /\ Draining
      /\ status' = IF poll.ev = "ESTABLISHED" THEN "ESTABLISHED" ELSE "DISCONNECT"
      /\ poll'.at = "switch" /\ ~Draining'
  BY DEF DrainMap, Shared, stopVars, Draining, Idle
<1>2. closing = "no"
  BY <1>1 DEF MInv, ShutInv
<1>3. StartInv /\ LostInv /\ FirstInv /\ NotDenied /\ OpeningInv /\ ShutInv
  BY <1>2 DEF MInv, InUse
<1>4. requests = <<>> /\ ~Asked /\ ~Asked' /\ Len(requests') = 0
  BY <1>1, <1>3, NothingSaid DEF LostInv, Asked
<1>5. poll.ev \in {"ESTABLISHED", "DISCONNECT"} /\ ~Says("ESTABLISHED") /\ ~Says("ESTABLISHED")'
  BY <1>1, <1>3 DEF StartInv, Says
<1>6. seq # 0 => ~stream[seq].start
  BY <1>1, <1>3 DEF StartInv
<1>7. ~Starting'
  BY <1>1, <1>5, <1>6 DEF Starting
<1>8. poll.ev = "ESTABLISHED" => seq # 0 /\ Silent(seq)
  BY <1>1, <1>3 DEF StartInv, Starting
<1>9. StartInv'
  BY <1>1, <1>4, <1>5, <1>7, <1>8 DEF StartInv, Silent
<1>10. LostInv'
  BY <1>1, <1>3, <1>4, <1>5 DEF LostInv, Says, Over
<1>11. FirstInv' /\ OpeningInv'
  BY <1>1, <1>3, <1>4 DEF FirstInv, OpeningInv, Silent
<1>12. NotDenied'
  BY <1>1 DEF NotDenied, Logins
<1>13. io = "none" => status' = "DISCONNECT" /\ ~Asked'
  BY <1>1, <1>3, <1>4, <1>5, <1>8 DEF ShutInv
<1> QED BY <1>1, <1>2, <1>9, <1>10, <1>11, <1>12, <1>13, PollMInv

\* A new call is asked for when the one before is over.
LEMMA SwitchReconnectMInv ==
  ASSUME MInv, SInv, SwitchReconnect
  PROVE  MInv'
<1>1. /\ UNCHANGED <<stream, seq, isSending, replyWork, misuse, closing, cqShut, replys, reqmap>>
      /\ status = "DISCONNECT" /\ status' = "CONNECTING" /\ io' = "running"
      /\ poll.at = "switch" /\ poll'.at = "idle" /\ replys = <<>>
      /\ \A s \in Streams : Settled(s)
  BY DEF SwitchReconnect, Idle, WaitOver
<1>2. closing = "no"
  BY <1>1 DEF MInv, ShutInv
<1>3. StartInv /\ LostInv /\ FirstInv /\ NotDenied /\ OpeningInv /\ ShutInv /\ CurrentInv
  BY <1>2 DEF MInv, InUse
<1>4. requests = <<>> /\ Len(requests) = 0
  BY <1>1, <1>3 DEF LostInv
<1>5. PICK r : r = Request("poll", "establish", 0)
  OBVIOUS
<1>6. r \in RequestSet /\ r.kind = "establish" /\ r.by = "poll"
  <2>1. 0 \in Nat
    OBVIOUS
  <2> QED BY <1>5, <2>1, MessagesMade DEF Request
<1>7. Len(requests') = 1 /\ \A k \in 1..Len(requests') : k = 1 /\ requests'[k] = r
  <2>1. requests' = Enqueue(requests, r)
    BY <1>5 DEF SwitchReconnect
  <2>2. /\ Len(requests') = Len(requests) + 1
        /\ \A k \in 1..Len(requests') :
             \/ k = Len(requests) + 1 /\ requests'[k] = r
             \/ k \in 1..Len(requests) /\ requests'[k] = requests[k]
    BY <1>6, <2>1, Requested
  <2> QED BY <1>4, <2>2
<1>8. seq # 0 => stream[seq].st = "dead" /\ Quiet(seq)
  <2>1. seq # 0 => stream[seq].st = "dead"
    BY <1>1, <1>3 DEF LostInv
  <2>2. seq # 0 => Settled(seq)
    BY <1>1, SeqRange
  <2> QED BY <2>1, <2>2 DEF Settled, Quiet
<1>9. CurrentInv'
  BY <1>1, <1>3, <1>8 DEF CurrentInv, Quiet
<1>10. OpeningInv'
  BY <1>1, <1>6, <1>7, <1>8 DEF OpeningInv, Quiet
<1>11. ShutInv'
  BY <1>1, <1>2, <1>3 DEF ShutInv
<1>12. ~Says("ESTABLISHED")' /\ ~Says("DISCONNECT")' /\ ~Draining' /\ ~Starting'
  <2>1. ~Says("ESTABLISHED")' /\ ~Says("DISCONNECT")'
    BY <1>1, ElemsEmpty DEF Says
  <2> QED BY <1>1, <1>8, <2>1 DEF Draining, Starting, Quiet
<1>13. StartInv'
  BY <1>1, <1>12 DEF StartInv
<1>14. LostInv'
  BY <1>1, <1>7, <1>12 DEF LostInv
<1>15. FirstInv' /\ NotDenied'
  BY <1>1, <1>3, <1>6, <1>7 DEF FirstInv, NotDenied, Silent, Logins
<1> QED BY <1>1, <1>9, <1>10, <1>11, <1>13, <1>14, <1>15 DEF MInv, InUse, StopClean

\* The login is sent first, on a call on which nothing has been said.
LEMMA SwitchStartWriteMInv ==
  ASSUME MInv, SInv, SwitchStartWrite
  PROVE  MInv'
<1>1. /\ UNCHANGED <<stream, seq, isSending, replyWork, misuse, closing, cqShut, io, replys>>
      /\ status = "ESTABLISHED" /\ status' = "INITIALIZING"
      /\ reqmap' = reqmap \cup {[id |-> msgid + 1, kind |-> "connect"]}
      /\ poll.at = "switch" /\ ~Draining
  BY DEF SwitchStartWrite, Register, stopVars, Draining
<1>2. poll'.at = "timeout"
  <2>1. PICK q : q = poll
    OBVIOUS
  <2>2. q \in [at : {"idle", "replies", "drainReq", "drainMap", "switch", "timeout"},
               ev : {"none", "unready", "ESTABLISHED", "DISCONNECT"}]
        /\ poll' = [q EXCEPT !.at = "timeout"]
    BY <2>1 DEF SInv, QueueTypes, SwitchStartWrite
  <2> QED BY <2>2
<1>3. closing = "no"
  BY <1>1 DEF MInv, ShutInv
<1>4. StartInv /\ LostInv /\ FirstInv /\ NotDenied /\ OpeningInv /\ ShutInv
  BY <1>3 DEF MInv, InUse
<1>5. requests = <<>> /\ Len(requests) = 0 /\ seq # 0 /\ Silent(seq) /\ ~Asked
  BY <1>1, <1>4, NothingSaid DEF StartInv
<1>6. msgid \in Nat /\ msgid + 1 \in Nat
  BY NewId
<1>7. PICK r : r = Request("poll", "connect", msgid + 1)
  OBVIOUS
<1>8. r \in RequestSet /\ r.kind = "connect" /\ r.by = "poll"
  BY <1>6, <1>7, MessagesMade DEF Request
<1>9. (\A k \in 1..Len(requests') : k = 1 /\ requests'[k] = r) /\ ~Asked'
  <2>1. requests' = Enqueue(requests, r)
    BY <1>7 DEF SwitchStartWrite, Register
  <2>2. /\ Len(requests') = Len(requests) + 1
        /\ \A k \in 1..Len(requests') :
             \/ k = Len(requests) + 1 /\ requests'[k] = r
             \/ k \in 1..Len(requests) /\ requests'[k] = requests[k]
        /\ Asked' => Asked
    BY <1>8, <2>1, Requested
  <2> QED BY <1>5, <2>2
<1>10. ~Draining' /\ Says("ESTABLISHED")' = Says("ESTABLISHED") /\ Says("DISCONNECT")' = Says("DISCONNECT")
  BY <1>1, <1>2 DEF Draining, Says
<1>11. ~Starting /\ ~Starting'
  <2>1. ~Starting
    BY <1>1, <1>4 DEF StartInv
  <2> QED BY <1>1, <1>10, <2>1 DEF Starting
<1>12. StartInv'
  BY <1>1, <1>4, <1>10, <1>11 DEF StartInv
<1>13. LostInv'
  BY <1>1, <1>2, <1>4, <1>9, <1>10 DEF LostInv, Over
<1>14. OpeningInv'
  BY <1>8, <1>9 DEF OpeningInv
<1>15. FirstInv'
  BY <1>1, <1>4, <1>5, <1>9 DEF FirstInv, Silent
<1>16. NotDenied'
  <2>1. Logins = {}
    BY <1>1 DEF SInv, LoginStatus
  <2>2. ASSUME NEW e \in Logins' PROVE e.id = msgid + 1
    BY <1>1, <2>1, <2>2 DEF Logins
  <2>3. Elems(stream[seq].back) = {}
    BY <1>5, ElemsEmpty DEF Silent
  <2>4. \A q \in Elems(replys) : q.id # msgid + 1
    BY NewId
  <2> QED BY <1>1, <2>2, <2>3, <2>4 DEF NotDenied
<1>17. io # "none"
  BY <1>1, <1>4 DEF ShutInv
<1> QED BY <1>1, <1>3, <1>12, <1>13, <1>14, <1>15, <1>16, <1>17, PollMInv

\* A login expires only on a call that is over.
LEMMA ProcessTimeoutMInv ==
  ASSUME Alone, MInv, SInv, NEW expired \in SUBSET reqmap, ProcessTimeout(expired)
  PROVE  MInv'
<1>1. PICK logins : logins = {e \in expired : e.kind = "connect"}
  OBVIOUS
<1>2. /\ UNCHANGED <<stream, seq, isSending, replyWork, misuse, closing, cqShut, io>>
      /\ UNCHANGED <<requests, status>>
      /\ poll.at = "timeout" /\ poll'.at = "idle" /\ reqmap' = reqmap \ expired
      /\ replys' = IF logins = {} THEN replys ELSE Enqueue(replys, Event("poll", "DISCONNECT"))
      /\ ~Draining /\ ~Draining'
  BY <1>1 DEF ProcessTimeout, Shared, stopVars, Draining, Idle
<1>3. PICK v : v = Event("poll", "DISCONNECT")
  OBVIOUS
<1>4. v \in ReplySet /\ v.kind = "DISCONNECT"
  BY <1>3, MessagesMade
<1>5. replys \in Seq(ReplySet)
  BY DEF SInv, QueueTypes
<1>6. Elems(Enqueue(replys, v)) = Elems(replys) \cup {v}
  BY <1>4, <1>5, ElemsEnqueue
<1>7. closing = "no"
  BY <1>2 DEF MInv, ShutInv
<1>8. StartInv /\ LostInv /\ FirstInv /\ NotDenied /\ OpeningInv /\ ShutInv
  BY <1>7 DEF MInv, InUse
<1>9. Asked' = Asked
  BY <1>2 DEF Asked
<1>10. Says("ESTABLISHED")' = Says("ESTABLISHED")
  BY <1>2, <1>3, <1>4, <1>6 DEF Says
<1>11. Starting' = Starting
  BY <1>2, <1>10 DEF Starting
<1>12. logins # {} => ~Asked /\ (seq # 0 => stream[seq].st = "dead" /\ Over(seq))
  <2> SUFFICES ASSUME logins # {} PROVE ~Asked /\ (seq # 0 => stream[seq].st = "dead" /\ Over(seq))
    OBVIOUS
  <2>1. PICK e \in Logins : MayExpire(e)
    BY <1>1 DEF ProcessTimeout, Logins
  <2>2. stream[seq].st = "dead" /\ Settled(seq)
    BY <2>1 DEF MayExpire, Logins, Alone
  <2>3. status # "CONNECTING"
    BY <2>1 DEF SInv, LoginStatus
  <2> QED BY <1>8, <2>2, <2>3 DEF LostInv, Settled, Over
<1>13. status # "ESTABLISHED"
  BY <1>2, <1>8 DEF StartInv
<1>14. StartInv'
  BY <1>2, <1>8, <1>10, <1>11, <1>13 DEF StartInv, Silent
<1>15. LostInv'
  <2>1. CASE logins = {}
    BY <1>2, <1>8, <1>9, <2>1 DEF LostInv, Says, Over
  <2>2. CASE logins # {}
    BY <1>2, <1>8, <1>9, <1>12, <2>2 DEF LostInv, Over
  <2> QED BY <2>1, <2>2
<1>16. OpeningInv' /\ FirstInv'
  BY <1>2, <1>8, <1>9 DEF OpeningInv, FirstInv, Silent, Quiet
<1>17. NotDenied'
  <2>1. Logins' \subseteq Logins
    BY <1>2 DEF Logins
  <2>2. \A r \in Elems(replys') : r.kind = "reply" => r \in Elems(replys)
    BY <1>2, <1>3, <1>4, <1>6
  <2> QED BY <1>2, <1>8, <2>1, <2>2 DEF NotDenied
<1>18. io = "none" => status' = "DISCONNECT" /\ ~Asked'
  BY <1>2, <1>8, <1>9 DEF ShutInv
<1> QED BY <1>2, <1>7, <1>14, <1>15, <1>16, <1>17, <1>18, PollMInv

\* The application calls: behind the login, which it has sent.
LEMMA PollCallMInv ==
  ASSUME MInv, SInv, PollCall
  PROVE  MInv'
<1>1. /\ UNCHANGED <<stream, seq, isSending, replyWork, misuse, closing, cqShut, io>>
      /\ UNCHANGED <<replys, status, poll>>
      /\ reqmap' = reqmap \cup {[id |-> msgid + 1, kind |-> "call"]}
      /\ poll.at = "idle" /\ closing = "no" /\ status \in Connected
  BY DEF PollCall, Register, stopVars
<1>2. StartInv /\ LostInv /\ FirstInv /\ NotDenied /\ OpeningInv /\ ShutInv
  BY <1>1 DEF MInv, InUse
<1>3. status \in {"INITIALIZING", "CONNECT"}
  BY <1>1, <1>2 DEF StartInv, Connected
<1>4. msgid \in Nat /\ msgid + 1 \in Nat
  BY NewId
<1>5. PICK r : r = Request("poll", "call", msgid + 1)
  OBVIOUS
<1>6. r \in RequestSet /\ r.kind = "call" /\ r.by = "poll"
  BY <1>4, <1>5, MessagesMade DEF Request
<1>7. /\ \A k \in 1..Len(requests') : requests'[k] = r \/ (k \in 1..Len(requests) /\ requests'[k] = requests[k])
      /\ Asked' => Asked
  <2>1. requests' = Enqueue(requests, r)
    BY <1>5 DEF PollCall, Register
  <2> QED BY <1>6, <2>1, Requested
<1>8. ~Asked /\ ~Asked' /\ ~Starting /\ ~Draining /\ ~Draining'
  BY <1>1, <1>2, <1>3, <1>7 DEF LostInv, StartInv, Draining
<1>9. Starting' = Starting
  BY <1>1 DEF Starting, Says, Draining
<1>10. StartInv'
  BY <1>1, <1>2, <1>3, <1>8, <1>9 DEF StartInv, Says
<1>11. LostInv'
  BY <1>1, <1>2, <1>3, <1>8 DEF LostInv, Says, Over
<1>12. OpeningInv' /\ FirstInv'
  BY <1>1, <1>2, <1>6, <1>7, <1>8 DEF OpeningInv, FirstInv, Silent
<1>13. NotDenied'
  <2>1. Logins' = Logins
    BY <1>1 DEF Logins
  <2> QED BY <1>1, <1>2, <2>1 DEF NotDenied
<1>14. io # "none"
  BY <1>2, <1>3 DEF ShutInv
<1> QED BY <1>1, <1>10, <1>11, <1>12, <1>13, <1>14, PollMInv

---------------------------------------------------------------------------
(* The theorem *)

\* A client that was created has asked gRPC for nothing.
LEMMA InitMInv == Init => MInv
<1> SUFFICES ASSUME Init PROVE MInv
  OBVIOUS
<1>1. /\ requests = <<>> /\ replys = <<>> /\ reqmap = {} /\ seq = 0 /\ misuse = {}
      /\ stream = [s \in Streams |-> NoStream] /\ status = "DISCONNECT" /\ poll.at = "idle"
      /\ io = "none" /\ closing = "no" /\ ~cqShut
  BY DEF Init, Idle
<1>2. \A s \in Streams : stream[s] = NoStream
  BY <1>1
<1>3. NoStream.st = "none" /\ ~NoStream.start /\ ~NoStream.read /\ NoStream.write = NoRequest
  BY DEF NoStream
<1>4. Len(requests) = 0 /\ ~Asked /\ ~Says("ESTABLISHED") /\ ~Says("DISCONNECT") /\ ~Draining
  BY <1>1, NothingSaid DEF Draining
<1>5. CurrentInv /\ OpeningInv /\ ShutInv
  BY <1>1, <1>2, <1>3, <1>4 DEF CurrentInv, OpeningInv, ShutInv, Quiet
<1>6. StartInv /\ LostInv /\ FirstInv /\ NotDenied
  BY <1>1, <1>4 DEF StartInv, Starting, LostInv, FirstInv, NotDenied, Logins
<1> QED BY <1>1, <1>5, <1>6 DEF MInv, InUse, StopClean

\* Every step of the client, the IO thread and the server, but the end of the two seconds.
LEMMA NextMInv == Alone /\ SInv /\ MInv /\ [Next]_vars => MInv' \/ StopTimeout
<1> SUFFICES ASSUME Alone, SInv, MInv, [Next]_vars, ~StopTimeout PROVE MInv'
  OBVIOUS
<1>1. CASE UpdateStep
  <2>1. ~UpdateUnready
    BY DEF UpdateUnready, Alone
  <2> QED BY <1>1, <2>1, PollMovesMInv, ProcessEventMInv, ProcessReplyMInv, DrainRequestsMInv, DrainMapMInv,
             SwitchStartWriteMInv, ProcessTimeoutMInv DEF UpdateStep
<1>2. CASE SwitchReconnect \/ PollCall \/ Release
  <2>1. ~Release
    BY DEF Release, Alone
  <2> QED BY <1>2, <2>1, SwitchReconnectMInv, PollCallMInv
<1>3. CASE \E t \in Threads : CallCheck(t) \/ CallStep(t)
  BY <1>3 DEF Alone
<1>4. CASE Write
  BY <1>4, RunTimeoutMInv, WriteDoneMInv, WriteIdleMInv, WriteFailMInv DEF Write
<1>5. CASE \E s \in Streams : ReadEvent(s)
  BY <1>5, StartDoneMInv, ReadDoneMInv, ReadFailMInv, ReadFailClosingMInv DEF ReadEvent
<1>6. CASE \E s \in Streams : CallBreaks(s) \/ ServerClose(s)
  BY <1>6, BreakMInv
<1>7. CASE \E s \in Streams, i \in 1..Cardinality(MsgIds), ok \in BOOLEAN : Answer(s, i, ok)
  BY <1>7, AnswerMInv
<1>8. CASE Stop \/ StopStep
  <2>1. ~StopForce
    BY DEF StopForce, MInv, ShutInv
  <2> QED BY <1>8, <2>1, StopMInv, RunLeavesMInv, JoinMInv DEF StopStep
<1>9. CASE UNCHANGED vars
  <2>1. UNCHANGED <<status, poll, replys, requests, reqmap, seq, isSending, replyWork, stream, misuse,
                    io, closing, cqShut>>
    BY <1>9 DEF vars, stopVars
  <2>2. StopClean' /\ CurrentInv' /\ OpeningInv'
    BY <2>1 DEF MInv, StopClean, CurrentInv, OpeningInv, Quiet, Asked
  <2>3. ShutInv'
    BY <2>1 DEF MInv, ShutInv, Over, Drained, Asked
  <2>4. StartInv' = StartInv /\ LostInv' = LostInv
    BY <2>1 DEF StartInv, LostInv, Starting, Says, Draining, Silent, Over, Asked
  <2>5. FirstInv' = FirstInv /\ NotDenied' = NotDenied
    BY <2>1 DEF FirstInv, NotDenied, Silent, Logins
  <2> QED BY <2>1, <2>2, <2>3, <2>4, <2>5 DEF MInv, InUse
<1> QED BY <1>1, <1>2, <1>3, <1>4, <1>5, <1>6, <1>7, <1>8, <1>9 DEF Next

---------------------------------------------------------------------------
(* The two seconds of Stop are over *)

\* Until the IO thread starts an operation on the queue that is shut down, or leaves one
\* unfinished, only the call in use has operations under way.
CutInv ==
    /\ Cut /\ misuse \subseteq {"queue", "unfinished"}
    /\ misuse = {} => CurrentInv /\ OpeningInv /\ cqShut /\ poll.at = "idle"

\* The helper shuts the queue down, whatever is under way.
LEMMA StopTimeoutCuts ==
  ASSUME MInv, StopTimeout
  PROVE  CutInv'
<1>1. /\ UNCHANGED <<requests, seq, isSending, replyWork, stream, misuse, io, poll>>
      /\ closing = "waiting" /\ closing' = "cutting" /\ cqShut'
  BY DEF StopTimeout, Client
<1>2. misuse = {} /\ CurrentInv /\ OpeningInv /\ poll.at = "idle"
  BY <1>1 DEF MInv, StopClean, ShutInv
<1>3. Asked' = Asked
  BY <1>1 DEF Asked
<1>4. CurrentInv' /\ OpeningInv'
  BY <1>1, <1>2, <1>3 DEF CurrentInv, OpeningInv, Quiet
<1> QED BY <1>1, <1>2, <1>4 DEF CutInv, Cut

\* A step that starts nothing on the call in use and takes no request.
LEMMA NothingStarts ==
  ASSUME CurrentInv, OpeningInv, NEW s \in Streams, s = seq, UNCHANGED <<requests, seq, io>>,
         \A u \in Streams : u # s => stream'[u] = stream[u],
         stream[s].st # "none" => stream'[s].st # "none",
         stream'[s].st = "open" => stream[s].st = "open",
         stream'[s].start => stream[s].start,
         stream'[s].read => stream[s].read /\ replyWork' = replyWork,
         stream'[s].write # NoRequest => stream[s].write # NoRequest /\ isSending' = isSending
  PROVE  CurrentInv' /\ OpeningInv'
<1>1. CurrentInv'
  BY DEF CurrentInv, Quiet
<1>2. Asked' = Asked
  BY DEF Asked
<1>3. OpeningInv'
  BY <1>2 DEF OpeningInv, Quiet
<1> QED BY <1>1, <1>3

\* The IO thread writes: the next request would be an operation on the queue.
LEMMA WriteCut ==
  ASSUME SInv, CutInv, misuse = {}, Write
  PROVE  CutInv'
<1>1. CurrentInv /\ OpeningInv /\ cqShut /\ poll.at = "idle"
  BY DEF CutInv
<1>2. UNCHANGED <<closing, cqShut, poll, io>>
  BY DEF Write, RunTimeout, WriteDone, WriteIdle, WriteFail, Polling, Client, stopVars
<1>3. ASSUME NEW j \in Heads(requests), RunTimeout(j) PROVE CutInv'
  <2>1. misuse' = {"queue"}
    BY <1>1, <1>3 DEF RunTimeout, StartOperation
  <2> QED BY <1>2, <2>1 DEF CutInv, Cut
<1>4. ASSUME NEW j \in Heads(requests), WriteDone(j) PROVE CutInv'
  <2>1. seq # 0 /\ stream[seq].write # NoRequest /\ requests' = Dequeue(requests, j)
    BY <1>4 DEF WriteDone, Written
  <2>2. requests[j] \in Elems(requests)
    BY <2>1, ElemsDequeue DEF SInv, QueueTypes
  <2>3. requests[j].kind # "establish"
    BY <1>1, <2>1, <2>2 DEF OpeningInv, Asked, Quiet
  <2>4. misuse' = {"queue"}
    BY <1>1, <1>4, <2>3 DEF WriteDone, StartOperation
  <2> QED BY <1>2, <2>4 DEF CutInv, Cut
<1>5. CASE WriteIdle \/ WriteFail
  <2>1. /\ seq # 0 /\ UNCHANGED <<requests, seq, replyWork, misuse>>
        /\ \/ stream' = [stream EXCEPT ![seq] = Received(@)]
           \/ stream' = [stream EXCEPT ![seq].write = NoRequest]
    BY <1>5 DEF WriteIdle, WriteFail, Written
  <2>2. seq \in Streams /\ stream \in [Streams -> StreamSet]
    BY <2>1, SeqRange DEF SInv, QueueTypes
  <2>3. PICK x, y : x = stream[seq] /\ y = [x EXCEPT !.write = NoRequest]
    OBVIOUS
  <2>4. /\ y.st = x.st /\ y.start = x.start /\ y.read = x.read /\ y.write = NoRequest
        /\ Received(x).st = x.st /\ Received(x).start = x.start /\ Received(x).read = x.read
        /\ Received(x).write = NoRequest
    <3>1. x \in StreamSet
      BY <2>2, <2>3
    <3>2. y.st = x.st /\ y.start = x.start /\ y.read = x.read /\ y.write = NoRequest
      BY <2>3, <3>1 DEF StreamSet
    <3> QED BY <3>1, <3>2, ReceivedFields
  <2>5. /\ stream'[seq] \in {Received(x), y}
        /\ \A u \in Streams : u # seq => stream'[u] = stream[u]
    BY <2>1, <2>2, <2>3
  <2>6. /\ stream'[seq].st = stream[seq].st /\ stream'[seq].start = stream[seq].start
        /\ stream'[seq].read = stream[seq].read /\ stream'[seq].write = NoRequest
    BY <2>3, <2>4, <2>5
  <2>7. CurrentInv' /\ OpeningInv'
    BY <1>1, <1>2, <2>1, <2>2, <2>5, <2>6, NothingStarts
  <2> QED BY <1>1, <1>2, <2>1, <2>7 DEF CutInv, Cut
<1> QED BY <1>3, <1>4, <1>5 DEF Write

\* The IO thread reads: so would be the next Read.
LEMMA ReadCut ==
  ASSUME SInv, CutInv, misuse = {}, NEW s \in Streams, ReadEvent(s)
  PROVE  CutInv'
<1>1. CurrentInv /\ OpeningInv /\ cqShut /\ poll.at = "idle" /\ closing # "no"
  BY DEF CutInv, Cut
<1>2. UNCHANGED <<closing, poll, io>> /\ cqShut'
  BY <1>1 DEF ReadEvent, StartDone, ReadDone, ReadFail, ReadFailClosing, Polling, Client, stopVars
<1>3. CASE StartDone(s)
  <2>1. misuse' = {"queue"}
    BY <1>1, <1>3 DEF StartDone, StartOperation
  <2> QED BY <1>2, <2>1 DEF CutInv, Cut
<1>4. CASE ReadDone(s)
  <2>1. stream[s].read /\ s = seq /\ seq # 0
    <3>1. stream[s].read
      BY <1>4 DEF ReadDone
    <3> QED BY <1>1, <3>1, OnCurrent, SeqRange
  <2>2. replyWork = s
    BY <1>1, <2>1 DEF CurrentInv
  <2>3. misuse' = {"queue"}
    BY <1>1, <1>4, <2>2 DEF ReadDone
  <2> QED BY <1>2, <2>3 DEF CutInv, Cut
<1>5. CASE ReadFail(s)
  BY <1>1, <1>5 DEF ReadFail
<1>6. CASE ReadFailClosing(s)
  <2>1. UNCHANGED <<requests, seq, isSending, misuse>> /\ Failing(s)
    BY <1>6 DEF ReadFailClosing
  <2>2. CurrentInv' /\ OpeningInv'
    BY <1>1, <1>2, <2>1, FailingCurrent, NothingStarts
  <2> QED BY <1>1, <1>2, <2>1, <2>2 DEF CutInv, Cut
<1> QED BY <1>3, <1>4, <1>5, <1>6 DEF ReadEvent

\* The server and the network start nothing.
LEMMA ServerCut ==
  ASSUME SInv, CutInv, misuse = {}, NEW s \in Streams,
         CallBreaks(s) \/ ServerClose(s) \/ \E i, ok : Answer(s, i, ok)
  PROVE  CutInv'
<1>1. CurrentInv /\ OpeningInv /\ cqShut /\ poll.at = "idle"
  BY DEF CutInv
<1>2. /\ UNCHANGED <<requests, seq, isSending, replyWork, misuse, closing, cqShut, poll, io>>
      /\ stream[s].st = "open"
  BY DEF CallBreaks, ServerClose, Answer, Polling, Client, stopVars
<1>3. s = seq /\ stream \in [Streams -> StreamSet]
  BY <1>1, <1>2, OnCurrent DEF SInv, QueueTypes
<1>4. PICK x : x = stream[s]
  OBVIOUS
<1>5. \E y : /\ stream' = [stream EXCEPT ![s] = y]
             /\ y.st \in {"open", "dead"} /\ y.start = x.start /\ y.read = x.read /\ y.write = x.write
  <2>1. x \in StreamSet /\ x.st = "open"
    BY <1>2, <1>3, <1>4
  <2>2. CASE CallBreaks(s) \/ ServerClose(s)
    <3>1. PICK y : y = [x EXCEPT !.st = "dead"]
      OBVIOUS
    <3>2. y.st = "dead" /\ y.start = x.start /\ y.read = x.read /\ y.write = x.write
      BY <2>1, <3>1 DEF StreamSet
    <3>3. stream' = [stream EXCEPT ![s] = y]
      BY <1>3, <1>4, <2>2, <3>1 DEF CallBreaks, ServerClose
    <3> QED BY <3>2, <3>3
  <2>3. ASSUME NEW i, NEW ok, Answer(s, i, ok)
        PROVE  \E y : /\ stream' = [stream EXCEPT ![s] = y]
                      /\ y.st \in {"open", "dead"} /\ y.start = x.start /\ y.read = x.read
                      /\ y.write = x.write
    <3>1. PICK q, b, l :
            stream' = [stream EXCEPT ![s].inbox = q, ![s].back = b, ![s].login = l]
      <4>1. stream' = [stream EXCEPT
               ![s].inbox = RemoveAt(stream[s].inbox, i),
               ![s].back = Append(stream[s].back, [id |-> stream[s].inbox[i].id, ok |-> ok]),
               ![s].login = IF stream[s].login # "none" THEN stream[s].login
                              ELSE IF ok THEN "accepted" ELSE "denied"]
        BY <1>3, <2>3 DEF Answer
      <4> QED BY <4>1
    <3>2. PICK y : y = [x EXCEPT !.inbox = q, !.back = b, !.login = l]
      OBVIOUS
    <3>3. y.st = x.st /\ y.start = x.start /\ y.read = x.read /\ y.write = x.write
      BY <2>1, <3>2 DEF StreamSet
    <3>4. stream' = [stream EXCEPT ![s] = y]
      BY <1>3, <1>4, <3>1, <3>2
    <3> QED BY <2>1, <3>3, <3>4
  <2> QED BY <2>2, <2>3
<1>6. CurrentInv' /\ OpeningInv'
  <2>1. PICK y : /\ stream' = [stream EXCEPT ![s] = y]
                 /\ y.st \in {"open", "dead"} /\ y.start = x.start /\ y.read = x.read /\ y.write = x.write
    BY <1>5
  <2>2. stream'[s] = y /\ \A u \in Streams : u # s => stream'[u] = stream[u]
    BY <1>3, <2>1
  <2> QED BY <1>1, <1>2, <1>3, <1>4, <2>1, <2>2, NothingStarts
<1> QED BY <1>1, <1>2, <1>6 DEF CutInv, Cut

\* The helper and the IO thread come to their end.
LEMMA StopCut ==
  ASSUME SInv, CutInv, misuse = {}, StopStep
  PROVE  CutInv'
<1>1. CurrentInv /\ OpeningInv /\ cqShut /\ poll.at = "idle" /\ closing \in {"cutting", "forced", "cutOff"}
  BY DEF CutInv, Cut
<1>2. CASE RunLeaves \/ StopForce
  <2>1. /\ UNCHANGED <<requests, seq, isSending, replyWork, stream, misuse, cqShut, poll>>
        /\ Cut' /\ (io' = "running" => io = "running")
    BY <1>1, <1>2 DEF RunLeaves, StopForce, Client, Cut
  <2>2. Asked' = Asked
    BY <2>1 DEF Asked
  <2>3. CurrentInv' /\ OpeningInv'
    BY <1>1, <2>1, <2>2 DEF CurrentInv, OpeningInv, Quiet
  <2> QED BY <1>1, <2>1, <2>3 DEF CutInv
<1>3. CASE StopTimeout
  BY <1>1, <1>3 DEF StopTimeout
<1>4. CASE Join
  <2>1. /\ UNCHANGED <<seq, poll, io, cqShut>> /\ io # "running" /\ closing' = "cutOff"
        /\ requests' = <<>> /\ stream' = [s \in Streams |-> NoStream]
        /\ misuse' \subseteq {"unfinished"}
    BY <1>1, <1>4 DEF Join
  <2>2. NoStream.st = "none" /\ ~NoStream.start /\ ~NoStream.read /\ NoStream.write = NoRequest
    BY DEF NoStream
  <2>3. \A s \in Streams : stream'[s] = NoStream
    BY <2>1
  <2>4. CurrentInv'
    BY <2>1, <2>2, <2>3, SeqRange DEF CurrentInv, Quiet
  <2>5. OpeningInv'
    BY <2>1, NothingSaid DEF OpeningInv
  <2> QED BY <1>1, <2>1, <2>4, <2>5 DEF CutInv, Cut
<1> QED BY <1>2, <1>3, <1>4 DEF StopStep

\* Whatever comes after the two seconds.
LEMMA NextCut == Alone /\ SInv /\ CutInv /\ [Next]_vars => CutInv'
<1> SUFFICES ASSUME Alone, SInv, CutInv, [Next]_vars PROVE CutInv'
  OBVIOUS
<1>1. CASE UNCHANGED vars
  <2>1. UNCHANGED <<requests, seq, isSending, replyWork, stream, misuse, io, closing, cqShut, poll>>
    BY <1>1 DEF vars, stopVars
  <2>2. CurrentInv' = CurrentInv /\ OpeningInv' = OpeningInv /\ Cut' = Cut
    BY <2>1 DEF CurrentInv, OpeningInv, Quiet, Asked, Cut
  <2> QED BY <2>1, <2>2 DEF CutInv
<1>2. CASE Next
  <2>1. misuse = {} /\ poll.at = "idle" /\ closing # "no"
    BY <1>2 DEF Next, Defined, CutInv, Cut
  <2>2. ~UpdateStep /\ ~SwitchReconnect /\ ~PollCall /\ ~Release /\ ~Stop
    BY <2>1 DEF UpdateStep, UpdateReady, UpdateUnready, NoReply, DrainRequests, DrainMap, ProcessEvent,
                ProcessReply, SwitchReturn, SwitchStartWrite, SwitchNothing, ProcessTimeout,
                SwitchReconnect, PollCall, Release, Stop
  <2>3. ~\E t \in Threads : CallCheck(t) \/ CallStep(t)
    BY DEF Alone
  <2> QED BY <1>2, <2>1, <2>2, <2>3, WriteCut, ReadCut, ServerCut, StopCut DEF Next
<1> QED BY <1>1, <1>2

\* For any number of streams and calls: a client that one thread uses, whatever the network does
\* and whenever it is closed, breaks none of the IO thread's contract with gRPC (rpc.cpp:57-160)
\* before the two seconds of Stop are over; and then it never writes a sentinel nor reads into
\* a buffer that is gone.
THEOREM NoMisuseTheorem == ASSUME Alone PROVE Safety => []NoMisuse
<1>1. Init => SInv /\ (MInv \/ CutInv)
  BY InitSInv, InitMInv
<1>2. SInv /\ (MInv \/ CutInv) /\ [Next]_vars => (SInv /\ (MInv \/ CutInv))'
  BY NextSInv, NextMInv, NextCut, StopTimeoutCuts
<1>3. SInv /\ (MInv \/ CutInv) => NoMisuse
  BY DEF MInv, StopClean, CutInv, NoMisuse
<1> QED BY <1>1, <1>2, <1>3, PTL DEF Safety
=============================================================================
