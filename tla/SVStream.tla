----------------------------- MODULE SVStream -----------------------------
(***************************************************************************)
(* The server half of one gRPC stream (class SVStream, conn.h and          *)
(* conn.cpp).  Replies are sent by the worker thread that runs the Conn    *)
(* and by any application thread that got a Conn::Stream handle, while the *)
(* worker thread steps the completions of the writes; the object is freed  *)
(* by whoever drops the last reference.                                    *)
(*                                                                         *)
(* mtx_ is held from the first to the last access to queue_ and            *)
(* is_sending_ in Send and Step, so each critical section is one action.   *)
(* The UNREF of Step comes after mtx_.unlock() and is an action of its own *)
(* (StepUnref).  Tasks (tasks_) belong to module Conn.                     *)
(***************************************************************************)
EXTENDS Sequences, Integers, FiniteSets, Functions

CONSTANTS
    Threads,                \* application threads that call mtk_cid_*
    Replies,                \* the Reply objects; each is sent at most once
    MaxClosers              \* bound on the StreamCloser objects alive at once

ASSUME ThreadsAssumption == IsFiniteSet(Threads)
ASSUME ClosersAssumption == MaxClosers \in Nat

VARIABLES
    refc,                   \* refc_
    isSending,              \* is_sending_
    queue,                  \* queue_
    freed,                  \* the destructor has run
    connRef,                \* Conn::stream_ still holds its reference
    handles,                \* threads whose Conn::Stream holds a reference
    closers,                \* StreamCloser objects waiting for their Finish
    worker,                 \* "run", or "unref" between unlock and UNREF
    inflight,               \* writes started and not yet completed
    dead,                   \* the call is over: a write may fail
    failed,                 \* a write has completed with ok = false
    sent, wire, done        \* history: replies given to Send, replies given
                            \* to io_.Write, replies whose write completed

vars == <<refc, isSending, queue, freed, connRef, handles, closers, worker,
          inflight, dead, failed, sent, wire, done>>

\* Conn::Conn creates the stream and takes the first reference.
Init ==
    /\ refc = 1 /\ connRef = TRUE
    /\ isSending = FALSE /\ queue = <<>> /\ inflight = <<>>
    /\ freed = FALSE /\ dead = FALSE /\ failed = FALSE
    /\ handles = {} /\ closers = 0 /\ worker = "run"
    /\ sent = <<>> /\ wire = <<>> /\ done = <<>>

---------------------------------------------------------------------------
(* Reference counting *)

Ref == refc' = refc + 1 /\ UNCHANGED freed

\* Mutant: deletes with a reference left.
UnrefEarly == refc' = refc - 1 /\ freed' = (freed \/ refc - 1 <= 1)

\* if (--refc_ <= 0) { delete this; }
Unref == refc' = refc - 1 /\ freed' = (freed \/ refc - 1 <= 0)

\* io_.Write: gRPC keeps the tag (this) until the write completes.
Write(r) ==
    /\ inflight' = Append(inflight, r)
    /\ wire' = Append(wire, r)

---------------------------------------------------------------------------
(* Send, by a thread that holds a reference *)

\* Mutant: no reference for the write.
SendUncounted(r) ==
    /\ r \notin Range(sent)
    /\ sent' = Append(sent, r)
    /\ \/ ~isSending /\ isSending' = TRUE /\ Write(r) /\ UNCHANGED queue
       \/ isSending /\ queue' = Append(queue, r) /\ UNCHANGED <<isSending, inflight, wire>>
    /\ UNCHANGED <<refc, freed, connRef, handles, closers, worker, dead, failed, done>>

\* Mutant: is_sending_ is not looked at.
SendAlways(r) ==
    /\ r \notin Range(sent)
    /\ sent' = Append(sent, r)
    /\ isSending' = TRUE
    /\ Ref /\ Write(r)
    /\ UNCHANGED <<queue, connRef, handles, closers, worker, dead, failed, done>>

SendReply(r) ==
    /\ r \notin Range(sent)
    /\ sent' = Append(sent, r)
    /\ \/ /\ ~isSending
          /\ isSending' = TRUE
          /\ Ref
          /\ Write(r)
          /\ UNCHANGED queue
       \/ /\ isSending
          /\ queue' = Append(queue, r)
          /\ UNCHANGED <<isSending, refc, freed, inflight, wire>>
    /\ UNCHANGED <<connRef, handles, closers, worker, dead, failed, done>>

\* Conn::Rep, SysRep, Notify, Throw from the worker thread
ConnSend(r) == connRef /\ worker = "run" /\ SendReply(r)

\* mtk_cid_send, mtk_cid_notify, mtk_cid_error from any thread
CidSend(t, r) == t \in handles /\ SendReply(r)

---------------------------------------------------------------------------
(* Completion of a write, stepped by the worker thread *)

\* Mutant: the reply written stays in the queue.
StepNoPop ==
    /\ worker = "run" /\ inflight # <<>> /\ queue # <<>>
    /\ done' = Append(done, Head(inflight))
    /\ inflight' = Append(Tail(inflight), Head(queue))
    /\ wire' = Append(wire, Head(queue))
    /\ UNCHANGED <<queue, refc, isSending, freed, connRef, handles, closers, worker,
                   dead, failed, sent>>

\* Mutant: the newest reply is taken.
StepNewest ==
    /\ worker = "run" /\ inflight # <<>> /\ queue # <<>>
    /\ done' = Append(done, Head(inflight))
    /\ inflight' = Append(Tail(inflight), queue[Len(queue)])
    /\ wire' = Append(wire, queue[Len(queue)])
    /\ queue' = SubSeq(queue, 1, Len(queue) - 1)
    /\ UNCHANGED <<refc, isSending, freed, connRef, handles, closers, worker,
                   dead, failed, sent>>

\* Process(true, stream): Step finds another reply and writes it.
StepNext ==
    /\ worker = "run" /\ inflight # <<>> /\ queue # <<>>
    /\ done' = Append(done, Head(inflight))
    /\ inflight' = Append(Tail(inflight), Head(queue))
    /\ wire' = Append(wire, Head(queue))
    /\ queue' = Tail(queue)
    /\ UNCHANGED <<refc, isSending, freed, connRef, handles, closers, worker,
                   dead, failed, sent>>

\* Mutant: is_sending_ is not reset.
StepLatched ==
    /\ worker = "run" /\ inflight # <<>> /\ queue = <<>>
    /\ done' = Append(done, Head(inflight))
    /\ inflight' = Tail(inflight)
    /\ worker' = "unref"
    /\ UNCHANGED <<isSending, refc, queue, freed, connRef, handles, closers, dead, failed,
                   sent, wire>>

\* Process(true, stream): Step finds nothing to write; up to mtx_.unlock().
StepIdle ==
    /\ worker = "run" /\ inflight # <<>> /\ queue = <<>>
    /\ done' = Append(done, Head(inflight))
    /\ inflight' = Tail(inflight)
    /\ isSending' = FALSE
    /\ worker' = "unref"
    /\ UNCHANGED <<refc, queue, freed, connRef, handles, closers, dead, failed,
                   sent, wire>>

\* the UNREF after mtx_.unlock()
StepUnref ==
    /\ worker = "unref"
    /\ worker' = "run"
    /\ Unref
    /\ UNCHANGED <<isSending, queue, connRef, handles, closers, inflight, dead,
                   failed, sent, wire, done>>

\* Mutant: a failed write keeps its reference.
WriteFailLeaks ==
    /\ worker = "run" /\ inflight # <<>> /\ dead
    /\ inflight' = Tail(inflight)
    /\ failed' = TRUE
    /\ UNCHANGED <<refc, freed, isSending, queue, connRef, handles, closers, worker,
                   dead, sent, wire, done>>

\* Process(false, stream): the write failed, Destroy drops its reference.
WriteFail ==
    /\ worker = "run" /\ inflight # <<>> /\ dead
    /\ inflight' = Tail(inflight)
    /\ failed' = TRUE
    /\ Unref
    /\ UNCHANGED <<isSending, queue, connRef, handles, closers, worker, dead,
                   sent, wire, done>>

---------------------------------------------------------------------------
(* The other holders of a reference *)

\* IServer::GetStream returns a Conn::Stream (the Conn is alive; module Conn
\* looks at the window in which it may not be).
GetStream(t) ==
    /\ connRef /\ t \notin handles
    /\ handles' = handles \cup {t}
    /\ Ref
    /\ UNCHANGED <<isSending, queue, connRef, closers, worker, inflight, dead,
                   failed, sent, wire, done>>

\* Conn::Stream::~Stream
DropStream(t) ==
    /\ t \in handles
    /\ handles' = handles \ {t}
    /\ Unref
    /\ UNCHANGED <<isSending, queue, connRef, closers, worker, inflight, dead,
                   failed, sent, wire, done>>

\* Conn::Finish(true): the Finish is tagged with a new StreamCloser.
FinishByTask ==
    /\ connRef /\ worker = "run" /\ closers < MaxClosers
    /\ closers' = closers + 1
    /\ dead' = TRUE
    /\ Ref
    /\ UNCHANGED <<isSending, queue, connRef, handles, worker, inflight,
                   failed, sent, wire, done>>

\* StreamCloser::Step and StreamCloser::Destroy: both delete the closer.
CloserDone ==
    /\ closers > 0 /\ worker = "run"
    /\ closers' = closers - 1
    /\ Unref
    /\ UNCHANGED <<isSending, queue, connRef, handles, worker, inflight, dead,
                   failed, sent, wire, done>>

\* The peer goes away, or Conn::Finish() ends the call with the Conn as tag.
CallEnds ==
    /\ ~dead
    /\ dead' = TRUE
    /\ UNCHANGED <<refc, isSending, queue, freed, connRef, handles, closers,
                   worker, inflight, failed, sent, wire, done>>

\* Conn::~Conn
ConnDelete ==
    /\ connRef /\ dead /\ worker = "run"
    /\ connRef' = FALSE
    /\ Unref
    /\ UNCHANGED <<isSending, queue, handles, closers, worker, inflight, dead,
                   failed, sent, wire, done>>

---------------------------------------------------------------------------
WriteDone == StepNext \/ StepIdle \/ WriteFail

Next ==
    \/ \E r \in Replies : ConnSend(r)
    \/ \E t \in Threads, r \in Replies : CidSend(t, r)
    \/ \E t \in Threads : GetStream(t)
    \/ \E t \in Threads : DropStream(t)
    \/ WriteDone
    \/ StepUnref
    \/ FinishByTask
    \/ CloserDone
    \/ CallEnds
    \/ ConnDelete

\* The worker thread keeps polling its completion queue and gRPC completes
\* every write and every Finish; nothing is assumed of the senders.
Fairness == WF_vars(WriteDone) /\ WF_vars(StepUnref) /\ WF_vars(CloserDone)

Safety == Init /\ [][Next]_vars

Spec == Safety /\ Fairness

---------------------------------------------------------------------------
(* Properties *)

\* Every variable has its type.
TypeOK ==
    /\ refc \in Nat /\ closers \in Nat
    /\ isSending \in BOOLEAN /\ freed \in BOOLEAN /\ connRef \in BOOLEAN
    /\ dead \in BOOLEAN /\ failed \in BOOLEAN
    /\ worker \in {"run", "unref"}
    /\ handles \in SUBSET Threads
    /\ queue \in Seq(Replies) /\ inflight \in Seq(Replies)
    /\ sent \in Seq(Replies) /\ wire \in Seq(Replies) /\ done \in Seq(Replies)

One(b) == IF b THEN 1 ELSE 0

\* The references that exist: the Conn, each handle, each StreamCloser, each
\* write in flight and the write whose UNREF the worker still owes.
Holders == One(connRef) + One(worker = "unref") + closers
             + Cardinality(handles) + Len(inflight)

\* refc_ counts exactly the references that exist (Ref/Unref, conn.h), with
\* the write's REF in Send balanced by one UNREF in Step or Destroy whatever
\* the senders do between Step's unlock and its UNREF.
RefCountExact == refc = Holders

\* The stream is deleted exactly when nobody holds it: no Conn, handle,
\* closer or completion tag ever points to a deleted SVStream.
FreedIffUnheld == freed <=> Holders = 0

\* gRPC allows one outstanding write per call: Send and Step never start a
\* second one, whoever sends.
OneWrite == Len(inflight) <= 1

\* Replies reach io_.Write in the order in which Send took them, none lost
\* or duplicated: what was written followed by what is queued is what was sent.
InOrder == wire \o queue = sent

\* What is_sending_ stands for: a write in flight whose completion pops the
\* queue, or a failed write after which nothing is popped any more.
SendingInv ==
    /\ isSending <=> (inflight # <<>> \/ failed)
    /\ failed => inflight = <<>>
    /\ ~isSending => queue = <<>>
    /\ ~failed => wire = done \o inflight

\* The inductive invariant of the proofs.
IInv == TypeOK /\ RefCountExact /\ FreedIffUnheld /\ OneWrite /\ InOrder
          /\ SendingInv

\* A queued reply is never stranded on a healthy stream: a write is in
\* flight whose completion will pop it, so no Send is needed to wake it.
NoStranded == queue # <<>> /\ ~failed => inflight # <<>>

\* A stream is freed with replies still queued only after a write failed.
FreedFlushed == freed /\ ~failed => queue = <<>> /\ done = sent

\* After a failed write is_sending_ stays set, so nothing is written again.
SilentAfterFailure == [][failed => wire' = wire]_vars

\* Every reply handed to Send is eventually written out completely, unless a
\* write fails.
AllDelivered ==
    \A r \in Replies : r \in Range(sent) ~> (r \in Range(done) \/ failed)

\* Once the Conn and all handles are gone the stream is eventually freed.
EventuallyFreed == (~connRef /\ handles = {}) ~> freed

\* The stream implements the abstract reply channel.
Channel == INSTANCE ReplyChannel WITH delivered <- done, broken <- failed
ImplementsChannel == Channel!Spec
===========================================================================
