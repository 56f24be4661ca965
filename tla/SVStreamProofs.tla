-------------------------- MODULE SVStreamProofs --------------------------
(***************************************************************************)
(* Proofs about SVStream, for any finite set of threads and any replies:   *)
(* the inductive invariant IInv, the safety properties it implies, and the *)
(* safety part of the refinement of ReplyChannel.                          *)
(***************************************************************************)
EXTENDS SVStream, FiniteSetTheorems, SequenceTheorems, TLAPS

---------------------------------------------------------------------------
(* Sequences and cardinalities *)

\* Appending to the right part of a concatenation appends to the whole.
LEMMA ConcatAppend ==
    ASSUME NEW S, NEW s \in Seq(S), NEW t \in Seq(S), NEW e \in S
    PROVE  s \o Append(t, e) = Append(s \o t, e)
<1>1. s \o Append(t, e) = s \o (t \o <<e>>)
  BY AppendIsConcat
<1>2. <<e>> \in Seq(S)
  OBVIOUS
<1>3. s \o (t \o <<e>>) = (s \o t) \o <<e>>
  BY <1>2, ConcatAssociative
<1>4. (s \o t) \o <<e>> = Append(s \o t, e)
  BY AppendIsConcat, ConcatProperties
<1> QED BY <1>1, <1>3, <1>4

\* Moving the head of the right part to the end of the left one keeps the
\* concatenation.
LEMMA ConcatShift ==
    ASSUME NEW S, NEW s \in Seq(S), NEW t \in Seq(S), t # <<>>
    PROVE  Append(s, Head(t)) \o Tail(t) = s \o t
<1>1. Head(t) \in S /\ Tail(t) \in Seq(S) /\ <<Head(t)>> \in Seq(S)
  BY HeadTailProperties
<1>2. Append(s, Head(t)) \o Tail(t) = (s \o <<Head(t)>>) \o Tail(t)
  BY <1>1, AppendIsConcat
<1>3. (s \o <<Head(t)>>) \o Tail(t) = s \o (<<Head(t)>> \o Tail(t))
  BY <1>1, ConcatAssociative
<1>4. <<Head(t)>> \o Tail(t) = t
  <2>1. Len(<<Head(t)>> \o Tail(t)) = Len(t)
    BY <1>1, ConcatProperties, HeadTailProperties, LenProperties
  <2>2. ASSUME NEW i \in 1..Len(t) PROVE (<<Head(t)>> \o Tail(t))[i] = t[i]
    BY <1>1, ConcatProperties, HeadTailProperties, LenProperties
  <2> QED BY <1>1, <2>1, <2>2, SeqEqual, ConcatProperties
<1> QED BY <1>2, <1>3, <1>4

\* Only the empty sequence has length 0.
LEMMA LenZero ==
    ASSUME NEW S, NEW s \in Seq(S), Len(s) = 0
    PROVE  s = <<>>
BY EmptySeq

\* A one-element sequence made with Append.
LEMMA AppendToEmpty ==
    ASSUME NEW S, NEW e \in S
    PROVE  /\ Append(<<>>, e) \in Seq(S) /\ Append(<<>>, e) # <<>>
           /\ Len(Append(<<>>, e)) = 1
<1>1. <<>> \in Seq(S) /\ Len(<<>>) = 0
  BY EmptySeq
<1> QED BY <1>1, AppendProperties

\* The set of handles is finite, and gaining or losing one thread changes
\* its size by one.
LEMMA HandlesCard ==
    ASSUME NEW h \in SUBSET Threads
    PROVE  /\ Cardinality(h) \in Nat
           /\ \A t \in Threads \ h : Cardinality(h \cup {t}) = Cardinality(h) + 1
           /\ \A t \in h : Cardinality(h \ {t}) = Cardinality(h) - 1
<1>1. IsFiniteSet(h)
  BY ThreadsAssumption, FS_Subset
<1> QED BY <1>1, FS_CardinalityType, FS_AddElement, FS_RemoveElement

---------------------------------------------------------------------------
(* The invariant *)

\* Conn::Conn creates the stream in a state that satisfies the invariant:
\* one reference, held by the Conn, and nothing sent.
THEOREM InitIInv == Init => IInv
<1> SUFFICES ASSUME Init PROVE IInv
  OBVIOUS
<1>1. Cardinality(handles) = 0
  BY FS_EmptySet DEF Init
<1>2. <<>> \in Seq(Replies) /\ Len(<<>>) = 0
  BY EmptySeq
<1>3. Holders = 1
  BY <1>1, <1>2 DEF Init, Holders, One
<1>4. <<>> \o <<>> = <<>>
  BY <1>2, ConcatEmptySeq
<1>5. TypeOK
  BY <1>2 DEF Init, TypeOK
<1>6. RefCountExact /\ FreedIffUnheld
  BY <1>3 DEF Init, RefCountExact, FreedIffUnheld
<1>7. OneWrite /\ InOrder
  BY <1>2, <1>4 DEF Init, OneWrite, InOrder
<1>8. SendingInv
  BY <1>4 DEF Init, SendingInv
<1> QED BY <1>5, <1>6, <1>7, <1>8 DEF IInv

\* The number of references is a natural number, and it is zero only when
\* there is neither a Conn, a handle, a closer nor a write.
LEMMA HoldersNat ==
    ASSUME TypeOK
    PROVE  /\ Holders \in Nat
           /\ Len(inflight) \in Nat
           /\ Cardinality(handles) \in Nat
           /\ inflight = <<>> <=> Len(inflight) = 0
           /\ connRef \/ worker = "unref" \/ closers > 0 \/ inflight # <<>>
                \/ Cardinality(handles) > 0 => Holders > 0
<1>1. Cardinality(handles) \in Nat
  BY HandlesCard DEF TypeOK
<1>2. Len(inflight) \in Nat /\ (inflight = <<>> <=> Len(inflight) = 0)
  BY LenProperties, EmptySeq DEF TypeOK
<1>3. One(connRef) \in {0, 1} /\ One(worker = "unref") \in {0, 1}
  BY DEF One
<1>4. (connRef => One(connRef) = 1) /\ (worker = "unref" => One(worker = "unref") = 1)
  BY DEF One
<1>5. closers \in Nat
  BY DEF TypeOK
<1> QED BY <1>1, <1>2, <1>3, <1>4, <1>5 DEF Holders

\* Taking a reference while one is held keeps the count exact.
LEMMA RefKeepsCount ==
    ASSUME IInv, Ref, Holders > 0, Holders' = Holders + 1
    PROVE  RefCountExact' /\ FreedIffUnheld' /\ (refc \in Nat)' /\ (freed \in BOOLEAN)'
<1>1. Holders \in Nat /\ refc = Holders
  BY HoldersNat DEF IInv, RefCountExact
<1>2. ~freed /\ freed \in BOOLEAN
  BY <1>1 DEF IInv, FreedIffUnheld, TypeOK
<1>3. refc' = Holders' /\ refc' \in Nat /\ Holders' # 0
  BY <1>1 DEF Ref
<1>4. ~freed' /\ freed' \in BOOLEAN
  BY <1>2 DEF Ref
<1> QED BY <1>3, <1>4 DEF RefCountExact, FreedIffUnheld

\* Dropping a reference that exists keeps the count exact and frees the
\* stream exactly when it was the last.
LEMMA UnrefKeepsCount ==
    ASSUME IInv, Unref, Holders > 0, Holders' = Holders - 1
    PROVE  RefCountExact' /\ FreedIffUnheld' /\ (refc \in Nat)' /\ (freed \in BOOLEAN)'
<1>1. Holders \in Nat /\ refc = Holders
  BY HoldersNat DEF IInv, RefCountExact
<1>2. ~freed /\ freed \in BOOLEAN
  BY <1>1 DEF IInv, FreedIffUnheld, TypeOK
<1>3. refc' = Holders' /\ refc' \in Nat
  BY <1>1 DEF Unref
<1>4. freed' = (Holders' = 0)
  BY <1>1, <1>2 DEF Unref
<1> QED BY <1>3, <1>4 DEF RefCountExact, FreedIffUnheld

\* Send keeps the invariant, by whichever thread it is called.
LEMMA SendIInv ==
    ASSUME IInv, NEW r \in Replies, SendReply(r), Holders > 0
    PROVE  IInv'
<1> USE DEF IInv
<1>1. sent' \in Seq(Replies) /\ closers' \in Nat /\ connRef' \in BOOLEAN
        /\ dead' \in BOOLEAN /\ failed' \in BOOLEAN /\ worker' \in {"run", "unref"}
        /\ handles' \in SUBSET Threads /\ done' \in Seq(Replies)
  BY AppendProperties DEF SendReply, TypeOK
<1>2. CASE ~isSending
  <2>1. /\ isSending' = TRUE /\ Ref /\ UNCHANGED <<queue, connRef, handles, closers, worker, failed, done>>
        /\ inflight' = Append(inflight, r) /\ wire' = Append(wire, r)
        /\ sent' = Append(sent, r)
    BY <1>2 DEF SendReply, Write
  <2>2. inflight = <<>> /\ queue = <<>> /\ ~failed
    BY <1>2 DEF SendingInv
  <2>3. inflight' \in Seq(Replies) /\ wire' \in Seq(Replies) /\ queue' \in Seq(Replies)
          /\ inflight' # <<>> /\ Len(inflight') = 1
    BY <2>1, <2>2, AppendProperties, EmptySeq DEF TypeOK
  <2>4. Holders' = Holders + 1
    <3>1. Len(inflight) = 0
      BY <2>2, EmptySeq
    <3>2. Cardinality(handles) \in Nat /\ closers \in Nat
      BY HoldersNat DEF TypeOK
    <3>3. One(connRef) \in Nat /\ One(worker = "unref") \in Nat
      BY DEF One
    <3>4. One(connRef)' = One(connRef) /\ One(worker = "unref")' = One(worker = "unref")
            /\ Cardinality(handles)' = Cardinality(handles) /\ closers' = closers
      BY <2>1
    <3> QED BY <2>3, <3>1, <3>2, <3>3, <3>4 DEF Holders
  <2>5. RefCountExact' /\ FreedIffUnheld' /\ refc' \in Nat /\ freed' \in BOOLEAN
    BY <2>1, <2>4, RefKeepsCount
  <2>6. TypeOK'
    BY <1>1, <2>1, <2>3, <2>5 DEF TypeOK
  <2>7. OneWrite'
    BY <2>3 DEF OneWrite
  <2>8. InOrder'
    <3>1. wire = sent
      BY <2>2, ConcatEmptySeq DEF InOrder, TypeOK
    <3>2. wire' \o <<>> = wire'
      BY <2>3, ConcatEmptySeq
    <3> QED BY <2>1, <2>2, <3>1, <3>2 DEF InOrder
  <2>9. SendingInv'
    <3>1. wire = done \o inflight
      BY <2>2 DEF SendingInv
    <3>2. done \o Append(inflight, r) = Append(done \o inflight, r)
      BY ConcatAppend DEF TypeOK
    <3>3. wire' = done' \o inflight'
      BY <3>1, <3>2, <2>1
    <3> QED BY <2>1, <2>2, <2>3, <3>3 DEF SendingInv
  <2> QED BY <2>5, <2>6, <2>7, <2>8, <2>9
<1>3. CASE isSending
  <2>1. /\ UNCHANGED <<isSending, refc, freed, inflight, wire, connRef, handles, closers, worker, failed, done>>
        /\ queue' = Append(queue, r) /\ sent' = Append(sent, r)
    BY <1>3 DEF SendReply
  <2>2. queue' \in Seq(Replies)
    BY <2>1, AppendProperties DEF TypeOK
  <2>3. TypeOK'
    BY <1>1, <2>1, <2>2 DEF TypeOK
  <2>4. RefCountExact' /\ FreedIffUnheld' /\ OneWrite'
    BY <2>1 DEF RefCountExact, FreedIffUnheld, OneWrite, Holders, One
  <2>5. InOrder'
    BY <2>1, ConcatAppend DEF InOrder, TypeOK
  <2>6. SendingInv'
    BY <1>3, <2>1 DEF SendingInv
  <2> QED BY <2>3, <2>4, <2>5, <2>6
<1> QED BY <1>2, <1>3 DEF SendReply

\* With a write in flight: it is the only one, nothing has failed, and the
\* write that completes leaves none behind.
LEMMA InflightFacts ==
    ASSUME IInv, inflight # <<>>
    PROVE  /\ ~failed /\ isSending
           /\ Len(inflight) = 1 /\ Tail(inflight) = <<>>
           /\ Head(inflight) \in Replies
           /\ wire = Append(done, Head(inflight))
           /\ Holders > 0
<1> USE DEF IInv
<1>1. ~failed /\ isSending /\ wire = done \o inflight
  BY DEF SendingInv
<1>2. Head(inflight) \in Replies /\ Tail(inflight) \in Seq(Replies)
        /\ Len(Tail(inflight)) = Len(inflight) - 1
  BY HeadTailProperties DEF TypeOK
<1>3. Len(inflight) = 1
  BY HoldersNat DEF OneWrite
<1>4. Tail(inflight) = <<>>
  <2>1. Len(Tail(inflight)) = 0
    BY <1>2, <1>3
  <2> QED BY <1>2, <2>1, LenZero
<1>5. Append(done, Head(inflight)) \o Tail(inflight) = done \o inflight
  BY ConcatShift DEF TypeOK
<1>6. Append(done, Head(inflight)) \o <<>> = Append(done, Head(inflight))
  BY <1>2, AppendProperties, ConcatEmptySeq DEF TypeOK
<1>7. wire = Append(done, Head(inflight))
  BY <1>1, <1>4, <1>5, <1>6
<1>8. Holders > 0
  BY HoldersNat
<1> QED BY <1>1, <1>2, <1>3, <1>4, <1>7, <1>8

\* A completed write followed by the next one keeps the invariant.
LEMMA StepNextIInv == IInv /\ StepNext => IInv'
<1> SUFFICES ASSUME IInv, StepNext PROVE IInv'
  OBVIOUS
<1> USE DEF IInv
<1>1. /\ inflight # <<>> /\ queue # <<>>
      /\ done' = Append(done, Head(inflight))
      /\ inflight' = Append(Tail(inflight), Head(queue))
      /\ wire' = Append(wire, Head(queue)) /\ queue' = Tail(queue)
      /\ UNCHANGED <<refc, isSending, freed, connRef, handles, closers, worker, dead, failed, sent>>
  BY DEF StepNext
<1>2. Head(queue) \in Replies /\ Tail(queue) \in Seq(Replies)
  BY <1>1, HeadTailProperties DEF TypeOK
<1>3. ~failed /\ isSending /\ Len(inflight) = 1 /\ Tail(inflight) = <<>>
        /\ Head(inflight) \in Replies /\ wire = Append(done, Head(inflight))
  BY <1>1, InflightFacts
<1>4. inflight' \in Seq(Replies) /\ inflight' # <<>> /\ Len(inflight') = 1
  <2>1. inflight' = Append(<<>>, Head(queue))
    BY <1>1, <1>3
  <2> QED BY <1>2, <2>1, AppendToEmpty
<1>5. done' \in Seq(Replies) /\ wire' \in Seq(Replies) /\ queue' \in Seq(Replies)
  BY <1>1, <1>2, <1>3, AppendProperties DEF TypeOK
<1>6. TypeOK'
  BY <1>1, <1>4, <1>5 DEF TypeOK
<1>7. Holders' = Holders
  BY <1>1, <1>3, <1>4 DEF Holders, One
<1>8. RefCountExact' /\ FreedIffUnheld' /\ OneWrite'
  BY <1>1, <1>4, <1>7 DEF RefCountExact, FreedIffUnheld, OneWrite
<1>9. InOrder'
  <2>1. Append(wire, Head(queue)) \o Tail(queue) = wire \o queue
    BY <1>1, ConcatShift DEF TypeOK
  <2> QED BY <1>1, <2>1 DEF InOrder
<1>10. SendingInv'
  <2>1. done' \o Append(<<>>, Head(queue)) = Append(done' \o <<>>, Head(queue))
    BY <1>2, <1>5, EmptySeq, ConcatAppend
  <2>2. done' \o <<>> = done'
    BY <1>5, ConcatEmptySeq
  <2>3. wire' = done' \o inflight'
    BY <1>1, <1>3, <2>1, <2>2
  <2> QED BY <1>1, <1>3, <1>4, <2>3 DEF SendingInv
<1> QED BY <1>6, <1>8, <1>9, <1>10

\* The completion that finds the queue empty: its reference moves from the
\* write to the worker, which owes the UNREF.
LEMMA StepIdleIInv == IInv /\ StepIdle => IInv'
<1> SUFFICES ASSUME IInv, StepIdle PROVE IInv'
  OBVIOUS
<1> USE DEF IInv
<1>1. /\ worker = "run" /\ inflight # <<>> /\ queue = <<>>
      /\ done' = Append(done, Head(inflight)) /\ inflight' = Tail(inflight)
      /\ isSending' = FALSE /\ worker' = "unref"
      /\ UNCHANGED <<refc, queue, freed, connRef, handles, closers, dead, failed, sent, wire>>
  BY DEF StepIdle
<1>2. ~failed /\ Len(inflight) = 1 /\ Tail(inflight) = <<>>
        /\ Head(inflight) \in Replies /\ wire = Append(done, Head(inflight))
  BY <1>1, InflightFacts
<1>3. inflight' \in Seq(Replies) /\ Len(inflight') = 0 /\ inflight' = <<>>
  BY <1>1, <1>2, EmptySeq
<1>4. done' \in Seq(Replies)
  BY <1>1, <1>2, AppendProperties DEF TypeOK
<1>5. TypeOK'
  BY <1>1, <1>3, <1>4 DEF TypeOK
<1>6. Holders' = Holders
  <2>1. One(worker = "unref") = 0 /\ One(worker = "unref")' = 1 /\ One(connRef)' = One(connRef)
    BY <1>1 DEF One
  <2>2. One(connRef) \in Nat /\ closers \in Nat /\ Cardinality(handles) \in Nat
    BY HoldersNat DEF One, TypeOK
  <2>3. closers' = closers /\ Cardinality(handles)' = Cardinality(handles)
    BY <1>1
  <2> QED BY <1>2, <1>3, <2>1, <2>2, <2>3 DEF Holders
<1>7. RefCountExact' /\ FreedIffUnheld' /\ OneWrite'
  BY <1>1, <1>3, <1>6 DEF RefCountExact, FreedIffUnheld, OneWrite
<1>8. InOrder'
  BY <1>1 DEF InOrder
<1>9. SendingInv'
  <2>1. done' \o <<>> = done'
    BY <1>4, ConcatEmptySeq
  <2>2. wire' = done' \o inflight'
    BY <1>1, <1>2, <1>3, <2>1
  <2> QED BY <1>1, <1>2, <1>3, <2>2 DEF SendingInv
<1> QED BY <1>5, <1>7, <1>8, <1>9

\* A failed write drops its reference and leaves is_sending_ set.
LEMMA WriteFailIInv == IInv /\ WriteFail => IInv'
<1> SUFFICES ASSUME IInv, WriteFail PROVE IInv'
  OBVIOUS
<1> USE DEF IInv
<1>1. /\ inflight # <<>> /\ inflight' = Tail(inflight) /\ failed' = TRUE /\ Unref
      /\ UNCHANGED <<isSending, queue, connRef, handles, closers, worker, dead, sent, wire, done>>
  BY DEF WriteFail
<1>2. isSending /\ Len(inflight) = 1 /\ Tail(inflight) = <<>> /\ Holders > 0
  BY <1>1, InflightFacts
<1>3. inflight' \in Seq(Replies) /\ Len(inflight') = 0 /\ inflight' = <<>>
  BY <1>1, <1>2, EmptySeq
<1>4. Holders' = Holders - 1
  <2>1. One(connRef) \in Nat /\ One(worker = "unref") \in Nat /\ closers \in Nat
          /\ Cardinality(handles) \in Nat
    BY HoldersNat DEF One, TypeOK
  <2>2. /\ One(connRef)' = One(connRef) /\ One(worker = "unref")' = One(worker = "unref")
        /\ closers' = closers /\ Cardinality(handles)' = Cardinality(handles)
    BY <1>1
  <2> QED BY <1>2, <1>3, <2>1, <2>2 DEF Holders
<1>5. RefCountExact' /\ FreedIffUnheld' /\ refc' \in Nat /\ freed' \in BOOLEAN
  BY <1>1, <1>2, <1>4, UnrefKeepsCount
<1>6. TypeOK'
  BY <1>1, <1>3, <1>5 DEF TypeOK
<1>7. OneWrite' /\ InOrder'
  BY <1>1, <1>3 DEF OneWrite, InOrder
<1>8. SendingInv'
  BY <1>1, <1>2, <1>3 DEF SendingInv
<1> QED BY <1>5, <1>6, <1>7, <1>8

\* The actions that only take or drop a reference.
LEMMA HolderIInv ==
    ASSUME IInv,
           StepUnref \/ FinishByTask \/ CloserDone \/ ConnDelete
             \/ \E t \in Threads : GetStream(t) \/ DropStream(t)
    PROVE  IInv'
<1> USE DEF IInv
<1>1. UNCHANGED <<isSending, queue, inflight, failed, sent, wire, done>>
  BY DEF StepUnref, FinishByTask, CloserDone, ConnDelete, GetStream, DropStream
<1>2. OneWrite' /\ InOrder' /\ SendingInv'
  BY <1>1 DEF OneWrite, InOrder, SendingInv
<1>3. /\ Len(inflight) \in Nat /\ Cardinality(handles) \in Nat /\ closers \in Nat
      /\ One(connRef) \in Nat /\ One(worker = "unref") \in Nat
      /\ Len(inflight)' = Len(inflight)
  BY <1>1, HoldersNat DEF TypeOK, One
<1> DEFINE Goal ==
      /\ RefCountExact' /\ FreedIffUnheld' /\ refc' \in Nat /\ freed' \in BOOLEAN
      /\ closers' \in Nat /\ connRef' \in BOOLEAN /\ dead' \in BOOLEAN
      /\ worker' \in {"run", "unref"} /\ handles' \in SUBSET Threads
<1>4. Goal
  <2>1. CASE StepUnref
    <3>1. /\ worker = "unref" /\ worker' = "run" /\ Unref
          /\ UNCHANGED <<connRef, handles, closers, dead>>
      BY <2>1 DEF StepUnref
    <3>2. One(worker = "unref") = 1 /\ One(worker = "unref")' = 0 /\ One(connRef)' = One(connRef)
      BY <3>1 DEF One
    <3>3. Holders' = Holders - 1 /\ Holders > 0
      BY <1>3, <3>1, <3>2 DEF Holders
    <3> QED BY <3>1, <3>3, UnrefKeepsCount DEF TypeOK
  <2>2. CASE FinishByTask
    <3>1. /\ connRef /\ closers' = closers + 1 /\ dead' = TRUE /\ Ref
          /\ UNCHANGED <<connRef, handles, worker>>
      BY <2>2 DEF FinishByTask
    <3>2. One(worker = "unref")' = One(worker = "unref") /\ One(connRef)' = One(connRef)
            /\ Cardinality(handles)' = Cardinality(handles) /\ closers' = closers + 1
      BY <3>1
    <3>3. Holders > 0
      BY <3>1, HoldersNat
    <3>4. closers' \in Nat
      BY <1>3, <3>1
    <3>5. Holders' = Holders + 1
      <4>1. Holders' = One(connRef) + One(worker = "unref") + (closers + 1)
                         + Cardinality(handles) + Len(inflight)
        BY <1>3, <3>2 DEF Holders
      <4> HIDE DEF IInv, Goal
      <4> QED BY <1>3, <4>1 DEF Holders
    <3> QED BY <3>1, <3>3, <3>4, <3>5, RefKeepsCount DEF TypeOK
  <2>3. CASE CloserDone
    <3>1. /\ closers > 0 /\ closers' = closers - 1 /\ Unref
          /\ UNCHANGED <<connRef, handles, worker, dead>>
      BY <2>3 DEF CloserDone
    <3>2. One(worker = "unref")' = One(worker = "unref") /\ One(connRef)' = One(connRef)
      BY <3>1
    <3>3. Holders' = Holders - 1 /\ Holders > 0 /\ closers' \in Nat
      BY <1>3, <3>1, <3>2 DEF Holders
    <3> QED BY <3>1, <3>3, UnrefKeepsCount DEF TypeOK
  <2>4. CASE ConnDelete
    <3>1. /\ connRef /\ connRef' = FALSE /\ Unref
          /\ UNCHANGED <<handles, closers, worker, dead>>
      BY <2>4 DEF ConnDelete
    <3>2. One(worker = "unref")' = One(worker = "unref") /\ One(connRef) = 1 /\ One(connRef)' = 0
            /\ Cardinality(handles)' = Cardinality(handles) /\ closers' = closers
      BY <3>1 DEF One
    <3>3. Holders' = Holders - 1 /\ Holders > 0
      BY <1>3, <3>2 DEF Holders
    <3> QED BY <3>1, <3>3, UnrefKeepsCount DEF TypeOK
  <2>5. ASSUME NEW t \in Threads, GetStream(t) PROVE Goal
    <3>1. /\ connRef /\ t \notin handles /\ handles' = handles \cup {t} /\ Ref
          /\ UNCHANGED <<connRef, closers, worker, dead>>
      BY <2>5 DEF GetStream
    <3>2. One(worker = "unref")' = One(worker = "unref") /\ One(connRef)' = One(connRef)
            /\ closers' = closers
      BY <3>1
    <3>3. Cardinality(handles') = Cardinality(handles) + 1 /\ handles' \in SUBSET Threads
      BY <3>1, HandlesCard DEF TypeOK
    <3>4. Holders > 0
      BY <3>1, HoldersNat
    <3>5. Holders' = Holders + 1
      BY <1>3, <3>2, <3>3 DEF Holders
    <3> QED BY <3>1, <3>3, <3>4, <3>5, RefKeepsCount DEF TypeOK
  <2>6. ASSUME NEW t \in Threads, DropStream(t) PROVE Goal
    <3>1. /\ t \in handles /\ handles' = handles \ {t} /\ Unref
          /\ UNCHANGED <<connRef, closers, worker, dead>>
      BY <2>6 DEF DropStream
    <3>2. One(worker = "unref")' = One(worker = "unref") /\ One(connRef)' = One(connRef)
            /\ closers' = closers
      BY <3>1
    <3>3. Cardinality(handles') = Cardinality(handles) - 1 /\ handles' \in SUBSET Threads
            /\ Cardinality(handles') \in Nat
      BY <3>1, HandlesCard DEF TypeOK
    <3>4. Holders' = Holders - 1 /\ Holders > 0
      BY <1>3, <3>1, <3>2, <3>3 DEF Holders
    <3> QED BY <3>1, <3>3, <3>4, UnrefKeepsCount DEF TypeOK
  <2> QED BY <2>1, <2>2, <2>3, <2>4, <2>5, <2>6
<1>5. TypeOK'
  BY <1>1, <1>4 DEF TypeOK
<1> QED BY <1>2, <1>4, <1>5

\* Every step of the stream keeps the invariant.
LEMMA NextIInv == IInv /\ [Next]_vars => IInv'
<1> SUFFICES ASSUME IInv, [Next]_vars PROVE IInv'
  OBVIOUS
<1>1. ASSUME NEW r \in Replies, ConnSend(r) PROVE IInv'
  <2>1. SendReply(r) /\ connRef
    BY <1>1 DEF ConnSend
  <2>2. Holders > 0
    BY <2>1, HoldersNat DEF IInv
  <2> QED BY <2>1, <2>2, SendIInv
<1>2. ASSUME NEW t \in Threads, NEW r \in Replies, CidSend(t, r) PROVE IInv'
  <2>1. SendReply(r) /\ t \in handles
    BY <1>2 DEF CidSend
  <2>2. Cardinality(handles) > 0
    <3>1. handles \in SUBSET Threads
      BY DEF IInv, TypeOK
    <3>2. Cardinality(handles \ {t}) = Cardinality(handles) - 1 /\ Cardinality(handles) \in Nat
      BY <2>1, <3>1, HandlesCard
    <3>3. Cardinality(handles \ {t}) \in Nat
      BY <3>1, HandlesCard
    <3> QED BY <3>2, <3>3
  <2>3. Holders > 0
    BY <2>2, HoldersNat DEF IInv
  <2> QED BY <2>1, <2>3, SendIInv
<1>3. CASE WriteDone
  BY <1>3, StepNextIInv, StepIdleIInv, WriteFailIInv DEF WriteDone
<1>4. CASE StepUnref \/ FinishByTask \/ CloserDone \/ ConnDelete
             \/ \E t \in Threads : GetStream(t) \/ DropStream(t)
  BY <1>4, HolderIInv
<1>5. CASE CallEnds
  <2>1. TypeOK'
    BY <1>5 DEF CallEnds, IInv, TypeOK
  <2>2. RefCountExact' /\ FreedIffUnheld' /\ OneWrite' /\ InOrder'
    BY <1>5 DEF CallEnds, IInv, RefCountExact, FreedIffUnheld, OneWrite, InOrder, Holders, One
  <2>3. SendingInv'
    BY <1>5 DEF CallEnds, IInv, SendingInv
  <2> QED BY <2>1, <2>2, <2>3 DEF IInv
<1>6. CASE UNCHANGED vars
  <2>1. TypeOK'
    BY <1>6 DEF vars, IInv, TypeOK
  <2>2. RefCountExact' /\ FreedIffUnheld' /\ OneWrite' /\ InOrder'
    BY <1>6 DEF vars, IInv, RefCountExact, FreedIffUnheld, OneWrite, InOrder, Holders, One
  <2>3. SendingInv'
    BY <1>6 DEF vars, IInv, SendingInv
  <2> QED BY <2>1, <2>2, <2>3 DEF IInv
<1> QED BY <1>1, <1>2, <1>3, <1>4, <1>5, <1>6 DEF Next

---------------------------------------------------------------------------
(* The theorems *)

\* The inductive invariant holds in every reachable state: in particular the
\* reference count is exact however senders interleave with Step's UNREF.
THEOREM SVStreamInvariant == Safety => []IInv
<1>1. Init => IInv
  BY InitIInv
<1>2. IInv /\ [Next]_vars => IInv'
  BY NextIInv
<1> QED BY <1>1, <1>2, PTL DEF Safety

\* refc_ equals the number of references that exist, for any threads.
THEOREM RefCountTheorem == Safety => []RefCountExact
<1>1. IInv => RefCountExact
  BY DEF IInv
<1> QED BY <1>1, SVStreamInvariant, PTL

\* No SVStream is used after it is deleted, nor kept once nobody holds it.
THEOREM FreedTheorem == Safety => []FreedIffUnheld
<1>1. IInv => FreedIffUnheld
  BY DEF IInv
<1> QED BY <1>1, SVStreamInvariant, PTL

\* Send and Step together never start a second write.
THEOREM OneWriteTheorem == Safety => []OneWrite
<1>1. IInv => OneWrite
  BY DEF IInv
<1> QED BY <1>1, SVStreamInvariant, PTL

\* Replies go out in the order Send took them, none lost or doubled.
THEOREM InOrderTheorem == Safety => []InOrder
<1>1. IInv => InOrder
  BY DEF IInv
<1> QED BY <1>1, SVStreamInvariant, PTL

\* On a healthy stream a queued reply always has a write in flight before it.
THEOREM NoStrandedTheorem == Safety => []NoStranded
<1>1. IInv => NoStranded
  BY DEF IInv, SendingInv, NoStranded
<1> QED BY <1>1, SVStreamInvariant, PTL

\* A stream deleted without a failed write has written every reply.
THEOREM FreedFlushedTheorem == Safety => []FreedFlushed
<1>1. IInv => FreedFlushed
  <2> SUFFICES ASSUME IInv, freed, ~failed PROVE queue = <<>> /\ done = sent
    BY DEF FreedFlushed
  <2>1. inflight = <<>>
    BY HoldersNat DEF IInv, FreedIffUnheld
  <2>2. queue = <<>> /\ wire = done \o <<>>
    BY <2>1 DEF IInv, SendingInv
  <2>3. wire \o <<>> = sent
    BY <2>2 DEF IInv, InOrder
  <2>4. wire \o <<>> = wire /\ done \o <<>> = done
    BY ConcatEmptySeq DEF IInv, TypeOK
  <2> QED BY <2>2, <2>3, <2>4
<1> QED BY <1>1, SVStreamInvariant, PTL

\* After a failed write nothing is written any more.
THEOREM SilentTheorem == Safety => SilentAfterFailure
<1>1. ASSUME IInv, [Next]_vars, failed PROVE wire' = wire
  <2>1. inflight = <<>> /\ isSending
    BY <1>1 DEF IInv, SendingInv
  <2> QED
    BY <1>1, <2>1 DEF Next, vars, ConnSend, CidSend, SendReply, WriteDone, StepNext,
       StepIdle, WriteFail, StepUnref, GetStream, DropStream, FinishByTask,
       CloserDone, CallEnds, ConnDelete
<1>2. IInv /\ [Next]_vars => [failed => wire' = wire]_vars
  BY <1>1
<1> QED BY <1>2, SVStreamInvariant, PTL DEF Safety, SilentAfterFailure

\* Every step of the stream is a step of the abstract reply channel or
\* leaves it unchanged: replies are delivered in order, one at a time, and
\* none after the channel broke.
THEOREM ChannelTheorem == Safety => Channel!Safety
<1>1. Init => Channel!Init
  BY DEF Init, Channel!Init
<1>2. ASSUME IInv, [Next]_vars PROVE [Channel!Next]_(Channel!vars)
  <2>1. ASSUME NEW r \in Replies, SendReply(r) PROVE Channel!Accept(r)
    BY <2>1 DEF SendReply, Channel!Accept
  <2>2. CASE StepNext \/ StepIdle
    <3>1. /\ inflight # <<>> /\ done' = Append(done, Head(inflight))
          /\ UNCHANGED <<sent, failed>>
      BY <2>2 DEF StepNext, StepIdle
    <3>2. ~failed /\ Head(inflight) \in Replies /\ wire = Append(done, Head(inflight))
      BY <1>2, <3>1, InflightFacts
    <3>3. done \in Seq(Replies) /\ wire \in Seq(Replies) /\ queue \in Seq(Replies)
            /\ sent = wire \o queue
      BY <1>2 DEF IInv, TypeOK, InOrder
    <3>4. Len(done) \in Nat /\ Len(queue) \in Nat /\ Len(wire) = Len(done) + 1
            /\ wire[Len(done) + 1] = Head(inflight)
      BY <3>2, <3>3, AppendProperties, LenProperties
    <3>5. Len(sent) = Len(wire) + Len(queue) /\ sent[Len(done) + 1] = wire[Len(done) + 1]
      <4>1. Len(wire \o queue) = Len(wire) + Len(queue)
        BY <3>3, ConcatProperties
      <4>2. Len(done) + 1 \in 1 .. Len(wire) + Len(queue) /\ Len(done) + 1 <= Len(wire)
        BY <3>4
      <4>3. (wire \o queue)[Len(done) + 1] = wire[Len(done) + 1]
        BY <3>3, <4>2, ConcatProperties
      <4> QED BY <3>3, <4>1, <4>3
    <3>6. Len(done) < Len(sent) /\ sent[Len(done) + 1] = Head(inflight)
      BY <3>4, <3>5
    <3>7. Channel!Deliver
      BY <3>1, <3>2, <3>6 DEF Channel!Deliver
    <3> QED BY <3>7 DEF Channel!Next
  <2>3. CASE WriteFail
    BY <2>3 DEF WriteFail, Channel!Next, Channel!Break
  <2>4. CASE StepUnref \/ FinishByTask \/ CloserDone \/ CallEnds \/ ConnDelete \/ UNCHANGED vars
               \/ \E t \in Threads : GetStream(t) \/ DropStream(t)
    BY <2>4 DEF vars, StepUnref, GetStream, DropStream, FinishByTask, CloserDone,
                CallEnds, ConnDelete, Channel!vars
  <2> QED
    BY <1>2, <2>1, <2>2, <2>3, <2>4 DEF Next, WriteDone, ConnSend, CidSend, Channel!Next
<1> QED BY <1>1, <1>2, SVStreamInvariant, PTL DEF Safety, Channel!Safety
===========================================================================
