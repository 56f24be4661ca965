------------------------------ MODULE Messages ------------------------------
(***************************************************************************)
(* The protocol's messages (mtk.proto as protoc generates it) and Codec.   *)
(* A message object is a record of its fields; XFields gives the numbers   *)
(* its class declares for them.  Both ends are built from the same         *)
(* mtk.proto, so the set of unknown fields stays empty and is left out: a  *)
(* field with another tag changes nothing.                                 *)
(***************************************************************************)
EXTENDS Wire

\* enum Request.Kind
Normal == 0
Ping == 1
Connect == 2
Login == 3
Close == 4

\* proto3: a field that has its default value is not written.
Written(present, bytes) == IF present THEN bytes ELSE <<>>
Counted(present, size) == IF present THEN size ELSE 0

\* _InternalParse's loop: one field after the other.
Parse(m, Field(_, _), s) == FoldLeft(Field, m, s)

\* _internal_set_X inside MergeImpl: a default value is not taken over.
Over(new, default, old) == IF new # default THEN new ELSE old

-----------------------------------------------------------------------------
\* Error
ErrorFields == [error_code |-> 1, payload |-> 2]
NewError == [error_code |-> 0, payload |-> <<>>]
ErrorSet(code, p) == [error_code |-> code, payload |-> p]

ErrorField(m, f) ==
  CASE f.tag = 8  -> [m EXCEPT !.error_code = f.v]
    [] f.tag = 18 -> [m EXCEPT !.payload = f.v]
    [] OTHER -> m

ErrorSerialize(m) ==
     Written(m.error_code # 0, VarintField(1, m.error_code))
  \o Written(m.payload # <<>>, BytesField(2, m.payload))

ErrorByteSizeLong(m) ==
    Counted(m.error_code # 0, 1 + VarintSize(m.error_code))
  + Counted(m.payload # <<>>, 1 + BytesSize(m.payload))

ErrorClear(m) == [m EXCEPT !.payload = <<>>, !.error_code = 0]

ErrorMergeImpl(to, from) ==
  [error_code |-> Over(from.error_code, 0, to.error_code),
   payload |-> Over(from.payload, <<>>, to.payload)]

ErrorCopyFrom(to, from) == ErrorMergeImpl(ErrorClear(to), from)

-----------------------------------------------------------------------------
\* SystemPayload.Connect
ConnectFields == [id |-> 1, payload |-> 2]
NewConnect == [id |-> 0, payload |-> <<>>]

\* set_id, and set_payload if there is any
ConnectSet(m, id, p) == [m EXCEPT !.id = id, !.payload = IF p = <<>> THEN @ ELSE p]

ConnectField(m, f) ==
  CASE f.tag = 8  -> [m EXCEPT !.id = f.v]
    [] f.tag = 18 -> [m EXCEPT !.payload = f.v]
    [] OTHER -> m

ConnectSerialize(m) ==
     Written(m.id # 0, VarintField(1, m.id))
  \o Written(m.payload # <<>>, BytesField(2, m.payload))

ConnectByteSizeLong(m) ==
    Counted(m.id # 0, 1 + VarintSize(m.id))
  + Counted(m.payload # <<>>, 1 + BytesSize(m.payload))

ConnectClear(m) == [m EXCEPT !.payload = <<>>, !.id = 0]

ConnectMergeImpl(to, from) ==
  [id |-> Over(from.id, 0, to.id), payload |-> Over(from.payload, <<>>, to.payload)]

ConnectCopyFrom(to, from) == ConnectMergeImpl(ConnectClear(to), from)

-----------------------------------------------------------------------------
\* SystemPayload.Ping, which RPCStream knows how to send and nobody sends
PingFields == [now |-> 1, payload |-> 2]
NewPing == [now |-> 0, payload |-> <<>>]
PingSet(now, p) == [now |-> now, payload |-> p]

PingField(m, f) ==
  CASE f.tag = 8  -> [m EXCEPT !.now = f.v]
    [] f.tag = 18 -> [m EXCEPT !.payload = f.v]
    [] OTHER -> m

PingSerialize(m) ==
     Written(m.now # 0, VarintField(1, m.now))
  \o Written(m.payload # <<>>, BytesField(2, m.payload))

PingByteSizeLong(m) ==
    Counted(m.now # 0, 1 + VarintSize(m.now))
  + Counted(m.payload # <<>>, 1 + BytesSize(m.payload))

PingClear(m) == [m EXCEPT !.payload = <<>>, !.now = 0]

PingMergeImpl(to, from) ==
  [now |-> Over(from.now, 0, to.now), payload |-> Over(from.payload, <<>>, to.payload)]

PingCopyFrom(to, from) == PingMergeImpl(PingClear(to), from)

-----------------------------------------------------------------------------
\* SystemPayload.Login
LoginFields == [login_cid |-> 1, id |-> 2, msgid |-> 3, payload |-> 4]
NewLogin == [login_cid |-> 0, id |-> 0, msgid |-> 0, payload |-> <<>>]
LoginSet(lcid, id, msgid, p) == [login_cid |-> lcid, id |-> id, msgid |-> msgid, payload |-> p]

LoginField(m, f) ==
  CASE f.tag = 8  -> [m EXCEPT !.login_cid = f.v]
    [] f.tag = 16 -> [m EXCEPT !.id = f.v]
    [] f.tag = 24 -> [m EXCEPT !.msgid = f.v]
    [] f.tag = 34 -> [m EXCEPT !.payload = f.v]
    [] OTHER -> m

LoginSerialize(m) ==
     Written(m.login_cid # 0, VarintField(1, m.login_cid))
  \o Written(m.id # 0, VarintField(2, m.id))
  \o Written(m.msgid # 0, VarintField(3, m.msgid))
  \o Written(m.payload # <<>>, BytesField(4, m.payload))

\* Mutant: the payload's own length is not counted.
LoginByteSizeLongShort(m) ==
    Counted(m.login_cid # 0, 1 + VarintSize(m.login_cid))
  + Counted(m.id # 0, 1 + VarintSize(m.id))
  + Counted(m.msgid # 0, 1 + VarintSize(m.msgid))
  + Counted(m.payload # <<>>, 1 + Len(m.payload))

LoginByteSizeLong(m) ==
    Counted(m.login_cid # 0, 1 + VarintSize(m.login_cid))
  + Counted(m.id # 0, 1 + VarintSize(m.id))
  + Counted(m.msgid # 0, 1 + VarintSize(m.msgid))
  + Counted(m.payload # <<>>, 1 + BytesSize(m.payload))

LoginClear(m) == [m EXCEPT !.payload = <<>>, !.login_cid = 0, !.id = 0, !.msgid = 0]

LoginMergeImpl(to, from) ==
  [login_cid |-> Over(from.login_cid, 0, to.login_cid), id |-> Over(from.id, 0, to.id),
   msgid |-> Over(from.msgid, 0, to.msgid), payload |-> Over(from.payload, <<>>, to.payload)]

LoginCopyFrom(to, from) == LoginMergeImpl(LoginClear(to), from)

-----------------------------------------------------------------------------
\* Request
RequestFields == [type |-> 1, msgid |-> 2, kind |-> 3, payload |-> 10]
NewRequest == [type |-> 0, msgid |-> 0, kind |-> Normal, payload |-> <<>>]

\* Mutant: the payload stays.
RequestClearKeeps(m) == [m EXCEPT !.type = 0, !.msgid = 0, !.kind = Normal]

RequestClear(m) == [m EXCEPT !.payload = <<>>, !.type = 0, !.msgid = 0, !.kind = Normal]

RequestField(m, f) ==
  CASE f.tag = 8  -> [m EXCEPT !.type = f.v]
    [] f.tag = 16 -> [m EXCEPT !.msgid = f.v]
    [] f.tag = 24 -> [m EXCEPT !.kind = f.v]
    [] f.tag = 82 -> [m EXCEPT !.payload = f.v]
    [] OTHER -> m

RequestSerialize(m) ==
     Written(m.type # 0, VarintField(1, m.type))
  \o Written(m.msgid # 0, VarintField(2, m.msgid))
  \o Written(m.kind # Normal, VarintField(3, m.kind))
  \o Written(m.payload # <<>>, BytesField(10, m.payload))

RequestByteSizeLong(m) ==
    Counted(m.type # 0, 1 + VarintSize(m.type))
  + Counted(m.msgid # 0, 1 + VarintSize(m.msgid))
  + Counted(m.kind # Normal, 1 + VarintSize(m.kind))
  + Counted(m.payload # <<>>, 1 + BytesSize(m.payload))

RequestMergeImpl(to, from) ==
  [type |-> Over(from.type, 0, to.type), msgid |-> Over(from.msgid, 0, to.msgid),
   kind |-> Over(from.kind, Normal, to.kind), payload |-> Over(from.payload, <<>>, to.payload)]

RequestCopyFrom(to, from) == RequestMergeImpl(RequestClear(to), from)

-----------------------------------------------------------------------------
\* Reply.  error is NoError while the has-bit is clear: an Error object that
\* outlives a Clear is itself cleared.
NoError == [none |-> TRUE]
ReplyFields == [type |-> 1, msgid |-> 2, error |-> 3, payload |-> 10]
NewReply == [type |-> 0, msgid |-> 0, error |-> NoError, payload |-> <<>>]

has_error(m) == m.error # NoError
mutable_error(m) == IF has_error(m) THEN m.error ELSE NewError
set_allocated_error(m, e) == [m EXCEPT !.error = e]

ReplyField(m, f) ==
  CASE f.tag = 8  -> [m EXCEPT !.type = f.v]
    [] f.tag = 16 -> [m EXCEPT !.msgid = f.v]
    [] f.tag = 26 -> [m EXCEPT !.error = Parse(mutable_error(m), ErrorField, f.v)]
    [] f.tag = 82 -> [m EXCEPT !.payload = f.v]
    [] OTHER -> m

\* The length of the error is the size cached when ByteSizeLong ran.
ReplySerialize(m) ==
     Written(m.type # 0, VarintField(1, m.type))
  \o Written(m.msgid # 0, VarintField(2, m.msgid))
  \o Written(has_error(m), MessageField(3, ErrorSerialize(m.error), ErrorByteSizeLong(m.error)))
  \o Written(m.payload # <<>>, BytesField(10, m.payload))

ReplyByteSizeLong(m) ==
    Counted(m.type # 0, 1 + VarintSize(m.type))
  + Counted(m.msgid # 0, 1 + VarintSize(m.msgid))
  + Counted(has_error(m), 1 + VarintSize(ErrorByteSizeLong(m.error)) + ErrorByteSizeLong(m.error))
  + Counted(m.payload # <<>>, 1 + BytesSize(m.payload))

ReplyClear(m) == [m EXCEPT !.payload = <<>>, !.error = NoError, !.type = 0, !.msgid = 0]

ReplyMergeImpl(to, from) ==
  [type |-> Over(from.type, 0, to.type), msgid |-> Over(from.msgid, 0, to.msgid),
   error |-> IF has_error(from) THEN ErrorMergeImpl(mutable_error(to), from.error) ELSE to.error,
   payload |-> Over(from.payload, <<>>, to.payload)]

ReplyCopyFrom(to, from) == ReplyMergeImpl(ReplyClear(to), from)

-----------------------------------------------------------------------------
\* Codec::Pack into a buffer of size bytes: what does not fit is cut off,
\* what is not written is whatever was there.
Pack(s, size) == IF Size(s) = size THEN s ELSE <<Broken>>

\* Codec::Unpack merges into the object it is given; -1 if s is broken.
Unpack(s, m, Field(_, _)) ==
  [ok |-> \A k \in 1..Len(s) : s[k] # Broken, m |-> Parse(m, Field, s)]
=============================================================================
