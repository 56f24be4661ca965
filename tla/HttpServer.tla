----------------------------- MODULE HttpServer -----------------------------
(***************************************************************************)
(* HttpServer, HttpServContext and HttpRouter (src/src/http.h,             *)
(* src/src/http.cpp): the listener table, and one accepted connection from *)
(* OnAccept to its deletion.  The contexts share nothing but the table, so *)
(* one of them, accepted on any port with any message, stands for all.     *)
(*                                                                         *)
(* The peer's message is a record of Messages: the bytes it sends; its     *)
(* form: "plain" or "unusual" where they begin with a well-formed message  *)
(* of that size, "malformed" where they do not; and the path, the headers  *)
(* and the body this message encodes.  Unusual are a body of length zero   *)
(* by Content-Length, an extension of a chunk, and a header whose name     *)
(* begins with the name of another.                                        *)
(* grpc_endpoint_read is external: it completes with slices cut anywhere,  *)
(* or with an error.  A listener's callback is one of Handlers: a router   *)
(* over the C++ interface, or a closure over the C API, which is the echo  *)
(* of test/http/server/main.cpp.                                           *)
(***************************************************************************)
EXTENDS HttpFSM, FiniteSets

CONSTANTS Messages,       \* what a peer may send
          MaxListeners,   \* calls of Listen
          Handlers,       \* callbacks of the listeners: "router", "echo"
          Routes,         \* the paths a router knows
          Capacity,       \* the first n_listeners_capacity_
          MaxSlice,       \* a slice has 1..MaxSlice bytes, or all that is left
          Garbage         \* what bl may hold after reset

VARIABLES alive,      \* alive_
          n_listeners, \* entries of listeners_ in use
          capacity,   \* n_listeners_capacity_
          thread,     \* s_websv_thread: "none", "looping" or "left" (joinable)
          bound,      \* listeners that Run has bound
          ctx         \* the HttpServContext

svVars == <<alive, n_listeners, capacity, thread, bound, ctx>>

NoContext == [phase |-> "none"]
Nothing == [path |-> <<>>, headers |-> <<>>, body |-> <<>>, len |-> 0]

ServerInit ==
  /\ alive = TRUE
  /\ n_listeners = 0
  /\ capacity = Capacity
  /\ thread = "none"
  /\ bound = 0
  /\ ctx = NoContext

AddHandler ==
  /\ capacity' = IF n_listeners = capacity THEN 2 * capacity ELSE capacity
  /\ n_listeners' = n_listeners + 1

\* DoListen binds the listeners in turn, until one fails.
DoListen == bound' \in 0..n_listeners

\* Run, up to its loop: it returns if a listener is not bound, and an alive_ that Fin has
\* cleared ends the loop.
Run ==
  /\ thread = "none"
  /\ DoListen
  /\ thread' = IF alive /\ bound' = n_listeners THEN "looping" ELSE "left"
  /\ UNCHANGED <<alive, n_listeners, capacity, ctx>>

\* The loop looks at alive_ between two polls.
RunLeaves ==
  /\ thread = "looping"
  /\ ~alive
  /\ thread' = "left"
  /\ UNCHANGED <<alive, n_listeners, capacity, bound, ctx>>

\* A context handles its completions in the loop's thread.
Polled == thread = "looping" /\ UNCHANGED <<alive, n_listeners, capacity, thread, bound>>

OnAccept(msg, handler, garbage) ==
  /\ Polled
  /\ ctx.phase = "none"
  /\ bound > 0
  /\ ctx' = [phase |-> "reading", handler |-> handler, fsm |-> Reset(garbage),
             msg |-> msg, rest |-> msg.bytes, calls |-> 0, seen |-> Nothing,
             response |-> <<>>]

Receiving == {"header", "body", "body_nochunk", "bodylen", "footer", "comment"}

\* HttpRouter calls the handler of a known path.
Routed(f) == url(f) # <<>> /\ url(f)[1] \in Routes

Number(n) == CHOOSE c \in DOMAIN Digits : Digits[c] = n

\* Mutant: the last header is counted from zero.
WriteHeaderOff(rc, headers) ==
  <<"HTTP/1.1 ">> \o rc \o <<CR, LF>>
    \o FlattenSeq([i \in DOMAIN headers |->
          headers[i] \o <<CR, LF>> \o (IF i = Len(headers) - 1 THEN <<CR, LF>> ELSE <<>>)])

\* WriteHeader: the last header brings the empty line with it
WriteHeader(rc, headers) ==
  <<"HTTP/1.1 ">> \o rc \o <<CR, LF>>
    \o FlattenSeq([i \in DOMAIN headers |->
          headers[i] \o <<CR, LF>> \o (IF i = Len(headers) THEN <<CR, LF>> ELSE <<>>)])

WriteResponse(data) ==
  WriteHeader(<<"2", "0", "0">>, << <<"Content-Length", Number(Len(data))>> >>) \o data

\* Whatever undefined behaviour may do.
Unknown == <<"?">>

\* A handler that sends the body back; for an unknown path nothing is put into buffer_.
\* Where url returns a null pointer, the paths are compared with it.
Route(f) ==
  IF url(f) = <<>> /\ Routes # {} THEN Unknown
  ELSE IF Routed(f) THEN WriteResponse(FlattenSeq(body(f))) ELSE <<>>

\* The C API that a closure has: url, hdrstr, bodylen and body of the parser; WriteHeader
\* and WriteBody of the context
mtk_httpsrv_read_path(f) == url(f)
mtk_httpsrv_read_header(f, key) == hdrstr(f, key)
mtk_httpsrv_read_body(f) == [len |-> f.bl, p |-> body(f)]
mtk_httpsrv_write_header(rc, headers) == WriteHeader(rc, headers)
mtk_httpsrv_write_body(data) == data

\* The body and the path.  Where b.len was never set, or there is no path, it sends
\* whatever it finds in memory.
echo(f) ==
  LET b == mtk_httpsrv_read_body(f)
      path == mtk_httpsrv_read_path(f)
  IN IF b.len > 0
     THEN IF b.p = <<>> \/ path = <<>> THEN Unknown
          ELSE mtk_httpsrv_write_header(<<"2", "0", "0">>,
                   << <<"Content-Length", Number(b.len + Len(path[1]))>> >>)
                 \o mtk_httpsrv_write_body(b.p[1]) \o mtk_httpsrv_write_body(path[1])
     ELSE mtk_httpsrv_write_header(<<"2", "0", "0">>, <<>>)

Respond(f) == IF ctx.handler = "router" THEN Route(f) ELSE echo(f)

Headers(f) == [i \in DOMAIN f.hd |-> hdr(f, i)]

\* Close, and delete this
Close == ctx' = NoContext

\* OnRead with the slices that the endpoint has put into buffer_, appended in their order
OnRead(slices, left) ==
  LET g[i \in 0..Len(slices)] == IF i = 0 THEN ctx.fsm ELSE append(g[i - 1], slices[i])
      f == g[Len(slices)]
  IN
  /\ Polled
  /\ ctx.phase = "reading"
  /\ IF ctx.fsm.state \in Receiving
     THEN ctx' = IF f.state = "finish"
                 THEN [ctx EXCEPT !.fsm = f, !.rest = left, !.phase = "writing",
                         !.calls = @ + 1, !.response = Respond(f),
                         !.seen = [path |-> url(f), headers |-> Headers(f),
                                   body |-> body(f), len |-> f.bl]]
                 ELSE [ctx EXCEPT !.fsm = f, !.rest = left]
     ELSE Close

SliceLengths == (1..MaxSlice) \cup {Len(ctx.rest)}

ReadData ==
  /\ ctx.phase = "reading"
  /\ \E a \in SliceLengths, b \in {0} \cup SliceLengths :
       /\ 0 < a /\ a + b <= Len(ctx.rest)
       /\ OnRead(SelectSeq(<<SubSeq(ctx.rest, 1, a), SubSeq(ctx.rest, a + 1, a + b)>>,
                           LAMBDA s : s # <<>>),
                 SubSeq(ctx.rest, a + b + 1, Len(ctx.rest)))

\* The read fails: the peer has closed, or the connection is lost.
ReadError == Polled /\ ctx.phase = "reading" /\ Close

\* The response is written, or could not be.
OnWrite == Polled /\ ctx.phase = "writing" /\ Close

ServerNext ==
  \/ RunLeaves
  \/ \E m \in Messages, h \in Handlers, g \in Garbage : OnAccept(m, h, g)
  \/ ReadData
  \/ ReadError
  \/ OnWrite

-----------------------------------------------------------------------------
Accepted == ctx.phase # "none"
Consumed == Len(ctx.msg.bytes) - Len(ctx.rest)

\* A message of one of these forms is complete for the parser exactly when its last byte has
\* come, however the bytes were cut; the callback runs once, and sees the path, headers and
\* body that were sent, a header also by its name.
DecodesThe(forms) ==
  Accepted /\ ctx.msg.form \in forms =>
    /\ (ctx.fsm.state = "finish") <=> (Consumed >= ctx.msg.size)
    /\ ctx.calls = (IF ctx.fsm.state = "finish" THEN 1 ELSE 0)
    /\ ctx.calls = 1 => /\ ctx.seen.path = ctx.msg.path
                        /\ ctx.seen.headers = ctx.msg.headers
                        /\ ctx.seen.body = ctx.msg.body
                        /\ \A i \in 2..Len(ctx.msg.headers) :
                             \E j \in 2..i :
                               /\ ctx.msg.headers[j][1] = ctx.msg.headers[i][1]
                               /\ mtk_httpsrv_read_header(ctx.fsm, ctx.msg.headers[i][1])
                                    = <<Tail(ctx.msg.headers[j])>>

\* So are the well-formed messages that have no body of length zero by Content-Length, no
\* extension of a chunk and no header whose name begins with another's name; chunks of data
\* that hold line ends are among them (http.cpp:222-322, 372-520, 734-736).
Decodes == DecodesThe({"plain"})

\* Known disagreement, no run checks it: so is every well-formed message.  A Content-Length
\* of 0 is looked at when the next byte comes, and that byte is one too many
\* (http.cpp:388-391, 447-457); the extension of a chunk, "comment is specified after
\* length" (http.cpp:470), is looked for in the zero behind the last byte and never found; a
\* key is compared with as many characters of a name as it has (http.cpp:281-297).
WellFormedDecodes == DecodesThe({"plain", "unusual"})

\* Every byte and the zero behind the last one lie inside the memory that append has
\* allocated, for messages that fit twice the chunk: append grows m_p but neither limit
\* nor m_max (http.cpp:228-250).
BufferHolds ==
  Accepted /\ Len(ctx.msg.bytes) < 2 * limit => Len(ctx.fsm.buf) < ctx.fsm.alloc

\* The parser itself reads what a handler has written as one complete message with the
\* body that it meant to send, where there is a body and a path (http.cpp:758-769,
\* 919-926, mtk.cpp:477-484).
ResponseParses ==
  Accepted /\ ctx.response \notin {<<>>, Unknown} /\ FlattenSeq(ctx.seen.body) # <<>> =>
    LET f == append(Reset(0), ctx.response) IN
    /\ f.state = "finish" /\ f.res = HRC_OK
    /\ body(f) = IF ctx.handler = "router" THEN ctx.seen.body
                 ELSE <<ctx.seen.body[1] \o ctx.seen.path[1]>>

\* The handler of test/http/server/main.cpp reads a length of 0 where a request has no
\* body: "if (len > 0)" (main.cpp:9).
BodyLengthKnown ==
  Accepted /\ ctx.calls = 1 /\ ctx.msg.form = "plain" =>
    ctx.seen.len = Len(FlattenSeq(ctx.msg.body))
=============================================================================
