------------------------------- MODULE MCHttp -------------------------------
(* Messages for TLC: requests and responses put together from their parts. *)
EXTENDS Http

Request == <<"POST", SP, "/", "a", SP, "1.1">>
Response(c) == <<"HTTP/1.1 ", c, "0", "0">>
Chunked == <<"Transfer-Encoding", "chunked">>
ContentLength(n) == <<"Content-Length", Number(n)>>
Host == <<"Host", "h">>

Data(n) == UNION {[1..k -> {"x", CR, LF}] : k \in 1..n}

Lines(ls, eol) == FlattenSeq([i \in DOMAIN ls |-> ls[i] \o eol])

\* A message of these header lines, what follows the empty line, and the body it means.
Msg(ls, eol, after, feet, data, tail) ==
  LET b == Lines(ls, eol) \o eol \o after IN
  [bytes |-> b \o tail, size |-> Len(b), form |-> "plain",
   path |-> IF ls[1] = Request THEN << <<"a">> >> ELSE <<>>,
   headers |-> ls \o feet, body |-> data]

Chunk(d, eol) == <<Number(Len(d))>> \o eol \o d \o eol

ChunkMsg(chunks, eol, feet) ==
  Msg(<<Request, Chunked>>, eol,
      FlattenSeq([i \in DOMAIN chunks |-> Chunk(chunks[i], eol)])
        \o <<"0">> \o eol \o Lines(feet, eol) \o eol,
      feet, <<FlattenSeq(chunks)>>, <<>>)

CRLF == <<CR, LF>>
EndsInCR(d) == d[Len(d)] = CR

ChunkMessages ==
  {ChunkMsg(c, CRLF, <<>>) : c \in UNION {[1..k -> Data(2)] : k \in 0..1}}
    \cup {ChunkMsg(<<c, d>>, CRLF, <<>>) : c \in {<<"x", LF>>, <<LF>>, <<CR>>, <<CR, LF>>}, d \in {<<"x">>, <<LF>>}}
    \cup {ChunkMsg(<<c>>, <<LF>>, f) : c \in {d \in Data(2) : ~EndsInCR(d)}, f \in {<<>>}}
    \cup {ChunkMsg(<< <<"x">>, <<"x">> >>, e, <<Host>>) : e \in {CRLF, <<LF>>}}

LengthMessages ==
  {Msg(<<Request, ContentLength(Len(d))>>, e, d, <<>>, <<d>>, t) :
      e \in {CRLF, <<LF>>}, d \in {<<"x", "x">>, <<LF>>}, t \in {<<>>, <<"x">>}}
    \cup {Msg(<<Request, <<"content-length", "+", "2">> >>, CRLF, <<"x", "x">>, <<>>,
               << <<"x", "x">> >>, <<>>)}
    \cup {Msg(<<Response("2"), Host, ContentLength(2)>>, CRLF, <<LF, LF>>, <<>>, << <<LF, LF>> >>, <<>>)}

BareMessages ==
  {Msg(ls, e, <<>>, <<>>, <<>>, t) : e \in {CRLF, <<LF>>}, t \in {<<>>, <<"x", "x">>},
      ls \in {<<Request>>, <<Request, Host>>, <<Response("3")>>}}

\* Well formed, and still not read as they are meant
UnusualMessages ==
  {[m EXCEPT !.form = "unusual"] : m \in
     {Msg(<<Request, ContentLength(0)>>, CRLF, <<>>, <<>>, << <<>> >>, t) : t \in {<<>>, <<"x", "x">>}}
       \cup {Msg(<<Request, Chunked>>, CRLF,
                 <<"1", ";", "e", CR, LF, "x", CR, LF, "0", CR, LF, CR, LF>>, <<>>, << <<"x">> >>, <<>>)}
       \cup {Msg(<<Request, <<"Host2", "h">>, Host>>, CRLF, <<>>, <<>>, <<>>, <<>>)}
       \cup {Msg(<<Request, <<"Sec-WebSocket-Key1", "k">> >>, CRLF, <<>>, <<>>, <<>>, <<"x">>)}}

\* Not well formed, or an upgrade that the parser does not finish
OddMessages ==
  {[bytes |-> b, size |-> 0, form |-> "malformed", path |-> <<>>, headers |-> <<>>,
    body |-> <<>>] : b \in
     {<<LF, LF, LF>>, <<CR, LF, CR, LF>>, <<LF, CR, LF, LF>>,
      Lines(<<Request, Host, Host, Host, Host>>, CRLF) \o CRLF,
      Lines(<<Response("2")>>, CRLF) \o CRLF \o <<"x">>,
      Lines(<<Request, <<"Content-Length", "-", "1">> >>, CRLF) \o CRLF \o <<"x", "x">>,
      Lines(<<Request, <<"Content-Length", "x">>, <<"Sec-WebSocket-Key", "k">> >>, CRLF)
        \o CRLF \o <<"x", "x", "x">>,
      Lines(<<Request, Chunked>>, CRLF) \o CRLF \o <<"1", CR, LF, "x", "x", LF, "x">>}}

AllMessages ==
  ChunkMessages \cup LengthMessages \cup BareMessages \cup UnusualMessages \cup OddMessages
=============================================================================
