------------------------------ MODULE HttpFSM ------------------------------
(***************************************************************************)
(* HttpFSM (src/src/http.h, src/src/http.cpp): the parser that a web       *)
(* connection feeds with whatever pieces the socket delivers.              *)
(*                                                                         *)
(* A character is a model value or a short string: CR, LF, a digit, a      *)
(* blank, a sign, or a token that stands for the text of a header's name   *)
(* or value.                                                               *)
(* The parser is a record: its state, the bytes of m_p (buf, of length     *)
(* m_len), m_buf and the header and body pointers as offsets into buf, the *)
(* result code, and the bytes allocated for m_p.  Zeroes written over line *)
(* ends are the character NUL.                                             *)
(***************************************************************************)
EXTENDS Integers, Sequences, SequencesExt

CONSTANTS ChunkSize,   \* argument of reset
          MaxHeader    \* MAX_HEADER

ASSUME HttpFSMAssumption == ChunkSize \in Nat \ {0, 1} /\ MaxHeader \in Nat

CR == "CR"
LF == "LF"
NUL == "NUL"
SP == " "
NoBody == -1
HRC_ERROR == -1
HRC_OK == 200

Digits == [c \in {"0", "1", "2", "3", "4"} |->
             CASE c = "0" -> 0 [] c = "1" -> 1 [] c = "2" -> 2 [] c = "3" -> 3 [] c = "4" -> 4]

\* Value of a string of digits, or -1 where a character is not a digit.
NumberOf(s, base) ==
  IF \A i \in DOMAIN s : s[i] \in DOMAIN Digits
  THEN LET n[i \in 0..Len(s)] == IF i = 0 THEN 0 ELSE base * n[i - 1] + Digits[s[i]]
       IN n[Len(s)]
  ELSE -1

\* std::stoi of a whole string: <<the number>>, a sign before it included, or <<>> where it
\* throws or stops before the end
stoi(s) ==
  LET digits == IF s # <<>> /\ s[1] \in {"-", "+"} THEN Tail(s) ELSE s
      n == NumberOf(digits, 10)
  IN IF digits = <<>> \/ n < 0 THEN <<>> ELSE <<IF s[1] = "-" THEN -n ELSE n>>

\* A length as bl holds it, which is unsigned: a negative one becomes longer than any
\* message, which Huge stands for.
Huge == 1000000
Unsigned(n) == IF n < 0 THEN Huge ELSE n

\* The names that share their first characters with another name, cut into that name and
\* what is left of them; the case of a letter makes no difference.
Variants == [n \in {"content-length", "Host2", "Sec-WebSocket-Key1"} |->
               CASE n = "content-length" -> <<"Content-Length">>
                 [] n = "Host2" -> <<"Host", "2">>
                 [] n = "Sec-WebSocket-Key1" -> <<"Sec-WebSocket-Key", "1">>]
Spelt(name) == IF name \in DOMAIN Variants THEN Variants[name] ELSE <<name>>

\* reset: bl is left as it was found in memory
Reset(garbage) ==
  [state |-> "header", buf |-> <<>>, mbuf |-> 0, hd |-> <<>>, bd |-> NoBody,
   bl |-> garbage, res |-> 0, alloc |-> ChunkSize, full |-> FALSE]

limit == ChunkSize - 1

\* Mutant: m_p does not grow.
StoreFixed(f, c) == [f EXCEPT !.buf = Append(@, c)]

\* m_p[m_len++] = *w++, growing m_p where limit is reached; the zero behind it is m_p[m_len]
Store(f, c) ==
  [f EXCEPT !.buf = Append(@, c), !.alloc = IF Len(f.buf) >= limit THEN 2 * limit ELSE @]

recv_lf(f) ==
  LET n == Len(f.buf) IN
  CASE n > 2 /\ SubSeq(f.buf, n - 1, n) = <<CR, LF>> -> 2
    [] n > 1 /\ f.buf[n] = LF -> 1
    [] OTHER -> 0

\* Zeroes over the n bytes before current().
Zero(f, n) ==
  [f EXCEPT !.buf = [i \in DOMAIN @ |-> IF i > Len(@) - n THEN NUL ELSE @[i]]]

\* The C string that starts at offset o.
StringAt(f, o) ==
  LET s == SubSeq(f.buf, o + 1, Len(f.buf)) IN
  IF Contains(s, NUL) THEN SubSeq(s, 1, (CHOOSE i \in DOMAIN s :
         s[i] = NUL /\ \A j \in 1..(i - 1) : s[j] # NUL) - 1) ELSE s

hdr(f, i) ==
  IF i > Len(f.hd) THEN <<>> ELSE SubSeq(f.buf, f.hd[i].off + 1, f.hd[i].off + f.hd[i].len)

\* hdrstr: what stands behind key in the first header that begins with it, as <<value>>,
\* or <<>>; a name that is longer than key leaves its rest in the value.
hdrstr(f, key) ==
  LET name(i) == Spelt(f.buf[f.hd[i].off + 1])
      found == {i \in DOMAIN f.hd : IsPrefix(Spelt(key), name(i))}
      first == CHOOSE i \in found : \A j \in found : i <= j
  IN IF found = {} THEN <<>>
     ELSE <<SubSeq(name(first), Len(Spelt(key)) + 1, Len(name(first))) \o Tail(hdr(f, first))>>

\* hdrint: <<the number>>, or <<>> where it returns false
hdrint(f, key) ==
  LET v == hdrstr(f, key) IN IF v = <<>> THEN <<>> ELSE stoi(v[1])

\* putrc: the status of a response; a request's first line has no version at offset 5
putrc(f) ==
  LET l == hdr(f, 1) IN
  IF l # <<>> /\ l[1] = "HTTP/1.1 " THEN NumberOf(Tail(l), 10) ELSE HRC_ERROR

EndOfHeader(f) ==
  LET p == Len(f.buf)
      g == [f EXCEPT !.res = putrc(f)]
      cl == hdrint(g, "Content-Length")
      te == hdrstr(g, "Transfer-Encoding")
  IN CASE cl # <<>> -> [g EXCEPT !.bd = p, !.bl = Unsigned(cl[1]), !.state = "body_nochunk"]
       [] cl = <<>> /\ te # <<>> /\ IsPrefix(<<"chunked">>, te[1]) ->
            [g EXCEPT !.mbuf = p, !.bd = p, !.bl = 0, !.state = "bodylen"]
       [] OTHER ->
            [g EXCEPT !.state =
               CASE hdrstr(g, "Sec-WebSocket-Key") # <<>>
                      \/ hdrstr(g, "Sec-WebSocket-Accept") # <<>> -> "websocket"
                 [] OTHER -> IF g.res = HRC_OK THEN "error" ELSE "finish"]

\* A line of a header or a footer is complete.
AddHeader(f, n) ==
  IF Len(f.hd) < MaxHeader
  THEN [f EXCEPT !.hd = Append(@, [off |-> f.mbuf, len |-> Len(f.buf) - f.mbuf - n]),
                 !.mbuf = Len(f.buf)]
  ELSE [f EXCEPT !.state = "error"]

recv_header(f) ==
  LET n == recv_lf(f)
      g == Zero(f, n)
  IN IF n = 0 THEN f
     ELSE IF Len(f.buf) - n = f.mbuf THEN EndOfHeader(g) ELSE AddHeader(g, n)

recv_footer(f) ==
  LET n == recv_lf(f)
      g == Zero(f, n)
  IN IF n = 0 THEN f
     ELSE IF Len(f.buf) - n = f.mbuf THEN [g EXCEPT !.state = "finish"] ELSE AddHeader(g, n)

recv_body_nochunk(f) ==
  LET diff == f.bd + f.bl - Len(f.buf) IN
  [f EXCEPT !.state = CASE diff > 0 -> @ [] diff < 0 -> "error" [] diff = 0 -> "finish"]

\* m_len = n
Cut(f, n) == [f EXCEPT !.buf = SubSeq(@, 1, n)]

\* Mutant: any line end is taken for the end of the chunk.
recv_bodyAnyLf(f) ==
  LET n == recv_lf(f) IN
  IF n = 0 THEN f
  ELSE [Cut(f, Len(f.buf) - n) EXCEPT !.mbuf = Len(f.buf) - n, !.state = "bodylen"]

recv_body(f) ==
  LET n == recv_lf(f)
      diff == f.bd + f.bl - (Len(f.buf) - n)
  IN CASE n = 0 \/ diff > 0 -> f
       [] n > 0 /\ diff < 0 -> [f EXCEPT !.state = "error"]
       [] n > 0 /\ diff = 0 ->
            [Cut(f, Len(f.buf) - n) EXCEPT !.mbuf = Len(f.buf) - n, !.state = "bodylen"]

\* *current() is the zero that append has just stored, so the comment is never seen
terminator == NUL

recv_bodylen(f) ==
  LET lf == recv_lf(f)
      comment == lf = 0 /\ terminator = ";"
      g == Zero(f, IF comment THEN 1 ELSE lf)
      cl == NumberOf(StringAt(g, g.mbuf), 16)
  IN CASE lf = 0 /\ ~comment -> f
       [] cl < 0 -> [g EXCEPT !.state = "error"]
       [] cl = 0 -> [g EXCEPT !.mbuf = Len(g.buf), !.state = "footer"]
       [] OTHER -> [Cut(g, g.mbuf) EXCEPT !.bl = @ + cl,
                                          !.state = IF comment THEN "comment" ELSE "body"]

recv_comment(f) ==
  IF recv_lf(f) = 0 THEN f ELSE [Cut(f, f.mbuf) EXCEPT !.state = "body"]

\* One turn of append's loop.  full: the loop was left with goto end
AppendByte(f, c) ==
  IF f.full \/ f.state \in {"error", "finish"} THEN f
  ELSE LET g == Store(f, c) IN
       CASE g.state = "header" -> recv_header(g)
         [] g.state = "body" -> recv_body(g)
         [] g.state = "body_nochunk" -> recv_body_nochunk(g)
         [] g.state = "bodylen" -> recv_bodylen(g)
         [] g.state = "footer" -> recv_footer(g)
         [] g.state = "comment" -> recv_comment(g)
         [] g.state = "websocket" -> [g EXCEPT !.full = TRUE]

append(f, piece) ==
  LET g[i \in 0..Len(piece)] ==
        IF i = 0 THEN [f EXCEPT !.full = FALSE] ELSE AppendByte(g[i - 1], piece[i])
  IN g[Len(piece)]

\* body: <<the bytes>>, or <<>> for the null pointer
body(f) == IF f.bd = NoBody THEN <<>> ELSE <<SubSeq(f.buf, f.bd + 1, f.bd + f.bl)>>

\* url: what stands between the first two blanks of the first line, without its first slash
url(f) ==
  LET l == hdr(f, 1)
      blanks == {i \in DOMAIN l : l[i] = SP}
      a == CHOOSE i \in blanks : \A j \in blanks : i <= j
      from == IF l[a + 1] = "/" THEN a + 2 ELSE a + 1
      ends == {i \in blanks : i >= from}
  IN IF blanks = {} \/ ends = {} THEN <<>>
     ELSE <<SubSeq(l, from, (CHOOSE i \in ends : \A j \in ends : i <= j) - 1)>>
=============================================================================
