-------------------------------- MODULE Wire --------------------------------
(***************************************************************************)
(* The protobuf wire format as the generated messages use it (external:    *)
(* the protobuf runtime).  A buffer is a sequence of chunks, each with its *)
(* size in bytes: the bytes an application sends, and the fields of a      *)
(* message, a field being its tag (number * 8 + wire type) and its value.  *)
(* Field numbers are below 16, so a tag is one byte.                       *)
(***************************************************************************)
EXTENDS Integers, FiniteSets, SequencesExt

\* The size of a buffer.
Size(s) == FoldLeft(LAMBDA n, chunk : n + chunk.size, 0, s)

\* VarintSize32, VarintSize32SignExtended: seven bits a byte, and a negative
\* number is sign-extended to 64 bits.
VarintSize(n) == IF n < 0 THEN 10 ELSE 1 + Cardinality({k \in 1..4 : n >= 128^k})
BytesSize(s) == VarintSize(Size(s)) + Size(s)

\* Bytes that nobody wrote, or a field that is cut off.
Broken == [tag |-> 0, v |-> 0, size |-> 1]

\* WriteUInt32ToArray and the like
VarintField(number, n) == <<[tag |-> number * 8, v |-> n, size |-> 1 + VarintSize(n)]>>

\* InternalWriteMessage: size bytes are announced for s.
MessageField(number, s, size) ==
  <<[tag |-> number * 8 + 2, v |-> IF Size(s) = size THEN s ELSE <<Broken>>,
     size |-> 1 + VarintSize(size) + size]>>

\* WriteBytesMaybeAliased
BytesField(number, s) == MessageField(number, s, Size(s))
=============================================================================
