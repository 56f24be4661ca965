----------------------------- MODULE MCExchange -----------------------------
(* Exchange for TLC: ids and types of one and of two bytes, and a payload. *)
EXTENDS Exchange

Data == <<[byte |-> 7, size |-> 1], [byte |-> 200, size |-> 1]>>
MCStarts == {<<0, Data>>}
MCSends == << <<300, Data>>, <<0, <<>>>> >>
MCPushes == {<<1, Data>>}
MCPayloads == {<<>>, Data}

=============================================================================
