--------------------------- MODULE ReplyChannel ---------------------------
(***************************************************************************)
(* What one server-side stream promises to everybody that sends replies    *)
(* through it: the replies are put in one total order, and the peer gets a *)
(* prefix of that order, one reply at a time.  The channel may break, and  *)
(* after that nothing is delivered any more; while it is not broken every  *)
(* accepted reply is eventually delivered.  SVStream implements it.        *)
(***************************************************************************)
EXTENDS Sequences, Naturals

CONSTANT Replies            \* the replies that can be sent

VARIABLES
    sent,                   \* replies in the order the channel accepted them
    delivered,              \* replies the peer has been given
    broken                  \* TRUE once a delivery has failed

vars == <<sent, delivered, broken>>

Init == sent = <<>> /\ delivered = <<>> /\ broken = FALSE

Accept(r) == sent' = Append(sent, r) /\ UNCHANGED <<delivered, broken>>

Deliver ==
    /\ ~broken
    /\ Len(delivered) < Len(sent)
    /\ delivered' = Append(delivered, sent[Len(delivered) + 1])
    /\ UNCHANGED <<sent, broken>>

Break == broken' = TRUE /\ UNCHANGED <<sent, delivered>>

Next == (\E r \in Replies : Accept(r)) \/ Deliver \/ Break

Safety == Init /\ [][Next]_vars

Spec == Safety /\ WF_vars(Deliver)
===========================================================================
