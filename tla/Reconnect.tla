----------------------------- MODULE Reconnect -----------------------------
(***************************************************************************)
(* When the client tries again: reconnect_attempt_ and reconnect_when_ of  *)
(* RPCStream, CalcReconnectWaitDuration with its 32-bit shift, CalcJitter. *)
(* The rest of the client is module RPCStream, which leaves time out.      *)
(* Durations are in milliseconds.  on_close asks for no duration of its    *)
(* own (OnCloseStream of the Client class).                                *)
(***************************************************************************)
EXTENDS Integers, FiniteSetsExt

CONSTANTS
    MaxAttempts,    \* bound on consecutive attempts
    Jitters         \* values of 800 + rand() % 500 to look at

ASSUME AttemptsAssumption == MaxAttempts \in Nat
ASSUME JittersAssumption == Jitters \subseteq 800..1299 /\ Jitters # {}

VARIABLES
    status,         \* status_, "DISCONNECT", "CONNECTING" or "CONNECTED" (the
                    \* three states from ESTABLISHED on)
    attempt,        \* reconnect_attempt_
    base, wait      \* the duration of the last OnCloseStream, without and
                    \* with its jitter

vars == <<status, attempt, base, wait>>

\* A wait that does not end: a negative int becomes some 10^19 nanoseconds.
Never == 2000000000

---------------------------------------------------------------------------
\* 5 << k for 0 <= k < 32, as its upper and lower 16 bits.
Shift(k) == IF k <= 16 THEN [hi |-> (5 * 2^k) \div 2^16, lo |-> (5 * 2^k) % 2^16]
                       ELSE [hi |-> (5 * 2^(k - 16)) % 2^16, lo |-> 0]

\* min(300, v) seconds, v a signed 32-bit number.
Capped(v) ==
    CASE v.hi >= 2^15 -> Never
      [] v.hi \in 1..(2^15 - 1) -> 300000
      [] v.hi = 0 -> 1000 * Min({300, v.lo})

\* Mutant: the shift is by n_attempt.
BasesUnshifted(n) == IF n <= 1 THEN {5000} ELSE {Capped(Shift(n))}

\* CalcReconnectWaitDuration before the jitter.  A shift by the width or
\* more is undefined: the processor uses the low bits of k, or gives 0.
Bases(n) ==
    IF n <= 1 THEN {5000}
      ELSE IF n - 2 < 32 THEN {Capped(Shift(n - 2))}
        ELSE {Capped(Shift((n - 2) % 32)), 0}

\* CalcJitter: ceil of the product, exact in these units.
CalcJitter(b, j) == IF b = Never THEN Never ELSE (b \div 1000) * j

---------------------------------------------------------------------------
Init == status = "DISCONNECT" /\ attempt = 0 /\ base = 0 /\ wait = 0

\* Update in state DISCONNECT, once reconnect_when_ has come.
Connecting ==
    /\ status = "DISCONNECT" /\ attempt < MaxAttempts
    /\ status' = "CONNECTING"
    /\ attempt' = attempt + 1
    /\ UNCHANGED <<base, wait>>

\* ESTABLISHED_EVENT
Established ==
    /\ status = "CONNECTING"
    /\ status' = "CONNECTED"
    /\ attempt' = 0 /\ wait' = 0
    /\ UNCHANGED base

\* DISCONNECT_EVENT
Disconnected ==
    /\ status # "DISCONNECT"
    /\ status' = "DISCONNECT"
    /\ base' \in Bases(attempt)
    /\ \E j \in Jitters : wait' = CalcJitter(base', j)
    /\ UNCHANGED attempt

Next == Connecting \/ Established \/ Disconnected

Safety == Init /\ [][Next]_vars

---------------------------------------------------------------------------
(* Properties *)

\* The first failure whose shift leaves the int (rpc.cpp:238).
Overflowing == 31

\* Between a lost connection and the next attempt the client waits some
\* seconds, and no more than 300 of them with the longest jitter, until
\* Overflowing attempts have failed in a row: no reconnect storm, no client
\* that has given up (rpc.cpp:231-244, 290-292).
WaitInRange ==
    status = "DISCONNECT" /\ base > 0 /\ attempt < Overflowing => wait \in 4000..389700

\* Known disagreement, no run checks it: "set reconnect wait 5, 10, 20, ....
\* upto 300 sec" (rpc.cpp:291).  From Overflowing failures on the wait may
\* be without end, or 0; before, the jitter makes it up to 389.7 seconds.
UpTo300 == status = "DISCONNECT" /\ attempt > 0 => wait \in 1..300000

\* Known disagreement, no run checks it: "0.800 to 1.200 times" (rpc.cpp:243).
\* 800 + rand() % 500 goes up to 1.299 times.
JitterUpTo120 == base # Never => wait <= base + base \div 5
===========================================================================
