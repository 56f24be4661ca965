----------------------------- MODULE HttpProofs -----------------------------
(***************************************************************************)
(* Module Http, for every number of listeners, requests and starts: grpc   *)
(* and the pollset are there for the client and its requests (GrpcHeld).  The *)
(* application's place in mtk_http_stop says which of the three counts of  *)
(* grpc_init are still to be given back, and by whom.                      *)
(***************************************************************************)
EXTENDS Http, TLAPS

---------------------------------------------------------------------------
(* The inductive invariant *)

Types ==
    /\ alive \in BOOLEAN /\ enabled \in BOOLEAN
    /\ n_listeners \in Nat
    /\ thread \in {"none", "looping", "left"}
    /\ pollset \in {"null", "live"}
    /\ webthr \in {"none", "looping", "fin", "ended"}
    /\ app \in {"idle", "join_client", "fin_server", "fin_grpc", "join_server"}

\* The server that Listen has initialised counts once, until the last line of Fin.
Served == IF n_listeners > 0 /\ (alive \/ app = "fin_grpc") THEN 1 ELSE 0

\* A client between its start and the join of its web thread counts once.
ClientUp == enabled \/ app = "join_client"
Client == IF ClientUp THEN 1 ELSE 0

CountInv == grpc = Client + Served

\* The web thread runs while the client is up, and ends only when it is told to.
WebThreadInv ==
    /\ enabled => app = "idle" /\ webthr = "looping"
    /\ ClientUp <=> webthr # "none"
    /\ webthr \in {"looping", "fin"} => pollset = "live"

\* The server's thread was started with listeners, and is joined before the
\* application goes on; alive_ is cleared for it only.
ServerThreadInv ==
    /\ thread # "none" => n_listeners > 0 /\ (enabled \/ app # "idle")
    /\ thread # "none" /\ app \notin {"fin_grpc", "join_server"} => alive
    /\ app \in {"fin_server", "fin_grpc"} => thread # "none"
    /\ app \in {"fin_grpc", "join_server"} => ~alive
    /\ ~alive => n_listeners > 0

\* The web thread leaves no request waiting.
RequestInv == (\E r \in Requests : request[r] = "waiting") => webthr \in {"looping", "fin"}

IInv == Types /\ CountInv /\ WebThreadInv /\ ServerThreadInv /\ RequestInv

---------------------------------------------------------------------------
(* The steps *)

LEMMA InitIInv == Init => IInv
<1> SUFFICES ASSUME Init PROVE IInv
  OBVIOUS
<1>1. /\ alive = TRUE /\ n_listeners = 0 /\ thread = "none" /\ enabled = FALSE /\ pollset = "null"
      /\ webthr = "none" /\ grpc = 0 /\ app = "idle"
  BY DEF Init, ServerInit
<1>2. Types
  BY <1>1 DEF Types
<1>3. CountInv
  BY <1>1 DEF CountInv, Client, ClientUp, Served
<1>4. RequestInv
  BY DEF Init, RequestInv
<1>5. WebThreadInv /\ ServerThreadInv
  BY <1>1 DEF WebThreadInv, ServerThreadInv, ClientUp
<1> QED BY <1>2, <1>3, <1>4, <1>5 DEF IInv

\* The threads, polls and requests do not touch the counts.
LEMMA ThreadsIInv ==
    ASSUME IInv,
           \/ \E r \in Requests : mtk_httpcli(r) \/ Update(r)
           \/ WebThreadLeaves \/ Fin
           \/ ServerNext /\ UNCHANGED <<clVars, grpc, app, starts>>
           \/ UNCHANGED vars
    PROVE  IInv'
<1> USE DEF IInv, Types, CountInv, Client, ClientUp, Served, WebThreadInv, ServerThreadInv
<1>1. CASE \E r \in Requests : mtk_httpcli(r) \/ Update(r)
  <2>1. UNCHANGED <<svVars, enabled, pollset, webthr, grpc, app>>
    BY <1>1 DEF mtk_httpcli, Update
  <2>2. webthr = "looping"
    BY <1>1 DEF mtk_httpcli, Update, mtk_http_enabled
  <2>3. RequestInv'
    BY <2>1, <2>2 DEF RequestInv
  <2> QED BY <2>1, <2>3 DEF svVars
<1>2. CASE WebThreadLeaves
  <2>1. RequestInv'
    BY <1>2 DEF WebThreadLeaves, RequestInv
  <2> QED BY <1>2, <2>1 DEF WebThreadLeaves, svVars
<1>3. CASE Fin
  <2>1. RequestInv'
    BY <1>3 DEF Fin, RequestInv
  <2> QED BY <1>3, <2>1 DEF Fin, svVars
<1>4. CASE ServerNext /\ UNCHANGED <<clVars, grpc, app, starts>>
  <2>1. \/ RunLeaves
        \/ UNCHANGED <<alive, n_listeners, capacity, thread, bound>>
    <3>1. \A slices, left : OnRead(slices, left) => Polled
      BY DEF OnRead
    <3>2. ReadData => Polled
      BY <3>1 DEF ReadData
    <3> QED BY <1>4, <3>2 DEF ServerNext, OnAccept, ReadError, OnWrite, Polled
  <2>2. RequestInv'
    BY <1>4 DEF clVars, RequestInv
  <2> QED BY <1>4, <2>1, <2>2 DEF RunLeaves, clVars
<1>5. CASE UNCHANGED vars
  <2>1. RequestInv'
    BY <1>5 DEF vars, clVars, RequestInv
  <2> QED BY <1>5, <2>1 DEF vars, svVars, clVars
<1> QED BY <1>1, <1>2, <1>3, <1>4, <1>5

\* The application starts and listens while nothing runs.
LEMMA StartIInv ==
    ASSUME IInv, mtk_httpsrv_listen \/ mtk_http_start
    PROVE  IInv'
<1> USE DEF IInv, Types, CountInv, Client, ClientUp, Served, WebThreadInv, ServerThreadInv
<1>1. CASE mtk_httpsrv_listen
  <2>1. RequestInv'
    BY <1>1 DEF mtk_httpsrv_listen, clVars, RequestInv
  <2> QED BY <1>1, <2>1 DEF mtk_httpsrv_listen, AddHandler, clVars
<1>2. CASE mtk_http_start
  <2>1. UNCHANGED <<alive, n_listeners, app>>
    BY <1>2 DEF mtk_http_start, Run, svVars
  <2>2. IF n_listeners > 0 THEN alive /\ thread' \in {"looping", "left"} ELSE thread' = thread
    BY <1>2 DEF mtk_http_start, Run, svVars
  <2>3. /\ app = "idle" /\ ~enabled /\ grpc' = grpc + 1 /\ pollset' = "live" /\ enabled' = TRUE
        /\ webthr' = "looping"
    BY <1>2 DEF mtk_http_start
  <2>4. RequestInv'
    BY <2>3 DEF RequestInv
  <2> QED BY <2>1, <2>2, <2>3, <2>4
<1> QED BY <1>1, <1>2

\* mtk_http_stop gives back a count for the client after its join, and one for
\* the server at the end of Fin, whose thread is joined behind it.
LEMMA StopIInv ==
    ASSUME IInv, mtk_http_stop \/ JoinClient \/ FinServer \/ FinGrpc \/ JoinServer
    PROVE  IInv'
<1> USE DEF IInv, Types, CountInv, Client, ClientUp, Served, WebThreadInv, ServerThreadInv
<1>0. RequestInv'
  <2>1. RequestInv' \/ webthr' # webthr
    BY DEF mtk_http_stop, JoinClient, FinServer, FinGrpc, JoinServer, clVars, RequestInv
  <2>2. webthr' # webthr => webthr = "ended" /\ UNCHANGED request
    BY DEF mtk_http_stop, JoinClient, FinServer, FinGrpc, JoinServer, clVars
  <2> QED BY <2>1, <2>2 DEF RequestInv
<1>1. CASE mtk_http_stop
  BY <1>1, <1>0 DEF mtk_http_stop, svVars
<1>2. CASE JoinClient
  BY <1>2, <1>0 DEF JoinClient, svVars
<1>3. CASE FinServer
  <2>1. /\ app = "fin_server" /\ alive' = FALSE /\ grpc' = grpc /\ app' = "fin_grpc"
        /\ UNCHANGED <<n_listeners, thread, enabled, pollset, webthr, request>>
    BY <1>3 DEF FinServer, clVars
  <2>2. thread # "none" /\ n_listeners > 0 /\ alive /\ ~enabled /\ ~ClientUp /\ ~ClientUp'
    BY <2>1
  <2>3. Client = 0 /\ Served = 1 /\ Client' = 0 /\ Served' = 1
    BY <2>1, <2>2
  <2>4. alive' \in BOOLEAN /\ enabled' \in BOOLEAN
    BY <2>1, Zenon
  <2>5. Types' /\ CountInv'
    BY <2>1, <2>3, <2>4
  <2>6. WebThreadInv' /\ ServerThreadInv'
    BY <2>1, <2>2
  <2> QED BY <2>5, <2>6, <1>0
<1>4. CASE FinGrpc
  <2>1. /\ app = "fin_grpc" /\ grpc' = grpc - 1 /\ app' = "join_server"
        /\ UNCHANGED <<alive, n_listeners, thread, enabled, pollset, webthr, request>>
    BY <1>4 DEF FinGrpc, svVars, clVars
  <2>2. thread # "none" /\ n_listeners > 0 /\ ~alive /\ ~enabled /\ ~ClientUp /\ ~ClientUp'
    BY <2>1
  <2>3. Client = 0 /\ Served = 1 /\ Client' = 0 /\ Served' = 0
    BY <2>1, <2>2
  <2>4. Types' /\ CountInv'
    BY <2>1, <2>3
  <2>5. WebThreadInv' /\ ServerThreadInv'
    BY <2>1, <2>2
  <2> QED BY <2>4, <2>5, <1>0
<1>5. CASE JoinServer
  BY <1>5, <1>0 DEF JoinServer, clVars
<1> QED BY <1>1, <1>2, <1>3, <1>4, <1>5

---------------------------------------------------------------------------
(* The theorem *)

\* The web thread, and a request the application was let in for, find grpc
\* initialised as long as they poll or wait; the pollset is there for both; and when
\* the application is outside of mtk_http_* the calls of grpc_init and grpc_shutdown
\* balance (mtk.cpp:377-410, http.cpp:134-152, 182-202).  The server's thread is not
\* among them.
THEOREM GrpcHeldTheorem == Spec => []GrpcHeld
<1>1. IInv /\ [Next]_vars => IInv'
  BY ThreadsIInv, StartIInv, StopIInv DEF Next
<1>2. IInv => GrpcHeld
  BY DEF IInv, Types, CountInv, Client, ClientUp, Served, WebThreadInv,
         ServerThreadInv, RequestInv, GrpcHeld
<1> QED BY InitIInv, <1>1, <1>2, PTL DEF Spec
=============================================================================
