-------------------------------- MODULE Http --------------------------------
(***************************************************************************)
(* mtk_http_start, mtk_http_stop, mtk_httpsrv_listen and mtk_httpcli_*     *)
(* (src/src/mtk.cpp) over HttpClient (src/src/http.cpp) and HttpServer: an *)
(* application thread, the client's web thread, the server's thread, and   *)
(* the requests of the client.                                             *)
(*                                                                         *)
(* The application starts what is stopped and stops what is started, asks  *)
(* mtk_http_enabled before a request, makes its calls from one thread, and *)
(* starts a server once: after Fin nothing sets alive_ again.              *)
(* grpc is external: initialised while its count is above zero; a request  *)
(* completes in a poll of the web thread, with a response or an error.     *)
(***************************************************************************)
EXTENDS HttpServer

CONSTANTS Requests,   \* HTTP requests of the application
          MaxStarts   \* calls of mtk_http_start

VARIABLES enabled,    \* g_http_alive
          pollset,    \* g_pollset: "null" or "live"
          webthr,     \* g_webthr: "none", "looping", "fin" or "ended"
          request,    \* each request: "none", "waiting", "called", "refused" or "stranded"
          grpc,       \* calls of grpc_init less calls of grpc_shutdown
          app,        \* the application: "idle", "join_client", ...
          starts      \* calls of mtk_http_start

clVars == <<enabled, pollset, webthr, request>>
vars == <<svVars, clVars, grpc, app, starts>>

Init ==
  /\ ServerInit
  /\ enabled = FALSE
  /\ pollset = "null"
  /\ webthr = "none"
  /\ request = [r \in Requests |-> "none"]
  /\ grpc = 0
  /\ app = "idle"
  /\ starts = 0

\* The first port initialises the server.
mtk_httpsrv_listen ==
  /\ app = "idle"
  /\ ~enabled
  /\ n_listeners < MaxListeners
  /\ grpc' = IF n_listeners = 0 THEN grpc + 1 ELSE grpc
  /\ AddHandler
  /\ UNCHANGED <<alive, thread, bound, ctx, clVars, app, starts>>

\* HttpClient::Start, then a thread for HttpServer::Run
mtk_http_start ==
  /\ app = "idle"
  /\ ~enabled
  /\ starts < MaxStarts
  /\ n_listeners = 0 \/ alive
  /\ starts' = starts + 1
  /\ grpc' = grpc + 1
  /\ pollset' = "live"
  /\ enabled' = TRUE
  /\ webthr' = "looping"
  /\ IF n_listeners > 0 THEN Run ELSE UNCHANGED svVars
  /\ UNCHANGED <<request, app>>

\* HttpClient::Stop, up to its join
mtk_http_stop ==
  /\ app = "idle"
  /\ enabled
  /\ enabled' = FALSE
  /\ app' = "join_client"
  /\ UNCHANGED <<svVars, pollset, webthr, request, grpc, starts>>

\* Mutant: Stop does not join.
JoinClientNot ==
  /\ app = "join_client"
  /\ grpc' = grpc - 1
  /\ app' = IF thread = "none" THEN "idle" ELSE "fin_server"
  /\ UNCHANGED <<svVars, clVars, starts>>

\* The web thread has ended: grpc_shutdown; HttpServer::Fin comes next if there is a thread
JoinClient ==
  /\ app = "join_client"
  /\ webthr = "ended"
  /\ webthr' = "none"
  /\ grpc' = grpc - 1
  /\ app' = IF thread = "none" THEN "idle" ELSE "fin_server"
  /\ UNCHANGED <<svVars, enabled, pollset, request, starts>>

\* HttpServer::Fin clears alive_, which the server's thread sees when its poll is over ...
FinServer ==
  /\ app = "fin_server"
  /\ alive' = FALSE
  /\ app' = "fin_grpc"
  /\ UNCHANGED <<n_listeners, capacity, thread, bound, ctx, clVars, grpc, starts>>

\* ... and calls grpc_shutdown, before anybody has joined that thread.
FinGrpc ==
  /\ app = "fin_grpc"
  /\ grpc' = grpc - 1
  /\ app' = "join_server"
  /\ UNCHANGED <<svVars, clVars, starts>>

JoinServer ==
  /\ app = "join_server"
  /\ thread = "left"
  /\ app' = "idle"
  /\ thread' = "none"
  /\ UNCHANGED <<alive, n_listeners, capacity, bound, ctx, clVars, grpc, starts>>

\* _RequestContext::Init gives the request its pollset and starts it, or returns false for
\* an address it cannot parse, and nobody looks at what it returns.
RequestInit(r) == \E s \in {"waiting", "refused"} : request' = [request EXCEPT ![r] = s]

mtk_http_enabled == enabled

\* mtk_httpcli_get, _post and their _insecure forms: HttpClient::Get or Post
mtk_httpcli(r) ==
  /\ app = "idle"
  /\ mtk_http_enabled
  /\ request[r] = "none"
  /\ RequestInit(r)
  /\ UNCHANGED <<svVars, enabled, pollset, webthr, grpc, app, starts>>

\* The callback gets the response, or HRC_ERROR; the context is deleted.
tranpoline(r) == request' = [request EXCEPT ![r] = "called"]

\* Update: a poll completes a request.
Update(r) ==
  /\ webthr = "looping"
  /\ request[r] = "waiting"
  /\ tranpoline(r)
  /\ UNCHANGED <<svVars, enabled, pollset, webthr, grpc, app, starts>>

\* The loop sees g_http_alive.
WebThreadLeaves ==
  /\ webthr = "looping"
  /\ ~enabled
  /\ webthr' = "fin"
  /\ UNCHANGED <<svVars, enabled, pollset, request, grpc, app, starts>>

\* Fin: the pollset is shut down; requests that wait for it are not polled any more
Fin ==
  /\ webthr = "fin"
  /\ pollset' = "null"
  /\ webthr' = "ended"
  /\ request' = [r \in Requests |-> IF request[r] = "waiting" THEN "stranded" ELSE request[r]]
  /\ UNCHANGED <<svVars, enabled, grpc, app, starts>>

Next ==
  \/ mtk_httpsrv_listen
  \/ mtk_http_start
  \/ mtk_http_stop
  \/ JoinClient
  \/ FinServer
  \/ FinGrpc
  \/ JoinServer
  \/ \E r \in Requests : mtk_httpcli(r) \/ Update(r)
  \/ WebThreadLeaves
  \/ Fin
  \/ ServerNext /\ UNCHANGED <<clVars, grpc, app, starts>>

Spec == Init /\ [][Next]_vars

-----------------------------------------------------------------------------
\* grpc stays initialised while the web thread runs or a request waits, and the pollset
\* exists for whoever the flag lets in: the web thread's polls, and a request of an
\* application that asked mtk_http_enabled; outside of mtk_http_* the calls of grpc_init and
\* grpc_shutdown balance (mtk.cpp:377-410, http.cpp:57-59, 134-152, 182-202).  Nothing is
\* said of the server's thread: see ServerHeld.
GrpcHeld ==
  /\ webthr \in {"looping", "fin"} \/ (\E r \in Requests : request[r] = "waiting") => grpc > 0
  /\ enabled \/ webthr = "looping" => pollset = "live"
  /\ app = "idle" => grpc = (IF enabled THEN 1 ELSE 0)
                           + (IF n_listeners > 0 /\ alive THEN 1 ELSE 0)

\* Known disagreement, no run checks it: the server's thread polls an initialised grpc.
\* Fin gives back the last count while the thread may still be inside grpc_pollset_work
\* (http.cpp:827-833, 881-891; the join comes behind it, mtk.cpp:407-409).
ServerHeld == thread = "looping" => grpc > 0
=============================================================================
