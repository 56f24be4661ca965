# grpc-mtk: specification and proofs

grpc-mtk is a toolkit for game servers on top of gRPC's asynchronous C++ API. A
client keeps one bidirectional stream (`mtk.Stream/Write`) to a server; on it
travel a login, requests with replies, and notifications. Beside it are a small HTTP
client and server, and a vendored pair of lock-free queues over which its threads
talk. This directory holds TLA+ modules of the toolkit, the TLC configurations that
check them on small instances, and TLAPS proofs about the server's stream, its maps of connections,
the client's callbacks, status and use of gRPC, and the queue's producers and free list.

## The system

| part | source | state | operations | hard because |
|---|---|---|---|---|
| `SVStream`, `Conn::Stream`, `StreamCloser` | `src/src/conn.h`, `conn.cpp` | `refc_`, `queue_`, `is_sending_`, `tasks_` | `Send`, `Step`, `Destroy`, `Ref`, `Unref` | any thread sends; the worker completes writes; whoever drops the last reference deletes |
| `Conn` | `conn.h`, `conn.cpp` | `status_`, `cid_`, `lcid_`, `pmap_` | `Step`, `ConsumeTask`, `Login`, `AcceptLogin`, `DeferLogin`, `FinishLogin`, `Finish`, `Destroy` | completions, tasks and shutdown end the same object |
| `Worker` | `worker.h`, `worker.cpp` | `connections_`, `dying_` | `Launch`, `Run`, `New`, `OnRegister`, `OnUnregister` | the vector is edited while it is scanned |
| `IServer`, `Server` | `server.h`, `server.cpp`, `mtk.cpp` | `cmap_`, `workers_`, `mutex_`, `queue_` | `Start`, `Run`, `Kick`, `Shutdown`, `Join`, `Register`, `Unregister`, `GetStream` | ids collide; lookups outlive the lock; a thread starts another and waits for its word |
| `RPCStream`, `IOThread` | `rpc.h`, `rpc.cpp` | `status_`, `restarting_`, `replys_`, `requests_`, `reqmap_`, `is_sending_`, `reply_work_`, `connect_sequence_num_` | `Update`, `Call`, `Release`, `Run`, `HandleEvent`, `Open`, `Stop` | two threads and callers meet in lock-free queues; old and new streams overlap |
| reconnect backoff | `rpc.cpp` | `reconnect_attempt_`, `reconnect_when_` | `CalcReconnectWaitDuration`, `CalcJitter` | 32-bit arithmetic |
| protocol messages, `Codec` | `proto/src/mtk.pb.*`, `codec.*` | the fields | sizes, serialisation, parsing, `MergeFrom`, `Clear` | defaults are not on the wire; objects are used again |
| C API and queue mode | `mtk.cpp`, `mtk.h` | handles, `crep_`, `queue_` | `mtk_*`, `FunctionHandler`, `QueueReadHandler`, `Client` | the application answers later, from elsewhere |
| HTTP | `http.cpp`, `http.h` | parser buffer, contexts, pollsets, listener table | `HttpFSM::append`, `HttpServContext`, `HttpClient`, `HttpServer` | input cut anywhere, pointers into a buffer that moves, threads that start and stop |
| `ConcurrentQueue` | `src/ext/MoodyCamel/concurrentqueue.h` | producers, blocks, block index, free list, producer table | `enqueue`, `try_dequeue`, `dequeue_bulk` | lock-free |
| `BlockingReaderWriterQueue` | `readerwriterqueue.h`, `atomicops.h` | ring of blocks, semaphore | `enqueue`, `try_enqueue`, `try_dequeue`, `peek`, `pop`, `wait` | lock-free, blocking |
| clock, logger, certificates | `timespec.*`, `logger.*`, `certs.cpp` | - | - | - |
| C# bindings | `bindings/csharp` | - | marshalling, database and Unity helpers | - |

**How they interact.** `mtk_listen` runs the server itself or in a thread that it waits
for; `Kick` starts the workers, each with its own completion queue. A worker takes one
event at a time: its tag is a `Conn` (accept, read, finish), an `SVStream` (write) or a
`StreamCloser` (finish by a task). It then runs `ConsumeTask` on every connection in
`connections_`. Application threads reach a connection by id (`cmap_`, under `cmap_mtx_`)
or by the id of a deferred login (`pmap_`, under `pmap_mtx_`), and either send on its
stream or queue a task. On the client, the application polls `RPCStream::Update`; the IO
thread owns the gRPC stream, pops `requests_` and pushes replies and two sentinel
events (`DISCONNECT_EVENT`, `ESTABLISHED_EVENT`) into `replys_`. In queue mode the
handlers turn logins, messages, tasks and closes into events that an application pops
and answers by the ids they carry. `requests_`, `replys_`, `tasks_` and that queue are
`moodycamel::ConcurrentQueue`s. HTTP shares nothing with the rest but gRPC's library
and its initialisation count.

**What makes each part correct.** The stream: exact reference counts, one write at
a time, replies in order, each delivered. The server: its maps and lists point only
to live connections, no tag dangles, each call is finished once, each connection
closed once, a start and a shutdown end. The client: at most one callback per call,
`status_` tells the truth, a lost connection is noticed and replaced, a close ends. The
backoff: the wait is bounded. The exchange: each side's application gets what the other
one's sent. HTTP: a message is decoded the same however it is cut, inside the memory it
has. The queues: first in, first out, nothing lost or read twice.

## Modules

| module | models | composed of |
|---|---|---|
| `ReplyChannel` | abstract: a total order of replies of which the peer gets a growing prefix | |
| `SVStream` | `SVStream`, the `Conn::Stream` handle, `StreamCloser` | implements `ReplyChannel` |
| `SVStreamProofs` | the proofs | `SVStream` |
| `ConnProofs`, `ConnShutdownProofs` | the proofs, the second on top of the first | `Conn` |
| `RPCStreamProofs` | the proofs | `RPCStream` |
| `FreeListProofs` | the proofs | `FreeList` |
| `QueueProducersProofs` | the proofs | `QueueProducers` |
| `ImplicitProducerProofs` | the proofs | `ImplicitProducer` |
| `HttpProofs` | the proof of `GrpcHeld` | `Http` |
| `ConcurrentQueue` | what the code relies on in `moodycamel::ConcurrentQueue` | |
| `Conn` | `Conn`, `Worker`, `IServer`, `mtk_listen`, `mtk_server_join`, `mtk_cid_task`, `mtk_cid_close`, `mtk_svconn_finish_login` | `ConcurrentQueue` |
| `RPCStream` | `RPCStream`, `IOThread`, `mtk_conn_send`, `mtk_conn_reset`, `mtk_conn_close` | `ConcurrentQueue` |
| `Reconnect` | the backoff | |
| `Wire` | protobuf's wire format (external) | |
| `Messages` | the messages that `protoc` generated, and `Codec` | `Wire` |
| `Exchange` | one client, one connection at a time, handlers or queue mode, field by field | `Messages` |
| `HttpFSM` | the parser | |
| `HttpServer` | listeners, `Run`, `HttpServContext`, `HttpRouter`, the closure API | `HttpFSM` |
| `Http` | `mtk_http_*`, `mtk_httpcli_*`, `HttpClient`, the threads | `HttpServer` |
| `FifoQueue` | abstract: elements leave in their order, once | |
| `ProducerBase`, `ImplicitProducer`, `ExplicitProducer` | the two kinds of producer of `ConcurrentQueue` | implement `FifoQueue` |
| `ReaderWriterQueue` | `BlockingReaderWriterQueue`, `LightweightSemaphore` | implements `FifoQueue` |
| `FreeList` | the list of empty blocks | |
| `QueueProducers` | the producer table and `try_dequeue` over the producers | |
| `MC*` | the instances for TLC | |

Definitions keep the source's names; a definition marked "Mutant" is a plausible
defect of the definition it precedes. No specification uses it: with it in the
other's place TLC violates the property named in `PROJECT.json`.

### SVStream

Variables follow the members; `handles` and `closers` are the objects that hold a
reference, `inflight` the write gRPC has, and `sent`, `wire`, `done` record what
`Send` took, what `io_.Write` got, and what completed. `mtx_` is held from the
first to the last access in `Send` and `Step`, so each critical section is one
action. Only `Step`'s `UNREF` follows the unlock, and it is an action of its own
(`StepUnref`), so another thread can send in the window. A call may end at any time
(`CallEnds`); from then on a write may complete with `ok = false` (`WriteFail`).

### Conn

One record per connection holds `status_`, `cid_`, whether `lcid_` is set, the
operations gRPC holds with this connection as tag, and counts of `Finish` and of the
handler's `Close`. A worker's loop is `Timeout` or an event, then `LoopConn` for
each index; tasks are consumed one action at a time, and `Destroy` ends in
`Finalize` after the remaining tasks. `GetStream` is cut at the unlock: `CidLookup`
takes the iterator, `CidDeref` follows it. `FinishLogin` is cut in the same way.

The start is `start` (where `mtk_listen` is: holding `mutex_`, waiting, returned, or
running the server itself) and `srv` (where `Server::Run` and `Kick` are). `Run` makes
the handler and the queue, `BuildAndStart` may fail, `Launch` starts each worker's thread,
whose own first step is `New`; `Notify` needs `mutex_`, which `Start` releases in its
wait. The end is `PrepareShutdown` for each worker, `ServerShutdown`, which returns at
`CallsOver`, then the workers' last loops (`FinalConn`), `Joined` and `Join`.

`broken` collects the assertions of the code that fail, and `"uaf"` when a deleted object is
used. gRPC completes every operation once, fails a read once the client is gone or the call
finished, and its `Shutdown` returns when no call is left. A call arrives in gRPC
(`CallArrives`) before its worker takes the event (`Accept`): in between its client may go
and the server shut down. `Kick` may thus shut a queue down on which a worker still begins
operations; the model lets those complete like the others, and says in `NoWorkOnShutQueue` that they occur
(see the known disagreements).

### RPCStream

`Update` is cut wherever another thread writes what it reads: each reply, the
parts of `DrainQueue`, the switch, and `ProcessTimeout`. `Call` by another thread is cut
into check, enqueue and register. An event of the IO thread is one action. A record
per stream holds its outstanding operations and what the server received and
answered. `Stop` enqueues the close request or shuts the completion queue down;
`StopTimeout` is its helper thread after two seconds, which may be over at any moment, whatever is still open: it shuts the
queue down, and clears `alive_` in a step of its own (`StopForce`); `RunLeaves` is the IO thread
leaving its loop, and `Join` what follows both. `misuse` records what gRPC or the code
forbids: a sentinel dereferenced, a read into a buffer that is gone, an operation on a
queue that was shut down, or one not completed when its `IOThread` is deleted.

Time is a choice, with one assumption: the reconnect wait (at least four seconds) and
the login timeout (thirty) are long enough for the IO
thread to take the completions of a call that is over. `"late"` in `Events` lifts it for
the login. Nothing is assumed of the two seconds of `Stop`.

### Reconnect

The shift `5 << (n - 2)` is kept in two 16-bit halves, since TLC's integers have 32
bits themselves; durations are milliseconds. From the thirty-first failure on the shift leaves the int
(`Overflowing`); shifts by 32 or more are undefined in C++ and
a choice between what processors give. The run goes on to the fortieth, so that `UpTo300` shows what follows.

### Wire, Messages, Exchange

A buffer is a sequence of chunks with sizes: an application's bytes, or a field with its
tag and value. `XByteSizeLong` computes the size before anything is written and
`Pack(XSerialize(m), XByteSizeLong(m))` is intact only if the two agree, as a
fixed-size buffer is in `Codec::Pack` and in `MessageField`. `XField` is one turn of the
parser's loop; parsing folds it over the fields, onto an object that may have been used.

`Exchange` is the content of what `Conn`, `SVStream` and `RPCStream` move: there a reply is a
name, here every step of a login, a call, a notify, a task and a close builds its message as
`conn.h`, `rpc.h` and `mtk.cpp` do, field by field. Each handler is one action, a stream is in
order and may end at any time, and the connection object at its other end goes in the same
step (how it goes is `Conn`'s matter). `use_queue` chooses between handlers and the queue.
In queue mode an application holds up to `MaxHeld` events and deals with them in any order,
perhaps after the client has come back on a new stream.

### HttpFSM, HttpServer, Http

A character is a model value: CR, LF, a digit, or a token for the text of a name; a name that
begins with another, or is spelt in small letters, is cut into tokens where it is compared (`Variants`). The
parser keeps `m_p` with the zeroes it writes over line ends, and its pointers as
offsets, and takes one character at a time, so that every cut of the input is one of
`OnRead`'s slices. `HttpServer` is the listener table, the thread's `Run`, and one
context from `OnAccept` to its deletion; the callbacks are a router over the C++ interface and
the echo handler of `src/test/http/server/main.cpp` over the C API. A message of the run is well-formed and read as it is meant
(`"plain"`), well-formed and not (`"unusual"`), or not well-formed; `Decodes` is about the first, and
`WellFormedDecodes` about the first two. `Http` adds the
application's starts and stops, the client's web thread and requests, and gRPC's count of
initialisations. `HttpServer::Fin` is two steps, `FinServer`, which clears `alive_`, and `FinGrpc`; the
server's thread may poll in between and after them, until `JoinServer`.

### The lock-free queues

A step is one access to shared memory. The producers keep the code's indices modulo
`Span`; ghosts (`pushed`, `taken`) count without wrapping, and the n-th element is n.
`ImplicitProducer` is what every thread of the toolkit uses: `EnqueueBegin`, then block, index
entry and element, each published in its own step; a dequeue counts
`dequeueOptimisticCount` up, takes an index or gives the claim back, searches the block
index as it was when it loaded it, reads, and counts the block's emptied slots, whose
last one returns the block. `ExplicitProducer` keeps its blocks in a ring. Both have
`dequeue_bulk` and their destructor. An implicit producer may be made without a block index, where its constructor
found no memory; consumers find it empty, and its first enqueue dereferences null (`NoIndex`). `FreeList` is the list those blocks return to, with its
reference counts and its flag; `QueueProducers` is the table with which a thread finds
its producer while others insert and resize, and `try_dequeue`'s choice among the
producers; of a producer it has the counters alone, each access to them a step, so that a dequeue fails also because another
consumer has claimed more than there is. `waiting`, `contended` and `excused` are ghosts: what was there when the call
began, and where a claim was in its way. `ReaderWriterQueue` has one writer, one reader and, when `blocking`, the
semaphore with waits that time out.

`ConcurrentQueue` (the module) is what `Conn` and `RPCStream` use of all this: FIFO for each
producer, no order between producers. `ImplementsFifo` and `OwnProducer` are its two halves.

## Runs

| run | bounds | distinct states | what it shows |
|---|---|---|---|
| `svstream` | two application threads, three replies, two closers | 3 100 | references are exact, the object is freed exactly when unheld, one write, order, delivery and release, refinement of `ReplyChannel` |
| `conn_maps` | four connections on two workers, one id, two calls by id | 900 000 | maps and lists stay consistent with contended ids, deferred, denied and refused logins, closes from tasks and handlers |
| `conn_shutdown` | three connections on one worker | 43 000 | from `mtk_listen` to `mtk_server_join`: no object is used that is deleted or not yet there, one `Finish`, one `Close`, nothing left; start and shutdown end, and dead clients' connections are deleted |
| `conn_get_stream` | two connections, one call by id | - | expected to be violated: `GetStream` dereferences its iterator after unlocking |
| `rpc_all` | two streams, one more thread, every event | 1 198 000 | at most one callback |
| `rpc_poll` | two streams, one call, breaks, `mtk_conn_close` | 18 000 | no misuse until the two seconds of `Stop` are over, the status tells the truth, the client reconnects unless a write failed, a close ends unless it crashes, entries leave `reqmap_` |
| `reconnect_wait` | forty attempts | 260 | before the shift overflows the wait lies within 4 to 390 s |
| `http` | 16 bytes at first, four headers, one request, two starts | 460 000 | decoding of `"plain"` messages, memory, the response read back, gRPC held |
| `queues` | blocks of two slots, two blocks, two consumers | 2 079 000 | the two producers and the reader-writer queue are FIFO queues, their counts and blocks exact |
| `freelist` | three threads, three nodes | 322 000 | no block is shared, none is lost |
| `producers` | three threads of which two collide, two consumers | 3 084 000 | one producer for each thread, no element overlooked unless a claim was in the way |
| `exchange` | two streams, two calls, one push, two events held | 553 000 | what is heard is what was said; messages are intact |

(Distinct states are rounded.)

### Why the bounds are enough

* `svstream`: three replies let one be in flight, one queue behind it and one be sent in
  the window before `UNREF`.
* `conn_*`: two connections per worker are one that lives and the waiter that `New` creates
  for it; two workers let connections with the same id be deleted by different threads. Two
  calls by id cover a close after a task, and a stale lookup before a second login.
  `NProcess` is 1 instead of 3: the loop then leaves tasks queued after one instead of
  after three. The last connection of a worker stays the waiter, so that the bound
  itself is not mistaken for a loss. The shutdown may come at any time after the server is up, also before
  the workers' threads have begun.
* `rpc_*`: two streams cover every overlap of an old and a new one, since the code
  remembers only the current sequence number. The last stream of a client never breaks.
  One call leaves room for the login's own entry and for the request queued behind it.
* `reconnect_wait`: thirty is the last attempt whose shift fits an int; forty shows the shifts
  into the sign, by less than 32, and by 32 and more.
* `http`: sixteen bytes, so that the buffer grows in the middle of messages; messages with up to
  two chunks, line ends of both kinds inside and outside of them, lengths of zero, with a sign, negative and not a number, an
  extension of a chunk, names that begin with another's, and a slice cut at every byte.
  `Capacity` 1 makes the listener table grow at the second one.
* `queues`: with blocks of two slots nine elements wrap the indices of `Span` 8, fill the
  block index (two entries) and replace it once (`MaxIndex` 4: after that there is no memory
  for another). `Awake` keeps a consumer from sleeping while half a span of elements goes by, as
  2^31 would have to. `MaxClaims` bounds the claims and `ImplicitBulk`, `MaxBulk` the size of a bulk
  dequeue. `RWElements` is 14: with `maxSize` 8 the ring has four blocks of three elements, one of them to spare, and
  refuses the thirteenth at the earliest, with `maxSize` 1 it has one block. `ExplicitSpan` is 16 so that six elements lap the ring. An allocation may fail
  where the code allocates.
* `freelist`: three nodes and three threads, one looking, one taking and one putting back,
  are what the classic failure of such lists needs; counts wrap at 16.
* `producers`: the first table has two slots, so three threads make it grow twice; one
  allocation fails. `Overlapping` is FALSE: a thread begins to enqueue while no consumer is at work,
  or no other thread and at most one consumer, or two when its enqueue is one step; a dequeue begins while at most one
  thread or consumer is at work (the theorems hold without).
* `exchange`: an id and a type that need two bytes each; the second call has neither
  type nor payload, so that whatever the first one left would show. A second stream meets
  the events of the first.

### Fairness

* Worker threads, the IO thread and the threads of a start or a shutdown run, so their
  enabled steps happen (weak fairness). A completion queue hands out every ready event, also
  when other events come in between, hence strong fairness of the events that end a
  connection and of the loop's timeout.
* The application polls `Update`; time passes, so `SwitchReconnect` and the expiry
  of an entry, which other steps can disable for a while, are strongly fair.
* The server answers a login, and ends a call whose client has sent its last message
  (`ServerClose`); nothing is assumed of the answers to other calls, nor of senders.
* A shutdown is followed by the join (`Join`): `mtk_server_join` does both.
* `ClientsLogIn` (only in `conn_shutdown`): a client that opened a stream sends its
  Connect request unless it goes away. The toolkit's client does. Without it
  `ShutdownEnds` fails: a connection in state `LOGIN` is in no worker's list, and
  `server_->Shutdown()` has no deadline.

## Known disagreements

Where the code does not do what a comment, an assertion, a document or a test in the
repository says. The first is a run; for the others the property is in its module, and the
change to a configuration that violates it is named.

* `GetStream` (`server.cpp:73`) dereferences its iterator after unlocking: `conn_get_stream`.
* An answer to a deferred login queued while the worker begins to shut down meets
  `ASSERT(status_ == WAIT_LOGIN)` (`conn.h:391`) in state `CLOSE`: `AssertionsHold` in
  `MCConnShutdown` with a thread in `Threads`.
* A login denied at once is registered under id 0 and served (`conn.cpp:163`), unlike a
  deferred denial: `DeniedNotServed` in `MCConnMaps`.
* After "wait until all RPC processed" (`server.cpp:16`) a worker may still start operations on the queue that
  `Kick` shuts down next: a call is over for gRPC once its client has gone, and the worker that has not heard of it accepts
  it and waits for the next one (`conn.cpp:146`), or finishes it (`conn.cpp:97`); or the worker's thread has not begun, and
  asks for its first call (`worker.cpp:25`): `NoWorkOnShutQueue` in `MCConnShutdown`.
* A failed write leaves `is_sending_` set (`rpc.cpp:118`), so the request to open a new stream
  is never popped, where `rpc.cpp:291` and `test/e2e/client/tests/reconnect.cpp:26` expect a
  reconnection: `Reconnects` in `MCRPCPoll` without `"close"` in `Events`.
* After `mtk_conn_reset` the new stream's start can be taken for a reply of the old one
  (`rpc.cpp:133`), and the client stays in `CONNECTING` (`mtk.h:168`: "this just restart
  connection, never destroy"): `ResetRestarts` in `MCRPCPoll` with `Events = {"reset"}`;
  `NoMisuse` with `{"reset", "close"}`, where a `Stop` then starts an operation
  on a queue that is shut down or leaves one unfinished.
* A request to open a stream that is behind another request is taken by the completion of that one's write
  (`rpc.cpp:123`), which treats the sentinel as a message: `NoMisuse` in `MCRPCPoll` with `"reset"`,
  `"deny"`, `"unready"` or `"late"` added to `Events`.
* `Stop` asks the server to end the call, "otherwise, unprocessed request appeared in completion queue, then crash"
  (`rpc.cpp:61`). When that takes longer than two seconds, as for a login or an end that comes late but within
  its limit, its helper shuts the queue down under the open call (`rpc.cpp:70`): the IO thread starts an operation on it, or is
  deleted with one unfinished: `StopClean` in `MCRPCPoll`.
* The thirty-first consecutive attempt shifts into the sign bit (`rpc.cpp:238`), and the jitter takes 300 seconds to 389.7, where
  `rpc.cpp:291` says "upto 300 sec": `UpTo300` in `MCReconnect`.
* The jitter is 0.800 to 1.299 times the base, where `rpc.cpp:243` says "0.800 to 1.200 times": `JitterUpTo120` in `MCReconnect`.
* A login answered without a payload brings the payload of an earlier login with it: `Unpack` merges
  into `crep_` (`mtk.cpp:189`), which is never cleared: `ConnectHearsExactly` in `MCExchange`.
* A message with `Content-Length: 0` is complete only when a byte too many has come (`http.cpp:388`, `447-457`); the extension of
  a chunk, "comment is specified after length" (`http.cpp:470`), is looked for behind the zero that ends the line and not found; a header is
  found by the beginning of its name, so that `Host2` answers for `Host` and `Sec-WebSocket-Key1` makes a websocket (`http.cpp:285`):
  `WellFormedDecodes` in `MCHttp`.
* `HttpServer::Fin` gives gRPC back (`http.cpp:832`) before the server's thread, which may be in `grpc_pollset_work`
  (`http.cpp:881`), is joined (`mtk.cpp:409`): `ServerHeld` in `MCHttp`.
* The constructor of an implicit producer ignores that `new_block_index` may fail (`concurrentqueue.h:2338`); the
  first `enqueue`, which "only fails if memory allocation fails" (`concurrentqueue.h:897`), dereferences null instead: `NoCrash` of `ImplicitProducer`
  in `MCQueues`.
* The length of a request without a body is whatever was in memory (`http.cpp:209`), where
  `test/http/server/main.cpp:9` tests for 0: `BodyLengthKnown` in `MCHttp`.
* `LightweightSemaphore`'s timed wait leaves a `tv_nsec` of exactly a second as it is
  (`atomicops.h:528`), which the kernel refuses, and takes the refusal for a success, without an element to
  dequeue: `ReadsOwn` in `MCQueues` with `Deadlines = {2}`, a whole `Second`.

## Proofs

`SVStreamProofs` proves, for every finite set of threads, every set of replies and
every bound on closers:

* `SVStreamInvariant`: `Safety => []IInv`;
* `RefCountTheorem`, `FreedTheorem`, `OneWriteTheorem` and `InOrderTheorem`, whose properties
  `svstream` also checks;
* `NoStrandedTheorem`, `FreedFlushedTheorem` and the action property `SilentTheorem`, of
  properties that follow from the same invariant and are left to the proof;
* `ChannelTheorem`: every step of `SVStream` is a step of `ReplyChannel` or a
  stutter.

`OneWrite` is not inductive: it needs that `Send` starts a write only when nothing
is in flight. `IInv` adds `SendingInv`, the meaning of `is_sending_`: it is set
exactly while a write is in flight or after one failed, it is clear only when the
queue is empty, and until a failure what was written is what completed followed by what is in flight.
`RefCountExact` then makes the write's reference and the pending `UNREF` separate
holders, so `Send` in the window of `Step` keeps the sum; `FreedIffUnheld` follows
from the count. The proofs use `ThreadsAssumption` (finite) and
`ClosersAssumption`, library facts on cardinality and four short lemmas on sequences.

`ConnProofs` proves, for every set of connections, workers, application threads and ids, every
mixture of uses and with start and shutdown:

* `MapsLiveTheorem`: what `cmap_` and `pmap_` find and `connections_` lists is alive;
* `NewerSurvivesTheorem`: an id leaves `cmap_` only with the connection that holds it.

`MapsLive` speaks of `cmap_`, but whether `Register` keeps it depends on how often a connection
is registered: a second time, under another id, would leave the first id pointing at a
connection that `Unregister` no longer finds by it. Its `IInv` therefore follows the answer to a deferred login,
which is in one place only (`OnePlace`): in `pmap_`, with an application thread between `FinishLogin` and its
task, or in `tasks_`. While it is in any of them the connection has its `lcid_` and is not in
`cmap_` (`PendingInv`); a connection that has not logged in is referred to by nothing (`FreshInv`);
a completion with an accept's tag belongs to such a connection (`OpsInv`); the connection a worker destroys is its own and
past its accept (`WorkerInv`). `Finalize` can then erase every
reference there is, because `cid_` is the only key in `cmap_` and `connections_` has the connection
once. The proofs use `WorkerOfAssumption` (a worker's `New` has an object
to create) and `NoConnAssumption`, and sequence lemmas on what `push_back`, `erase` and a dequeue leave.

`ConnShutdownProofs` proves the rest of what the runs check of `Conn`'s safety, for every number of
connections, workers, threads and ids, each property for the applications it holds of:

* `NoDanglingTagTheorem`: a live connection has the one operation whose completion steps it next, a
  deleted one none. With `NoLateAnswer`;
* `AssertionsHoldTheorem`: the assertions of `conn.h`, `conn.cpp` and `worker.cpp`. With `NoLateAnswer`;
* `NothingLeftTheorem`: what a shutdown leaves, and how calls are finished and closed. With `NoLateAnswer` and `NoCidClose`;
* `NoUseAfterFreeTheorem`: no deleted object is used. With `NoLateAnswer` and `NoStaleUse`. It says nothing of a completion queue that is
  shut down: that `NoWorkOnShutQueue` fails is a known disagreement.

The hypotheses are about the application, and say nothing of the number of anything:

| hypothesis | with threads, an application does not | without it TLC finds violated |
|---|---|---|
| `NoLateAnswer` | both defer logins and shut the server down | all four: an answer queued before the worker is dying meets a connection the worker has finished; it is registered, and read from, while it is deleted |
| `NoCidClose` | call `mtk_cid_close` | `NothingLeft`: two close tasks finish a call twice |
| `NoStaleUse` | call `mtk_cid_close` or `mtk_cid_task` | `NoUseAfterFree`: `conn_get_stream` |

An application without threads of its own satisfies all three whatever it does, as in `conn_shutdown`; `conn_maps` has
threads and every use before a shutdown, and satisfies the first.

The argument for the operations goes worker by worker. While nobody is destroying a connection its status
says what is due to it (`Rests`): nothing, or exactly one completion; `Destroy` takes it out of that rule until it is
deleted (`OpOK`). A connection that waits for its login has nothing due, so it must be in
`connections_`, where the loop of a dying worker finds it. That the loop does not miss it is the hard part: `Destroy` erases an entry under
the index, and the next one is skipped. `ScanOK` says why this is harmless: a worker that has no waiter is
dying, and either every connection that waits is still ahead of the loop, or a `StreamCloser` of
the worker is still to complete, whose event makes it loop again from the start; `Destroy` of such a connection makes a closer. When the
queue is shut down there are neither closers nor operations, hence no connection (`EndOK`), and the
last loop of `Run` has nothing to do. `PhaseInv` orders the server's shutdown against its workers, `WaitsInv` says
that the answer to a deferred login finds the connection waiting, and `ServedInv` that what an id finds has
logged in, so that only a login's task is consumed before. For `NothingLeft`, `CallInv` adds that only a connection in `CLOSE` or past it was finished, and
once, and for `NoUseAfterFree`, `UInv` that no thread is between looking up an id and using what it found.

`RPCStreamProofs` proves `OneCallbackTheorem`: no call is called back twice, for every number of threads, streams
and calls. A message id is unused, with a thread that has enqueued its request and not yet
registered its entry, in `reqmap_`, called back, or dropped with the map on a disconnect, and in one
of these only (`EntriesDiffer`, `QueuedDiffer`): replies and timeouts take it from the map when they
call. That the map is cleared without callbacks does not matter here; `WillHear` states what a caller
can still expect.

It then proves, for every number of streams and calls and all that may happen:

* `ToldTheorem`, with any number of threads: until the connection is closed, a client that believes to be
  connected is logged in on the call in use, and the end of that call is noticed;
* `StatusTruthfulTheorem`: with them, that no call waits for an answer while the client is not connected. It
  assumes `Threads = {}` (as the run does): a thread that has enqueued its request before a disconnect registers its entry after
  `DrainQueue`, and the entry is then looked at only after the next login.

A stale answer must not count as the login of the new call. The invariant follows
the id of the login: while its entry waits, only the login's own request, on the call in use,
has that id, and an answer `ok = true` with it comes from the server that accepted the login
(`LoginInv`; `FreshInv` bounds the ids). A login waits only in `INITIALIZING` and `CONNECT`
(`LoginStatus`) and a new call is asked for only in `CONNECTING` (`Establishing`), so the call
does not change under a waiting login. For the end of a call, an open one has its start or a read under way (`Busy`),
whose failure leaves an event in `replys_`; a reply to the login that is already queued has not replaced
that event (`Answered`).

Last it proves `NoMisuseTheorem`, on the same invariant and for every number of streams and calls: the IO thread never
writes a sentinel or reads into a buffer that is gone, and until the two seconds of `Stop` are over it starts no operation on a queue that is shut down,
and is not deleted with an operation under way. They may be over at any moment. The theorem assumes `Alone`: `Threads = {}` and no events but
`"net"` and `"close"`. Each part is needed: with any other event, or with a thread and `"close"`,
TLC finds `NoMisuse` violated (see the known disagreements); with threads and `"net"` alone it holds on the instances tried and
is not proved. Operations are under way on the call in use only (`CurrentInv`), and a call is asked for when nothing is left of the one before
(`OpeningInv`): a sentinel behind a request, or behind a write, would be taken for a message. Both depend on when a client may
say `DISCONNECT`, hence on what was said before: nothing is requested between the start of a call and its
`ESTABLISHED` event (`StartInv`), the login is the first request on it (`FirstInv`) and is not refused (`NotDenied`), so
that `DISCONNECT` is said only of a call that is over (`LostInv`). A queue that is shut down then has at most a
failing write left (`ShutInv`), and `Join` deletes an IO thread without operations. Once the helper of `Stop` has cut the call
(`CutInv`) all of this holds until the first operation on its queue; a sentinel or a stale buffer is not reached
after it either.

`FreeListProofs` proves, for every set of threads and of nodes and every number of references (as
long as the flag is above what the threads can hold, `FlagAssumption`):

* `FreeListNotShared`: no node is given to two threads, nor given while it is on the list;
* `FreeListNoneLost`: every node is on the list, held, or with the thread that will put it there.

A thread that loads `freeListHead` counts its reference before it reads `freeListNext`, and its
compare-and-swap succeeds only if the node is the head again: the invariant is that while it holds
the reference nobody changes the node's `freeListNext` (`NextKept`), so that what it read is the next
node now. `SawCounted` says which references a count stands for, and `Linked` and `Acyclic` what the list is.
`OnList` is the least set with the head that is closed under `freeListNext`.

`QueueProducersProofs` proves, for every set of threads, consumers and
hash values, every first table of two slots or more and failures of allocation anywhere, with any overlap of calls:

* `NotOverlookedTheorem`: when `try_dequeue` returns false, an element that was there when the call began, and still is, lies in a
  producer where another consumer's claim, not settled yet, was in the way when the call tried it;
* `OwnProducerTheorem`: a thread always gets the same producer, nobody else's, and finds a free slot.

The first: what was there when the call began, and still is, lies ahead of the walk (producers are
only added at the head), or in the candidate it will still try, or where a claim was in the way (`Covered`); what has been enqueued
meanwhile is newer. That the call tries a producer and finds nothing without a claim in the way means that the producer is empty:
every claim ever made took an element, was taken back, or is not settled (`TallyInv`), so that without unsettled
ones what the call has read of the counters is their difference now, `headIndex` (`TryOk`). That a good claim finds an element
needs a statement on every set of consumers still to look at the tail again (`ElementInv`): there is an element for each,
or one of them has come too late. The
second is about a table that grows while others insert. A thread's id, once in a table, is found
from every newer one; a thread holds a claim on a producer by what it was given, by a slot or by being
about to insert, and the claims of two threads are disjoint (`OwnInv`). That a free slot exists is the hard half:
`ProducerHash`'s probe ends only at one, and the threads that count themselves in
`implicitProducerHashCount` do so before they decide whether to grow. `RoomInv`: for every `m` of at least three quarters of
a table's size, the threads that have a slot there or are registered for it, together with those whose
count was below `m` and who still may come, are fewer than `m`. The pigeonhole principle (`FreeSlot`)
then gives a slot, and linear probing meets every slot (`SlotsMet`). Where these need induction over numbers
(the powers of two of the table's size, the first slot of its kind) it is done as a least counterexample,
by the well-foundedness of `<`.

`ImplicitProducerProofs` proves, for every number of consumers, every size of blocks, of the first index and of
memory that `SizesAssumption` allows (powers of two, as the code's `static_assert`s ask), every size of a bulk dequeue, and
failures of allocation anywhere:

* `ImplementsFifoTheorem`: a step of the producer or of a consumer appends the newest element to the queue, removes
  the oldest ones, or leaves it as it is: the module implements `FifoQueue`;
* `ReadsOwnTheorem`: whoever took `n` indices reads the elements of those `n` enqueues;
* `LookupFindsTheorem`: a consumer finds its block in the block index it has loaded, current or not;
* `CountsAgreeTheorem`, `FreeUnusedTheorem`, `DestructorExactTheorem`: the counters, the free list and what the destructor
  gives back are exact.

They are what `queues` checks of an implicit producer, under one hypothesis, `NoWrap`: the counts stay
below half a span. They are of type `size_t`, so that with 64 bits no run gets there; with 32 bits it
takes 2^31 elements, and what happens then is checked by `queues` only, whose nine elements wrap a `Span` of 8.

A producer whose constructor found no memory is covered as well: it has nothing, its consumers find it empty, and its first
enqueue ends it (`Barren`). For all others the invariant (`IInv`) has three parts.

* Claims. A consumer compares the tail with the claims it saw, claims, and compares again with the tail of
  now; what it claimed too much it takes back by counting `dequeueOvercommit`. That no more is granted than there
  is does not follow from the counts, because between a claim and its second check others claim and take back. `ClaimInv`
  says it of every set of consumers that are still to check again: either all they want is there besides what has been granted
  (`Grants`), or one of them has claimed from a place behind all that the others may get, so that it is granted only what they
  leave. A claim, a grant, a refusal and what is taken back each keep this for every such set.
* Work. The indices taken and not yet counted out of their block are one consumer's each (`WorkInv`). An index
  is open if it is somebody's work or not taken yet (`Open`).
* Index. The blocks are numbered as they are filled. As long as an index of a block is open, the entry of the block
  is among the last ones of the block index, has its key and its block, and the block's count of emptied slots and its
  open indices make up its size (`KeyInv`, `BlockInv`); so exactly one consumer counts the last, and unlinks and releases the block
  (`OccupiedInv`, `PlacesInv`). What makes old indices and old tails usable is `FindsFrom`: an index `h` and a tail that a
  consumer loaded lead from some block `l`, not before its last one, back to its first by the entries that the newest index
  has for them (`Maps`). An entry that is used again is of a block without open indices, so nobody's work; a doubled
  index has the same entries in the same order. `l` may be the next block to come, whose entry has its key and no block yet
  (`Announced`): that is a tail loaded between `PublishEntry` and `InstallBlock`.

`HttpProofs` proves, for every number of listeners, requests and starts, and whatever the parser does with what
it reads:

* `GrpcHeldTheorem`: gRPC is initialised while the client's web thread runs or a request waits, the pollset is alive for them, and the calls of
  `grpc_init` and `grpc_shutdown` balance when the application is outside of `mtk_http_*`. The server's thread is not covered: for it
  this fails (`ServerHeld`, a known disagreement).

The count is that of a client that has started and is not yet joined plus that of a server that listens and has not
been through `Fin` (`CountInv`). `mtk_http_stop` gives the first back after its join, so the web thread has
left the pollset by then (`WebThreadInv`), and the second in `Fin`, after `alive_` is cleared and before its join
(`ServerThreadInv` says where the application is then, so that the balance is right again when it is through).

Only model-checked:

* liveness (`AllDelivered`, `EventuallyFreed`, the fairness part of
  `ImplementsChannel`, all of the leads-to properties), because the proof system does
  not reason about fairness and `ENABLED`;
* what the folds in `Wire`, `Messages` and `HttpFSM` compute, because induction over data is out of its reach, and
  with them `Exchange`, `HttpServer` and the parsing in `Http`;
* `WaitInRange`: powers of two have to be expanded value by value, and no proof of the whole statement was completed;
* what `MCQueues` says of `ExplicitProducer`, which mtk does not use today, of `ReaderWriterQueue`, and of an
  `ImplicitProducer` whose counts wrap.

## Not modelled

* In the server: `FindDeferred`, user contexts, `ScanConn`, certificates and ports; a
  spurious wakeup of `Start`; a shutdown of an exclusive server before `server_` is set
  (`server.cpp:13`).
* In the client: the wrap of the message id at 2000000000, credentials and DSNs, a reconnect
  wait chosen by `on_close`.
* Close tasks together with the part of `NothingLeft` about `Finish`
  (`MCConnShutdown` with a thread, `"close"` and two calls violates it): `ConsumeTask` does not look
  at `status_` before `Finish(true)`, so two close tasks finish a call twice; the property is
  checked without them.
* In `Exchange`: other clients that use the same cid; the old connection lingers nowhere.
  `result` and `cid` of an event are read in the cases in which the code sets them.
* In HTTP: TLS, addresses, data on an established websocket, requests from several application
  threads, and memory written past the grown buffer.
* In the queues: `enqueue_bulk`, element types that throw, the recycling of producers when
  threads exit (the build has no listener for it), and whatever relaxed memory orders allow
  beyond sequential consistency: the acquire and release pairs of the code are taken to
  be right.
* In the messages: unknown fields, arenas, reflection, and the service stubs.
* The clock (`nanosleep` with a restart), the logger, the certificates (data), and the C# bindings
  (another language and build).

## Plan

1. Done: `SVStream`, `ReplyChannel`, `Conn` from start to join and `RPCStream` with `Stop`, and
   their proofs; `Reconnect`; the messages and the exchange with queue mode; HTTP; the queues.
2. Proofs: `ImplicitProducer` with counts that wrap; that `ExplicitProducer` and `ReaderWriterQueue` implement
   `FifoQueue`; `NoMisuse` with threads.
3. An abstract specification of the client (connected, lost, waiting) which `RPCStream`
   implements without resets.
4. Two clients with one cid in `Exchange`; `enqueue_bulk`; HTTP requests from several threads.
