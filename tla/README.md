# TLA+ models of go-oam

go-oam is a Go library of operation-and-maintenance building blocks: a push
subsystem that sends records to an HTTP endpoint, keeps a history of them and
counts, a WebSocket server and client, TCP/UDP/telnet servers and clients, file
helpers with chunked uploads, and small helpers. This directory models the parts
with state and concurrency, checks the models with TLC and proves some of their
properties with TLAPS. `PROJECT.json` maps every definition to the lines of
`src/` it stands for.

## Inventory

| Part | State | Operations | What is hard about it | What makes it correct |
|---|---|---|---|---|
| ring buffer (`push/history/ringbuffer.go`, same text in `pkg/ringbuffer`) | slots, head, tail, count | Push, GetAll, GetLast, Resize, Clear | index arithmetic at the wrap and after Resize | it is a bounded history, but for the state a full Resize leaves; both readers agree |
| push history (`push/history/history.go`, `sharded.go`) | map from key, or array of shards, to ring buffer; size for new ones | Push, BatchPush, List, SetSize, SetSizeByKey, Clear | buffers are created by whoever comes first, with a size read earlier; shards are locked one by one | newest records kept in order, sizes agree, batches stay together |
| push metrics (`push/metrics`) | metrics behind a sync.Map, or maps in shards | Register, Set, Inc, Dec, IncBy, Flush, FlushAndReset, Snapshot, Clear | a pointer loaded before a Register, which replaces it; a flush among updates | no change to a name lost or reported twice while the name is registered once |
| push client (`push/client/client.go`) | channel of jobs, worker goroutines, atomics, counters | AsyncPush, BatchPush, SetWorkers, HealthCheck, Close | nil jobs stop workers through the same channel as the work; HealthCheck takes elements out and puts them back; close of the channel | no worker or job lost, Close drains, calls end |
| push timer (`push/timer/timer.go`) | flag, `sync.Once`, ticker and stop channel | Start, Stop, the loop | the flag is set before the fields it announces | no double close, no tick after a stop, goroutines end |
| push facade (`push/push.go`) | the ones above | Send, SendAsync, Close | – | – |
| TCP server and client (`pkg/socket/tcp_*.go`) | state, listener, context, semaphore, registry, two WaitGroups; the client's connection, channel and read loop | Listen, handler, Close, cancelling the context; Connect, Read, Write, Close | Close against accepts and registrations under way; the end of the stream against pieces still queued; callbacks that call Close | limit respected, stream complete, shutting down complete and finite at both ends |
| UDP server and client (`pkg/socket/udp_*.go`) | the same with a slot per packet | the same | one read buffer for all packets; lost and doubled packets | each handler has its packet, slots are given back, both ends stop |
| telnet server and client (`pkg/telnet`) | the same, and the state of the IAC parser | the same, Auth, Exec, WindowChange | sequences split across reads; calls blocked on three channels | the filter does not depend on how bytes are split, Close wakes everyone |
| WebSocket client (`ws/client/client.go`) | state, current connection, send channel, three loops per connection | Connect, Send, Close, reconnect | loops of old connections act on the current one | no orphaned connection, order kept, Close quiesces |
| WebSocket server (`ws/server/server.go`, `conn.go`) | registry and counter, topics, per-connection loops, handlers, response codec, send queue | upgrade, Subscribe, Unsubscribe, SendResp, Broadcast, Publish, Close, Shutdown | Close from four places; registry, counter, topics and the connection's own list change at different moments; the codec follows the requests while responses are queued | counter explained by the registry, lists and topics differing by one call under way, silent peers cleared, Shutdown complete, each request answered once, in its codec |
| files (`pkg/file`) | table of path locks, temporary files, chunk directories | writers, appenders, readers, copies, archives, ChunkSave, ChunkList, ChunkMerge, ReadStream | failures and crashes between two steps; locks that share a place | no torn file, no chunk lost, operations end |
| codecs, generated protocol, ssh, fetch, system state, commands, small helpers | none of their own | conversions and I/O | – | – |

Interactions: the push facade owns a history, metrics and a client and may be
driven by a timer; the WebSocket server is an `http.Handler` and its connections
call the user's handlers in goroutines of their own; the socket and telnet
clients talk to the servers beside them. Within each part goroutines meet in
channels, atomics, locks and `sync.Once`. The clients are composed with their
servers (TcpClient with TcpServer, Udp, Telnet); elsewhere parts only meet in
calls, which is why each has its own module.

The hazards, each at its line and with the properties that would notice, are in
`PROJECT.json`.

## Modules

Common conventions: an action is what one goroutine does between two points at
which another may intervene (a channel operation, an atomic, a lock, a blocking
call). Calls of an API are the elements of a constant set, each made at most
once, at any time, or are counted and bounded. Program counters are strings named
for what comes next. A constant `Setups` or `Suites` lists combinations of events
that may happen in a behaviour; the initial state chooses one. An operator
commented "Mutant of X" is X with a plausible bug; no specification uses it, it
exists to show that a property notices that bug.

**BoundedHistory / BrinkHistory / RingBuffer.** `BoundedHistory` is what the
documentation promises: a sequence of at most `cap` records that forgets the oldest.
`BrinkHistory` is what the code keeps: the same, except that from a Resize which
keeps exactly as many records as it makes room for, to the next Resize or Clear,
every Push is refused, and counted in `refused`. `RingBuffer` has the code's slots
and indices (slots from 0). All methods hold one lock, so each is one action. An
access beyond the array panics and leaves the contents alone. The refinement maps
`items` to `GetAll` and `cap` to `size`; it holds to BrinkHistory and is refuted to
BoundedHistory.

**History.** Both histories; `impl` says which. A buffer is a bounded history
with the one defect of the ring buffer (`brink`: the next Push panics). In the
map variant getBuffer is two steps (look and read the size; store or adopt); in
the sharded one every step holds the lock of a shard, and operations on all
shards take one after the other. `stuck` are shards whose lock a panic has left
locked. Existing buffers are resized to the int that SetSize is given, while the
size kept for new buffers is its conversion to int32 (`Int32`, where 2^31 is the
constant `Half`). `asked` is the argument of the last SetSize; with `log`, `low` and
`raced` it is a history variable.

**Metrics.** Both collectors; `impl` says which. A metric is a place in `heap`,
so that a caller may hold one the map no longer knows. Map variant: load, then
update under the metric's lock; Range visits names in any order. Sharded variant:
an update is atomic, operations on all go shard by shard. `metricOf` gives the
metric of a name; `changed` and `told` record per name what was changed under it
and what Flush reported of it, so that a Register which replaces a metric is seen to
take its unflushed change along. Values are integers.

**PushClient.** `asyncCh` is the channel with its `Nil` jobs; `wst` says where each
worker goroutine is, from spawn to `wg.Done`; `setter`, `n`, `i` are a SetWorkers
call that holds `mu`; `health` and `held` the HealthCheck calls; `closer` the Close
calls. One push is one step and ends in success or failure; the retry loop inside it
(`doPushWithRetry`) is not modelled and not mapped. A panic (send on the closed
channel) ends its call; the rest of the program goes on, as under `net/http`.

**PushTimer.** Ticker and stop channel are always assigned together under `mu`
and are one number here, the generation. A stopped ticker does not fire (Go
1.23 and later, which `go.mod` requires).

**TcpServer / TcpClient.** The Listen goroutine step by step from its
compare-and-swap to its three deferred functions, a state per client connection, the
context with the watcher that closes the listener, and the four steps of Close. The
user's handler may return at any moment. `early` is a history variable: a Close took
effect before Listen had set up listener and context. TcpClient EXTENDS TcpServer:
`Me` is the connection of the client, whose record `cl` has the state, the channels
`output` and `closed`, the read loop and a Close. What the handler sends is
numbered, up to `MaxPieces`, and after that it may go on with pieces that nobody
tells apart (the event "steady" of a setup, `HandlerWritesOn`), which is how a peer
keeps the connection up against a cancelled context; the kernel resets a connection
that is closed with unread data.

**Udp.** Client, network and server in one module. Datagrams on their way are
bags; the network loses and doubles them. Datagrams of the set `Empty` have no bytes: the
server reads them and goes on without a handler, which `skipped` counts. The server's
read buffer is one variable, a goroutine has the copy. As for TCP, "steady" answers go on.

**TelnetFilter / Telnet.** `Feed` is the filter chunk by chunk, `Text` the
reference that reads byte by byte. `Telnet` composes client and server over a
wire that cuts the stream anywhere; the user calls Auth, Exec, Read, Write and
WindowChange while Close may come at any moment.

**WsClient.** Connections are numbered as dialled. Each has a reader, a writer
and a health loop; the goroutine that reconnects after the loss of connection c
is also called c. `dialer` runs the steps of Connect for users and for
reconnects. `accepted` and `delivered` are history variables. Received
responses only reach a callback and are left out. The heartbeat may be off
(`heartbeat`, chosen at the start), in which case there is no health loop. The delay
before an attempt is computed as the code does, shifted first and capped afterwards,
in integers of `IntBits` bits; where half of it is not positive (`BackoffPanics`), the
process ends.

**WsServer.** An HTTP request goes through the checks of ServeHTTP, the
handshake, `ConnManager.add` (map, then counter), onConnect and the start of the
three loops. `once` is the progress of the function inside `closeOnce`. The
user's goroutines may subscribe, unsubscribe and close at any time from
onConnect on, also after the connection is closed; Subscribe and Unsubscribe are two
steps of a user, one under the connection's `subsMu` and one under the topic's lock
(`call` is the user between them). `heartbeat` is on or off, as the option says.

**WsMessages.** What travels over connections that stay: readLoop from Read to
the handler's goroutine with its early answers (413, 400, 404), middlewares,
SendResp with its bounded queue, writeLoop, Broadcast and Publish. A handler sends
up to `HandlerAnswers` responses and then returns or panics, and a panic is answered
with 500 whatever has been sent before. SendResp is two steps: marshalling, which may
refuse what the handler made (`Unfit`), and the queue, which may be full. Automatic
answers carry no request id. A message larger than `MaxMessage` is answered with 413,
one larger than `ReadLimit`, the WebSocket library's own limit, fails the read and
closes the connection. A message has the codec that made its bytes; other codecs
refuse it, but protobuf may read foreign bytes as a message without fields.

**Files.** An operation is a sequence of tasks (lock, unlock, replace through a
temporary file, copy, append, extract, read, merge, remove) that a goroutine
works off step by step; any step may fail, which leaves by the deferred Unlocks,
and a crash takes the locks and leaves the disk. `suite.place` says which locks
share a mutex of the table. What is written is made of numbered pieces, so that
half a write is visible. A merge opens the chunks one after the other in the order
of their indices and copies each piece by piece; each upload is merged into a path
of its own, `Merged(n)`. The readers of JSON, CSV and text call the caller's function
under the path's lock (`Callback`), which may write to another path.

`MC*` modules give the constants small values; `*Proofs` modules hold theorems.
`MCPush` puts ring buffer, timer, metrics and client side by side, and `MCWsServer`
WsServer and WsMessages. The components in them share no state: a behaviour is one
of one component, named by `part` or `setup`, with the variables of the others at
rest (a behaviour of `MCPush` begins with the workers of the client starting,
whichever part it shows). Nothing can be concluded from the combination that does
not hold of each component by itself. RingBuffer, PushTimer, Metrics and WsMessages
name their specifications `RingSpec`, `TimerSpec`, `MetricsSpec` and `MsgSpec`, so
that one module of proofs can extend several components: *PushProofs* is about the
ring buffer, client, timer and metrics, *WsServerProofs* about WsServer and
WsMessages.

## Runs

| Run | Shows | Bounds |
|---|---|---|
| `push` | ring buffer: IndexInv, LastIsSuffix, RefinesBrinkHistory | capacities 1, 2, 4 and the default (3 here), three values |
| | timer: NoDoubleClose, ShutIsSilent, StopEndsRunners | 3 Start, 2 Stop |
| | metrics: Balance | 2 names in 2 shards, 2 callers, 4 calls, values 0–3 with a limit of 2 |
| | client: WorkerConservation, ClosedQueueServed, JobsAccounted, CloseDrains, JobsComplete, CallsEnd | queue 1, 2 workers, 2 jobs (one in a batch), targets 0–2, one HealthCheck, one Close |
| `history` | KeptIsRecent, SizesAgree, BatchTogether | 3 keys (one is the empty one) in 2 shards, sizes 1, 2 and 9 with `Half` = 4 (9 becomes 1), default 3, 2 callers, 4 calls |
| `tcp` | NothingLeft, StreamComplete, BothStop | 2 clients, limit 1, 2 numbered pieces, 1 write, channel of 1, combinations of stopping in `MCSetups` |
| `udp` | PacketsHandled, NothingRemains, BothEndsStop | 3 datagrams, one of them empty, 3 goroutines, limit 1, channel of 1, seven combinations |
| `telnet` | StreamIntact, ExecFilters, CloseLeavesNothing, BothEndsClose | 2 clients, limit 1, scripts of up to 5 bytes, channel of 1, up to 2 calls, 4 pending bytes |
| `ws_client` | NoOrphans, InOrder, CloseQuiesces, LossIsHandled | 2 connections, 1 reconnect attempt per loss, 2 messages, channel of 1, 2 failed pings, autoReconnect and heartbeat on and off, integers of 3 bits |
| `ws_server` | connections: CountAgrees, SubscriptionsAgree, LossIsCleared, ShutdownSweeps | two clients that nobody subscribes, or one client and two users; limit 1, 1 topic, 2 failed pings, heartbeat on and off |
| | messages: AnsweredOnce, FramesMatch | a peer with a message too large for the server and one too large for the library, or a peer with a message in another codec and one in foreign bytes; 1 middleware, 1 response per handler and what a panic adds, queue of 1, 1 broadcast |
| `files` | NoTornFiles, ChunksKept, OperationsEnd | 2 goroutines, 3 operations, 1 crash, chunks 2 and 10, eight suites of operations |

Four runs end in a violation, each of a statement that the repository makes and the
code does not keep:

| Run | Statement | What the code does |
|---|---|---|
| `ring_full` | RefinesBoundedHistory: a Push on a full buffer overwrites the oldest record (`pkg/README.md:293`, `ringbuffer.go:130`) | after a Resize that fills the new array the next Push panics and stores nothing |
| `timer_restart` | EveryStopEnds: the callback goroutine exits after the current operation (`timer.go:139`) | `stopOnce` is never reset; after Start, Stop, Start the second Stop ends nothing |
| `files_merge` | MergeIsComplete: a failed merge keeps the chunks and leaves no incomplete output (`upload.go:348`, `pkg/README.md:254`) | a removal that fails half-way leaves some chunks; the retry merges those and succeeds |
| `files_nested` | EveryOperationEnds: collisions only make unrelated paths wait briefly (`internal.go:17`, `pkg/README.md:207`) | a goroutine takes a lock whose place it already holds, and waits for itself |

### Further statements that are refuted

The modules define, next to the properties that hold, what else the repository says
and the code does not do. No listed run checks these; each is refuted in seconds to a
few minutes by the configuration in the last column. "Swap" means: put the definition
in the place of the properties of the named configuration.

| Definition | Says | What the code does | Reproduce |
|---|---|---|---|
| OneCallback | one callback goroutine at a time (`timer.go:24`) | one that is in its callback during Stop and Start finds the new ticker (`timer.go:113`) and runs on beside the new one | swap in `MCTimerRestart` |
| NothingOverwritten | Register does not overwrite (`metrics.go:161`, `sharded.go:171`; `push/README.md:162` and 181 describe the code) | both store a new metric, and what was counted is not in the value nor flushed | swap in `MCPush` |
| FlushHoldsShards | Flush holds all shard locks (`metrics.go:40`) | one at a time (`sharded.go:354`) | swap in `MCPush` |
| AllResized | SetSize affects all buffers and those made later (`history.go:128`, 156) | a buffer made from a size read before keeps it (`history.go:82`); a size beyond int32 is truncated for later ones (`history.go:141`) | `MCHistorySizes`, `MCHistoryWide` |
| CancelCloses (TCP, UDP) | cancelling the context closes the connection (`tcp_client.go:108`, `pkg/README.md:523`, `udp_client.go:34`) | the ReadTimeout of the next read replaces the deadline the context has set (`tcp_client.go:298`, `udp_client.go:193`); a peer that keeps sending keeps it up | `MCTcpCancel`, `MCUdpCancel` |
| EveryCloseReturns | Close waits for the handlers to exit (`tcp_server.go:251`) | before Listen has set up, Close waits for a Listen that goes on to serve, or has failed to bind | `MCTcpEarly` |
| RejectsAtLimit | MaxConns is the number of concurrent connections (`tcp_server.go:30`) | slots are never given back (`tcp_server.go:164`) | `MCTcpLimit` |
| EachIsServed | one handler call per datagram (`udp_server.go:20`, `pkg/README.md:593`) | none for an empty one (`udp_server.go:149`) | `MCUdpEmpty` |
| ReadDrains | Read drains `output` before the end (telnet `client.go:338`, 341) | it asks for the state first (`client.go:343`) | `MCTelnetDrain` |
| EveryLossIsHandled | reconnects stop at the maximum, in StateFailed (`ws/README.md:320`) | the shift before the cap is negative at the 36th attempt, `rand.Int63n` panics, and the process ends (`client.go:357`) | `MCWsClientBackoff` |
| ClosedIsDisconnected | StateDisconnected after Close (`ws/README.md:284`) | a Connect that is under way stores its state afterwards (`client.go:138`, 154) | `MCWsClientClosed` |
| ClosedIsCleared | closing clears all subscriptions (`ws/README.md:161`) | Subscribe does not ask whether the connection is closed (`conn.go:105`) | swap in `MCWsServer` |
| ShutdownLeavesNone | Shutdown refuses new connections and closes all (`ws/README.md:17`, `server.go:273`) | an upgrade past the check registers after the snapshot | swap in `MCWsServer` |
| LimitHolds | WithServerMaxConns bounds the connections (`ws/README.md:304`) | the check is far from the registration (`server.go:217`, 78) | swap in `MCWsServer` |
| FramesFit | JSON in text frames, the others in binary ones (`ws/README.md:123`) | encoded by one codec, framed by a later one (`conn.go:195`, 295) | swap in `MCWsServer` |
| AnswersCarryId | the response has the request's id (`ws/README.md:338`, `types/message.go:22`) | 404 and 500 have none (`conn.go:264`, 276) | swap in `MCWsServer` |
| LargeIsAnswered | too large is 413, and reading goes on (`ws/README.md:174`) | beyond the library's limit the connection is closed (`conn.go:221`) | swap in `MCWsServer` |

What the properties say, beyond their comments in the modules:

- *NothingLeft* is the server's type invariant, its limit, what a returned Listen
  leaves (nothing) and what a returned Close guarantees; *BothStop* the matching
  liveness, of server and client. *JobsAccounted* joins the type invariant, one
  place per job, exact statistics and what BatchPush hands over; *CallsEnd* that
  Close returns and SetWorkers gives its lock back. *NoOrphans*, *CountAgrees*,
  *Balance*, *KeptIsRecent*, *StreamIntact* and *PacketsHandled* include the type
  invariants of their modules.
- *NothingRemains* and *CloseLeavesNothing* say what a returned Listen and a
  returned Close of the UDP and the telnet server leave behind; *BothEndsStop* and
  *BothEndsClose* are the matching liveness, of client and server.
- *ChunksKept* says that a saved chunk is on the disk or in a merged file, and that
  the chunks of a merged file stand in the order of their indices; that a merged file
  has all of them is MergeIsComplete, which the run `files_merge` refutes.
- The passing properties name the exceptions that the tables above are about:
  StopEndsRunners speaks of the first Stop that comes to `stopOnce` (and of a
  current stop channel that is closed already) where EveryStopEnds speaks of each,
  SizesAgree says which buffers have the truncated size, BothStop and BothEndsStop
  except a cancelled context under a steady peer, LossIsHandled speaks of an attempt
  limit for which no delay overflows, NothingLeft except an `early` Close, and
  OperationsEnd except `Stuck` operations.

Why the bounds are enough to be interesting: capacity 1 makes every index coincide,
4 admits a proper wrap, and every pair (shrink, grow) occurs; a queue of 1 with two
jobs is empty and full, and 2 workers resized to 0 with a full queue make SetWorkers
block under its lock; three Starts and two Stops let a restart overlap an earlier
Stop that is still closing, with one more Start after the second Stop; four calls on
two names include a Register between a load and its update, and a Flush among them;
a channel of 1 with two pieces blocks the read loops of the clients; a limit of 1
with two clients, or with a doubled packet, reaches rejection; two WebSocket
connections are an old and a new one, which is what the stale loops need; two server
connections with a limit of one reach the check-then-act of ServeHTTP, and two users
of one connection meet in its list and its topic; one peer with a request in each
codec and a broadcast change the codec between encoding and framing, and a queue of
1 refuses; chunks 2 and 10 are listed by a directory in the wrong order; two
goroutines suffice for every lock to be contended and for two nested locks to be
taken in opposite orders. PingLimit is 2 and not 3, still more than one failure in a
row. Widths are scaled down: 2^31 is `Half` = 4 in the histories, and the int64 of
the backoff has 3 bits, so that a size or an attempt beyond them is within reach.

Callers of `history` are interchangeable, and that run uses the symmetry; no other
run does, and none that checks liveness. Deadlock checking is off where the modelled
calls can all have been made and nothing is left to do.

### Fairness

Weak fairness is assumed only for goroutines that have been started and are not
blocked, which Go's scheduler gives. Not assumed: that the user calls anything,
that a handler returns by itself, that a dial succeeds, that a request or a packet
arrives, that `Accept` returns an error of its own, that Read notices a vanished
peer, or that a write fails. Assumed of the environment: an HTTP push ends (it has
a timeout); a blocked Read returns once its context is cancelled or its connection
closed, or a deadline that is set has come; a ping on a dead link fails (it has a
timeout). Handlers of the servers end once woken by their closed connection or
cancelled context: a handler that ignores both would keep Listen waiting for ever,
and no property excludes that.

## Observed while modelling

Each of these is a behaviour of the code that a model reaches. The properties either
state it precisely, name it as their exception, or are refuted by it (see Runs).

*Push.*
- Ring buffer: when the records kept by Resize exactly fill the new array, `tail` is
  one past the last slot and the next Push panics; every Resize of a full buffer to
  a smaller size does this. Reading still works, which hides it. IndexInv states the
  one exception, RefinesBrinkHistory what it means for the user. In a ShardedHistory
  the panic leaves the shard locked (`sharded.go:107`).
- History: keys of one shard share a buffer; a batch is atomic per shard only;
  BatchPush stores records with the empty key, Push drops them; a SetSize that
  overlaps another one or the creation of a buffer leaves stale sizes, and one beyond
  int32 two different sizes; sizes of 0 or less mean the default, where
  `push.NewHistory` says "disable".
- Metrics: Register replaces a metric that exists, with its unflushed change; Flush
  of the sharded collector goes shard by shard, although a comment says all locks
  are held; IncBy with a negative argument and Set are not held to the minimum.
- Client: a HealthCheck may hold a job while Close finds the queue empty and
  returns; its put-back then panics. A second Close returns at once while the first
  still waits.
- Timer: a Stop between Start's compare-and-swap and its set-up consumes
  `stopOnce` on nil fields; the ticker made afterwards cannot be stopped. Nothing
  resets `stopOnce`, so only the first Stop of a timer's life ends anything.

*Sockets and telnet.*
- TCP and telnet servers never give semaphore slots back: MaxConns limits the
  connections ever served. The UDP server gives them back.
- A Close of a server before Listen has set up (`early`) either returns with the
  server starting afterwards or waits for ever.
- In the clients, a ReadTimeout re-armed each turn replaces the deadline that the
  cancelled context has set, and a read loop blocked on a full `output` does not
  see the context; an OnError callback that calls Close waits for itself; Close
  before Connect has no effect; a refusal reported by ICMP closes the UDP client.
- Telnet: Read of a closed client returns its error before draining the channel;
  each Exec has a parser of its own, so a sequence cut between two Execs is not
  recognised; an IAC IAC SE inside a subnegotiation ends it early.

*WebSocket.*
- A handler that outlives its connection may subscribe it again, or be between the
  two halves of Subscribe while Close clears up, and it stays in the topic. maxConns
  is checked long before the connection is counted. An upgrade under way can
  register after Shutdown's snapshot.
- A response is encoded when it is sent and framed when it is written; a request
  in another codec in between gives it the wrong kind of frame. A peer that only
  writes JSON gets broadcasts queued before its first request as the configured codec
  made them. Automatic answers (413, 400, 404, 500) carry no request ID, a response
  that cannot be marshalled is dropped with a log entry, and a handler that has
  answered and panics is answered twice.
- A second Connect of the client makes the old reader close the new connection
  (NoOrphans and InOrder assume one Connect call, as in the README of `ws`); the
  client's state may end as Connected or Failed after Close.

*Files.*
- A temporary file that a crash has left in a chunk directory makes ChunkList and
  ChunkMerge fail for ever. A crash or failure while the chunks of a merged file
  are being removed, and a retry, make a second, incomplete file without an error
  (`files_merge`).
- CopyDir takes nested path locks whose places in the table may coincide: one
  CopyDir can wait for itself, two for each other, and so can a reader whose callback
  writes to a path with the same place (`Stuck`, `files_nested`).
- Unpacking writes its targets without their path locks; appends can be torn by a
  crash; CSVWrite in overwrite mode does not create the directory; an `end` of 0 in
  ReadStream means the end of the file.

## Proofs

All theorems hold for every value of the constants allowed by the ASSUMEs
of the component's module: sizes are natural numbers, sets of workers or
connections are finite, a nil value is not one of the values it stands beside.
Each safety theorem rests on an inductive invariant, and each property it states is
checked by TLC on the instance of the component's run as well.

*PushProofs, ring buffer.* `RingInv == RingTypeOK /\ IndexInv` is inductive.
IndexInv is the relation between head, tail and count, in two forms (not wrapped,
wrapped), with tail = size allowed only when head = 0. The central lemma
(`Contents`) gives `GetAll[k]` as the slot k-1 after head, around the end; from it
Push on a buffer with room appends, Push on a full one replaces the oldest, and
Resize keeps the newest; on a buffer whose tail is past the end Push is refused, and
IndexInv ties that to the state a Resize has left. `Refinement` (RingSpec =>
RefinesBrinkHistory) follows. `LastAgrees` needs nothing more: GetLast counts back
from tail, and IndexInv says how far tail is from head.

*HistoryProofs.* `Base` = ScalarInv, MemInv (a buffer, the log of what was pushed
to it and its smallest capacity fit together; only the map has missing buffers,
and nothing was pushed to one of those) and CallInv (the shape of the calls; whoever
has come to use a buffer finds one there, which is what LoadOrStore gives). One
lemma per effect (PushTo, ResizeTo, ClearAt, storing a new buffer) shows that it
keeps MemInv; they rest on lemmas about suffixes. `KeptHolds` follows. `SizesHold`
adds SizeInv, which holds as long as nothing has raced: outside of SetSize every
buffer, and every buffer about to be stored, has a good capacity (`GoodCap`: that of
`asked`, or in the map variant beyond `Half` that of its truncation to int32); during one
everybody else is idle and the buffers visited so far have it. `BatchesHold` adds RecInv:
no two calls carry the same record, and a record is not in a buffer that its call
has not reached, so a group is always new where it is appended.

*PushProofs, client.* `TypeCorrect`; then `PoolInv` = TypeOK, LoopInv (SetWorkers'
loop variable within its range), WorkerConservation and ClosedQueueServed.
ClosedQueueServed needs the conservation law at the moment of `close`: at least one
configured worker more than nil jobs, which is why the two are proved together.
`CloseWaitsForJobs` adds `DrainInv` = WaitInv (a waiting Close has closed the
channel), QuietInv (once Close has returned the channel is empty and no worker is
busy) and PlaceInv (an unfinished job is in the channel, with a worker or with a
HealthCheck). `PayloadsAccounted` adds `AccountInv` = OnceInv (no job twice in the
channel, with two workers or with two HealthChecks, or in two of these places, and
only unfinished ones in any), the exact statistics and BatchHandsOver; PlaceInv is
"at least one place", OnceInv "at most one". Counting uses the cardinality theorems
of FiniteSetTheorems, with lemmas on what a send and a receive do to the set of nil
positions.

*PushProofs, timer.* `TimerTypes`: no goroutine or Stop names a generation that no
Start has made. OnceInv: at most one Stop is between `stopOnce` and the end of
its cleaning, and its target is not yet closed. SilentInv: closed generations do
not tick. `ClosedAtMostOnce` and `NoTickAfterStop` follow.

*PushProofs, metrics.* For both collectors, any shards and any values of the arguments.
`Inv` = MemInv and CallInv (a caller that has loaded a pointer names a metric of the
heap, which Register only extends). MemInv says of each metric of the heap that the two
equations of Balance hold for what its name was changed by and was told, as long as
it is the only metric its name has had (`Sole(o) => Whole(o)`). One lemma per effect
(Update, Mark, ResetTo, Register) shows that it keeps MemInv, whatever set of metrics
it is applied to; a Register of a name that has a metric ends Sole for both.
`BalanceHolds` follows.

*TcpProofs.* The server: `ServerInv` = TypeOK, WaitGroupInv (listenWG is 1 from Add
to the return of Listen), RegistryInv (the registry holds exactly the running
handlers), SocketInv (a bound socket is reachable through `listener`, and closed
once Listen waits for its handlers), StateInv, SlotsInv (taken slots bound the
handlers), RawInv and CloserInv (a Close that was not early meets a Listen that
has set up, and returns after it). `ServerLeavesNothing` follows, and
`ServedServerLeavesNothing` because each step of the composition is a step of the
server or leaves it alone. The client: `ClientInv` = PiecesInv (what has left the
socket was returned, waits in `output`, or is the one piece in the reader's hand),
ChannelsInv (who closes which channel, and when), EofInv (after an end of file
the server sends no more and nothing is missing) and ReportInv (OnError is called
on the way out unless Close or the context ended the loop). `ClientStreamComplete`
needs EofInv because Read selects between two channels: it may only see `closed`
first when `output` is empty.

*WsClientProofs.* For any number of connections, attempts, messages and callers of
Send and Close. `ClientInv` = NumberInv (connections are numbered as dialled),
MailInv (sendCh is the end of what was accepted), TokenInv (with one Connect call
there is one token: a goroutine that dials, or a reader that will start one),
HandInv (while the new connection is not installed its writer is off, and live
connections are the current one or in hand) and OrderInv (delivered messages
embed in the accepted ones before whatever the writer of a live connection has in
hand). `NoneOrphaned` and `DeliveredInOrder` follow; the order of deliveries needs
the token, since two live connections could overtake each other.

*WsServerProofs.* `CountInv` = TypeOK, KnownInv (nobody closes a connection before
the registry has it) and RegistryInv (the map holds the known connections that
have not been removed; the counter is those counted less those uncounted).
`CounterIsExact` follows by counting disjoint sets. `SubsInv` = TypeOK, LockInv (at
most one user is between the two halves of a Subscribe or Unsubscribe of a connection,
and what he is about to tell the topic is what the list says) and SubscriptionsAgree;
it is inductive, and `SubscriptionsConsistent` follows. LockInv is needed because two
users between their halves could tell the topic in the other order.

*WsServerProofs, messages.* `AnswerInv` = MsgTypes, Owners (a readLoop and the
goroutines it starts are at a request of their own connection, a broadcast is at
its notice), Chains (a handler runs inside the middlewares that have been entered,
in order) and PlaceInv: a request is in exactly one place (not sent yet, with its
readLoop, with one goroutine, answered by the server itself, refused by a full queue,
or with a handler that has returned), and the server's own answer to it is at most one
in queue, writer and wire together; a queue stays within its bound.
`RequestsAnsweredOnce` follows. `FrameInv` = AnswerInv and CodecInv: each response has
the codec that was the connection's at its `turn`, the number of requests decoded
before it was encoded, and each frame is of the kind of the codec at its own turn.
`FramesMatchCodecs` follows: bytes and frame disagree only if a request in another
codec was decoded between the two turns.

*UdpProofs.* `UdpInv` = ServerType, NetworkType, ClientType, PacketInv, SlotInv and
ListenInv. PacketInv counts: of each datagram, the copies the server has taken from
its socket are the goroutines that have it, those dropped at the limit, those
skipped because they were empty and the one in the loop's hand; so a goroutine
cannot see the next packet in the shared read buffer, which is `PacketsAreHandled`.
SlotInv: the taken slots and the counter are the number of goroutines under way,
which uses the cardinality theorems. ListenInv = RoomInv, WaitGroupInv, SocketInv,
StateInv and CloserInv (a Close that was not early meets a Listen that has set up,
and returns after it); `StoppedServerLeavesNothing` follows.

*TelnetProofs.* `ServerInv` is the server's part as for TCP (types, registry, wait
group, socket, state, CloserInv), and `ClosedServerLeavesNothing` rests on it and
the types of the callers alone. `StreamInv` is about the bytes: as long as none
has been dropped, what the user has taken, the pieces in the channel,
the chunk in the reader's hand, the wire and the rest of the script are the text
cut in order (`CutInto`), and before the handler or the notice there are none. The
lemmas say how such a cut changes when the beginning of the last piece becomes a
piece of its own and when the first piece is taken. `StreamStaysIntact` follows.

*FilesProofs.* `Base` = the types, WorkInv (what an operation still has to do fits
to its kind and to where it is) and Orderly (a lock that a remaining task needs is
held or still to be taken before it, and released once; operations have different
numbers). `DiskInv` adds NoTornFiles, LogInv (each piece of a log is whole, torn, or
being written by the one appender who has the lock), TempInv (a temporary file and
what is still to copy into it are together the source, or a beginning of a log) and
AppendInv: `FilesNeverTorn`. `UploadInv` is for `NoChunkLost`: a chunk on the disk
is the one saved last; chunks are made by one operation each, those of operations to
come by none; PutInv (the chunk about to be renamed); CopyInv (of each chunk a merge
has listed, the pieces are copied, in order, or still to be copied); MergeInv (a
merged path does not exist until its rename, and while chunks are being removed the
merged file has all that remain). Both need that the holder of the upload lock
excludes every other operation on the upload (`UploadLock`), which follows from
Orderly and from locks having one holder.

Only model-checked: all liveness (TLAPS does not handle fairness and ENABLED), and
ExecFilters of telnet, which compares a filter with a fold over the bytes and
would need induction over sequences. Every other property of the passing runs is the
conclusion of a theorem.

## Plan

1. The retry loop of the push client with its backoff as a function with 64-bit
   shifts, then the facade's Send over history, metrics and client.
2. Abstract specifications worth stating besides BoundedHistory: a connection's
   outgoing queue (a subsequence in order), and a counter with flush, which
   Metrics would implement.

## Not modelled

The push facade (it forwards to parts that are modelled), serialisation libraries
and generated code (`ws/codec` beyond who accepts whose bytes, `ws/protocol`), ssh,
fetch, system state and commands (input and output of the operating system or of
libraries, no protocol of their own), directory listings, small pure helpers,
examples.
