# A TLA+ model of DB_server

DB_server is a single-process HTTP server in C: an accept loop, a pool of epoll
"operator" threads for API requests, a pool of blocking threads for uploads, and a
request layer on top of the external libraries DB_http (parser), DB_app (the
application), an SPSC ring and emlog. This directory models it from start-up to
shutdown: the threads and what they share, the life of a connection on its slot, and
the way the server is configured, started and stopped. TLC checks the models on small
instances; TLAPS proves the safety properties and the refinements for every instance.

Paths below are relative to `src/app/src/core/` unless they start with `src/`.

## 1. Inventory

| component | state | operations | interacts with | model |
|---|---|---|---|---|
| operator (`worker/operator/operator.c`, `reactor.c`, `utils/epoller.c`) | status, ring, eventfd, timer period, `queued_clients`, `active_clients`, client slots, epoll set | thread start, reactor loop, wakeup / timer / client / hangup handlers, add and remove a client, status and timer refresh, request-shutdown, shutdown | listener thread (ring, eventfd, counters), boot thread (status, eventfd, join) | `Operator` |
| worker pool (`worker/worker.c`) | worker status, array of operators, `threads_started` | `worker_run` with its start-up gate, `worker_dispatch_to_operator`, `_least_loaded_operator`, `worker_destroy`, sizing | all operators | `WorkerPool`, `Sizing` |
| server core (`core.c`) | none of its own | `server_init`, `server_run`, drain, sizing | starts and joins everything | `WorkerPool`, `Server`, `Sizing` |
| listener (`listener/listener.c`) | listening sockets, socket paths, status, shutdown eventfd | bind or adopt, register, install handlers, accept API connections and uploads, stop, EMFILE back-off | `worker_dispatch_to_operator`, `upload_worker_dispatch` | `Server`, `WorkerPool`, `UploadPool` |
| upload pool (`worker/upload_worker.c`) | circular buffer, count, running flag, mutex and condition variable, threads | init, dispatch, worker loop, shutdown | listener, boot thread, client and upload pump | `UploadPool` |
| client (`.../client/client.c`) | fd, buffer, parser, keep-alive policy | handle, adopt, release, shutdown, reset | router, response writer, pumps | `Client` |
| response writer (`response_writer.c`) | parked response, offset, length | send, park on EPOLLOUT, resume, error response | reactor, client | `ResponseWriter` |
| upload pump (`upload_pump.c`) | ticket or data handle, body progress, deadlines | gate, pump a body, refuse and drain, commit, abort | DB_app, socket | `UploadPump` |
| folder zip pump (`folder_zip_pump.c`) | open blob, offsets, archive handle | headers, entries, central directory, failure exits | DB_app, socket | `FolderZipPump` |
| router and handlers | none | match a route, call DB_app, map a status | DB_http, DB_app | in `Client` |
| socket activation (`listener/sd_activation.c`) | none after start-up | parse the environment, take the fds | `server_init` | in `Server`, partly |
| configuration validation (`config_validate.c`) | none | check every setting | `server_init` | `Sizing` |
| helpers (sockets, affinity, time) | none | syscall wrappers | all | where they matter |

What is hard:

* Three kinds of thread share each operator without a lock: the **listener** pushes an
  fd on the ring, then counts it, then signals; the **operator** pops, then un-counts,
  then looks at its own status; the **boot thread** stores SHUTDOWN and writes the
  eventfd. Every gap between two of those accesses is a place where another thread runs.
* A batch of epoll events outlives the clients it speaks of.
* Start-up may fail half-way while connections already arrive (the listener runs before
  the operators exist), and teardown may start in any of these states.
* A slot has one thread, but between any two of its system calls the peer sends part of
  a request, pipelines the next one, falls silent or closes, and the kernel takes part of
  a response or nothing of it. The request buffer is also the response buffer and the
  buffer a refused body is drained into.
* Which sockets exist decides which pools exist, and binding may succeed in part.

`PROJECT.json` lists the hazards line by line. What makes each component correct:

* operator: no wakeup is lost; `queued_clients` and `active_clients` mean what the
  balancer reads into them; a client is never added without a slot; the short
  housekeeping tick runs while there are clients; a requested shutdown is honoured;
* worker pool: a connection always has exactly one owner; the balancer never computes a
  wrapped load; nothing is destroyed before the thread that uses it has returned;
* upload pool: a bounded FIFO; no sleeping worker while there is work; every
  connection is served or closed; shutdown terminates and leaves nothing behind;
* client and response writer: the peer receives whole answers, one per request and in
  order; parking and resuming lose nothing and end; a slot is clean for its next
  connection;
* pumps: an upload ticket is committed with the whole body or aborted, exactly once; an
  archive has the length its header announced; handles and blobs are given back;
* listener and server core: an upload socket is served exactly if there is a pool behind
  it; sockets and socket files are given back, systemd's are not touched; the stop signal
  is heard; the sizes computed from the environment are sizes the rest can live with.

## 2. Modules

| module | models | role |
|---|---|---|
| `Operator` | `operator.c`, `reactor.c`, the slots of `client.c` | one operator thread; EXTENDed by the pool |
| `WorkerPool` | the API half of `listener.c`, `worker.c`, `server_run` of `core.c` | composes listener, operators and boot thread; properties |
| `ConnectionHandoff` | (abstract) | what the API side promises a connection: one operator, in order of dispatch, over once |
| `UploadPool` | `upload_worker.c`, `_handle_upload_listen_event`, the pool's calls in `core.c` | queue, workers; properties |
| `UploadQueue` | (abstract) | what the upload pool promises: a bounded FIFO |
| `Server` | the rest of `listener.c`, `server_init`, `server_run`, `main.c`, `sd_activation.c` | composes start-up and the listener's life with `UploadPool`; properties |
| `Sizing` | `config_validate.c`, sizing in `worker.c` and `core.c` | stateless operators |
| `ResponseWriter` | `response_writer.c` | sending, parking, resuming |
| `FolderZipPump` | `folder_zip_pump.c` | EXTENDS `ResponseWriter` |
| `UploadPump` | `upload_pump.c` | EXTENDS `FolderZipPump`; properties |
| `Client` | `client.c`, router and handlers, the event handler of `operator.c`, `_drive_upload` | EXTENDS `UploadPump`: one slot over its connections; properties |
| `HttpExchange` | (abstract) | what a connection promises its peer |
| `MCWorkerPool`, `MCUploadPool`, `MCServer`, `MCClient` | – | instances for TLC |
| `WorkerPoolProofs`, `WorkerPoolHandoffProofs`, `WorkerPoolSlotProofs`, `WorkerPoolLifecycleProofs` | – | proofs about `WorkerPool` |
| `UploadPoolProofs`, `ServerProofs`, `SizingProofs`, `ClientProofs` | – | proofs about the others |

There are three state machines: `WorkerPool` (API side, many connections, what happens
between threads), `Server` with `UploadPool` (upload side and the whole of start-up and
stop), and `Client` (one slot, what happens within a thread). They meet at narrow
points. For `WorkerPool` and `UploadPool` what a client's bytes do is a choice ("keep or
close", "the upload ends"); `Client` refines that choice for a slot of either kind of
thread (`managed`: an operator's or an upload worker's).

### Operator and WorkerPool

A pc per thread (`opc[o]`, `lpc`, `mpc`) names the point between two accesses to
shared state; an action is the code from one such point to the next. Code that
touches only thread-private state between two points is folded into one action.
Correspondence of the state:

* `status`, `queued`, `active`, `slot`, `period` are the fields of `operator_t`;
  `wakeup` is the count of the `EFD_SEMAPHORE` eventfd (a read takes one);
  `ring` is the external SPSC ring, a FIFO of bounded capacity; `ringLive` says
  that `operator_shutdown` has not destroyed ring and eventfd yet.
* `queued` and `active` are unsigned: `Inc` and `Sub` wrap at `UINT_MAX`. TLC uses
  `UINT_MAX = 15`; `OperatorAssumption` states what a width must satisfy for the
  results to carry over (`UINT_MAX > MaxClients + RingCapacity + 1`), which
  2^32-1 does for any size the start-up code accepts.
* `batch` is what one `epoll_wait` returned and `reactor_run` has not dispatched. It
  is a set, because the kernel chooses the order. An event carries the slot (the
  `fd_ctx_t*` the code sees) and the fd it was reported for (which the code does not
  see); the difference is how a stale event is recognised.
* `popped` and `lfd` are the local `client_fd`s; `leaked` collects fds that were in
  such a local when the function returned without closing or storing them;
  `closed` those the server closed. `Holders(c)` enumerates the places a connection
  can be.
* `crashed` stands for the SIGSEGV a NULL handler or a freed pointer leads to: no
  thread takes a step afterwards.
* `mpc`, `opIdx`, `created`, `started`, `runFailed`, `freed` are the boot thread in
  `worker_run`, its `pthread_create` failure path, `worker_destroy` and the rest of
  `server_run`.

`Handoff == INSTANCE ConnectionHandoff WITH offered <- Offered, ...` forgets the threads: an fd the
listener holds is still on offer, one the wakeup handler has popped is still the first in its
operator's line, and an operator whose ring is destroyed has retired. A connection that is
dropped open (`pool_leak`) counts as over there like one that is closed, so the
statement holds of the code as it is; what it excludes is that an fd moves to another operator,
overtakes one that was dispatched before it, is served beyond the last slot or comes back
after its end.

Data is abstracted: a connection is a name (one per connection, so a reused fd number
is told apart); what a client's bytes do to it is "keep" or "close"; whether a client has been idle
too long, whether the drain grace period is over, whether a syscall fails, is a
nondeterministic choice. `BlindLimit` is `max_clients / 10`, made a
constant so that both branches of the balancer are reached with small slot counts.

### UploadPool and UploadQueue

The lock is only held over straight-line code, so a critical section is one action;
`pthread_cond_wait` splits into "wait" and "take", a signal moves one waiter, a
broadcast all of them and a waiter may wake spuriously at any time. `queue`, `qHead`,
`qTail`, `qCount` are the circular buffer as it is in the code: its
indices wrap at the array size, the depth limit is a separate, smaller number.
`Abstract == INSTANCE UploadQueue WITH q <- Queued, ...` reads the buffer as a
sequence; every step of the pool is a step of the queue or leaves it alone.

### Server

`bpc` is where the boot thread is in `server_init` and `server_run`, with one value per
point where start-up may fail or another thread may act. `active` is
`_listener.sockets_fds` with `socket_is_upload` (the order of the array does not matter),
`open` the listening sockets the process holds, `mine` is `_listener.unix_paths`,
`files` says what is at the two socket paths and whose it is (ours, systemd's, left by a
killed server). `args` stands for `argv` and `DB_SERVER_UPLOAD`, or the activation
environment; every combination is an initial state, refused ones included. `status` is
`_listener.status`; `stop` combines the installed handlers and the eventfd. `StopListener`
is `_stop_listener`, which the failure paths and the listener's normal end share.

`_handle_shutdown_event` sets the status, but `listener_run` looks at it after the
batch: `late` holds the upload sockets whose events are dispatched after the stop event of
the same `epoll_wait`. A connection accepted then still goes to the pool.

A TCP specification is bound on each address `getaddrinfo` returns, skipping those that
fail, until the array is full. `_init_listening_sockets` succeeds if there is any socket by then, so an
upload port that could be bound nowhere goes unnoticed: uploads then run on the
operators. A unix path is stored without looking at the size of the arrays:
`BindUploadOverruns` is the step that writes behind their end, after a TCP API port bound on
as many addresses as there are places (four). The comment at `config_core.h:57` counts on two
addresses (ipv4 and ipv6), and the default host `127.0.0.1` has one; a name in
`DB_SERVER_BIND` may have more. `ServerTypeOK` says that this case is the only one, and `upload_pool` reaches it. `Bindable` keeps this; `IsolationMatches` says that core.c follows the sockets
and not the arguments, so the server is consistent either way.

`Server` leaves the API connections out (`WorkerPool` has them); `RunsThePool` says that
what it does to the upload pool is what `UploadPool` allows.

### Sizing

`ConfigValid` is what `config_validate.c` accepts, `OperatorCount`, `MaxClientsOf` ... are
what `worker.c` and `core.c` compute later from the same environment, `Sized` is
`server_init`'s own test. There is no state and so no run: the theorems of `SizingProofs` are about all
environments and CPU counts at once (the run `upload_pool` evaluates the one ASSUME, that
the set of ring capacities is what the code's bit test accepts).

### Client, ResponseWriter, UploadPump, FolderZipPump

`pc` is where the slot's thread is, with a value for each system call and each return to
epoll or `poll`. The peer's actions are `PeerSends` and `PeerCloses`; `script` is what it
has to send on this connection, `stream` the same in units, `arrived` and `taken` how many
of them are in the socket and read. A unit of a request is named by request and position,
a unit of an answer also by the answer's length and its Connection header, so that the
models can tell whose bytes are where without spelling them out.

* `buf`, `bufIdx`, `draining`, `sendOff`, `sendLen`, `policy` are fields of `client_t`;
  `parsed` is what the parser has been given since it was cleared. The parser itself is
  external: `Parse` is its status as a function of those units (pipelined bytes are an
  error, a body over the limit is a 413, headers complete and claimed by the gate is a
  stream).
* `armed` is the interest set of the fd. The event handler looks at `draining` and not at
  the event, as the code does.
* `wire` is what the kernel has accepted, `conn` alternates with each connection so that a
  unit left over from the one before is recognised.
* `ticket` is the state of DB_app's ticket or data handle, `sink` what it was given;
  `zip` the folder pump's locals, with lengths for contents.

`Exchange == INSTANCE HttpExchange WITH open <- pc # "idle", out <- wire` forgets
everything but the requests acted on and the bytes sent.

## 3. Runs

| run | instance | states | what it shows |
|---|---|---|---|
| `pool_operators` | 2 operators, 1 slot, ring of 1, 2 connections | 486 k | `TypeOK`; `FdHeldOnce`: in any interleaving of dispatch, failed start and teardown a connection has exactly one holder; `LoadNeverWraps`: the wrapped `queued_clients` is never visible to the balancer; `DestroyedAfterExit`, `DispatcherGoneFirst`: the order of destruction |
| `pool_burst` | 1 operator, 2 slots, ring of 2, 4 connections | 629 k | `QueuedExact`, `NoLostWakeup`, `ActiveExact`, `SlotForActive`, `ShortTickWhileBusy`; `ImplementsHandoff`: the pool implements `ConnectionHandoff` |
| `pool_liveness` | 1 operator, 1 slot, ring of 2, 2 connections, fair | 29 k | `QueuedClientTaken`: a queued connection leaves the ring; `ShutdownDuringInitHonoured`: the compare-and-swap of the start never loses a SHUTDOWN |
| `upload_pool` | every way to start, 2 addresses, room for 2 sockets; 2 workers, depth 2 in an array of 3, 3 uploads; fair | 153 k | pool: `UpTypeOK`, `WorkConserving`, `DestroyedQuiet`, `ImplementsQueue`, `UploadLeavesQueue`, `ShutdownCompletes`; start and stop: `ServerTypeOK` (the socket arrays are overrun in one case only), `IsolationMatches`, `StoppedClean`, `SystemdKeepsFiles`, `StopHonoured`, `RunsThePool` |
| `connection` | one slot of either kind, buffer of 4, answers of 1, 3 and 5 units, nine scripts, two folders; fair | 105 k | `ClTypeOK`, `ParkedIsArmed`, `SlotStartsClean`, `ImplementsExchange`, `AnnouncedClose`, `ParkedEnds`; `TicketSettledOnce`, `SpoolSound`, `SpoolSettled`; `ZipExact`, `ZipReleasesAll` |

Each finishes in little more than a minute at most (the column counts distinct states).

Why these bounds suffice.

* Two operators are the least that make the balancer choose, an operator be destroyed
  while another is live, and `pthread_create` fail half-way. Four connections exceed two
  slots, so the operator becomes FULL with more waiting, and two slots are the least for
  which one event of a batch can invalidate another. One ring entry makes the ring-full
  path as frequent as possible.
* Three uploads against a depth of two make the queue refuse, and enough of them pass it
  for its indices to wrap around the array of three; two workers are the least for which a signal
  may wake one while the other takes the work. The pool's safety does not rest on the
  bound: it is proved for all sizes. With two addresses, binding a TCP port fails for all,
  some or none of them; they fill the array of two by themselves, so that the TCP loop of an
  upload port has to stop half-way or at once, and a unix upload path finds no place.
* In a buffer of four a response of three fits, is sent in up to three pieces and is parked
  after any of them; one of five does not fit (the 500 of the code's overflow test). The scripts
  have kept requests with successors that may arrive together (pipelined), headers longer
  than the buffer, an unroutable and a malformed request, a body over the upload limit, an
  upload after a kept request with its body split in every way, one with bytes behind it,
  a chunk and a folder. The number of connections is not bounded: the state space closes
  because what a connection leaves behind is finite. In this run uploads are refused on
  upload workers only; the other case is `connection_parked`.

Deadlock checking is on in every run: the only states without a successor in the code
are a crashed or finished process, or a listener that waits and will never be stopped, which
`Ended`, `UpEnded` and `ServerEnded` stand for.

Seven runs state what a comment, log line or document of the repository says and exhibit a
behaviour of the code that does otherwise (quotes in `PROJECT.json`):

| run | statement | what the code does |
|---|---|---|
| `pool_teardown` | teardown terminates | `_operator_status_update` stores ACTIVE or FULL over a SHUTDOWN that was just requested; the thread runs on and the join waits |
| `pool_full` | a FULL operator becomes ACTIVE when a slot frees up | the idle scan frees slots without refreshing the status; the dispatcher goes on skipping the operator |
| `pool_leak` | a client that cannot be added is closed | the popped fd is dropped open when the operator is not ACTIVE or registration fails |
| `pool_uaf` | dispatch stops before operators are freed | after a failed start-up gate `worker_destroy` runs beside the dispatching listener |
| `pool_stale` | `reactor_del` removes callback and context | later events of the same batch reach a slot that is empty or has a new owner |
| `upload_active` | shutdown shuts active upload sockets | only queued connections are closed; running uploads are waited for |
| `connection_parked` | nothing touches `buf` while a response is parked | a refusal that could not be sent at once is parked in `buf`, and `_drain_rejected_body` reads the request body over it (operators only, which get uploads where there is no upload listener) |

### Fairness

`FairSpec` (worker pool) assumes weak fairness of every thread: a thread that can
take a step is scheduled. Strong fairness is assumed of `epoll_wait` reporting the
eventfd and the timer: epoll is level-triggered and rotates its ready list, and the
timer is periodic, so an operator that returns to `epoll_wait` again and again is
eventually told of them although other fds are ready or signals interrupt it.

`ServerFairness` is the same for the upload side: weak fairness of the boot thread, of a
dispatch under way, of each worker, of the rest of a batch and of the listener's end;
strong fairness of hearing the stop event, which stays readable until it is read. An upload
ends because header phase and body pump check an absolute deadline
(`WORKER_UPLOAD_MAX_WALL_S`). `CFairSpec` assumes weak fairness of the slot's thread, and
strong fairness of the two timeouts, `_clean_clients` and the deadline of
`_drive_upload`: time passes whether or not the slot is woken in between.

Not fair: clients connecting, sending or closing, the stop signal, spurious wakeups. No
progress rests on them.

## 4. Proofs

The assumptions are the ASSUMEs of the modules: sizes are positive, the counter is wide
enough (`OperatorAssumption`, `PoolAssumption`, `UploadAssumption`), scripts and folders
are sequences (`ClientAssumption`, `FolderAssumption`, `ResponseAssumption`), the socket
array has two places at least and systemd passes no TCP sockets (`ServerAssumption`); the number
of addresses is finite and not otherwise restricted. TLC evaluates them in every run. Otherwise: any number of
connections, operators, slots, workers, addresses, any capacities, any scripts.

* `TypeCorrect` (`WorkerPoolProofs`): `Spec => [](TypeOK /\ LocalsOK)`. `TypeOK` is
  not inductive alone: the dispatcher's loop index runs to `OperatorsCount + 1`, and a
  popped fd may be "none". `LocalsOK` says where they are real: wherever
  the code follows the index or stores the fd.
* `QueuedExactHolds`, `NoWakeupLost` (`WorkerPoolHandoffProofs`). The invariant is
  `TypeInv /\ NotCreatedYet /\ HandoffInv`. `QueuedExact` corrects the ring's length by
  the increment and the decrement in flight; it needs `RingBounded` so that the
  corrected value cannot wrap twice. `NoLostWakeup` speaks only of an operator about to block;
  what is preserved by every step is `WakeupCovers`: each fd in a ring is covered by a
  count of the eventfd, by the handler that has just taken one and is about to pop, or
  by the write the dispatcher still owes. A handler takes one count and pops at least
  one fd if there is one, which is why returning early with fds left in the ring is
  harmless. `NotCreatedYet` says `worker_run` creates a thread only where there is none.
  One lemma per thread shows preservation, with one step per action that touches the
  hand-off and a frame lemma (`HandoffFrame`) for the rest.
  The same module proves `FdHeldOnceHolds`. That a connection has one holder is inductive
  only with `LocalsClear`: outside the few points between taking an fd and passing it on, the
  listener's and the operator's `client_fd` hold nothing, so storing a new fd there overwrites
  none. `HeldAt` reads `Holders` as a relation, in which a step that moves the connection from
  one place to the next is a plain case split (`HeldListener`, `HeldThread`, `HeldBoot`), and
  `HeldOnce` turns a single place back into a set of cardinality one.
* `ActiveExactHolds`, `SlotForActiveHolds` (`WorkerPoolSlotProofs`). The invariant adds
  `ActiveExact /\ AdmitsBelowLimit`: an operator whose status is ACTIVE has room,
  except between a successful add and the status refresh that follows it. It is the
  argument for why a SHUTDOWN overwritten by a refresh, a defect in itself, still never
  makes an operator exceed its slots. `ShortTickWhileBusyHolds` adds `TickInv`: the period is the
  short one whenever there are clients, except between counting a client and the refresh
  behind it. Closing a client only lowers the count, and the timer handler, which sets the period
  before it closes the idle ones, errs towards the short one.
* `DestroyedAfterExitHolds`, `LoadNeverWrapsHolds`, `DispatcherGoneFirstHolds`
  (`WorkerPoolLifecycleProofs`). `BootInv` reads off the boot thread's position which
  threads exist, which have been joined and which rings are gone; it is inductive by
  itself given `NotCreatedYet`, and the first theorem is a case split on it. `LoadInv`
  bounds what the balancer reads: for a live operator by `QueuedExact`, for a destroyed
  one because only the single dispatch that was under way can still count it up.
  `DispatchInv` then follows: a load below `UINT_MAX` always leaves a candidate, so the
  balancer's own "mark the pool FULL" branch is never taken, and the pool stays ACTIVE
  until `worker_destroy`. `ShutdownDuringInitHolds` is the argument for the compare-and-swap in
  `operator_thread`: once a SHUTDOWN is stored, a thread that has not published its start
  never does (`NeverServes` is stable under every step, of any thread), so it goes straight
  to its return. The stores of status by a running thread, which lose a SHUTDOWN
  (`pool_teardown`), all come after that point.
  `ImplementsHandoffHolds` is in this module too, because the retirement of an operator is an
  abstract step only if its thread has nothing in hand by then (`BootInv`). The mapping needs ownership besides
  (`PlacesApart`: closing some slots ends exactly the connections in them because no fd is in
  two) and `ServedInSlots`, which bounds the connections served by the busy slots. There is one
  lemma per abstract step (`MoveGive`, `MoveAdmit`, ...) and one per group of concrete ones.
* `UploadPoolProofs`. The invariant `UpInv` has six parts. `UpTypeOK` and `Ring` tie head,
  tail and count of the circular buffer to each other. `Control` reads off the positions of
  boot thread and listener which workers exist, that nothing is dispatched after the listener
  returned, and that the queue is empty once shutdown drained it. `Once` and `Owned` say that
  the connections are split among pending, the listener's hand, the queue, the
  workers and closed, none twice. `WorkConserving` itself is inductive with the rest: it
  compares the queue with the workers that have been signalled but have not taken yet.
  From this `UpTypeCorrect`, `WorkConservingHolds` and `DestroyedQuietHolds` follow. A
  group of lemmas (`PutAppends`, `TakeIsTail`, `DropAll`) says what a write to the array means
  for the sequence it represents; with them `QueueStep` maps every step to a step of
  `UploadQueue` or a stutter, and `ImplementsQueueHolds` is the refinement.
* `ServerProofs`. `RunsThePoolHolds` maps each step of the server to a step of `UploadPool`
  or a stutter, so all theorems of `UploadPoolProofs` hold of the server.
  `ServerInv` is `Phase` (which threads and pools exist at each point of the boot thread),
  `Recorded` (every open socket is in the listener's array and every file of ours among its
  paths, systemd's never, so that `_stop_listener` finds what it must) and
  `StoppedClean`. `IsolationMatchesHolds`, `StoppedCleanHolds` and
  `SystemdKeepsFilesHolds` follow. `ServerTypeOKHolds` needs `Room` besides: when the upload
  socket is to be bound the array holds no more than it has places, and only sockets of the API
  specification. A TCP upload port then stays within the array because its loop looks at the
  size; a unix path adds one, which is too many only if the array is full, and it can be full only
  of TCP sockets, one for each of at least that many addresses (`PathAfterFullTcp`). The
  theorem so says when `BindUploadOverruns` is possible: in that case and no other.
* `SizingProofs`. `SettingsHonoured`: a value that passes validation is the value used, for
  every setting (the bounds are written twice in the code). `SizesFit`: whatever
  the environment says, valid or not, the computed sizes satisfy the assumptions of the
  other modules. `SlotsDisjoint`: once `server_init` accepts them, the 8-bit transaction
  slots of operators and upload workers are distinct and below the total. `ValidMayNotFit`:
  there is a configuration that validation accepts and the sizing refuses.
* `ClientProofs`. `ClientInv` is the conjunction of the invariants below, each with one lemma
  per group of actions; it holds of every slot (`ClientInvariant`).
  * `CTypeInv` (types and the socket's counters, of which the lemma about reads bounds
    `buf_idx`), `TicketSettledOnce`, `ZipInv` (handle and blob are open exactly where the folder
    pump runs), `ParkInv` (at which points a response may be parked and what the fd is armed for
    there; only with the points between two events does `ParkedIsArmed` become inductive),
    `SlotStartsClean` and `PolicyInv` (which policy is in force where, and that a parked response
    with "keep" has its request cleared). They yield `ClientTypeCorrect`,
    `TicketSettledOnceHolds`, `ZipReleasesAllHolds`, `ParkedIsArmedHolds` and
    `SlotStartsCleanHolds`.
  * `SpoolSoundHolds`. What the parser has and the pump reads are pieces of one stream, so the
    argument starts at the stream: the units of a script's requests stand in it in order
    and in runs (`StreamInOrder`, `StreamRun`). `PeerInv` ties the stream to the script;
    `ReadInv` says where in it the thread is: at the boundary of a request while the parser is
    empty, else in the request after the last one acted on, with the parser's last unit the
    last one read; `ActingInv`, that what the parser holds of a request being acted on is its
    beginning; `BodyInv`, that the sink is a prefix of the declared body and the next unit
    of the stream continues it; `CommitInv`, that what was committed stays committed and whole
    until the slot is cleared. Pipelining, and bytes that arrive behind a body, are
    what makes each of them necessary: a pump that takes bytes of the next request, or
    starts behind the first byte of its own, breaks `BodyInv`.
  * `ZipExactHolds`. `Sums` is the code's running sum as a function of the lengths so far;
    `SumsAdd` says that it has its defining equation for every sequence. `ZipCount` compares three
    counts wherever the pump may stop: its own `offset`, the bytes the kernel took
    (also in the middle of an entry's data) and the sum over the entries; and it keeps the
    offsets recorded for the central directory. At the end they give the formula of the
    Content-Length.
  * `ImplementsExchangeHolds` and `AnnouncedCloseHolds`, under `RefusalsNotParked`. `AnswerInv`
    says how far the answer to the last request has come at each point: not begun and the one
    before it complete, serialised in `buf` and on the wire up to `send_off` (`Held`, also while
    it is parked), or on the wire to its last unit with the header the policy calls for.
    `AnswerGrows` is the lemma about the wire: appending the next units of the answer keeps it
    sound. With it each step of the slot is a step of `HttpExchange` or a stutter
    (`ExchangeStep`).

  `RefusalsNotParked` is the condition under which the buffer of a parked answer is left
  alone: the slot belongs to an upload worker, or DB_app refuses no upload sent to an
  operator. It cannot be dropped: without it an operator reads the refused body into the
  buffer that holds the answer (`connection_parked`), and then what goes on the wire is not the answer.

Recursion over data. The stream of a script and the sums of an archive are recursive functions.
The library's induction theorems are out of reach here, so what these functions compute is
proved by minimal counterexample: a set of bad lengths that is not empty has a least
element (`LeastNatural`, from the well-foundedness of < on the naturals), which is neither zero nor the
successor of a good one.

Only model-checked: liveness (`QueuedClientTaken`, `UploadLeavesQueue`, `ShutdownCompletes`,
`StopHonoured`, `ParkedEnds`, `SpoolSettled`), which rests on fairness and ENABLED and is
beyond the prover. Every other property of a passing run is a theorem. The seven violations
are exhibited by TLC alone.

## 5. Plan

1. The signal handler in two steps, with descriptor numbers that the kernel reuses.
2. A connection's whole life in one theorem: `Client` as what happens to a member of
   `ConnectionHandoff`'s `serving`.

## 6. Not modelled

* Logging, wording, header formatting, dates and CRCs. CPU pinning and socket options: plain
  system calls without state of their own. Build scripts, contract files, static content and
  tests carry no behaviour of the server.
* The inside of DB_http and DB_app. The kernel (epoll, eventfd, accept queue), pthreads and
  the SPSC ring are external too; all are modelled from how the code uses them.
* That a dispatch is refused by the queue's length although a worker is idle and about to
  take from it, and that the graceful drain looks at `active_clients` and not at connections
  still in a ring: both are in the models, but the repository promises nothing else.
* The syntax of the activation environment (well-formed or malformed) and a name passed
  twice in it.
* SIGKILL, and SIGTERM while no handler is installed: both end the process at once. What they
  leave on disk is among `Server`'s initial states. The handler's copy of the eventfd
  and its write are one step (see the plan).
* Errors reported for a listening socket itself, failing socket options
  in `socket_listener_init`, and a failing `pthread_create` of the listener thread, whose
  outcome the code does not define.
* Clean-up after `server_init` fails behind the listener's initialisation: there is none, the
  process exits. `StoppedClean` does not speak of it.
* What the process does after a listening socket was stored behind the end of its arrays
  (`bpc = "overrun"`): not defined by the code. The neighbouring fields of `listener_t`, the count of
  sockets among them, are damaged. `StoppedClean` and `IsolationMatches` do not speak of it.

Memory ordering. `status` is a sequentially consistent atomic and the ring orders what is
published through it. The two counters are accessed with relaxed atomics: each has one
modification order, which is what the model's interleaving of whole accesses gives, and
the listener, their only foreign reader, is itself the thread that increments
`queued_clients`, so what it reads is never older than its own last increment. The pool's
`status`, `operators` and `operators_count` are plain fields; after a failed start they
are written beside the listener that reads them (`pool_uaf`), and the model gives each
such access either its old or its new value.
