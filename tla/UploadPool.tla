----------------------------- MODULE UploadPool -----------------------------
(***************************************************************************)
(* The upload side of the server: worker/upload_worker.c, the upload half  *)
(* of listener.c and the boot thread's calls to both.                      *)
(*                                                                         *)
(* A fixed pool of threads takes connections from one circular buffer      *)
(* guarded by a mutex and a condition variable.  The lock is only held     *)
(* over straight-line code, so a critical section is one action; what      *)
(* pthread_cond_wait splits is two.                                        *)
(***************************************************************************)
EXTENDS Naturals, Sequences, FiniteSets

CONSTANTS
    Fd,         \* the connections that clients may open on the upload socket
    NoFd,       \* -1
    NWorkers,   \* n_workers as requested
    QMax,       \* q_max: DB_SERVER_UPLOAD_QUEUE_DEPTH or its default
    QueueMax    \* UPLOAD_QUEUE_MAX: the size of the array

\* upload_workers_init checks both arguments.
ASSUME UploadAssumption ==
    /\ NoFd \notin Fd
    /\ NWorkers \in Nat \ {0}
    /\ QueueMax \in Nat \ {0}
    /\ QMax \in 1..QueueMax

Workers == 1..NWorkers
Index   == 0..(QueueMax - 1)

VARIABLES
    queue, qHead, qTail, qCount,  \* _pool.queue and its indices
    running,    \* _pool.running
    wpc,        \* where each worker is
    wfd,        \* the connection it drives
    pending,    \* connections the kernel has queued on the upload socket
    dpc, dfd,   \* the listener in _handle_upload_listen_event, and its client_fd
    mpc,        \* where the boot thread is
    nWorkers,   \* _pool.n_workers: threads that exist
    joinIdx,    \* loop index of upload_workers_shutdown
    closed      \* connections shut down and closed

uqVars     == <<queue, qHead, qTail, qCount>>
workerVars == <<wpc, wfd>>
listenVars == <<pending, dpc, dfd>>
mainVars   == <<mpc, nWorkers, joinIdx>>
upVars     == <<uqVars, running, workerVars, listenVars, mainVars, closed>>

\* off, init   not created; allocating its parser       drive   _drive_upload
\* take        (re)acquired the lock, tests the queue   exit    returned
\* wait        in pthread_cond_wait
WorkerPc == {"off", "init", "take", "wait", "drive", "exit"}

\* off before server_run; accept, dispatch (reads running), enqueue (critical section), reject (503); done
ListenPc == {"off", "accept", "dispatch", "enqueue", "reject", "done"}

\* create (upload_workers_init); serve (blocked in pthread_join of the listener); shutdown, join
\* (upload_workers_shutdown); done
MainPc == {"create", "serve", "shutdown", "join", "done"}

Waiting == {w \in Workers : wpc[w] = "wait"}
Ready   == {w \in Workers : wpc[w] = "take"}

\* The queued connections, oldest first.
Queued == [i \in 1..qCount |-> queue[(qHead + i - 1) % QueueMax]]

QueuedFds == {Queued[i] : i \in 1..qCount}

UpInit ==
    /\ queue = [i \in Index |-> NoFd]
    /\ qHead = 0 /\ qTail = 0 /\ qCount = 0
    /\ running = TRUE
    /\ wpc = [w \in Workers |-> "off"] /\ wfd = [w \in Workers |-> NoFd]
    /\ pending = Fd /\ dpc = "off" /\ dfd = NoFd
    /\ mpc = "create" /\ nWorkers = 0 /\ joinIdx = 1
    /\ closed = {}

(***************************************************************************)
(* upload_workers_init, after its argument checks; server_run then starts  *)
(* the listener thread.                                                    *)
(***************************************************************************)
CreateWorker ==
    /\ mpc = "create" /\ nWorkers < NWorkers
    /\ nWorkers' = nWorkers + 1
    /\ wpc' = [wpc EXCEPT ![nWorkers + 1] = "init"]
    /\ UNCHANGED <<uqVars, running, wfd, listenVars, mpc, joinIdx, closed>>

\* pthread_create fails: the pool is shut down again and server_init fails.
CreateWorkerFails ==
    /\ mpc = "create" /\ nWorkers < NWorkers
    /\ mpc' = "shutdown"
    /\ UNCHANGED <<uqVars, running, workerVars, listenVars, nWorkers, joinIdx, closed>>

StartListener ==
    /\ mpc = "create" /\ nWorkers = NWorkers
    /\ mpc' = "serve" /\ dpc' = "accept"
    /\ UNCHANGED <<uqVars, running, workerVars, pending, dfd, nWorkers, joinIdx, closed>>

(***************************************************************************)
(* The listener: _handle_upload_listen_event and upload_worker_dispatch.   *)
(***************************************************************************)
AcceptUpload(c) ==
    /\ dpc = "accept" /\ c \in pending
    /\ pending' = pending \ {c}
    /\ dfd' = c /\ dpc' = "dispatch"
    /\ UNCHANGED <<uqVars, running, workerVars, mainVars, closed>>

\* The read of running outside the lock.
DispatchUpload ==
    /\ dpc = "dispatch"
    /\ dpc' = IF running THEN "enqueue" ELSE "reject"
    /\ UNCHANGED <<uqVars, running, workerVars, pending, dfd, mainVars, closed>>

\* pthread_cond_signal: one waiting worker, if there is any.
\*
\* Mutant: the dispatch does not signal.
SignalNobody == UNCHANGED wpc

Signal ==
    IF Waiting = {} THEN UNCHANGED wpc
                    ELSE \E w \in Waiting : wpc' = [wpc EXCEPT ![w] = "take"]

\* Mutant: the array index wraps at the depth in force, not at the size of the array.
PutAtDepth(c) ==
    /\ queue' = [queue EXCEPT ![qTail] = c]
    /\ qTail' = (qTail + 1) % QMax
    /\ qCount' = qCount + 1
    /\ UNCHANGED qHead

PutQueue(c) ==
    /\ queue' = [queue EXCEPT ![qTail] = c]
    /\ qTail' = (qTail + 1) % QueueMax
    /\ qCount' = qCount + 1
    /\ UNCHANGED qHead

\* Mutant: the condition variable is signalled only when the queue was empty.
EnqueueSignalFirst ==
    /\ dpc = "enqueue"
    /\ IF qCount >= QMax
       THEN dpc' = "reject" /\ UNCHANGED <<uqVars, dfd, wpc>>
       ELSE /\ PutQueue(dfd)
            /\ IF qCount = 0 THEN Signal ELSE UNCHANGED wpc
            /\ dpc' = "accept" /\ dfd' = NoFd
    /\ UNCHANGED <<running, wfd, pending, mainVars, closed>>

\* Mutant: the queue may exceed its depth by one.
EnqueueOffByOne ==
    /\ dpc = "enqueue"
    /\ IF qCount > QMax
       THEN dpc' = "reject" /\ UNCHANGED <<uqVars, dfd, wpc>>
       ELSE PutQueue(dfd) /\ Signal /\ dpc' = "accept" /\ dfd' = NoFd
    /\ UNCHANGED <<running, wfd, pending, mainVars, closed>>

Enqueue ==
    /\ dpc = "enqueue"
    /\ IF qCount >= QMax
       THEN dpc' = "reject" /\ UNCHANGED <<uqVars, dfd, wpc>>
       ELSE PutQueue(dfd) /\ Signal /\ dpc' = "accept" /\ dfd' = NoFd
    /\ UNCHANGED <<running, wfd, pending, mainVars, closed>>

\* 503 upload_busy, then close.
RejectUpload ==
    /\ dpc = "reject"
    /\ closed' = closed \cup {dfd}
    /\ dfd' = NoFd /\ dpc' = "accept"
    /\ UNCHANGED <<uqVars, running, workerVars, pending, mainVars>>

\* listener_run returns: the stop signal, or a fatal error.
ListenerReturns ==
    /\ dpc = "accept"
    /\ dpc' = "done"
    /\ UNCHANGED <<uqVars, running, workerVars, pending, dfd, mainVars, closed>>

(***************************************************************************)
(* _worker_main.                                                           *)
(***************************************************************************)
WorkerInit(w) ==
    /\ wpc[w] = "init"
    /\ \E next \in {"take", "exit"} : wpc' = [wpc EXCEPT ![w] = next]
    /\ UNCHANGED <<uqVars, running, wfd, listenVars, mainVars, closed>>

\* The test of the inner while, and what follows it in the same critical section.
TakeUpload(w) ==
    /\ wpc[w] = "take"
    /\ IF qCount > 0
       THEN /\ wfd' = [wfd EXCEPT ![w] = queue[qHead]]
            /\ qHead' = (qHead + 1) % QueueMax
            /\ qCount' = qCount - 1
            /\ wpc' = [wpc EXCEPT ![w] = "drive"]
       ELSE /\ wpc' = [wpc EXCEPT ![w] = IF running THEN "wait" ELSE "exit"]
            /\ UNCHANGED <<wfd, qHead, qCount>>
    /\ UNCHANGED <<queue, qTail, running, listenVars, mainVars, closed>>

\* A condition wait may end on its own.
SpuriousWakeup(w) ==
    /\ wpc[w] = "wait"
    /\ wpc' = [wpc EXCEPT ![w] = "take"]
    /\ UNCHANGED <<uqVars, running, wfd, listenVars, mainVars, closed>>

\* _drive_upload returns: upload finished, peer gone, idle or deadline.  client_release_fd closes the fd.
DriveEnds(w) ==
    /\ wpc[w] = "drive"
    /\ closed' = closed \cup {wfd[w]}
    /\ wfd' = [wfd EXCEPT ![w] = NoFd]
    /\ wpc' = [wpc EXCEPT ![w] = "take"]
    /\ UNCHANGED <<uqVars, running, listenVars, mainVars>>

WorkerStep(w) == WorkerInit(w) \/ TakeUpload(w) \/ DriveEnds(w)

(***************************************************************************)
(* The boot thread at the end of server_run: upload_workers_shutdown.      *)
(***************************************************************************)
JoinUploadListener ==
    /\ mpc = "serve" /\ dpc = "done"
    /\ mpc' = "shutdown"
    /\ UNCHANGED <<uqVars, running, workerVars, listenVars, nWorkers, joinIdx, closed>>

\* One critical section: stop, close what is queued, broadcast.
\*
\* Mutant: a signal instead of the broadcast.
ShutdownSignalsOne ==
    /\ mpc = "shutdown"
    /\ running' = FALSE
    /\ closed' = closed \cup QueuedFds
    /\ qHead' = (qHead + qCount) % QueueMax /\ qCount' = 0
    /\ Signal
    /\ mpc' = "join"
    /\ UNCHANGED <<queue, qTail, wfd, listenVars, nWorkers, joinIdx>>

Shutdown ==
    /\ mpc = "shutdown"
    /\ running' = FALSE
    /\ closed' = closed \cup QueuedFds
    /\ qHead' = (qHead + qCount) % QueueMax /\ qCount' = 0
    /\ wpc' = [w \in Workers |-> IF w \in Waiting THEN "take" ELSE wpc[w]]
    /\ mpc' = "join"
    /\ UNCHANGED <<queue, qTail, wfd, listenVars, nWorkers, joinIdx>>

\* Mutant: the worker is not waited for.
JoinWorkerNoWait ==
    /\ mpc = "join" /\ joinIdx <= nWorkers
    /\ joinIdx' = joinIdx + 1
    /\ UNCHANGED <<uqVars, running, workerVars, listenVars, mpc, nWorkers, closed>>

JoinWorker ==
    /\ mpc = "join" /\ joinIdx <= nWorkers
    /\ wpc[joinIdx] = "exit"
    /\ joinIdx' = joinIdx + 1
    /\ UNCHANGED <<uqVars, running, workerVars, listenVars, mpc, nWorkers, closed>>

DestroyPool ==
    /\ mpc = "join" /\ joinIdx > nWorkers
    /\ mpc' = "done"
    /\ nWorkers' = 0
    /\ UNCHANGED <<uqVars, running, workerVars, listenVars, joinIdx, closed>>

MainStep ==
    \/ CreateWorker \/ CreateWorkerFails \/ StartListener \/ JoinUploadListener \/ Shutdown \/ JoinWorker
    \/ DestroyPool

DispatchStep == DispatchUpload \/ Enqueue \/ RejectUpload

UpEnded == mpc = "done" /\ UNCHANGED upVars

UpNext ==
    \/ MainStep \/ DispatchStep \/ (\E c \in Fd : AcceptUpload(c)) \/ ListenerReturns
    \/ \E w \in Workers : WorkerStep(w) \/ SpuriousWakeup(w)
    \/ UpEnded

UpSpec == UpInit /\ [][UpNext]_upVars

(***************************************************************************)
(* Properties.                                                             *)
(***************************************************************************)
\* Types and ranges: the indices stay inside the array, the count never passes the depth in force, and no
\* thread is joined that was not created.
UpTypeOK ==
    /\ queue \in [Index -> Fd \cup {NoFd}]
    /\ qHead \in Index /\ qTail \in Index /\ qCount \in 0..QMax
    /\ running \in BOOLEAN
    /\ wpc \in [Workers -> WorkerPc] /\ wfd \in [Workers -> Fd \cup {NoFd}]
    /\ pending \subseteq Fd /\ closed \subseteq Fd
    /\ dpc \in ListenPc /\ dfd \in Fd \cup {NoFd}
    /\ mpc \in MainPc /\ nWorkers \in 0..NWorkers /\ joinIdx \in 1..(NWorkers + 1)

\* A worker sleeps only while every queued connection has a woken worker coming for it: the single signal
\* per dispatch is enough, however signals, spurious wakeups and finishing workers interleave.
WorkConserving == Waiting # {} => qCount <= Cardinality(Ready)

\* Circular buffer, lock and condition variable together implement a bounded FIFO queue that serves or
\* closes every connection exactly once (module UploadQueue).
Abstract == INSTANCE UploadQueue WITH
    Depth   <- QMax,
    q       <- Queued,
    open    <- running,
    serving <- {wfd[w] : w \in {x \in Workers : wpc[x] = "drive"}},
    gone    <- closed

ImplementsQueue == Abstract!QSpec

\* The pool is never destroyed under a thread that could still lock it, also when a pthread_create failed
\* half way, and no connection is left open by it.
DestroyedQuiet ==
    mpc = "done" => /\ \A w \in Workers : wpc[w] \in {"off", "exit"} /\ wfd[w] = NoFd
                    /\ dpc \in {"off", "done"} /\ qCount = 0 /\ closed = Fd \ pending

\* Every queued connection is taken up or closed as long as some worker has come up.
UploadLeavesQueue ==
    \A c \in Fd :
        c \in QueuedFds /\ (\E w \in Workers : wpc[w] \in {"take", "wait", "drive"}) ~> c \notin QueuedFds

\* The shutdown completes: no worker is left asleep on the condition variable.
ShutdownCompletes == mpc = "join" ~> mpc = "done"

\* core.c: upload_workers_shutdown "shuts active upload sockets (waking each worker's poll ...)": once it
\* has reached the joins, the socket of every upload still being driven has been shut down.
ActiveUploadsShut ==
    mpc = "join" => \A w \in Workers : wpc[w] = "drive" => wfd[w] \in closed
=============================================================================
