----------------------------- MODULE WorkerPool -----------------------------
(***************************************************************************)
(* The API side of the server: the listener thread that accepts and        *)
(* dispatches connections (listener.c, worker_dispatch_to_operator and     *)
(* _least_loaded_operator of worker.c), the operator threads (module       *)
(* Operator), and the boot thread that starts, waits for and tears down    *)
(* the pool (server_run of core.c, worker_run and worker_destroy of        *)
(* worker.c).                                                              *)
(*                                                                         *)
(* server_run starts the listener before worker_run creates the operators, *)
(* so connections are dispatched while the pool is still starting, and     *)
(* also while worker_run tears it down again after a failed start.         *)
(***************************************************************************)
EXTENDS Operator

CONSTANT BlindLimit     \* _worker.max_clients / 10U, below which an operator is picked at once

ASSUME PoolAssumption == BlindLimit \in Nat

VARIABLES
    backlog,     \* connections the kernel has queued on the listening socket
    wstatus,     \* _worker.status
    lpc,         \* where the listener thread is
    lfd,         \* client_fd of _handle_listen_event while the listener still owns it
    idx,         \* loop index i of _least_loaded_operator; afterwards the selected operator
    seenActive,  \* its local variable active
    bestLoad,    \* its local variable best_load
    bestIdx,     \* its local variable best_idx
    mpc,         \* where the boot thread is
    opIdx,       \* loop index of worker_run and worker_destroy
    created,     \* how many operator threads pthread_create started
    started,     \* _worker.threads_started
    runFailed,   \* worker_run returned STATUS_FAILURE (server_run ignores it)
    freed        \* _worker.operators has been freed (operators_count is 0)

listenerVars == <<backlog, lpc, lfd, idx, seenActive, bestLoad, bestIdx>>
bootVars     == <<mpc, opIdx, created, started, runFailed, freed>>
vars         == <<opVars, crashed, listenerVars, bootVars, wstatus>>

\* accept    in epoll_wait, or between two events          push    spsc_ring_push
\* dispatch  worker_dispatch_to_operator reads its status  add     atomic_fetch_add on queued_clients
\* scan      loop head and status read of one operator     write   write to the eventfd
\* active    load of active_clients                        reject  dispatch failed: close the fd
\* queued    load of queued_clients, choice of the best    done    the thread has returned
\* health    ring and eventfd checks
ListenerPc == {"accept", "dispatch", "scan", "active", "queued", "health", "push", "add", "write",
               "reject", "done"}

\* create .. await    worker_run             destroy .. free  worker_destroy
\* undo*              its pthread_create failure path
\* joinListener, drain, done   the rest of server_run
BootPc == {"create", "undoStore", "undoWrite", "undoJoin", "await",
           "destroy", "reqStore", "reqWrite", "join", "opShutdown", "free",
           "joinListener", "drain", "done"}

Init ==
    /\ OpInit
    /\ backlog = Fd
    /\ wstatus = "ACTIVE"
    /\ lpc = "accept" /\ lfd = NoFd
    /\ idx = 1 /\ seenActive = 0 /\ bestLoad = UINT_MAX /\ bestIdx = 1
    /\ mpc = "create" /\ opIdx = 1 /\ created = 0
    /\ started = FALSE /\ runFailed = FALSE /\ freed = FALSE

(***************************************************************************)
(* The listener thread.                                                    *)
(***************************************************************************)
LGoto(from, to) == Running /\ lpc = from /\ lpc' = to

\* _handle_listen_event: accept one connection.  (On EMFILE it backs off and nothing changes.)
Accept(c) ==
    /\ LGoto("accept", "dispatch")
    /\ c \in backlog
    /\ backlog' = backlog \ {c}
    /\ lfd' = c
    /\ UNCHANGED <<idx, seenActive, bestLoad, bestIdx, opVars, bootVars, wstatus>>

\* The shutdown eventfd: status becomes SHUTDOWN and listener_run returns after _stop_listener.
StopListener ==
    /\ LGoto("accept", "done")
    /\ UNCHANGED <<backlog, lfd, idx, seenActive, bestLoad, bestIdx, opVars, bootVars, wstatus>>

Dispatch ==
    /\ LGoto("dispatch", IF wstatus = "ACTIVE" THEN "scan" ELSE "reject")
    /\ UNCHANGED <<backlog, lfd, idx, seenActive, bestLoad, bestIdx, opVars, bootVars, wstatus>>

\* _least_loaded_operator returns: its locals are gone.
ScanReturns == seenActive' = 0 /\ bestLoad' = UINT_MAX /\ bestIdx' = 1

\* One iteration of _least_loaded_operator: loop condition and status.  After worker_destroy
\* operators_count is 0 and the loop ends.
ScanStatus ==
    /\ IF freed \/ idx > OperatorsCount
       THEN /\ LGoto("scan", IF bestLoad = UINT_MAX THEN "reject" ELSE "health")
            /\ idx' = bestIdx
            /\ ScanReturns
       ELSE /\ IF status[idx] = "FULL"
               THEN LGoto("scan", "scan") /\ idx' = idx + 1
               ELSE LGoto("scan", "active") /\ idx' = idx
            /\ UNCHANGED <<seenActive, bestLoad, bestIdx>>
    /\ UNCHANGED <<backlog, lfd, opVars, bootVars, wstatus>>

ScanActive ==
    /\ LGoto("active", "queued")
    /\ ~freed
    /\ seenActive' = active[idx]
    /\ UNCHANGED <<backlog, lfd, idx, bestLoad, bestIdx, opVars, bootVars, wstatus>>

\* unsigned int load = active + queued
Load(a, q) == IF a + q <= UINT_MAX THEN a + q ELSE a + q - (UINT_MAX + 1)

\* A load below the blind limit is good enough; otherwise remember the smallest so far.  The worker is
\* marked FULL when the last operator was looked at and none was a candidate.
ScanQueued ==
    /\ lpc = "queued" /\ ~freed
    /\ LET load == Load(seenActive, queued[idx])
       IN  IF load < BlindLimit
           THEN LGoto("queued", "health") /\ ScanReturns /\ UNCHANGED idx
                /\ UNCHANGED wstatus
           ELSE /\ LGoto("queued", "scan")
                /\ idx' = idx + 1
                /\ seenActive' = 0
                /\ IF load < bestLoad THEN bestLoad' = load /\ bestIdx' = idx
                                      ELSE UNCHANGED <<bestLoad, bestIdx>>
                /\ wstatus' = IF idx = OperatorsCount /\ bestLoad' = UINT_MAX THEN "FULL" ELSE wstatus
    /\ UNCHANGED <<backlog, lfd, opVars, bootVars>>

HealthCheck ==
    /\ lpc = "health" /\ ~freed
    /\ LGoto("health", IF ringLive[idx] THEN "push" ELSE "reject")
    /\ UNCHANGED <<backlog, lfd, idx, seenActive, bestLoad, bestIdx, opVars, bootVars, wstatus>>

\* spsc_ring_push: from here on the ring owns the fd.
\*
\* Mutant: _handle_listen_event keeps the fd it has handed over.
PushKeepsFd ==
    /\ lpc = "push" /\ ~freed /\ ringLive[idx] /\ RingHasRoom(idx)
    /\ LGoto("push", "add")
    /\ ring' = [ring EXCEPT ![idx] = Append(@, lfd)]
    /\ UNCHANGED <<backlog, lfd, idx, seenActive, bestLoad, bestIdx, status, ringLive, wakeup, queued,
                   active, slot, period, opc, batch, popped, closed, leaked, bootVars, wstatus>>

Push ==
    /\ lpc = "push" /\ ~freed /\ ringLive[idx]
    /\ IF RingHasRoom(idx)
       THEN /\ LGoto("push", "add")
            /\ ring' = [ring EXCEPT ![idx] = Append(@, lfd)]
            /\ lfd' = NoFd
       ELSE LGoto("push", "reject") /\ UNCHANGED <<ring, lfd>>
    /\ UNCHANGED <<backlog, idx, seenActive, bestLoad, bestIdx, status, ringLive, wakeup, queued, active,
                   slot, period, opc, batch, popped, closed, leaked, bootVars, wstatus>>

\* Mutant: the dispatch is not counted.
CountQueuedForgotten ==
    /\ LGoto("add", "write")
    /\ ~freed
    /\ UNCHANGED <<backlog, lfd, idx, seenActive, bestLoad, bestIdx, opVars, bootVars, wstatus>>

CountQueued ==
    /\ LGoto("add", "write")
    /\ ~freed
    /\ queued' = [queued EXCEPT ![idx] = Inc(@)]
    /\ UNCHANGED <<backlog, lfd, idx, seenActive, bestLoad, bestIdx, status, ring, ringLive, wakeup,
                   active, slot, period, opc, batch, popped, closed, leaked, bootVars, wstatus>>

\* A write to the closed eventfd of a destroyed operator fails and is logged.
\*
\* Mutant: an operator believed to be awake is not signalled.
SignalIfIdle ==
    /\ LGoto("write", "accept")
    /\ ~freed
    /\ wakeup' = [wakeup EXCEPT ![idx] = IF ringLive[idx] /\ active[idx] = 0 THEN @ + 1 ELSE @]
    /\ idx' = 1
    /\ UNCHANGED <<backlog, lfd, seenActive, bestLoad, bestIdx, status, ring, ringLive, queued, active,
                   slot, period, opc, batch, popped, closed, leaked, bootVars, wstatus>>

SignalOperator ==
    /\ LGoto("write", "accept")
    /\ ~freed
    /\ wakeup' = [wakeup EXCEPT ![idx] = IF ringLive[idx] THEN @ + 1 ELSE @]
    /\ idx' = 1
    /\ UNCHANGED <<backlog, lfd, seenActive, bestLoad, bestIdx, status, ring, ringLive, queued, active,
                   slot, period, opc, batch, popped, closed, leaked, bootVars, wstatus>>

\* _handle_listen_event's fail path.
Reject ==
    /\ LGoto("reject", "accept")
    /\ closed' = closed \cup {lfd}
    /\ lfd' = NoFd
    /\ idx' = 1
    /\ UNCHANGED <<backlog, seenActive, bestLoad, bestIdx, status, ring, ringLive, wakeup, queued,
                   active, slot, period, opc, batch, popped, leaked, bootVars, wstatus>>

\* The listener holds a pointer into memory that worker_destroy (all of it) or operator_shutdown (the
\* ring) has freed, and is about to follow it.
UseAfterFree ==
    /\ \/ freed /\ lpc \in {"active", "queued", "health", "push", "add", "write"}
       \/ lpc = "push" /\ ~ringLive[idx]
    /\ ~crashed /\ crashed' = TRUE
    /\ UNCHANGED <<opVars, listenerVars, bootVars, wstatus>>

ListenerStep ==
    \/ \E c \in Fd : Accept(c)
    \/ StopListener \/ Dispatch \/ ScanStatus \/ ScanActive \/ ScanQueued
    \/ HealthCheck \/ Push \/ CountQueued \/ SignalOperator \/ Reject \/ UseAfterFree

(***************************************************************************)
(* The boot thread: worker_run.                                            *)
(***************************************************************************)
MGoto(from, to) == Running /\ mpc = from /\ mpc' = to

\* Leave a loop over the operators when its index passes the bound.
LoopOver(from, bound, exit) ==
    IF opIdx < bound THEN MGoto(from, from) /\ opIdx' = opIdx + 1
                     ELSE MGoto(from, exit) /\ opIdx' = 1

CreateThread ==
    /\ LoopOver("create", OperatorsCount, "await")
    /\ opc' = [opc EXCEPT ![opIdx] = "init"]
    /\ created' = opIdx
    /\ started' = (opIdx = OperatorsCount)
    /\ UNCHANGED <<status, ring, ringLive, wakeup, queued, active, slot, period, batch, popped, closed,
                   leaked, listenerVars, runFailed, freed, wstatus>>

\* pthread_create fails: the threads already started are stopped and joined one by one, and worker_run
\* returns with _worker.status still ACTIVE.
CreateFails ==
    /\ MGoto("create", IF created = 0 THEN "joinListener" ELSE "undoStore")
    /\ opIdx' = 1
    /\ runFailed' = TRUE
    /\ UNCHANGED <<created, started, freed, opVars, listenerVars, wstatus>>

\* operator_request_shutdown: the store of SHUTDOWN, then the write to the eventfd.
RequestStore(from, to) ==
    /\ MGoto(from, to)
    /\ status' = [status EXCEPT ![opIdx] = "SHUTDOWN"]
    /\ UNCHANGED <<opIdx, created, started, runFailed, freed, ring, ringLive, wakeup, queued, active,
                   slot, period, opc, batch, popped, closed, leaked, listenerVars, wstatus>>

RequestWrite ==
    /\ wakeup' = [wakeup EXCEPT ![opIdx] = @ + 1]
    /\ UNCHANGED <<created, started, runFailed, freed, status, ring, ringLive, queued, active, slot,
                   period, opc, batch, popped, closed, leaked, listenerVars, wstatus>>

UndoStore == RequestStore("undoStore", "undoWrite")

UndoWrite == MGoto("undoWrite", "undoJoin") /\ UNCHANGED opIdx /\ RequestWrite

UndoJoin ==
    /\ opc[opIdx] = "exit"
    /\ IF opIdx < created THEN MGoto("undoJoin", "undoStore") /\ opIdx' = opIdx + 1
                          ELSE MGoto("undoJoin", "joinListener") /\ opIdx' = 1
    /\ UNCHANGED <<created, started, runFailed, freed, opVars, listenerVars, wstatus>>

\* The startup gate: each operator in turn must report ACTIVE.
AwaitActive ==
    /\ status[opIdx] = "ACTIVE"
    /\ LoopOver("await", OperatorsCount, "joinListener")
    /\ UNCHANGED <<created, started, runFailed, freed, opVars, listenerVars, wstatus>>

\* Any status other than INITIALIZING and ACTIVE, or two seconds of INITIALIZING, tears the pool down.
AwaitFails ==
    /\ status[opIdx] # "ACTIVE"
    /\ MGoto("await", "destroy")
    /\ opIdx' = 1
    /\ runFailed' = TRUE
    /\ UNCHANGED <<created, started, freed, opVars, listenerVars, wstatus>>

(***************************************************************************)
(* worker_destroy.  worker_run calls it when the startup gate fails and    *)
(* then returns to server_run; server_run calls it at the end.             *)
(***************************************************************************)
InWorkerRun == runFailed /\ created = OperatorsCount

Destroy ==
    /\ MGoto("destroy", IF started THEN "reqStore" ELSE IF freed THEN "done" ELSE "opShutdown")
    /\ wstatus' = "INACTIVE"
    /\ UNCHANGED <<opIdx, created, started, runFailed, freed, opVars, listenerVars>>

DestroyStore == RequestStore("reqStore", "reqWrite")

DestroyWrite ==
    /\ IF opIdx < OperatorsCount THEN MGoto("reqWrite", "reqStore") /\ opIdx' = opIdx + 1
                                 ELSE MGoto("reqWrite", "join") /\ opIdx' = 1
    /\ RequestWrite

\* Mutant: the threads are not waited for.
JoinNoWait ==
    /\ LoopOver("join", OperatorsCount, "opShutdown")
    /\ started' = (opIdx < OperatorsCount)
    /\ UNCHANGED <<created, runFailed, freed, opVars, listenerVars, wstatus>>

JoinThread ==
    /\ opc[opIdx] = "exit"
    /\ LoopOver("join", OperatorsCount, "opShutdown")
    /\ started' = (opIdx < OperatorsCount)
    /\ UNCHANGED <<created, runFailed, freed, opVars, listenerVars, wstatus>>

\* operator_shutdown: the ring goes with the fds still in it, every busy slot is closed, counters are reset.
OperatorShutdown ==
    /\ LoopOver("opShutdown", OperatorsCount, "free")
    /\ status' = [status EXCEPT ![opIdx] = "SHUTDOWN"]
    /\ ring' = [ring EXCEPT ![opIdx] = <<>>]
    /\ leaked' = leaked \cup {ring[opIdx][i] : i \in DOMAIN ring[opIdx]}
    /\ ringLive' = [ringLive EXCEPT ![opIdx] = FALSE]
    /\ wakeup' = [wakeup EXCEPT ![opIdx] = 0]
    /\ slot' = [slot EXCEPT ![opIdx] = [s \in Slots |-> NoFd]]
    /\ closed' = closed \cup {slot[opIdx][s] : s \in BusySlots(opIdx)}
    /\ active' = [active EXCEPT ![opIdx] = 0]
    /\ queued' = [queued EXCEPT ![opIdx] = 0]
    /\ UNCHANGED <<period, opc, batch, popped, created, started, runFailed, freed, listenerVars, wstatus>>

FreeOperators ==
    /\ MGoto("free", IF InWorkerRun THEN "joinListener" ELSE "done")
    /\ freed' = TRUE
    /\ UNCHANGED <<opIdx, created, started, runFailed, opVars, listenerVars, wstatus>>

(***************************************************************************)
(* The rest of server_run.                                                 *)
(***************************************************************************)
\* Mutant: the listener is not joined.
JoinListenerNoWait ==
    /\ MGoto("joinListener", "drain")
    /\ UNCHANGED <<opIdx, created, started, runFailed, freed, opVars, listenerVars, wstatus>>

JoinListener ==
    /\ lpc = "done"
    /\ MGoto("joinListener", "drain")
    /\ UNCHANGED <<opIdx, created, started, runFailed, freed, opVars, listenerVars, wstatus>>

\* _server_wait_clients_drain returns when no client is active or when the grace period is over, whichever
\* comes first; the clock may end it at any time.
DrainEnds ==
    /\ MGoto("drain", "destroy")
    /\ UNCHANGED <<opIdx, created, started, runFailed, freed, opVars, listenerVars, wstatus>>

BootStep ==
    \/ CreateThread \/ CreateFails \/ UndoStore \/ UndoWrite \/ UndoJoin \/ AwaitActive \/ AwaitFails
    \/ Destroy \/ DestroyStore \/ DestroyWrite \/ JoinThread \/ OperatorShutdown \/ FreeOperators
    \/ JoinListener \/ DrainEnds

ThreadStep(o) == OperatorStep(o) /\ UNCHANGED <<listenerVars, bootVars, wstatus>>

\* The process has ended.
Ended ==
    /\ crashed \/ mpc = "done"
    /\ UNCHANGED vars

Next == ListenerStep \/ BootStep \/ (\E o \in Ops : ThreadStep(o)) \/ Ended

Spec == Init /\ [][Next]_vars

(***************************************************************************)
(* Properties.                                                             *)
(***************************************************************************)
TypeOK ==
    /\ status \in [Ops -> OperatorStatus]
    /\ ring \in [Ops -> Seq(Fd)]
    /\ ringLive \in [Ops -> BOOLEAN]
    /\ wakeup \in [Ops -> Nat]
    /\ queued \in [Ops -> 0..UINT_MAX]
    /\ active \in [Ops -> 0..UINT_MAX]
    /\ slot \in [Ops -> [Slots -> Fd \cup {NoFd}]]
    /\ period \in [Ops -> {"SHORT", "LONG"}]
    /\ opc \in [Ops -> OpPc]
    /\ batch \in [Ops -> SUBSET Event]
    /\ popped \in [Ops -> Fd \cup {NoFd}]
    /\ closed \subseteq Fd /\ leaked \subseteq Fd /\ backlog \subseteq Fd
    /\ crashed \in BOOLEAN
    /\ wstatus \in {"ACTIVE", "FULL", "INACTIVE"}
    /\ lpc \in ListenerPc
    /\ lfd \in Fd \cup {NoFd}
    /\ idx \in 1..(OperatorsCount + 1)
    /\ seenActive \in 0..UINT_MAX /\ bestLoad \in 0..UINT_MAX
    /\ bestIdx \in Ops
    /\ mpc \in BootPc
    /\ opIdx \in Ops
    /\ created \in 0..OperatorsCount
    /\ started \in BOOLEAN /\ runFailed \in BOOLEAN /\ freed \in BOOLEAN

\* The dispatcher has pushed an fd on o's ring and has not yet counted it / signalled it.
PushUncounted(o)  == lpc = "add" /\ idx = o
PushUnsignalled(o) == lpc \in {"add", "write"} /\ idx = o

One(b) == IF b THEN 1 ELSE 0

\* queued_clients, incremented after the push by the listener and decremented after the pop by the
\* operator, is at every moment the length of the ring corrected by the two operations under way.  It can
\* be "-1" (UINT_MAX) while the operator has already popped what the listener has not yet counted.
QueuedExact ==
    \A o \in Ops : ringLive[o] =>
        LET n == Len(ring[o]) + One(opc[o] = "sub") - One(PushUncounted(o))
        IN  queued[o] = IF n < 0 THEN UINT_MAX ELSE n

\* The wrapped value is never seen by the only reader, _least_loaded_operator: the effective load it
\* computes is bounded by the slots, the ring and the one fd being dequeued, so it can neither look idle
\* nor collide with the UINT_MAX "no candidate" sentinel.
LoadNeverWraps ==
    lpc = "queued" /\ ~freed =>
        /\ seenActive <= MaxClients
        /\ queued[idx] <= RingCapacity + 1

\* No lost wakeup: an operator about to block in epoll_wait with its eventfd at zero has an empty ring,
\* unless the dispatcher is still between its push and its write.  The semaphore eventfd makes this true
\* even though the wakeup handler may return early and leave fds in the ring.
NoLostWakeup ==
    \A o \in Ops :
        opc[o] = "epoll" /\ ringLive[o] /\ wakeup[o] = 0 /\ ~PushUnsignalled(o) => ring[o] = <<>>

\* active_clients counts the busy slots: _clean_clients, the reactor's hangup path and the client handler
\* together never count a client twice or forget one.
ActiveExact == \A o \in Ops : active[o] = Cardinality(BusySlots(o))

\* An operator that saw itself ACTIVE has a free slot when it adds the client: the "no free client slot"
\* path of _operator_add_client is never taken, also when a SHUTDOWN was overwritten in between.
SlotForActive == \A o \in Ops : opc[o] = "add" => FreeSlots(o) # {}

\* While an operator with clients waits for events its housekeeping tick is the short one, so that idle
\* clients are looked at every 5 s and not every 5 min.
ShortTickWhileBusy ==
    \A o \in Ops : opc[o] \in {"loop", "epoll"} /\ ringLive[o] /\ active[o] > 0 => period[o] = "SHORT"

\* The places of the program (or of the kernel's accept queue) that refer to connection c.
Holders(c) ==
    {<<"backlog", 0, 0>> : x \in {c} \cap backlog} \cup {<<"closed", 0, 0>> : x \in {c} \cap closed}
    \cup {<<"leaked", 0, 0>> : x \in {c} \cap leaked} \cup {<<"listener", 0, 0>> : x \in {c} \cap {lfd}}
    \cup {<<"popped", o, 0>> : o \in {o \in Ops : popped[o] = c}}
    \cup (UNION {{<<"ring", o, i>> : i \in {i \in DOMAIN ring[o] : ring[o][i] = c}} : o \in Ops})
    \cup (UNION {{<<"slot", o, s>> : s \in {s \in Slots : slot[o][s] = c}} : o \in Ops})

\* Every connection is in exactly one place: no fd is closed twice, handed to two operators, or closed by
\* the listener after the ring took it, in any interleaving of dispatch, start-up failure and teardown.
FdHeldOnce == \A c \in Fd : Cardinality(Holders(c)) = 1

\* Resources are destroyed only after the thread that used them has returned (or was never created):
\* operator_shutdown and the free run after every join, on the normal and on both failure paths.
DestroyedAfterExit ==
    /\ \A o \in Ops : ~ringLive[o] => opc[o] \in {"off", "exit"}
    /\ freed => \A o \in Ops : ~ringLive[o]

\* If worker_run succeeded, nothing is destroyed before the dispatching thread is gone.
DispatcherGoneFirst ==
    ~runFailed => \/ lpc = "done"
                  \/ ~freed /\ wstatus = "ACTIVE" /\ \A o \in Ops : ringLive[o]

\* A shutdown requested before an operator's thread has published its start is honoured: the thread
\* returns without serving (the compare-and-swap in operator_thread).
ShutdownDuringInitHonoured ==
    \A o \in Ops :
        [](opc[o] \in {"off", "init"} /\ status[o] = "SHUTDOWN" => [](opc[o] \in {"off", "init", "exit"}))

\* The life of a connection, read off the places that refer to it: the fd an operator has popped is still
\* the first in its line, the one the listener has accepted still on offer.
Offered    == backlog \cup ({lfd} \ {NoFd})
InHand(o)  == IF popped[o] = NoFd THEN <<>> ELSE <<popped[o]>>
Line(o)    == InHand(o) \o ring[o]
Serving(o) == {slot[o][s] : s \in BusySlots(o)}
Over       == closed \cup leaked

Handoff == INSTANCE ConnectionHandoff
    WITH LineMax <- RingCapacity + 1, Places <- MaxClients,
         offered <- Offered, line <- [o \in Ops |-> Line(o)], serving <- [o \in Ops |-> Serving(o)],
         over <- Over, live <- ringLive

\* A connection goes one way: from the accept queue to one operator, which takes its connections in the order
\* of dispatch and never serves more than it has slots, and then it is over; an fd that ended does not come
\* back through a ring or a slot, and an operator that has been destroyed is given none
\* (listener.c:542-560, worker.c:236-296, operator.c:321-376, 385-418, 497-588).
ImplementsHandoff == Handoff!HSpec

(***************************************************************************)
(* The inductive invariant behind the properties above.                    *)
(***************************************************************************)

\* The dispatcher's pointer and every fd in a local variable are real while they are in use.
LocalsOK ==
    /\ lpc \in {"active", "queued", "health", "push", "add", "write"} => idx \in Ops
    /\ lpc \in {"dispatch", "scan", "active", "queued", "health", "push", "reject"} => lfd \in Fd
    /\ \A o \in Ops : opc[o] \in {"sub", "check", "add"} => popped[o] \in Fd

\* Hand-off: every fd in a ring is covered by a count of the eventfd, by the handler that has just taken
\* one, or by the write the dispatcher owes.
WakeupCovers ==
    \A o \in Ops : ringLive[o] =>
        Len(ring[o]) <= wakeup[o] + One(opc[o] = "pop") + One(PushUnsignalled(o))

RingBounded == \A o \in Ops : Len(ring[o]) <= RingCapacity

HandoffInv == RingBounded /\ QueuedExact /\ WakeupCovers

\* Admission: an operator that shows ACTIVE has room, except between a successful add and its update.
AdmitsBelowLimit ==
    \A o \in Ops :
        /\ status[o] = "ACTIVE" /\ opc[o] # "addUpd" => active[o] < MaxClients
        /\ opc[o] = "add" => active[o] < MaxClients
        /\ opc[o] \in {"off", "init"} => active[o] = 0

\* Housekeeping: the period follows active_clients, except between a successful add and its update.
TickInv == \A o \in Ops : opc[o] # "addUpd" /\ active[o] > 0 => period[o] = "SHORT"

\* Ownership: the local variables of the listener and of the wakeup handler are clear whenever their code
\* is not between taking a connection and passing it on.
LocalsClear ==
    /\ lpc \in {"accept", "add", "write", "done"} => lfd = NoFd
    /\ \A o \in Ops : opc[o] \notin {"sub", "check", "add"} => popped[o] = NoFd

\* While worker_run creates the threads, those it has not reached do not exist.
NotCreatedYet ==
    mpc = "create" => /\ created = opIdx - 1
                      /\ \A o \in Ops : o >= opIdx => opc[o] = "off"

AllLive  == \A o \in Ops : ringLive[o]
AllDead  == \A o \in Ops : ~ringLive[o]
AllQuiet == \A o \in Ops : opc[o] \in {"off", "exit"}

\* Life cycle: how far the boot thread is tells which threads exist and what has been destroyed.
BootInv ==
    /\ mpc \in {"create", "undoStore", "undoWrite", "undoJoin", "await", "reqStore", "reqWrite", "join"}
         => ~freed /\ AllLive
    /\ mpc \in {"create", "undoStore", "undoWrite", "undoJoin", "opShutdown", "free", "done"} => ~started
    /\ mpc \in {"await", "reqStore", "reqWrite", "join"} => started
    /\ mpc \in {"undoStore", "undoWrite", "undoJoin"}
         => /\ opIdx <= created
            /\ \A o \in Ops : o > created => opc[o] = "off"
            /\ \A o \in Ops : o < opIdx => opc[o] = "exit"
    /\ mpc = "join" => \A o \in Ops : o < opIdx => opc[o] = "exit"
    /\ mpc \in {"joinListener", "drain", "destroy", "free"} => opIdx = 1
    /\ mpc \in {"joinListener", "drain", "destroy"}
         => (~started => AllQuiet) /\ (IF freed THEN ~started /\ AllDead ELSE AllLive)
    /\ mpc = "opShutdown" => AllQuiet /\ ~freed /\ \A o \in Ops : ringLive[o] <=> o >= opIdx
    /\ mpc \in {"free", "done"} => AllQuiet /\ AllDead

\* Dispatch: while a pool that started well has its dispatcher, teardown has not begun.
DispatchInv ==
    ~runFailed /\ lpc # "done" => mpc \in {"create", "await", "joinListener"} /\ ~freed /\ wstatus = "ACTIVE"

\* Load: what the balancer has read of active_clients is bounded, and a destroyed operator is counted up at
\* most once, by the dispatch that was under way when its ring went.
LoadInv ==
    /\ seenActive <= MaxClients
    /\ \A o \in Ops : ~ringLive[o] => queued[o] + One(PushUncounted(o)) <= 1

(***************************************************************************)
(* Fairness.  Every thread that can run does run.  The timer is periodic   *)
(* and the kernel rotates its ready list, so an operator that keeps        *)
(* waiting is told of the timer and of a readable eventfd again and again, *)
(* whatever else is ready and however often a signal interrupts it.        *)
(* Clients connecting and the stop signal are never owed.                  *)
(***************************************************************************)
DispatcherStep ==
    \/ Dispatch \/ ScanStatus \/ ScanActive \/ ScanQueued \/ HealthCheck
    \/ Push \/ CountQueued \/ SignalOperator \/ Reject \/ UseAfterFree

EpollReports(o, e) ==
    /\ \E B \in SUBSET Ready(o) : e \in B /\ EpollWait(o, B)
    /\ UNCHANGED <<listenerVars, bootVars, wstatus>>

Fairness ==
    /\ WF_vars(DispatcherStep) /\ WF_vars(BootStep)
    /\ \A o \in Ops : /\ WF_vars(ThreadStep(o))
                       /\ \A e \in {WakeupEvt, TimerEvt} : SF_vars(EpollReports(o, e))

FairSpec == Spec /\ Fairness

InRing(o, c) == \E i \in DOMAIN ring[o] : ring[o][i] = c

\* A connection handed to a running operator does not sit in its ring for ever: the operator takes it off,
\* however its wakeups interleave with early returns of the wakeup handler, unless it is told to stop.
QueuedClientTaken ==
    \A o \in Ops, c \in Fd :
        InRing(o, c) /\ status[o] \in {"ACTIVE", "FULL"}
            ~> ~InRing(o, c) \/ status[o] = "SHUTDOWN" \/ crashed

(***************************************************************************)
(* What the repository says of the program and the program does not do.    *)
(***************************************************************************)

\* config_core.h: the teardown after the grace period terminates, because operator_request_shutdown runs
\* unconditionally; every join returns.
TeardownTerminates == mpc = "join" ~> mpc # "join" \/ crashed

\* operator.c: a FULL operator proceeds with its clients "until a slot frees up"; README: FULL becomes
\* ACTIVE again below the limit.
FullOperatorRecovers ==
    \A o \in Ops :
        status[o] = "FULL" /\ FreeSlots(o) # {} ~> status[o] # "FULL" \/ FreeSlots(o) = {} \/ crashed

\* operator.c logs "failed to add client %d, client closed.": while the operators serve, no accepted
\* connection is left open without anything in the program referring to it.
NoFdLeak == (\A o \in Ops : status[o] \in {"ACTIVE", "FULL"}) => leaked = {}

\* worker.c: dispatch is stopped before anything is freed, so the listener never touches freed memory.
NoUseAfterFree == ~(freed /\ lpc \in {"active", "queued", "health", "push", "add", "write"})

\* reactor.h: reactor_del "removes its callback and context", so an event is only ever delivered to the
\* client it was reported for.
EventsReachTheirClient ==
    \A o \in Ops : \A e \in batch[o] : e.slot # 0 => slot[o][e.slot] = e.fd
=============================================================================
