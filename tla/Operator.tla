------------------------------ MODULE Operator ------------------------------
(***************************************************************************)
(* One API operator thread of the worker pool: worker/operator/operator.c  *)
(* on top of reactor.c and the client slots of client.c.                   *)
(*                                                                         *)
(* An operator owns an epoll reactor, a single-producer/single-consumer    *)
(* ring of new client fds, a semaphore eventfd that says the ring has work,*)
(* a housekeeping timer and max_clients client slots.  The dispatcher (the *)
(* listener thread, module WorkerPool) writes the ring, the eventfd and    *)
(* queued_clients and reads status and both counters; the boot thread      *)
(* (WorkerPool too) stores SHUTDOWN.  Everything else is private to the    *)
(* operator's thread, so an action here is the code between two accesses   *)
(* to shared state.                                                        *)
(*                                                                         *)
(* A connection is named by its fd.  The kernel may give the number of a   *)
(* closed fd to a later connection; in the model every connection has a    *)
(* name of its own, which is what lets a property tell the two apart.      *)
(***************************************************************************)
EXTENDS Integers, Sequences, FiniteSets

CONSTANTS
    Fd,             \* the connections that clients may open
    NoFd,           \* an fd of -1: an empty slot, nothing in hand
    OperatorsCount, \* _worker.operators_count
    MaxClients,     \* op->max_clients: client slots per operator
    RingCapacity,   \* capacity of the dispatch ring
    UINT_MAX        \* the width of atomic_uint: 2^32-1 in the build

\* The startup code resolves every size to a positive number (worker.c:465-574), and the counters are
\* wide enough for what they count: 255 slots, a ring of at most 1024 and one fd on its way.
ASSUME OperatorAssumption ==
    /\ NoFd \notin Fd
    /\ OperatorsCount \in Nat \ {0}
    /\ MaxClients \in Nat \ {0}
    /\ RingCapacity \in Nat \ {0}
    /\ UINT_MAX \in Nat
    /\ UINT_MAX > MaxClients + RingCapacity + 1

Ops   == 1..OperatorsCount
Slots == 1..MaxClients

VARIABLES
    status,    \* op->status
    ring,      \* op->ring, oldest fd first
    ringLive,  \* op->ring and op->wakeup_ctx.fd have not been destroyed by operator_shutdown
    wakeup,    \* the count of the EFD_SEMAPHORE eventfd behind op->wakeup_ctx
    queued,    \* op->queued_clients
    active,    \* op->active_clients
    slot,      \* op->clients: the fd of each busy slot, NoFd where is_busy = 0
    period,    \* op->timer_period
    opc,       \* where the operator's thread is
    batch,     \* events epoll_wait returned that reactor_run has not dispatched yet
    popped,    \* client_fd of _operator_handle_wakeup_event: the fd it popped and still holds
    closed,    \* fds the server has closed
    leaked,    \* fds still open that no thread, ring or slot refers to any more
    crashed    \* the process has been killed by a SIGSEGV: no thread takes another step

opVars == <<status, ring, ringLive, wakeup, queued, active, slot, period, opc, batch, popped, closed,
            leaked>>

(***************************************************************************)
(* Data.                                                                   *)
(***************************************************************************)
OperatorStatus == {"INITIALIZING", "ACTIVE", "FULL", "SHUTDOWN", "INIT_FAILED"}

\* off       the thread has not been created        check     status read after the pop
\* init      post-pin initialisation                add       _operator_add_client
\* loop      the while condition                    addUpd    its trailing _operator_state_update
\* epoll     blocked in epoll_wait                  delUpd    the one of _operator_remove_client_by_fd
\* dispatch  between two handlers of a batch        exit      the thread has returned
\* pop, sub  spsc_ring_pop and the fetch_sub after it
OpPc == {"off", "init", "loop", "epoll", "dispatch", "pop", "sub", "check", "add", "addUpd", "delUpd",
         "exit"}

\* epoll hands back the fd_ctx_t* given at registration: the eventfd's, the timer's, or that of a client
\* slot.  fd is the descriptor the kernel reported on; the code sees only the context (here: slot).
WakeupEvt == [kind |-> "wakeup", slot |-> 0, fd |-> NoFd]
TimerEvt  == [kind |-> "timer", slot |-> 0, fd |-> NoFd]
Event     == {WakeupEvt, TimerEvt} \cup [kind : {"in", "hup"}, slot : Slots, fd : Fd]

BusySlots(o) == {s \in Slots : slot[o][s] # NoFd}
FreeSlots(o) == Slots \ BusySlots(o)

\* atomic_fetch_add and atomic_fetch_sub on an atomic_uint.
Inc(n)    == IF n = UINT_MAX THEN 0 ELSE n + 1
\* Mutant: a signed counter.
SubSigned(n, k) == n - k
Sub(n, k) == IF k <= n THEN n - k ELSE n + (UINT_MAX + 1) - k
Dec(n) == Sub(n, 1)

\* spsc_ring_push succeeds while the ring has room.
RingHasRoom(o) == Len(ring[o]) < RingCapacity

\* _operator_timer_update: the 5 s tick while there are clients, the 300 s tick otherwise.
TimerPeriod(n) == IF n > 0 THEN "SHORT" ELSE "LONG"

\* _operator_status_update: both assignments together.  Its read of status and its plain store are one
\* step: a SHUTDOWN stored between them is lost exactly as one stored just before the read.
\*
\* Mutant: FULL only past the limit.
LoadStatusLate(n) == IF n > MaxClients THEN "FULL" ELSE "ACTIVE"

LoadStatus(n) == IF n >= MaxClients THEN "FULL" ELSE "ACTIVE"

(***************************************************************************)
(* worker_init has run operator_init for every operator: reactor, timer,   *)
(* eventfd and ring exist, no thread yet.                                  *)
(***************************************************************************)
OpInit ==
    /\ status   = [o \in Ops |-> "INITIALIZING"]
    /\ ring     = [o \in Ops |-> <<>>]
    /\ ringLive = [o \in Ops |-> TRUE]
    /\ wakeup   = [o \in Ops |-> 0]
    /\ queued   = [o \in Ops |-> 0]
    /\ active   = [o \in Ops |-> 0]
    /\ slot     = [o \in Ops |-> [s \in Slots |-> NoFd]]
    /\ period   = [o \in Ops |-> "LONG"]
    /\ opc      = [o \in Ops |-> "off"]
    /\ batch    = [o \in Ops |-> {}]
    /\ popped   = [o \in Ops |-> NoFd]
    /\ closed   = {}
    /\ leaked   = {}
    /\ crashed  = FALSE

\* A step of the process that does not kill it.
Running == ~crashed /\ UNCHANGED crashed

Goto(o, from, to) ==
    /\ Running
    /\ opc[o] = from
    /\ opc' = [opc EXCEPT ![o] = to]

(***************************************************************************)
(* operator_thread: post-pin initialisation, published with a              *)
(* compare-and-swap so that a SHUTDOWN already requested is honoured.      *)
(***************************************************************************)

\* Mutant: a plain store instead of the compare-and-swap.
PublishInitPlain(o, target) ==
    /\ status' = [status EXCEPT ![o] = target]
    /\ Goto(o, "init", IF target = "ACTIVE" THEN "loop" ELSE "exit")

PublishInit(o, target) ==
    IF status[o] = "INITIALIZING"
    THEN /\ status' = [status EXCEPT ![o] = target]
         /\ Goto(o, "init", IF target = "ACTIVE" THEN "loop" ELSE "exit")
    ELSE /\ Goto(o, "init", "exit")
         /\ UNCHANGED status

ThreadInit(o) ==
    /\ \E target \in {"ACTIVE", "INIT_FAILED"} : PublishInit(o, target)
    /\ UNCHANGED <<ring, ringLive, wakeup, queued, active, slot, period, batch, popped, closed, leaked>>

\* while(op->status == ACTIVE || op->status == FULL)
LoopCheck(o) ==
    /\ Goto(o, "loop", IF status[o] \in {"ACTIVE", "FULL"} THEN "epoll" ELSE "exit")
    /\ UNCHANGED <<status, ring, ringLive, wakeup, queued, active, slot, period, batch, popped, closed,
                   leaked>>

(***************************************************************************)
(* reactor_run.  epoll_wait returns some of the ready fds: the eventfd     *)
(* when its count is positive, the timer when it has expired, a client     *)
(* when its peer sent bytes ("in") or hung up ("hup").  The set stands for *)
(* the array in whatever order the kernel filled it.                       *)
(***************************************************************************)
Ready(o) ==
    {TimerEvt} \cup {e \in {WakeupEvt} : wakeup[o] > 0}
               \cup {[kind |-> k, slot |-> s, fd |-> slot[o][s]] : k \in {"in", "hup"}, s \in BusySlots(o)}

EpollWait(o, B) ==
    /\ Goto(o, "epoll", "dispatch")
    /\ B \subseteq Ready(o) /\ B # {}
    /\ \A e, f \in B : e.slot = f.slot /\ e.slot # 0 => e = f
    /\ batch' = [batch EXCEPT ![o] = B]
    /\ UNCHANGED <<status, ring, ringLive, wakeup, queued, active, slot, period, popped, closed, leaked>>

\* epoll_wait returns -1 (EINTR: a signal was delivered to this thread): nothing is dispatched.
EpollInterrupted(o) ==
    /\ Goto(o, "epoll", "loop")
    /\ UNCHANGED <<status, ring, ringLive, wakeup, queued, active, slot, period, batch, popped, closed,
                   leaked>>

BatchDone(o) ==
    /\ batch[o] = {}
    /\ Goto(o, "dispatch", "loop")
    /\ UNCHANGED <<status, ring, ringLive, wakeup, queued, active, slot, period, batch, popped, closed,
                   leaked>>

Take(o, e) ==
    /\ e \in batch[o]
    /\ batch' = [batch EXCEPT ![o] = @ \ {e}]

\* _operator_handle_wakeup_event up to its loop: socket_drain reads the non-blocking eventfd once, which
\* takes one count off a semaphore eventfd and returns -1 (ignored) when it is zero.
\*
\* Mutant: the eventfd is not a semaphore, one read takes the whole count.
HandleWakeupDrainAll(o) ==
    /\ Take(o, WakeupEvt)
    /\ Goto(o, "dispatch", "pop")
    /\ wakeup' = [wakeup EXCEPT ![o] = 0]
    /\ UNCHANGED <<status, ring, ringLive, queued, active, slot, period, popped, closed, leaked>>

HandleWakeup(o) ==
    /\ Take(o, WakeupEvt)
    /\ Goto(o, "dispatch", "pop")
    /\ wakeup' = [wakeup EXCEPT ![o] = IF @ > 0 THEN @ - 1 ELSE 0]
    /\ UNCHANGED <<status, ring, ringLive, queued, active, slot, period, popped, closed, leaked>>

\* _operator_remove_client_by_idx, with client_shutdown, on each of a set of busy slots: the fd is closed,
\* the slot is free again and the client is no longer counted.
\*
\* Mutant: a scan that closes several clients counts one.
CloseSlotsCountOnce(o, S) ==
    /\ slot' = [slot EXCEPT ![o] = [s \in Slots |-> IF s \in S THEN NoFd ELSE slot[o][s]]]
    /\ closed' = closed \cup {slot[o][s] : s \in S}
    /\ active' = [active EXCEPT ![o] = IF S = {} THEN @ ELSE Sub(@, 1)]

CloseSlots(o, S) ==
    /\ slot' = [slot EXCEPT ![o] = [s \in Slots |-> IF s \in S THEN NoFd ELSE slot[o][s]]]
    /\ closed' = closed \cup {slot[o][s] : s \in S}
    /\ active' = [active EXCEPT ![o] = Sub(@, Cardinality(S))]

\* _clean_clients scans every slot.  Which clients have been silent too long is the clock's choice.
\* _operator_remove_client_by_idx ends without _operator_state_update.
CleanClients(o) == \E expired \in SUBSET BusySlots(o) : CloseSlots(o, expired)

\* _operator_handle_timer_event: _operator_timer_update, then _clean_clients.
HandleTimer(o) ==
    /\ Take(o, TimerEvt)
    /\ Goto(o, "dispatch", "dispatch")
    /\ period' = [period EXCEPT ![o] = TimerPeriod(active[o])]
    /\ CleanClients(o)
    /\ UNCHANGED <<status, ring, ringLive, wakeup, queued, popped, leaked>>

\* The read of the timerfd finds nothing left (EAGAIN): the handler returns at once.
HandleTimerSpurious(o) ==
    /\ Take(o, TimerEvt)
    /\ Goto(o, "dispatch", "dispatch")
    /\ UNCHANGED <<status, ring, ringLive, wakeup, queued, active, slot, period, popped, closed, leaked>>

\* An EPOLLIN event goes through ctx->handler.  A slot closed earlier in the same batch has a NULL handler.
\* Otherwise client_handle or response_writer_resume keeps the client...
HandleClientKeep(o) ==
    /\ \E e \in batch[o] : e.kind = "in" /\ slot[o][e.slot] # NoFd /\ Take(o, e)
    /\ Goto(o, "dispatch", "dispatch")
    /\ UNCHANGED <<status, ring, ringLive, wakeup, queued, active, slot, period, popped, closed, leaked>>

\* ...or fails, and _operator_remove_client_by_fd closes it.
HandleClientClose(o) ==
    /\ \E e \in batch[o] :
         /\ e.kind = "in" /\ slot[o][e.slot] # NoFd
         /\ Take(o, e)
         /\ CloseSlots(o, {e.slot})
    /\ Goto(o, "dispatch", "delUpd")
    /\ UNCHANGED <<status, ring, ringLive, wakeup, queued, period, popped, leaked>>

NullHandler(o) ==
    /\ \E e \in batch[o] : e.kind = "in" /\ slot[o][e.slot] = NoFd
    /\ opc[o] = "dispatch"
    /\ ~crashed /\ crashed' = TRUE
    /\ UNCHANGED opVars

\* A hangup ends the batch: reactor_run reports ctx->fd to operator_thread, which removes that client; the
\* rest of the batch is dropped.  A slot closed earlier in the batch reports -1 and nothing is removed.
HandleHangup(o) ==
    /\ \E e \in batch[o] :
         /\ e.kind = "hup"
         /\ IF slot[o][e.slot] # NoFd
            THEN CloseSlots(o, {e.slot}) /\ Goto(o, "dispatch", "delUpd")
            ELSE Goto(o, "dispatch", "loop") /\ UNCHANGED <<slot, closed, active>>
    /\ batch' = [batch EXCEPT ![o] = {}]
    /\ UNCHANGED <<status, ring, ringLive, wakeup, queued, period, popped, leaked>>

\* _operator_state_update: the timer's period, then the status.
\*
\* Mutant: the timer is not refreshed.
StateUpdateStatusOnly(o) ==
    /\ status' = [status EXCEPT ![o] = LoadStatus(active[o])]
    /\ UNCHANGED period

StateUpdate(o) ==
    /\ period' = [period EXCEPT ![o] = TimerPeriod(active[o])]
    /\ status' = [status EXCEPT ![o] = LoadStatus(active[o])]

RemoveClientUpdate(o) ==
    /\ Goto(o, "delUpd", "dispatch")
    /\ StateUpdate(o)
    /\ UNCHANGED <<ring, ringLive, wakeup, queued, active, slot, batch, popped, closed, leaked>>

(***************************************************************************)
(* The loop of _operator_handle_wakeup_event over the ring.                *)
(***************************************************************************)
PopClient(o) ==
    /\ IF ring[o] = <<>>
       THEN Goto(o, "pop", "dispatch") /\ UNCHANGED <<ring, popped>>
       ELSE /\ Goto(o, "pop", "sub")
            /\ popped' = [popped EXCEPT ![o] = Head(ring[o])]
            /\ ring' = [ring EXCEPT ![o] = Tail(@)]
    /\ UNCHANGED <<status, ringLive, wakeup, queued, active, slot, period, batch, closed, leaked>>

\* Mutant: the dequeue is not counted while the operator is FULL.
CountDequeuedIfActive(o) ==
    /\ Goto(o, "sub", "check")
    /\ queued' = [queued EXCEPT ![o] = IF status[o] = "ACTIVE" THEN Dec(@) ELSE @]
    /\ UNCHANGED <<status, ring, ringLive, wakeup, active, slot, period, batch, popped, closed, leaked>>

CountDequeued(o) ==
    /\ Goto(o, "sub", "check")
    /\ queued' = [queued EXCEPT ![o] = Dec(@)]
    /\ UNCHANGED <<status, ring, ringLive, wakeup, active, slot, period, batch, popped, closed, leaked>>

\* The handler returns with client_fd in a local variable it never closes.
DropPopped(o) ==
    /\ leaked' = leaked \cup {popped[o]}
    /\ popped' = [popped EXCEPT ![o] = NoFd]

\* Mutant: a client that finds its operator not ACTIVE goes back on the ring.
CheckActiveRequeue(o) ==
    /\ IF status[o] = "ACTIVE"
       THEN Goto(o, "check", "add") /\ UNCHANGED <<ring, queued, popped>>
       ELSE /\ Goto(o, "check", "dispatch")
            /\ ring' = [ring EXCEPT ![o] = Append(@, popped[o])]
            /\ queued' = [queued EXCEPT ![o] = Inc(@)]
            /\ popped' = [popped EXCEPT ![o] = NoFd]
    /\ UNCHANGED <<status, ringLive, wakeup, active, slot, period, batch, closed, leaked>>

CheckActive(o) ==
    /\ IF status[o] = "ACTIVE"
       THEN Goto(o, "check", "add") /\ UNCHANGED <<leaked, popped>>
       ELSE Goto(o, "check", "dispatch") /\ DropPopped(o)
    /\ UNCHANGED <<status, ring, ringLive, wakeup, queued, active, slot, period, batch, closed>>

\* _operator_add_client with a free slot: the first one becomes busy, active_clients is incremented.
\* Without one the status is refreshed and the fd is dropped.
AddClient(o) ==
    IF FreeSlots(o) # {}
    THEN LET s == CHOOSE s \in FreeSlots(o) : \A t \in FreeSlots(o) : s <= t
         IN  /\ Goto(o, "add", "addUpd")
             /\ slot' = [slot EXCEPT ![o][s] = popped[o]]
             /\ popped' = [popped EXCEPT ![o] = NoFd]
             /\ active' = [active EXCEPT ![o] = Inc(@)]
             /\ UNCHANGED <<status, ring, ringLive, wakeup, queued, period, batch, closed, leaked>>
    ELSE /\ Goto(o, "add", "dispatch")
         /\ status' = [status EXCEPT ![o] = LoadStatus(active[o])]
         /\ DropPopped(o)
         /\ UNCHANGED <<ring, ringLive, wakeup, queued, active, slot, period, batch, closed>>

\* socket_client_init or reactor_add_in_client fails.  client_shutdown skips a slot that is not busy yet,
\* so nothing closes the fd.
AddClientFails(o) ==
    /\ FreeSlots(o) # {}
    /\ Goto(o, "add", "dispatch")
    /\ DropPopped(o)
    /\ UNCHANGED <<status, ring, ringLive, wakeup, queued, active, slot, period, batch, closed>>

AddClientUpdate(o) ==
    /\ Goto(o, "addUpd", "pop")
    /\ StateUpdate(o)
    /\ UNCHANGED <<ring, ringLive, wakeup, queued, active, slot, batch, popped, closed, leaked>>

\* A step of the operator's thread.
OperatorStep(o) ==
    \/ ThreadInit(o) \/ LoopCheck(o) \/ BatchDone(o)
    \/ (\E B \in SUBSET Ready(o) : EpollWait(o, B)) \/ EpollInterrupted(o)
    \/ HandleWakeup(o) \/ HandleTimer(o) \/ HandleTimerSpurious(o)
    \/ HandleClientKeep(o) \/ HandleClientClose(o) \/ NullHandler(o) \/ HandleHangup(o)
    \/ RemoveClientUpdate(o)
    \/ PopClient(o) \/ CountDequeued(o) \/ CheckActive(o)
    \/ AddClient(o) \/ AddClientFails(o) \/ AddClientUpdate(o)
=============================================================================
