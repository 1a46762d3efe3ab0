----------------------- MODULE WorkerPoolHandoffProofs -----------------------
(***************************************************************************)
(* The hand-off of connections from the listener to an operator: the       *)
(* queued_clients counter, the dispatch ring and the semaphore eventfd     *)
(* stay consistent, and no wakeup is lost, for any number of operators,    *)
(* connections and slots and any ring capacity.                            *)
(***************************************************************************)
EXTENDS WorkerPoolProofs

\* The hand-off invariant at one operator.
QueuedCount(o) == Len(ring[o]) + One(opc[o] = "sub") - One(PushUncounted(o))

HandoffAt(o) ==
    /\ Len(ring[o]) <= RingCapacity
    /\ ringLive[o] => queued[o] = IF QueuedCount(o) < 0 THEN UINT_MAX ELSE QueuedCount(o)
    /\ ringLive[o] => Len(ring[o]) <= wakeup[o] + One(opc[o] = "pop") + One(PushUnsignalled(o))

LEMMA HandoffSplit == HandoffInv <=> \A o \in Ops : HandoffAt(o)
BY DEF HandoffInv, RingBounded, QueuedExact, WakeupCovers, HandoffAt, QueuedCount

\* What the hand-off at operator o depends on is the same after the step, or has moved the safe way.
SameHandoff(o) ==
    /\ ring'[o] = ring[o] /\ ringLive'[o] = ringLive[o] /\ queued'[o] = queued[o]
    /\ wakeup'[o] >= wakeup[o]
    /\ opc[o] = "sub" <=> opc'[o] = "sub"
    /\ opc[o] = "pop" => opc'[o] = "pop"
    /\ PushUncounted(o) <=> PushUncounted(o)'
    /\ PushUnsignalled(o) => PushUnsignalled(o)'

LEMMA HandoffFrame ==
    ASSUME TypeInv, TypeInv', NEW o \in Ops, HandoffAt(o), SameHandoff(o)
    PROVE  HandoffAt(o)'
<1>1. /\ Len(ring[o]) \in Nat /\ wakeup[o] \in Nat /\ wakeup'[o] \in Nat
  BY DEF TypeInv, TypeOK
<1>2. QueuedCount(o)' = QueuedCount(o)
  BY DEF SameHandoff, QueuedCount, One
<1>3. One(opc[o] = "pop") <= One(opc'[o] = "pop") /\ One(PushUnsignalled(o)) <= One(PushUnsignalled(o)')
  BY DEF SameHandoff, One
<1>4. /\ One(opc[o] = "pop") \in 0..1 /\ One(opc'[o] = "pop") \in 0..1
      /\ One(PushUnsignalled(o)) \in 0..1 /\ One(PushUnsignalled(o)') \in 0..1
  BY DEF One
<1>5. One(PushUnsignalled(o))' = One(PushUnsignalled(o)')
  BY DEF One
<1> QED
  <2> HIDE DEF One
  <2> QED
    BY <1>1, <1>2, <1>3, <1>4, <1>5 DEF SameHandoff, HandoffAt

\* A step of an operator's thread leaves what belongs to the other operators alone.
LEMMA ThreadLocal ==
    ASSUME TypeInv, NEW p \in Ops, ThreadStep(p)
    PROVE  /\ opc[p] # "off"
           /\ ringLive' = ringLive /\ UNCHANGED <<lpc, idx, mpc, opIdx, created>>
           /\ \A o \in Ops \ {p} : /\ opc'[o] = opc[o] /\ ring'[o] = ring[o] /\ queued'[o] = queued[o]
                                   /\ wakeup'[o] = wakeup[o] /\ active'[o] = active[o]
                                   /\ status'[o] = status[o] /\ slot'[o] = slot[o]
<1> USE DEF TypeInv, TypeOK, Goto, opVars, CloseSlots, StateUpdate, DropPopped
<1>0. UNCHANGED <<lpc, idx, mpc, opIdx, created>>
  BY DEF ThreadStep, listenerVars, bootVars
<1>1. CASE ThreadInit(p)
  BY <1>0, <1>1 DEF ThreadInit, PublishInit
<1>2. CASE LoopCheck(p) \/ BatchDone(p) \/ EpollInterrupted(p)
  BY <1>0, <1>2 DEF LoopCheck, BatchDone, EpollInterrupted
<1>3. ASSUME NEW B \in SUBSET Ready(p), EpollWait(p, B) PROVE opc[p] = "epoll" /\ opc' = [opc EXCEPT ![p] = "dispatch"]
        /\ UNCHANGED <<ringLive, ring, queued, wakeup, active, status, slot>>
  BY <1>3 DEF EpollWait
<1>4. CASE HandleWakeup(p)
  BY <1>0, <1>4 DEF HandleWakeup
<1>5. CASE HandleTimer(p) \/ HandleTimerSpurious(p)
  BY <1>0, <1>5 DEF HandleTimer, HandleTimerSpurious, CleanClients
<1>6. CASE HandleClientKeep(p) \/ HandleClientClose(p) \/ NullHandler(p)
  BY <1>0, <1>6 DEF HandleClientKeep, HandleClientClose, NullHandler
<1>7. CASE HandleHangup(p)
  BY <1>0, <1>7 DEF HandleHangup
<1>8. CASE RemoveClientUpdate(p) \/ AddClientUpdate(p)
  BY <1>0, <1>8 DEF RemoveClientUpdate, AddClientUpdate
<1>9. CASE PopClient(p)
  BY <1>0, <1>9 DEF PopClient
<1>10. CASE CountDequeued(p) \/ CheckActive(p)
  BY <1>0, <1>10 DEF CountDequeued, CheckActive
<1>11. CASE AddClient(p) \/ AddClientFails(p)
  <2>1. CASE AddClient(p) /\ FreeSlots(p) # {}
    <3>1. PICK s : slot' = [slot EXCEPT ![p][s] = popped[p]]
      BY <2>1 DEF AddClient
    <3>2. \A o \in Ops \ {p} : slot'[o] = slot[o]
      BY <3>1
    <3> QED
      BY <1>0, <2>1, <3>2 DEF AddClient
  <2>2. CASE AddClient(p) /\ FreeSlots(p) = {}
    BY <1>0, <2>2 DEF AddClient
  <2>3. CASE AddClientFails(p)
    BY <1>0, <2>3 DEF AddClientFails
  <2> QED
    BY <1>11, <2>1, <2>2, <2>3
<1> QED
  BY <1>0, <1>1, <1>2, <1>3, <1>4, <1>5, <1>6, <1>7, <1>8, <1>9, <1>10, <1>11 DEF ThreadStep, OperatorStep

\* No thread exists that worker_run has not created.
LEMMA NotCreatedStep ==
    ASSUME TypeInv, NotCreatedYet, Next PROVE NotCreatedYet'
<1> USE DEF NotCreatedYet
<1>1. CASE ListenerStep
  <2>1. UNCHANGED <<mpc, opIdx, created, opc>>
    BY <1>1 DEF ListenerStep, Accept, StopListener, Dispatch, ScanStatus, ScanActive, ScanQueued, HealthCheck,
       Push, CountQueued, SignalOperator, Reject, UseAfterFree, opVars, bootVars
  <2> QED
    BY <2>1
<1>2. CASE BootStep
  <2>1. CASE CreateThread
    <3>1. CASE opIdx < OperatorsCount
      <4>1. opIdx' = opIdx + 1 /\ created' = opIdx /\ opc' = [opc EXCEPT ![opIdx] = "init"] /\ mpc = "create"
        BY <2>1, <3>1 DEF CreateThread, LoopOver, MGoto
      <4> QED
        BY <4>1 DEF TypeInv, TypeOK, Ops
    <3>2. CASE ~(opIdx < OperatorsCount)
      BY <2>1, <3>2 DEF CreateThread, LoopOver, MGoto
    <3> QED
      BY <3>1, <3>2
  <2>2. CASE ~CreateThread
    <3>1. mpc' # "create"
      BY <1>2, <2>2 DEF BootStep, CreateFails, UndoStore, UndoWrite, UndoJoin, AwaitActive, AwaitFails, Destroy,
         DestroyStore, DestroyWrite, JoinThread, OperatorShutdown, FreeOperators, JoinListener, DrainEnds,
         RequestStore, LoopOver, MGoto
    <3> QED
      BY <3>1
  <2> QED
    BY <2>1, <2>2
<1>3. ASSUME NEW p \in Ops, ThreadStep(p) PROVE NotCreatedYet'
  BY <1>3, ThreadLocal
<1>4. CASE Ended
  BY <1>4 DEF Ended, vars, opVars, bootVars
<1> QED
  BY <1>1, <1>2, <1>3, <1>4 DEF Next

\* Dispatch: push, count, signal, in this order.
LEMMA HandoffListener ==
    ASSUME TypeInv, TypeInv', ListenerStep, NEW o \in Ops, HandoffAt(o) PROVE HandoffAt(o)'
<1>0. Len(ring[o]) \in Nat /\ wakeup[o] \in Nat /\ queued[o] \in 0..UINT_MAX /\ wakeup'[o] \in Nat
  BY DEF TypeInv, TypeOK
<1>1. CASE Push
  <2>1. CASE idx = o /\ RingHasRoom(o)
    <3>1. /\ ring'[o] = Append(ring[o], lfd) /\ lpc = "push" /\ lpc' = "add" /\ idx' = idx
          /\ UNCHANGED <<ringLive, wakeup, queued, opc>>
      BY <1>1, <2>1 DEF Push, LGoto, TypeInv, TypeOK
    <3>2. Len(ring'[o]) = Len(ring[o]) + 1
      <4>1. ring[o] \in Seq(Fd) /\ lfd \in Fd
        BY <3>1 DEF TypeInv, TypeOK, LocalsOK
      <4> QED
        BY <3>1, <4>1
    <3>3. Len(ring[o]) < RingCapacity
      BY <2>1 DEF RingHasRoom
    <3>4. QueuedCount(o)' = QueuedCount(o)
      <4>1. One(PushUncounted(o)) = 0 /\ One(PushUncounted(o))' = 1
        BY <2>1, <3>1 DEF PushUncounted, One
      <4>2. One(opc[o] = "sub") \in 0..1 /\ One(opc[o] = "sub")' = One(opc[o] = "sub")
        BY <3>1 DEF One
      <4> QED
        BY <1>0, <3>2, <4>1, <4>2 DEF QueuedCount
    <3>5. One(PushUnsignalled(o))' = 1 /\ One(PushUnsignalled(o)) = 0
      BY <2>1, <3>1 DEF PushUnsignalled, One
    <3>6. One(opc[o] = "pop") \in 0..1
      BY DEF One
    <3> QED
      BY <1>0, <3>1, <3>2, <3>3, <3>4, <3>5, <3>6, OperatorAssumption DEF HandoffAt
  <2>2. CASE ~(idx = o /\ RingHasRoom(o))
    <3>1. ring'[o] = ring[o] /\ UNCHANGED <<ringLive, queued, wakeup, opc, idx>>
          /\ lpc = "push" /\ lpc' \in {"add", "reject"} /\ (idx = o => lpc' = "reject")
      BY <1>1, <2>2 DEF Push, LGoto, TypeInv, TypeOK
    <3>2. SameHandoff(o)
      BY <1>0, <3>1 DEF SameHandoff, PushUncounted, PushUnsignalled
    <3> QED
      BY <3>2, HandoffFrame
  <2> QED
    BY <2>1, <2>2
<1>2. CASE CountQueued
  <2>1. /\ lpc = "add" /\ lpc' = "write" /\ UNCHANGED <<idx, ring, ringLive, wakeup, opc>>
        /\ queued' = [queued EXCEPT ![idx] = Inc(queued[idx])]
    BY <1>2 DEF CountQueued, LGoto
  <2>2. CASE idx = o
    <3>1. queued'[o] = Inc(queued[o])
      BY <2>1, <2>2 DEF TypeInv, TypeOK
    <3>2. QueuedCount(o)' = QueuedCount(o) + 1 /\ QueuedCount(o) \in -1..RingCapacity
      <4>1. One(PushUncounted(o)) = 1 /\ One(PushUncounted(o))' = 0
        BY <2>1, <2>2 DEF PushUncounted, One
      <4>2. One(opc[o] = "sub") \in 0..1 /\ One(opc[o] = "sub")' = One(opc[o] = "sub")
        BY <2>1 DEF One
      <4> QED
        BY <1>0, <2>1, <4>1, <4>2, OperatorAssumption DEF QueuedCount, HandoffAt
    <3>3. ringLive[o] => queued'[o] = IF QueuedCount(o)' < 0 THEN UINT_MAX ELSE QueuedCount(o)'
      BY <1>0, <3>1, <3>2, OperatorAssumption DEF HandoffAt, Inc
    <3>4. PushUnsignalled(o)' <=> PushUnsignalled(o)
      BY <2>1 DEF PushUnsignalled
    <3>5. One(PushUnsignalled(o))' = One(PushUnsignalled(o))
      BY <3>4 DEF One
    <3> QED
      BY <2>1, <3>3, <3>5 DEF HandoffAt
  <2>3. CASE idx # o
    <3>1. SameHandoff(o)
      BY <1>0, <2>1, <2>3 DEF SameHandoff, PushUncounted, PushUnsignalled, TypeInv, TypeOK
    <3> QED
      BY <3>1, HandoffFrame
  <2> QED
    BY <2>2, <2>3
<1>3. CASE SignalOperator
  <2>1. /\ lpc = "write" /\ lpc' = "accept" /\ UNCHANGED <<ring, ringLive, queued, opc>>
        /\ wakeup' = [wakeup EXCEPT ![idx] = IF ringLive[idx] THEN wakeup[idx] + 1 ELSE wakeup[idx]]
    BY <1>3 DEF SignalOperator, LGoto
  <2>2. QueuedCount(o)' = QueuedCount(o)
    BY <2>1 DEF QueuedCount, PushUncounted, One
  <2>3. One(PushUnsignalled(o))' = 0 /\ One(opc[o] = "pop") \in 0..1
    BY <2>1 DEF PushUnsignalled, One
  <2>4. ringLive[o] => wakeup'[o] >= wakeup[o] + One(PushUnsignalled(o))
    <3>1. CASE idx = o
      <4>1. ringLive[o] => wakeup'[o] = wakeup[o] + 1
        BY <2>1, <3>1 DEF TypeInv, TypeOK
      <4>2. One(PushUnsignalled(o)) \in 0..1
        BY DEF One
      <4> QED
        BY <1>0, <4>1, <4>2
    <3>2. CASE idx # o
      <4>1. One(PushUnsignalled(o)) = 0
        BY <3>2 DEF One, PushUnsignalled
      <4>2. wakeup'[o] = wakeup[o]
        BY <2>1, <3>2 DEF TypeInv, TypeOK
      <4> QED
        BY <1>0, <4>1, <4>2
    <3> QED
      BY <3>1, <3>2
  <2>5. One(PushUnsignalled(o)) \in 0..1
    BY DEF One
  <2> QED
    BY <1>0, <2>1, <2>2, <2>3, <2>4, <2>5 DEF HandoffAt
<1>4. CASE ~(Push \/ CountQueued \/ SignalOperator)
  <2>1. \/ /\ UNCHANGED <<ring, ringLive, queued, wakeup, opc>>
           /\ lpc \notin {"add", "write"} /\ lpc' \notin {"add", "write"}
        \/ UNCHANGED <<ring, ringLive, queued, wakeup, opc, lpc, idx>>
    BY <1>4 DEF ListenerStep, Accept, StopListener, Dispatch, ScanStatus, ScanActive, ScanQueued, HealthCheck,
       Reject, UseAfterFree, opVars, listenerVars, LGoto
  <2>2. SameHandoff(o)
    BY <1>0, <2>1 DEF SameHandoff, PushUncounted, PushUnsignalled
  <2> QED
    BY <2>2, HandoffFrame
<1> QED
  BY <1>1, <1>2, <1>3, <1>4

\* Start-up and teardown.  A ring is destroyed for good, so nothing is claimed of it afterwards.
LEMMA HandoffBoot ==
    ASSUME TypeInv, TypeInv', NotCreatedYet, BootStep, NEW o \in Ops, HandoffAt(o) PROVE HandoffAt(o)'
<1>0. wakeup[o] \in Nat /\ opIdx \in Ops
  BY DEF TypeInv, TypeOK
<1>1. CASE OperatorShutdown
  <2>1. CASE o = opIdx
    <3>1. ring'[o] = <<>> /\ ringLive'[o] = FALSE
      BY <1>1, <2>1 DEF OperatorShutdown, TypeInv, TypeOK
    <3> QED
      BY <3>1, OperatorAssumption DEF HandoffAt
  <2>2. CASE o # opIdx
    <3>1. SameHandoff(o)
      BY <1>0, <1>1, <2>2 DEF OperatorShutdown, SameHandoff, PushUncounted, PushUnsignalled, listenerVars, TypeInv,
         TypeOK
    <3> QED
      BY <3>1, HandoffFrame
  <2> QED
    BY <2>1, <2>2
<1>2. CASE CreateThread
  <2>1. opc[opIdx] = "off" /\ opc' = [opc EXCEPT ![opIdx] = "init"]
        /\ UNCHANGED <<ring, ringLive, queued, wakeup, lpc, idx>>
    <3>1. opIdx >= opIdx
      BY <1>0 DEF Ops
    <3> QED
      BY <1>0, <1>2, <3>1 DEF CreateThread, LoopOver, MGoto, NotCreatedYet, listenerVars
  <2>2. opc'[o] = opc[o] \/ (opc[o] = "off" /\ opc'[o] = "init")
    BY <1>0, <2>1 DEF TypeInv, TypeOK
  <2>3. SameHandoff(o)
    BY <1>0, <2>1, <2>2 DEF SameHandoff, PushUncounted, PushUnsignalled
  <2> QED
    BY <2>3, HandoffFrame
<1>3. CASE UndoWrite \/ DestroyWrite
  <2>1. wakeup' = [wakeup EXCEPT ![opIdx] = wakeup[opIdx] + 1]
        /\ UNCHANGED <<ring, ringLive, queued, opc, lpc, idx>>
    BY <1>3 DEF UndoWrite, DestroyWrite, RequestWrite, listenerVars
  <2>2. wakeup'[o] >= wakeup[o]
    <3>1. wakeup'[o] \in {wakeup[o], wakeup[o] + 1}
      BY <1>0, <2>1 DEF TypeInv, TypeOK
    <3> QED
      BY <1>0, <3>1
  <2>3. SameHandoff(o)
    BY <2>1, <2>2 DEF SameHandoff, PushUncounted, PushUnsignalled
  <2> QED
    BY <2>3, HandoffFrame
<1>4. CASE ~(OperatorShutdown \/ CreateThread \/ UndoWrite \/ DestroyWrite)
  <2>1. UNCHANGED <<ring, ringLive, queued, wakeup, opc, lpc, idx>>
    BY <1>4 DEF BootStep, CreateFails, UndoStore, UndoJoin, AwaitActive, AwaitFails, Destroy, DestroyStore,
       JoinThread, FreeOperators, JoinListener, DrainEnds, RequestStore, opVars, listenerVars
  <2>2. SameHandoff(o)
    BY <1>0, <2>1 DEF SameHandoff, PushUncounted, PushUnsignalled
  <2> QED
    BY <2>2, HandoffFrame
<1> QED
  BY <1>1, <1>2, <1>3, <1>4

\* The operator's side: take a wakeup, pop, count the dequeue.
LEMMA HandoffThread ==
    ASSUME TypeInv, TypeInv', NEW p \in Ops, ThreadStep(p), NEW o \in Ops, HandoffAt(o) PROVE HandoffAt(o)'
<1>0. Len(ring[o]) \in Nat /\ wakeup[o] \in Nat /\ queued[o] \in 0..UINT_MAX
  BY DEF TypeInv, TypeOK
<1>1. UNCHANGED <<ringLive, lpc, idx>>
  BY ThreadLocal
<1>2. /\ One(PushUncounted(o))' = One(PushUncounted(o)) /\ One(PushUncounted(o)) \in 0..1
      /\ One(PushUnsignalled(o))' = One(PushUnsignalled(o)) /\ One(PushUnsignalled(o)) \in 0..1
  BY <1>1 DEF PushUncounted, PushUnsignalled, One
<1>3. CASE o # p
  <2>1. SameHandoff(o)
    BY <1>0, <1>3, ThreadLocal DEF SameHandoff, PushUncounted, PushUnsignalled
  <2> QED
    BY <2>1, HandoffFrame
<1>4. CASE o = p /\ HandleWakeup(o)
  <2>1. /\ opc[o] = "dispatch" /\ opc'[o] = "pop" /\ ring' = ring /\ queued' = queued
        /\ wakeup'[o] = IF wakeup[o] > 0 THEN wakeup[o] - 1 ELSE 0
    BY <1>4 DEF HandleWakeup, Goto, TypeInv, TypeOK
  <2>2. QueuedCount(o)' = QueuedCount(o)
    BY <1>2, <2>1 DEF QueuedCount, One
  <2>3. One(opc[o] = "pop") = 0 /\ One(opc[o] = "pop")' = 1
    BY <2>1 DEF One
  <2> QED
    BY <1>0, <1>1, <1>2, <2>1, <2>2, <2>3 DEF HandoffAt
<1>5. CASE o = p /\ PopClient(o)
  <2>1. CASE ring[o] = <<>>
    <3>1. ring'[o] = <<>> /\ queued' = queued /\ wakeup' = wakeup /\ opc[o] = "pop" /\ opc'[o] = "dispatch"
      BY <1>5, <2>1 DEF PopClient, Goto, TypeInv, TypeOK
    <3>2. QueuedCount(o)' = QueuedCount(o)
      BY <1>2, <2>1, <3>1 DEF QueuedCount, One
    <3>3. One(opc[o] = "pop")' \in 0..1
      BY DEF One
    <3> QED
      BY <1>0, <1>1, <1>2, <2>1, <3>1, <3>2, <3>3, OperatorAssumption DEF HandoffAt
  <2>2. CASE ring[o] # <<>>
    <3>1. ring'[o] = Tail(ring[o]) /\ queued' = queued /\ wakeup' = wakeup /\ opc[o] = "pop" /\ opc'[o] = "sub"
      BY <1>5, <2>2 DEF PopClient, Goto, TypeInv, TypeOK
    <3>2. Len(ring'[o]) = Len(ring[o]) - 1
      <4>1. ring[o] \in Seq(Fd)
        BY DEF TypeInv, TypeOK
      <4> QED
        BY <2>2, <3>1, <4>1
    <3>3. /\ One(opc[o] = "sub") = 0 /\ One(opc[o] = "sub")' = 1
          /\ One(opc[o] = "pop") = 1 /\ One(opc[o] = "pop")' = 0
      BY <3>1 DEF One
    <3>4. QueuedCount(o)' = QueuedCount(o)
      BY <1>0, <1>2, <3>2, <3>3 DEF QueuedCount
    <3> QED
      BY <1>0, <1>1, <1>2, <3>1, <3>2, <3>3, <3>4, OperatorAssumption DEF HandoffAt
  <2> QED
    BY <2>1, <2>2
<1>6. CASE o = p /\ CountDequeued(o)
  <2>1. /\ ring' = ring /\ wakeup' = wakeup /\ opc[o] = "sub" /\ opc'[o] = "check"
        /\ queued'[o] = Dec(queued[o])
    BY <1>6 DEF CountDequeued, Goto, TypeInv, TypeOK
  <2>2. /\ One(opc[o] = "sub") = 1 /\ One(opc[o] = "sub")' = 0
        /\ One(opc[o] = "pop") = 0 /\ One(opc[o] = "pop")' = 0
    BY <2>1 DEF One
  <2>3. QueuedCount(o)' = QueuedCount(o) - 1 /\ QueuedCount(o) \in 0..(RingCapacity + 1)
    BY <1>0, <1>2, <2>1, <2>2, OperatorAssumption DEF QueuedCount, HandoffAt
  <2>4. ringLive[o] => queued'[o] = IF QueuedCount(o)' < 0 THEN UINT_MAX ELSE QueuedCount(o)'
    BY <1>0, <2>1, <2>3, OperatorAssumption DEF HandoffAt, Dec, Sub
  <2> QED
    BY <1>0, <1>1, <1>2, <2>1, <2>2, <2>4 DEF HandoffAt
<1>7. CASE o = p /\ ~(HandleWakeup(o) \/ PopClient(o) \/ CountDequeued(o))
  <2>1. /\ ring' = ring /\ queued' = queued /\ wakeup' = wakeup
        /\ opc[o] \notin {"sub", "pop"} /\ opc'[o] # "sub"
    <3> USE DEF TypeInv, TypeOK, Goto, opVars
    <3>1. CASE ThreadInit(o)
      BY <3>1 DEF ThreadInit, PublishInit
    <3>2. CASE LoopCheck(o) \/ BatchDone(o) \/ EpollInterrupted(o)
      BY <3>2 DEF LoopCheck, BatchDone, EpollInterrupted
    <3>3. CASE \E B \in SUBSET Ready(o) : EpollWait(o, B)
      BY <3>3 DEF EpollWait
    <3>4. CASE HandleTimer(o) \/ HandleTimerSpurious(o)
      BY <3>4 DEF HandleTimer, HandleTimerSpurious, CleanClients
    <3>5. CASE HandleClientKeep(o) \/ HandleClientClose(o) \/ NullHandler(o)
      BY <3>5 DEF HandleClientKeep, HandleClientClose, NullHandler
    <3>6. CASE HandleHangup(o)
      BY <3>6 DEF HandleHangup
    <3>7. CASE RemoveClientUpdate(o) \/ AddClientUpdate(o)
      BY <3>7 DEF RemoveClientUpdate, AddClientUpdate
    <3>8. CASE CheckActive(o)
      BY <3>8 DEF CheckActive
    <3>9. CASE AddClient(o) \/ AddClientFails(o)
      BY <3>9 DEF AddClient, AddClientFails
    <3> QED
      BY <1>7, <3>1, <3>2, <3>3, <3>4, <3>5, <3>6, <3>7, <3>8, <3>9 DEF ThreadStep, OperatorStep
  <2>2. SameHandoff(o)
    BY <1>0, <1>1, <2>1 DEF SameHandoff, PushUncounted, PushUnsignalled
  <2> QED
    BY <2>2, HandoffFrame
<1> QED
  BY <1>3, <1>4, <1>5, <1>6, <1>7

\* The hand-off stays consistent in every reachable state.
LEMMA HandoffCorrect == Spec => [](TypeInv /\ NotCreatedYet /\ HandoffInv)
<1> DEFINE Inv == TypeInv /\ NotCreatedYet /\ HandoffInv
<1>1. Init => NotCreatedYet /\ HandoffInv
  <2> SUFFICES ASSUME Init PROVE NotCreatedYet /\ \A o \in Ops : HandoffAt(o)
    BY HandoffSplit
  <2>1. NotCreatedYet
    BY DEF Init, OpInit, NotCreatedYet
  <2>2. ASSUME NEW o \in Ops PROVE HandoffAt(o)
    <3>1. ring[o] = <<>> /\ queued[o] = 0 /\ wakeup[o] = 0 /\ opc[o] = "off" /\ lpc = "accept"
      BY DEF Init, OpInit
    <3> QED
      BY <3>1, OperatorAssumption DEF HandoffAt, QueuedCount, PushUncounted, PushUnsignalled, One
  <2> QED
    BY <2>1, <2>2
<1>2. TypeInv /\ TypeInv' /\ NotCreatedYet /\ HandoffInv /\ [Next]_vars => NotCreatedYet' /\ HandoffInv'
  <2> SUFFICES ASSUME TypeInv, TypeInv', NotCreatedYet, HandoffInv, [Next]_vars
               PROVE  NotCreatedYet' /\ HandoffInv'
    OBVIOUS
  <2>1. CASE Next
    <3>1. NotCreatedYet'
      BY <2>1, NotCreatedStep
    <3>2. ASSUME NEW o \in Ops PROVE HandoffAt(o)'
      <4>1. HandoffAt(o)
        BY HandoffSplit
      <4>2. CASE ListenerStep
        BY <4>1, <4>2, HandoffListener
      <4>3. CASE BootStep
        BY <4>1, <4>3, HandoffBoot
      <4>4. ASSUME NEW p \in Ops, ThreadStep(p) PROVE HandoffAt(o)'
        BY <4>1, <4>4, HandoffThread
      <4>5. CASE Ended
        BY <4>1, <4>5 DEF Ended, vars, opVars, listenerVars, HandoffAt, QueuedCount, PushUncounted, PushUnsignalled,
           One
      <4> QED
        BY <2>1, <4>2, <4>3, <4>4, <4>5 DEF Next
    <3>3. HandoffInv'
      BY <3>2 DEF HandoffInv, RingBounded, QueuedExact, WakeupCovers, HandoffAt, QueuedCount
    <3> QED
      BY <3>1, <3>3
  <2>2. CASE UNCHANGED vars
    BY <2>2 DEF vars, opVars, listenerVars, bootVars, NotCreatedYet, HandoffInv, RingBounded, QueuedExact,
       WakeupCovers, PushUncounted, PushUnsignalled, One
  <2> QED
    BY <2>1, <2>2
<1>3. Spec => []TypeInv
  BY TypeCorrect DEF TypeInv
<1> QED
  BY <1>1, <1>2, <1>3, PTL DEF Spec

\* queued_clients is exact at every moment, whatever the interleaving of the listener's push and count with
\* the operator's pop and count.
THEOREM QueuedExactHolds == Spec => []QueuedExact
BY HandoffCorrect, PTL DEF HandoffInv

\* An operator never blocks in epoll_wait with a connection in its ring that nothing will wake it for.
THEOREM NoWakeupLost == Spec => []NoLostWakeup
<1>1. TypeInv /\ HandoffInv => NoLostWakeup
  <2> SUFFICES ASSUME TypeInv, HandoffInv, NEW o \in Ops, opc[o] = "epoll", ringLive[o], wakeup[o] = 0,
                      ~PushUnsignalled(o)
               PROVE  ring[o] = <<>>
    BY DEF NoLostWakeup
  <2>1. HandoffAt(o)
    BY HandoffSplit
  <2>2. Len(ring[o]) <= 0 /\ ring[o] \in Seq(Fd)
    BY <2>1 DEF HandoffAt, One, TypeInv, TypeOK
  <2> QED
    BY <2>2
<1> QED
  BY <1>1, HandoffCorrect, PTL

(***************************************************************************)
(* Ownership: where the connection is while it is handed over.             *)
(***************************************************************************)

\* Holders(c) as a relation: place <<k, o, i>> refers to connection c.
HolderAt(c, k, o, i) ==
    \/ k = "backlog"  /\ o = 0 /\ i = 0 /\ c \in backlog
    \/ k = "closed"   /\ o = 0 /\ i = 0 /\ c \in closed
    \/ k = "leaked"   /\ o = 0 /\ i = 0 /\ c \in leaked
    \/ k = "listener" /\ o = 0 /\ i = 0 /\ c = lfd
    \/ k = "ring"     /\ o \in Ops /\ i \in DOMAIN ring[o] /\ ring[o][i] = c
    \/ k = "popped"   /\ o \in Ops /\ i = 0 /\ popped[o] = c
    \/ k = "slot"     /\ o \in Ops /\ i \in Slots /\ slot[o][i] = c

HeldAt(c, k0, o0, i0) == \A k, o, i : HolderAt(c, k, o, i) <=> k = k0 /\ o = o0 /\ i = i0

Held(c) == \E k, o, i : HeldAt(c, k, o, i)

\* The relation and the set of holders are the same thing.
LEMMA HoldersAre ==
    ASSUME NEW c PROVE \A h : h \in Holders(c) <=> \E k, o, i : h = <<k, o, i>> /\ HolderAt(c, k, o, i)
<1> TAKE h
<1> DEFINE R(o) == {<<"ring", o, i>> : i \in {i \in DOMAIN ring[o] : ring[o][i] = c}}
           P == {<<"popped", o, 0>> : o \in {o \in Ops : popped[o] = c}}
           T(o) == {<<"slot", o, s>> : s \in {s \in Slots : slot[o][s] = c}}
           L == {<<"backlog", 0, 0>> : x \in {c} \cap backlog} \cup {<<"closed", 0, 0>> : x \in {c} \cap closed}
                \cup {<<"leaked", 0, 0>> : x \in {c} \cap leaked} \cup {<<"listener", 0, 0>> : x \in {c} \cap {lfd}}
<1>1. h \in Holders(c) <=> h \in L \/ h \in P \/ (\E o \in Ops : h \in R(o)) \/ (\E o \in Ops : h \in T(o))
  <2>1. Holders(c) = L \cup P \cup (UNION {R(o) : o \in Ops}) \cup (UNION {T(o) : o \in Ops})
    BY DEF Holders
  <2> HIDE DEF L, P, R, T
  <2> QED
    BY <2>1
<1>2. h \in L <=> \/ h = <<"backlog", 0, 0>> /\ c \in backlog
                  \/ h = <<"closed", 0, 0>> /\ c \in closed
                  \/ h = <<"leaked", 0, 0>> /\ c \in leaked
                  \/ h = <<"listener", 0, 0>> /\ c = lfd
  OBVIOUS
<1>3. h \in P <=> \E o \in Ops : popped[o] = c /\ h = <<"popped", o, 0>>
  OBVIOUS
<1>4. \A o \in Ops : h \in R(o) <=> \E i \in DOMAIN ring[o] : ring[o][i] = c /\ h = <<"ring", o, i>>
  OBVIOUS
<1>5. \A o \in Ops : h \in T(o) <=> \E i \in Slots : slot[o][i] = c /\ h = <<"slot", o, i>>
  OBVIOUS
<1> HIDE DEF L, P, R, T
<1> QED
  BY <1>1, <1>2, <1>3, <1>4, <1>5 DEF HolderAt

\* A connection held once has one holder.
LEMMA HeldOnce ==
    ASSUME NEW c, Held(c) PROVE Cardinality(Holders(c)) = 1
<1>1. PICK k, o, i : HeldAt(c, k, o, i)
  BY DEF Held
<1>2. Holders(c) = {<<k, o, i>>}
  BY <1>1, HoldersAre DEF HeldAt
<1> QED
  BY <1>2, FS_Singleton

\* The two ways a connection stays held: nothing that refers to it changes, or one place passes it to another.
LEMMA HeldFrame ==
    ASSUME NEW c, Held(c), \A k, o, i : HolderAt(c, k, o, i)' <=> HolderAt(c, k, o, i)
    PROVE  Held(c)'
BY DEF Held, HeldAt

Passed(c, k0, o0, i0, k1, o1, i1) ==
    /\ HolderAt(c, k0, o0, i0)
    /\ \A k, o, i : HolderAt(c, k, o, i)' <=> \/ k = k1 /\ o = o1 /\ i = i1
                                              \/ HolderAt(c, k, o, i) /\ ~(k = k0 /\ o = o0 /\ i = i0)

LEMMA HeldMove ==
    ASSUME NEW c, Held(c), NEW k0, NEW o0, NEW i0, NEW k1, NEW o1, NEW i1,
           Passed(c, k0, o0, i0, k1, o1, i1)
    PROVE  Held(c)'
<1>1. HeldAt(c, k0, o0, i0)
  BY DEF Held, HeldAt, Passed
<1>2. \A k, o, i : HolderAt(c, k, o, i)' <=> k = k1 /\ o = o1 /\ i = i1
  <2>1. \A k, o, i : HolderAt(c, k, o, i) <=> k = k0 /\ o = o0 /\ i = i0
    BY <1>1 DEF HeldAt
  <2>2. \A k, o, i : HolderAt(c, k, o, i)' <=> \/ k = k1 /\ o = o1 /\ i = i1
                                               \/ HolderAt(c, k, o, i) /\ ~(k = k0 /\ o = o0 /\ i = i0)
    BY DEF Passed
  <2> QED
    BY <2>1, <2>2
<1>3. HeldAt(c, k1, o1, i1)'
  BY <1>2 DEF HeldAt
<1> QED
  BY <1>3 DEF Held

\* A step that changes none of the places a connection may be in.
LEMMA HeldSame ==
    ASSUME NEW c, Held(c), c \in backlog' <=> c \in backlog, c \in closed' <=> c \in closed,
           c \in leaked' <=> c \in leaked, c = lfd' <=> c = lfd, \A o \in Ops : ring'[o] = ring[o],
           \A o \in Ops : popped'[o] = c <=> popped[o] = c,
           \A o \in Ops : \A i \in Slots : slot'[o][i] = c <=> slot[o][i] = c
    PROVE  Held(c)'
<1>1. \A k, o, i : HolderAt(c, k, o, i)' <=> HolderAt(c, k, o, i)
  BY DEF HolderAt
<1> QED
  BY <1>1, HeldFrame

\* Closing a set of an operator's busy slots passes each of their connections from its slot to closed.
LEMMA HeldCloseSlots ==
    ASSUME TypeInv, NEW c \in Fd, Held(c), NEW o \in Ops, NEW S \in SUBSET BusySlots(o), CloseSlots(o, S),
           UNCHANGED <<backlog, leaked, lfd, ring, popped>>
    PROVE  Held(c)'
<1>0. c # NoFd /\ S \subseteq Slots
  BY OperatorAssumption DEF BusySlots
<1>1. /\ \A p \in Ops : \A t \in Slots : slot'[p][t] = IF p = o /\ t \in S THEN NoFd ELSE slot[p][t]
      /\ closed' = closed \cup {slot[o][s] : s \in S}
  BY DEF CloseSlots, TypeInv, TypeOK
<1>2. CASE \E s \in S : slot[o][s] = c
  <2>1. PICK s \in S : slot[o][s] = c
    BY <1>2
  <2>2. HolderAt(c, "slot", o, s)
    BY <1>0, <2>1 DEF HolderAt
  <2>3. HeldAt(c, "slot", o, s)
    BY <2>2 DEF Held, HeldAt
  <2>4. \A p \in Ops : \A t \in Slots : slot[p][t] = c => p = o /\ t = s
    <3>1. \A p \in Ops : \A t \in Slots : slot[p][t] = c => HolderAt(c, "slot", p, t)
      BY DEF HolderAt
    <3> QED
      BY <2>3, <3>1 DEF HeldAt
  <2>5. \A p \in Ops : \A t \in Slots : slot'[p][t] # c
    BY <1>0, <1>1, <2>1, <2>4
  <2>6. c \in closed'
    BY <1>1, <2>1
  <2>7. c \notin closed
    <3>1. ~HolderAt(c, "closed", 0, 0)
      BY <2>3 DEF HeldAt
    <3> QED
      BY <3>1 DEF HolderAt
  <2>8. Passed(c, "slot", o, s, "closed", 0, 0)
    BY <2>2, <2>4, <2>5, <2>6, <2>7 DEF HolderAt, Passed
  <2> QED
    BY <2>8, HeldMove
<1>3. CASE ~\E s \in S : slot[o][s] = c
  <2>1. c \in closed' <=> c \in closed
    BY <1>1, <1>3
  <2>2. \A p \in Ops : \A i \in Slots : slot'[p][i] = c <=> slot[p][i] = c
    BY <1>0, <1>1, <1>3
  <2> QED
    BY <2>1, <2>2, HeldSame
<1> QED
  BY <1>2, <1>3

\* A held connection found in one place is in no other.
LEMMA HeldElsewhere ==
    ASSUME NEW c, Held(c), NEW k0, NEW o0, NEW i0, HolderAt(c, k0, o0, i0) PROVE HeldAt(c, k0, o0, i0)
BY DEF Held, HeldAt

\* Every action of the listener: accept, push and the rejection each pass one connection on.
LEMMA HeldListener ==
    ASSUME TypeInv, LocalsClear, ListenerStep, NEW c \in Fd, Held(c) PROVE Held(c)'
<1>0. c # NoFd
  BY OperatorAssumption
<1>1. ASSUME NEW d \in Fd, Accept(d) PROVE Held(c)'
  <2>0. /\ d \in backlog /\ backlog' = backlog \ {d} /\ lfd = NoFd /\ lfd' = d
        /\ UNCHANGED <<closed, leaked, ring, popped, slot>>
    BY <1>1 DEF Accept, LGoto, LocalsClear, opVars
  <2>1. CASE c = d
    <3>1. HolderAt(c, "backlog", 0, 0)
      BY <2>0, <2>1 DEF HolderAt
    <3>2. Passed(c, "backlog", 0, 0, "listener", 0, 0)
      BY <1>0, <2>0, <2>1, <3>1 DEF HolderAt, Passed
    <3> QED
      BY <3>2, HeldMove
  <2>2. CASE c # d
    BY <1>0, <2>0, <2>2, HeldSame
  <2> QED
    BY <2>1, <2>2
<1>2. CASE Push
  <2>0. idx \in Ops /\ lfd \in Fd /\ ring[idx] \in Seq(Fd)
    BY <1>2 DEF Push, TypeInv, TypeOK, LocalsOK
  <2>1. CASE RingHasRoom(idx)
    <3>0. /\ ring' = [ring EXCEPT ![idx] = Append(ring[idx], lfd)] /\ lfd' = NoFd
          /\ UNCHANGED <<backlog, closed, leaked, popped, slot>>
      BY <1>2, <2>1 DEF Push
    <3> DEFINE n == Len(ring[idx]) + 1
    <3>1. \A o \in Ops : o # idx => ring'[o] = ring[o]
      BY <3>0 DEF TypeInv, TypeOK
    <3>2. /\ ring'[idx] = Append(ring[idx], lfd) /\ DOMAIN ring[idx] = 1..(n - 1) /\ n \in Nat
          /\ DOMAIN ring'[idx] = 1..n /\ ring'[idx][n] = lfd
          /\ \A i \in 1..(n - 1) : ring'[idx][i] = ring[idx][i]
      <4>1. ring'[idx] = Append(ring[idx], lfd)
        BY <2>0, <3>0 DEF TypeInv, TypeOK
      <4> QED
        BY <2>0, <4>1
    <3>3. /\ \A i : i \in DOMAIN ring'[idx] <=> i \in DOMAIN ring[idx] \/ i = n
          /\ n \notin DOMAIN ring[idx]
      BY <3>2
    <3>4. \A i \in DOMAIN ring[idx] : ring'[idx][i] = ring[idx][i]
      BY <3>2
    <3>5. ring'[idx][n] = lfd
      BY <3>2
    <3> HIDE DEF n
    <3>6. CASE c = lfd
      <4>1. HolderAt(c, "listener", 0, 0)
        BY <3>6 DEF HolderAt
      <4>2. HeldAt(c, "listener", 0, 0)
        BY <4>1, HeldElsewhere
      <4>3. Passed(c, "listener", 0, 0, "ring", idx, n)
        BY <1>0, <2>0, <3>0, <3>1, <3>3, <3>4, <3>5, <3>6, <4>1 DEF HolderAt, Passed
      <4> QED
        BY <4>3, HeldMove
    <3>7. CASE c # lfd
      <4>1. \A k, o, i : HolderAt(c, k, o, i)' <=> HolderAt(c, k, o, i)
        BY <1>0, <2>0, <3>0, <3>1, <3>3, <3>4, <3>5, <3>7 DEF HolderAt
      <4> QED
        BY <4>1, HeldFrame
    <3> QED
      BY <3>6, <3>7
  <2>2. CASE ~RingHasRoom(idx)
    <3>1. UNCHANGED <<backlog, lfd, closed, leaked, ring, popped, slot>>
      BY <1>2, <2>2 DEF Push
    <3> QED
      BY <3>1, HeldSame
  <2> QED
    BY <2>1, <2>2
<1>3. CASE Reject
  <2>0. closed' = closed \cup {lfd} /\ lfd' = NoFd /\ UNCHANGED <<backlog, leaked, ring, popped, slot>>
    BY <1>3 DEF Reject
  <2>1. CASE c = lfd
    <3>1. HolderAt(c, "listener", 0, 0)
      BY <2>1 DEF HolderAt
    <3>2. HeldAt(c, "listener", 0, 0)
      BY <3>1, HeldElsewhere
    <3>3. Passed(c, "listener", 0, 0, "closed", 0, 0)
      BY <1>0, <2>0, <2>1, <3>1, <3>2 DEF HolderAt, Passed
    <3> QED
      BY <3>3, HeldMove
  <2>2. CASE c # lfd
    BY <1>0, <2>0, <2>2, HeldSame
  <2> QED
    BY <2>1, <2>2
<1>4. CASE \/ StopListener \/ Dispatch \/ ScanStatus \/ ScanActive \/ ScanQueued \/ HealthCheck \/ CountQueued
           \/ SignalOperator \/ UseAfterFree
  <2>1. UNCHANGED <<backlog, lfd, closed, leaked, ring, popped, slot>>
    BY <1>4 DEF StopListener, Dispatch, ScanStatus, ScanActive, ScanQueued, HealthCheck, CountQueued,
       SignalOperator, UseAfterFree, opVars, listenerVars
  <2> QED
    BY <2>1, HeldSame
<1> QED
  BY <1>1, <1>2, <1>3, <1>4 DEF ListenerStep

\* The boot thread: operator_shutdown drops what is in the ring and closes what is in the slots.
LEMMA HeldBoot ==
    ASSUME TypeInv, BootStep, NEW c \in Fd, Held(c) PROVE Held(c)'
<1>0. c # NoFd /\ opIdx \in Ops
  BY OperatorAssumption DEF TypeInv, TypeOK
<1>1. CASE OperatorShutdown
  <2>0. UNCHANGED <<backlog, lfd, popped>>
    BY <1>1 DEF OperatorShutdown, listenerVars
  <2>1. /\ \A o \in Ops : ring'[o] = IF o = opIdx THEN <<>> ELSE ring[o]
        /\ \A o \in Ops : \A s \in Slots : slot'[o][s] = IF o = opIdx THEN NoFd ELSE slot[o][s]
    BY <1>1 DEF OperatorShutdown, TypeInv, TypeOK
  <2>2. c \in leaked' <=> c \in leaked \/ \E i \in DOMAIN ring[opIdx] : ring[opIdx][i] = c
    BY <1>1 DEF OperatorShutdown
  <2>3. c \in closed' <=> c \in closed \/ \E s \in Slots : slot[opIdx][s] = c
    BY <1>0, <1>1 DEF OperatorShutdown, BusySlots
  <2>4. DOMAIN <<>> = {}
    OBVIOUS
  <2>5. CASE \E i \in DOMAIN ring[opIdx] : ring[opIdx][i] = c
    <3>1. PICK i \in DOMAIN ring[opIdx] : ring[opIdx][i] = c
      BY <2>5
    <3>2. HolderAt(c, "ring", opIdx, i)
      BY <1>0, <3>1 DEF HolderAt
    <3>3. HeldAt(c, "ring", opIdx, i)
      BY <3>2, HeldElsewhere
    <3>4. ~HolderAt(c, "closed", 0, 0) /\ \A s \in Slots : ~HolderAt(c, "slot", opIdx, s)
      BY <3>3 DEF HeldAt
    <3>5. c \notin closed' /\ c \in leaked'
      BY <1>0, <2>2, <2>3, <3>1, <3>4 DEF HolderAt
    <3>6. Passed(c, "ring", opIdx, i, "leaked", 0, 0)
      <4>1. \A k, o, j : HolderAt(c, k, o, j) <=> k = "ring" /\ o = opIdx /\ j = i
        BY <3>3 DEF HeldAt
      <4>2. \A k, o, j : HolderAt(c, k, o, j)' <=> k = "leaked" /\ o = 0 /\ j = 0
        <5>1. c \notin backlog /\ c # lfd
          BY <4>1 DEF HolderAt
        <5>2. \A o \in Ops : popped[o] # c
          BY <4>1 DEF HolderAt
        <5>3. \A o \in Ops : \A j \in DOMAIN ring[o] : ring[o][j] = c => o = opIdx
          BY <4>1 DEF HolderAt
        <5>4. \A o \in Ops : \A s \in Slots : slot[o][s] # c
          BY <4>1 DEF HolderAt
        <5> QED
          BY <1>0, <2>0, <2>1, <2>4, <3>5, <5>1, <5>2, <5>3, <5>4 DEF HolderAt
      <4> QED
        BY <4>1, <4>2 DEF Passed
    <3> QED
      BY <3>6, HeldMove
  <2>6. CASE \E s \in Slots : slot[opIdx][s] = c
    <3>1. PICK s \in Slots : slot[opIdx][s] = c
      BY <2>6
    <3>2. HolderAt(c, "slot", opIdx, s)
      BY <1>0, <3>1 DEF HolderAt
    <3>3. HeldAt(c, "slot", opIdx, s)
      BY <3>2, HeldElsewhere
    <3>4. \A k, o, j : HolderAt(c, k, o, j) <=> k = "slot" /\ o = opIdx /\ j = s
      BY <3>3 DEF HeldAt
    <3>5. c \notin backlog /\ c # lfd /\ c \notin leaked
      BY <3>4 DEF HolderAt
    <3>6. \A o \in Ops : popped[o] # c
      BY <3>4 DEF HolderAt
    <3>7. \A o \in Ops : \A j \in DOMAIN ring[o] : ring[o][j] # c
      BY <3>4 DEF HolderAt
    <3>8. \A o \in Ops : \A t \in Slots : slot[o][t] = c => o = opIdx
      BY <3>4 DEF HolderAt
    <3>9. c \notin leaked' /\ c \in closed'
      BY <1>0, <2>2, <2>3, <3>1, <3>5, <3>7
    <3>10. \A k, o, j : HolderAt(c, k, o, j)' <=> k = "closed" /\ o = 0 /\ j = 0
      BY <1>0, <2>0, <2>1, <2>4, <3>5, <3>6, <3>7, <3>8, <3>9 DEF HolderAt
    <3>11. Passed(c, "slot", opIdx, s, "closed", 0, 0)
      BY <3>4, <3>10 DEF Passed
    <3> QED
      BY <3>11, HeldMove
  <2>7. CASE /\ ~\E i \in DOMAIN ring[opIdx] : ring[opIdx][i] = c
             /\ ~\E s \in Slots : slot[opIdx][s] = c
    <3>1. \A k, o, j : HolderAt(c, k, o, j)' <=> HolderAt(c, k, o, j)
      BY <1>0, <2>0, <2>1, <2>2, <2>3, <2>4, <2>7 DEF HolderAt
    <3> QED
      BY <3>1, HeldFrame
  <2> QED
    BY <2>5, <2>6, <2>7
<1>2. CASE ~OperatorShutdown
  <2>1. UNCHANGED <<backlog, lfd, closed, leaked, ring, popped, slot>>
    BY <1>2 DEF BootStep, CreateThread, CreateFails, UndoStore, DestroyStore, RequestStore, UndoWrite, UndoJoin,
       AwaitActive, AwaitFails, Destroy, DestroyWrite, RequestWrite, JoinThread, FreeOperators, JoinListener,
       DrainEnds, opVars, listenerVars
  <2> QED
    BY <2>1, HeldSame
<1> QED
  BY <1>1, <1>2

\* The wakeup handler drops the connection it has popped.
LEMMA HeldDrop ==
    ASSUME TypeInv, NEW c \in Fd, Held(c), NEW o \in Ops, DropPopped(o),
           UNCHANGED <<backlog, lfd, closed, ring, slot>>
    PROVE  Held(c)'
<1>0. c # NoFd
  BY OperatorAssumption
<1>1. \A p \in Ops : popped'[p] = IF p = o THEN NoFd ELSE popped[p]
  BY DEF DropPopped, TypeInv, TypeOK
<1>2. leaked' = leaked \cup {popped[o]}
  BY DEF DropPopped
<1>3. CASE c = popped[o]
  <2>1. HolderAt(c, "popped", o, 0)
    BY <1>3 DEF HolderAt
  <2>2. \A k, p, i : HolderAt(c, k, p, i) <=> k = "popped" /\ p = o /\ i = 0
    BY <2>1, HeldElsewhere DEF HeldAt
  <2>3. Passed(c, "popped", o, 0, "leaked", 0, 0)
    BY <1>0, <1>1, <1>2, <1>3, <2>1, <2>2 DEF HolderAt, Passed
  <2> QED
    BY <2>3, HeldMove
<1>4. CASE c # popped[o]
  BY <1>0, <1>1, <1>2, <1>4, HeldSame
<1> QED
  BY <1>3, <1>4

\* spsc_ring_pop takes the oldest connection of the ring and moves up the others.
LEMMA HeldPop ==
    ASSUME TypeInv, LocalsClear, NEW c \in Fd, Held(c), NEW o \in Ops, PopClient(o), UNCHANGED <<backlog, lfd>>
    PROVE  Held(c)'
<1>0. c # NoFd /\ UNCHANGED <<backlog, lfd, closed, leaked, slot>>
  BY OperatorAssumption DEF PopClient
<1>1. CASE ring[o] = <<>>
  BY <1>0, <1>1, HeldSame DEF PopClient
<1>2. CASE ring[o] # <<>>
  <2> DEFINE n == Len(ring[o])
  <2>1. /\ ring' = [ring EXCEPT ![o] = Tail(ring[o])] /\ popped' = [popped EXCEPT ![o] = Head(ring[o])]
        /\ popped[o] = NoFd
    BY <1>2 DEF PopClient, LocalsClear, Goto
  <2>2. /\ \A p \in Ops : p # o => ring'[p] = ring[p] /\ popped'[p] = popped[p]
        /\ ring'[o] = Tail(ring[o]) /\ popped'[o] = Head(ring[o])
    BY <2>1 DEF TypeInv, TypeOK
  <2>3. ring[o] \in Seq(Fd)
    BY DEF TypeInv, TypeOK
  <2>4. /\ n \in Nat /\ n >= 1 /\ DOMAIN ring[o] = 1..n /\ DOMAIN ring'[o] = 1..(n - 1)
        /\ popped'[o] = ring[o][1]
        /\ \A i \in 1..(n - 1) : ring'[o][i] = ring[o][i + 1]
    BY <1>2, <2>2, <2>3
  <2> HIDE DEF n
  <2>5. CASE \E j \in DOMAIN ring[o] : ring[o][j] = c
    <3>1. PICK j \in DOMAIN ring[o] : ring[o][j] = c
      BY <2>5
    <3>2. HolderAt(c, "ring", o, j)
      BY <3>1 DEF HolderAt
    <3>3. \A k, p, i : HolderAt(c, k, p, i) <=> k = "ring" /\ p = o /\ i = j
      BY <3>2, HeldElsewhere DEF HeldAt
    <3>4. /\ c \notin backlog /\ c # lfd /\ c \notin closed /\ c \notin leaked
          /\ \A p \in Ops : popped[p] # c
      BY <3>3 DEF HolderAt
    <3>5. \A p \in Ops : \A s \in Slots : slot[p][s] # c
      BY <3>3 DEF HolderAt
    <3>6. \A p \in Ops : \A i \in DOMAIN ring[p] : ring[p][i] = c => p = o /\ i = j
      BY <3>3 DEF HolderAt
    <3>7. j \in 1..n
      BY <2>4, <3>1
    <3>8. CASE j = 1
      <4>1. \A p \in Ops : popped'[p] = c <=> p = o
        BY <2>2, <2>4, <3>1, <3>4, <3>8
      <4>2. \A p \in Ops : \A i \in DOMAIN ring'[p] : ring'[p][i] # c
        <5>1. \A i \in 1..(n - 1) : ring'[o][i] # c
          BY <2>4, <3>6, <3>8
        <5> QED
          BY <2>2, <2>4, <3>6, <5>1
      <4>3. Passed(c, "ring", o, j, "popped", o, 0)
        <5>1. \A k, p, i : HolderAt(c, k, p, i)' <=> k = "popped" /\ p = o /\ i = 0
          BY <1>0, <3>4, <3>5, <4>1, <4>2 DEF HolderAt
        <5> QED
          BY <3>3, <5>1 DEF Passed
      <4> QED
        BY <4>3, HeldMove
    <3>9. CASE j # 1
      <4>1. \A p \in Ops : popped'[p] # c
        <5>1. popped'[o] # c
          BY <2>4, <3>6, <3>9
        <5> QED
          BY <2>2, <3>4, <5>1
      <4>2. j - 1 \in DOMAIN ring'[o] /\ ring'[o][j - 1] = c
        BY <2>4, <3>1, <3>7, <3>9
      <4>3. \A p \in Ops : \A i \in DOMAIN ring'[p] : ring'[p][i] = c => p = o /\ i = j - 1
        <5>1. \A i \in 1..(n - 1) : ring'[o][i] = c => i = j - 1
          BY <2>4, <3>6, <3>7
        <5> QED
          BY <2>2, <2>4, <3>6, <5>1
      <4>4. Passed(c, "ring", o, j, "ring", o, j - 1)
        <5>1. \A k, p, i : HolderAt(c, k, p, i)' <=> k = "ring" /\ p = o /\ i = j - 1
          BY <1>0, <3>4, <3>5, <4>1, <4>2, <4>3 DEF HolderAt
        <5> QED
          BY <3>3, <5>1 DEF Passed
      <4> QED
        BY <4>4, HeldMove
    <3> QED
      BY <3>8, <3>9
  <2>6. CASE ~\E j \in DOMAIN ring[o] : ring[o][j] = c
    <3>1. \A p \in Ops : popped'[p] = c <=> popped[p] = c
      BY <1>0, <2>1, <2>2, <2>4, <2>6
    <3>2. \A i \in DOMAIN ring'[o] : ring'[o][i] # c
      <4>1. ASSUME NEW i \in 1..(n - 1) PROVE ring[o][i + 1] # c
        <5>1. i + 1 \in DOMAIN ring[o]
          BY <2>4
        <5> QED
          BY <2>6, <5>1
      <4> QED
        BY <2>4, <4>1
    <3>3. \A p \in Ops : \A i : i \in DOMAIN ring'[p] /\ ring'[p][i] = c <=> i \in DOMAIN ring[p] /\ ring[p][i] = c
      BY <2>2, <2>6, <3>2
    <3>4. \A k, p, i : HolderAt(c, k, p, i)' <=> HolderAt(c, k, p, i)
      BY <1>0, <3>1, <3>3 DEF HolderAt
    <3> QED
      BY <3>4, HeldFrame
  <2> QED
    BY <2>5, <2>6
<1> QED
  BY <1>1, <1>2

\* _operator_add_client puts the popped connection in the first free slot.
LEMMA HeldAdd ==
    ASSUME TypeInv, NEW c \in Fd, Held(c), NEW o \in Ops, AddClient(o), FreeSlots(o) # {},
           UNCHANGED <<backlog, lfd>>
    PROVE  Held(c)'
<1>0. c # NoFd /\ UNCHANGED <<backlog, lfd, closed, leaked, ring>>
  BY OperatorAssumption DEF AddClient
<1>1. PICK s \in Slots : slot[o][s] = NoFd /\ slot' = [slot EXCEPT ![o][s] = popped[o]]
  <2>1. FreeSlots(o) \in SUBSET Slots
    BY DEF FreeSlots
  <2>2. \E s \in FreeSlots(o) : \A t \in FreeSlots(o) : s <= t
    BY <2>1, FirstFree
  <2>3. PICK s \in FreeSlots(o) : slot' = [slot EXCEPT ![o][s] = popped[o]]
    BY <2>2 DEF AddClient
  <2> QED
    BY <2>3 DEF FreeSlots, BusySlots
<1>2. /\ \A p \in Ops : \A t \in Slots : slot'[p][t] = IF p = o /\ t = s THEN popped[o] ELSE slot[p][t]
      /\ \A p \in Ops : popped'[p] = IF p = o THEN NoFd ELSE popped[p]
  <2>1. slot \in [Ops -> [Slots -> Fd \cup {NoFd}]] /\ popped \in [Ops -> Fd \cup {NoFd}]
    BY DEF TypeInv, TypeOK
  <2>2. popped' = [popped EXCEPT ![o] = NoFd]
    BY DEF AddClient
  <2> QED
    BY <1>1, <2>1, <2>2
<1>3. CASE c = popped[o]
  <2>1. HolderAt(c, "popped", o, 0)
    BY <1>3 DEF HolderAt
  <2>2. \A k, p, i : HolderAt(c, k, p, i) <=> k = "popped" /\ p = o /\ i = 0
    BY <2>1, HeldElsewhere DEF HeldAt
  <2>3. /\ c \notin backlog /\ c # lfd /\ c \notin closed /\ c \notin leaked
        /\ \A p \in Ops : \A i \in DOMAIN ring[p] : ring[p][i] # c
    BY <2>2 DEF HolderAt
  <2>4. \A p \in Ops : \A t \in Slots : slot[p][t] # c
    BY <2>2 DEF HolderAt
  <2>5. \A p \in Ops : popped[p] = c => p = o
    BY <2>2 DEF HolderAt
  <2>6. \A k, p, i : HolderAt(c, k, p, i)' <=> k = "slot" /\ p = o /\ i = s
    BY <1>0, <1>2, <1>3, <2>3, <2>4, <2>5 DEF HolderAt
  <2>7. Passed(c, "popped", o, 0, "slot", o, s)
    BY <2>2, <2>6 DEF Passed
  <2> QED
    BY <2>7, HeldMove
<1>4. CASE c # popped[o]
  <2>1. \A p \in Ops : popped'[p] = c <=> popped[p] = c
    BY <1>0, <1>2, <1>4
  <2>2. \A p \in Ops : \A i \in Slots : slot'[p][i] = c <=> slot[p][i] = c
    BY <1>0, <1>1, <1>2, <1>4
  <2> QED
    BY <1>0, <2>1, <2>2, HeldSame
<1> QED
  BY <1>3, <1>4

\* Every action of an operator's thread.
LEMMA HeldThread ==
    ASSUME TypeInv, LocalsClear, NEW o \in Ops, ThreadStep(o), NEW c \in Fd, Held(c) PROVE Held(c)'
<1>0. UNCHANGED <<backlog, lfd>>
  BY DEF ThreadStep, listenerVars
<1>1. CASE HandleTimer(o)
  <2>1. PICK S \in SUBSET BusySlots(o) : CloseSlots(o, S)
    BY <1>1 DEF HandleTimer, CleanClients
  <2>2. UNCHANGED <<leaked, ring, popped>>
    BY <1>1 DEF HandleTimer
  <2> QED
    BY <1>0, <2>1, <2>2, HeldCloseSlots
<1>2. CASE HandleClientClose(o)
  <2>1. PICK e \in batch[o] : e.kind = "in" /\ slot[o][e.slot] # NoFd /\ CloseSlots(o, {e.slot})
    BY <1>2 DEF HandleClientClose
  <2>2. {e.slot} \in SUBSET BusySlots(o)
    <3>1. e \in Event
      BY DEF TypeInv, TypeOK
    <3> QED
      BY <2>1, <3>1, EventSlot DEF BusySlots
  <2>3. UNCHANGED <<leaked, ring, popped>>
    BY <1>2 DEF HandleClientClose
  <2> QED
    BY <1>0, <2>1, <2>2, <2>3, HeldCloseSlots
<1>3. CASE HandleHangup(o)
  <2>1. PICK e \in batch[o] :
          /\ e.kind = "hup"
          /\ IF slot[o][e.slot] # NoFd
             THEN CloseSlots(o, {e.slot}) /\ Goto(o, "dispatch", "delUpd")
             ELSE Goto(o, "dispatch", "loop") /\ UNCHANGED <<slot, closed, active>>
    BY <1>3 DEF HandleHangup
  <2>2. UNCHANGED <<leaked, ring, popped>>
    BY <1>3 DEF HandleHangup
  <2>3. CASE slot[o][e.slot] # NoFd
    <3>1. {e.slot} \in SUBSET BusySlots(o)
      <4>1. e \in Event
        BY DEF TypeInv, TypeOK
      <4> QED
        BY <2>1, <2>3, <4>1, EventSlot DEF BusySlots
    <3> QED
      BY <1>0, <2>1, <2>2, <2>3, <3>1, HeldCloseSlots
  <2>4. CASE slot[o][e.slot] = NoFd
    BY <1>0, <2>1, <2>2, <2>4, HeldSame
  <2> QED
    BY <2>3, <2>4
<1>4. CASE PopClient(o)
  BY <1>0, <1>4, HeldPop
<1>5. CASE CheckActive(o)
  <2>1. CASE status[o] = "ACTIVE"
    BY <1>0, <1>5, <2>1, HeldSame DEF CheckActive
  <2>2. CASE status[o] # "ACTIVE"
    BY <1>0, <1>5, <2>2, HeldDrop DEF CheckActive
  <2> QED
    BY <2>1, <2>2
<1>6. CASE AddClient(o)
  <2>1. CASE FreeSlots(o) = {}
    BY <1>0, <1>6, <2>1, HeldDrop DEF AddClient
  <2> QED
    BY <1>0, <1>6, <2>1, HeldAdd
<1>7. CASE AddClientFails(o)
  BY <1>0, <1>7, HeldDrop DEF AddClientFails
<1>8. CASE \/ ThreadInit(o) \/ LoopCheck(o) \/ BatchDone(o) \/ (\E B \in SUBSET Ready(o) : EpollWait(o, B))
           \/ EpollInterrupted(o) \/ HandleWakeup(o) \/ HandleTimerSpurious(o) \/ HandleClientKeep(o)
           \/ NullHandler(o) \/ RemoveClientUpdate(o) \/ CountDequeued(o) \/ AddClientUpdate(o)
  <2>1. UNCHANGED <<closed, leaked, ring, popped, slot>>
    BY <1>8 DEF ThreadInit, LoopCheck, BatchDone, EpollWait, EpollInterrupted, HandleWakeup, HandleTimerSpurious,
       HandleClientKeep, NullHandler, RemoveClientUpdate, CountDequeued, AddClientUpdate, opVars
  <2> QED
    BY <1>0, <2>1, HeldSame
<1> QED
  BY <1>1, <1>2, <1>3, <1>4, <1>5, <1>6, <1>7, <1>8 DEF ThreadStep, OperatorStep

\* A local variable that held a connection is clear once the connection has been passed on.
LEMMA LocalsClearStep ==
    ASSUME TypeInv, NotCreatedYet, LocalsClear, [Next]_vars PROVE LocalsClear'
<1> USE DEF LocalsClear
<1>1. CASE ListenerStep
  <2>1. UNCHANGED <<opc, popped>>
    BY <1>1 DEF ListenerStep, Accept, StopListener, Dispatch, ScanStatus, ScanActive, ScanQueued, HealthCheck,
       Push, CountQueued, SignalOperator, Reject, UseAfterFree, opVars
  <2>2. \/ lpc' \notin {"accept", "add", "write", "done"}
        \/ lfd' = NoFd
        \/ lpc \in {"accept", "add", "write", "done"} /\ lfd' = lfd
    BY <1>1 DEF ListenerStep, Accept, StopListener, Dispatch, ScanStatus, ScanActive, ScanQueued, HealthCheck,
       Push, CountQueued, SignalOperator, Reject, UseAfterFree, listenerVars, LGoto
  <2> QED
    BY <2>1, <2>2
<1>2. CASE CreateThread
  <2>1. opIdx \in Ops /\ opIdx >= opIdx
    BY DEF TypeInv, TypeOK, Ops
  <2>2. opc[opIdx] = "off" /\ opc' = [opc EXCEPT ![opIdx] = "init"] /\ UNCHANGED <<lpc, lfd, popped>>
    BY <1>2, <2>1 DEF CreateThread, LoopOver, MGoto, NotCreatedYet, listenerVars
  <2> QED
    BY <2>1, <2>2 DEF TypeInv, TypeOK
<1>3. CASE (BootStep /\ ~CreateThread) \/ Ended \/ UNCHANGED vars
  <2>1. UNCHANGED <<lpc, lfd, popped, opc>>
    BY <1>3 DEF BootStep, CreateFails, UndoStore, DestroyStore, RequestStore, UndoWrite, UndoJoin,
       AwaitActive, AwaitFails, Destroy, DestroyWrite, RequestWrite, JoinThread, OperatorShutdown, FreeOperators,
       JoinListener, DrainEnds, opVars, listenerVars, Ended, vars
  <2> QED
    BY <2>1
<1>4. ASSUME NEW o \in Ops, ThreadStep(o) PROVE LocalsClear'
  <2>0. UNCHANGED <<lpc, lfd>>
    BY <1>4 DEF ThreadStep, listenerVars
  <2>1. /\ \A p \in Ops \ {o} : opc'[p] = opc[p] /\ popped'[p] = popped[p]
        /\ \/ opc'[o] \in {"sub", "check", "add"}
           \/ popped'[o] = NoFd
           \/ opc[o] \notin {"sub", "check", "add"} /\ popped'[o] = popped[o]
    <3> USE DEF Goto, opVars, TypeInv, TypeOK
    <3>1. CASE ThreadInit(o) \/ LoopCheck(o) \/ BatchDone(o) \/ EpollInterrupted(o)
      BY <3>1 DEF ThreadInit, PublishInit, LoopCheck, BatchDone, EpollInterrupted
    <3>2. CASE \E B \in SUBSET Ready(o) : EpollWait(o, B)
      BY <3>2 DEF EpollWait
    <3>3. CASE HandleWakeup(o) \/ HandleTimer(o) \/ HandleTimerSpurious(o) \/ HandleClientKeep(o)
      BY <3>3 DEF HandleWakeup, HandleTimer, HandleTimerSpurious, HandleClientKeep
    <3>4. CASE HandleClientClose(o) \/ NullHandler(o) \/ HandleHangup(o)
      BY <3>4 DEF HandleClientClose, NullHandler, HandleHangup
    <3>5. CASE RemoveClientUpdate(o) \/ CountDequeued(o) \/ AddClientUpdate(o)
      BY <3>5 DEF RemoveClientUpdate, CountDequeued, AddClientUpdate
    <3>6. CASE PopClient(o)
      BY <3>6 DEF PopClient
    <3>7. CASE CheckActive(o) \/ AddClientFails(o)
      BY <3>7 DEF CheckActive, AddClientFails, DropPopped
    <3>8. CASE AddClient(o)
      BY <3>8 DEF AddClient, DropPopped
    <3> QED
      BY <1>4, <3>1, <3>2, <3>3, <3>4, <3>5, <3>6, <3>7, <3>8 DEF ThreadStep, OperatorStep
  <2> QED
    BY <2>0, <2>1
<1> QED
  BY <1>1, <1>2, <1>3, <1>4 DEF Next

AllHeld == \A c \in Fd : Held(c)

\* No step loses, duplicates or invents an fd.
LEMMA OwnershipCorrect == Spec => [](LocalsClear /\ AllHeld)
<1>1. Init => LocalsClear /\ AllHeld
  <2> SUFFICES ASSUME Init PROVE LocalsClear /\ AllHeld
    OBVIOUS
  <2>1. LocalsClear
    BY DEF Init, OpInit, LocalsClear
  <2>2. ASSUME NEW c \in Fd PROVE Held(c)
    <3>1. /\ c # NoFd /\ c \in backlog /\ lfd = NoFd /\ closed = {} /\ leaked = {}
          /\ \A o \in Ops : ring[o] = <<>> /\ popped[o] = NoFd /\ \A s \in Slots : slot[o][s] = NoFd
      BY OperatorAssumption DEF Init, OpInit
    <3>2. DOMAIN <<>> = {}
      OBVIOUS
    <3>3. HeldAt(c, "backlog", 0, 0)
      BY <3>1, <3>2 DEF HeldAt, HolderAt
    <3> QED
      BY <3>3 DEF Held
  <2> QED
    BY <2>1, <2>2 DEF AllHeld
<1>2. TypeInv /\ NotCreatedYet /\ LocalsClear /\ AllHeld /\ [Next]_vars => LocalsClear' /\ AllHeld'
  <2> SUFFICES ASSUME TypeInv, NotCreatedYet, LocalsClear, AllHeld, [Next]_vars PROVE AllHeld'
    BY LocalsClearStep
  <2> SUFFICES ASSUME NEW c \in Fd PROVE Held(c)'
    BY DEF AllHeld
  <2>0. Held(c)
    BY DEF AllHeld
  <2>1. CASE ListenerStep
    BY <2>0, <2>1, HeldListener
  <2>2. CASE BootStep
    BY <2>0, <2>2, HeldBoot
  <2>3. ASSUME NEW o \in Ops, ThreadStep(o) PROVE Held(c)'
    BY <2>0, <2>3, HeldThread
  <2>4. CASE Ended \/ UNCHANGED vars
    <3>1. UNCHANGED <<backlog, lfd, closed, leaked, ring, popped, slot>>
      BY <2>4 DEF Ended, vars, opVars, listenerVars
    <3> QED
      BY <2>0, <3>1, HeldSame
  <2> QED
    BY <2>1, <2>2, <2>3, <2>4 DEF Next
<1> QED
  BY <1>1, <1>2, HandoffCorrect, PTL DEF Spec

\* Every connection a client opens is at every moment in exactly one place: the accept queue, the listener's
\* hand, one ring cell, one operator's hand, one client slot, or it has been closed or dropped, once.  No
\* interleaving of dispatch, adding, closing and teardown duplicates an fd or closes one that is still held.
THEOREM FdHeldOnceHolds == Spec => []FdHeldOnce
<1>1. AllHeld => FdHeldOnce
  BY HeldOnce DEF AllHeld, FdHeldOnce
<1> QED
  BY <1>1, OwnershipCorrect, PTL
=============================================================================
