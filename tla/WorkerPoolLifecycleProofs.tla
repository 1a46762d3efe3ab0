---------------------- MODULE WorkerPoolLifecycleProofs ----------------------
(***************************************************************************)
(* The life cycle of the pool: what the boot thread destroys, and when,    *)
(* and what the dispatcher may rely on while it does.                      *)
(***************************************************************************)
EXTENDS WorkerPoolSlotProofs

\* A thread that takes a step exists and has not returned.
LEMMA ThreadAlive ==
    ASSUME TypeInv, NEW p \in Ops, ThreadStep(p)
    PROVE  /\ opc[p] \notin {"off", "exit"}
           /\ UNCHANGED <<lpc, idx, seenActive, wstatus, mpc, opIdx, created, started, runFailed, freed>>
<1>1. opc[p] \notin {"off", "exit"}
  <2>1. CASE ThreadInit(p)
    BY <2>1 DEF ThreadInit, PublishInit, Goto
  <2>2. CASE \E B \in SUBSET Ready(p) : EpollWait(p, B)
    BY <2>2 DEF EpollWait, Goto
  <2>3. CASE HandleHangup(p)
    BY <2>3 DEF HandleHangup, Goto
  <2>4. CASE PopClient(p) \/ CheckActive(p) \/ AddClient(p)
    BY <2>4 DEF PopClient, CheckActive, AddClient, Goto
  <2>5. CASE \/ LoopCheck(p) \/ BatchDone(p) \/ EpollInterrupted(p) \/ HandleWakeup(p) \/ HandleTimer(p)
             \/ HandleTimerSpurious(p) \/ HandleClientKeep(p) \/ HandleClientClose(p) \/ NullHandler(p)
             \/ RemoveClientUpdate(p) \/ CountDequeued(p) \/ AddClientFails(p) \/ AddClientUpdate(p)
    BY <2>5 DEF LoopCheck, BatchDone, EpollInterrupted, HandleWakeup, HandleTimer, HandleTimerSpurious,
       HandleClientKeep, HandleClientClose, NullHandler, RemoveClientUpdate, CountDequeued, AddClientFails,
       AddClientUpdate, Goto
  <2> QED
    BY <2>1, <2>2, <2>3, <2>4, <2>5 DEF ThreadStep, OperatorStep
<1>2. UNCHANGED <<listenerVars, bootVars, wstatus>>
  BY DEF ThreadStep
<1> QED
  BY <1>1, <1>2 DEF listenerVars, bootVars

\* The threads' own steps respect the life cycle: they never bring a returned thread back.
LEMMA BootInvThread ==
    ASSUME TypeInv, BootInv, NEW p \in Ops, ThreadStep(p) PROVE BootInv'
<1>1. /\ opc[p] \notin {"off", "exit"}
      /\ UNCHANGED <<mpc, opIdx, created, started, freed>>
  BY ThreadAlive
<1>2. ringLive' = ringLive /\ \A o \in Ops \ {p} : opc'[o] = opc[o]
  BY ThreadLocal
<1>3. AllLive' = AllLive /\ AllDead' = AllDead
  BY <1>2 DEF AllLive, AllDead
<1>4. ~AllQuiet
  BY <1>1 DEF AllQuiet
<1>5. ASSUME mpc \in {"undoStore", "undoWrite", "undoJoin"}
      PROVE  \A o \in Ops : (o > created => opc'[o] = "off") /\ (o < opIdx => opc'[o] = "exit")
  BY <1>1, <1>2, <1>5 DEF BootInv
<1>6. ASSUME mpc = "join" PROVE \A o \in Ops : o < opIdx => opc'[o] = "exit"
  BY <1>1, <1>2, <1>6 DEF BootInv
<1> QED
  BY <1>1, <1>2, <1>3, <1>4, <1>5, <1>6 DEF BootInv

\* A listener step changes nothing of it.
LEMMA BootInvListener ==
    ASSUME BootInv, ListenerStep PROVE BootInv'
<1>1. UNCHANGED <<mpc, opIdx, created, started, freed, opc, ringLive>>
  BY DEF ListenerStep, Accept, StopListener, Dispatch, ScanStatus, ScanActive, ScanQueued, HealthCheck,
     Push, CountQueued, SignalOperator, Reject, UseAfterFree, opVars, bootVars
<1> QED
  BY <1>1 DEF BootInv, AllLive, AllDead, AllQuiet

\* Each step of the boot thread.
LEMMA BootInvBoot ==
    ASSUME TypeInv, NotCreatedYet, BootInv, BootStep PROVE BootInv'
<1> USE DEF BootInv, MGoto
<1>0. /\ opIdx \in Ops /\ opIdx \in 1..OperatorsCount /\ OperatorsCount \in Nat \ {0}
      /\ created \in 0..OperatorsCount /\ \A o \in Ops : o \in 1..OperatorsCount
  BY OperatorAssumption DEF TypeInv, TypeOK, Ops
<1>1. CASE CreateThread
  <2>1. UNCHANGED <<ringLive, freed>> /\ mpc = "create" /\ mpc' \in {"create", "await"}
        /\ started' = (opIdx = OperatorsCount) /\ (mpc' = "create" <=> opIdx < OperatorsCount)
    BY <1>1 DEF CreateThread, LoopOver
  <2>2. (mpc' = "create" => ~started') /\ (mpc' = "await" => started')
    <3>1. CASE opIdx < OperatorsCount
      <4>1. (opIdx = OperatorsCount) = FALSE
        BY <1>0, <3>1
      <4> QED
        BY <2>1, <3>1, <4>1
    <3>2. CASE ~(opIdx < OperatorsCount)
      <4>1. (opIdx = OperatorsCount) = TRUE
        BY <1>0, <3>2
      <4> QED
        BY <2>1, <3>2, <4>1
    <3> QED
      BY <3>1, <3>2
  <2>3. AllLive'
    BY <2>1 DEF AllLive
  <2> QED
    BY <2>1, <2>2, <2>3
<1>2. CASE CreateFails
  <2>1. mpc = "create" /\ mpc' = (IF created = 0 THEN "joinListener" ELSE "undoStore") /\ opIdx' = 1
        /\ UNCHANGED <<created, started, freed, ringLive, opc>>
    BY <1>2 DEF CreateFails, opVars
  <2>2. created = opIdx - 1 /\ \A o \in Ops : o >= opIdx => opc[o] = "off"
    BY <2>1 DEF NotCreatedYet
  <2>3. \A o \in Ops : o > created => opc'[o] = "off"
    BY <1>0, <2>1, <2>2
  <2>4. AllLive'
    BY <2>1 DEF AllLive
  <2>5. created = 0 => AllQuiet'
    BY <1>0, <2>3 DEF AllQuiet
  <2>6. \A o \in Ops : ~(o < 1)
    BY <1>0
  <2> QED
    BY <1>0, <2>1, <2>3, <2>4, <2>5, <2>6
<1>3. CASE UndoStore \/ UndoWrite \/ DestroyStore
  <2>1. /\ UNCHANGED <<opIdx, created, started, freed, ringLive, opc>>
        /\ \/ mpc = "undoStore" /\ mpc' = "undoWrite"
           \/ mpc = "undoWrite" /\ mpc' = "undoJoin"
           \/ mpc = "reqStore" /\ mpc' = "reqWrite"
    BY <1>3 DEF UndoStore, UndoWrite, DestroyStore, RequestStore, RequestWrite
  <2>2. AllLive'
    BY <2>1 DEF AllLive
  <2> QED
    BY <2>1, <2>2
<1>4. CASE UndoJoin
  <2>1. /\ UNCHANGED <<created, started, freed, ringLive, opc>> /\ opc[opIdx] = "exit" /\ mpc = "undoJoin"
        /\ IF opIdx < created THEN mpc' = "undoStore" /\ opIdx' = opIdx + 1
                              ELSE mpc' = "joinListener" /\ opIdx' = 1
    BY <1>4 DEF UndoJoin, opVars
  <2>2. AllLive'
    BY <2>1 DEF AllLive
  <2>3. \A o \in Ops : o < opIdx + 1 => opc[o] = "exit"
    <3>1. \A o \in Ops : o < opIdx + 1 => o < opIdx \/ o = opIdx
      BY <1>0
    <3> QED
      BY <2>1, <3>1
  <2>4. CASE opIdx < created
    BY <1>0, <2>1, <2>2, <2>3, <2>4
  <2>5. CASE ~(opIdx < created)
    <3>1. \A o \in Ops : o < opIdx + 1 \/ o > created
      BY <1>0, <2>1, <2>5
    <3>2. AllQuiet'
      BY <2>1, <2>3, <3>1 DEF AllQuiet
    <3> QED
      BY <2>1, <2>2, <2>5, <3>2
  <2> QED
    BY <2>4, <2>5
<1>5. CASE AwaitActive
  <2>1. UNCHANGED <<created, started, freed, ringLive>> /\ mpc = "await" /\ mpc' \in {"await", "joinListener"}
        /\ (mpc' = "joinListener" => opIdx' = 1)
    BY <1>5 DEF AwaitActive, LoopOver, opVars
  <2>2. AllLive'
    BY <2>1 DEF AllLive
  <2> QED
    BY <2>1, <2>2
<1>6. CASE AwaitFails
  <2>1. UNCHANGED <<created, started, freed, ringLive>> /\ mpc = "await" /\ mpc' = "destroy" /\ opIdx' = 1
    BY <1>6 DEF AwaitFails, opVars
  <2>2. AllLive'
    BY <2>1 DEF AllLive
  <2> QED
    BY <2>1, <2>2
<1>7. CASE Destroy
  <2>1. /\ UNCHANGED <<opIdx, created, started, freed, ringLive, opc>> /\ mpc = "destroy"
        /\ mpc' = (IF started THEN "reqStore" ELSE IF freed THEN "done" ELSE "opShutdown")
    BY <1>7 DEF Destroy, opVars
  <2>2. AllLive' = AllLive /\ AllDead' = AllDead /\ AllQuiet' = AllQuiet
    BY <2>1 DEF AllLive, AllDead, AllQuiet
  <2>3. AllLive => \A o \in Ops : ringLive[o] <=> o >= 1
    BY <1>0 DEF AllLive
  <2> QED
    BY <2>1, <2>2, <2>3
<1>8. CASE DestroyWrite
  <2>1. /\ UNCHANGED <<created, started, freed, ringLive, opc>> /\ mpc = "reqWrite"
        /\ \/ mpc' = "reqStore"
           \/ mpc' = "join" /\ opIdx' = 1
    BY <1>8 DEF DestroyWrite, RequestWrite
  <2>2. AllLive'
    BY <2>1 DEF AllLive
  <2>3. \A o \in Ops : ~(o < 1)
    BY <1>0
  <2> QED
    BY <2>1, <2>2, <2>3
<1>9. CASE JoinThread
  <2>1. /\ UNCHANGED <<created, freed, ringLive, opc>> /\ mpc = "join" /\ opc[opIdx] = "exit"
        /\ started' = (opIdx < OperatorsCount)
        /\ IF opIdx < OperatorsCount THEN mpc' = "join" /\ opIdx' = opIdx + 1
                                     ELSE mpc' = "opShutdown" /\ opIdx' = 1
    BY <1>9 DEF JoinThread, LoopOver, opVars
  <2>2. AllLive /\ AllLive'
    BY <2>1 DEF AllLive
  <2>3. \A o \in Ops : o < opIdx + 1 => opc'[o] = "exit"
    <3>1. \A o \in Ops : o < opIdx + 1 => o < opIdx \/ o = opIdx
      BY <1>0
    <3> QED
      BY <2>1, <3>1
  <2>4. CASE opIdx < OperatorsCount
    BY <2>1, <2>2, <2>3, <2>4
  <2>5. CASE ~(opIdx < OperatorsCount)
    <3>1. \A o \in Ops : o < opIdx + 1 /\ o >= 1
      BY <1>0, <2>5
    <3>2. AllQuiet'
      BY <2>3, <3>1 DEF AllQuiet
    <3>3. \A o \in Ops : ringLive'[o] <=> o >= 1
      BY <2>2, <3>1 DEF AllLive
    <3> QED
      BY <2>1, <2>5, <3>2, <3>3
  <2> QED
    BY <2>4, <2>5
<1>10. CASE OperatorShutdown
  <2>1. /\ UNCHANGED <<created, started, freed, opc>> /\ mpc = "opShutdown"
        /\ IF opIdx < OperatorsCount THEN mpc' = "opShutdown" /\ opIdx' = opIdx + 1
                                     ELSE mpc' = "free" /\ opIdx' = 1
    BY <1>10 DEF OperatorShutdown, LoopOver
  <2>2. AllQuiet'
    BY <2>1 DEF AllQuiet
  <2>3. \A o \in Ops : ringLive'[o] <=> o >= opIdx + 1
    <3>1. \A o \in Ops : ringLive'[o] <=> ringLive[o] /\ o # opIdx
      BY <1>10 DEF OperatorShutdown, TypeInv, TypeOK
    <3>2. \A o \in Ops : o >= opIdx + 1 <=> o >= opIdx /\ o # opIdx
      BY <1>0
    <3> QED
      BY <2>1, <3>1, <3>2
  <2>4. CASE opIdx < OperatorsCount
    BY <2>1, <2>2, <2>3, <2>4
  <2>5. CASE ~(opIdx < OperatorsCount)
    <3>1. \A o \in Ops : ~(o >= opIdx + 1)
      BY <1>0, <2>5
    <3>2. AllDead'
      BY <2>3, <3>1 DEF AllDead
    <3> QED
      BY <2>1, <2>2, <2>5, <3>2
  <2> QED
    BY <2>4, <2>5
<1>11. CASE FreeOperators
  <2>1. /\ UNCHANGED <<opIdx, created, started, ringLive, opc>> /\ freed' = TRUE
        /\ mpc = "free" /\ mpc' \in {"joinListener", "done"}
    BY <1>11 DEF FreeOperators, opVars
  <2>2. AllDead' /\ AllQuiet'
    BY <2>1 DEF AllDead, AllQuiet
  <2> QED
    BY <2>1, <2>2
<1>12. CASE JoinListener \/ DrainEnds
  <2>1. /\ UNCHANGED <<opIdx, created, started, freed, ringLive, opc>>
        /\ \/ mpc = "joinListener" /\ mpc' = "drain"
           \/ mpc = "drain" /\ mpc' = "destroy"
    BY <1>12 DEF JoinListener, DrainEnds, opVars
  <2>2. AllLive' = AllLive /\ AllDead' = AllDead /\ AllQuiet' = AllQuiet
    BY <2>1 DEF AllLive, AllDead, AllQuiet
  <2> QED
    BY <2>1, <2>2
<1> QED
  BY <1>1, <1>2, <1>3, <1>4, <1>5, <1>6, <1>7, <1>8, <1>9, <1>10, <1>11, <1>12 DEF BootStep

\* The life cycle in every reachable state.
LEMMA LifecycleCorrect == Spec => [](TypeInv /\ BootInv)
<1>1. Init => BootInv
  <2> SUFFICES ASSUME Init PROVE BootInv
    OBVIOUS
  <2>1. AllLive
    BY DEF Init, OpInit, AllLive
  <2> QED
    BY <2>1 DEF Init, BootInv
<1>2. TypeInv /\ NotCreatedYet /\ BootInv /\ [Next]_vars => BootInv'
  <2> SUFFICES ASSUME TypeInv, NotCreatedYet, BootInv, [Next]_vars PROVE BootInv'
    OBVIOUS
  <2>1. ASSUME NEW p \in Ops, ThreadStep(p) PROVE BootInv'
    BY <2>1, BootInvThread
  <2>2. CASE Ended \/ UNCHANGED vars
    <3>1. UNCHANGED <<mpc, opIdx, created, started, freed, opc, ringLive>>
      BY <2>2 DEF Ended, vars, opVars, bootVars
    <3> QED
      BY <3>1 DEF BootInv, AllLive, AllDead, AllQuiet
  <2> QED
    BY <2>1, <2>2, BootInvListener, BootInvBoot DEF Next
<1> QED
  BY <1>1, <1>2, HandoffCorrect, PTL DEF Spec

\* operator_shutdown and the free come after every join, on the normal and on both failure paths.
THEOREM DestroyedAfterExitHolds == Spec => []DestroyedAfterExit
<1>1. TypeInv /\ BootInv => DestroyedAfterExit
  <2> SUFFICES ASSUME TypeInv, BootInv PROVE DestroyedAfterExit
    OBVIOUS
  <2>1. mpc \in BootPc
    BY DEF TypeInv, TypeOK
  <2>2. AllLive \/ AllQuiet
    BY <2>1 DEF BootInv, BootPc
  <2>3. freed => AllDead
    BY <2>1 DEF BootInv, BootPc
  <2> QED
    BY <2>2, <2>3 DEF DestroyedAfterExit, AllLive, AllDead, AllQuiet
<1> QED
  BY <1>1, LifecycleCorrect, PTL

\* What is destroyed has no running thread behind it.
LEMMA DeadIsQuiet ==
    ASSUME TypeInv, BootInv, NEW o \in Ops, ~ringLive[o] PROVE opc[o] \in {"off", "exit"}
<1>1. mpc \in BootPc
  BY DEF TypeInv, TypeOK
<1>2. AllLive \/ AllQuiet
  BY <1>1 DEF BootInv, BootPc
<1> QED
  BY <1>2 DEF AllLive, AllQuiet

\* The dispatcher's reads and counts keep the load bounded.
LEMMA LoadInvListener ==
    ASSUME TypeInv, TypeInv', ActiveExact, LoadInv, ListenerStep PROVE LoadInv'
<1>1. seenActive' <= MaxClients
  <2>1. CASE ScanActive
    <3>1. seenActive' = active[idx] /\ idx \in Ops
      BY <2>1 DEF ScanActive, LGoto, TypeInv, LocalsOK
    <3>2. BusySlots(idx) \in SUBSET Slots
      BY DEF BusySlots
    <3>3. Cardinality(BusySlots(idx)) \in 0..MaxClients
      BY <3>2, SlotSets
    <3> QED
      BY <3>1, <3>3 DEF ActiveExact
  <2>2. CASE ~ScanActive
    <3>1. seenActive' = seenActive \/ seenActive' = 0
      BY <2>2 DEF ListenerStep, Accept, StopListener, Dispatch, ScanStatus, ScanQueued, ScanReturns, HealthCheck,
         Push, CountQueued, SignalOperator, Reject, UseAfterFree, listenerVars
    <3> QED
      BY <3>1, OperatorAssumption DEF LoadInv
  <2> QED
    BY <2>1, <2>2
<1>2. ASSUME NEW o \in Ops, ~ringLive'[o] PROVE queued'[o] + One(PushUncounted(o))' <= 1
  <2>0. ringLive' = ringLive /\ opc' = opc
    BY DEF ListenerStep, Accept, StopListener, Dispatch, ScanStatus, ScanActive, ScanQueued, HealthCheck,
       Push, CountQueued, SignalOperator, Reject, UseAfterFree, opVars
  <2>1. queued[o] + One(PushUncounted(o)) <= 1 /\ queued[o] \in Nat
    BY <1>2, <2>0, OperatorAssumption DEF LoadInv, TypeInv, TypeOK
  <2>2. CASE CountQueued
    <3>1. lpc = "add" /\ lpc' = "write" /\ idx' = idx /\ queued' = [queued EXCEPT ![idx] = Inc(queued[idx])]
      BY <2>2 DEF CountQueued, LGoto
    <3>2. One(PushUncounted(o))' = 0
      BY <3>1 DEF PushUncounted, One
    <3>3. CASE idx = o
      <4>1. One(PushUncounted(o)) = 1
        BY <3>1, <3>3 DEF PushUncounted, One
      <4>2. queued[o] = 0
        BY <2>1, <4>1
      <4>3. queued'[o] = 1
        BY <3>1, <3>3, <4>2, OperatorAssumption DEF Inc, TypeInv, TypeOK
      <4> QED
        BY <3>2, <4>3
    <3>4. CASE idx # o
      <4>1. queued'[o] = queued[o]
        BY <3>1, <3>4 DEF TypeInv, TypeOK
      <4>2. One(PushUncounted(o)) \in 0..1
        BY DEF One
      <4> QED
        BY <2>1, <3>2, <4>1, <4>2
    <3> QED
      BY <3>3, <3>4
  <2>3. CASE ~CountQueued
    <3>1. queued' = queued
      BY <2>3 DEF ListenerStep, Accept, StopListener, Dispatch, ScanStatus, ScanActive, ScanQueued, HealthCheck,
         Push, SignalOperator, Reject, UseAfterFree, opVars
    <3>2. PushUncounted(o)' => PushUncounted(o)
      <4>1. CASE Push
        BY <1>2, <2>0, <4>1 DEF Push, PushUncounted
      <4>2. CASE ~Push
        BY <2>3, <4>2 DEF ListenerStep, Accept, StopListener, Dispatch, ScanStatus, ScanActive, ScanQueued,
           HealthCheck, SignalOperator, Reject, UseAfterFree, LGoto, listenerVars, PushUncounted
      <4> QED
        BY <4>1, <4>2
    <3>3. One(PushUncounted(o))' \in 0..1 /\ One(PushUncounted(o)) \in 0..1
          /\ One(PushUncounted(o))' <= One(PushUncounted(o))
      BY <3>2 DEF One
    <3> QED
      BY <2>1, <3>1, <3>3
  <2> QED
    BY <2>2, <2>3
<1> QED
  BY <1>1, <1>2 DEF LoadInv

\* operator_shutdown resets the counter it strands; the other steps of the boot thread do not touch it.
LEMMA LoadInvBoot ==
    ASSUME TypeInv, LoadInv, BootStep PROVE LoadInv'
<1>1. UNCHANGED <<lpc, idx, seenActive>>
  BY DEF BootStep, CreateThread, CreateFails, UndoStore, UndoWrite, UndoJoin, AwaitActive, AwaitFails, Destroy,
     DestroyStore, DestroyWrite, JoinThread, OperatorShutdown, FreeOperators, JoinListener, DrainEnds,
     RequestStore, RequestWrite, listenerVars
<1>2. ASSUME NEW o \in Ops PROVE One(PushUncounted(o))' = One(PushUncounted(o)) /\ One(PushUncounted(o)) \in 0..1
  BY <1>1 DEF PushUncounted, One
<1>3. ASSUME NEW o \in Ops
      PROVE  \/ queued'[o] = 0
             \/ queued'[o] = queued[o] /\ ringLive'[o] = ringLive[o]
  <2>1. CASE OperatorShutdown
    BY <2>1 DEF OperatorShutdown, TypeInv, TypeOK
  <2>2. CASE ~OperatorShutdown
    BY <2>2 DEF BootStep, CreateThread, CreateFails, UndoStore, UndoWrite, UndoJoin, AwaitActive, AwaitFails,
       Destroy, DestroyStore, DestroyWrite, JoinThread, FreeOperators, JoinListener, DrainEnds, RequestStore,
       RequestWrite, opVars
  <2> QED
    BY <2>1, <2>2
<1> QED
  BY <1>1, <1>2, <1>3 DEF LoadInv

\* A running thread's ring is live, so it does not touch a stranded counter.
LEMMA LoadInvThread ==
    ASSUME TypeInv, BootInv, LoadInv, NEW p \in Ops, ThreadStep(p) PROVE LoadInv'
<1>1. opc[p] \notin {"off", "exit"} /\ UNCHANGED <<lpc, idx, seenActive>>
  BY ThreadAlive
<1>2. ringLive[p]
  BY <1>1, DeadIsQuiet
<1>3. ringLive' = ringLive /\ \A o \in Ops \ {p} : queued'[o] = queued[o]
  BY ThreadLocal
<1>4. ASSUME NEW o \in Ops PROVE One(PushUncounted(o))' = One(PushUncounted(o))
  BY <1>1 DEF PushUncounted, One
<1> QED
  BY <1>1, <1>2, <1>3, <1>4 DEF LoadInv

\* What the balancer computes while the operators exist.
LEMMA LoadBounded ==
    ASSUME TypeInv, HandoffInv, LoadInv, lpc = "queued"
    PROVE  queued[idx] \in 0..(RingCapacity + 1)
<1>1. idx \in Ops /\ queued[idx] \in Nat /\ Len(ring[idx]) \in Nat
  <2>1. idx \in Ops
    BY DEF TypeInv, LocalsOK
  <2> QED
    BY <2>1, OperatorAssumption DEF TypeInv, TypeOK
<1>2. One(PushUncounted(idx)) = 0
  BY DEF PushUncounted, One
<1>3. CASE ringLive[idx]
  <2>1. HandoffAt(idx)
    BY <1>1, HandoffSplit
  <2>2. One(opc[idx] = "sub") \in 0..1
    BY DEF One
  <2>3. QueuedCount(idx) \in 0..(RingCapacity + 1)
    BY <1>1, <1>2, <2>1, <2>2, OperatorAssumption DEF QueuedCount, HandoffAt
  <2> QED
    BY <1>3, <2>1, <2>3, OperatorAssumption DEF HandoffAt
<1>4. CASE ~ringLive[idx]
  BY <1>1, <1>2, <1>4, OperatorAssumption DEF LoadInv
<1> QED
  BY <1>3, <1>4

\* The pool is never marked FULL by the balancer, and a pool that started well is torn down only after the
\* listener has returned.
LEMMA DispatchInvStep ==
    ASSUME TypeInv, BootInv, HandoffInv, LoadInv, DispatchInv, Next PROVE DispatchInv'
<1>1. CASE ListenerStep
  <2>1. UNCHANGED <<mpc, runFailed, freed>>
    BY <1>1 DEF ListenerStep, Accept, StopListener, Dispatch, ScanStatus, ScanActive, ScanQueued, HealthCheck,
       Push, CountQueued, SignalOperator, Reject, UseAfterFree, bootVars
  <2>2. lpc' # "done" => lpc # "done"
    BY <1>1 DEF ListenerStep, Accept, StopListener, Dispatch, ScanStatus, ScanActive, ScanQueued, HealthCheck,
       Push, CountQueued, SignalOperator, Reject, UseAfterFree, LGoto, listenerVars
  <2>3. wstatus' = wstatus
    <3>1. CASE ScanQueued
      <4> DEFINE load == Load(seenActive, queued[idx])
      <4>1. lpc = "queued"
        BY <3>1 DEF ScanQueued
      <4>2. load \in Nat /\ load < UINT_MAX
        <5>1. queued[idx] \in 0..(RingCapacity + 1)
          BY <4>1, LoadBounded
        <5>2. seenActive \in 0..MaxClients
          BY OperatorAssumption DEF LoadInv, TypeInv, TypeOK
        <5> QED
          BY <5>1, <5>2, OperatorAssumption DEF Load
      <4>3. bestLoad \in 0..UINT_MAX
        BY DEF TypeInv, TypeOK
      <4>4. CASE load < BlindLimit
        BY <3>1, <4>4 DEF ScanQueued
      <4>5. CASE ~(load < BlindLimit)
        <5>1. /\ wstatus' = IF idx = OperatorsCount /\ bestLoad' = UINT_MAX THEN "FULL" ELSE wstatus
              /\ IF load < bestLoad THEN bestLoad' = load ELSE bestLoad' = bestLoad
          BY <3>1, <4>5 DEF ScanQueued
        <5> HIDE DEF load
        <5>2. bestLoad' # UINT_MAX
          BY <4>2, <4>3, <5>1, OperatorAssumption
        <5> QED
          BY <5>1, <5>2
      <4> QED
        BY <4>4, <4>5
    <3>2. CASE ~ScanQueued
      BY <1>1, <3>2 DEF ListenerStep, Accept, StopListener, Dispatch, ScanStatus, ScanActive, HealthCheck,
         Push, CountQueued, SignalOperator, Reject, UseAfterFree
    <3> QED
      BY <3>1, <3>2
  <2> QED
    BY <2>1, <2>2, <2>3 DEF DispatchInv
<1>2. CASE BootStep
  <2>1. CASE CreateThread \/ AwaitActive
    <3>1. mpc' \in {"create", "await", "joinListener"} /\ UNCHANGED <<lpc, runFailed, freed, wstatus>>
      BY <2>1 DEF CreateThread, AwaitActive, LoopOver, MGoto, listenerVars
    <3> QED
      BY <3>1 DEF DispatchInv
  <2>2. CASE CreateFails \/ AwaitFails
    BY <2>2 DEF CreateFails, AwaitFails, DispatchInv
  <2>3. CASE JoinListener
    BY <2>3 DEF JoinListener, listenerVars, DispatchInv
  <2>4. CASE ~(CreateThread \/ AwaitActive \/ CreateFails \/ AwaitFails \/ JoinListener)
    <3>1. mpc \notin {"create", "await", "joinListener"} /\ UNCHANGED <<lpc, runFailed>>
      BY <1>2, <2>4 DEF BootStep, UndoStore, UndoWrite, UndoJoin, Destroy, DestroyStore, DestroyWrite, JoinThread,
         OperatorShutdown, FreeOperators, DrainEnds, RequestStore, RequestWrite, LoopOver, MGoto, listenerVars
    <3> QED
      BY <3>1 DEF DispatchInv
  <2> QED
    BY <2>1, <2>2, <2>3, <2>4
<1>3. ASSUME NEW p \in Ops, ThreadStep(p) PROVE DispatchInv'
  BY <1>3, ThreadAlive DEF DispatchInv
<1>4. CASE Ended
  BY <1>4 DEF Ended, vars, listenerVars, bootVars, DispatchInv
<1> QED
  BY <1>1, <1>2, <1>3, <1>4 DEF Next

\* Load and dispatch invariants in every reachable state.
LEMMA DispatchCorrect == Spec => [](TypeInv /\ BootInv /\ HandoffInv /\ LoadInv /\ DispatchInv)
<1>1. Init => LoadInv /\ DispatchInv
  <2> SUFFICES ASSUME Init PROVE LoadInv /\ DispatchInv
    OBVIOUS
  <2>1. seenActive <= MaxClients
    BY OperatorAssumption DEF Init
  <2> QED
    BY <2>1 DEF Init, OpInit, LoadInv, DispatchInv
<1>2. /\ TypeInv /\ TypeInv' /\ ActiveExact /\ BootInv /\ HandoffInv /\ LoadInv /\ DispatchInv
      /\ [Next]_vars
      => LoadInv' /\ DispatchInv'
  <2> SUFFICES ASSUME TypeInv, TypeInv', ActiveExact, BootInv, HandoffInv, LoadInv, DispatchInv, [Next]_vars
               PROVE  LoadInv' /\ DispatchInv'
    OBVIOUS
  <2>1. CASE Next
    <3>1. ASSUME NEW p \in Ops, ThreadStep(p) PROVE LoadInv'
      BY <3>1, LoadInvThread
    <3>2. ASSUME Ended PROVE LoadInv'
      BY <3>2 DEF Ended, vars, opVars, listenerVars, LoadInv, PushUncounted, One
    <3>3. LoadInv'
      BY <2>1, <3>1, <3>2, LoadInvListener, LoadInvBoot DEF Next
    <3> QED
      BY <2>1, <3>3, DispatchInvStep
  <2>2. CASE UNCHANGED vars
    BY <2>2 DEF vars, opVars, listenerVars, bootVars, LoadInv, DispatchInv, PushUncounted, One
  <2> QED
    BY <2>1, <2>2
<1> QED
  BY <1>1, <1>2, HandoffCorrect, SlotsCorrect, LifecycleCorrect, PTL DEF Spec

\* The wrapped value queued_clients may hold between a pop and the dispatcher's count is never seen by the
\* balancer, and a destroyed operator's counter stays small as well.
THEOREM LoadNeverWrapsHolds == Spec => []LoadNeverWraps
<1>1. TypeInv /\ HandoffInv /\ LoadInv => LoadNeverWraps
  BY LoadBounded, OperatorAssumption DEF LoadNeverWraps, LoadInv
<1> QED
  BY <1>1, DispatchCorrect, PTL

\* If worker_run succeeded, the listener has returned before any operator is destroyed or freed and before
\* the pool stops being ACTIVE.
THEOREM DispatcherGoneFirstHolds == Spec => []DispatcherGoneFirst
<1>1. BootInv /\ DispatchInv => DispatcherGoneFirst
  BY DEF BootInv, DispatchInv, DispatcherGoneFirst, AllLive
<1> QED
  BY <1>1, DispatchCorrect, PTL

\* The thread has not started and finds SHUTDOWN when it does, or it has returned.
NeverServes(o) == (opc[o] \in {"off", "init"} /\ status[o] = "SHUTDOWN") \/ opc[o] = "exit"

\* Nothing undoes it: the compare-and-swap of operator_thread fails on SHUTDOWN, and no thread that has
\* returned is created again.
LEMMA NeverServesStable ==
    ASSUME TypeInv, NotCreatedYet, [Next]_vars, NEW o \in Ops, NeverServes(o) PROVE NeverServes(o)'
<1> USE DEF NeverServes
<1>1. CASE ListenerStep
  <2>1. UNCHANGED <<status, opc>>
    BY <1>1 DEF ListenerStep, Accept, StopListener, Dispatch, ScanStatus, ScanActive, ScanQueued, HealthCheck,
       Push, CountQueued, SignalOperator, Reject, UseAfterFree, opVars
  <2> QED
    BY <2>1
<1>2. CASE CreateThread
  <2>1. opIdx \in Ops /\ opIdx >= opIdx
    BY DEF TypeInv, TypeOK, Ops
  <2>2. opc[opIdx] = "off" /\ opc' = [opc EXCEPT ![opIdx] = "init"] /\ UNCHANGED status
    BY <1>2, <2>1 DEF CreateThread, LoopOver, MGoto, NotCreatedYet
  <2> QED
    BY <2>1, <2>2 DEF TypeInv, TypeOK
<1>3. CASE UndoStore \/ DestroyStore \/ OperatorShutdown
  <2>1. opc' = opc /\ status'[o] \in {status[o], "SHUTDOWN"}
    BY <1>3 DEF UndoStore, DestroyStore, RequestStore, OperatorShutdown, TypeInv, TypeOK
  <2> QED
    BY <2>1
<1>4. CASE (BootStep /\ ~(CreateThread \/ UndoStore \/ DestroyStore \/ OperatorShutdown)) \/ Ended \/ UNCHANGED vars
  <2>1. UNCHANGED <<status, opc>>
    BY <1>4 DEF BootStep, CreateFails, UndoWrite, UndoJoin, AwaitActive, AwaitFails, Destroy, DestroyWrite,
       RequestWrite, JoinThread, FreeOperators, JoinListener, DrainEnds, opVars, Ended, vars
  <2> QED
    BY <2>1
<1>5. ASSUME NEW p \in Ops, ThreadStep(p) PROVE NeverServes(o)'
  <2>1. CASE o # p
    BY <1>5, <2>1, ThreadLocal
  <2>2. CASE o = p /\ opc[o] = "init"
    <3>1. ThreadInit(o)
      BY <1>5, <2>2 DEF ThreadStep, OperatorStep, Goto, LoopCheck, BatchDone, EpollWait, EpollInterrupted,
         HandleWakeup, HandleTimer, HandleTimerSpurious, HandleClientKeep, HandleClientClose, NullHandler,
         HandleHangup, RemoveClientUpdate, PopClient, CountDequeued, CheckActive, AddClient, AddClientFails,
         AddClientUpdate
    <3> QED
      BY <2>2, <3>1 DEF ThreadInit, PublishInit, Goto, TypeInv, TypeOK
  <2>3. CASE o = p /\ opc[o] \in {"off", "exit"}
    BY <1>5, <2>3 DEF ThreadStep, OperatorStep, ThreadInit, PublishInit, Goto, LoopCheck, BatchDone, EpollWait,
       EpollInterrupted, HandleWakeup, HandleTimer, HandleTimerSpurious, HandleClientKeep, HandleClientClose,
       NullHandler, HandleHangup, RemoveClientUpdate, PopClient, CountDequeued, CheckActive, AddClient,
       AddClientFails, AddClientUpdate
  <2> QED
    BY <2>1, <2>2, <2>3
<1> QED
  BY <1>1, <1>2, <1>3, <1>4, <1>5 DEF Next

\* A shutdown requested before the thread has published its start is honoured: from then on the thread only
\* ever starts and returns.
THEOREM ShutdownDuringInitHolds == Spec => ShutdownDuringInitHonoured
<1>1. ASSUME NEW o \in Ops
      PROVE  Spec => [](opc[o] \in {"off", "init"} /\ status[o] = "SHUTDOWN" => [](opc[o] \in {"off", "init", "exit"}))
  <2>1. opc[o] \in {"off", "init"} /\ status[o] = "SHUTDOWN" => NeverServes(o)
    BY DEF NeverServes
  <2>2. NeverServes(o) => opc[o] \in {"off", "init", "exit"}
    BY DEF NeverServes
  <2>3. TypeInv /\ NotCreatedYet /\ NeverServes(o) /\ [Next]_vars => NeverServes(o)'
    BY NeverServesStable
  <2> QED
    BY <2>1, <2>2, <2>3, HandoffCorrect, PTL DEF Spec
<1> QED
  BY <1>1 DEF ShutdownDuringInitHonoured

(***************************************************************************)
(* The pool implements ConnectionHandoff.                                  *)
(***************************************************************************)
HandoffMoves == [Handoff!HNext]_(Handoff!hvars)

\* Only operator o's connections move.
OnlyAt(o) == \A p \in Ops : p # o => Line(p)' = Line(p) /\ Serving(p)' = Serving(p)

\* What a client sees of the pool is unchanged.
LEMMA MoveNone ==
    ASSUME Offered' = Offered, Over' = Over, ringLive' = ringLive,
           \A p \in Ops : Line(p)' = Line(p) /\ Serving(p)' = Serving(p)
    PROVE  HandoffMoves
BY DEF HandoffMoves, Handoff!hvars

\* A step that leaves every place of a connection alone.
LEMMA MoveSame ==
    ASSUME UNCHANGED <<backlog, lfd, closed, leaked, ring, popped, slot, ringLive>> PROVE HandoffMoves
BY MoveNone DEF Offered, Over, Line, InHand, Serving, BusySlots

\* A connection on offer is refused.
LEMMA MoveRefuse ==
    ASSUME NEW c \in Fd, c \in Offered, Offered' = Offered \ {c}, Over' = Over \cup {c}, ringLive' = ringLive,
           \A p \in Ops : Line(p)' = Line(p) /\ Serving(p)' = Serving(p)
    PROVE  HandoffMoves
<1>1. Handoff!Refuse(c)
  BY DEF Handoff!Refuse
<1> QED
  BY <1>1 DEF HandoffMoves, Handoff!HNext

\* A connection on offer goes to the end of a line.
LEMMA MoveGive ==
    ASSUME NEW c \in Fd, NEW o \in Ops, c \in Offered, Offered' = Offered \ {c}, Over' = Over,
           ringLive' = ringLive, ringLive[o], Len(Line(o)) < RingCapacity + 1, Line(o)' = Append(Line(o), c),
           Serving(o)' = Serving(o), OnlyAt(o)
    PROVE  HandoffMoves
<1>1. Handoff!Give(c, o)
  BY DEF Handoff!Give, OnlyAt
<1> QED
  BY <1>1 DEF HandoffMoves, Handoff!HNext

\* The first in line is served.
LEMMA MoveAdmit ==
    ASSUME NEW o \in Ops, Line(o) # <<>>, Cardinality(Serving(o)) < MaxClients, Line(o)' = Tail(Line(o)),
           Serving(o)' = Serving(o) \cup {Head(Line(o))}, OnlyAt(o),
           Offered' = Offered, Over' = Over, ringLive' = ringLive
    PROVE  HandoffMoves
<1> DEFINE L == [p \in Ops |-> Line(p)]
           V == [p \in Ops |-> Serving(p)]
<1>1. L[o] = Line(o) /\ V[o] = Serving(o)
  OBVIOUS
<1>2. L' = [L EXCEPT ![o] = Tail(@)]
  BY DEF OnlyAt
<1>3. V' = [V EXCEPT ![o] = @ \cup {Head(L[o])}]
  BY DEF OnlyAt
<1>4. Handoff!Admit(o)
  <2>1. L[o] # <<>> /\ Cardinality(V[o]) < MaxClients
    BY <1>1
  <2>2. Handoff!Cardinality(V[o]) = Cardinality(V[o])
    BY Zenon DEF Handoff!Cardinality, Cardinality
  <2> QED
    BY <1>2, <1>3, <2>1, <2>2 DEF Handoff!Admit
<1> QED
  BY <1>4 DEF HandoffMoves, Handoff!HNext

\* The first in line is turned away.
LEMMA MoveTurnAway ==
    ASSUME NEW o \in Ops, Line(o) # <<>>, Line(o)' = Tail(Line(o)), Over' = Over \cup {Head(Line(o))},
           Serving(o)' = Serving(o), OnlyAt(o), Offered' = Offered, ringLive' = ringLive
    PROVE  HandoffMoves
<1>1. Handoff!TurnAway(o)
  BY DEF Handoff!TurnAway, OnlyAt
<1> QED
  BY <1>1 DEF HandoffMoves, Handoff!HNext

\* Some that were served are over.
LEMMA MoveFinish ==
    ASSUME NEW o \in Ops, NEW S \in SUBSET Serving(o), Serving(o)' = Serving(o) \ S, Over' = Over \cup S,
           Line(o)' = Line(o), OnlyAt(o), Offered' = Offered, ringLive' = ringLive
    PROVE  HandoffMoves
<1>1. Handoff!Finish(o, S)
  BY DEF Handoff!Finish, OnlyAt
<1> QED
  BY <1>1 DEF HandoffMoves, Handoff!HNext

\* An operator is gone, and with it all that it held.
LEMMA MoveRetire ==
    ASSUME NEW o \in Ops, Over' = Over \cup {Line(o)[i] : i \in DOMAIN Line(o)} \cup Serving(o),
           Line(o)' = <<>>, Serving(o)' = {}, OnlyAt(o), ringLive' = [ringLive EXCEPT ![o] = FALSE],
           Offered' = Offered
    PROVE  HandoffMoves
<1>1. Handoff!Retire(o)
  BY DEF Handoff!Retire, Handoff!Members, OnlyAt
<1> QED
  BY <1>1 DEF HandoffMoves, Handoff!HNext

\* What ownership says of two places at a time: what the listener has accepted is no longer on offer, and no
\* fd is in two slots of an operator.
LEMMA PlacesApart ==
    ASSUME TypeInv, AllHeld
    PROVE  /\ lfd \in Fd => lfd \notin backlog
           /\ \A o \in Ops : \A s, t \in Slots : slot[o][s] # NoFd /\ slot[o][s] = slot[o][t] => s = t
<1>1. ASSUME lfd \in Fd, lfd \in backlog PROVE FALSE
  <2>1. PICK k, o, i : HeldAt(lfd, k, o, i)
    BY <1>1 DEF AllHeld, Held
  <2>2. HolderAt(lfd, "listener", 0, 0) /\ HolderAt(lfd, "backlog", 0, 0)
    BY <1>1 DEF HolderAt
  <2> QED
    BY <2>1, <2>2 DEF HeldAt
<1>2. ASSUME NEW o \in Ops, NEW s \in Slots, NEW t \in Slots, slot[o][s] # NoFd, slot[o][s] = slot[o][t]
      PROVE  s = t
  <2> DEFINE c == slot[o][s]
  <2>1. c \in Fd
    BY <1>2 DEF TypeInv, TypeOK
  <2>2. PICK k, p, i : HeldAt(c, k, p, i)
    BY <2>1 DEF AllHeld, Held
  <2>3. HolderAt(c, "slot", o, s) /\ HolderAt(c, "slot", o, t)
    BY <1>2 DEF HolderAt
  <2> QED
    BY <2>2, <2>3 DEF HeldAt
<1> QED
  BY <1>1, <1>2

\* A line is what the operator has in hand and its ring.
LEMMA LineIs ==
    ASSUME TypeInv, NEW o \in Ops
    PROVE  /\ Line(o) \in Seq(Fd) /\ ring[o] \in Seq(Fd)
           /\ popped[o] = NoFd => Line(o) = ring[o]
           /\ popped[o] # NoFd => /\ Line(o) # <<>> /\ Head(Line(o)) = popped[o] /\ Tail(Line(o)) = ring[o]
                                  /\ Len(Line(o)) = Len(ring[o]) + 1
<1>1. ring[o] \in Seq(Fd) /\ popped[o] \in Fd \cup {NoFd}
  BY DEF TypeInv, TypeOK
<1>2. CASE popped[o] = NoFd
  BY <1>1, <1>2 DEF Line, InHand
<1>3. CASE popped[o] # NoFd
  <2>1. Line(o) = <<popped[o]>> \o ring[o] /\ popped[o] \in Fd
    BY <1>1, <1>3 DEF Line, InHand
  <2> HIDE DEF Line
  <2>2. Len(Line(o)) = Len(ring[o]) + 1 /\ Line(o) \in Seq(Fd)
    BY <1>1, <2>1
  <2>3. Line(o)[1] = popped[o] /\ \A i \in 1..Len(ring[o]) : Line(o)[i + 1] = ring[o][i]
    BY <1>1, <2>1
  <2>4. Tail(Line(o)) = ring[o]
    <3>1. Tail(Line(o)) \in Seq(Fd) /\ Len(Tail(Line(o))) = Len(ring[o])
      BY <1>1, <2>2
    <3>2. \A i \in 1..Len(ring[o]) : Tail(Line(o))[i] = ring[o][i]
      BY <1>1, <2>2, <2>3
    <3> QED
      BY <1>1, <3>1, <3>2
  <2>5. Line(o) # <<>> /\ Head(Line(o)) = Line(o)[1]
    BY <1>1, <2>2
  <2> QED
    BY <1>1, <1>3, <2>2, <2>3, <2>4, <2>5
<1> QED
  BY <1>2, <1>3

\* An operator serves no more connections than it has busy slots.
LEMMA ServedInSlots ==
    ASSUME NEW o \in Ops
    PROVE  Cardinality(Serving(o)) \in Nat /\ Cardinality(Serving(o)) <= Cardinality(BusySlots(o))
<1> DEFINE f == [s \in BusySlots(o) |-> slot[o][s]]
<1>1. BusySlots(o) \in SUBSET Slots
  BY DEF BusySlots
<1>2. IsFiniteSet(BusySlots(o))
  BY <1>1, SlotSets
<1>3. f \in Surjection(BusySlots(o), Serving(o))
  BY DEF Surjection, Serving
<1> HIDE DEF f
<1> QED
  BY <1>2, <1>3, FS_Surjection, FS_CardinalityType

\* Closing slots ends exactly the connections in them.
LEMMA HandoffClose ==
    ASSUME TypeInv, AllHeld, NEW o \in Ops, NEW S \in SUBSET BusySlots(o), CloseSlots(o, S),
           UNCHANGED <<backlog, leaked, lfd, ring, popped, ringLive>>
    PROVE  HandoffMoves
<1> DEFINE T == {slot[o][s] : s \in S}
<1>1. T \in SUBSET Serving(o)
  BY DEF Serving
<1>2. \A p \in Ops : \A s \in Slots : slot'[p][s] = IF p = o /\ s \in S THEN NoFd ELSE slot[p][s]
  BY DEF CloseSlots, TypeInv, TypeOK
<1>3. Serving(o)' = Serving(o) \ T
  <2>1. BusySlots(o)' = BusySlots(o) \ S
    BY <1>2 DEF BusySlots
  <2>2. Serving(o)' = {slot[o][s] : s \in BusySlots(o) \ S}
    <3>1. \A s \in BusySlots(o) \ S : slot'[o][s] = slot[o][s]
      BY <1>2 DEF BusySlots
    <3> QED
      BY <2>1, <3>1 DEF Serving
  <2>3. \A s, t \in BusySlots(o) : slot[o][s] = slot[o][t] => s = t
    BY PlacesApart DEF BusySlots
  <2>4. \A s \in BusySlots(o) \ S : slot[o][s] \notin T
    BY <2>3
  <2> HIDE DEF T
  <2>5. ASSUME NEW c PROVE c \in Serving(o)' <=> c \in Serving(o) /\ c \notin T
    <3>1. c \in Serving(o) /\ c \notin T => c \in Serving(o)'
      BY <2>2 DEF Serving, T
    <3>2. c \in Serving(o)' => c \in Serving(o) /\ c \notin T
      BY <2>2, <2>4 DEF Serving
    <3> QED
      BY <3>1, <3>2
  <2> QED
    BY <2>5
<1>4. Over' = Over \cup T
  BY DEF Over, CloseSlots
<1>5. /\ \A p \in Ops : Line(p)' = Line(p)
      /\ \A p \in Ops : p # o => Serving(p)' = Serving(p)
  <2>1. ASSUME NEW p \in Ops, p # o PROVE Serving(p)' = Serving(p)
    <3>1. slot'[p] = slot[p]
      BY <2>1 DEF CloseSlots, TypeInv, TypeOK
    <3> QED
      BY <3>1 DEF Serving, BusySlots
  <2> QED
    BY <2>1 DEF Line, InHand
<1>6. Offered' = Offered
  BY DEF Offered
<1> HIDE DEF T
<1> QED
  BY <1>1, <1>3, <1>4, <1>5, <1>6, MoveFinish DEF OnlyAt

\* Dropping what has been popped turns away the first in line.
LEMMA HandoffDrop ==
    ASSUME TypeInv, TypeInv', NEW o \in Ops, popped[o] \in Fd, DropPopped(o),
           UNCHANGED <<backlog, lfd, closed, ring, slot, ringLive>>
    PROVE  HandoffMoves
<1>1. popped[o] # NoFd /\ popped'[o] = NoFd /\ \A p \in Ops : p # o => popped'[p] = popped[p]
  BY OperatorAssumption DEF DropPopped, TypeInv, TypeOK
<1>2. Line(o) # <<>> /\ Head(Line(o)) = popped[o] /\ Tail(Line(o)) = ring[o]
  BY <1>1, LineIs
<1>3. Line(o)' = ring'[o]
  BY <1>1 DEF Line, InHand, TypeInv, TypeOK
<1>4. Over' = Over \cup {popped[o]} /\ Offered' = Offered
  BY DEF DropPopped, Over, Offered
<1>5. OnlyAt(o) /\ Serving(o)' = Serving(o)
  BY <1>1 DEF OnlyAt, Line, InHand, Serving, BusySlots
<1> QED
  BY <1>2, <1>3, <1>4, <1>5, MoveTurnAway

\* A pop leaves the line as it is: the fd in hand is still its first.
LEMMA HandoffPop ==
    ASSUME TypeInv, LocalsClear, NEW o \in Ops, PopClient(o), UNCHANGED <<backlog, lfd>>
    PROVE  HandoffMoves
<1>0. UNCHANGED <<closed, leaked, slot, ringLive>> /\ opc[o] = "pop"
  BY DEF PopClient, Goto
<1>1. CASE ring[o] = <<>>
  BY <1>0, <1>1, MoveSame DEF PopClient
<1>2. CASE ring[o] # <<>>
  <2>1. popped[o] = NoFd /\ ring[o] \in Seq(Fd)
    BY <1>0 DEF LocalsClear, TypeInv, TypeOK
  <2>2. /\ \A p \in Ops : popped'[p] = IF p = o THEN Head(ring[o]) ELSE popped[p]
        /\ \A p \in Ops : ring'[p] = IF p = o THEN Tail(ring[o]) ELSE ring[p]
    BY <1>2 DEF PopClient, TypeInv, TypeOK
  <2>3. Head(ring[o]) # NoFd
    BY <1>2, <2>1, OperatorAssumption
  <2>4. Line(o)' = <<Head(ring[o])>> \o Tail(ring[o])
    BY <2>2, <2>3 DEF Line, InHand
  <2>5. <<Head(ring[o])>> \o Tail(ring[o]) = ring[o]
    BY <1>2, <2>1
  <2>6. Line(o)' = Line(o)
    BY <2>1, <2>4, <2>5, LineIs
  <2>7. \A p \in Ops : Line(p)' = Line(p)
    BY <2>2, <2>6 DEF Line, InHand
  <2>8. \A p \in Ops : Serving(p)' = Serving(p)
    BY <1>0 DEF Serving, BusySlots
  <2> QED
    BY <1>0, <2>7, <2>8, MoveNone DEF Offered, Over
<1> QED
  BY <1>1, <1>2

\* Adding a client to a free slot admits the first in line.
LEMMA HandoffAdd ==
    ASSUME TypeInv, NEW o \in Ops, AddClient(o), FreeSlots(o) # {}, UNCHANGED <<backlog, lfd>>
    PROVE  HandoffMoves
<1> DEFINE s == CHOOSE s \in FreeSlots(o) : \A t \in FreeSlots(o) : s <= t
<1>1. s \in Slots /\ slot[o][s] = NoFd
  <2>1. FreeSlots(o) \in SUBSET Slots
    BY DEF FreeSlots
  <2>2. \E u \in FreeSlots(o) : \A t \in FreeSlots(o) : u <= t
    BY <2>1, FirstFree
  <2> QED
    BY <2>2 DEF FreeSlots, BusySlots
<1>2. /\ slot' = [slot EXCEPT ![o][s] = popped[o]] /\ popped' = [popped EXCEPT ![o] = NoFd]
      /\ UNCHANGED <<ring, ringLive, closed, leaked>> /\ opc[o] = "add"
  BY DEF AddClient, Goto
<1> HIDE DEF s
<1>3. popped[o] \in Fd /\ popped[o] # NoFd
  BY <1>2, OperatorAssumption DEF TypeInv, LocalsOK
<1>4. /\ \A p \in Ops : \A t \in Slots : slot'[p][t] = IF p = o /\ t = s THEN popped[o] ELSE slot[p][t]
      /\ \A p \in Ops : popped'[p] = IF p = o THEN NoFd ELSE popped[p]
  BY <1>1, <1>2 DEF TypeInv, TypeOK
<1>5. Line(o) # <<>> /\ Head(Line(o)) = popped[o] /\ Tail(Line(o)) = ring[o]
  BY <1>3, LineIs
<1>6. Line(o)' = ring[o]
  BY <1>2, <1>4 DEF Line, InHand, TypeInv, TypeOK
<1>7. Serving(o)' = Serving(o) \cup {popped[o]}
  <2>1. BusySlots(o)' = BusySlots(o) \cup {s}
    BY <1>1, <1>3, <1>4 DEF BusySlots
  <2>2. \A t \in BusySlots(o) : slot'[o][t] = slot[o][t]
    BY <1>1, <1>4 DEF BusySlots
  <2>3. slot'[o][s] = popped[o]
    BY <1>1, <1>4
  <2> QED
    BY <2>1, <2>2, <2>3 DEF Serving
<1>8. Cardinality(Serving(o)) < MaxClients
  <2>1. BusySlots(o) \in SUBSET Slots /\ s \notin BusySlots(o)
    BY <1>1 DEF BusySlots
  <2>2. /\ IsFiniteSet(BusySlots(o)) /\ Cardinality(BusySlots(o)) \in 0..MaxClients
        /\ Cardinality(BusySlots(o) \cup {s}) \in 0..MaxClients
    <3>1. BusySlots(o) \cup {s} \in SUBSET Slots
      BY <1>1, <2>1
    <3> QED
      BY <2>1, <3>1, SlotSets
  <2>3. Cardinality(BusySlots(o) \cup {s}) = Cardinality(BusySlots(o)) + 1
    BY <2>1, <2>2, FS_AddElement
  <2> QED
    BY <2>2, <2>3, ServedInSlots, OperatorAssumption
<1>9. OnlyAt(o)
  <2> SUFFICES ASSUME NEW p \in Ops, p # o PROVE Line(p)' = Line(p) /\ Serving(p)' = Serving(p)
    BY DEF OnlyAt
  <2>1. slot'[p] = slot[p] /\ popped'[p] = popped[p]
    BY <1>2 DEF TypeInv, TypeOK
  <2>2. ring'[p] = ring[p]
    BY <1>2
  <2>3. Line(p)' = Line(p)
    BY <2>1, <2>2 DEF Line, InHand
  <2>4. Serving(p)' = Serving(p)
    BY <2>1 DEF Serving, BusySlots
  <2> QED
    BY <2>3, <2>4
<1>10. Offered' = Offered /\ Over' = Over
  BY <1>2 DEF Offered, Over
<1> QED
  BY <1>2, <1>5, <1>6, <1>7, <1>8, <1>9, <1>10, MoveAdmit

\* The listener: a push gives the connection to an operator, a rejection ends it.
LEMMA HandoffMovesListener ==
    ASSUME TypeInv, LocalsClear, AllHeld, ListenerStep PROVE HandoffMoves
<1>0. (lfd \in Fd => lfd \notin backlog) /\ NoFd \notin Fd /\ backlog \subseteq Fd
  BY PlacesApart, OperatorAssumption DEF TypeInv, TypeOK
<1>1. ASSUME NEW c \in Fd, Accept(c) PROVE HandoffMoves
  <2>1. lfd = NoFd /\ c # NoFd
    BY <1>0, <1>1 DEF Accept, LGoto, LocalsClear
  <2>2. c \in backlog /\ backlog' = backlog \ {c} /\ lfd' = c
    BY <1>1 DEF Accept
  <2>3. Offered' = Offered
    BY <1>0, <2>1, <2>2 DEF Offered
  <2>4. UNCHANGED opVars
    BY <1>1 DEF Accept
  <2> QED
    BY <2>3, <2>4, MoveNone DEF opVars, Over, Line, InHand, Serving, BusySlots
<1>2. ASSUME Push, NEW o \in Ops, o = idx PROVE HandoffMoves
  <2>1. lpc = "push" /\ lfd \in Fd /\ ringLive[o]
    BY <1>2 DEF Push, TypeInv, LocalsOK
  <2>2. UNCHANGED <<backlog, ringLive, slot, popped, closed, leaked>>
    BY <1>2 DEF Push
  <2>3. CASE RingHasRoom(o)
    <3>1. /\ \A p \in Ops : ring'[p] = IF p = o THEN Append(ring[o], lfd) ELSE ring[p]
          /\ lfd' = NoFd
      BY <1>2, <2>3 DEF Push, TypeInv, TypeOK
    <3>2. ring[o] \in Seq(Fd) /\ InHand(o) \in Seq(Fd) /\ Len(InHand(o)) <= 1
      BY <2>1 DEF TypeInv, TypeOK, InHand
    <3>3. Len(Line(o)) < RingCapacity + 1
      BY <2>3, <3>2, OperatorAssumption DEF Line, RingHasRoom
    <3>4. Line(o)' = InHand(o) \o Append(ring[o], lfd)
      BY <2>1, <2>2, <3>1 DEF Line, InHand
    <3>5. InHand(o) \o Append(ring[o], lfd) = Append(InHand(o) \o ring[o], lfd)
      BY <2>1, <3>2
    <3>6. Line(o)' = Append(Line(o), lfd)
      BY <3>4, <3>5 DEF Line
    <3>7. lfd \in Offered /\ Offered' = Offered \ {lfd}
      BY <1>0, <2>1, <2>2, <3>1 DEF Offered
    <3>8. OnlyAt(o) /\ Serving(o)' = Serving(o)
      <4>1. \A p \in Ops : Serving(p)' = Serving(p)
        BY <2>2 DEF Serving, BusySlots
      <4>2. \A p \in Ops : p # o => Line(p)' = Line(p)
        BY <2>2, <3>1 DEF Line, InHand
      <4> QED
        BY <2>1, <4>1, <4>2 DEF OnlyAt
    <3>9. Over' = Over
      BY <2>2 DEF Over
    <3> QED
      BY <2>1, <2>2, <3>3, <3>6, <3>7, <3>8, <3>9, MoveGive
  <2>4. CASE ~RingHasRoom(o)
    <3>1. UNCHANGED <<ring, lfd>>
      BY <1>2, <2>4 DEF Push
    <3> QED
      BY <2>2, <3>1, MoveSame
  <2> QED
    BY <2>3, <2>4
<1>3. CASE Reject
  <2>1. lfd \in Fd /\ lfd' = NoFd /\ closed' = closed \cup {lfd}
    BY <1>3 DEF Reject, LGoto, TypeInv, LocalsOK
  <2>2. UNCHANGED <<backlog, ring, ringLive, slot, popped, leaked>>
    BY <1>3 DEF Reject
  <2>3. lfd \in Offered /\ Offered' = Offered \ {lfd} /\ Over' = Over \cup {lfd}
    BY <1>0, <2>1, <2>2 DEF Offered, Over
  <2>4. \A p \in Ops : Line(p)' = Line(p) /\ Serving(p)' = Serving(p)
    BY <2>2 DEF Line, InHand, Serving, BusySlots
  <2> QED
    BY <2>1, <2>2, <2>3, <2>4, MoveRefuse
<1>4. CASE StopListener \/ Dispatch \/ ScanStatus \/ ScanActive \/ ScanQueued \/ HealthCheck
  <2>1. UNCHANGED <<backlog, lfd, closed, leaked, ring, popped, slot, ringLive>>
    BY <1>4 DEF StopListener, Dispatch, ScanStatus, ScanActive, ScanQueued, HealthCheck, opVars
  <2> QED
    BY <2>1, MoveSame
<1>5. CASE CountQueued \/ SignalOperator \/ UseAfterFree
  <2>1. UNCHANGED <<backlog, lfd, closed, leaked, ring, popped, slot, ringLive>>
    BY <1>5 DEF CountQueued, SignalOperator, UseAfterFree, opVars, listenerVars
  <2> QED
    BY <2>1, MoveSame
<1>6. Push => idx \in Ops
  BY DEF Push, LGoto, TypeInv, LocalsOK
<1> QED
  BY <1>1, <1>2, <1>3, <1>4, <1>5, <1>6 DEF ListenerStep

\* The boot thread: operator_shutdown retires an operator whose thread holds nothing any more.
LEMMA HandoffMovesBoot ==
    ASSUME TypeInv, LocalsClear, BootInv, BootStep PROVE HandoffMoves
<1>0. opIdx \in Ops
  BY DEF TypeInv, TypeOK
<1>1. ASSUME OperatorShutdown, NEW o \in Ops, o = opIdx PROVE HandoffMoves
  <2>1. mpc = "opShutdown"
    BY <1>1 DEF OperatorShutdown, LoopOver, MGoto
  <2>2. popped[o] = NoFd
    <3>1. opc[o] \in {"off", "exit"}
      BY <1>0, <2>1 DEF BootInv, AllQuiet
    <3> QED
      BY <3>1 DEF LocalsClear
  <2>3. /\ \A p \in Ops : ring'[p] = IF p = o THEN <<>> ELSE ring[p]
        /\ \A p \in Ops : \A s \in Slots : slot'[p][s] = IF p = o THEN NoFd ELSE slot[p][s]
    BY <1>1 DEF OperatorShutdown, TypeInv, TypeOK
  <2>4. UNCHANGED <<backlog, lfd, popped>>
    BY <1>1 DEF OperatorShutdown, listenerVars
  <2>5. Line(o) = ring[o]
    BY <1>0, <2>2, LineIs
  <2>6. Line(o)' = <<>>
    BY <1>0, <2>2, <2>3, <2>4 DEF Line, InHand
  <2>7. Serving(o)' = {}
    BY <1>0, <2>3 DEF Serving, BusySlots
  <2>8. Over' = Over \cup {Line(o)[i] : i \in DOMAIN Line(o)} \cup Serving(o)
    <3>1. /\ leaked' = leaked \cup {ring[o][i] : i \in DOMAIN ring[o]}
          /\ closed' = closed \cup {slot[o][s] : s \in BusySlots(o)}
      BY <1>1 DEF OperatorShutdown
    <3> QED
      BY <2>5, <3>1 DEF Over, Serving
  <2>9. OnlyAt(o)
    <3> SUFFICES ASSUME NEW p \in Ops, p # o PROVE Line(p)' = Line(p) /\ Serving(p)' = Serving(p)
      BY DEF OnlyAt
    <3>1. ring'[p] = ring[p] /\ \A s \in Slots : slot'[p][s] = slot[p][s]
      BY <2>3
    <3>2. Line(p)' = Line(p)
      BY <2>4, <3>1 DEF Line, InHand
    <3>3. BusySlots(p)' = BusySlots(p) /\ \A s \in BusySlots(p) : slot'[p][s] = slot[p][s]
      BY <3>1 DEF BusySlots
    <3> QED
      BY <3>2, <3>3 DEF Serving
  <2>10. ringLive' = [ringLive EXCEPT ![o] = FALSE] /\ Offered' = Offered
    BY <1>1, <2>4 DEF OperatorShutdown, Offered
  <2> QED
    BY <1>0, <2>6, <2>7, <2>8, <2>9, <2>10, MoveRetire
<1>2. CASE ~OperatorShutdown
  <2>1. UNCHANGED <<backlog, lfd, closed, leaked, ring, popped, slot, ringLive>>
    BY <1>2 DEF BootStep, CreateThread, CreateFails, UndoStore, DestroyStore, RequestStore, UndoWrite, UndoJoin,
       AwaitActive, AwaitFails, Destroy, DestroyWrite, RequestWrite, JoinThread, FreeOperators, JoinListener,
       DrainEnds, opVars, listenerVars
  <2> QED
    BY <2>1, MoveSame
<1> QED
  BY <1>0, <1>1, <1>2

\* An operator's thread.
LEMMA HandoffMovesThread ==
    ASSUME TypeInv, TypeInv', LocalsClear, AllHeld, NEW o \in Ops, ThreadStep(o) PROVE HandoffMoves
<1>0. UNCHANGED <<backlog, lfd, ringLive>>
  BY ThreadLocal DEF ThreadStep, listenerVars
<1>1. CASE HandleTimer(o)
  <2>1. PICK S \in SUBSET BusySlots(o) : CloseSlots(o, S)
    BY <1>1 DEF HandleTimer, CleanClients
  <2>2. UNCHANGED <<leaked, ring, popped>>
    BY <1>1 DEF HandleTimer
  <2> QED
    BY <1>0, <2>1, <2>2, HandoffClose
<1>2. CASE HandleClientClose(o)
  <2>1. PICK e \in batch[o] : e.kind = "in" /\ slot[o][e.slot] # NoFd /\ CloseSlots(o, {e.slot})
    BY <1>2 DEF HandleClientClose
  <2>2. {e.slot} \in SUBSET BusySlots(o)
    <3>1. e \in Event
      BY DEF TypeInv, TypeOK
    <3> QED
      BY <2>1, <3>1, EventSlot DEF BusySlots
  <2>3. UNCHANGED <<leaked, ring, popped>>
    BY <1>2 DEF HandleClientClose
  <2> QED
    BY <1>0, <2>1, <2>2, <2>3, HandoffClose
<1>3. CASE HandleHangup(o)
  <2>1. PICK e \in batch[o] :
          /\ e.kind = "hup"
          /\ IF slot[o][e.slot] # NoFd
             THEN CloseSlots(o, {e.slot}) /\ Goto(o, "dispatch", "delUpd")
             ELSE Goto(o, "dispatch", "loop") /\ UNCHANGED <<slot, closed, active>>
    BY <1>3 DEF HandleHangup
  <2>2. UNCHANGED <<leaked, ring, popped>>
    BY <1>3 DEF HandleHangup
  <2>3. CASE slot[o][e.slot] # NoFd
    <3>1. {e.slot} \in SUBSET BusySlots(o)
      <4>1. e \in Event
        BY DEF TypeInv, TypeOK
      <4> QED
        BY <2>1, <2>3, <4>1, EventSlot DEF BusySlots
    <3> QED
      BY <1>0, <2>1, <2>2, <2>3, <3>1, HandoffClose
  <2>4. CASE slot[o][e.slot] = NoFd
    BY <1>0, <2>1, <2>2, <2>4, MoveSame
  <2> QED
    BY <2>3, <2>4
<1>4. CASE PopClient(o)
  BY <1>0, <1>4, HandoffPop
<1>5. ASSUME opc[o] \in {"check", "add"}, DropPopped(o), UNCHANGED <<closed, ring, slot>> PROVE HandoffMoves
  <2>1. popped[o] \in Fd
    BY <1>5 DEF TypeInv, LocalsOK
  <2> QED
    BY <1>0, <1>5, <2>1, HandoffDrop
<1>6. CASE CheckActive(o)
  <2>1. CASE status[o] = "ACTIVE"
    BY <1>0, <1>6, <2>1, MoveSame DEF CheckActive
  <2>2. CASE status[o] # "ACTIVE"
    BY <1>5, <1>6, <2>2 DEF CheckActive, Goto
  <2> QED
    BY <2>1, <2>2
<1>7. CASE AddClient(o)
  <2>1. CASE FreeSlots(o) = {}
    BY <1>5, <1>7, <2>1 DEF AddClient, Goto
  <2> QED
    BY <1>0, <1>7, <2>1, HandoffAdd
<1>8. CASE AddClientFails(o)
  BY <1>5, <1>8 DEF AddClientFails, Goto
<1>9. CASE \/ ThreadInit(o) \/ LoopCheck(o) \/ BatchDone(o) \/ (\E B \in SUBSET Ready(o) : EpollWait(o, B))
           \/ EpollInterrupted(o) \/ HandleWakeup(o) \/ HandleTimerSpurious(o) \/ HandleClientKeep(o)
           \/ NullHandler(o) \/ RemoveClientUpdate(o) \/ CountDequeued(o) \/ AddClientUpdate(o)
  <2>1. UNCHANGED <<closed, leaked, ring, popped, slot>>
    BY <1>9 DEF ThreadInit, LoopCheck, BatchDone, EpollWait, EpollInterrupted, HandleWakeup, HandleTimerSpurious,
       HandleClientKeep, NullHandler, RemoveClientUpdate, CountDequeued, AddClientUpdate, opVars
  <2> QED
    BY <1>0, <2>1, MoveSame
<1> QED
  BY <1>1, <1>2, <1>3, <1>4, <1>6, <1>7, <1>8, <1>9 DEF ThreadStep, OperatorStep

\* The pool of threads, rings, counters and slots implements the one-way life of a connection: dispatched to one
\* operator, taken in the order of dispatch, served by at most as many as it has slots, over once; also while the
\* pool starts, fails to start or is torn down beside the listener (pool_uaf), and for the fds that are dropped
\* open (pool_leak), which ConnectionHandoff counts as over.
THEOREM ImplementsHandoffHolds == Spec => ImplementsHandoff
<1>1. Init => Handoff!HInit
  <2> SUFFICES ASSUME Init PROVE Handoff!HInit
    OBVIOUS
  <2>1. /\ Offered = Fd /\ Over = {} /\ ringLive = [o \in Ops |-> TRUE]
    BY DEF Init, OpInit, Offered, Over
  <2>2. ASSUME NEW o \in Ops PROVE Line(o) = <<>> /\ Serving(o) = {}
    BY DEF Init, OpInit, Line, InHand, Serving, BusySlots
  <2> QED
    BY <2>1, <2>2 DEF Handoff!HInit
<1>2. /\ TypeInv /\ TypeInv' /\ LocalsClear /\ AllHeld /\ BootInv /\ [Next]_vars
      => [Handoff!HNext]_(Handoff!hvars)
  <2> SUFFICES ASSUME TypeInv, TypeInv', LocalsClear, AllHeld, BootInv, [Next]_vars PROVE HandoffMoves
    BY DEF HandoffMoves
  <2>1. CASE ListenerStep
    BY <2>1, HandoffMovesListener
  <2>2. CASE BootStep
    BY <2>2, HandoffMovesBoot
  <2>3. ASSUME NEW o \in Ops, ThreadStep(o) PROVE HandoffMoves
    BY <2>3, HandoffMovesThread
  <2>4. CASE Ended \/ UNCHANGED vars
    <3>1. UNCHANGED <<backlog, lfd, closed, leaked, ring, popped, slot, ringLive>>
      BY <2>4 DEF Ended, vars, opVars, listenerVars
    <3> QED
      BY <3>1, MoveSame
  <2> QED
    BY <2>1, <2>2, <2>3, <2>4 DEF Next
<1> QED
  BY <1>1, <1>2, OwnershipCorrect, LifecycleCorrect, PTL DEF Spec, ImplementsHandoff, Handoff!HSpec
=============================================================================
