------------------------ MODULE WorkerPoolSlotProofs ------------------------
(***************************************************************************)
(* Client slots and admission: active_clients counts the busy slots, and   *)
(* an operator that shows ACTIVE has a free one, for any number of         *)
(* operators, slots and connections.                                       *)
(***************************************************************************)
EXTENDS WorkerPoolHandoffProofs

\* The slot invariant at one operator.
SlotAt(o) ==
    /\ active[o] = Cardinality(BusySlots(o))
    /\ status[o] = "ACTIVE" /\ opc[o] # "addUpd" => active[o] < MaxClients
    /\ opc[o] = "add" => active[o] < MaxClients
    /\ opc[o] \in {"off", "init"} => active[o] = 0

LEMMA SlotSplit == ActiveExact /\ AdmitsBelowLimit <=> \A o \in Ops : SlotAt(o)
BY DEF ActiveExact, AdmitsBelowLimit, SlotAt

\* The slots of one operator are as before, and it has not become ACTIVE or started to add.
LEMMA SlotFrame ==
    ASSUME NEW o \in Ops, SlotAt(o), slot'[o] = slot[o], active'[o] = active[o],
           \/ status'[o] = status[o] /\ opc[o] # "addUpd"
           \/ status'[o] = status[o] /\ opc'[o] = opc[o]
           \/ status'[o] = "SHUTDOWN" /\ opc'[o] = opc[o],
           opc'[o] = "add" => opc[o] = "add" \/ (status[o] = "ACTIVE" /\ opc[o] # "addUpd"),
           opc'[o] \in {"off", "init"} => opc[o] \in {"off", "init"}
    PROVE  SlotAt(o)'
<1>1. BusySlots(o)' = BusySlots(o)
  BY DEF BusySlots
<1> QED
  BY <1>1 DEF SlotAt

\* Closing a set of busy slots uncounts exactly those clients, and never wraps the counter.
LEMMA CloseCount ==
    ASSUME TypeInv, NEW o \in Ops, active[o] = Cardinality(BusySlots(o)),
           NEW S \in SUBSET BusySlots(o), CloseSlots(o, S)
    PROVE  /\ active'[o] = Cardinality(BusySlots(o)')
           /\ active'[o] \in Nat /\ active'[o] <= active[o]
<1>1. BusySlots(o) \in SUBSET Slots /\ S \in SUBSET Slots
  BY DEF BusySlots
<1>2. /\ IsFiniteSet(BusySlots(o)) /\ Cardinality(BusySlots(o)) \in 0..MaxClients
      /\ IsFiniteSet(S) /\ Cardinality(S) \in 0..MaxClients
  BY <1>1, SlotSets
<1>3. BusySlots(o)' = BusySlots(o) \ S
  <2>1. slot'[o] = [s \in Slots |-> IF s \in S THEN NoFd ELSE slot[o][s]]
    BY DEF CloseSlots, TypeInv, TypeOK
  <2> QED
    BY <2>1 DEF BusySlots
<1>4. Cardinality(BusySlots(o) \ S) = Cardinality(BusySlots(o)) - Cardinality(S)
  <2>1. BusySlots(o) \cap S = S
    OBVIOUS
  <2>2. Cardinality(BusySlots(o) \ S) = Cardinality(BusySlots(o)) - Cardinality(BusySlots(o) \cap S)
    BY <1>2, FS_Difference, Zenon
  <2> QED
    BY <2>1, <2>2, Zenon
<1>5. Cardinality(S) <= Cardinality(BusySlots(o))
  BY <1>2, FS_Subset
<1>6. active'[o] = Sub(active[o], Cardinality(S))
  BY DEF CloseSlots, TypeInv, TypeOK
<1> QED
  BY <1>2, <1>3, <1>4, <1>5, <1>6, OperatorAssumption DEF Sub

\* A step that closes slots of o and leaves its status alone keeps the slot invariant.
LEMMA SlotClose ==
    ASSUME TypeInv, NEW o \in Ops, SlotAt(o), NEW S \in SUBSET BusySlots(o), CloseSlots(o, S),
           opc[o] = "dispatch", opc'[o] \in {"dispatch", "delUpd"}, status' = status
    PROVE  SlotAt(o)'
<1>1. /\ active'[o] = Cardinality(BusySlots(o)')
      /\ active'[o] \in Nat /\ active'[o] <= active[o]
  BY CloseCount DEF SlotAt
<1>2. active[o] \in Nat
  BY OperatorAssumption DEF TypeInv, TypeOK
<1> QED
  BY <1>1, <1>2, OperatorAssumption DEF SlotAt

\* _operator_add_client takes a slot that is free and counts it.
LEMMA SlotAdd ==
    ASSUME TypeInv, NEW o \in Ops, SlotAt(o), AddClient(o) PROVE SlotAt(o)'
<1>0. popped[o] \in Fd /\ popped[o] # NoFd /\ opc[o] = "add"
  <2>1. opc[o] = "add"
    BY DEF AddClient, Goto
  <2> QED
    BY <2>1, OperatorAssumption DEF TypeInv, LocalsOK
<1>1. BusySlots(o) \in SUBSET Slots
  BY DEF BusySlots
<1>2. IsFiniteSet(BusySlots(o)) /\ Cardinality(BusySlots(o)) \in 0..MaxClients
  BY <1>1, SlotSets
<1>3. CASE FreeSlots(o) # {}
  <2> DEFINE s == CHOOSE s \in FreeSlots(o) : \A t \in FreeSlots(o) : s <= t
  <2>1. s \in FreeSlots(o) /\ s \in Slots /\ s \notin BusySlots(o)
    <3>1. FreeSlots(o) \in SUBSET Slots
      BY DEF FreeSlots
    <3>2. \E u \in FreeSlots(o) : \A t \in FreeSlots(o) : u <= t
      BY <1>3, <3>1, FirstFree
    <3> QED
      BY <3>2 DEF FreeSlots
  <2>2. /\ slot' = [slot EXCEPT ![o][s] = popped[o]] /\ opc'[o] = "addUpd"
        /\ active'[o] = Inc(active[o])
    BY <1>3 DEF AddClient, Goto, TypeInv, TypeOK
  <2> HIDE DEF s
  <2>3. BusySlots(o)' = BusySlots(o) \cup {s}
    <3>1. \A t \in Slots : slot'[o][t] = IF t = s THEN popped[o] ELSE slot[o][t]
      BY <2>1, <2>2 DEF TypeInv, TypeOK
    <3> QED
      BY <1>0, <2>1, <3>1 DEF BusySlots
  <2>4. Cardinality(BusySlots(o)') = Cardinality(BusySlots(o)) + 1
    BY <1>2, <2>1, <2>3, FS_AddElement
  <2>5. active'[o] = active[o] + 1
    BY <1>2, <2>2, OperatorAssumption DEF SlotAt, Inc
  <2> QED
    BY <2>2, <2>4, <2>5 DEF SlotAt
<1>4. CASE FreeSlots(o) = {}
  <2>1. BusySlots(o) = Slots
    BY <1>1, <1>4 DEF FreeSlots
  <2>2. Cardinality(BusySlots(o)) = MaxClients
    BY <2>1, FS_Interval, OperatorAssumption DEF Slots
  <2> QED
    BY <1>0, <2>2, OperatorAssumption DEF SlotAt
<1> QED
  BY <1>3, <1>4

\* The trailing _operator_state_update publishes ACTIVE only below the limit.
LEMMA SlotUpdate ==
    ASSUME TypeInv, NEW o \in Ops, SlotAt(o), StateUpdate(o), UNCHANGED <<slot, active>>,
           opc'[o] \in {"dispatch", "pop"}
    PROVE  SlotAt(o)'
<1>1. BusySlots(o)' = BusySlots(o)
  BY DEF BusySlots
<1>2. status'[o] = LoadStatus(active[o])
  BY DEF StateUpdate, TypeInv, TypeOK
<1>3. status'[o] = "ACTIVE" => active[o] < MaxClients
  BY <1>2, OperatorAssumption DEF LoadStatus, TypeInv, TypeOK
<1> QED
  BY <1>1, <1>3 DEF SlotAt

\* Every action of an operator's thread.
LEMMA SlotThread ==
    ASSUME TypeInv, NEW p \in Ops, ThreadStep(p), NEW o \in Ops, SlotAt(o) PROVE SlotAt(o)'
<1>1. CASE o # p
  <2>1. slot'[o] = slot[o] /\ active'[o] = active[o] /\ status'[o] = status[o] /\ opc'[o] = opc[o]
    BY <1>1, ThreadLocal
  <2> QED
    BY <2>1, SlotFrame
<1>2. CASE o = p
  <2>1. CASE ThreadInit(o)
    <3>1. slot' = slot /\ active' = active /\ opc[o] = "init" /\ opc'[o] \in {"loop", "exit"}
      BY <2>1 DEF ThreadInit, PublishInit, Goto, TypeInv, TypeOK
    <3>2. BusySlots(o)' = BusySlots(o)
      BY <3>1 DEF BusySlots
    <3>3. active[o] = 0
      BY <3>1 DEF SlotAt
    <3> QED
      BY <3>1, <3>2, <3>3, OperatorAssumption DEF SlotAt
  <2>2. CASE HandleTimer(o)
    <3>1. PICK S \in SUBSET BusySlots(o) : CloseSlots(o, S)
      BY <2>2 DEF HandleTimer, CleanClients
    <3>2. opc[o] = "dispatch" /\ opc'[o] = "dispatch" /\ status' = status
      BY <2>2 DEF HandleTimer, Goto, TypeInv, TypeOK
    <3> QED
      BY <3>1, <3>2, SlotClose
  <2>3. CASE HandleClientClose(o)
    <3>1. PICK e \in batch[o] : e.kind = "in" /\ slot[o][e.slot] # NoFd /\ CloseSlots(o, {e.slot})
      BY <2>3 DEF HandleClientClose
    <3>2. {e.slot} \in SUBSET BusySlots(o)
      <4>1. e \in Event
        BY DEF TypeInv, TypeOK
      <4> QED
        BY <3>1, <4>1, EventSlot DEF BusySlots
    <3>3. opc[o] = "dispatch" /\ opc'[o] = "delUpd" /\ status' = status
      BY <2>3 DEF HandleClientClose, Goto, TypeInv, TypeOK
    <3> QED
      BY <3>1, <3>2, <3>3, SlotClose
  <2>4. CASE HandleHangup(o)
    <3>1. PICK e \in batch[o] :
            /\ e.kind = "hup"
            /\ IF slot[o][e.slot] # NoFd
               THEN CloseSlots(o, {e.slot}) /\ Goto(o, "dispatch", "delUpd")
               ELSE Goto(o, "dispatch", "loop") /\ UNCHANGED <<slot, closed, active>>
      BY <2>4 DEF HandleHangup
    <3>2. status' = status
      BY <2>4 DEF HandleHangup
    <3>3. CASE slot[o][e.slot] # NoFd
      <4>1. {e.slot} \in SUBSET BusySlots(o)
        <5>1. e \in Event
          BY DEF TypeInv, TypeOK
        <5> QED
          BY <3>1, <3>3, <5>1, EventSlot DEF BusySlots
      <4>2. opc[o] = "dispatch" /\ opc'[o] = "delUpd" /\ CloseSlots(o, {e.slot})
        BY <3>1, <3>3 DEF Goto, TypeInv, TypeOK
      <4> QED
        BY <3>2, <4>1, <4>2, SlotClose
    <3>4. CASE slot[o][e.slot] = NoFd
      <4>1. opc[o] = "dispatch" /\ opc'[o] = "loop" /\ UNCHANGED <<slot, active>>
        BY <3>1, <3>4 DEF Goto, TypeInv, TypeOK
      <4> QED
        BY <3>2, <4>1, SlotFrame
    <3> QED
      BY <3>3, <3>4
  <2>5. CASE RemoveClientUpdate(o) \/ AddClientUpdate(o)
    <3>1. StateUpdate(o) /\ UNCHANGED <<slot, active>> /\ opc'[o] \in {"dispatch", "pop"}
      BY <2>5 DEF RemoveClientUpdate, AddClientUpdate, Goto, TypeInv, TypeOK
    <3> QED
      BY <3>1, SlotUpdate
  <2>6. CASE AddClient(o)
    BY <2>6, SlotAdd
  <2>7. CASE CheckActive(o)
    <3>1. /\ UNCHANGED <<slot, active, status>> /\ opc[o] = "check" /\ opc'[o] \in {"add", "dispatch"}
          /\ opc'[o] = "add" => status[o] = "ACTIVE"
      BY <2>7 DEF CheckActive, Goto, TypeInv, TypeOK
    <3> QED
      BY <3>1, SlotFrame
  <2>8. CASE \/ LoopCheck(o) \/ BatchDone(o) \/ (\E B \in SUBSET Ready(o) : EpollWait(o, B)) \/ EpollInterrupted(o)
             \/ HandleWakeup(o) \/ HandleTimerSpurious(o) \/ HandleClientKeep(o) \/ NullHandler(o)
             \/ PopClient(o) \/ CountDequeued(o) \/ AddClientFails(o)
    <3>1. /\ UNCHANGED <<slot, active, status>>
          /\ opc'[o] = opc[o] \/ (opc[o] # "addUpd" /\ opc'[o] \notin {"add", "off", "init"})
      <4> USE DEF TypeInv, TypeOK, Goto, opVars
      <4>1. CASE LoopCheck(o) \/ BatchDone(o) \/ EpollInterrupted(o)
        BY <4>1 DEF LoopCheck, BatchDone, EpollInterrupted
      <4>2. CASE \E B \in SUBSET Ready(o) : EpollWait(o, B)
        BY <4>2 DEF EpollWait
      <4>3. CASE HandleWakeup(o) \/ HandleTimerSpurious(o) \/ HandleClientKeep(o)
        BY <4>3 DEF HandleWakeup, HandleTimerSpurious, HandleClientKeep
      <4>4. CASE NullHandler(o)
        BY <4>4 DEF NullHandler
      <4>5. CASE PopClient(o)
        BY <4>5 DEF PopClient
      <4>6. CASE CountDequeued(o) \/ AddClientFails(o)
        BY <4>6 DEF CountDequeued, AddClientFails
      <4> QED
        BY <2>8, <4>1, <4>2, <4>3, <4>4, <4>5, <4>6
    <3> QED
      BY <3>1, SlotFrame
  <2> QED
    BY <1>2, <2>1, <2>2, <2>3, <2>4, <2>5, <2>6, <2>7, <2>8 DEF ThreadStep, OperatorStep
<1> QED
  BY <1>1, <1>2

\* Start-up and teardown: a thread starts with no client, SHUTDOWN admits none, and operator_shutdown empties
\* slots and counter together.
LEMMA SlotBoot ==
    ASSUME TypeInv, NotCreatedYet, BootStep, NEW o \in Ops, SlotAt(o) PROVE SlotAt(o)'
<1>0. opIdx \in Ops
  BY DEF TypeInv, TypeOK
<1>1. CASE OperatorShutdown
  <2>1. CASE o = opIdx
    <3>1. /\ slot'[o] = [s \in Slots |-> NoFd] /\ active'[o] = 0 /\ status'[o] = "SHUTDOWN"
      BY <1>1, <2>1 DEF OperatorShutdown, TypeInv, TypeOK
    <3>2. BusySlots(o)' = {}
      BY <3>1 DEF BusySlots
    <3> QED
      BY <3>1, <3>2, FS_EmptySet, OperatorAssumption DEF SlotAt
  <2>2. CASE o # opIdx
    <3>1. slot'[o] = slot[o] /\ active'[o] = active[o] /\ status'[o] = status[o] /\ opc' = opc
      BY <1>1, <2>2 DEF OperatorShutdown, TypeInv, TypeOK
    <3> QED
      BY <3>1, SlotFrame
  <2> QED
    BY <2>1, <2>2
<1>2. CASE CreateThread
  <2>1. /\ opc[opIdx] = "off" /\ opc' = [opc EXCEPT ![opIdx] = "init"]
        /\ UNCHANGED <<slot, active, status>>
    <3>1. opIdx >= opIdx
      BY <1>0 DEF Ops
    <3> QED
      BY <1>0, <1>2, <3>1 DEF CreateThread, LoopOver, MGoto, NotCreatedYet
  <2>2. opc'[o] = opc[o] \/ (opc[o] = "off" /\ opc'[o] = "init")
    BY <1>0, <2>1 DEF TypeInv, TypeOK
  <2> QED
    BY <2>1, <2>2, SlotFrame
<1>3. CASE UndoStore \/ DestroyStore
  <2>1. status'[o] \in {status[o], "SHUTDOWN"} /\ UNCHANGED <<slot, active, opc>>
    BY <1>3 DEF UndoStore, DestroyStore, RequestStore, TypeInv, TypeOK
  <2> QED
    BY <2>1, SlotFrame
<1>4. CASE ~(OperatorShutdown \/ CreateThread \/ UndoStore \/ DestroyStore)
  <2>1. UNCHANGED <<slot, active, status, opc>>
    BY <1>4 DEF BootStep, CreateFails, UndoWrite, UndoJoin, AwaitActive, AwaitFails, Destroy, DestroyWrite,
       RequestWrite, JoinThread, FreeOperators, JoinListener, DrainEnds, opVars
  <2> QED
    BY <2>1, SlotFrame
<1> QED
  BY <1>1, <1>2, <1>3, <1>4

\* The slot invariant in every reachable state.
LEMMA SlotsCorrect == Spec => [](TypeInv /\ ActiveExact /\ AdmitsBelowLimit)
<1>1. Init => ActiveExact /\ AdmitsBelowLimit
  <2> SUFFICES ASSUME Init, NEW o \in Ops PROVE SlotAt(o)
    BY SlotSplit
  <2>1. slot[o] = [s \in Slots |-> NoFd] /\ active[o] = 0 /\ status[o] = "INITIALIZING" /\ opc[o] = "off"
    BY DEF Init, OpInit
  <2>2. BusySlots(o) = {}
    BY <2>1 DEF BusySlots
  <2> QED
    BY <2>1, <2>2, FS_EmptySet DEF SlotAt
<1>2. TypeInv /\ NotCreatedYet /\ ActiveExact /\ AdmitsBelowLimit /\ [Next]_vars
        => ActiveExact' /\ AdmitsBelowLimit'
  <2> SUFFICES ASSUME TypeInv, NotCreatedYet, \A o \in Ops : SlotAt(o), [Next]_vars, NEW o \in Ops
               PROVE  SlotAt(o)'
    BY SlotSplit DEF ActiveExact, AdmitsBelowLimit, SlotAt
  <2>1. CASE ListenerStep
    <3>1. UNCHANGED <<slot, active, status, opc>>
      BY <2>1 DEF ListenerStep, Accept, StopListener, Dispatch, ScanStatus, ScanActive, ScanQueued, HealthCheck,
         Push, CountQueued, SignalOperator, Reject, UseAfterFree, opVars
    <3> QED
      BY <3>1, SlotFrame
  <2>2. CASE BootStep
    BY <2>2, SlotBoot
  <2>3. ASSUME NEW p \in Ops, ThreadStep(p) PROVE SlotAt(o)'
    BY <2>3, SlotThread
  <2>4. CASE Ended \/ UNCHANGED vars
    <3>1. UNCHANGED <<slot, active, status, opc>>
      BY <2>4 DEF Ended, vars, opVars
    <3> QED
      BY <3>1, SlotFrame
  <2> QED
    BY <2>1, <2>2, <2>3, <2>4 DEF Next
<1> QED
  BY <1>1, <1>2, HandoffCorrect, PTL DEF Spec

\* active_clients is the number of busy slots at every moment, however the timer scan, the hangup path and
\* the client handlers interleave with adding clients and with teardown.
THEOREM ActiveExactHolds == Spec => []ActiveExact
BY SlotsCorrect, PTL

\* _operator_add_client always finds a slot: the status the operator read as ACTIVE is still a promise of
\* room, although status may be overwritten by the boot thread in between.
THEOREM SlotForActiveHolds == Spec => []SlotForActive
<1>1. TypeInv /\ ActiveExact /\ AdmitsBelowLimit => SlotForActive
  <2> SUFFICES ASSUME TypeInv, ActiveExact, AdmitsBelowLimit, NEW o \in Ops, opc[o] = "add", FreeSlots(o) = {}
               PROVE  FALSE
    BY DEF SlotForActive
  <2>1. BusySlots(o) = Slots
    BY DEF FreeSlots, BusySlots
  <2>2. Cardinality(BusySlots(o)) = MaxClients
    BY <2>1, FS_Interval, OperatorAssumption DEF Slots
  <2> QED
    BY <2>2, OperatorAssumption DEF ActiveExact, AdmitsBelowLimit
<1> QED
  BY <1>1, SlotsCorrect, PTL

\* The housekeeping invariant at one operator.
TickAt(o) == opc[o] # "addUpd" /\ active[o] > 0 => period[o] = "SHORT"

\* active_clients has not risen and the period is the same; an update under way is still under way.
LEMMA TickFrame ==
    ASSUME TypeInv, TypeInv', NEW o \in Ops, TickAt(o), period'[o] = period[o], active'[o] <= active[o],
           opc[o] = "addUpd" => opc'[o] = "addUpd"
    PROVE  TickAt(o)'
<1>1. active[o] \in Nat /\ active'[o] \in Nat
  BY OperatorAssumption DEF TypeInv, TypeOK
<1> QED
  BY <1>1 DEF TickAt

\* Every action of an operator's thread: each path that raises active_clients passes _operator_state_update
\* before the thread waits again, and the timer handler sets the period before it closes idle clients.
LEMMA TickThread ==
    ASSUME TypeInv, TypeInv', NEW p \in Ops, ThreadStep(p), NEW o \in Ops, SlotAt(o), TickAt(o)
    PROVE  TickAt(o)'
<1>0. active[o] \in Nat /\ active'[o] \in Nat
  BY OperatorAssumption DEF TypeInv, TypeOK
<1>1. CASE o # p
  <2>1. active'[o] = active[o] /\ opc'[o] = opc[o]
    BY <1>1, ThreadLocal
  <2>2. period'[o] = period[o]
    BY <1>1 DEF TypeInv, TypeOK, ThreadStep, OperatorStep, ThreadInit, LoopCheck, BatchDone, EpollWait,
       EpollInterrupted, HandleWakeup, HandleTimer, HandleTimerSpurious, HandleClientKeep, HandleClientClose,
       NullHandler, HandleHangup, RemoveClientUpdate, StateUpdate, PopClient, CountDequeued, CheckActive,
       AddClient, AddClientFails, AddClientUpdate, opVars
  <2> QED
    BY <1>0, <2>1, <2>2, TickFrame
<1>2. CASE o = p
  <2>1. CASE HandleTimer(o)
    <3>1. PICK S \in SUBSET BusySlots(o) : CloseSlots(o, S)
      BY <2>1 DEF HandleTimer, CleanClients
    <3>2. active'[o] <= active[o]
      BY <3>1, CloseCount DEF SlotAt
    <3>3. period'[o] = TimerPeriod(active[o])
      BY <2>1 DEF HandleTimer, TypeInv, TypeOK
    <3> QED
      BY <1>0, <3>2, <3>3 DEF TickAt, TimerPeriod
  <2>2. CASE HandleClientClose(o)
    <3>1. PICK e \in batch[o] : e.kind = "in" /\ slot[o][e.slot] # NoFd /\ CloseSlots(o, {e.slot})
      BY <2>2 DEF HandleClientClose
    <3>2. {e.slot} \in SUBSET BusySlots(o)
      <4>1. e \in Event
        BY DEF TypeInv, TypeOK
      <4> QED
        BY <3>1, <4>1, EventSlot DEF BusySlots
    <3>3. active'[o] <= active[o]
      BY <3>1, <3>2, CloseCount DEF SlotAt
    <3>4. period' = period /\ opc[o] = "dispatch"
      BY <2>2 DEF HandleClientClose, Goto
    <3> QED
      BY <3>3, <3>4, TickFrame
  <2>3. CASE HandleHangup(o)
    <3>1. PICK e \in batch[o] :
            /\ e.kind = "hup"
            /\ IF slot[o][e.slot] # NoFd
               THEN CloseSlots(o, {e.slot}) /\ Goto(o, "dispatch", "delUpd")
               ELSE Goto(o, "dispatch", "loop") /\ UNCHANGED <<slot, closed, active>>
      BY <2>3 DEF HandleHangup
    <3>2. period' = period /\ opc[o] = "dispatch"
      BY <2>3, <3>1 DEF HandleHangup, Goto
    <3>3. CASE slot[o][e.slot] # NoFd
      <4>1. {e.slot} \in SUBSET BusySlots(o)
        <5>1. e \in Event
          BY DEF TypeInv, TypeOK
        <5> QED
          BY <3>1, <3>3, <5>1, EventSlot DEF BusySlots
      <4>2. active'[o] <= active[o]
        BY <3>1, <3>3, <4>1, CloseCount DEF SlotAt
      <4> QED
        BY <3>2, <4>2, TickFrame
    <3>4. CASE slot[o][e.slot] = NoFd
      BY <1>0, <3>1, <3>2, <3>4, TickFrame
    <3> QED
      BY <3>3, <3>4
  <2>4. CASE RemoveClientUpdate(o) \/ AddClientUpdate(o)
    <3>1. period'[o] = TimerPeriod(active[o]) /\ active' = active
      BY <2>4 DEF RemoveClientUpdate, AddClientUpdate, StateUpdate, TypeInv, TypeOK
    <3> QED
      BY <1>0, <3>1 DEF TickAt, TimerPeriod
  <2>5. CASE AddClient(o)
    <3>1. CASE FreeSlots(o) # {}
      <4>1. opc'[o] = "addUpd"
        BY <2>5, <3>1 DEF AddClient, Goto, TypeInv, TypeOK
      <4> QED
        BY <4>1 DEF TickAt
    <3>2. CASE FreeSlots(o) = {}
      <4>1. UNCHANGED <<active, period>> /\ opc[o] = "add"
        BY <2>5, <3>2 DEF AddClient, Goto
      <4> QED
        BY <1>0, <4>1, TickFrame
    <3> QED
      BY <3>1, <3>2
  <2>6. CASE \/ ThreadInit(o) \/ LoopCheck(o) \/ BatchDone(o) \/ (\E B \in SUBSET Ready(o) : EpollWait(o, B))
             \/ EpollInterrupted(o) \/ HandleWakeup(o) \/ HandleTimerSpurious(o) \/ HandleClientKeep(o)
             \/ NullHandler(o) \/ PopClient(o) \/ CountDequeued(o) \/ CheckActive(o) \/ AddClientFails(o)
    <3>1. UNCHANGED <<active, period>> /\ (opc[o] = "addUpd" => opc'[o] = "addUpd")
      <4> USE DEF Goto, opVars
      <4>1. CASE ThreadInit(o) \/ LoopCheck(o) \/ BatchDone(o) \/ EpollInterrupted(o)
        BY <4>1 DEF ThreadInit, PublishInit, LoopCheck, BatchDone, EpollInterrupted
      <4>2. CASE \E B \in SUBSET Ready(o) : EpollWait(o, B)
        BY <4>2 DEF EpollWait
      <4>3. CASE HandleWakeup(o) \/ HandleTimerSpurious(o) \/ HandleClientKeep(o) \/ NullHandler(o)
        BY <4>3 DEF HandleWakeup, HandleTimerSpurious, HandleClientKeep, NullHandler
      <4>4. CASE PopClient(o) \/ CountDequeued(o) \/ CheckActive(o) \/ AddClientFails(o)
        BY <4>4 DEF PopClient, CountDequeued, CheckActive, AddClientFails
      <4> QED
        BY <2>6, <4>1, <4>2, <4>3, <4>4
    <3> QED
      BY <1>0, <3>1, TickFrame
  <2> QED
    BY <1>2, <2>1, <2>2, <2>3, <2>4, <2>5, <2>6 DEF ThreadStep, OperatorStep
<1> QED
  BY <1>1, <1>2

\* The listener and the boot thread: only operator_shutdown touches the counter, and it resets it.
LEMMA TickOthers ==
    ASSUME TypeInv, TypeInv', NotCreatedYet, ListenerStep \/ BootStep \/ UNCHANGED vars, NEW o \in Ops, TickAt(o)
    PROVE  TickAt(o)'
<1>0. active[o] \in Nat /\ active'[o] \in Nat /\ opIdx \in Ops
  BY OperatorAssumption DEF TypeInv, TypeOK
<1>1. CASE OperatorShutdown
  <2>1. active'[o] \in {0, active[o]} /\ UNCHANGED <<period, opc>>
    BY <1>1 DEF OperatorShutdown, TypeInv, TypeOK
  <2> QED
    BY <1>0, <2>1, TickFrame
<1>2. CASE CreateThread
  <2>1. opc[opIdx] = "off"
    <3>1. opIdx >= opIdx
      BY <1>0 DEF Ops
    <3> QED
      BY <1>0, <1>2, <3>1 DEF CreateThread, LoopOver, MGoto, NotCreatedYet
  <2>2. opc' = [opc EXCEPT ![opIdx] = "init"] /\ UNCHANGED <<active, period>>
    BY <1>2 DEF CreateThread
  <2>3. opc[o] = "addUpd" => opc'[o] = "addUpd"
    BY <1>0, <2>1, <2>2 DEF TypeInv, TypeOK
  <2> QED
    BY <1>0, <2>2, <2>3, TickFrame
<1>3. CASE ListenerStep
  <2>1. UNCHANGED <<active, period, opc>>
    BY <1>3 DEF ListenerStep, Accept, StopListener, Dispatch, ScanStatus, ScanActive, ScanQueued, HealthCheck,
       Push, CountQueued, SignalOperator, Reject, UseAfterFree, opVars
  <2> QED
    BY <1>0, <2>1, TickFrame
<1>4. CASE (BootStep /\ ~(OperatorShutdown \/ CreateThread)) \/ UNCHANGED vars
  <2>1. UNCHANGED <<active, period, opc>>
    BY <1>4 DEF BootStep, CreateFails, UndoStore, DestroyStore, RequestStore, UndoWrite, UndoJoin, AwaitActive,
       AwaitFails, Destroy, DestroyWrite, RequestWrite, JoinThread, FreeOperators, JoinListener, DrainEnds,
       opVars, vars
  <2> QED
    BY <1>0, <2>1, TickFrame
<1> QED
  BY <1>1, <1>2, <1>3, <1>4

\* An operator that has clients waits with the short housekeeping tick, so that an idle client is looked at
\* within seconds, whatever order adding, closing and the timer scan happen in.
THEOREM ShortTickWhileBusyHolds == Spec => []ShortTickWhileBusy
<1>1. Init => TickInv
  BY OperatorAssumption DEF Init, OpInit, TickInv
<1>2. /\ TypeInv /\ TypeInv' /\ NotCreatedYet /\ ActiveExact /\ AdmitsBelowLimit /\ TickInv /\ [Next]_vars
      => TickInv'
  <2> SUFFICES ASSUME TypeInv, TypeInv', NotCreatedYet, \A o \in Ops : SlotAt(o), \A o \in Ops : TickAt(o),
                      [Next]_vars, NEW o \in Ops
               PROVE  TickAt(o)'
    BY SlotSplit DEF TickInv, TickAt
  <2>1. CASE Next
    BY <2>1, TickThread, TickOthers DEF Next, Ended
  <2>2. CASE UNCHANGED vars
    BY <2>2, TickOthers
  <2> QED
    BY <2>1, <2>2
<1>3. TickInv => ShortTickWhileBusy
  BY DEF TickInv, ShortTickWhileBusy
<1> QED
  BY <1>1, <1>2, <1>3, SlotsCorrect, HandoffCorrect, PTL DEF Spec
=============================================================================
