-------------------------- MODULE WorkerPoolProofs --------------------------
(***************************************************************************)
(* Proofs about WorkerPool for any number of operators, slots and          *)
(* connections and any ring capacity.                                      *)
(***************************************************************************)
EXTENDS WorkerPool, FiniteSetTheorems, WellFoundedInduction, TLAPS

\* The slots of an operator are finitely many, and so is every set of them, within the counter's width.
LEMMA SlotSets ==
    ASSUME NEW S \in SUBSET Slots
    PROVE  IsFiniteSet(S) /\ Cardinality(S) \in 0..MaxClients
<1>1. IsFiniteSet(Slots) /\ Cardinality(Slots) = MaxClients
  BY FS_Interval, OperatorAssumption DEF Slots
<1>2. IsFiniteSet(S) /\ Cardinality(S) <= Cardinality(Slots)
  BY <1>1, FS_Subset
<1> QED
  BY <1>1, <1>2, FS_CardinalityType, OperatorAssumption

\* The counters stay within their width whatever is added or subtracted.
LEMMA ElementsOfSeq == ASSUME NEW S, NEW q \in Seq(S) PROVE \A i \in DOMAIN q : q[i] \in S
OBVIOUS

LEMMA IncRange ==
    ASSUME NEW n \in 0..UINT_MAX PROVE Inc(n) \in 0..UINT_MAX
BY OperatorAssumption DEF Inc

LEMMA SubRange ==
    ASSUME NEW n \in 0..UINT_MAX, NEW k \in 0..MaxClients
    PROVE  Sub(n, k) \in 0..UINT_MAX
BY OperatorAssumption DEF Sub

LEMMA DecRange ==
    ASSUME NEW n \in 0..UINT_MAX PROVE Dec(n) \in 0..UINT_MAX
BY OperatorAssumption DEF Sub, Dec

LEMMA LoadRange ==
    ASSUME NEW a \in 0..UINT_MAX, NEW q \in 0..UINT_MAX PROVE Load(a, q) \in 0..UINT_MAX
BY OperatorAssumption DEF Load

\* A non-empty set of slots has a smallest one: what _get_available_client_slot returns.
LEMMA FirstFree ==
    ASSUME NEW S \in SUBSET Slots, S # {} PROVE \E s \in S : \A t \in S : s <= t
<1> DEFINE R == {p \in Nat \X Nat : p[1] < p[2]}
<1>1. IsWellFoundedOn(R, Nat)
  BY NatLessThanWellFounded, Zenon DEF OpToRel
<1>2. S \subseteq Nat
  BY OperatorAssumption DEF Slots
<1>3. PICK f \in S : \A g \in S : <<g, f>> \notin R
  <2> HIDE DEF R
  <2> QED
    BY <1>1, <1>2, WFMin, Zenon
<1>4. ASSUME NEW g \in S, ~(f <= g) PROVE FALSE
  <2>1. f \in Nat /\ g \in Nat /\ g < f
    BY <1>2, <1>4
  <2>2. <<g, f>> \in R
    BY <2>1
  <2> QED
    BY <1>3, <2>2
<1> QED
  BY <1>4

TypeInv == TypeOK /\ LocalsOK

\* Every action of the listener thread keeps every variable in its type.
LEMMA TypeListener ==
    ASSUME TypeInv, ListenerStep PROVE TypeInv'
<1> USE OperatorAssumption DEF TypeInv, TypeOK, LocalsOK, ListenerPc, LGoto, Running, opVars, bootVars,
        listenerVars
<1>1. ASSUME NEW c \in Fd, Accept(c) PROVE TypeInv'
  BY <1>1 DEF Accept
<1>2. CASE StopListener
  BY <1>2 DEF StopListener
<1>3. CASE Dispatch
  BY <1>3 DEF Dispatch
<1>4. CASE ScanStatus
  <2>1. CASE freed \/ idx > OperatorsCount
    <3>1. /\ idx' = bestIdx /\ lpc' \in {"reject", "health"}
          /\ seenActive' = 0 /\ bestLoad' = UINT_MAX /\ bestIdx' = 1
      BY <1>4, <2>1 DEF ScanStatus, ScanReturns
    <3>2. idx' \in Ops /\ idx' \in 1..(OperatorsCount + 1) /\ 1 \in Ops /\ 0 \in 0..UINT_MAX
          /\ UINT_MAX \in 0..UINT_MAX
      BY <3>1 DEF Ops
    <3> QED
      BY <1>4, <2>1, <3>1, <3>2 DEF ScanStatus
  <2>2. CASE ~(freed \/ idx > OperatorsCount)
    <3>1. idx \in Ops
      BY <2>2 DEF Ops
    <3>2. \/ lpc' = "scan" /\ idx' = idx + 1
          \/ lpc' = "active" /\ idx' = idx
      BY <1>4, <2>2 DEF ScanStatus
    <3>3. idx' \in 1..(OperatorsCount + 1) /\ (lpc' = "active" => idx' \in Ops)
      <4>1. CASE lpc' = "scan" /\ idx' = idx + 1
        BY <3>1, <4>1 DEF Ops
      <4>2. CASE lpc' = "active" /\ idx' = idx
        BY <3>1, <4>2
      <4> QED
        BY <3>2, <4>1, <4>2
    <3> QED
      BY <1>4, <2>2, <3>2, <3>3 DEF ScanStatus
  <2> QED
    BY <2>1, <2>2
<1>5. CASE ScanActive
  BY <1>5 DEF ScanActive
<1>6. CASE ScanQueued
  <2>1. idx \in Ops /\ idx \in 1..OperatorsCount
    BY <1>6 DEF ScanQueued, Ops
  <2>2. PICK load \in 0..UINT_MAX : load = Load(seenActive, queued[idx])
    BY <2>1, LoadRange
  <2>3. CASE load < BlindLimit
    <3>1. /\ lpc' = "health" /\ idx' = idx /\ bestLoad' = UINT_MAX /\ bestIdx' = 1 /\ seenActive' = 0
          /\ wstatus' = wstatus
      BY <1>6, <2>2, <2>3 DEF ScanQueued, ScanReturns
    <3>2. 1 \in Ops /\ 0 \in 0..UINT_MAX /\ UINT_MAX \in 0..UINT_MAX
      BY DEF Ops
    <3> QED
      BY <1>6, <2>1, <3>1, <3>2 DEF ScanQueued
  <2>4. CASE ~(load < BlindLimit)
    <3>1. lpc' = "scan" /\ idx' = idx + 1 /\ seenActive' = 0
      BY <1>6, <2>2, <2>4 DEF ScanQueued
    <3>2. bestLoad' \in 0..UINT_MAX /\ bestIdx' \in Ops
      <4>1. CASE load < bestLoad
        BY <1>6, <2>1, <2>2, <2>4, <4>1 DEF ScanQueued
      <4>2. CASE ~(load < bestLoad)
        BY <1>6, <2>1, <2>2, <2>4, <4>2 DEF ScanQueued
      <4> QED
        BY <4>1, <4>2
    <3>3. wstatus' \in {"FULL", wstatus}
      BY <1>6, <2>2, <2>4 DEF ScanQueued
    <3>4. idx' \in 1..(OperatorsCount + 1) /\ 0 \in 0..UINT_MAX
      BY <2>1, <3>1
    <3> QED
      BY <1>6, <3>1, <3>2, <3>3, <3>4 DEF ScanQueued
  <2> QED
    BY <2>3, <2>4
<1>7. CASE HealthCheck
  BY <1>7 DEF HealthCheck
<1>8. CASE Push
  <2>1. idx \in Ops /\ lfd \in Fd
    BY <1>8 DEF Push
  <2>2. ring' \in [Ops -> Seq(Fd)]
    <3>1. Append(ring[idx], lfd) \in Seq(Fd)
      BY <2>1
    <3> QED
      BY <1>8, <2>1, <3>1 DEF Push
  <2>3. lpc' \in {"add", "reject"} /\ (lpc' = "reject" => lfd' \in Fd) /\ lfd' \in Fd \cup {NoFd}
    BY <1>8, <2>1 DEF Push
  <2> QED
    BY <1>8, <2>1, <2>2, <2>3 DEF Push
<1>9. CASE CountQueued
  <2>1. idx \in Ops /\ queued' \in [Ops -> 0..UINT_MAX]
    BY <1>9, IncRange DEF CountQueued
  <2> QED
    BY <1>9, <2>1 DEF CountQueued
<1>10. CASE SignalOperator
  <2>1. wakeup' \in [Ops -> Nat]
    BY <1>10 DEF SignalOperator
  <2> QED
    BY <1>10, <2>1 DEF SignalOperator
<1>11. CASE Reject
  BY <1>11 DEF Reject
<1>12. CASE UseAfterFree
  BY <1>12 DEF UseAfterFree
<1> QED
  BY <1>1, <1>2, <1>3, <1>4, <1>5, <1>6, <1>7, <1>8, <1>9, <1>10, <1>11, <1>12 DEF ListenerStep

\* The loop index of the boot thread stays on an operator.
LEMMA LoopIndex ==
    ASSUME opIdx \in Ops, NEW from, NEW exit, LoopOver(from, OperatorsCount, exit)
    PROVE  opIdx' \in Ops /\ mpc' \in {from, exit} /\ crashed' = crashed
BY OperatorAssumption DEF LoopOver, MGoto, Ops, Running

\* Every action of the boot thread keeps every variable in its type.
LEMMA TypeBoot ==
    ASSUME TypeInv, BootStep PROVE TypeInv'
<1> USE OperatorAssumption DEF TypeInv, TypeOK, LocalsOK, BootPc, MGoto, Running, opVars, bootVars,
        listenerVars
<1>0. 1 \in Ops /\ 0 \in 0..UINT_MAX /\ "SHUTDOWN" \in OperatorStatus
  BY DEF Ops, OperatorStatus
<1>1. CASE CreateThread
  <2>1. opIdx' \in Ops /\ mpc' \in {"create", "await"} /\ crashed' = crashed
    BY <1>1, LoopIndex DEF CreateThread
  <2>2. created' \in 0..OperatorsCount /\ started' \in BOOLEAN
    BY <1>1 DEF CreateThread, Ops
  <2>3. /\ opc' \in [Ops -> OpPc]
        /\ \A o \in Ops : opc'[o] \in {"sub", "check", "add"} => opc[o] = opc'[o]
    BY <1>1 DEF CreateThread, OpPc
  <2> QED
    BY <1>1, <2>1, <2>2, <2>3 DEF CreateThread
<1>2. CASE CreateFails
  BY <1>0, <1>2 DEF CreateFails
<1>3. CASE UndoStore \/ DestroyStore
  <2>1. status' \in [Ops -> OperatorStatus]
    BY <1>0, <1>3 DEF UndoStore, DestroyStore, RequestStore
  <2>2. mpc' \in BootPc /\ crashed' = crashed /\ UNCHANGED <<opIdx, created, started, runFailed, freed, wstatus>>
    BY <1>3 DEF UndoStore, DestroyStore, RequestStore
  <2>3. /\ UNCHANGED <<ring, ringLive, wakeup, queued, active, slot, period, opc, batch, popped, closed, leaked>>
        /\ UNCHANGED listenerVars
    BY <1>3 DEF UndoStore, DestroyStore, RequestStore
  <2> QED
    BY <2>1, <2>2, <2>3
<1>4. CASE UndoWrite
  BY <1>4 DEF UndoWrite, RequestWrite
<1>5. CASE UndoJoin
  <2>1. (opIdx < created /\ opIdx' = opIdx + 1) \/ opIdx' = 1
    BY <1>5 DEF UndoJoin
  <2>2. opIdx' \in Ops
    BY <2>1 DEF Ops
  <2> QED
    BY <1>5, <2>2 DEF UndoJoin
<1>6. CASE AwaitActive
  <2>1. opIdx' \in Ops /\ mpc' \in {"await", "joinListener"} /\ crashed' = crashed
    BY <1>6, LoopIndex DEF AwaitActive
  <2> QED
    BY <1>6, <2>1 DEF AwaitActive
<1>7. CASE AwaitFails
  BY <1>0, <1>7 DEF AwaitFails
<1>8. CASE Destroy
  BY <1>8 DEF Destroy
<1>9. CASE DestroyWrite
  <2>1. opIdx' \in Ops
    BY <1>9 DEF DestroyWrite, Ops
  <2>2. wakeup' \in [Ops -> Nat]
    BY <1>9 DEF DestroyWrite, RequestWrite
  <2>3. mpc' \in BootPc /\ crashed' = crashed /\ UNCHANGED <<created, started, runFailed, freed, wstatus>>
    BY <1>9 DEF DestroyWrite, RequestWrite
  <2>4. /\ UNCHANGED <<status, ring, ringLive, queued, active, slot, period, opc, batch, popped, closed, leaked>>
        /\ UNCHANGED listenerVars
    BY <1>9 DEF DestroyWrite, RequestWrite
  <2> QED
    BY <2>1, <2>2, <2>3, <2>4
<1>10. CASE JoinThread
  <2>1. opIdx' \in Ops /\ mpc' \in {"join", "opShutdown"} /\ crashed' = crashed
    BY <1>10, LoopIndex DEF JoinThread
  <2>2. started' \in BOOLEAN /\ UNCHANGED <<created, runFailed, freed, opVars, listenerVars, wstatus>>
    BY <1>10 DEF JoinThread
  <2> QED
    BY <2>1, <2>2
<1>11. CASE OperatorShutdown
  <2>1. opIdx' \in Ops /\ mpc' \in {"opShutdown", "free"} /\ crashed' = crashed
    BY <1>11, LoopIndex DEF OperatorShutdown
  <2>2. leaked' \subseteq Fd
    <3>1. ring[opIdx] \in Seq(Fd)
      OBVIOUS
    <3>2. \A i \in DOMAIN ring[opIdx] : ring[opIdx][i] \in Fd
      BY <3>1, ElementsOfSeq
    <3> QED
      BY <1>11, <3>2 DEF OperatorShutdown
  <2>3. closed' \subseteq Fd
    BY <1>11 DEF OperatorShutdown, BusySlots
  <2>4. slot' \in [Ops -> [Slots -> Fd \cup {NoFd}]]
    BY <1>11 DEF OperatorShutdown
  <2>5. ring' \in [Ops -> Seq(Fd)]
    BY <1>11 DEF OperatorShutdown
  <2>6. /\ status' \in [Ops -> OperatorStatus] /\ ringLive' \in [Ops -> BOOLEAN]
        /\ wakeup' \in [Ops -> Nat] /\ active' \in [Ops -> 0..UINT_MAX]
        /\ queued' \in [Ops -> 0..UINT_MAX]
    BY <1>0, <1>11 DEF OperatorShutdown
  <2>7. UNCHANGED <<period, opc, batch, popped, created, started, runFailed, freed, listenerVars, wstatus>>
    BY <1>11 DEF OperatorShutdown
  <2> QED
    BY <2>1, <2>2, <2>3, <2>4, <2>5, <2>6, <2>7
<1>12. CASE FreeOperators
  BY <1>12 DEF FreeOperators
<1>13. CASE JoinListener
  BY <1>13 DEF JoinListener
<1>14. CASE DrainEnds
  BY <1>14 DEF DrainEnds
<1> QED
  BY <1>1, <1>2, <1>3, <1>4, <1>5, <1>6, <1>7, <1>8, <1>9, <1>10, <1>11, <1>12, <1>13, <1>14 DEF BootStep

\* Closing any set of busy slots keeps the slots, the counter and the closed fds in their types.
LEMMA TypeCloseSlots ==
    ASSUME TypeInv, NEW o \in Ops, NEW S \in SUBSET BusySlots(o), CloseSlots(o, S)
    PROVE  /\ slot' \in [Ops -> [Slots -> Fd \cup {NoFd}]]
           /\ closed' \subseteq Fd
           /\ active' \in [Ops -> 0..UINT_MAX]
<1> USE DEF TypeInv, TypeOK
<1>1. slot' \in [Ops -> [Slots -> Fd \cup {NoFd}]]
  BY DEF CloseSlots
<1>2. closed' \subseteq Fd
  <2>1. \A s \in S : slot[o][s] \in Fd
    BY DEF BusySlots
  <2> QED
    BY <2>1 DEF CloseSlots
<1>3. active' \in [Ops -> 0..UINT_MAX]
  <2>1. Cardinality(S) \in 0..MaxClients
    BY SlotSets DEF BusySlots
  <2>2. Sub(active[o], Cardinality(S)) \in 0..UINT_MAX
    BY <2>1, SubRange
  <2> QED
    BY <2>2 DEF CloseSlots
<1> QED
  BY <1>1, <1>2, <1>3

\* An event that is not the eventfd's or the timer's is on a client slot.
LEMMA EventSlot ==
    ASSUME NEW e \in Event, e.kind \in {"in", "hup"} PROVE e.slot \in Slots
BY DEF Event, WakeupEvt, TimerEvt

\* What the status and timer helpers return.
LEMMA LoadStatusType == ASSUME NEW n PROVE LoadStatus(n) \in OperatorStatus /\ TimerPeriod(n) \in {"SHORT", "LONG"}
BY DEF LoadStatus, OperatorStatus, TimerPeriod

\* Every action of an operator's thread keeps every variable in its type.
LEMMA TypeThread ==
    ASSUME TypeInv, NEW o \in Ops, ThreadStep(o) PROVE TypeInv'
<1> USE OperatorAssumption DEF TypeInv, TypeOK, LocalsOK, OpPc, Goto, Running, opVars, bootVars,
        listenerVars
<1>0. UNCHANGED <<listenerVars, bootVars, wstatus>>
  BY DEF ThreadStep
<1>1. CASE ThreadInit(o)
  <2>1. status' \in [Ops -> OperatorStatus]
    BY <1>1 DEF ThreadInit, PublishInit, OperatorStatus
  <2>2. /\ opc' \in [Ops -> OpPc] /\ crashed' = crashed
        /\ \A p \in Ops : opc'[p] \in {"sub", "check", "add"} => opc[p] = opc'[p]
    BY <1>1 DEF ThreadInit, PublishInit
  <2>3. UNCHANGED <<ring, ringLive, wakeup, queued, active, slot, period, batch, popped, closed, leaked>>
    BY <1>1 DEF ThreadInit
  <2> QED
    BY <1>0, <2>1, <2>2, <2>3
<1>2. CASE LoopCheck(o)
  BY <1>0, <1>2 DEF LoopCheck
<1>3. CASE BatchDone(o)
  BY <1>0, <1>3 DEF BatchDone
<1>4. ASSUME NEW B \in SUBSET Ready(o), EpollWait(o, B) PROVE TypeInv'
  <2>1. Ready(o) \subseteq Event
    <3>1. {TimerEvt} \cup {e \in {WakeupEvt} : wakeup[o] > 0} \subseteq Event
      BY DEF Event
    <3>2. ASSUME NEW k \in {"in", "hup"}, NEW s \in BusySlots(o)
          PROVE  [kind |-> k, slot |-> s, fd |-> slot[o][s]] \in Event
      <4>1. s \in Slots /\ slot[o][s] \in Fd
        BY DEF BusySlots
      <4> QED
        BY <4>1 DEF Event
    <3> QED
      BY <3>1, <3>2 DEF Ready
  <2>2. batch' \in [Ops -> SUBSET Event]
    BY <1>4, <2>1 DEF EpollWait
  <2> QED
    BY <1>0, <1>4, <2>2 DEF EpollWait
<1>5. CASE EpollInterrupted(o)
  BY <1>0, <1>5 DEF EpollInterrupted
<1>6. CASE HandleWakeup(o)
  <2>1. wakeup' \in [Ops -> Nat]
    BY <1>6 DEF HandleWakeup
  <2>2. batch' \in [Ops -> SUBSET Event]
    BY <1>6 DEF HandleWakeup, Take
  <2> QED
    BY <1>0, <1>6, <2>1, <2>2 DEF HandleWakeup
<1>7. CASE HandleTimer(o)
  <2>1. PICK S \in SUBSET BusySlots(o) : CloseSlots(o, S)
    BY <1>7 DEF HandleTimer, CleanClients
  <2>2. batch' \in [Ops -> SUBSET Event]
    BY <1>7 DEF HandleTimer, Take
  <2>3. period' \in [Ops -> {"SHORT", "LONG"}]
    BY <1>7, LoadStatusType DEF HandleTimer
  <2> QED
    BY <1>0, <1>7, <2>1, <2>2, <2>3, TypeCloseSlots DEF HandleTimer
<1>8. CASE HandleTimerSpurious(o)
  <2>1. batch' \in [Ops -> SUBSET Event]
    BY <1>8 DEF HandleTimerSpurious, Take
  <2> QED
    BY <1>0, <1>8, <2>1 DEF HandleTimerSpurious
<1>9. CASE HandleClientKeep(o)
  <2>1. batch' \in [Ops -> SUBSET Event]
    BY <1>9 DEF HandleClientKeep, Take
  <2> QED
    BY <1>0, <1>9, <2>1 DEF HandleClientKeep
<1>10. CASE HandleClientClose(o)
  <2>1. PICK e \in batch[o] : /\ e.kind = "in" /\ slot[o][e.slot] # NoFd
                             /\ Take(o, e) /\ CloseSlots(o, {e.slot})
    BY <1>10 DEF HandleClientClose
  <2>2. {e.slot} \in SUBSET BusySlots(o)
    BY <2>1, EventSlot DEF BusySlots
  <2>3. batch' \in [Ops -> SUBSET Event]
    BY <2>1 DEF Take
  <2> QED
    BY <1>0, <1>10, <2>1, <2>2, <2>3, TypeCloseSlots DEF HandleClientClose
<1>11. CASE NullHandler(o)
  BY <1>0, <1>11 DEF NullHandler
<1>12. CASE HandleHangup(o)
  <2>1. PICK e \in batch[o] :
          /\ e.kind = "hup"
          /\ IF slot[o][e.slot] # NoFd
             THEN CloseSlots(o, {e.slot}) /\ Goto(o, "dispatch", "delUpd")
             ELSE Goto(o, "dispatch", "loop") /\ UNCHANGED <<slot, closed, active>>
    BY <1>12 DEF HandleHangup
  <2>2. batch' \in [Ops -> SUBSET Event]
    BY <1>12 DEF HandleHangup
  <2>2a. UNCHANGED <<status, ring, ringLive, wakeup, queued, period, popped, leaked>>
    BY <1>12 DEF HandleHangup
  <2>3. CASE slot[o][e.slot] # NoFd
    <3>1. {e.slot} \in SUBSET BusySlots(o)
      BY <2>1, <2>3, EventSlot DEF BusySlots
    <3>2. /\ slot' \in [Ops -> [Slots -> Fd \cup {NoFd}]] /\ closed' \subseteq Fd
          /\ active' \in [Ops -> 0..UINT_MAX]
      BY <2>1, <2>3, <3>1, TypeCloseSlots
    <3>3. /\ opc' \in [Ops -> OpPc] /\ crashed' = crashed
          /\ \A p \in Ops : opc'[p] \in {"sub", "check", "add"} => opc[p] = opc'[p]
      BY <2>1, <2>3
    <3> QED
      BY <1>0, <2>2, <2>2a, <3>2, <3>3
  <2>4. CASE slot[o][e.slot] = NoFd
    <3>1. /\ opc' \in [Ops -> OpPc] /\ crashed' = crashed /\ UNCHANGED <<slot, closed, active>>
          /\ \A p \in Ops : opc'[p] \in {"sub", "check", "add"} => opc[p] = opc'[p]
      BY <2>1, <2>4
    <3> QED
      BY <1>0, <2>2, <2>2a, <3>1
  <2> QED
    BY <2>3, <2>4
<1>13. CASE RemoveClientUpdate(o)
  BY <1>0, <1>13, LoadStatusType DEF RemoveClientUpdate, StateUpdate
<1>14. CASE PopClient(o)
  <2>1. CASE ring[o] = <<>>
    BY <1>0, <1>14, <2>1 DEF PopClient
  <2>2. CASE ring[o] # <<>>
    <3>1. Head(ring[o]) \in Fd /\ Tail(ring[o]) \in Seq(Fd)
      BY <2>2
    <3>2. ring' = [ring EXCEPT ![o] = Tail(ring[o])] /\ popped' = [popped EXCEPT ![o] = Head(ring[o])]
      BY <1>14, <2>2 DEF PopClient
    <3>3. ring' \in [Ops -> Seq(Fd)]
      BY <3>1, <3>2
    <3>4. popped' \in [Ops -> Fd \cup {NoFd}] /\ popped'[o] \in Fd
      BY <3>1, <3>2
    <3>5. /\ opc' = [opc EXCEPT ![o] = "sub"] /\ crashed' = crashed
          /\ UNCHANGED <<status, ringLive, wakeup, queued, active, slot, period, batch, closed, leaked>>
      BY <1>14, <2>2 DEF PopClient
    <3>6. \A p \in Ops : opc'[p] \in {"sub", "check", "add"} => popped'[p] \in Fd
      BY <3>2, <3>4, <3>5
    <3>7. opc' \in [Ops -> OpPc]
      BY <3>5
    <3> QED
      BY <1>0, <3>3, <3>4, <3>5, <3>6, <3>7
  <2> QED
    BY <2>1, <2>2
<1>15. CASE CountDequeued(o)
  <2>1. queued' \in [Ops -> 0..UINT_MAX]
    BY <1>15, DecRange DEF CountDequeued
  <2> QED
    BY <1>0, <1>15, <2>1 DEF CountDequeued
<1>16. CASE CheckActive(o)
  <2>1. CASE status[o] = "ACTIVE"
    BY <1>0, <1>16, <2>1 DEF CheckActive
  <2>2. CASE status[o] # "ACTIVE"
    <3>1. popped[o] \in Fd /\ DropPopped(o) /\ opc' = [opc EXCEPT ![o] = "dispatch"]
      BY <1>16, <2>2 DEF CheckActive
    <3>2. /\ leaked' \subseteq Fd /\ popped' \in [Ops -> Fd \cup {NoFd}] /\ opc' \in [Ops -> OpPc]
          /\ \A p \in Ops : opc'[p] \in {"sub", "check", "add"} => popped'[p] \in Fd
      BY <3>1 DEF DropPopped
    <3> QED
      BY <1>0, <1>16, <2>2, <3>2 DEF CheckActive
  <2> QED
    BY <2>1, <2>2
<1>17. CASE AddClient(o)
  <2>1. CASE FreeSlots(o) # {}
    <3>1. PICK s \in FreeSlots(o) : slot' = [slot EXCEPT ![o][s] = popped[o]]
      <4>1. \E s \in FreeSlots(o) : \A t \in FreeSlots(o) : s <= t
        BY <2>1, FirstFree DEF FreeSlots
      <4> QED
        BY <1>17, <2>1, <4>1 DEF AddClient
    <3>2. slot' \in [Ops -> [Slots -> Fd \cup {NoFd}]]
      BY <3>1 DEF FreeSlots
    <3>3. active' \in [Ops -> 0..UINT_MAX]
      <4>1. active' = [active EXCEPT ![o] = Inc(active[o])]
        BY <1>17, <2>1 DEF AddClient
      <4> QED
        BY <4>1, IncRange
    <3>4. /\ opc' = [opc EXCEPT ![o] = "addUpd"] /\ crashed' = crashed
          /\ popped' = [popped EXCEPT ![o] = NoFd]
          /\ UNCHANGED <<status, ring, ringLive, wakeup, queued, period, batch, closed, leaked>>
      BY <1>17, <2>1 DEF AddClient
    <3>5. /\ opc' \in [Ops -> OpPc] /\ popped' \in [Ops -> Fd \cup {NoFd}]
          /\ \A p \in Ops : opc'[p] \in {"sub", "check", "add"} => popped'[p] \in Fd
      BY <3>4
    <3> QED
      BY <1>0, <3>2, <3>3, <3>4, <3>5
  <2>2. CASE FreeSlots(o) = {}
    <3>1. /\ popped[o] \in Fd /\ DropPopped(o) /\ opc' = [opc EXCEPT ![o] = "dispatch"]
          /\ status' = [status EXCEPT ![o] = LoadStatus(active[o])]
      BY <1>17, <2>2 DEF AddClient
    <3>2. status' \in [Ops -> OperatorStatus]
      BY <3>1, LoadStatusType
    <3>3. /\ leaked' \subseteq Fd /\ popped' \in [Ops -> Fd \cup {NoFd}] /\ opc' \in [Ops -> OpPc]
          /\ \A p \in Ops : opc'[p] \in {"sub", "check", "add"} => popped'[p] \in Fd
      BY <3>1 DEF DropPopped
    <3> QED
      BY <1>0, <1>17, <2>2, <3>2, <3>3 DEF AddClient
  <2> QED
    BY <2>1, <2>2
<1>18. CASE AddClientFails(o)
  BY <1>0, <1>18 DEF AddClientFails, DropPopped
<1>19. CASE AddClientUpdate(o)
  BY <1>0, <1>19, LoadStatusType DEF AddClientUpdate, StateUpdate
<1> QED
  BY <1>1, <1>2, <1>3, <1>4, <1>5, <1>6, <1>7, <1>8, <1>9, <1>10, <1>11, <1>12, <1>13, <1>14, <1>15, <1>16,
     <1>17, <1>18, <1>19 DEF ThreadStep, OperatorStep

\* Every variable of the model has its type in every reachable state, and the dispatcher's pointer and the
\* fds in local variables are real while they are used.
THEOREM TypeCorrect == Spec => [](TypeOK /\ LocalsOK)
<1>1. Init => TypeInv
  <2> SUFFICES ASSUME Init PROVE TypeInv
    OBVIOUS
  <2>1. 1 \in Ops /\ 0 \in 0..UINT_MAX /\ UINT_MAX \in 0..UINT_MAX /\ 1 \in 1..(OperatorsCount + 1)
        /\ 0 \in 0..OperatorsCount
    BY OperatorAssumption DEF Ops
  <2>2. ring \in [Ops -> Seq(Fd)]
    BY DEF Init, OpInit
  <2> QED
    BY <2>1, <2>2 DEF Init, OpInit, TypeInv, TypeOK, LocalsOK, OperatorStatus, OpPc, ListenerPc, BootPc
<1>2. TypeInv /\ [Next]_vars => TypeInv'
  <2>1. ASSUME TypeInv, Next PROVE TypeInv'
    <3>1. CASE Ended
      BY <2>1, <3>1 DEF Ended, vars, opVars, listenerVars, bootVars, TypeInv, TypeOK, LocalsOK
    <3> QED
      BY <2>1, <3>1, TypeListener, TypeBoot, TypeThread DEF Next
  <2>2. ASSUME TypeInv, UNCHANGED vars PROVE TypeInv'
    BY <2>2 DEF vars, opVars, listenerVars, bootVars, TypeInv, TypeOK, LocalsOK
  <2> QED
    BY <2>1, <2>2
<1> QED
  BY <1>1, <1>2, PTL DEF Spec, TypeInv
=============================================================================
