-------------------------- MODULE UploadPoolProofs --------------------------
(***************************************************************************)
(* The upload pool of upload_worker.c for any number of workers, any queue *)
(* depth and any array that holds it.  The invariant UpInv says that the   *)
(* circular buffer is a sequence, who can run in which phase, that every   *)
(* connection is in exactly one place, and that no worker sleeps through   *)
(* work.  The pool implements the queue of module UploadQueue under it.    *)
(***************************************************************************)
EXTENDS UploadPool, FiniteSetTheorems, SequenceTheorems, TLAPS

\* An index of the circular buffer, reduced as the code reduces it.
Wrap(a) == a % QueueMax

\* The sums the code reduces never reach twice the size of the array.
LEMMA WrapIs ==
    ASSUME NEW a \in Nat, a < 2 * QueueMax
    PROVE  Wrap(a) = IF a < QueueMax THEN a ELSE a - QueueMax
<1>1. QueueMax \in Nat /\ QueueMax > 0
  BY UploadAssumption
<1> DEFINE d == a \div QueueMax
           p == QueueMax * d
<1>2. a = p + Wrap(a) /\ Wrap(a) \in 0..(QueueMax - 1) /\ d \in Int
  BY <1>1 DEF Wrap
<1>3. CASE d = 0
  <2>1. p = 0
    BY <1>1, <1>3
  <2> QED
    BY <1>1, <1>2, <2>1
<1>4. CASE d = 1
  <2>1. p = QueueMax
    BY <1>1, <1>4
  <2> QED
    BY <1>1, <1>2, <2>1
<1>5. CASE d >= 2
  <2>1. p >= 2 * QueueMax
    BY <1>1, <1>2, <1>5
  <2> QED
    BY <1>1, <1>2, <2>1
<1>6. CASE d <= -1
  <2>1. p <= - QueueMax
    BY <1>1, <1>2, <1>6
  <2> QED
    BY <1>1, <1>2, <2>1
<1> QED
  BY <1>2, <1>3, <1>4, <1>5, <1>6

\* An index so reduced is inside the array.
LEMMA WrapNat ==
    ASSUME NEW a \in Nat
    PROVE  Wrap(a) \in Nat /\ Wrap(a) < QueueMax
BY UploadAssumption DEF Wrap

\* Append and Tail as functions.
LEMMA AppendIs ==
    ASSUME NEW S, NEW s \in Seq(S), NEW e \in S
    PROVE  Append(s, e) = [i \in 1..(Len(s) + 1) |-> IF i <= Len(s) THEN s[i] ELSE e]
<1> DEFINE t == [i \in 1..(Len(s) + 1) |-> IF i <= Len(s) THEN s[i] ELSE e]
<1>1. Len(s) \in Nat /\ \A i \in 1..Len(s) : s[i] \in S
  OBVIOUS
<1>2. t \in Seq(S) /\ Len(t) = Len(s) + 1 /\ \A i \in 1..(Len(s) + 1) : t[i] = IF i <= Len(s) THEN s[i] ELSE e
  BY <1>1
<1>3. /\ Append(s, e) \in Seq(S) /\ Len(Append(s, e)) = Len(s) + 1
      /\ \A i \in 1..Len(s) : Append(s, e)[i] = s[i]
      /\ Append(s, e)[Len(s) + 1] = e
  BY AppendProperties
<1> HIDE DEF t
<1>4. ASSUME NEW i \in 1..(Len(s) + 1) PROVE Append(s, e)[i] = t[i]
  <2>1. CASE i <= Len(s)
    <3>1. i \in 1..Len(s)
      BY <1>1, <2>1
    <3> QED
      BY <1>2, <1>3, <2>1, <3>1
  <2>2. CASE i > Len(s)
    <3>1. i = Len(s) + 1 /\ ~(i <= Len(s))
      BY <1>1, <2>2
    <3> QED
      BY <1>2, <1>3, <3>1
  <2> QED
    BY <1>1, <2>1, <2>2
<1>5. Append(s, e) = t
  BY <1>2, <1>3, <1>4, SeqEqual
<1> QED
  BY <1>5 DEF t

\* Likewise for what is left of a sequence once its head is taken.
LEMMA TailIs ==
    ASSUME NEW S, NEW s \in Seq(S), s # <<>>
    PROVE  Tail(s) = [i \in 1..(Len(s) - 1) |-> s[i + 1]]
<1> DEFINE t == [i \in 1..(Len(s) - 1) |-> s[i + 1]]
<1>1. Len(s) \in Nat /\ Len(s) > 0 /\ \A i \in 1..Len(s) : s[i] \in S
  OBVIOUS
<1>2. ASSUME NEW i \in 1..(Len(s) - 1) PROVE s[i + 1] \in S
  <2>1. i + 1 \in 1..Len(s)
    BY <1>1
  <2> QED
    BY <1>1, <2>1
<1>3. t \in Seq(S) /\ Len(t) = Len(s) - 1 /\ \A i \in 1..(Len(s) - 1) : t[i] = s[i + 1]
  BY <1>1, <1>2
<1>4. Tail(s) \in Seq(S) /\ Len(Tail(s)) = Len(s) - 1 /\ \A i \in 1..Len(Tail(s)) : Tail(s)[i] = s[i + 1]
  BY HeadTailProperties
<1> HIDE DEF t
<1>5. Tail(s) = t
  BY <1>3, <1>4, SeqEqual
<1> QED
  BY <1>5 DEF t

(***************************************************************************)
(* The circular buffer is a sequence.                                      *)
(***************************************************************************)
\* Where the two indices stand to one another.
Ring == qTail = Wrap(qHead + qCount)

\* What the arithmetic of the indices needs.
LEMMA IndexTypes ==
    ASSUME UpTypeOK
    PROVE  /\ QueueMax \in Nat /\ QueueMax > 0 /\ QMax \in Nat /\ QMax > 0 /\ QMax <= QueueMax
           /\ qCount \in Nat /\ qCount <= QMax /\ qHead \in Nat /\ qHead < QueueMax
           /\ qTail \in Nat /\ qTail < QueueMax
BY UploadAssumption DEF UpTypeOK, Index

\* The array cell of the i-th queued connection.
Cell(i) == Wrap(qHead + i - 1)

\* The cell of a queued connection is inside the array.
LEMMA CellIs ==
    ASSUME UpTypeOK, NEW i \in 1..QueueMax
    PROVE  /\ Cell(i) = IF qHead + i - 1 < QueueMax THEN qHead + i - 1 ELSE qHead + i - 1 - QueueMax
           /\ Cell(i) \in Index
<1>1. /\ QueueMax \in Nat /\ QueueMax > 0 /\ qHead \in Nat /\ qHead < QueueMax
  BY IndexTypes
<1>2. qHead + i - 1 \in Nat /\ qHead + i - 1 < 2 * QueueMax
  BY <1>1
<1>3. Cell(i) = IF qHead + i - 1 < QueueMax THEN qHead + i - 1 ELSE qHead + i - 1 - QueueMax
  BY <1>1, <1>2, WrapIs DEF Cell
<1> QED
  BY <1>1, <1>3 DEF Index

\* The queue, read through the cells.
LEMMA QueuedIs ==
    /\ Queued = [i \in 1..qCount |-> queue[Cell(i)]]
    /\ Queued' = [i \in 1..qCount' |-> queue'[Wrap(qHead' + i - 1)]]
BY DEF Queued, Cell, Wrap

\* The queued connections as a sequence.
LEMMA QueuedSeq ==
    ASSUME UpTypeOK
    PROVE  Queued \in Seq(Fd \cup {NoFd}) /\ Len(Queued) = qCount
<1>1. QueueMax \in Nat /\ QMax \in Nat /\ QMax <= QueueMax /\ qCount \in Nat /\ qCount <= QMax
  BY IndexTypes
<1>2. ASSUME NEW i \in 1..qCount PROVE queue[Cell(i)] \in Fd \cup {NoFd}
  <2>1. i \in 1..QueueMax
    BY <1>1
  <2>2. Cell(i) \in Index
    BY <2>1, CellIs
  <2> QED
    BY <2>2 DEF UpTypeOK
<1> QED
  BY <1>1, <1>2, QueuedIs

\* A put at the tail appends; the slot it takes is free because the queue is never longer than the array.
LEMMA PutAppends ==
    ASSUME UpTypeOK, Ring, NEW c \in Fd, qCount < QMax, PutQueue(c)
    PROVE  /\ Ring' /\ Queued' = Append(Queued, c)
           /\ queue' \in [Index -> Fd \cup {NoFd}] /\ qHead' \in Index /\ qTail' \in Index
           /\ qCount' = qCount + 1 /\ qCount' \in 0..QMax
<1>1. /\ QueueMax \in Nat /\ QueueMax > 0 /\ QMax \in Nat /\ QMax <= QueueMax
      /\ qCount \in Nat /\ qHead \in Nat /\ qHead < QueueMax /\ qTail \in Nat /\ qTail < QueueMax
  BY IndexTypes
<1>2. /\ queue' = [queue EXCEPT ![qTail] = c] /\ qTail' = Wrap(qTail + 1)
      /\ qCount' = qCount + 1 /\ qHead' = qHead
  BY DEF PutQueue, Wrap
<1>3. qTail = IF qHead + qCount < QueueMax THEN qHead + qCount ELSE qHead + qCount - QueueMax
  <2>1. qHead + qCount \in Nat /\ qHead + qCount < 2 * QueueMax
    BY <1>1
  <2> QED
    BY <1>1, <2>1, WrapIs DEF Ring
<1>4. qTail' = IF qTail + 1 < QueueMax THEN qTail + 1 ELSE qTail + 1 - QueueMax
  <2>1. qTail + 1 \in Nat /\ qTail + 1 < 2 * QueueMax
    BY <1>1
  <2> QED
    BY <1>1, <1>2, <2>1, WrapIs
<1>5. Ring'
  <2>1. qHead + (qCount + 1) \in Nat /\ qHead + (qCount + 1) < 2 * QueueMax
    BY <1>1
  <2>2. Wrap(qHead + (qCount + 1)) =
          IF qHead + (qCount + 1) < QueueMax THEN qHead + (qCount + 1) ELSE qHead + (qCount + 1) - QueueMax
    BY <1>1, <2>1, WrapIs
  <2>3. qTail' = Wrap(qHead + (qCount + 1))
    BY <1>1, <1>3, <1>4, <2>2
  <2>4. Ring' <=> qTail' = Wrap(qHead' + qCount')
    BY DEF Ring, Wrap
  <2> QED
    BY <1>2, <2>3, <2>4
<1>6. ASSUME NEW i \in 1..qCount PROVE Cell(i) # qTail /\ Cell(i) \in Index
  <2>1. i \in 1..QueueMax
    BY <1>1
  <2>2. /\ Cell(i) = IF qHead + i - 1 < QueueMax THEN qHead + i - 1 ELSE qHead + i - 1 - QueueMax
        /\ Cell(i) \in Index
    BY <2>1, CellIs
  <2> QED
    BY <1>1, <1>3, <2>2
<1>7. queue \in [Index -> Fd \cup {NoFd}] /\ qTail \in Index /\ qHead \in Index
  BY DEF UpTypeOK
<1>8. queue'[qTail] = c /\ \A i \in 1..qCount : queue'[Cell(i)] = queue[Cell(i)]
  BY <1>2, <1>6, <1>7
<1>9. Queued' = Append(Queued, c)
  <2>1. Queued' = [i \in 1..(qCount + 1) |-> queue'[Cell(i)]]
    BY <1>2, QueuedIs DEF Cell
  <2>2. Queued \in Seq(Fd \cup {NoFd}) /\ Len(Queued) = qCount
    BY QueuedSeq
  <2>3. Append(Queued, c) = [i \in 1..(qCount + 1) |-> IF i <= qCount THEN Queued[i] ELSE c]
    BY <2>2, AppendIs
  <2>4. \A i \in 1..qCount : Queued[i] = queue[Cell(i)]
    BY QueuedIs
  <2>5. queue'[Cell(qCount + 1)] = c
    <3>1. qHead + (qCount + 1) - 1 = qHead + qCount
      BY <1>1
    <3>2. Cell(qCount + 1) = qTail
      BY <3>1 DEF Ring, Cell
    <3> QED
      BY <3>2, <1>8
  <2>6. ASSUME NEW i \in 1..(qCount + 1)
        PROVE  queue'[Cell(i)] = IF i <= qCount THEN Queued[i] ELSE c
    <3>1. CASE i <= qCount
      <4>1. i \in 1..qCount
        BY <1>1, <3>1
      <4> QED
        BY <1>8, <2>4, <3>1, <4>1
    <3>2. CASE i > qCount
      <4>1. i = qCount + 1 /\ ~(i <= qCount)
        BY <1>1, <3>2
      <4> QED
        BY <2>5, <4>1
    <3> QED
      BY <1>1, <3>1, <3>2
  <2> QED
    BY <2>1, <2>3, <2>6
<1>10. qTail' \in Index
  BY <1>1, <1>4 DEF Index
<1>11. qCount' \in 0..QMax
  BY <1>1, <1>2
<1>12. queue' \in [Index -> Fd \cup {NoFd}]
  BY <1>2, <1>7
<1> QED
  BY <1>2, <1>5, <1>7, <1>9, <1>10, <1>11, <1>12

\* Advancing the head by k drops the first k: the invariant of the indices, and the cells that stay.
LEMMA AdvanceHead ==
    ASSUME UpTypeOK, NEW k \in 0..qCount, NEW i \in 0..(qCount - k)
    PROVE  Wrap(Wrap(qHead + k) + i) = Wrap(qHead + (k + i))
<1>1. /\ QueueMax \in Nat /\ QueueMax > 0 /\ QMax \in Nat /\ QMax <= QueueMax
      /\ qCount \in Nat /\ qCount <= QMax /\ qHead \in Nat /\ qHead < QueueMax
  BY IndexTypes
<1> DEFINE h == Wrap(qHead + k)
<1>2. qHead + k \in Nat /\ qHead + k < 2 * QueueMax /\ qHead + (k + i) \in Nat /\ qHead + (k + i) < 2 * QueueMax
  BY <1>1
<1>3. h = IF qHead + k < QueueMax THEN qHead + k ELSE qHead + k - QueueMax
  BY <1>1, <1>2, WrapIs
<1>4. Wrap(qHead + (k + i)) = IF qHead + (k + i) < QueueMax THEN qHead + (k + i) ELSE qHead + (k + i) - QueueMax
  BY <1>1, <1>2, WrapIs
<1> HIDE DEF h
<1>5. h \in Nat /\ h + i \in Nat /\ h + i < 2 * QueueMax
  BY <1>1, <1>2, <1>3
<1>6. Wrap(h + i) = IF h + i < QueueMax THEN h + i ELSE h + i - QueueMax
  BY <1>1, <1>5, WrapIs
<1>7. Wrap(h + i) = Wrap(qHead + (k + i))
  BY <1>1, <1>3, <1>4, <1>5, <1>6
<1> QED
  BY <1>7 DEF h

\* Taking from the head leaves the tail of the sequence.
LEMMA TakeIsTail ==
    ASSUME UpTypeOK, Ring, qCount > 0, queue' = queue, qTail' = qTail,
           qHead' = (qHead + 1) % QueueMax, qCount' = qCount - 1
    PROVE  /\ Ring' /\ Queued # <<>> /\ queue[qHead] = Queued[1] /\ Queued' = Tail(Queued)
           /\ qHead' \in Index /\ qCount' \in 0..QMax
<1>1. /\ QueueMax \in Nat /\ QueueMax > 0 /\ QMax \in Nat /\ QMax <= QueueMax
      /\ qCount \in Nat /\ qCount <= QMax /\ qHead \in Nat /\ qHead < QueueMax /\ qTail \in Nat
  BY IndexTypes
<1>2. qHead' = Wrap(qHead + 1)
  BY DEF Wrap
<1>3. ASSUME NEW i \in 0..(qCount - 1)
      PROVE  Wrap(qHead' + i) = Wrap(qHead + (1 + i))
  <2>1. 1 \in 0..qCount
    BY <1>1
  <2> QED
    BY <1>2, <2>1, AdvanceHead
<1>4. Ring'
  <2>1. Wrap(qHead' + (qCount - 1)) = Wrap(qHead + (1 + (qCount - 1)))
    BY <1>1, <1>3
  <2>2. 1 + (qCount - 1) = qCount
    BY <1>1
  <2>3. Ring' <=> qTail' = Wrap(qHead' + qCount')
    BY DEF Ring, Wrap
  <2> QED
    BY <2>1, <2>2, <2>3 DEF Ring
<1>5. Queued \in Seq(Fd \cup {NoFd}) /\ Len(Queued) = qCount
  BY QueuedSeq
<1>6. Queued # <<>> /\ queue[qHead] = Queued[1]
  <2>1. Queued[1] = queue[Cell(1)]
    BY <1>1, QueuedIs
  <2>2. 1 \in 1..QueueMax
    BY <1>1
  <2>3. Cell(1) = qHead
    BY <1>1, <2>2, CellIs
  <2>4. Queued # <<>>
    BY <1>1, <1>5
  <2> QED
    BY <2>1, <2>3, <2>4
<1>7. Queued' = Tail(Queued)
  <2>1. Queued' = [i \in 1..(qCount - 1) |-> queue[Wrap(qHead' + i - 1)]]
    BY QueuedIs
  <2>2. Tail(Queued) = [i \in 1..(qCount - 1) |-> Queued[i + 1]]
    BY <1>5, <1>6, TailIs
  <2>3. ASSUME NEW i \in 1..(qCount - 1)
        PROVE  queue[Wrap(qHead' + i - 1)] = Queued[i + 1]
    <3>0. i - 1 \in 0..(qCount - 1) /\ i + 1 \in 1..qCount
      BY <1>1
    <3>1. Wrap(qHead' + (i - 1)) = Wrap(qHead + (1 + (i - 1)))
      BY <1>3, <3>0
    <3>2. qHead' \in Nat
      BY <1>1, <1>2, WrapNat
    <3>3. /\ qHead' + i - 1 = qHead' + (i - 1)
          /\ qHead + (1 + (i - 1)) = qHead + (i + 1) - 1
      BY <1>1, <3>2
    <3>4. Queued[i + 1] = queue[Cell(i + 1)]
      BY <3>0, QueuedIs
    <3> QED
      BY <3>1, <3>3, <3>4 DEF Cell
  <2> QED
    BY <2>1, <2>2, <2>3
<1>8. qHead' \in Index
  BY <1>1, <1>2, WrapNat DEF Index
<1>9. qCount' \in 0..QMax
  BY <1>1
<1> QED
  BY <1>4, <1>6, <1>7, <1>8, <1>9

\* Dropping everything, as the shutdown does, leaves the indices in step.
LEMMA DropAll ==
    ASSUME UpTypeOK, Ring, qTail' = qTail, qHead' = (qHead + qCount) % QueueMax, qCount' = 0
    PROVE  Ring' /\ Queued' = <<>> /\ qHead' \in Index /\ qCount' \in 0..QMax
<1>1. /\ QueueMax \in Nat /\ QueueMax > 0 /\ QMax \in Nat /\ QMax <= QueueMax
      /\ qCount \in Nat /\ qCount <= QMax /\ qHead \in Nat /\ qHead < QueueMax /\ qTail \in Nat
  BY IndexTypes
<1>2. qHead' = Wrap(qHead + qCount)
  BY DEF Wrap
<1>3. qHead' \in Nat /\ qHead' < QueueMax
  BY <1>1, <1>2, WrapNat
<1>4. Wrap(qHead' + 0) = qHead'
  <2>1. qHead' + 0 \in Nat /\ qHead' + 0 < 2 * QueueMax /\ qHead' + 0 < QueueMax
    BY <1>1, <1>3
  <2>2. Wrap(qHead' + 0) = qHead' + 0
    BY <1>1, <2>1, WrapIs
  <2> QED
    BY <1>3, <2>2
<1>5. Ring' <=> qTail' = Wrap(qHead' + qCount')
  BY DEF Ring, Wrap
<1>6. Ring'
  BY <1>2, <1>4, <1>5 DEF Ring
<1>7. Queued' = <<>>
  <2>1. Queued' = [i \in 1..0 |-> queue'[Wrap(qHead' + i - 1)]]
    BY QueuedIs
  <2>2. 1..0 = {}
    OBVIOUS
  <2> QED
    BY <2>1, <2>2
<1> QED
  BY <1>1, <1>3, <1>6, <1>7 DEF Index

(***************************************************************************)
(* The inductive invariant.                                                *)
(***************************************************************************)
\* Who runs when: the listener only between the boot thread's creation of the pool and its shutdown, the
\* threads not yet created and those already joined, and what the last two phases have left behind.
Control ==
    /\ mpc \in {"create", "serve", "shutdown"} => running
    /\ mpc = "create" => dpc = "off"
    /\ mpc \in {"shutdown", "join", "done"} => dpc \in {"off", "done"}
    /\ mpc \in {"join", "done"} => qCount = 0
    /\ dfd \in Fd <=> dpc \in {"dispatch", "enqueue", "reject"}
    /\ \A w \in Workers : wpc[w] = "drive" <=> wfd[w] \in Fd
    /\ mpc # "done" => joinIdx <= nWorkers + 1
    /\ mpc # "done" => \A w \in Workers : w > nWorkers => wpc[w] = "off"
    /\ mpc # "done" => \A w \in Workers : w < joinIdx => wpc[w] = "exit"
    /\ mpc = "done" => \A w \in Workers : wpc[w] \in {"off", "exit"}

\* The connection in the listener's hands, and those the workers drive.
Held    == {dfd} \cap Fd
Serving == {wfd[w] : w \in {x \in Workers : wpc[x] = "drive"}}

\* No connection is queued twice or driven twice.
Once ==
    /\ \A i, j \in 1..qCount : Queued[i] = Queued[j] => i = j
    /\ \A v, w \in Workers : wpc[v] = "drive" /\ wpc[w] = "drive" /\ wfd[v] = wfd[w] => v = w

\* Each of them is in exactly one place.
Split(p, h, q, s, c) ==
    /\ Fd = p \cup h \cup q \cup s \cup c
    /\ p \cap h = {} /\ p \cap q = {} /\ p \cap s = {} /\ p \cap c = {}
    /\ h \cap q = {} /\ h \cap s = {} /\ h \cap c = {}
    /\ q \cap s = {} /\ q \cap c = {} /\ s \cap c = {}

Owned == Split(pending, Held, QueuedFds, Serving, closed)

UpInv == UpTypeOK /\ Ring /\ Control /\ Once /\ Owned /\ WorkConserving

(***************************************************************************)
(* How the sets of connections move.                                       *)
(***************************************************************************)
\* An operation that leaves the array, its indices and its count alone leaves the queue alone.
LEMMA QueuedSame ==
    ASSUME UNCHANGED uqVars
    PROVE  Ring' = Ring /\ Queued' = Queued /\ QueuedFds' = QueuedFds
BY DEF uqVars, Ring, Queued, QueuedFds

\* A worker that neither takes up nor finishes an upload changes nothing of what is served.
LEMMA ServingSame ==
    ASSUME wfd' = wfd, \A w \in Workers : wpc'[w] = "drive" <=> wpc[w] = "drive"
    PROVE  Serving' = Serving
BY DEF Serving

\* The dispatch of a connection that is not queued queues it once.
LEMMA PutFds ==
    ASSUME UpTypeOK, Ring, Once, NEW c \in Fd, qCount < QMax, PutQueue(c), c \notin QueuedFds
    PROVE  /\ QueuedFds' = QueuedFds \cup {c}
           /\ \A i, j \in 1..qCount' : Queued'[i] = Queued'[j] => i = j
<1>1. Queued' = Append(Queued, c) /\ qCount' = qCount + 1 /\ qCount \in Nat
  BY PutAppends, IndexTypes
<1>2. Queued \in Seq(Fd \cup {NoFd}) /\ Len(Queued) = qCount
  BY QueuedSeq
<1>3. Append(Queued, c) = [i \in 1..(qCount + 1) |-> IF i <= qCount THEN Queued[i] ELSE c]
  BY <1>2, AppendIs
<1>4. \A i \in 1..(qCount + 1) :
        /\ i \in 1..qCount => Queued'[i] = Queued[i]
        /\ i \notin 1..qCount => i = qCount + 1 /\ Queued'[i] = c
  BY <1>1, <1>3
<1>5. qCount + 1 \in 1..(qCount + 1) /\ qCount + 1 \notin 1..qCount /\ \A i \in 1..qCount : i \in 1..(qCount + 1)
  BY <1>1
<1>6. QueuedFds = {Queued[i] : i \in 1..qCount} /\ QueuedFds' = {Queued'[i] : i \in 1..(qCount + 1)}
  BY <1>1 DEF QueuedFds
<1>7. QueuedFds' = QueuedFds \cup {c}
  BY <1>4, <1>5, <1>6
<1>8. \A i, j \in 1..(qCount + 1) : Queued'[i] = Queued'[j] => i = j
  BY <1>4, <1>5, <1>6 DEF Once
<1> QED
  BY <1>1, <1>7, <1>8

\* A worker takes a connection out of the queue altogether.
LEMMA TakeFds ==
    ASSUME UpTypeOK, Ring, Once, qCount > 0, queue' = queue, qTail' = qTail,
           qHead' = (qHead + 1) % QueueMax, qCount' = qCount - 1
    PROVE  /\ queue[qHead] \in QueuedFds /\ QueuedFds' = QueuedFds \ {queue[qHead]}
           /\ \A i, j \in 1..qCount' : Queued'[i] = Queued'[j] => i = j
<1>1. Queued # <<>> /\ queue[qHead] = Queued[1] /\ Queued' = Tail(Queued) /\ qCount \in Nat
  BY TakeIsTail, IndexTypes
<1>2. Queued \in Seq(Fd \cup {NoFd}) /\ Len(Queued) = qCount
  BY QueuedSeq
<1>3. Queued' = [i \in 1..(qCount - 1) |-> Queued[i + 1]]
  BY <1>1, <1>2, TailIs
<1>4. \A i \in 1..(qCount - 1) : i + 1 \in 1..qCount /\ i + 1 # 1 /\ Queued'[i] = Queued[i + 1]
  BY <1>1, <1>3
<1>5. 1 \in 1..qCount /\ \A i \in 1..qCount : i = 1 \/ (i - 1 \in 1..(qCount - 1) /\ (i - 1) + 1 = i)
  BY <1>1
<1>6. QueuedFds = {Queued[i] : i \in 1..qCount} /\ QueuedFds' = {Queued'[i] : i \in 1..(qCount - 1)}
  BY DEF QueuedFds
<1>7. \A i, j \in 1..qCount : Queued[i] = Queued[j] => i = j
  BY DEF Once
<1>8. QueuedFds' = QueuedFds \ {Queued[1]}
  <2>1. ASSUME NEW x \in QueuedFds' PROVE x \in QueuedFds /\ x # Queued[1]
    BY <1>4, <1>5, <1>6, <1>7, <2>1
  <2>2. ASSUME NEW x \in QueuedFds, x # Queued[1] PROVE x \in QueuedFds'
    <3>1. PICK i \in 1..qCount : x = Queued[i]
      BY <1>6
    <3>2. i - 1 \in 1..(qCount - 1) /\ (i - 1) + 1 = i
      BY <1>5, <2>2, <3>1
    <3>3. Queued'[i - 1] = x
      BY <1>4, <3>1, <3>2
    <3> QED
      BY <1>6, <3>2, <3>3
  <2> QED
    BY <2>1, <2>2
<1>9. \A i, j \in 1..(qCount - 1) : Queued'[i] = Queued'[j] => i = j
  <2> SUFFICES ASSUME NEW i \in 1..(qCount - 1), NEW j \in 1..(qCount - 1), Queued'[i] = Queued'[j]
               PROVE  i = j
    OBVIOUS
  <2>1. i + 1 = j + 1
    BY <1>4, <1>7
  <2> QED
    BY <1>1, <2>1
<1> QED
  BY <1>1, <1>5, <1>6, <1>8, <1>9

\* After the shutdown's drain nothing is queued.
LEMMA DropFds ==
    ASSUME qCount' = 0
    PROVE  QueuedFds' = {} /\ \A i, j \in 1..qCount' : Queued'[i] = Queued'[j] => i = j
<1>1. 1..0 = {}
  OBVIOUS
<1> QED
  BY <1>1 DEF QueuedFds

(***************************************************************************)
(* Preservation, one part of the invariant at a time.                      *)
(***************************************************************************)
\* The invariant holds before upload_workers_init has created its first thread.
LEMMA UpInitInv == UpInit => UpInv
<1> SUFFICES ASSUME UpInit PROVE UpInv
  OBVIOUS
<1>0. NWorkers \in Nat \ {0} /\ QueueMax \in Nat \ {0} /\ QMax \in 1..QueueMax /\ NoFd \notin Fd
  BY UploadAssumption
<1>1. UpTypeOK
  BY <1>0 DEF UpInit, UpTypeOK, Index, WorkerPc, ListenPc, MainPc
<1>2. Ring
  <2>1. qHead = 0 /\ qTail = 0 /\ qCount = 0
    BY DEF UpInit
  <2>2. 0 + 0 = 0 /\ 0 \in Nat /\ 0 < 2 * QueueMax /\ 0 < QueueMax /\ QueueMax \in Nat
    BY <1>0
  <2>3. Wrap(0) = 0
    BY <2>2, WrapIs
  <2> QED
    BY <2>1, <2>2, <2>3 DEF Ring
<1>3. Control
  BY <1>0 DEF UpInit, Control, Workers
<1>4. QueuedFds = {} /\ Serving = {} /\ Held = {} /\ closed = {} /\ pending = Fd
  <2>1. 1..0 = {}
    OBVIOUS
  <2> QED
    BY <1>0, <2>1 DEF UpInit, QueuedFds, Serving, Held
<1>5. Once
  BY DEF UpInit, Once
<1>6. Owned
  BY <1>4 DEF Owned, Split
<1>7. WorkConserving
  BY DEF UpInit, WorkConserving, Waiting
<1> QED
  BY <1>1, <1>2, <1>3, <1>5, <1>6, <1>7 DEF UpInv

\* Types, the ring, and who runs when.
ControlInv == UpTypeOK /\ Ring /\ Control

\* A step is one of the operations, or changes nothing.
LEMMA UpStepCases ==
    ASSUME [UpNext]_upVars, NEW P,
           CreateWorker => P, CreateWorkerFails => P, StartListener => P, JoinUploadListener => P,
           Shutdown => P, JoinWorker => P, DestroyPool => P,
           DispatchUpload => P, Enqueue => P, RejectUpload => P, ListenerReturns => P,
           \A c \in Fd : AcceptUpload(c) => P,
           \A w \in Workers : WorkerInit(w) \/ SpuriousWakeup(w) => P,
           \A w \in Workers : TakeUpload(w) => P, \A w \in Workers : DriveEnds(w) => P,
           UNCHANGED upVars => P
    PROVE  P
BY DEF UpNext, MainStep, DispatchStep, WorkerStep, UpEnded

\* Every operation of the listener, the workers and the boot thread keeps types, indices and phases.
LEMMA ControlStep == UpInv /\ [UpNext]_upVars => ControlInv'
<1> SUFFICES ASSUME UpInv, [UpNext]_upVars PROVE ControlInv'
  OBVIOUS
<1>0. /\ NWorkers \in Nat /\ NoFd \notin Fd /\ Workers = 1..NWorkers
      /\ UpTypeOK /\ Ring /\ Control /\ qCount \in Nat /\ QueuedFds \subseteq Fd
  BY UploadAssumption, IndexTypes DEF UpInv, Workers, Owned, Split
<1>1. CASE CreateWorker
  <2>1. Ring'
    BY <1>0, <1>1, QueuedSame DEF CreateWorker, upVars
  <2>2. nWorkers + 1 \in Workers /\ nWorkers' = nWorkers + 1 /\ nWorkers \in Nat /\ joinIdx \in Nat
    BY <1>0, <1>1 DEF CreateWorker, UpTypeOK
  <2>3. wpc[nWorkers + 1] = "off" /\ wfd[nWorkers + 1] \notin Fd
    BY <1>0, <1>1, <2>2 DEF CreateWorker, Control
  <2>8. UpTypeOK'
    BY <1>0, <1>1, <2>2, <2>3 DEF CreateWorker, UpTypeOK, WorkerPc, uqVars, workerVars, listenVars, mainVars
  <2>9. Control'
    BY <1>0, <1>1, <2>2, <2>3 DEF CreateWorker, UpTypeOK, Control, WorkerPc, uqVars, workerVars, listenVars, mainVars
  <2> QED
    BY <2>1, <2>8, <2>9 DEF ControlInv
<1>2. CASE CreateWorkerFails
  <2>1. Ring'
    BY <1>0, <1>2, QueuedSame DEF CreateWorkerFails, upVars
  <2>8. UpTypeOK'
    BY <1>0, <1>2 DEF CreateWorkerFails, UpTypeOK, MainPc, uqVars, workerVars, listenVars, mainVars
  <2>9. Control'
    BY <1>0, <1>2 DEF CreateWorkerFails, UpTypeOK, Control, MainPc, uqVars, workerVars, listenVars, mainVars
  <2> QED
    BY <2>1, <2>8, <2>9 DEF ControlInv
<1>3. CASE StartListener
  <2>1. Ring'
    BY <1>0, <1>3, QueuedSame DEF StartListener, upVars
  <2>8. UpTypeOK'
    BY <1>0, <1>3 DEF StartListener, UpTypeOK, MainPc, ListenPc, uqVars, workerVars, listenVars, mainVars
  <2>9. Control'
    BY <1>0, <1>3 DEF StartListener, UpTypeOK, Control, MainPc, ListenPc, uqVars, workerVars, listenVars, mainVars
  <2> QED
    BY <2>1, <2>8, <2>9 DEF ControlInv
<1>4. CASE JoinUploadListener
  <2>1. Ring'
    BY <1>0, <1>4, QueuedSame DEF JoinUploadListener, upVars
  <2>8. UpTypeOK'
    BY <1>0, <1>4 DEF JoinUploadListener, UpTypeOK, MainPc, uqVars, workerVars, listenVars, mainVars
  <2>9. Control'
    BY <1>0, <1>4 DEF JoinUploadListener, UpTypeOK, Control, MainPc, uqVars, workerVars, listenVars, mainVars
  <2> QED
    BY <2>1, <2>8, <2>9 DEF ControlInv
<1>5. CASE Shutdown
  <2>1. Ring' /\ qHead' \in Index /\ qCount' \in 0..QMax
    BY <1>0, <1>5, DropAll DEF Shutdown
  <2>8. UpTypeOK'
    BY <1>0, <1>5, <2>1 DEF Shutdown, UpTypeOK, MainPc, WorkerPc, Waiting, uqVars, workerVars, listenVars, mainVars
  <2>9. Control'
    BY <1>0, <1>5, <2>1 DEF Shutdown, UpTypeOK, Control, MainPc, WorkerPc, Waiting, uqVars, workerVars, listenVars, mainVars
  <2> QED
    BY <2>1, <2>8, <2>9 DEF ControlInv
<1>6. CASE JoinWorker
  <2>1. Ring'
    BY <1>0, <1>6, QueuedSame DEF JoinWorker, upVars
  <2>2. joinIdx \in Nat /\ nWorkers \in Nat /\ joinIdx' = joinIdx + 1
    BY <1>0, <1>6 DEF JoinWorker, UpTypeOK
  <2>8. UpTypeOK'
    BY <1>0, <1>6, <2>2 DEF JoinWorker, UpTypeOK, uqVars, workerVars, listenVars, mainVars
  <2>9. Control'
    BY <1>0, <1>6, <2>2 DEF JoinWorker, UpTypeOK, Control, uqVars, workerVars, listenVars, mainVars
  <2> QED
    BY <2>1, <2>8, <2>9 DEF ControlInv
<1>7. CASE DestroyPool
  <2>1. Ring'
    BY <1>0, <1>7, QueuedSame DEF DestroyPool, upVars
  <2>2. joinIdx \in Nat /\ nWorkers \in Nat /\ \A w \in Workers : w < joinIdx \/ w > nWorkers
    BY <1>0, <1>7 DEF DestroyPool, UpTypeOK
  <2>3. \A w \in Workers : wpc[w] \in {"off", "exit"}
    BY <1>0, <1>7, <2>2 DEF DestroyPool, Control
  <2>8. UpTypeOK'
    BY <1>0, <1>7, <2>3 DEF DestroyPool, UpTypeOK, MainPc, uqVars, workerVars, listenVars, mainVars
  <2>9. Control'
    BY <1>0, <1>7, <2>3 DEF DestroyPool, UpTypeOK, Control, MainPc, uqVars, workerVars, listenVars, mainVars
  <2> QED
    BY <2>1, <2>8, <2>9 DEF ControlInv
<1>8. CASE DispatchUpload
  <2>1. Ring'
    BY <1>0, <1>8, QueuedSame DEF DispatchUpload, upVars
  <2>8. UpTypeOK'
    BY <1>0, <1>8 DEF DispatchUpload, UpTypeOK, ListenPc, uqVars, workerVars, listenVars, mainVars
  <2>9. Control'
    BY <1>0, <1>8 DEF DispatchUpload, UpTypeOK, Control, ListenPc, uqVars, workerVars, listenVars, mainVars
  <2> QED
    BY <2>1, <2>8, <2>9 DEF ControlInv
<1>9. CASE Enqueue
  <2>0. mpc = "serve" /\ dfd \in Fd
    BY <1>0, <1>9 DEF Enqueue, Control, UpTypeOK, MainPc
  <2>1. CASE qCount >= QMax
    <3>1. Ring'
      BY <1>0, <1>9, <2>1, QueuedSame DEF Enqueue
    <3>2. UpTypeOK' /\ Control'
      BY <1>0, <1>9, <2>0, <2>1 DEF Enqueue, UpTypeOK, Control, ListenPc, uqVars, workerVars, listenVars, mainVars
    <3> QED
      BY <3>1, <3>2 DEF ControlInv
  <2>2. CASE ~(qCount >= QMax)
    <3>0. /\ PutQueue(dfd) /\ Signal /\ dpc' = "accept" /\ dfd' = NoFd
          /\ UNCHANGED <<running, wfd, pending, mainVars, closed>> /\ qCount < QMax
      BY <1>0, <1>9, <2>2, IndexTypes DEF Enqueue
    <3>1. /\ Ring' /\ queue' \in [Index -> Fd \cup {NoFd}] /\ qHead' \in Index /\ qTail' \in Index
          /\ qCount' \in 0..QMax
      BY <1>0, <2>0, <3>0, PutAppends
    <3>2. /\ wpc' \in [Workers -> WorkerPc]
          /\ \A w \in Workers : wpc'[w] = wpc[w] \/ (wpc[w] = "wait" /\ wpc'[w] = "take")
      BY <1>0, <3>0 DEF Signal, Waiting, UpTypeOK, WorkerPc
    <3>3. UpTypeOK'
      BY <1>0, <3>0, <3>1, <3>2 DEF UpTypeOK, ListenPc, mainVars
    <3>4. Control'
      BY <1>0, <2>0, <3>0, <3>2 DEF Control, mainVars
    <3> QED
      BY <3>1, <3>3, <3>4 DEF ControlInv
  <2> QED
    BY <2>1, <2>2
<1>10. CASE RejectUpload
  <2>1. Ring'
    BY <1>0, <1>10, QueuedSame DEF RejectUpload, upVars
  <2>2. dfd \in Fd
    BY <1>0, <1>10 DEF RejectUpload, Control
  <2>8. UpTypeOK'
    BY <1>0, <1>10, <2>2 DEF RejectUpload, UpTypeOK, ListenPc, uqVars, workerVars, listenVars, mainVars
  <2>9. Control'
    BY <1>0, <1>10, <2>2 DEF RejectUpload, UpTypeOK, Control, ListenPc, uqVars, workerVars, listenVars, mainVars
  <2> QED
    BY <2>1, <2>8, <2>9 DEF ControlInv
<1>11. CASE ListenerReturns
  <2>1. Ring'
    BY <1>0, <1>11, QueuedSame DEF ListenerReturns, upVars
  <2>8. UpTypeOK'
    BY <1>0, <1>11 DEF ListenerReturns, UpTypeOK, ListenPc, uqVars, workerVars, listenVars, mainVars
  <2>9. Control'
    BY <1>0, <1>11 DEF ListenerReturns, UpTypeOK, Control, ListenPc, uqVars, workerVars, listenVars, mainVars
  <2> QED
    BY <2>1, <2>8, <2>9 DEF ControlInv
<1>12. ASSUME NEW c \in Fd, AcceptUpload(c) PROVE ControlInv'
  <2>1. Ring'
    BY <1>0, <1>12, QueuedSame DEF AcceptUpload, upVars
  <2>8. UpTypeOK'
    BY <1>0, <1>12 DEF AcceptUpload, UpTypeOK, ListenPc, uqVars, workerVars, listenVars, mainVars
  <2>9. Control'
    BY <1>0, <1>12 DEF AcceptUpload, UpTypeOK, Control, ListenPc, uqVars, workerVars, listenVars, mainVars
  <2> QED
    BY <2>1, <2>8, <2>9 DEF ControlInv
<1>13. ASSUME NEW w \in Workers, WorkerInit(w) \/ SpuriousWakeup(w) PROVE ControlInv'
  <2>1. Ring'
    BY <1>0, <1>13, QueuedSame DEF WorkerInit, SpuriousWakeup
  <2>2. PICK next \in {"take", "exit"} : wpc' = [wpc EXCEPT ![w] = next]
    BY <1>13 DEF WorkerInit, SpuriousWakeup
  <2>3. wpc[w] \in {"init", "wait"}
    BY <1>13 DEF WorkerInit, SpuriousWakeup
  <2>4. UNCHANGED <<uqVars, running, wfd, listenVars, mainVars, closed>>
    BY <1>13 DEF WorkerInit, SpuriousWakeup
  <2>8. UpTypeOK'
    BY <1>0, <2>2, <2>4 DEF UpTypeOK, WorkerPc, uqVars, workerVars, listenVars, mainVars
  <2>9. Control'
    BY <1>0, <2>2, <2>3, <2>4 DEF UpTypeOK, Control, uqVars, workerVars, listenVars, mainVars
  <2> QED
    BY <2>1, <2>8, <2>9 DEF ControlInv
<1>14. ASSUME NEW w \in Workers, TakeUpload(w) PROVE ControlInv'
  <2>0. wpc[w] = "take" /\ UNCHANGED <<queue, qTail, running, listenVars, mainVars, closed>>
    BY <1>14 DEF TakeUpload
  <2>1. CASE qCount > 0
    <3>0. /\ wfd' = [wfd EXCEPT ![w] = queue[qHead]] /\ wpc' = [wpc EXCEPT ![w] = "drive"]
          /\ qHead' = (qHead + 1) % QueueMax /\ qCount' = qCount - 1
      BY <1>14, <2>1 DEF TakeUpload
    <3>1. Ring' /\ qHead' \in Index /\ qCount' \in 0..QMax
      BY <1>0, <2>0, <2>1, <3>0, TakeIsTail
    <3>2. queue[qHead] \in Fd
      BY <1>0, <2>0, <2>1, <3>0, TakeFds DEF UpInv
    <3>3. UpTypeOK'
      BY <1>0, <2>0, <3>0, <3>1, <3>2 DEF UpTypeOK, WorkerPc, listenVars, mainVars
    <3>4. mpc \notin {"join", "done"}
      BY <1>0, <2>1 DEF Control
    <3>5. Control'
      BY <1>0, <2>0, <3>0, <3>2, <3>4 DEF UpTypeOK, Control, listenVars, mainVars
    <3> QED
      BY <3>1, <3>3, <3>5 DEF ControlInv
  <2>2. CASE ~(qCount > 0)
    <3>0. UNCHANGED <<wfd, qHead, qCount>> /\ \E next \in {"wait", "exit"} : wpc' = [wpc EXCEPT ![w] = next]
      BY <1>14, <2>2 DEF TakeUpload
    <3>1. Ring'
      BY <1>0, <2>0, <3>0, QueuedSame DEF uqVars
    <3>2. PICK next \in {"wait", "exit"} : wpc' = [wpc EXCEPT ![w] = next]
      BY <3>0
    <3>3. UpTypeOK'
      BY <1>0, <2>0, <3>0, <3>2 DEF UpTypeOK, WorkerPc, listenVars, mainVars
    <3>4. Control'
      BY <1>0, <2>0, <3>0, <3>2 DEF UpTypeOK, Control, listenVars, mainVars
    <3> QED
      BY <3>1, <3>3, <3>4 DEF ControlInv
  <2> QED
    BY <2>1, <2>2
<1>15. ASSUME NEW w \in Workers, DriveEnds(w) PROVE ControlInv'
  <2>1. Ring'
    BY <1>0, <1>15, QueuedSame DEF DriveEnds
  <2>2. wfd[w] \in Fd
    BY <1>0, <1>15 DEF DriveEnds, Control
  <2>8. UpTypeOK'
    BY <1>0, <1>15, <2>2 DEF DriveEnds, UpTypeOK, WorkerPc, uqVars, workerVars, listenVars, mainVars
  <2>9. Control'
    BY <1>0, <1>15 DEF DriveEnds, UpTypeOK, Control, uqVars, workerVars, listenVars, mainVars
  <2> QED
    BY <2>1, <2>8, <2>9 DEF ControlInv
<1>16. CASE UNCHANGED upVars
  <2>1. Ring'
    BY <1>0, <1>16, QueuedSame DEF upVars
  <2>2. UpTypeOK' /\ Control'
    BY <1>0, <1>16 DEF upVars, UpTypeOK, Control, uqVars, workerVars, listenVars, mainVars
  <2> QED
    BY <2>1, <2>2 DEF ControlInv
<1> QED
  BY <1>1, <1>2, <1>3, <1>4, <1>5, <1>6, <1>7, <1>8, <1>9, <1>10, <1>11, <1>12, <1>13, <1>14, <1>15, <1>16, UpStepCases

\* Every operation moves a connection from the one place it is in to the next.
LEMMA OwnedStep == UpInv /\ [UpNext]_upVars => Once' /\ Owned'
<1> SUFFICES ASSUME UpInv, [UpNext]_upVars PROVE Once' /\ Owned'
  OBVIOUS
<1>0. UpTypeOK /\ Ring /\ Control /\ Once /\ Owned /\ NoFd \notin Fd
  BY UploadAssumption DEF UpInv
<1>1. ASSUME UNCHANGED <<uqVars, workerVars, pending, dfd, closed>> PROVE Once' /\ Owned'
  BY <1>0, <1>1, QueuedSame DEF Once, Owned, Split, Held, Serving, QueuedFds, uqVars, workerVars
<1>2. ASSUME UNCHANGED <<uqVars, wfd, pending, dfd, closed>>, \A w \in Workers : wpc'[w] = "drive" <=> wpc[w] = "drive"
      PROVE  Once' /\ Owned'
  <2>1. Queued' = Queued /\ QueuedFds' = QueuedFds /\ qCount' = qCount
    BY <1>2, QueuedSame DEF uqVars
  <2>2. Serving' = Serving
    BY <1>2, ServingSame
  <2>3. Once'
    BY <1>0, <1>2, <2>1 DEF Once
  <2>4. Owned'
    BY <1>0, <1>2, <2>1, <2>2 DEF Owned, Held
  <2> QED
    BY <2>3, <2>4
<1>3. CASE CreateWorker
  <2>1. nWorkers + 1 \in Workers /\ wpc[nWorkers + 1] = "off"
    BY <1>0, <1>3, UploadAssumption DEF CreateWorker, UpTypeOK, Control, Workers
  <2>2. \A w \in Workers : wpc'[w] = "drive" <=> wpc[w] = "drive"
    BY <1>0, <1>3, <2>1 DEF CreateWorker, UpTypeOK
  <2> QED
    BY <1>2, <1>3, <2>2 DEF CreateWorker, listenVars
<1>4. CASE CreateWorkerFails \/ JoinUploadListener \/ JoinWorker \/ DestroyPool
  BY <1>1, <1>4 DEF CreateWorkerFails, JoinUploadListener, JoinWorker, DestroyPool, listenVars
<1>5. CASE StartListener \/ DispatchUpload \/ ListenerReturns
  BY <1>1, <1>5 DEF StartListener, DispatchUpload, ListenerReturns
<1>6. CASE Shutdown
  <2>1. QueuedFds' = {} /\ \A i, j \in 1..qCount' : Queued'[i] = Queued'[j] => i = j
    BY <1>6, DropFds DEF Shutdown
  <2>2. \A w \in Workers : wpc'[w] = "drive" <=> wpc[w] = "drive"
    BY <1>6 DEF Shutdown, Waiting
  <2>3. Serving' = Serving
    BY <1>6, <2>2, ServingSame DEF Shutdown
  <2>4. Once'
    BY <1>0, <1>6, <2>1, <2>2 DEF Shutdown, Once
  <2>5. pending' = pending /\ Held' = Held /\ closed' = closed \cup QueuedFds
    BY <1>6 DEF Shutdown, listenVars, Held
  <2>6. Owned'
    BY <1>0, <2>1, <2>3, <2>5 DEF Owned, Split
  <2> QED
    BY <2>4, <2>6
<1>7. CASE Enqueue
  <2>1. dfd \in Fd
    BY <1>0, <1>7 DEF Enqueue, Control
  <2>2. CASE qCount >= QMax
    BY <1>1, <1>7, <2>2 DEF Enqueue, workerVars
  <2>3. CASE ~(qCount >= QMax)
    <3>1. /\ PutQueue(dfd) /\ Signal /\ dfd' = NoFd /\ UNCHANGED <<wfd, pending, closed>> /\ qCount < QMax
      BY <1>0, <1>7, <2>3, IndexTypes DEF Enqueue
    <3>2. dfd \notin QueuedFds
      BY <1>0, <2>1 DEF Owned, Split, Held
    <3>3. /\ QueuedFds' = QueuedFds \cup {dfd}
          /\ \A i, j \in 1..qCount' : Queued'[i] = Queued'[j] => i = j
      BY <1>0, <2>1, <3>1, <3>2, PutFds
    <3>4. \A w \in Workers : wpc'[w] = "drive" <=> wpc[w] = "drive"
      BY <1>0, <3>1 DEF Signal, Waiting, UpTypeOK
    <3>5. Serving' = Serving
      BY <3>1, <3>4, ServingSame
    <3>6. Held = {dfd} /\ Held' = {}
      BY <1>0, <2>1, <3>1 DEF Held
    <3>7. Once'
      BY <1>0, <3>1, <3>3, <3>4 DEF Once
    <3>8. Owned'
      BY <1>0, <3>1, <3>3, <3>5, <3>6 DEF Owned, Split
    <3> QED
      BY <3>7, <3>8
  <2> QED
    BY <2>2, <2>3
<1>8. CASE RejectUpload
  <2>1. dfd \in Fd
    BY <1>0, <1>8 DEF RejectUpload, Control
  <2>2. UNCHANGED <<uqVars, workerVars, pending>> /\ closed' = closed \cup {dfd} /\ dfd' = NoFd
    BY <1>8 DEF RejectUpload
  <2>3. Queued' = Queued /\ QueuedFds' = QueuedFds /\ qCount' = qCount /\ Serving' = Serving
    BY <2>2, QueuedSame, ServingSame DEF uqVars, workerVars
  <2>4. Held = {dfd} /\ Held' = {}
    BY <1>0, <2>1, <2>2 DEF Held
  <2>5. Once'
    BY <1>0, <2>2, <2>3 DEF Once, workerVars
  <2>6. Owned'
    BY <1>0, <2>2, <2>3, <2>4 DEF Owned, Split
  <2> QED
    BY <2>5, <2>6
<1>9. ASSUME NEW c \in Fd, AcceptUpload(c) PROVE Once' /\ Owned'
  <2>1. dfd \notin Fd
    BY <1>0, <1>9 DEF AcceptUpload, Control
  <2>2. UNCHANGED <<uqVars, workerVars, closed>> /\ pending' = pending \ {c} /\ dfd' = c /\ c \in pending
    BY <1>9 DEF AcceptUpload
  <2>3. Queued' = Queued /\ QueuedFds' = QueuedFds /\ qCount' = qCount /\ Serving' = Serving
    BY <2>2, QueuedSame, ServingSame DEF uqVars, workerVars
  <2>4. Held = {} /\ Held' = {c}
    BY <2>1, <2>2 DEF Held
  <2>5. Once'
    BY <1>0, <2>2, <2>3 DEF Once, workerVars
  <2>6. Owned'
    BY <1>0, <2>2, <2>3, <2>4 DEF Owned, Split
  <2> QED
    BY <2>5, <2>6
<1>10. ASSUME NEW w \in Workers, WorkerInit(w) \/ SpuriousWakeup(w) PROVE Once' /\ Owned'
  <2>1. PICK next \in {"take", "exit"} : wpc' = [wpc EXCEPT ![w] = next]
    BY <1>10 DEF WorkerInit, SpuriousWakeup
  <2>2. wpc[w] \in {"init", "wait"}
    BY <1>10 DEF WorkerInit, SpuriousWakeup
  <2>3. \A v \in Workers : wpc'[v] = "drive" <=> wpc[v] = "drive"
    BY <1>0, <2>1, <2>2 DEF UpTypeOK
  <2> QED
    BY <1>2, <1>10, <2>3 DEF WorkerInit, SpuriousWakeup, listenVars
<1>11. ASSUME NEW w \in Workers, TakeUpload(w) PROVE Once' /\ Owned'
  <2>0. wpc[w] = "take" /\ UNCHANGED <<queue, qTail, pending, dfd, closed>>
    BY <1>11 DEF TakeUpload, listenVars
  <2>1. CASE qCount > 0
    <3> DEFINE c == queue[qHead]
    <3>1. /\ wfd' = [wfd EXCEPT ![w] = c] /\ wpc' = [wpc EXCEPT ![w] = "drive"]
          /\ qHead' = (qHead + 1) % QueueMax /\ qCount' = qCount - 1
      BY <1>11, <2>1 DEF TakeUpload
    <3>2. /\ c \in QueuedFds /\ QueuedFds' = QueuedFds \ {c}
          /\ \A i, j \in 1..qCount' : Queued'[i] = Queued'[j] => i = j
      BY <1>0, <2>0, <2>1, <3>1, TakeFds
    <3> HIDE DEF c
    <3>3. Serving' = Serving \cup {c}
      BY <1>0, <2>0, <3>1 DEF Serving, UpTypeOK
    <3>4. \A v \in Workers : wpc[v] = "drive" => wfd[v] # c
      BY <1>0, <3>2 DEF Owned, Split, Serving
    <3>5. Once'
      BY <1>0, <2>0, <3>1, <3>2, <3>4 DEF Once, UpTypeOK
    <3>6. Held' = Held
      BY <2>0 DEF Held
    <3>7. Owned'
      BY <1>0, <2>0, <3>2, <3>3, <3>6 DEF Owned, Split
    <3> QED
      BY <3>5, <3>7
  <2>2. CASE ~(qCount > 0)
    <3>1. UNCHANGED <<uqVars, wfd>>
      BY <1>11, <2>2 DEF TakeUpload, uqVars
    <3>2. \A v \in Workers : wpc'[v] = "drive" <=> wpc[v] = "drive"
      BY <1>0, <1>11, <2>2 DEF TakeUpload, UpTypeOK
    <3> QED
      BY <1>2, <2>0, <3>1, <3>2
  <2> QED
    BY <2>1, <2>2
<1>12. ASSUME NEW w \in Workers, DriveEnds(w) PROVE Once' /\ Owned'
  <2>1. /\ wpc[w] = "drive" /\ UNCHANGED <<uqVars, pending, dfd>>
        /\ closed' = closed \cup {wfd[w]} /\ wfd' = [wfd EXCEPT ![w] = NoFd] /\ wpc' = [wpc EXCEPT ![w] = "take"]
    BY <1>12 DEF DriveEnds, listenVars
  <2>2. Queued' = Queued /\ QueuedFds' = QueuedFds /\ qCount' = qCount /\ Held' = Held
    BY <2>1, QueuedSame DEF uqVars, Held
  <2>3. wfd[w] \in Serving /\ Serving' = Serving \ {wfd[w]}
    BY <1>0, <2>1 DEF Serving, UpTypeOK, Once
  <2>4. Once'
    BY <1>0, <2>1, <2>2 DEF Once, UpTypeOK
  <2>5. Owned'
    BY <1>0, <2>1, <2>2, <2>3 DEF Owned, Split
  <2> QED
    BY <2>4, <2>5
<1>13. CASE UNCHANGED upVars
  BY <1>1, <1>13 DEF upVars, uqVars, workerVars, listenVars
<1> QED
  BY <1>3, <1>4, <1>5, <1>6, <1>7, <1>8, <1>9, <1>10, <1>11, <1>12, <1>13, UpStepCases

\* One more or one fewer worker on its way.
LEMMA ReadyCount ==
    ASSUME UpTypeOK, NEW w \in Workers
    PROVE  /\ IsFiniteSet(Ready) /\ Cardinality(Ready) \in Nat
           /\ w \notin Ready => Cardinality(Ready \cup {w}) = Cardinality(Ready) + 1
           /\ w \in Ready => Cardinality(Ready \ {w}) = Cardinality(Ready) - 1
<1>1. IsFiniteSet(Workers)
  BY UploadAssumption, FS_Interval DEF Workers
<1>2. Ready \subseteq Workers
  BY DEF Ready
<1>3. IsFiniteSet(Ready)
  BY <1>1, <1>2, FS_Subset
<1> QED
  BY <1>3, FS_CardinalityType, FS_AddElement, FS_RemoveElement

\* The workers on their way can be counted, after a step as before it.
LEMMA ReadyType ==
    Cardinality(Ready') \in Nat
<1>1. IsFiniteSet(Workers)
  BY UploadAssumption, FS_Interval DEF Workers
<1>2. Ready' \subseteq Workers
  BY DEF Ready
<1> QED
  BY <1>1, <1>2, FS_Subset, FS_CardinalityType

\* Every put wakes a worker if one sleeps, every take is by a worker counted as coming, and no other operation
\* lowers the number of those.
LEMMA WorkConservingStep == UpInv /\ [UpNext]_upVars => WorkConserving'
<1> SUFFICES ASSUME UpInv, [UpNext]_upVars PROVE WorkConserving'
  OBVIOUS
<1>0. UpTypeOK /\ Control /\ WorkConserving /\ qCount \in Nat /\ Ready \subseteq Workers
  BY IndexTypes DEF UpInv, Ready
<1>1. ASSUME qCount' = qCount, Waiting' = Waiting, Ready' = Ready PROVE WorkConserving'
  BY <1>0, <1>1 DEF WorkConserving
<1>2. ASSUME qCount' = qCount, Waiting' \subseteq Waiting, NEW w \in Workers, w \notin Ready, Ready' = Ready \cup {w}
      PROVE  WorkConserving'
  <2>1. Cardinality(Ready') = Cardinality(Ready) + 1 /\ Cardinality(Ready) \in Nat
    BY <1>0, <1>2, ReadyCount
  <2> QED
    BY <1>0, <1>2, <2>1 DEF WorkConserving
<1>3. CASE CreateWorker
  <2>1. nWorkers + 1 \in Workers /\ wpc[nWorkers + 1] = "off"
    BY <1>0, <1>3, UploadAssumption DEF CreateWorker, UpTypeOK, Control, Workers
  <2>2. Waiting' = Waiting /\ Ready' = Ready /\ qCount' = qCount
    BY <1>0, <1>3, <2>1 DEF CreateWorker, UpTypeOK, Waiting, Ready, uqVars
  <2> QED
    BY <1>1, <2>2
<1>4. CASE CreateWorkerFails \/ JoinUploadListener \/ JoinWorker \/ DestroyPool \/ StartListener
  BY <1>1, <1>4 DEF CreateWorkerFails, JoinUploadListener, JoinWorker, DestroyPool, StartListener, workerVars, uqVars,
     Waiting, Ready
<1>5. CASE DispatchUpload \/ ListenerReturns \/ RejectUpload \/ UNCHANGED upVars
  BY <1>1, <1>5 DEF DispatchUpload, ListenerReturns, RejectUpload, upVars, workerVars, uqVars, Waiting, Ready
<1>6. CASE Shutdown
  BY <1>0, <1>6 DEF Shutdown, WorkConserving, Waiting
<1>7. CASE Enqueue
  <2>1. CASE qCount >= QMax
    BY <1>1, <1>7, <2>1 DEF Enqueue, uqVars, Waiting, Ready
  <2>2. CASE ~(qCount >= QMax)
    <3>1. Signal /\ qCount' = qCount + 1
      BY <1>7, <2>2 DEF Enqueue, PutQueue
    <3>2. CASE Waiting = {}
      BY <3>1, <3>2 DEF Signal, Waiting, WorkConserving
    <3>3. CASE Waiting # {}
      <4>1. PICK w \in Waiting : wpc' = [wpc EXCEPT ![w] = "take"]
        BY <3>1, <3>3 DEF Signal
      <4>2. w \in Workers /\ w \notin Ready
        BY <4>1 DEF Waiting, Ready
      <4>3. Ready' = Ready \cup {w}
        BY <1>0, <4>1, <4>2 DEF UpTypeOK, Ready
      <4>4. Cardinality(Ready') = Cardinality(Ready) + 1 /\ Cardinality(Ready) \in Nat
        BY <1>0, <4>2, <4>3, ReadyCount
      <4> QED
        BY <1>0, <3>1, <3>3, <4>4 DEF WorkConserving
    <3> QED
      BY <3>2, <3>3
  <2> QED
    BY <2>1, <2>2
<1>8. ASSUME NEW c \in Fd, AcceptUpload(c) PROVE WorkConserving'
  BY <1>1, <1>8 DEF AcceptUpload, workerVars, uqVars, Waiting, Ready
<1>9. ASSUME NEW w \in Workers, WorkerInit(w) \/ SpuriousWakeup(w) PROVE WorkConserving'
  <2>1. PICK next \in {"take", "exit"} : wpc' = [wpc EXCEPT ![w] = next]
    BY <1>9 DEF WorkerInit, SpuriousWakeup
  <2>2. wpc[w] \in {"init", "wait"} /\ qCount' = qCount
    BY <1>9 DEF WorkerInit, SpuriousWakeup, uqVars
  <2>3. Waiting' \subseteq Waiting /\ w \notin Ready
    BY <1>0, <2>1, <2>2 DEF UpTypeOK, Waiting, Ready
  <2>4. CASE next = "take"
    <3>1. Ready' = Ready \cup {w}
      BY <1>0, <2>1, <2>4 DEF UpTypeOK, Ready
    <3> QED
      BY <1>2, <2>2, <2>3, <3>1
  <2>5. CASE next = "exit"
    <3>1. Ready' = Ready
      BY <1>0, <2>1, <2>2, <2>5 DEF UpTypeOK, Ready
    <3> QED
      BY <1>0, <2>2, <2>3, <3>1 DEF WorkConserving
  <2> QED
    BY <2>4, <2>5
<1>10. ASSUME NEW w \in Workers, TakeUpload(w) PROVE WorkConserving'
  <2>1. CASE qCount > 0
    <3>1. w \in Ready /\ wpc' = [wpc EXCEPT ![w] = "drive"] /\ qCount' = qCount - 1
      BY <1>10, <2>1 DEF TakeUpload, Ready
    <3>2. Ready' = Ready \ {w} /\ Waiting' \subseteq Waiting
      BY <1>0, <3>1 DEF UpTypeOK, Ready, Waiting
    <3>3. Cardinality(Ready') = Cardinality(Ready) - 1 /\ Cardinality(Ready) \in Nat
      BY <1>0, <3>1, <3>2, ReadyCount
    <3> QED
      BY <1>0, <3>1, <3>2, <3>3 DEF WorkConserving
  <2>2. CASE ~(qCount > 0)
    <3>1. qCount' = 0
      BY <1>0, <1>10, <2>2 DEF TakeUpload
    <3>2. Cardinality(Ready') \in Nat
      BY ReadyType
    <3> QED
      BY <3>1, <3>2 DEF WorkConserving
  <2> QED
    BY <2>1, <2>2
<1>11. ASSUME NEW w \in Workers, DriveEnds(w) PROVE WorkConserving'
  <2>1. wpc[w] = "drive" /\ wpc' = [wpc EXCEPT ![w] = "take"] /\ qCount' = qCount
    BY <1>11 DEF DriveEnds, uqVars
  <2>2. Waiting' \subseteq Waiting /\ w \notin Ready /\ Ready' = Ready \cup {w}
    BY <1>0, <2>1 DEF UpTypeOK, Waiting, Ready
  <2> QED
    BY <1>2, <2>1, <2>2
<1> QED
  BY <1>3, <1>4, <1>5, <1>6, <1>7, <1>8, <1>9, <1>10, <1>11, UpStepCases

(***************************************************************************)
(* The theorems.                                                           *)
(***************************************************************************)
\* The invariant, for every run of the pool.
THEOREM UpInvariant == UpSpec => []UpInv
<1>1. UpInv /\ [UpNext]_upVars => UpInv'
  BY ControlStep, OwnedStep, WorkConservingStep DEF UpInv, ControlInv
<1> QED
  BY UpInitInv, <1>1, PTL DEF UpSpec

\* Every state of the pool is well typed; the indices never leave the array and the count never passes the
\* depth.
THEOREM UpTypeCorrect == UpSpec => []UpTypeOK
<1>1. UpInv => UpTypeOK
  BY DEF UpInv
<1> QED
  BY UpInvariant, <1>1, PTL

\* No worker sleeps while a connection is queued that no woken worker is coming for, for any number of
\* workers and any depth: one signal per dispatch is enough.
THEOREM WorkConservingHolds == UpSpec => []WorkConserving
<1>1. UpInv => WorkConserving
  BY DEF UpInv
<1> QED
  BY UpInvariant, <1>1, PTL

\* When the pool is destroyed no thread can still lock it and it holds no connection, whichever of the two
\* ways the shutdown was reached.
THEOREM DestroyedQuietHolds == UpSpec => []DestroyedQuiet
<1>1. UpInv => DestroyedQuiet
  <2> SUFFICES ASSUME UpInv, mpc = "done"
               PROVE  /\ \A w \in Workers : wpc[w] \in {"off", "exit"} /\ wfd[w] = NoFd
                      /\ dpc \in {"off", "done"} /\ qCount = 0 /\ closed = Fd \ pending
    BY DEF DestroyedQuiet
  <2>1. /\ \A w \in Workers : wpc[w] \in {"off", "exit"} /\ wfd[w] = NoFd
        /\ dpc \in {"off", "done"} /\ qCount = 0 /\ dfd \notin Fd
    BY DEF UpInv, UpTypeOK, Control
  <2>2. QueuedFds = {}
    <3>1. 1..0 = {}
      OBVIOUS
    <3> QED
      BY <2>1, <3>1 DEF QueuedFds
  <2>3. Serving = {} /\ Held = {}
    BY <2>1 DEF Serving, Held
  <2>4. closed = Fd \ pending
    BY <2>2, <2>3 DEF UpInv, Owned, Split
  <2> QED
    BY <2>1, <2>4
<1> QED
  BY UpInvariant, <1>1, PTL

(***************************************************************************)
(* The pool implements the queue.                                          *)
(***************************************************************************)
\* The first state is an empty, open queue.
LEMMA QueueInit == UpInit => Abstract!QInit
<1> SUFFICES ASSUME UpInit PROVE Abstract!QInit
  OBVIOUS
<1>1. 1..0 = {} /\ qCount = 0
  BY DEF UpInit
<1>2. Queued = <<>>
  BY <1>1 DEF Queued
<1> QED
  BY <1>2 DEF UpInit, Abstract!QInit

\* The queue's elements are the connections in the array.
LEMMA ElemsIsQueuedFds ==
    ASSUME UpTypeOK
    PROVE  Abstract!Elems(Queued) = QueuedFds /\ (DOMAIN Queued = 1..qCount)
BY QueuedIs DEF Abstract!Elems, QueuedFds

\* A step of the queue, or none.
QueueMoves == Abstract!QNext \/ UNCHANGED Abstract!qvars

\* Every operation of the pool is a step of the queue, or no step of it.
LEMMA QueueStep == UpInv /\ [UpNext]_upVars => [Abstract!QNext]_(Abstract!qvars)
<1> SUFFICES ASSUME UpInv, [UpNext]_upVars PROVE QueueMoves
  BY DEF QueueMoves
<1>0. UpTypeOK /\ Ring /\ Control /\ Once /\ Owned /\ NoFd \notin Fd /\ qCount \in Nat
  BY UploadAssumption, IndexTypes DEF UpInv
<1>1. Abstract!Elems(Queued) = QueuedFds /\ Queued \in Seq(Fd \cup {NoFd}) /\ Len(Queued) = qCount
  BY <1>0, ElemsIsQueuedFds, QueuedSeq
<1>2. ASSUME UNCHANGED <<uqVars, running, closed>>, Serving' = Serving PROVE QueueMoves
  BY <1>2, QueuedSame DEF QueueMoves, Abstract!qvars, Serving
<1>3. ASSUME UNCHANGED <<uqVars, running, closed, wfd>>, \A w \in Workers : wpc'[w] = "drive" <=> wpc[w] = "drive"
      PROVE  QueueMoves
  BY <1>2, <1>3, ServingSame
<1>4. CASE CreateWorker
  <2>1. nWorkers + 1 \in Workers /\ wpc[nWorkers + 1] = "off"
    BY <1>0, <1>4, UploadAssumption DEF CreateWorker, UpTypeOK, Control, Workers
  <2>2. \A w \in Workers : wpc'[w] = "drive" <=> wpc[w] = "drive"
    BY <1>0, <1>4, <2>1 DEF CreateWorker, UpTypeOK
  <2> QED
    BY <1>3, <1>4, <2>2 DEF CreateWorker
<1>5. CASE CreateWorkerFails \/ JoinUploadListener \/ JoinWorker \/ DestroyPool \/ StartListener
  BY <1>3, <1>5 DEF CreateWorkerFails, JoinUploadListener, JoinWorker, DestroyPool, StartListener, workerVars
<1>6. CASE DispatchUpload \/ ListenerReturns
  BY <1>3, <1>6 DEF DispatchUpload, ListenerReturns, workerVars
<1>7. CASE Shutdown
  <2>1. Queued' = <<>> /\ running' = FALSE /\ closed' = closed \cup QueuedFds
    BY <1>0, <1>7, DropAll DEF Shutdown
  <2>2. Serving' = Serving
    BY <1>7, ServingSame DEF Shutdown, Waiting
  <2>3. Abstract!Close
    BY <1>1, <2>1, <2>2 DEF Abstract!Close, Serving
  <2> QED
    BY <2>3 DEF QueueMoves, Abstract!QNext
<1>8. CASE Enqueue
  <2>1. dfd \in Fd /\ running
    BY <1>0, <1>8 DEF Enqueue, Control, UpTypeOK, MainPc
  <2>2. CASE qCount >= QMax
    BY <1>3, <1>8, <2>2 DEF Enqueue
  <2>3. CASE ~(qCount >= QMax)
    <3>1. PutQueue(dfd) /\ Signal /\ UNCHANGED <<running, wfd, closed>> /\ qCount < QMax
      BY <1>0, <1>8, <2>3, IndexTypes DEF Enqueue
    <3>2. Queued' = Append(Queued, dfd)
      BY <1>0, <2>1, <3>1, PutAppends
    <3>3. Serving' = Serving
      <4>1. \A w \in Workers : wpc'[w] = "drive" <=> wpc[w] = "drive"
        BY <1>0, <3>1 DEF Signal, Waiting, UpTypeOK
      <4> QED
        BY <3>1, <4>1, ServingSame
    <3>4. dfd \notin QueuedFds \cup Serving \cup closed
      BY <1>0, <2>1 DEF Owned, Split, Held
    <3>5. Abstract!Put(dfd)
      BY <1>1, <2>1, <3>1, <3>2, <3>3, <3>4 DEF Abstract!Put, Abstract!Fresh, Serving
    <3> QED
      BY <2>1, <3>5 DEF QueueMoves, Abstract!QNext
  <2> QED
    BY <2>2, <2>3
<1>9. CASE RejectUpload
  <2>1. dfd \in Fd
    BY <1>0, <1>9 DEF RejectUpload, Control
  <2>2. dfd \notin QueuedFds \cup Serving \cup closed
    BY <1>0, <2>1 DEF Owned, Split, Held
  <2>3. Queued' = Queued /\ Serving' = Serving /\ running' = running /\ closed' = closed \cup {dfd}
    BY <1>9, QueuedSame, ServingSame DEF RejectUpload, workerVars
  <2>4. Abstract!Refuse(dfd)
    BY <1>1, <2>1, <2>2, <2>3 DEF Abstract!Refuse, Abstract!Fresh, Serving
  <2> QED
    BY <2>1, <2>4 DEF QueueMoves, Abstract!QNext
<1>10. ASSUME NEW c \in Fd, AcceptUpload(c) PROVE QueueMoves
  BY <1>3, <1>10 DEF AcceptUpload, workerVars
<1>11. ASSUME NEW w \in Workers, WorkerInit(w) \/ SpuriousWakeup(w) PROVE QueueMoves
  <2>1. PICK next \in {"take", "exit"} : wpc' = [wpc EXCEPT ![w] = next]
    BY <1>11 DEF WorkerInit, SpuriousWakeup
  <2>2. wpc[w] \in {"init", "wait"}
    BY <1>11 DEF WorkerInit, SpuriousWakeup
  <2>3. \A v \in Workers : wpc'[v] = "drive" <=> wpc[v] = "drive"
    BY <1>0, <2>1, <2>2 DEF UpTypeOK
  <2> QED
    BY <1>3, <1>11, <2>3 DEF WorkerInit, SpuriousWakeup
<1>12. ASSUME NEW w \in Workers, TakeUpload(w) PROVE QueueMoves
  <2>0. wpc[w] = "take" /\ UNCHANGED <<queue, qTail, running, closed>>
    BY <1>12 DEF TakeUpload
  <2>1. CASE qCount > 0
    <3> DEFINE c == queue[qHead]
    <3>1. /\ wfd' = [wfd EXCEPT ![w] = c] /\ wpc' = [wpc EXCEPT ![w] = "drive"]
          /\ qHead' = (qHead + 1) % QueueMax /\ qCount' = qCount - 1
      BY <1>12, <2>1 DEF TakeUpload
    <3>2. Queued # <<>> /\ c = Queued[1] /\ Queued' = Tail(Queued)
      BY <1>0, <2>0, <2>1, <3>1, TakeIsTail
    <3> HIDE DEF c
    <3>3. Serving' = Serving \cup {c}
      BY <1>0, <2>0, <3>1 DEF Serving, UpTypeOK
    <3>4. Head(Queued) = c
      BY <1>1, <3>2
    <3>5. Abstract!Take
      BY <2>0, <3>2, <3>3, <3>4 DEF Abstract!Take, Serving
    <3> QED
      BY <3>5 DEF QueueMoves, Abstract!QNext
  <2>2. CASE ~(qCount > 0)
    <3>1. UNCHANGED <<uqVars, wfd>>
      BY <1>12, <2>2 DEF TakeUpload, uqVars
    <3>2. \A v \in Workers : wpc'[v] = "drive" <=> wpc[v] = "drive"
      BY <1>0, <1>12, <2>2 DEF TakeUpload, UpTypeOK
    <3> QED
      BY <1>3, <2>0, <3>1, <3>2
  <2> QED
    BY <2>1, <2>2
<1>13. ASSUME NEW w \in Workers, DriveEnds(w) PROVE QueueMoves
  <2>0. PICK c : c = wfd[w]
    OBVIOUS
  <2>1. /\ wpc[w] = "drive" /\ UNCHANGED <<uqVars, running>>
        /\ closed' = closed \cup {c} /\ wfd' = [wfd EXCEPT ![w] = NoFd] /\ wpc' = [wpc EXCEPT ![w] = "take"]
    BY <1>13, <2>0 DEF DriveEnds
  <2>2. c \in Fd /\ c \in Serving /\ Serving' = Serving \ {c}
    BY <1>0, <2>0, <2>1 DEF Serving, UpTypeOK, Once, Control
  <2>3. Queued' = Queued
    BY <2>1, QueuedSame
  <2>4. Abstract!Finish(c)
    BY <2>1, <2>2, <2>3 DEF Abstract!Finish, Serving
  <2> QED
    BY <2>2, <2>4 DEF QueueMoves, Abstract!QNext
<1>14. CASE UNCHANGED upVars
  BY <1>3, <1>14 DEF upVars, workerVars
<1> QED
  BY <1>4, <1>5, <1>6, <1>7, <1>8, <1>9, <1>10, <1>11, <1>12, <1>13, <1>14, UpStepCases

\* Circular buffer, lock, condition variable and worker threads together are a bounded first-in first-out
\* queue that serves, refuses or closes each connection once, for any number of workers and any depth.
THEOREM ImplementsQueueHolds == UpSpec => ImplementsQueue
<1> QED
  BY UpInvariant, QueueInit, QueueStep, PTL DEF UpSpec, ImplementsQueue, Abstract!QSpec
=============================================================================
