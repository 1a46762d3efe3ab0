---------------------------- MODULE SizingProofs ----------------------------
(***************************************************************************)
(* Every configuration the server starts with has sizes on which the other *)
(* modules' assumptions hold.                                              *)
(***************************************************************************)
EXTENDS Sizing, TLAPS

\* core.c never computes a CPU count outside a uint8_t, nor zero.
LEMMA CpuCountRange ==
    ASSUME NEW online \in Int
    PROVE  CpuCount(online) \in 1..255
BY DEF CpuCount

\* worker.c never computes an operator count outside 1..255.
LEMMA OperatorsRange ==
    ASSUME NEW env \in Env, NEW online \in Int
    PROVE  Operators(env, online) \in 1..255
<1>1. CpuCount(online) \in 1..255
  BY CpuCountRange
<1>2. env.workers \in Setting
  BY DEF Env
<1>3. env.workers.n \in Int
  BY <1>2 DEF Setting
<1> DEFINE c == CpuCount(online)
           s == env.workers
<1> HIDE DEF c, s
<1>4. OperatorCount(c, s) \in 1..255
  <2>1. c \in 1..255 /\ s.n \in Int
    BY <1>1, <1>3 DEF c, s
  <2>2. CASE s.text = "all"
    BY <2>1, <2>2 DEF OperatorCount
  <2>3. CASE s.text # "all" /\ Within(s, 1, 255)
    BY <2>1, <2>3 DEF OperatorCount, Within
  <2>4. CASE s.text # "all" /\ ~Within(s, 1, 255)
    BY <2>1, <2>4 DEF OperatorCount
  <2> QED
    BY <2>2, <2>3, <2>4
<1> QED
  BY <1>4 DEF c, s, Operators

\* The upload side never asks for more than its arrays hold, whatever the environment says.
LEMMA UploadRange ==
    ASSUME NEW s \in Setting
    PROVE  UploadWorkerCount(s) \in 1..16 /\ UploadQueueDepth(s) \in 1..32
BY DEF UploadWorkerCount, UploadQueueDepth, Within, Setting

\* The validation and the computations, two copies of the same bounds in different files, agree: a server
\* that starts uses every setting it was given and never falls back to a default behind the administrator.
THEOREM SettingsHonoured ==
    ASSUME NEW env \in Env, NEW online \in Int, NEW api \in ListenSpec, NEW upload \in ListenSpec,
           ConfigValid(env, api, upload)
    PROVE  /\ env.workers.text = "all" => Operators(env, online) = CpuCount(online)
           /\ env.workers.text \in {"number", "other"} => Operators(env, online) = env.workers.n
           /\ ~Unset(env.ring) => RingCapacityOf(env.ring) = env.ring.n
           /\ ~Unset(env.maxClients) => MaxClientsOf(env.maxClients) = env.maxClients.n
           /\ ~Unset(env.uploadWorkers) => UploadWorkerCount(env.uploadWorkers) = env.uploadWorkers.n
           /\ ~Unset(env.uploadDepth) => UploadQueueDepth(env.uploadDepth) = env.uploadDepth.n
<1>1. /\ WorkersValid(env.workers) /\ RingValid(env.ring) /\ MaxClientsValid(env.maxClients)
      /\ UploadWorkersValid(env.uploadWorkers) /\ UploadDepthValid(env.uploadDepth)
  BY DEF ConfigValid
<1>2. env.workers.text = "all" => Operators(env, online) = CpuCount(online)
  BY DEF Operators, OperatorCount
<1>3. env.workers.text \in {"number", "other"} => Operators(env, online) = env.workers.n
  BY <1>1 DEF Operators, OperatorCount, WorkersValid, Unset
<1>4. /\ ~Unset(env.ring) => RingCapacityOf(env.ring) = env.ring.n
      /\ ~Unset(env.maxClients) => MaxClientsOf(env.maxClients) = env.maxClients.n
  BY <1>1 DEF RingValid, RingCapacityOf, MaxClientsValid, MaxClientsOf
<1>5. /\ ~Unset(env.uploadWorkers) => UploadWorkerCount(env.uploadWorkers) = env.uploadWorkers.n
      /\ ~Unset(env.uploadDepth) => UploadQueueDepth(env.uploadDepth) = env.uploadDepth.n
  BY <1>1 DEF UploadWorkersValid, UploadWorkerCount, UploadDepthValid, UploadQueueDepth
<1> QED
  BY <1>2, <1>3, <1>4, <1>5

\* Whatever the environment says and however many CPUs there are, the operators' counters cannot wrap on a
\* full operator (OperatorAssumption; UINT_MAX is at least 65535 in C) and the upload queue fits its array (UploadAssumption).
THEOREM SizesFit ==
    ASSUME NEW env \in Env, NEW online \in Int
    PROVE  /\ Operators(env, online) \in Nat \ {0}
           /\ MaxClientsOf(env.maxClients) \in Nat \ {0} /\ RingCapacityOf(env.ring) \in Nat \ {0}
           /\ MaxClientsOf(env.maxClients) + RingCapacityOf(env.ring) + 1 <= 1280
           /\ BlindLimitOf(env.maxClients) \in Nat
           /\ UploadWorkerCount(env.uploadWorkers) \in Nat \ {0}
           /\ UploadQueueDepth(env.uploadDepth) \in 1..UploadQueueMax
<1>1. env.ring \in Setting /\ env.maxClients \in Setting /\ env.uploadWorkers \in Setting /\ env.uploadDepth \in Setting
  BY DEF Env
<1>2. MaxClientsOf(env.maxClients) \in 8..255
  BY <1>1 DEF MaxClientsOf, Within, Setting
<1>3. RingCapacityOf(env.ring) \in 8..1024
  BY <1>1 DEF RingCapacityOf, RingCapacities, Setting
<1>4. BlindLimitOf(env.maxClients) \in Nat
  BY <1>2 DEF BlindLimitOf
<1>5. Operators(env, online) \in 1..255
  BY OperatorsRange
<1>6. UploadWorkerCount(env.uploadWorkers) \in 1..16 /\ UploadQueueDepth(env.uploadDepth) \in 1..32
  BY <1>1, UploadRange
<1>7. MaxClientsOf(env.maxClients) + RingCapacityOf(env.ring) + 1 <= 1280
  <2> DEFINE m == MaxClientsOf(env.maxClients)
             r == RingCapacityOf(env.ring)
  <2> HIDE DEF m, r
  <2>1. m \in 8..255 /\ r \in 8..1024
    BY <1>2, <1>3 DEF m, r
  <2>2. m + r + 1 <= 1280
    BY <2>1
  <2> QED
    BY <2>2 DEF m, r
<1> QED
  BY <1>2, <1>3, <1>4, <1>5, <1>6, <1>7 DEF UploadQueueMax

\* Once server_init has accepted the sizes, every thread that calls DB_app has a transaction slot of its own
\* below the number it was initialised with: the 8-bit slot number of an upload worker does not wrap into the
\* operators' range.
THEOREM SlotsDisjoint ==
    ASSUME NEW env \in Env, NEW online \in Int, NEW isolated \in BOOLEAN, Sized(env, online, isolated)
    PROVE  /\ OperatorSlots(env, online) \cap UploadSlots(env, online, isolated) = {}
           /\ OperatorSlots(env, online) \cup UploadSlots(env, online, isolated)
                 \subseteq 0..(TotalSlots(env, online, isolated) - 1)
           /\ \A i, j \in 0..(UploadWorkers(env, isolated) - 1) :
                 UploadSlot(env, online, i) = UploadSlot(env, online, j) => i = j
<1> DEFINE ops == Operators(env, online)
           ups == UploadWorkers(env, isolated)
<1>1. ops \in 1..255
  BY OperatorsRange
<1>2. ups \in 0..16
  <2>1. env.uploadWorkers \in Setting
    BY DEF Env
  <2> QED
    BY <2>1, UploadRange DEF UploadWorkers
<1>3. TotalSlots(env, online, isolated) = ops + ups /\ ops + ups <= 255
  BY DEF Sized, TotalSlots
<1>4. OperatorSlots(env, online) = 0..(ops - 1)
  BY DEF OperatorSlots
<1>5. ASSUME NEW i \in 0..(ups - 1) PROVE UploadSlot(env, online, i) = ops + i /\ ops + i \in ops..(ops + ups - 1)
  <2> HIDE DEF ops, ups
  <2>1. ops + i \in 0..255 /\ ops + i \in ops..(ops + ups - 1)
    BY <1>1, <1>2, <1>3
  <2>2. (ops + i) % 256 = ops + i
    BY <2>1
  <2> QED
    BY <2>1, <2>2 DEF UploadSlot, ops
<1>6. UploadSlots(env, online, isolated) = {UploadSlot(env, online, i) : i \in 0..(ups - 1)}
  BY DEF UploadSlots
<1> HIDE DEF ops, ups
<1>7. \A x \in UploadSlots(env, online, isolated) : x \in ops..(ops + ups - 1)
  BY <1>5, <1>6
<1>8. OperatorSlots(env, online) \cap UploadSlots(env, online, isolated) = {}
  BY <1>1, <1>2, <1>4, <1>7
<1>9. OperatorSlots(env, online) \cup UploadSlots(env, online, isolated) \subseteq 0..(TotalSlots(env, online, isolated) - 1)
  BY <1>1, <1>2, <1>3, <1>4, <1>7
<1>10. \A i, j \in 0..(ups - 1) : UploadSlot(env, online, i) = UploadSlot(env, online, j) => i = j
  BY <1>1, <1>2, <1>5
<1> QED
  BY <1>8, <1>9, <1>10 DEF ups

\* A configuration that passes every check of config_validate_startup may still be refused by server_init, which
\* adds the operators and the upload workers up only when the listener is already bound.
THEOREM ValidMayNotFit ==
    \E env \in Env, online \in Int :
        ConfigValid(env, "tcp", "tcp") /\ ~Sized(env, online, TRUE)
<1> DEFINE unset == [text |-> "unset", n |-> 0]
           many  == [text |-> "number", n |-> 255]
           env   == [workers |-> many, ring |-> unset, maxClients |-> unset,
                     uploadWorkers |-> unset, uploadDepth |-> unset]
<1>1. unset \in Setting /\ many \in Setting
  BY DEF Setting
<1>2. env \in Env
  BY <1>1 DEF Env
<1>3. ConfigValid(env, "tcp", "tcp")
  BY DEF ConfigValid, WorkersValid, RingValid, MaxClientsValid, UploadWorkersValid, UploadDepthValid, Unset, Within
<1>4. Operators(env, 1) = 255 /\ UploadWorkers(env, TRUE) = 4
  BY DEF Operators, OperatorCount, UploadWorkers, UploadWorkerCount, Within
<1> HIDE DEF env
<1>5. TotalSlots(env, 1, TRUE) = 255 + 4
  BY <1>4 DEF TotalSlots
<1>6. ~(TotalSlots(env, 1, TRUE) <= 255)
  <2>1. ~(255 + 4 <= 255)
    OBVIOUS
  <2> QED
    BY <1>5, <2>1, Zenon
<1>7. ~Sized(env, 1, TRUE)
  BY <1>6, Zenon DEF Sized
<1>8. 1 \in Int
  OBVIOUS
<1> QED
  BY <1>2, <1>3, <1>7, <1>8
=============================================================================
