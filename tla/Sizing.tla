------------------------------- MODULE Sizing -------------------------------
(***************************************************************************)
(* How many threads, slots and queue cells the server starts with: the     *)
(* settings config_validate.c accepts, what worker.c and core.c then make  *)
(* of them, and server_init's test of the DB_app transaction slots.  It    *)
(* all happens on the boot thread before any other exists, so these are    *)
(* operators and not actions.                                              *)
(***************************************************************************)
EXTENDS Integers

\* An environment variable as getenv, strcmp and strtol see it: unset or empty; all or ALL; a number that
\* fits a long and nothing else; any other text.
Setting == [text : {"unset", "all", "number", "other"}, n : Int]

Env == [workers : Setting, ring : Setting, maxClients : Setting, uploadWorkers : Setting, uploadDepth : Setting]

Unset(s)        == s.text = "unset"
Within(s, a, b) == s.text = "number" /\ s.n \in a..b

\* What (req & (req - 1)) == 0 leaves of 8..1024.
RingCapacities == {8, 16, 32, 64, 128, 256, 512, 1024}

(***************************************************************************)
(* config_validate_startup.  A listen specification is absent, a port or a *)
(* path that is well formed, or malformed.                                 *)
(***************************************************************************)
ListenSpec == {"none", "tcp", "unix", "malformed"}

WorkersValid(s)       == Unset(s) \/ s.text = "all" \/ Within(s, 1, 255)
RingValid(s)          == Unset(s) \/ (s.text = "number" /\ s.n \in RingCapacities)
MaxClientsValid(s)    == Unset(s) \/ Within(s, 8, 255)
UploadWorkersValid(s) == Unset(s) \/ Within(s, 1, 16)
UploadDepthValid(s)   == Unset(s) \/ Within(s, 1, 32)

ConfigValid(env, api, upload) ==
    /\ api # "malformed" /\ upload # "malformed"
    /\ WorkersValid(env.workers) /\ RingValid(env.ring) /\ MaxClientsValid(env.maxClients)
    /\ UploadWorkersValid(env.uploadWorkers) /\ UploadDepthValid(env.uploadDepth)

(***************************************************************************)
(* What worker_init and server_init compute.                               *)
(***************************************************************************)
\* The CPUs the process may use, as an 8-bit number.
CpuCount(online) == IF online < 1 THEN 1 ELSE IF online > 255 THEN 255 ELSE online

\* One CPU is the listener's, unless told otherwise.
OperatorCount(cpus, s) ==
    IF s.text = "all" THEN cpus
    ELSE IF Within(s, 1, 255) THEN s.n
    ELSE IF cpus <= 2 THEN 1 ELSE cpus - 1

RingCapacityOf(s)    == IF s.text = "number" /\ s.n \in RingCapacities THEN s.n ELSE 32
MaxClientsOf(s)      == IF Within(s, 8, 255) THEN s.n ELSE 64
BlindLimitOf(s)      == MaxClientsOf(s) \div 10
UploadWorkerCount(s) == IF Within(s, 1, 16) THEN s.n ELSE 4
UploadQueueDepth(s)  == IF Within(s, 1, 32) THEN s.n ELSE 32

\* upload_worker.c: UPLOAD_MAX_WORKERS and UPLOAD_QUEUE_MAX.
UploadMaxWorkers == 16
UploadQueueMax   == 32

UploadInitAccepts(workers, depth) == workers \in 1..UploadMaxWorkers /\ depth \in 1..UploadQueueMax

Operators(env, online) == OperatorCount(CpuCount(online), env.workers)

\* isolated: the listener has an upload socket.
UploadWorkers(env, isolated) == IF isolated THEN UploadWorkerCount(env.uploadWorkers) ELSE 0
TotalSlots(env, online, isolated) == Operators(env, online) + UploadWorkers(env, isolated)

\* server_init gets past its sizing.
Sized(env, online, isolated) ==
    /\ Operators(env, online) # 0
    /\ TotalSlots(env, online, isolated) <= 255
    /\ isolated => UploadInitAccepts(UploadWorkerCount(env.uploadWorkers), UploadQueueDepth(env.uploadDepth))

\* The transaction slot of an operator is its id, that of upload worker idx is (uint8_t)(worker_no_base + idx).
OperatorSlots(env, online)         == 0..(Operators(env, online) - 1)
UploadSlot(env, online, idx)       == (Operators(env, online) + idx) % 256
UploadSlots(env, online, isolated) == {UploadSlot(env, online, i) : i \in 0..(UploadWorkers(env, isolated) - 1)}
=============================================================================
