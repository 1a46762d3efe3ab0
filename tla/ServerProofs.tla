---------------------------- MODULE ServerProofs ----------------------------
(***************************************************************************)
(* Start-up and stop of the server for every way of starting it, any       *)
(* number of addresses, workers and connections: the server runs the       *)
(* upload pool as UploadPool says, serves an upload socket exactly if it   *)
(* has the pool for it, gives every socket and socket file back, and has   *)
(* more sockets than its array has places in one case only.                *)
(***************************************************************************)
EXTENDS Server, FiniteSetTheorems, TLAPS

(***************************************************************************)
(* Every step is one of the pool's or leaves the pool alone.               *)
(***************************************************************************)
LEMMA ServerStepIsPoolStep == [ServerNext]_allVars => [UpNext]_upVars
<1> SUFFICES ASSUME [ServerNext]_allVars PROVE [UpNext]_upVars
  OBVIOUS
<1>1. CASE Boot
  <2>1. CASE ListenerBoot
    BY <2>1 DEF ListenerBoot, AdoptInherited, TakeSpecs, RefuseStart, BindApi, BindApiFails, BindUpload,
                BindUploadOverruns, BindUploadFails, Register, RegisterFails, InstallSignals
  <2>2. CASE InitWorkers \/ InitFails \/ PoolInitFails
    BY <2>2 DEF InitWorkers, InitFails, PoolInitFails
  <2>3. CASE PoolInit \/ RunServer \/ EndServer
    BY <2>3 DEF PoolInit, RunServer, EndServer, UpNext, MainStep
  <2> QED
    BY <1>1, <2>1, <2>2, <2>3 DEF Boot
<1>2. CASE Sigterm \/ HearStop \/ AcceptsNothing
  BY <1>2 DEF Sigterm, HearStop, AcceptsNothing
<1>3. CASE ListenerStops
  BY <1>3 DEF ListenerStops, UpNext
<1>4. CASE Dispatching
  BY <1>4 DEF Dispatching, UpNext
<1>5. ASSUME NEW c \in Fd, ServeUpload(c) PROVE [UpNext]_upVars
  BY <1>5 DEF ServeUpload, UpNext
<1>6. ASSUME NEW w \in Workers, Working(w) \/ (SpuriousWakeup(w) /\ UNCHANGED srvVars) PROVE [UpNext]_upVars
  BY <1>6 DEF Working, UpNext
<1>7. CASE ServerEnded \/ UNCHANGED allVars
  BY <1>7 DEF ServerEnded, allVars
<1> QED
  BY <1>1, <1>2, <1>3, <1>4, <1>5, <1>6, <1>7 DEF ServerNext

\* The boot thread, the listener and the workers do to the pool what UploadPool says, so that the theorems of
\* UploadPoolProofs hold of the server, however it was started.
THEOREM RunsThePoolHolds == ServerSpec => RunsThePool
<1>1. ServerInit => UpInit
  BY DEF ServerInit
<1> QED
  BY <1>1, ServerStepIsPoolStep, PTL DEF ServerSpec, UpSpec, RunsThePool

(***************************************************************************)
(* What the position of the boot thread says of the pool and the sockets.  *)
(***************************************************************************)
\* Until the pool is created there is no thread of it and no listener; then the listener runs on an upload
\* socket and a complete pool, or on neither.
Phase ==
    /\ bpc \in BootPc
    /\ bpc \notin {"pool", "serve", "failed"} => mpc = "create" /\ nWorkers = 0
    /\ bpc # "serve" => dpc = "off"
    /\ bpc = "pool" => UploadSockets # {}
    /\ bpc = "plain" => UploadSockets = {}
    /\ bpc = "serve" /\ dpc # "done" =>
          dpc # "off" /\ mpc = "serve" /\ nWorkers = NWorkers /\ UploadSockets # {}

\* Every open socket and every file of ours is recorded, so that _stop_listener finds it; what is systemd's is
\* not recorded.
Recorded ==
    /\ files \in [Role -> {"none", "stale", "ours", "systemd"}]
    /\ \A r \in Role : files[r] = "ours" => r \in mine
    /\ \A r \in Role : files[r] = "systemd" => r \notin mine /\ args.activated
    /\ bpc \in {"api", "upload"} => ~args.activated
    /\ bpc \in {"init", "api"} => active = {} /\ mine = {}
    /\ open \subseteq Socket
    /\ \A s \in open : s \in active \/ (bpc \in {"init", "refused"} /\ files[s.role] = "systemd")

ServerInv == Phase /\ Recorded /\ StoppedClean

LEMMA ServerInitInv == ServerInit => ServerInv
<1> SUFFICES ASSUME ServerInit PROVE ServerInv
  OBVIOUS
<1>1. Phase
  BY DEF ServerInit, UpInit, Phase, BootPc
<1>2. Recorded
  <2>1. \A s \in open : files[s.role] = "systemd" /\ s \in Socket
    BY DEF ServerInit, PathOf, Socket
  <2> QED
    BY <2>1 DEF ServerInit, Recorded
<1>3. StoppedClean
  BY DEF ServerInit, UpInit, StoppedClean
<1> QED
  BY <1>1, <1>2, <1>3 DEF ServerInv

\* The steps after start-up, which leave the sockets as they are.
LEMMA FrameStep ==
    ASSUME ServerInv, UNCHANGED <<args, bpc, sockVars>>,
           bpc # "serve" => UNCHANGED dpc,
           bpc \notin {"pool", "serve", "failed"} => UNCHANGED <<mpc, nWorkers>>,
           bpc = "serve" => (dpc' = "done" <=> dpc = "done") /\ dpc' # "off",
           bpc = "serve" /\ dpc # "done" => UNCHANGED <<mpc, nWorkers>>
    PROVE  ServerInv'
<1>1. Phase'
  BY DEF ServerInv, Phase, UploadSockets, sockVars
<1>2. Recorded'
  BY DEF ServerInv, Recorded, sockVars
<1>3. StoppedClean'
  BY DEF ServerInv, Phase, StoppedClean, sockVars
<1> QED
  BY <1>1, <1>2, <1>3 DEF ServerInv

\* The listener's sockets are given back.
LEMMA StopStep ==
    ASSUME Recorded, NEW f \in [Role -> {"none", "stale", "ours", "systemd"}], StopListener(f),
           \A r \in Role : f[r] = "ours" => files[r] = "ours",
           \A r \in Role : f[r] = "systemd" => files[r] = "systemd",
           bpc \notin {"init", "refused"}, bpc' \notin {"api", "upload"}, UNCHANGED args
    PROVE  Recorded' /\ active' = {} /\ mine' = {} /\ open' = {} /\ \A r \in Role : files'[r] # "ours"
<1>1. active' = {} /\ mine' = {} /\ open' = {}
  BY DEF StopListener, Recorded
<1>2. files' = [r \in Role |-> IF r \in mine THEN "none" ELSE f[r]]
  BY DEF StopListener
<1>3. files' \in [Role -> {"none", "stale", "ours", "systemd"}]
  BY <1>2
<1>4. \A r \in Role : files'[r] # "ours" /\ (files'[r] = "systemd" => files[r] = "systemd")
  BY <1>2 DEF Recorded
<1> QED
  BY <1>1, <1>3, <1>4 DEF Recorded

\* A socket is bound and recorded.
LEMMA BindStep ==
    ASSUME Recorded, NEW r \in Role, NEW spec, Bind(r, spec),
           bpc \in {"api", "upload"}, bpc' \in {"upload", "register", "overrun"}, UNCHANGED args
    PROVE  Recorded'
<1>1. PICK S \in Bindable(r, spec) :
         /\ open' = open \cup S /\ active' = active \cup S
         /\ mine'  = IF spec = "unix" THEN mine \cup {r} ELSE mine
         /\ files' = IF spec = "unix" THEN [files EXCEPT ![r] = "ours"] ELSE files
  BY DEF Bind
<1>2. /\ files' \in [Role -> {"none", "stale", "ours", "systemd"}]
      /\ \A x \in Role : files'[x] = "ours" => x \in mine'
      /\ \A x \in Role : files'[x] = "systemd" => x \notin mine' /\ args.activated
  BY <1>1 DEF Recorded
<1>3. \A s \in open' : s \in active'
  BY <1>1 DEF Recorded
<1>4. S \subseteq Socket
  BY DEF Bindable, PathOf, Socket
<1> QED
  BY <1>1, <1>2, <1>3, <1>4 DEF Recorded

LEMMA ServerInvStep == ServerInv /\ [ServerNext]_allVars => ServerInv'
<1> SUFFICES ASSUME ServerInv, [ServerNext]_allVars PROVE ServerInv'
  OBVIOUS
<1>0. Phase /\ Recorded /\ StoppedClean
  BY DEF ServerInv
<1>1. CASE AdoptInherited
  <2>1. Phase'
    BY <1>0, <1>1 DEF AdoptInherited, Phase, BootPc, upVars, mainVars, listenVars
  <2>2. Recorded'
    BY <1>0, <1>1 DEF AdoptInherited, Recorded
  <2>3. StoppedClean'
    BY <1>0, <1>1 DEF AdoptInherited, Phase, StoppedClean, upVars, listenVars
  <2> QED
    BY <2>1, <2>2, <2>3 DEF ServerInv
<1>2. CASE TakeSpecs
  <2>1. Phase'
    BY <1>0, <1>2 DEF TakeSpecs, Phase, BootPc, upVars, mainVars, listenVars
  <2>2. bpc = "init" /\ bpc' = "api" /\ ~args.activated /\ UNCHANGED <<args, sockVars>>
    BY <1>2 DEF TakeSpecs
  <2>3. Recorded'
    <3>1. \A s \in open : s \in active
      BY <1>0, <2>2 DEF Recorded, Socket
    <3> QED
      BY <1>0, <2>2, <3>1 DEF Recorded, sockVars
  <2>4. StoppedClean'
    BY <1>0, <1>2 DEF TakeSpecs, Phase, StoppedClean, upVars, listenVars
  <2> QED
    BY <2>1, <2>3, <2>4 DEF ServerInv
<1>3. CASE RefuseStart
  <2>1. Phase'
    BY <1>0, <1>3 DEF RefuseStart, Phase, BootPc, upVars, mainVars, listenVars
  <2>2. Recorded' /\ StoppedClean'
    BY <1>0, <1>3 DEF RefuseStart, Phase, Recorded, StoppedClean, sockVars, upVars, listenVars
  <2> QED
    BY <2>1, <2>2 DEF ServerInv
<1>4. CASE BindApi \/ BindUpload \/ BindUploadOverruns
  <2>1. PICK r, spec : r \in Role /\ Bind(r, spec)
    BY <1>4 DEF BindApi, BindUpload, BindUploadOverruns, Role
  <2>2. bpc \in {"api", "upload"} /\ bpc' \in {"upload", "register", "overrun"} /\ UNCHANGED <<args, upVars>>
    BY <1>4 DEF BindApi, BindUpload, BindUploadOverruns
  <2>3. Recorded'
    BY <1>0, <2>1, <2>2, BindStep
  <2>4. Phase' /\ StoppedClean'
    BY <1>0, <2>2 DEF Phase, BootPc, StoppedClean, upVars, mainVars, listenVars
  <2> QED
    BY <2>3, <2>4 DEF ServerInv
<1>5. CASE BindApiFails
  <2>1. /\ bpc = "api" /\ bpc' = "refused" /\ UNCHANGED <<args, upVars, active, open, mine>>
        /\ files' = files \/ files' = [files EXCEPT !["api"] = "none"]
    BY <1>5 DEF BindApiFails, FilesAfterFailure
  <2>2. active = {} /\ mine = {} /\ open = {}
    BY <1>0, <2>1 DEF Recorded
  <2>3. \A r \in Role : files[r] # "ours" /\ files[r] # "systemd"
    BY <1>0, <2>1, <2>2 DEF Recorded
  <2>4. files' \in [Role -> {"none", "stale", "ours", "systemd"}]
        /\ \A r \in Role : files'[r] # "ours" /\ files'[r] # "systemd"
    BY <1>0, <2>1, <2>3 DEF Recorded
  <2>5. Phase'
    BY <1>0, <2>1 DEF Phase, BootPc, upVars, mainVars, listenVars
  <2>6. Recorded' /\ StoppedClean'
    BY <1>0, <2>1, <2>2, <2>4 DEF Phase, Recorded, StoppedClean, upVars, listenVars
  <2> QED
    BY <2>5, <2>6 DEF ServerInv
<1>6. CASE BindUploadFails \/ RegisterFails
  <2>1. PICK f : /\ StopListener(f)
                 /\ f = files \/ f = [files EXCEPT !["upload"] = "none"]
    BY <1>6 DEF BindUploadFails, RegisterFails, FilesAfterFailure
  <2>2. bpc \in {"upload", "register"} /\ bpc' = "refused" /\ UNCHANGED <<args, upVars>>
    BY <1>6 DEF BindUploadFails, RegisterFails
  <2>3. /\ f \in [Role -> {"none", "stale", "ours", "systemd"}]
        /\ \A r \in Role : f[r] = "ours" => files[r] = "ours"
        /\ \A r \in Role : f[r] = "systemd" => files[r] = "systemd"
    BY <1>0, <2>1 DEF Recorded
  <2>4. Recorded' /\ active' = {} /\ mine' = {} /\ open' = {} /\ \A r \in Role : files'[r] # "ours"
    BY <1>0, <2>1, <2>2, <2>3, StopStep
  <2>5. Phase' /\ StoppedClean'
    BY <1>0, <2>2, <2>4 DEF Phase, BootPc, StoppedClean, upVars, mainVars, listenVars
  <2> QED
    BY <2>4, <2>5 DEF ServerInv
<1>7. CASE Register \/ InstallSignals \/ InitWorkers \/ InitFails \/ PoolInitFails
  <2>1. /\ UNCHANGED <<args, active, open, mine, files, upVars>>
        /\ bpc \in {"register", "signals", "workers", "pool"}
        /\ bpc' \in {"signals", "workers", "pool", "plain", "failed"}
        /\ bpc' = "pool" => UploadSockets # {}
        /\ bpc' = "plain" => bpc = "workers" /\ UploadSockets = {}
        /\ bpc = "pool" => bpc' = "failed"
    BY <1>7 DEF Register, InstallSignals, InitWorkers, InitFails, PoolInitFails, sockVars
  <2>2. Phase'
    BY <1>0, <2>1 DEF Phase, BootPc, UploadSockets, upVars, mainVars, listenVars
  <2>3. Recorded' /\ StoppedClean'
    BY <1>0, <2>1 DEF Phase, Recorded, StoppedClean, upVars, listenVars
  <2> QED
    BY <2>2, <2>3 DEF ServerInv
<1>8. CASE PoolInit
  <2>1. bpc = "pool" /\ UNCHANGED <<srvVars, dpc>>
    BY <1>8 DEF PoolInit, CreateWorker, CreateWorkerFails, Shutdown, JoinWorker, DestroyPool, listenVars
  <2> QED
    BY <2>1, FrameStep DEF srvVars
<1>9. CASE RunServer
  <2>1. /\ bpc = "pool" /\ bpc' = "serve" /\ UNCHANGED <<args, sockVars>>
        /\ mpc' = "serve" /\ dpc' = "accept" /\ nWorkers = NWorkers /\ nWorkers' = nWorkers
    BY <1>9 DEF RunServer, StartListener
  <2>2. Phase'
    BY <1>0, <2>1 DEF Phase, BootPc, UploadSockets, sockVars
  <2>3. Recorded' /\ StoppedClean'
    BY <1>0, <2>1 DEF Recorded, StoppedClean, sockVars
  <2> QED
    BY <2>2, <2>3 DEF ServerInv
<1>10. CASE EndServer
  <2>1. bpc = "serve" /\ UNCHANGED <<srvVars, dpc>> /\ (mpc = "serve" => dpc = "done")
    BY <1>10 DEF EndServer, JoinUploadListener, Shutdown, JoinWorker, DestroyPool, listenVars
  <2>2. dpc = "done"
    BY <1>0, <2>1 DEF Phase
  <2> QED
    BY <2>1, <2>2, FrameStep DEF srvVars
<1>11. CASE Sigterm \/ HearStop \/ AcceptsNothing \/ ServerEnded \/ UNCHANGED allVars
  <2>1. UNCHANGED <<args, bpc, sockVars, dpc, mpc, nWorkers>>
    BY <1>11 DEF Sigterm, HearStop, AcceptsNothing, ServerEnded, allVars, srvVars, upVars, listenVars, mainVars
  <2> QED
    BY <1>0, <2>1, FrameStep DEF Phase
<1>12. CASE ListenerStops
  <2>1. bpc \in {"serve", "plain"} /\ StopListener(files) /\ UNCHANGED args
    BY <1>12 DEF ListenerStops, ListenerIdle
  <2>2. \/ bpc = "serve" /\ bpc' = bpc /\ dpc' = "done"
        \/ bpc = "plain" /\ bpc' = "stopped" /\ UNCHANGED <<dpc, mpc, nWorkers>>
    BY <1>12, <2>1 DEF ListenerStops, ListenerReturns, upVars, listenVars, mainVars
  <2>3. Recorded' /\ active' = {} /\ mine' = {} /\ open' = {} /\ \A r \in Role : files'[r] # "ours"
    BY <1>0, <2>1, <2>2, StopStep DEF Recorded
  <2>4. Phase' /\ StoppedClean'
    BY <1>0, <2>2, <2>3 DEF Phase, BootPc, StoppedClean
  <2> QED
    BY <2>3, <2>4 DEF ServerInv
<1>13. CASE Dispatching
  <2>1. UNCHANGED <<srvVars, mpc, nWorkers>> /\ dpc \in {"dispatch", "enqueue", "reject"} /\ dpc' \notin {"off", "done"}
    BY <1>13 DEF Dispatching, DispatchStep, DispatchUpload, Enqueue, RejectUpload, mainVars
  <2> QED
    BY <1>0, <2>1, FrameStep DEF Phase, srvVars
<1>14. ASSUME NEW c \in Fd, ServeUpload(c) PROVE ServerInv'
  <2>1. /\ bpc = "serve" /\ UNCHANGED <<args, bpc, sockVars, mpc, nWorkers>>
        /\ dpc = "accept" /\ dpc' = "dispatch"
    BY <1>14 DEF ServeUpload, AcceptUpload, mainVars
  <2> QED
    BY <2>1, FrameStep
<1>15. ASSUME NEW w \in Workers, Working(w) \/ (SpuriousWakeup(w) /\ UNCHANGED srvVars) PROVE ServerInv'
  <2>1. UNCHANGED <<srvVars, dpc, mpc, nWorkers>>
    BY <1>15 DEF Working, WorkerStep, WorkerInit, TakeUpload, DriveEnds, SpuriousWakeup, listenVars, mainVars
  <2> QED
    BY <1>0, <2>1, FrameStep DEF Phase, srvVars
<1> QED
  BY <1>1, <1>2, <1>3, <1>4, <1>5, <1>6, <1>7, <1>8, <1>9, <1>10, <1>11, <1>12, <1>13, <1>14, <1>15
     DEF ServerNext, Boot, ListenerBoot

LEMMA ServerInvariant == ServerSpec => []ServerInv
<1> QED
  BY ServerInitInv, ServerInvStep, PTL DEF ServerSpec

\* Whatever could be bound, the listener serves an upload socket exactly if all upload workers were created.
THEOREM IsolationMatchesHolds == ServerSpec => []IsolationMatches
<1>1. ServerInv => IsolationMatches
  BY UploadAssumption DEF ServerInv, Phase, IsolationMatches, ListenerUp
<1> QED
  BY <1>1, ServerInvariant, PTL

\* A listener that failed to start or has returned leaves no socket open and no socket file of its own.
THEOREM StoppedCleanHolds == ServerSpec => []StoppedClean
<1>1. ServerInv => StoppedClean
  BY DEF ServerInv
<1> QED
  BY <1>1, ServerInvariant, PTL

\* No step of the server removes or replaces a socket file that systemd owns.
THEOREM SystemdKeepsFilesHolds == ServerSpec => SystemdKeepsFiles
<1>1. ServerInv /\ [ServerNext]_allVars => [\A r \in Role : files[r] = "systemd" => files'[r] = "systemd"]_allVars
  <2> SUFFICES ASSUME ServerInv, ServerNext, NEW r \in Role, files[r] = "systemd"
               PROVE  files'[r] = "systemd"
    OBVIOUS
  <2>0. r \notin mine /\ args.activated /\ files \in [Role -> {"none", "stale", "ours", "systemd"}]
    BY DEF ServerInv, Recorded
  <2>1. bpc \notin {"api", "upload"}
    BY <2>0 DEF ServerInv, Recorded
  <2>2. CASE Boot
    <3>1. files' = files \/ RegisterFails
      BY <2>1, <2>2 DEF Boot, ListenerBoot, AdoptInherited, TakeSpecs, RefuseStart, BindApi, BindApiFails,
                        BindUpload, BindUploadOverruns, BindUploadFails, Register, InstallSignals, InitWorkers, InitFails, PoolInit,
                        PoolInitFails, RunServer, EndServer, srvVars, sockVars
    <3>2. CASE RegisterFails
      BY <2>0, <3>2 DEF RegisterFails, StopListener
    <3> QED
      BY <3>1, <3>2
  <2>3. CASE ListenerStops
    BY <2>0, <2>3 DEF ListenerStops, StopListener
  <2>4. CASE ~Boot /\ ~ListenerStops
    <3>1. files' = files
      BY <2>4 DEF ServerNext, Sigterm, HearStop, AcceptsNothing, Dispatching, ServeUpload, Working, ServerEnded,
                  allVars, srvVars, sockVars
    <3> QED
      BY <3>1
  <2> QED
    BY <2>2, <2>3, <2>4
<1> QED
  BY <1>1, ServerInvariant, PTL DEF ServerSpec, SystemdKeepsFiles

(***************************************************************************)
(* Types, and the room in the array of listening sockets.                  *)
(***************************************************************************)
\* A host name has one socket of a role for each of its addresses.
LEMMA SocketsOfAddrs ==
    ASSUME NEW r
    PROVE  /\ IsFiniteSet([role : {r}, at : Addrs])
           /\ Cardinality([role : {r}, at : Addrs]) \in Nat
           /\ Cardinality([role : {r}, at : Addrs]) <= Cardinality(Addrs)
<1> DEFINE T == [role : {r}, at : Addrs]
           f == [a \in Addrs |-> [role |-> r, at |-> a]]
<1>1. f \in Surjection(Addrs, T)
  BY DEF Surjection
<1>2. IsFiniteSet(T) /\ Cardinality(T) <= Cardinality(Addrs)
  <2> HIDE DEF f, T
  <2> QED
    BY <1>1, FS_Surjection, ServerAssumption
<1>3. Cardinality(T) \in Nat
  BY <1>2, FS_CardinalityType
<1> QED
  BY <1>2, <1>3

\* What binding the api sockets can have left when the upload socket is to be bound.
ApiSockets == IF args.api = "unix" THEN {PathOf("api")} ELSE [role : {"api"}, at : Addrs]

\* The array has room, or it is overrun as PathAfterFullTcp says.  While a socket is to be bound the array holds
\* no more than it has places, and only sockets of the api specification.
Room ==
    /\ args \in Launches
    /\ active \subseteq Socket /\ IsFiniteSet(active) /\ (SocketsFitArray \/ PathAfterFullTcp)
    /\ bpc = "init" => open \subseteq {PathOf("api"), PathOf("upload")}
    /\ bpc \in {"api", "upload"} => args.api # "none"
    /\ bpc = "upload" => active \subseteq ApiSockets
    /\ mine \subseteq Role
    /\ status \in {"INACTIVE", "ACTIVE", "SHUTDOWN"} /\ stop \in {"default", "armed", "sent"}
    /\ late \subseteq Socket

LEMMA RoomInit == ServerInit => Room
<1> SUFFICES ASSUME ServerInit PROVE Room
  OBVIOUS
<1>1. open \subseteq {PathOf("api"), PathOf("upload")}
  BY DEF ServerInit, Role
<1> QED
  BY <1>1, FS_EmptySet, ServerAssumption DEF ServerInit, Room, SocketsFitArray

\* What is bound for a specification: one socket at a path, or TCP sockets as far as the array reaches.
LEMMA BindableSize ==
    ASSUME IsFiniteSet(active), NEW r \in Role, NEW spec, NEW S \in Bindable(r, spec)
    PROVE  /\ S \subseteq Socket /\ IsFiniteSet(S) /\ Cardinality(S) \in Nat
           /\ IsFiniteSet(active \cup S) /\ Cardinality(active \cup S) \in Nat
           /\ Cardinality(active \cup S) <= Cardinality(active) + Cardinality(S)
           /\ spec = "unix" => S = {PathOf(r)} /\ Cardinality(S) = 1
           /\ spec # "unix" => /\ S \subseteq [role : {r}, at : Addrs]
                               /\ Cardinality(active) + Cardinality(S) <= MaxListeningSockets
<1>1. CASE spec = "unix"
  <2>1. S = {PathOf(r)}
    BY <1>1 DEF Bindable
  <2>2. IsFiniteSet(S) /\ Cardinality(S) = 1
    BY <2>1, FS_Singleton
  <2>3. S \subseteq Socket
    BY <2>1 DEF PathOf, Socket
  <2>4. /\ IsFiniteSet(active \cup S)
        /\ Cardinality(active \cup S) \in {Cardinality(active), Cardinality(active) + 1}
    BY <2>1, FS_AddElement
  <2>5. Cardinality(active) \in Nat
    BY FS_CardinalityType
  <2> QED
    BY <1>1, <2>1, <2>2, <2>3, <2>4, <2>5
<1>2. CASE spec # "unix"
  <2>1. S \in SUBSET [role : {r}, at : Addrs] /\ Cardinality(active) + Cardinality(S) <= MaxListeningSockets
    BY <1>2 DEF Bindable
  <2>2. IsFiniteSet(S)
    BY <2>1, SocketsOfAddrs, FS_Subset
  <2>3. Cardinality(S) \in Nat /\ Cardinality(active) \in Nat
    BY <2>2, FS_CardinalityType
  <2>4. S \subseteq Socket
    BY <2>1 DEF Socket
  <2>5. /\ IsFiniteSet(active \cup S) /\ IsFiniteSet(active \cap S)
        /\ Cardinality(active \cup S) = Cardinality(active) + Cardinality(S) - Cardinality(active \cap S)
    BY <2>2, FS_Union, FS_Intersection, Zenon
  <2>6. Cardinality(active \cup S) \in Nat /\ Cardinality(active \cap S) \in Nat
    BY <2>5, FS_CardinalityType
  <2> QED
    BY <1>2, <2>1, <2>2, <2>3, <2>4, <2>5, <2>6
<1> QED
  BY <1>1, <1>2

\* The api sockets fit: the array is empty before, and has two places at least.
LEMMA RoomBindApi == ServerInv /\ Room /\ BindApi => Room'
<1> SUFFICES ASSUME ServerInv, Room, BindApi PROVE Room'
  OBVIOUS
<1>1. /\ bpc = "api" /\ bpc' \in {"upload", "register"} /\ UNCHANGED <<args, status, stop, late>>
      /\ args.api # "none"
  BY DEF BindApi, Room
<1>2. PICK S \in Bindable("api", args.api) :
         active' = active \cup S /\ mine' \in {mine, mine \cup {"api"}}
  BY DEF BindApi, Bind
<1>3. active = {} /\ Cardinality(active) = 0 /\ IsFiniteSet(active) /\ active' = S
  BY <1>1, <1>2, FS_EmptySet DEF ServerInv, Recorded
<1>4. /\ S \subseteq Socket /\ IsFiniteSet(S) /\ Cardinality(S) \in Nat
      /\ args.api = "unix" => S = {PathOf("api")} /\ Cardinality(S) = 1
      /\ args.api # "unix" => S \subseteq [role : {"api"}, at : Addrs] /\ 0 + Cardinality(S) <= MaxListeningSockets
  BY <1>3, BindableSize DEF Role
<1>5. SocketsFitArray'
  BY <1>3, <1>4, ServerAssumption DEF SocketsFitArray
<1>6. active' \subseteq ApiSockets'
  BY <1>1, <1>3, <1>4 DEF ApiSockets
<1> QED
  BY <1>1, <1>2, <1>3, <1>4, <1>5, <1>6 DEF Room, Role

\* The upload sockets fit, or they are one unix socket behind TCP sockets in every place of the array: one api
\* path alone does not fill it.
LEMMA RoomBindUpload == ServerInv /\ Room /\ (BindUpload \/ BindUploadOverruns) => Room'
<1> SUFFICES ASSUME ServerInv, Room, BindUpload \/ BindUploadOverruns PROVE Room'
  OBVIOUS
<1>1. /\ bpc = "upload" /\ UNCHANGED <<args, status, stop, late>>
      /\ bpc' \in {"register", "overrun"} /\ (bpc' = "register" => SocketsFitArray')
  BY DEF BindUpload, BindUploadOverruns, SocketsFitArray
<1>2. PICK S \in Bindable("upload", args.upload) :
         active' = active \cup S /\ mine' \in {mine, mine \cup {"upload"}}
  BY DEF BindUpload, BindUploadOverruns, Bind
<1>3. /\ IsFiniteSet(active) /\ Cardinality(active) \in Nat /\ Cardinality(active) <= MaxListeningSockets
      /\ active \subseteq ApiSockets /\ args.api # "none" /\ args \in Launch
  BY <1>1, FS_CardinalityType, ServerAssumption DEF Room, SocketsFitArray, PathAfterFullTcp
<1>4. /\ S \subseteq Socket /\ IsFiniteSet(active') /\ Cardinality(active') \in Nat
      /\ Cardinality(S) \in Nat /\ Cardinality(active') <= Cardinality(active) + Cardinality(S)
      /\ args.upload = "unix" => Cardinality(S) = 1
      /\ args.upload # "unix" => Cardinality(active) + Cardinality(S) <= MaxListeningSockets
  BY <1>2, <1>3, BindableSize DEF Role
<1>5. ASSUME ~SocketsFitArray' PROVE PathAfterFullTcp'
  <2>1. /\ args.upload = "unix" /\ Cardinality(active) = MaxListeningSockets
        /\ Cardinality(active') = MaxListeningSockets + 1
    BY <1>3, <1>4, <1>5, ServerAssumption DEF SocketsFitArray
  <2>2. args.api = "tcp"
    <3>1. CASE args.api = "unix"
      <4>1. IsFiniteSet({PathOf("api")}) /\ Cardinality({PathOf("api")}) = 1
        BY FS_Singleton
      <4>2. active \subseteq {PathOf("api")}
        BY <1>3, <3>1 DEF ApiSockets
      <4>3. Cardinality(active) <= 1
        BY <4>1, <4>2, FS_Subset
      <4> QED
        BY <2>1, <4>3, ServerAssumption
    <3> QED
      BY <1>3, <3>1 DEF Launch, SocketSpec
  <2>3. Cardinality(Addrs) >= MaxListeningSockets
    <3> DEFINE T == [role : {"api"}, at : Addrs]
    <3>1. IsFiniteSet(T) /\ Cardinality(T) \in Nat /\ Cardinality(T) <= Cardinality(Addrs)
      BY SocketsOfAddrs
    <3>2. active \subseteq T
      BY <1>3, <2>2 DEF ApiSockets
    <3>3. Cardinality(active) <= Cardinality(T)
      BY <3>1, <3>2, FS_Subset
    <3>4. Cardinality(Addrs) \in Nat
      BY FS_CardinalityType, ServerAssumption
    <3> HIDE DEF T
    <3> QED
      BY <2>1, <3>1, <3>3, <3>4, ServerAssumption
  <2> QED
    BY <1>1, <1>5, <2>1, <2>2, <2>3 DEF PathAfterFullTcp
<1> QED
  BY <1>1, <1>2, <1>3, <1>4, <1>5 DEF Room, Role

LEMMA RoomStep == ServerInv /\ Room /\ [ServerNext]_allVars => Room'
<1> SUFFICES ASSUME ServerInv, Room, [ServerNext]_allVars PROVE Room'
  OBVIOUS
<1>1. CASE AdoptInherited
  <2> DEFINE P == {PathOf("api"), PathOf("upload")}
  <2>1. IsFiniteSet(P) /\ Cardinality(P) <= 2
    <3>1. IsFiniteSet({PathOf("api")}) /\ Cardinality({PathOf("api")}) = 1
      BY FS_Singleton
    <3>2. P = {PathOf("api")} \cup {PathOf("upload")}
      OBVIOUS
    <3> QED
      BY <3>1, <3>2, FS_AddElement
  <2>2. active' = open /\ open \subseteq P /\ bpc' = "register" /\ UNCHANGED <<args, mine, status, stop, late>>
    BY <1>1 DEF AdoptInherited, Room
  <2>3. IsFiniteSet(active') /\ Cardinality(active') <= Cardinality(P)
    BY <2>1, <2>2, FS_Subset
  <2>4. Cardinality(active') \in Nat /\ Cardinality(P) \in Nat
    BY <2>1, <2>3, FS_CardinalityType
  <2>5. active' \subseteq Socket
    BY <2>2 DEF PathOf, Socket, Role
  <2> QED
    BY <2>1, <2>2, <2>3, <2>4, <2>5, ServerAssumption DEF Room, SocketsFitArray
<1>2. CASE BindApi
  BY <1>2, RoomBindApi
<1>3. CASE BindUpload \/ BindUploadOverruns
  BY <1>3, RoomBindUpload
<1>4. CASE BindUploadFails \/ RegisterFails \/ ListenerStops
  <2>1. /\ active' = {} /\ mine' = {} /\ stop' = "default" /\ UNCHANGED <<args, status, late>>
        /\ bpc' \notin {"init", "api", "upload"}
    BY <1>4 DEF BindUploadFails, RegisterFails, ListenerStops, ListenerIdle, StopListener
  <2> QED
    BY <2>1, FS_EmptySet, ServerAssumption DEF Room, SocketsFitArray
<1>5. CASE HearStop
  <2>1. UNCHANGED <<args, bpc, active, open, mine>> /\ stop' = "armed" /\ status' = "SHUTDOWN"
    BY <1>5 DEF HearStop, sockVars
  <2>2. late' \subseteq Socket
    <3>1. UploadSockets \subseteq active
      BY DEF UploadSockets
    <3>2. active \subseteq Socket /\ late' \in SUBSET UploadSockets
      BY <1>5 DEF HearStop, Room
    <3> QED
      BY <3>1, <3>2
  <2> QED
    BY <2>1, <2>2 DEF Room, SocketsFitArray, PathAfterFullTcp, ApiSockets
<1>6. CASE \/ TakeSpecs \/ RefuseStart \/ BindApiFails \/ Register \/ InstallSignals \/ InitWorkers \/ InitFails
           \/ PoolInit \/ PoolInitFails \/ RunServer \/ EndServer \/ Sigterm \/ AcceptsNothing \/ Dispatching
           \/ (\E c \in Fd : ServeUpload(c))
           \/ (\E w \in Workers : Working(w) \/ (SpuriousWakeup(w) /\ UNCHANGED srvVars))
           \/ ServerEnded \/ UNCHANGED allVars
  <2>1. /\ UNCHANGED <<args, active, mine>>
        /\ status' \in {status, "ACTIVE"} /\ stop' \in {stop, "armed", "default", "sent"} /\ late' \subseteq late
        /\ \/ bpc' = bpc /\ open' = open
           \/ bpc' \notin {"init", "upload"} /\ (bpc' = "api" => args.api # "none") /\ bpc # "overrun"
    <3>1. CASE TakeSpecs \/ RefuseStart \/ BindApiFails \/ Register \/ InstallSignals
      BY <3>1 DEF TakeSpecs, RefuseStart, BindApiFails, Register, InstallSignals, sockVars
    <3>2. CASE InitWorkers \/ InitFails \/ PoolInit \/ PoolInitFails \/ RunServer \/ EndServer
      BY <3>2 DEF InitWorkers, InitFails, PoolInit, PoolInitFails, RunServer, EndServer, srvVars, sockVars
    <3>3. CASE Sigterm \/ AcceptsNothing \/ Dispatching \/ (\E c \in Fd : ServeUpload(c))
      BY <3>3 DEF Sigterm, AcceptsNothing, Dispatching, ServeUpload, srvVars, sockVars
    <3>4. CASE \/ \E w \in Workers : Working(w) \/ (SpuriousWakeup(w) /\ UNCHANGED srvVars)
               \/ ServerEnded \/ UNCHANGED allVars
      BY <3>4 DEF Working, ServerEnded, allVars, srvVars, sockVars
    <3> QED
      BY <1>6, <3>1, <3>2, <3>3, <3>4
  <2>2. SocketsFitArray' \/ PathAfterFullTcp'
    BY <2>1 DEF Room, SocketsFitArray, PathAfterFullTcp
  <2> QED
    BY <2>1, <2>2 DEF Room, ApiSockets
<1> QED
  BY <1>1, <1>2, <1>3, <1>4, <1>5, <1>6 DEF ServerNext, Boot, ListenerBoot

\* Every variable has its type, and however the server is started and whatever can be bound on however many
\* addresses, the listening sockets fit their arrays, unless a unix upload path follows TCP api sockets that fill
\* them: then, and only then, one socket is stored behind their end.
THEOREM ServerTypeOKHolds == ServerSpec => []ServerTypeOK
<1>1. ServerInv /\ Room => ServerTypeOK
  BY ServerAssumption DEF ServerInv, Phase, Recorded, Room, ServerTypeOK
<1> QED
  BY <1>1, RoomInit, RoomStep, ServerInvariant, PTL DEF ServerSpec
=============================================================================
