------------------------------- MODULE Server -------------------------------
(***************************************************************************)
(* server_init and server_run around the upload side: how the listener     *)
(* gets its sockets (bound from the arguments, or inherited from systemd), *)
(* how core.c learns from it whether there is an upload pool to start, and *)
(* how the stop signal ends the listener thread.  The pool itself and the  *)
(* handling of an accepted connection are UploadPool's actions.            *)
(*                                                                         *)
(* Left out: SIGKILL and a SIGTERM while no handler is installed (both end *)
(* the process at once; the socket files a killed server leaves behind are *)
(* among the initial states), and the signal handler's own two steps.      *)
(***************************************************************************)
EXTENDS UploadPool

CONSTANTS
    Addrs,                \* what getaddrinfo returns for DB_SERVER_BIND
    MaxListeningSockets,  \* SERVER_CORE_MAX_LISTENING_SOCKETS
    Launches              \* the ways the server is started

Role == {"api", "upload"}
SocketSpec == {"none", "unix", "tcp"}
Launch == [activated : BOOLEAN, api : SocketSpec, upload : SocketSpec]

\* The socket of a unix path is at "path".
Socket == [role : Role, at : Addrs \cup {"path"}]
PathOf(r) == [role |-> r, at |-> "path"]

\* systemd passes AF_UNIX sockets only.
ASSUME ServerAssumption ==
    /\ "path" \notin Addrs /\ IsFiniteSet(Addrs)
    /\ MaxListeningSockets \in Nat /\ MaxListeningSockets >= 2
    /\ Launches \subseteq Launch
    /\ \A l \in Launches : l.activated => "tcp" \notin {l.api, l.upload}

VARIABLES
    args,    \* server_init's arguments and activation environment
    bpc,     \* where the boot thread is
    active,  \* _listener.sockets_fds with socket_is_upload, up to active_sockets_no
    open,    \* the listening sockets the process holds
    mine,    \* _listener.unix_paths
    files,   \* the socket files on disk
    status,  \* _listener.status
    stop,    \* the signal handlers and _shutdown_efd
    late     \* upload sockets whose event comes after the stop event in the listener's batch

sockVars == <<active, open, mine, files>>
srvVars  == <<args, bpc, sockVars, status, stop, late>>
allVars  == <<upVars, srvVars>>

\* init, api, upload, register, signals (the listener's initialisation); workers (worker_init, slot sizing,
\* db_app_init); pool (upload_workers_init); serve, plain (server_run with and without a pool); stopped (plain,
\* after the listener has returned); refused, failed (server_init failed, by the listener or after it); overrun
\* (a socket was stored past the arrays of listening sockets: what the process does next is not defined, and
\* not followed)
BootPc == {"init", "api", "upload", "register", "signals", "workers", "pool", "serve", "plain", "stopped",
           "refused", "failed", "overrun"}

UploadSockets == {s \in active : s.role = "upload"}
ListenerUp    == bpc = "plain" \/ (bpc = "serve" /\ dpc # "done")
ListenerIdle  == bpc = "plain" \/ (bpc = "serve" /\ dpc = "accept")

\* A socket file is systemd's for an inherited socket, else one a killed server may have left.
ServerInit ==
    /\ UpInit
    /\ args \in Launches /\ bpc = "init"
    /\ active = {} /\ mine = {}
    /\ open = IF args.activated THEN {PathOf(r) : r \in {x \in Role : args[x] = "unix"}} ELSE {}
    /\ files \in [Role -> {"none", "stale", "systemd"}]
    /\ \A r \in Role : files[r] = "systemd" <=> args.activated /\ args[r] = "unix"
    /\ \A r \in Role : files[r] = "stale" => args[r] = "unix"
    /\ status = "INACTIVE" /\ stop = "default" /\ late = {}

(***************************************************************************)
(* listener.c.                                                             *)
(***************************************************************************)
\* _stop_listener: handlers, eventfd, sockets and our own socket files, where f is what the disk held.
StopListener(f) ==
    /\ open' = open \ active /\ active' = {}
    /\ files' = [r \in Role |-> IF r \in mine THEN "none" ELSE f[r]]
    /\ mine' = {}
    /\ stop' = "default"

\* Mutant: an inherited socket's path is recorded, and unlinked in the end.
AdoptInheritedRecorded ==
    /\ bpc = "init" /\ args.activated /\ args.api = "unix"
    /\ active' = open /\ mine' = {s.role : s \in open} /\ bpc' = "register"
    /\ UNCHANGED <<upVars, args, open, files, status, stop, late>>

\* sd_take_listen_fds finds an api socket; listener_init_activated.
AdoptInherited ==
    /\ bpc = "init" /\ args.activated /\ args.api = "unix"
    /\ active' = open /\ bpc' = "register"
    /\ UNCHANGED <<upVars, args, open, mine, files, status, stop, late>>

\* listener_init takes the specs given as arguments.
TakeSpecs ==
    /\ bpc = "init" /\ ~args.activated /\ args.api # "none"
    /\ bpc' = "api"
    /\ UNCHANGED <<upVars, args, sockVars, status, stop, late>>

\* Malformed activation environment, no api socket, no spec, or no epoll instance.
RefuseStart ==
    /\ bpc = "init"
    /\ bpc' = "refused"
    /\ UNCHANGED <<upVars, args, sockVars, status, stop, late>>

\* Mutant: the array's size is not tested.
BindableUnchecked(r, spec) ==
    IF spec = "unix" THEN {{PathOf(r)}}
    ELSE {S \in SUBSET [role : {r}, at : Addrs] : active \cup S # {}}

\* The sets of sockets _init_listening_sockets may bind when it succeeds: a TCP port is bound on the addresses
\* where that works, as far as the array reaches, and the result is success if there is any socket by then.
\* _init_unix_socket does not look at the array's size.
Bindable(r, spec) ==
    IF spec = "unix" THEN {{PathOf(r)}}
    ELSE {S \in SUBSET [role : {r}, at : Addrs] :
            active \cup S # {} /\ Cardinality(active) + Cardinality(S) <= MaxListeningSockets}

Bind(r, spec) ==
    \E S \in Bindable(r, spec) :
        /\ open' = open \cup S /\ active' = active \cup S
        /\ mine'  = IF spec = "unix" THEN mine \cup {r} ELSE mine
        /\ files' = IF spec = "unix" THEN [files EXCEPT ![r] = "ours"] ELSE files

\* What a failing _init_unix_socket leaves of the file at its path.
FilesAfterFailure(r, spec) == IF spec = "unix" THEN {files, [files EXCEPT ![r] = "none"]} ELSE {files}

BindApi ==
    /\ bpc = "api"
    /\ Bind("api", args.api)
    /\ bpc' = IF args.upload = "none" THEN "register" ELSE "upload"
    /\ UNCHANGED <<upVars, args, status, stop, late>>

BindApiFails ==
    /\ bpc = "api"
    /\ files' \in FilesAfterFailure("api", args.api)
    /\ bpc' = "refused"
    /\ UNCHANGED <<upVars, args, active, open, mine, status, stop, late>>

BindUpload ==
    /\ bpc = "upload"
    /\ Bind("upload", args.upload)
    /\ Cardinality(active') <= MaxListeningSockets
    /\ bpc' = "register"
    /\ UNCHANGED <<upVars, args, status, stop, late>>

\* The same when the socket is stored behind the end of the arrays.
BindUploadOverruns ==
    /\ bpc = "upload"
    /\ Bind("upload", args.upload)
    /\ Cardinality(active') > MaxListeningSockets
    /\ bpc' = "overrun"
    /\ UNCHANGED <<upVars, args, status, stop, late>>

\* Mutant: a failing upload socket leaves the api sockets as they are.
BindUploadFailsOpen ==
    /\ bpc = "upload"
    /\ files' \in FilesAfterFailure("upload", args.upload)
    /\ bpc' = "refused"
    /\ UNCHANGED <<upVars, args, active, open, mine, status, stop, late>>

BindUploadFails ==
    /\ bpc = "upload"
    /\ \E f \in FilesAfterFailure("upload", args.upload) : StopListener(f)
    /\ bpc' = "refused"
    /\ UNCHANGED <<upVars, args, status, late>>

\* _register_listening_sockets.
Register ==
    /\ bpc = "register"
    /\ bpc' = "signals"
    /\ UNCHANGED <<upVars, args, sockVars, status, stop, late>>

RegisterFails ==
    /\ bpc = "register"
    /\ StopListener(files)
    /\ bpc' = "refused"
    /\ UNCHANGED <<upVars, args, status, late>>

\* _install_shutdown_signal_handler, which may fail without failing the server.
InstallSignals ==
    /\ bpc = "signals"
    /\ stop' \in {"armed", "default"}
    /\ status' = "ACTIVE"
    /\ bpc' = "workers"
    /\ UNCHANGED <<upVars, args, sockVars, late>>

\* _sigterm_handler, in any thread and at any time from then on.
Sigterm ==
    /\ stop = "armed"
    /\ stop' = "sent"
    /\ UNCHANGED <<upVars, args, bpc, sockVars, status, late>>

\* Mutant: the event is drained and the listener goes on.
HearStopIgnored ==
    /\ ListenerIdle /\ stop = "sent" /\ status = "ACTIVE"
    /\ stop' = "armed" /\ late' = {}
    /\ UNCHANGED <<upVars, args, bpc, sockVars, status>>

\* _handle_shutdown_event.  The listener looks at its status only when the batch is done.
HearStop ==
    /\ ListenerIdle /\ stop = "sent" /\ status = "ACTIVE"
    /\ stop' = "armed" /\ status' = "SHUTDOWN"
    /\ late' \in SUBSET UploadSockets
    /\ UNCHANGED <<upVars, args, bpc, sockVars>>

\* _handle_upload_listen_event with a connection, and without one (EAGAIN, EMFILE, an error).
ServeUpload(c) ==
    /\ bpc = "serve"
    /\ IF status = "ACTIVE" THEN UploadSockets # {} /\ UNCHANGED late
                            ELSE \E s \in late : late' = late \ {s}
    /\ AcceptUpload(c)
    /\ UNCHANGED <<args, bpc, sockVars, status, stop>>

AcceptsNothing ==
    /\ ListenerIdle
    /\ \E s \in late : late' = late \ {s}
    /\ UNCHANGED <<upVars, args, bpc, sockVars, status, stop>>

\* listener_run leaves its loop; a failing reactor_run alone does not end it.
ListenerStops ==
    /\ ListenerIdle /\ status = "SHUTDOWN" /\ late = {}
    /\ StopListener(files)
    /\ IF bpc = "serve" THEN ListenerReturns /\ UNCHANGED bpc
                        ELSE bpc' = "stopped" /\ UNCHANGED upVars
    /\ UNCHANGED <<args, status, late>>

(***************************************************************************)
(* core.c.                                                                 *)
(***************************************************************************)
\* Mutant: the pool is sized from the arguments.
InitWorkersFromArgs ==
    /\ bpc = "workers"
    /\ bpc' = IF args.upload # "none" THEN "pool" ELSE "plain"
    /\ UNCHANGED <<upVars, args, sockVars, status, stop, late>>

\* worker_init, the slots and db_app_init; listener_upload_active decides about the pool.  Without one
\* server_init returns and server_run starts the listener thread.
InitWorkers ==
    /\ bpc = "workers"
    /\ bpc' = IF UploadSockets # {} THEN "pool" ELSE "plain"
    /\ UNCHANGED <<upVars, args, sockVars, status, stop, late>>

\* One of them fails, or the pool's mutex does: server_init returns and leaves the listener as it is.
InitFails ==
    /\ bpc = "workers" \/ (bpc = "pool" /\ mpc = "create" /\ nWorkers = 0)
    /\ bpc' = "failed"
    /\ UNCHANGED <<upVars, args, sockVars, status, stop, late>>

PoolInit ==
    /\ bpc = "pool"
    /\ CreateWorker \/ CreateWorkerFails \/ Shutdown \/ JoinWorker \/ DestroyPool
    /\ UNCHANGED srvVars

PoolInitFails ==
    /\ bpc = "pool" /\ mpc = "done"
    /\ bpc' = "failed"
    /\ UNCHANGED <<upVars, args, sockVars, status, stop, late>>

\* upload_workers_init has returned, and so does server_init; server_run.
RunServer ==
    /\ bpc = "pool"
    /\ StartListener
    /\ bpc' = "serve"
    /\ UNCHANGED <<args, sockVars, status, stop, late>>

\* Mutant: the pool is shut down before the listener is joined.
EndServerEarly ==
    /\ bpc = "serve"
    /\ \/ mpc = "serve" /\ mpc' = "join" /\ running' = FALSE
          /\ UNCHANGED <<uqVars, workerVars, listenVars, nWorkers, joinIdx, closed>>
       \/ JoinWorker \/ DestroyPool
    /\ UNCHANGED srvVars

\* The end of server_run.
EndServer ==
    /\ bpc = "serve"
    /\ JoinUploadListener \/ Shutdown \/ JoinWorker \/ DestroyPool
    /\ UNCHANGED srvVars

ListenerBoot ==
    \/ AdoptInherited \/ TakeSpecs \/ RefuseStart \/ BindApi \/ BindApiFails \/ BindUpload
    \/ BindUploadOverruns \/ BindUploadFails \/ Register \/ RegisterFails \/ InstallSignals

Boot == ListenerBoot \/ InitWorkers \/ InitFails \/ PoolInit \/ PoolInitFails \/ RunServer \/ EndServer

Dispatching == DispatchStep /\ UNCHANGED srvVars
Working(w)  == WorkerStep(w) /\ UNCHANGED srvVars

\* The process has ended or is not followed further, or its listener waits for events and nothing will ever
\* stop it.
ServerEnded ==
    /\ \/ bpc \in {"refused", "failed", "stopped", "overrun"} \/ mpc = "done"
       \/ ListenerIdle /\ stop = "default"
    /\ UNCHANGED allVars

ServerNext ==
    \/ Boot \/ Sigterm \/ HearStop \/ AcceptsNothing \/ ListenerStops \/ Dispatching
    \/ \E c \in Fd : ServeUpload(c)
    \/ \E w \in Workers : Working(w) \/ (SpuriousWakeup(w) /\ UNCHANGED srvVars)
    \/ ServerEnded

ServerSpec == ServerInit /\ [][ServerNext]_allVars

\* Threads that can run do run, and an upload ends: header phase and body pump both watch an absolute deadline.
\* The eventfd stays readable until it is read, and epoll rotates its ready list,
\* so the listener hears of it however many connections arrive.  No signal has to come.
ServerFairness ==
    /\ WF_allVars(Boot) /\ WF_allVars(Dispatching)
    /\ \A w \in Workers : WF_allVars(Working(w))
    /\ SF_allVars(HearStop) /\ WF_allVars(AcceptsNothing) /\ WF_allVars(ListenerStops)

ServerFairSpec == ServerSpec /\ ServerFairness

(***************************************************************************)
(* Properties.                                                             *)
(***************************************************************************)
\* There are no more listening sockets than their arrays have places.
SocketsFitArray == Cardinality(active) <= MaxListeningSockets

\* The API port, bound on one address for each place of the array, has filled it, and the upload path comes one
\* place behind its end.
PathAfterFullTcp ==
    /\ args.api = "tcp" /\ args.upload = "unix" /\ bpc = "overrun"
    /\ Cardinality(Addrs) >= MaxListeningSockets /\ Cardinality(active) = MaxListeningSockets + 1

\* Types, and _init_listening_sockets writes past the arrays of listening sockets in one case only: its TCP loop
\* looks at their size, but a unix upload path does not and overruns them if a TCP port for the API has filled
\* them.  A host name with fewer addresses than places never gets there.
ServerTypeOK ==
    /\ args \in Launch /\ bpc \in BootPc
    /\ active \subseteq Socket /\ open \subseteq Socket /\ (SocketsFitArray \/ PathAfterFullTcp)
    /\ mine \subseteq Role /\ files \in [Role -> {"none", "stale", "ours", "systemd"}]
    /\ status \in {"INACTIVE", "ACTIVE", "SHUTDOWN"} /\ stop \in {"default", "armed", "sent"}
    /\ late \subseteq Socket

\* Whatever start-up came before, the boot thread, the listener and the workers do to the pool what UploadPool
\* says: what is proved of UploadPool holds of the server.
RunsThePool == UpSpec

\* While the listener runs, an upload socket is served exactly if there is a complete pool behind it: also
\* when a configured upload port could not be bound and server_init went on without it.
IsolationMatches == ListenerUp => (UploadSockets # {} <=> nWorkers = NWorkers)

\* listener.h: "On failure, all resources are cleaned up".  A listener that failed or returned holds no socket
\* and leaves no socket file of its own; only what systemd passed and it did not adopt is still open.
StoppedClean ==
    /\ bpc = "refused" \/ bpc = "stopped" \/ dpc = "done" =>
          /\ active = {} /\ mine = {}
          /\ \A r \in Role : files[r] # "ours"
          /\ \A s \in open : files[s.role] = "systemd"
    /\ bpc = "stopped" \/ dpc = "done" => open = {}

\* The backend never unlinks a socket file that systemd owns: the next start finds its sockets and their
\* backlog where they were.
SystemdKeepsFiles == [][\A r \in Role : files[r] = "systemd" => files'[r] = "systemd"]_allVars

\* A signal that arrives once the handler is installed, during the rest of start-up too, ends the listener
\* unless start-up fails, however many connections keep coming.
StopHonoured == stop = "sent" ~> ~ListenerUp /\ bpc \in {"serve", "stopped", "failed"}
=============================================================================
