------------------------------- MODULE Client -------------------------------
(***************************************************************************)
(* One client slot over the connections it serves: operator/client/        *)
(* client.c, the router, the event handler of operator.c and _drive_upload *)
(* of upload_worker.c, on top of ResponseWriter and UploadPump.            *)
(*                                                                         *)
(* The slot is private to its thread, so what interleaves with it is the   *)
(* peer (it sends, pipelines, falls silent or closes between any two       *)
(* system calls) and the kernel (short reads and writes, EAGAIN, errors).  *)
(***************************************************************************)
EXTENDS UploadPump, SequencesExt

CONSTANTS
    Scripts,    \* what a peer may send on one connection: sequences of requests
    ContentMax  \* the longest body the parser buffers, in units

\* What the peer has to send, unit by unit: [req, n] is the n-th unit of the script's request req.
StreamOf(s) ==
    FlattenSeq([r \in DOMAIN s |-> [n \in 1..(s[r].head + s[r].body) |-> [req |-> r, n |-> n]]])

ASSUME ClientAssumption ==
    /\ Scripts \subseteq Seq(Request)
    /\ UploadMax \in Nat /\ ContentMax \in Nat
    /\ Refused \in [BOOLEAN -> SUBSET Kind]

VARIABLES
    bufIdx,     \* buf_idx
    asked       \* how many requests of this connection the server has acted on

clientVars == <<respVars, pumpVars, bufIdx, asked>>

\* idle      the slot is free                 body, drain   in the upload pump's read loops
\* wait      in epoll_wait or poll            zip, z...     in the folder pump
\* read      client_handle reads              fail          its fail label
\* parse     it looks at the parser's status
\* dispatch  srv_router_dispatch              remove        the client is being dropped
\* pump      client_upload_pump               send, ret     in _try_send; a send has returned
ClientPc == {"idle", "wait", "read", "parse", "dispatch", "pump", "body", "drain", "zip", "fail", "remove", "send",
             "ret"} \cup ZipPcs
Caller == {"dispatch", "error", "claimed", "reject", "abort", "resume"}

Cleared == [i \in 1..BufLen |-> Zero]

CInit ==
    /\ managed \in BOOLEAN
    /\ conn = 0 /\ parsed = <<>> /\ policy = "none" /\ buf = Cleared /\ bufIdx = 0
    /\ draining = FALSE /\ sendOff = 0 /\ sendLen = 0
    /\ armed = "none" /\ wire = <<>> /\ asked = 0
    /\ pc = "idle" /\ total = 0 /\ caller = "resume" /\ rc = "ok"
    /\ script = <<>> /\ stream = <<>> /\ arrived = 0 /\ taken = 0 /\ peerOpen = FALSE
    /\ ticket = "none" /\ sink = <<>> /\ zip = NoZip

(***************************************************************************)
(* The peer.                                                               *)
(***************************************************************************)
PeerSends ==
    /\ pc # "idle" /\ peerOpen /\ arrived < Len(stream)
    /\ arrived' = arrived + 1
    /\ UNCHANGED <<respVars, script, stream, taken, peerOpen, ticket, sink, zip, bufIdx, asked>>

PeerCloses ==
    /\ pc # "idle" /\ peerOpen
    /\ peerOpen' = FALSE
    /\ UNCHANGED <<respVars, script, stream, arrived, taken, ticket, sink, zip, bufIdx, asked>>

(***************************************************************************)
(* DB_http: the status of db_http_parser_exec for the bytes p it was given *)
(* since it was cleared.  Bytes past the end of a message are an error: it *)
(* rejects pipelining.                                                     *)
(***************************************************************************)
WellFormed(p) ==
    LET us == Units(conn, p[1].req, script[p[1].req])
    IN  p[1].conn = conn /\ \A i \in DOMAIN p \cap DOMAIN us : p[i] = us[i]

Parse(p) ==
    LET r == script[p[1].req]
    IN  IF ~WellFormed(p) \/ r.kind = "bad"  THEN "bad"
        ELSE IF Len(p) < r.head              THEN "more"
        ELSE IF upload_stream_gate(r)        THEN "stream"
        ELSE IF r.body > ContentMax          THEN "large"
        ELSE IF Len(p) < r.head + r.body     THEN "more"
        ELSE IF Len(p) = r.head + r.body     THEN "complete"
        ELSE "bad"

(***************************************************************************)
(* A connection comes and goes.                                            *)
(***************************************************************************)
\* _client_reset_message: parser, buffer and parking state.
\* Mutant: the parking state is left to whoever set it.
ResetKeepsParking ==
    /\ parsed' = <<>> /\ bufIdx' = 0 /\ buf' = Cleared
    /\ UNCHANGED parkVars

ResetMessage ==
    /\ parsed' = <<>> /\ bufIdx' = 0 /\ buf' = Cleared
    /\ ClearSend

\* What a new connection brings: everything about the peer and about the request in hand.
NewConnection ==
    /\ pc = "idle"
    /\ conn' = 1 - conn
    /\ script' \in Scripts
    /\ stream' = StreamOf(script')
    /\ arrived' = 0 /\ taken' = 0 /\ peerOpen' = TRUE
    /\ wire' = <<>> /\ asked' = 0 /\ ticket' = "none" /\ sink' = <<>> /\ zip' = NoZip
    /\ pc' = "wait"
    /\ UNCHANGED <<managed, total, caller, rc>>

\* _operator_add_client: buffer, policy and counters, but neither the parser nor the parking state.
OperatorAdds ==
    /\ managed
    /\ NewConnection
    /\ buf' = Cleared /\ bufIdx' = 0 /\ policy' = "none"
    /\ armed' = "in"
    /\ UNCHANGED <<parsed, parkVars>>

\* client_adopt_fd.
WorkerAdopts ==
    /\ ~managed
    /\ NewConnection
    /\ ResetMessage
    /\ policy' = "none"
    /\ UNCHANGED armed

DropFrame ==
    /\ pc' = "idle"
    /\ policy' = "none"
    /\ UNCHANGED <<managed, conn, wire, total, caller, rc, pumpVars, asked>>

\* _operator_remove_client_by_idx: reactor_del, then client_shutdown.
client_shutdown ==
    /\ pc = "remove" /\ managed
    /\ ResetMessage
    /\ armed' = "none"
    /\ DropFrame

client_release_fd ==
    /\ pc = "remove" /\ ~managed
    /\ ResetMessage
    /\ UNCHANGED armed
    /\ DropFrame

(***************************************************************************)
(* Waiting for the next event.                                             *)
(***************************************************************************)
WaitFrame ==
    UNCHANGED <<managed, conn, parsed, policy, buf, parkVars, armed, wire, rc, pumpVars, bufIdx, asked>>

\* _operator_handle_client_event.  The fd is reported for what it is armed for; which function is called
\* depends on draining alone.  A hangup reported with it takes precedence (reactor.c:209).
ClientEvent ==
    /\ pc = "wait" /\ managed /\ peerOpen
    /\ armed = "out" \/ (armed = "in" /\ Waiting > 0)
    /\ \/ /\ draining
          /\ Resume
       \/ /\ ~draining
          /\ pc' = "read"
          /\ UNCHANGED <<total, caller>>
    /\ WaitFrame

\* EPOLLRDHUP, EPOLLHUP or EPOLLERR: the client is removed, unread input or not.
HangUp ==
    /\ pc = "wait" /\ managed /\ ~peerOpen
    /\ pc' = "remove"
    /\ UNCHANGED <<total, caller>>
    /\ WaitFrame

\* _clean_clients finds that last_activity is too old (or the operator shuts down).
\* Mutant: a client with a response under way is not idle.
IdleTimeoutUnlessDraining ==
    /\ pc = "wait" /\ managed /\ ~draining
    /\ pc' = "remove"
    /\ UNCHANGED <<total, caller>>
    /\ WaitFrame

IdleTimeout ==
    /\ pc = "wait" /\ managed
    /\ pc' = "remove"
    /\ UNCHANGED <<total, caller>>
    /\ WaitFrame

\* _drive_upload: readable, or silent until the header timeout or the deadline, or poll fails.
DriveUpload ==
    /\ pc = "wait" /\ ~managed
    /\ Waiting > 0 \/ ~peerOpen
    /\ pc' = "read"
    /\ UNCHANGED <<total, caller>>
    /\ WaitFrame

DriveTimeout ==
    /\ pc = "wait" /\ ~managed
    /\ pc' = "remove"
    /\ UNCHANGED <<total, caller>>
    /\ WaitFrame

(***************************************************************************)
(* client_handle                                                           *)
(***************************************************************************)
\* A read appends to the buffer; the parser is given the new bytes.
\* Mutant: the room is the size of the buffer.
ReadPastEnd ==
    /\ pc = "read" /\ bufIdx < BufLen
    /\ \E k \in ReadSizes(BufLen) :
        /\ taken' = taken + k
        /\ buf' = Fill(bufIdx, Incoming(k))
        /\ bufIdx' = bufIdx + k
        /\ parsed' = parsed \o Incoming(k)
    /\ pc' = "parse"
    /\ UNCHANGED <<managed, conn, policy, parkVars, armed, wire, total, caller, rc, asked>>
    /\ UNCHANGED <<sockVars, ticket, sink, zip>>

Read ==
    /\ pc = "read" /\ bufIdx < BufLen
    /\ \E k \in ReadSizes(BufLen - bufIdx) :
        /\ taken' = taken + k
        /\ buf' = Fill(bufIdx, Incoming(k))
        /\ bufIdx' = bufIdx + k
        /\ parsed' = parsed \o Incoming(k)
    /\ pc' = "parse"
    /\ UNCHANGED <<managed, conn, policy, parkVars, armed, wire, total, caller, rc, asked>>
    /\ UNCHANGED <<sockVars, ticket, sink, zip>>

\* EAGAIN: back to the reactor or to poll.
ReadBlocks ==
    /\ pc = "read" /\ bufIdx < BufLen /\ Waiting = 0 /\ peerOpen
    /\ pc' = "wait"
    /\ UNCHANGED <<total, caller>>
    /\ WaitFrame

\* The buffer is full, the peer has closed, or read() fails.
ReadFails ==
    /\ pc = "read"
    /\ pc' = "fail"
    /\ UNCHANGED <<total, caller>>
    /\ WaitFrame

\* The message is not complete: read on.
ParseMore ==
    /\ pc = "parse" /\ Parse(parsed) = "more"
    /\ pc' = "read"
    /\ UNCHANGED <<total, caller>>
    /\ WaitFrame

ParseFrame ==
    /\ asked' = asked + 1
    /\ SendFrame
    /\ UNCHANGED <<pumpVars, bufIdx>>

\* Headers complete and the stream gate claimed the request: the connection is one-shot from here.
ParseStream ==
    /\ pc = "parse" /\ Parse(parsed) = "stream"
    /\ policy' = "close"
    /\ pc' = "pump"
    /\ UNCHANGED <<buf, sendOff, total, caller>>
    /\ ParseFrame

\* 413 for a body over the parser's limit, 400 for everything else.
ParseFails ==
    /\ pc = "parse" /\ Parse(parsed) \in {"bad", "large"}
    /\ Error("error")
    /\ ParseFrame

\* _client_store_request.
StoreRequest ==
    /\ pc = "parse" /\ Parse(parsed) = "complete"
    /\ policy' = IF Current.keep THEN "keep" ELSE "close"
    /\ pc' = "dispatch"
    /\ UNCHANGED <<buf, sendOff, total, caller>>
    /\ ParseFrame

\* srv_router_dispatch: no route is a 404.
srv_router_dispatch ==
    /\ pc = "dispatch" /\ Current.kind = "noroute"
    /\ Error("dispatch")
    /\ SendFrame
    /\ UNCHANGED <<pumpVars, bufIdx, asked>>

\* handler_db_app: DB_app's answer, or a 500 for a request it cannot adapt.
handler_db_app ==
    /\ pc = "dispatch" /\ Current.kind # "noroute"
    /\ Send("dispatch") \/ Error("dispatch")
    /\ SendFrame
    /\ UNCHANGED <<pumpVars, bufIdx, asked>>

\* After the dispatch the parser is cleared; a parked client is left alone, a kept one waits for the next
\* request, the others fall to the fail label.
DispatchReturns ==
    /\ pc = "ret" /\ caller = "dispatch"
    /\ parsed' = <<>> /\ bufIdx' = 0
    /\ pc' = IF rc = "ok" /\ (draining \/ policy # "close") THEN "wait" ELSE "fail"
    /\ UNCHANGED <<managed, conn, policy, buf, parkVars, armed, wire, total, caller, rc>>
    /\ UNCHANGED <<pumpVars, asked>>

\* After an error response or a claimed request the connection ends, at once or when it has drained.
CloseReturns ==
    /\ pc = "ret" /\ caller \in {"error", "claimed"}
    /\ pc' = IF draining THEN "wait" ELSE "fail"
    /\ UNCHANGED <<total, caller>>
    /\ WaitFrame

\* The fail label, which is also the clean close.
HandleFails ==
    /\ pc = "fail"
    /\ ResetMessage
    /\ pc' = "remove"
    /\ UNCHANGED <<managed, conn, policy, armed, wire, total, caller, rc, pumpVars, asked>>

(***************************************************************************)
(* Specification.  The thread that owns the slot runs, and time passes: a  *)
(* client that makes no progress is found by the housekeeping timer, or by *)
(* the deadline of _drive_upload, however often it is woken in between.    *)
(***************************************************************************)
WriterStep == (TrySend \/ ResumeReturns) /\ UNCHANGED <<pumpVars, bufIdx, asked>>

HandleStep ==
    \/ Read \/ ReadBlocks \/ ReadFails
    \/ ParseMore \/ ParseStream \/ ParseFails \/ StoreRequest
    \/ srv_router_dispatch \/ handler_db_app \/ DispatchReturns \/ CloseReturns \/ HandleFails

SlotStep ==
    \/ client_shutdown \/ client_release_fd
    \/ ClientEvent \/ HangUp \/ IdleTimeout \/ DriveUpload \/ DriveTimeout
    \/ HandleStep
    \/ WriterStep
    \/ PumpStep /\ UNCHANGED <<bufIdx, asked>>
    \/ ZipStep /\ UNCHANGED <<sockVars, taken, ticket, sink, bufIdx, asked>>

Adopt == OperatorAdds \/ WorkerAdopts

CNext == PeerSends \/ PeerCloses \/ Adopt \/ SlotStep

CSpec == CInit /\ [][CNext]_clientVars

CFairSpec == CSpec /\ WF_clientVars(SlotStep) /\ SF_clientVars(IdleTimeout) /\ SF_clientVars(DriveTimeout)

(***************************************************************************)
(* Properties.                                                             *)
(***************************************************************************)
ReqUnit  == [conn : {0, 1}, req : Nat, n : Nat]
RespUnit == [conn : {0, 1}, req : Nat, n : Nat, of : Nat, keep : BOOLEAN]

\* Every variable has its type.  The one that could lose it is buf_idx: requests come in pieces of any
\* size and each is appended behind the last, in a buffer that is never grown (client.c:60-75).
ClTypeOK ==
    /\ managed \in BOOLEAN /\ draining \in BOOLEAN /\ peerOpen \in BOOLEAN
    /\ conn \in {0, 1}
    /\ parsed \in Seq(ReqUnit)
    /\ policy \in {"none", "keep", "close"}
    /\ DOMAIN buf = 1..BufLen
    /\ sendOff \in Nat /\ sendLen \in Nat /\ total \in Nat /\ asked \in Nat
    /\ bufIdx \in 0..BufLen
    /\ armed \in {"none", "in", "out"}
    /\ pc \in ClientPc /\ caller \in Caller /\ rc \in {"ok", "fail"}
    /\ ticket \in {"none", "open", "committed", "aborted", "twice"}

\* What the peer receives is whole answers, one per request and in order, none from another connection and
\* none after a "Connection: close"; and no request is acted on before the one ahead of it has been
\* answered to the last byte, parked or not (client.c:105-160, response_writer.c:158-189, 278-325).
Exchange == INSTANCE HttpExchange WITH open <- pc # "idle", out <- wire
ImplementsExchange == Exchange!XSpec

\* When the thread waits in epoll, the fd is armed for EPOLLOUT exactly if a response is parked, and then
\* there is something left of it to send.  The event handler looks at draining and never at the event, so
\* a disagreement calls the wrong function or waits for an event that does not come
\* (operator.c:450, response_writer.c:252-266, 174-182).
ParkedIsArmed ==
    pc = "wait" /\ managed =>
        /\ armed = IF draining THEN "out" ELSE "in"
        /\ draining => sendOff < sendLen

\* A slot starts every connection with a clear parser and no parking state.  _operator_add_client does not
\* reset them: it relies on every path that drops a client, a hangup in the middle of a parked response
\* among them, having done so (operator.c:532-548, client.c:247-271, 316-323).
SlotStartsClean ==
    /\ pc = "idle" => parsed = <<>> /\ ~draining /\ sendOff = 0 /\ sendLen = 0
    /\ \A i \in DOMAIN parsed : parsed[i].conn = conn

\* The server closes after a complete response exactly if that response said so; what the header says is
\* decided before the send and the close after it, a parking and a resume later
\* (response_writer.c:102, 176-188, client.c:143-160).
AnnouncedClose ==
    [][pc = "ret" /\ rc = "ok" /\ ~draining =>
        /\ pc' = "wait" => Last(wire).keep
        /\ pc' = "fail" \/ (pc' = "remove" /\ armed' # armed) => ~Last(wire).keep]_clientVars

\* A parked response does not stay parked: it is sent, or the peer hangs up, or the client is dropped as
\* idle, although the kernel may wake the slot without ever taking a byte (operator.c:762-788).
ParkedEnds == draining ~> ~draining

\* "While draining, buf[send_off, send_len) still holds the unsent tail of the current response ... so
\* nothing else touches buf until the drain finishes" (client.h:41-45).
ParkedTailIntact ==
    draining => \A i \in (sendOff + 1)..sendLen : "keep" \in DOMAIN buf[i]
=============================================================================
