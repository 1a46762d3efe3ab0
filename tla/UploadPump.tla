----------------------------- MODULE UploadPump -----------------------------
(***************************************************************************)
(* The requests the stream gate claims at headers-complete:                *)
(* operator/client/upload_pump.c.  A one-shot upload (POST) and a chunk of *)
(* a resumable one (PUT) stream their body from the socket into a sink of  *)
(* DB_app; a folder download (GET) is handed to FolderZipPump.  The pump   *)
(* runs to its end in the thread that called it, polling the socket.       *)
(***************************************************************************)
EXTENDS FolderZipPump

CONSTANTS
    UploadMax,  \* upload_max_bytes and UPLOAD_DATA_CHUNK_MAX, in units
    Refused     \* per kind of owner, the kinds of request DB_app may refuse at begin

VARIABLES
    script,     \* the requests the peer has to send on this connection
    stream,     \* the same, unit by unit
    arrived,    \* how many units have reached the socket
    taken,      \* how many of them read() has returned
    peerOpen,   \* the peer has not closed its end
    ticket,     \* the upload ticket or data handle: none, open, committed, aborted (or used twice)
    sink        \* the body DB_app was given through it

sockVars == <<script, stream, arrived, peerOpen>>
pumpVars == <<sockVars, taken, ticket, sink, zip>>

\* A request is [kind, keep, head, body]: where it is routed, its Connection header, and its length up to
\* the end of the headers and after it.  noroute matches no route; bad does not parse.
Kind    == {"api", "noroute", "bad", "post", "put", "get"}
Request == [kind : Kind, keep : BOOLEAN, head : Nat \ {0}, body : Nat]

Units(c, req, r) == [i \in 1..(r.head + r.body) |-> [conn |-> c, req |-> req, n |-> i]]

Waiting == arrived - taken
Incoming(k) ==
    [i \in 1..k |-> [conn |-> conn, req |-> stream[taken + i].req, n |-> stream[taken + i].n]]

\* Bytes that read() may return at once: at least one, at most what fits.
ReadSizes(room) == {k \in 1..Waiting : k <= room}

EndOfInput == Waiting = 0 /\ ~peerOpen

\* upload_stream_gate: an empty or an over-long upload is not claimed.
upload_stream_gate(r) ==
    \/ r.kind \in {"post", "put"} /\ r.body \in 1..UploadMax
    \/ r.kind = "get"

\* The request the parser holds.
Current == script[parsed[1].req]

\* db_http_parser_stream_info: what the parser saw past the headers.
Leftover == SubSeq(parsed, Current.head + 1, Len(parsed))

Body == SubSeq(Units(conn, parsed[1].req, Current), Current.head + 1, Current.head + Current.body)

Remaining == Current.body - Len(sink)

\* commit, data_end and the two aborts consume what begin returned.
Consume(how) == ticket' = IF ticket = "open" THEN how ELSE "twice"

\* db_app_request_from_db_http_headers fails.
AdaptFails ==
    /\ pc = "pump"
    /\ Error("claimed")
    /\ SendFrame
    /\ UNCHANGED pumpVars

\* Dispatch on the method: a folder download leaves for client_folder_zip_pump.
PumpZip ==
    /\ pc = "pump" /\ Current.kind = "get"
    /\ pc' = "zip"
    /\ UNCHANGED <<managed, conn, parsed, policy, buf, parkVars, armed, wire, total, caller, rc>>
    /\ UNCHANGED pumpVars

\* db_app_folder_zip_begin refuses the link.
ZipRefused ==
    /\ pc = "zip" /\ Current.kind \in Refused[managed]
    /\ Send("claimed")
    /\ SendFrame
    /\ UNCHANGED pumpVars

\* begin opens a ticket (a data handle for a chunk); the bytes received behind the headers are its first.
Begin ==
    \/ /\ Len(Leftover) > Current.body
       /\ ticket' = "aborted"
       /\ Error("claimed")
       /\ SendFrame
       /\ UNCHANGED sink
    \/ /\ Len(Leftover) <= Current.body
       /\ ticket' = "open"
       /\ sink' = Leftover
       /\ pc' = "body"
       /\ UNCHANGED <<policy, buf, sendOff, total, caller>>
       /\ SendFrame
    \/ /\ Len(Leftover) \in 1..Current.body
       /\ ticket' = "open"
       /\ Error("abort")
       /\ SendFrame
       /\ UNCHANGED sink

\* client_upload_pump for a POST, and _client_upload_data_pump for a PUT: refused with DB_app's answer and
\* the body drained, or begun.
client_upload_pump ==
    /\ pc = "pump" /\ Current.kind = "post"
    /\ \/ /\ "post" \in Refused[managed]
          /\ Send("reject")
          /\ SendFrame
          /\ UNCHANGED <<ticket, sink>>
       \/ Begin
    /\ UNCHANGED <<sockVars, taken, zip>>

client_upload_data_pump ==
    /\ pc = "pump" /\ Current.kind = "put"
    /\ \/ /\ "put" \in Refused[managed]
          /\ Send("reject")
          /\ SendFrame
          /\ UNCHANGED <<ticket, sink>>
       \/ Begin
    /\ UNCHANGED <<sockVars, taken, zip>>

(***************************************************************************)
(* _pump_body                                                              *)
(***************************************************************************)
\* read() of at most what is missing; the sink takes the slice, or refuses it.
BodyRead ==
    /\ pc = "body" /\ Remaining > 0
    /\ \E k \in ReadSizes(BufLen) :
        /\ k <= Remaining
        /\ taken' = taken + k
        /\ \/ /\ sink' = sink \o Incoming(k)
              /\ buf' = Fill(0, Incoming(k))
              /\ UNCHANGED <<policy, sendOff, total, caller, pc>>
           \/ /\ Error("abort")
              /\ UNCHANGED sink
    /\ SendFrame
    /\ UNCHANGED <<sockVars, ticket, zip>>

\* Ten seconds of silence, the wall deadline, or a failing poll or read: an error response.
\* Mutant: the deadlines are only looked at when there is something to read.
BodyGivesUpLate ==
    /\ pc = "body" /\ Remaining > 0 /\ Waiting > 0
    /\ Error("abort")
    /\ SendFrame
    /\ UNCHANGED pumpVars

BodyGivesUp ==
    /\ pc = "body" /\ Remaining > 0
    /\ Error("abort")
    /\ SendFrame
    /\ UNCHANGED pumpVars

\* The peer closed in mid-body: nobody to answer.
\* Mutant: nor anything to abort.
BodyGoneAtOnce ==
    /\ pc = "body" /\ Remaining > 0 /\ EndOfInput
    /\ pc' = "ret" /\ caller' = "claimed" /\ rc' = "fail"
    /\ UNCHANGED <<managed, conn, parsed, policy, buf, parkVars, armed, wire, total>>
    /\ UNCHANGED pumpVars

BodyGone ==
    /\ pc = "body" /\ Remaining > 0 /\ EndOfInput
    /\ pc' = "ret" /\ caller' = "abort" /\ rc' = "fail"
    /\ UNCHANGED <<managed, conn, parsed, policy, buf, parkVars, armed, wire, total>>
    /\ UNCHANGED pumpVars

\* PUMP_OK: commit (or data_end) consumes the ticket whatever it answers.
\* Mutant: the ticket is committed when nothing more has arrived.
BodyDoneShort ==
    /\ pc = "body" /\ Waiting = 0
    /\ Consume("committed")
    /\ Send("claimed")
    /\ SendFrame
    /\ UNCHANGED <<sockVars, taken, sink, zip>>

BodyDone ==
    /\ pc = "body" /\ Remaining = 0
    /\ Consume("committed")
    /\ Send("claimed")
    /\ SendFrame
    /\ UNCHANGED <<sockVars, taken, sink, zip>>

(***************************************************************************)
(* After the answer.                                                       *)
(***************************************************************************)
\* A refused upload: _drain_rejected_body follows the send.
RejectReturns ==
    /\ pc = "ret" /\ caller = "reject"
    /\ pc' = "drain"
    /\ UNCHANGED <<managed, conn, parsed, policy, buf, parkVars, armed, wire, total, caller, rc>>
    /\ UNCHANGED pumpVars

\* It reads over the start of buf, whatever is there.
DrainRejectedBody ==
    /\ pc = "drain"
    /\ \E k \in ReadSizes(BufLen) :
        /\ taken' = taken + k
        /\ buf' = Fill(0, Incoming(k))
    /\ UNCHANGED <<managed, conn, parsed, policy, parkVars, armed, wire, pc, total, caller, rc>>
    /\ UNCHANGED <<sockVars, ticket, sink, zip>>

\* Its deadline, its byte limit, end of input or an error.
DrainEnds ==
    /\ pc = "drain"
    /\ pc' = "ret" /\ caller' = "claimed"
    /\ UNCHANGED <<managed, conn, parsed, policy, buf, parkVars, armed, wire, total, rc>>
    /\ UNCHANGED pumpVars

\* _pump_body did not return PUMP_OK: the ticket is aborted once the error response has been tried.
AbortReturns ==
    /\ pc = "ret" /\ caller = "abort"
    /\ Consume("aborted")
    /\ caller' = "claimed"
    /\ UNCHANGED <<managed, conn, parsed, policy, buf, parkVars, armed, wire, pc, total, rc>>
    /\ UNCHANGED <<sockVars, taken, sink, zip>>

PumpStep ==
    \/ AdaptFails \/ PumpZip \/ ZipRefused \/ client_upload_pump \/ client_upload_data_pump
    \/ BodyRead \/ BodyGivesUp \/ BodyGone \/ BodyDone
    \/ RejectReturns \/ DrainRejectedBody \/ DrainEnds \/ AbortReturns

(***************************************************************************)
(* Properties.                                                             *)
(***************************************************************************)
\* The code between upload_begin and the return of the pump: only there may a ticket be open.
PumpHoldsTicket == pc = "body" \/ (pc \in {"send", "ret"} /\ caller = "abort")

\* Every ticket is committed or aborted exactly once before the pump returns, whether begin is followed by
\* an inconsistent stream, a refused slice, a timeout, a peer that closes or the whole body
\* (upload_pump.c:276-301, 345-373): a ticket that outlives its pump is a spool nobody will ever remove.
TicketSettledOnce ==
    /\ ticket # "twice"
    /\ ticket = "open" <=> PumpHoldsTicket

\* What is committed is the declared body, complete and in order, although part of it came with the
\* headers and part from the socket (upload_pump.c:175-247, 345-373).
SpoolSound == ticket = "committed" /\ parsed # <<>> => sink = Body

\* A spool is not held for ever: neither a silent peer nor a dribbling one keeps the pump from its
\* deadlines (upload_pump.c:184-210).
SpoolSettled == (ticket = "open") ~> (ticket # "open")
=============================================================================
