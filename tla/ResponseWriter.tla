--------------------------- MODULE ResponseWriter ---------------------------
(***************************************************************************)
(* The response half of one client slot: operator/client/response_writer.c.*)
(*                                                                         *)
(* A slot has a single buffer.  Requests are received into it and, once    *)
(* their views are dead, the response is serialised over them.  On an      *)
(* operator a write that would block parks the slot: the fd is armed for   *)
(* EPOLLOUT and the unsent tail stays in the buffer until the reactor      *)
(* reports it.  An upload worker has no reactor and polls instead.         *)
(*                                                                         *)
(* Bytes are grouped into units.  A unit knows which connection and which  *)
(* request of it it belongs to and its place, which is what the properties *)
(* need to tell a byte that is out of place from one that is not.  One     *)
(* action is one system call with the code up to the next.                 *)
(***************************************************************************)
EXTENDS Integers, Sequences

CONSTANTS
    BufLen,     \* DB_HTTP_MAX_BUFFER_LEN_B, in units
    RespLens    \* the lengths DB_app's serialised responses may have; one past BufLen does not fit

ASSUME ResponseAssumption == BufLen \in Nat \ {0} /\ RespLens \subseteq Nat \ {0}

VARIABLES
    managed,    \* ctx.owner # NULL: the slot belongs to an operator, not to an upload worker
    conn,       \* names the connection the slot serves; the next one has the other name
    parsed,     \* what the parser has consumed since it was last cleared
    policy,     \* connection_policy
    buf,        \* buf
    draining, sendOff, sendLen,     \* the parking state
    armed,      \* what epoll watches the fd for: EPOLLIN, EPOLLOUT, or nothing
    wire,       \* what the kernel has accepted for the peer on this connection
    pc,         \* where the thread that owns the slot is
    total,      \* total_len of _try_send
    caller,     \* whom the send returns to
    rc          \* what it returns

parkVars == <<draining, sendOff, sendLen>>
respVars == <<managed, conn, parsed, policy, buf, parkVars, armed, wire, pc, total, caller, rc>>

\* A byte of the buffer that belongs to no request and no response: memset cleared it, or a blob passed through.
Zero == [n |-> 0]

\* The buffer after s has been written at offset off.
Fill(off, s) ==
    [i \in 1..BufLen |-> IF i \in (off + 1)..(off + Len(s)) THEN s[i - off] ELSE buf[i]]

\* The serialised answer to the request that the parser holds.  keep is its Connection header.
Response(len, keep) ==
    [i \in 1..len |-> [conn |-> conn, req |-> parsed[1].req, n |-> i, of |-> len, keep |-> keep]]

\* The static error texts are shorter than the buffer.
ErrLen == 1

\* response_writer_error, up to its call of _try_send.
\* Mutant: an error response leaves the policy of the request.
ErrorKeeping(who) ==
    /\ policy' = policy
    /\ buf' = Fill(0, Response(ErrLen, FALSE))
    /\ sendOff' = 0
    /\ total' = ErrLen
    /\ caller' = who
    /\ pc' = "send"

Error(who) ==
    /\ policy' = "close"
    /\ buf' = Fill(0, Response(ErrLen, FALSE))
    /\ sendOff' = 0
    /\ total' = ErrLen
    /\ caller' = who
    /\ pc' = "send"

\* response_writer_send: a response that does not fit becomes an error.
Send(who) ==
    \E len \in RespLens :
        \/ /\ len > BufLen
           /\ Error(who)
        \/ /\ len <= BufLen
           /\ buf' = Fill(0, Response(len, policy = "keep"))
           /\ sendOff' = 0
           /\ total' = len
           /\ caller' = who
           /\ pc' = "send"
           /\ UNCHANGED policy

\* What Error and Send leave alone.
SendFrame == UNCHANGED <<managed, conn, parsed, draining, sendLen, armed, wire, rc>>

(***************************************************************************)
(* _try_send                                                               *)
(***************************************************************************)
Sending == pc = "send" /\ sendOff < total

Return(result) ==
    /\ pc' = "ret"
    /\ rc' = result
    /\ UNCHANGED <<managed, conn, parsed, policy, buf, total, caller>>

ClearSend == draining' = FALSE /\ sendOff' = 0 /\ sendLen' = 0

\* write() accepts part of what is left, or all of it.
\* Mutant: a partial write is continued from the start of the buffer.
WriteFromStart ==
    /\ Sending
    /\ \E k \in 1..(total - sendOff) :
        /\ wire' = wire \o SubSeq(buf, 1, k)
        /\ sendOff' = sendOff + k
    /\ UNCHANGED <<managed, conn, parsed, policy, buf, draining, sendLen, armed, pc, total, caller, rc>>

Write ==
    /\ Sending
    /\ \E k \in 1..(total - sendOff) :
        /\ wire' = wire \o SubSeq(buf, sendOff + 1, sendOff + k)
        /\ sendOff' = sendOff + k
    /\ UNCHANGED <<managed, conn, parsed, policy, buf, draining, sendLen, armed, pc, total, caller, rc>>

Sent ==
    /\ pc = "send" /\ sendOff >= total
    /\ ClearSend
    /\ Return("ok")
    /\ UNCHANGED <<armed, wire>>

\* EAGAIN on an operator's client: _park.
\* Mutant: the slot is marked but the fd stays armed for EPOLLIN.
ParkUnarmed ==
    /\ Sending /\ managed
    /\ draining' = TRUE /\ sendLen' = total
    /\ Return("ok")
    /\ UNCHANGED <<sendOff, armed, wire>>

Park ==
    /\ Sending /\ managed
    /\ armed' = "out"
    /\ draining' = TRUE /\ sendLen' = total
    /\ Return("ok")
    /\ UNCHANGED <<sendOff, wire>>

\* _park when reactor_mod fails.
ParkFails ==
    /\ Sending /\ managed
    /\ ClearSend
    /\ Return("fail")
    /\ UNCHANGED <<armed, wire>>

\* EAGAIN on an upload worker's client, and five seconds of poll that bring no POLLOUT.
SendStalls ==
    /\ Sending /\ ~managed
    /\ sendOff' = 0
    /\ Return("fail")
    /\ UNCHANGED <<draining, sendLen, armed, wire>>

WriteFails ==
    /\ Sending
    /\ ClearSend
    /\ Return("fail")
    /\ UNCHANGED <<armed, wire>>

TrySend == Write \/ Sent \/ Park \/ ParkFails \/ SendStalls \/ WriteFails

(***************************************************************************)
(* response_writer_resume: called by the operator's event handler, then    *)
(* what it does when _try_send comes back.                                 *)
(***************************************************************************)
Resume ==
    /\ total' = sendLen
    /\ caller' = "resume"
    /\ pc' = "send"

\* The second alternative is also reactor_mod failing: the client is dropped.
ResumeReturns ==
    /\ pc = "ret" /\ caller = "resume"
    /\ \/ /\ rc = "fail"
          /\ pc' = "remove"
          /\ UNCHANGED armed
       \/ /\ rc = "ok" /\ draining
          /\ pc' = "wait"
          /\ UNCHANGED armed
       \/ /\ rc = "ok" /\ ~draining
          /\ pc' = "remove"
          /\ UNCHANGED armed
       \/ /\ rc = "ok" /\ ~draining
          /\ armed' = "in"
          /\ pc' = IF policy = "close" THEN "remove" ELSE "wait"
    /\ UNCHANGED <<managed, conn, parsed, policy, buf, parkVars, wire, total, caller, rc>>
=============================================================================
