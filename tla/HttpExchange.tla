---------------------------- MODULE HttpExchange ----------------------------
(***************************************************************************)
(* What a connection promises its peer, without buffer, parser or parking: *)
(* requests are taken one at a time, the next one only when the answer to  *)
(* the one before is out; what is sent is whole answers, one per request   *)
(* and in their order, and nothing follows an answer that said             *)
(* "Connection: close".  The connection may be cut at any time, in the     *)
(* middle of an answer too.  Client is shown to implement it.              *)
(***************************************************************************)
EXTENDS Naturals, Sequences

VARIABLES
    conn,   \* the connection, by name
    open,   \* it is open
    asked,  \* how many requests have been taken
    out     \* what has been sent

xvars == <<conn, open, asked, out>>

\* out[p] continues out[p - 1]: the next part of the same answer, or the first of the next answer.
Continues(a, b) ==
    \/ b = [a EXCEPT !.n = a.n + 1] /\ b.n <= b.of
    \/ a.n = a.of /\ a.keep /\ b.n = 1 /\ b.req = a.req + 1 /\ b.conn = a.conn

Sound(s, c, k) ==
    \A p \in DOMAIN s :
        /\ {"conn", "req", "n", "of", "keep"} = DOMAIN s[p]
        /\ s[p].req <= k
        /\ IF p = 1 THEN s[p].conn = c /\ s[p].req = 1 /\ s[p].n = 1 ELSE Continues(s[p - 1], s[p])

\* Everything taken has been answered, and no answer ended the connection.
Answered ==
    \/ out = <<>> /\ asked = 0
    \/ out # <<>> /\ LET u == out[Len(out)] IN u.req = asked /\ u.n = u.of /\ u.keep

XInit == open = FALSE /\ asked = 0 /\ out = <<>> /\ conn \in {0, 1}

Connect ==
    /\ ~open
    /\ open' = TRUE /\ asked' = 0 /\ out' = <<>> /\ conn' = 1 - conn

Take ==
    /\ open /\ Answered
    /\ asked' = asked + 1
    /\ UNCHANGED <<conn, open, out>>

Reply ==
    /\ open
    /\ Len(out') > Len(out) /\ SubSeq(out', 1, Len(out)) = out
    /\ Sound(out', conn, asked)
    /\ UNCHANGED <<conn, open, asked>>

Disconnect == open /\ open' = FALSE /\ UNCHANGED <<conn, asked, out>>

XNext == Connect \/ Take \/ Reply \/ Disconnect

XSpec == XInit /\ [][XNext]_xvars
=============================================================================
