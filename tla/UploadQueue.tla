----------------------------- MODULE UploadQueue -----------------------------
(***************************************************************************)
(* What the upload pool promises the listener, without threads, condition  *)
(* variable or circular buffer: a bounded first-in first-out queue of      *)
(* connections.  Each connection is offered once; it is refused, or served *)
(* in its turn, or closed unserved when the queue shuts down.  UploadPool  *)
(* is shown to implement it.                                               *)
(***************************************************************************)
EXTENDS Naturals, Sequences

CONSTANTS Fd, Depth

VARIABLES
    q,        \* connections waiting, oldest first
    open,     \* the queue has not been shut down
    serving,  \* connections some worker is serving
    gone      \* connections that have been closed

qvars == <<q, open, serving, gone>>

Elems(s) == {s[i] : i \in DOMAIN s}

Fresh == Fd \ (Elems(q) \cup serving \cup gone)

QInit == q = <<>> /\ open = TRUE /\ serving = {} /\ gone = {}

Put(c) ==
    /\ open /\ c \in Fresh /\ Len(q) < Depth
    /\ q' = Append(q, c)
    /\ UNCHANGED <<open, serving, gone>>

Refuse(c) ==
    /\ c \in Fresh
    /\ gone' = gone \cup {c}
    /\ UNCHANGED <<q, open, serving>>

Take ==
    /\ q # <<>>
    /\ q' = Tail(q)
    /\ serving' = serving \cup {Head(q)}
    /\ UNCHANGED <<open, gone>>

Finish(c) ==
    /\ c \in serving
    /\ serving' = serving \ {c}
    /\ gone' = gone \cup {c}
    /\ UNCHANGED <<q, open>>

\* Shutting down closes what has not been started and leaves what has.
Close ==
    /\ open' = FALSE
    /\ gone' = gone \cup Elems(q)
    /\ q' = <<>>
    /\ UNCHANGED serving

QNext == (\E c \in Fd : Put(c) \/ Refuse(c) \/ Finish(c)) \/ Take \/ Close

QSpec == QInit /\ [][QNext]_qvars
=============================================================================
