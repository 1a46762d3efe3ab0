-------------------------- MODULE ConnectionHandoff --------------------------
(***************************************************************************)
(* What the API side of the server promises a connection, without threads, *)
(* counters, eventfds or slots.  A connection is offered once.  It is      *)
(* refused, or dispatched to one operator, which takes the connections it  *)
(* was given in their order and serves as many at a time as it has places. *)
(* It ends once, served or not, and is never picked up again; an operator  *)
(* that has retired is given nothing more.  WorkerPool is shown to         *)
(* implement it.                                                           *)
(*                                                                         *)
(* How a connection ends is left open: closed, or dropped without being    *)
(* closed.                                                                 *)
(***************************************************************************)
EXTENDS Naturals, Sequences, FiniteSets

CONSTANTS Fd, Ops, LineMax, Places

VARIABLES
    offered,  \* connections nobody has decided about
    line,     \* per operator, the connections that were dispatched to it, oldest first
    serving,  \* per operator, those it serves
    over,     \* connections that have ended
    live      \* operators that have not retired

hvars == <<offered, line, serving, over, live>>

Members(s) == {s[i] : i \in DOMAIN s}

HInit ==
    /\ offered = Fd /\ over = {}
    /\ line = [o \in Ops |-> <<>>] /\ serving = [o \in Ops |-> {}]
    /\ live = [o \in Ops |-> TRUE]

Refuse(c) ==
    /\ c \in offered
    /\ offered' = offered \ {c} /\ over' = over \cup {c}
    /\ UNCHANGED <<line, serving, live>>

Give(c, o) ==
    /\ c \in offered /\ live[o] /\ Len(line[o]) < LineMax
    /\ offered' = offered \ {c}
    /\ line' = [line EXCEPT ![o] = Append(@, c)]
    /\ UNCHANGED <<serving, over, live>>

\* The oldest in line gets a place...
Admit(o) ==
    /\ line[o] # <<>> /\ Cardinality(serving[o]) < Places
    /\ serving' = [serving EXCEPT ![o] = @ \cup {Head(line[o])}]
    /\ line' = [line EXCEPT ![o] = Tail(@)]
    /\ UNCHANGED <<offered, over, live>>

\* ...or is turned away.
TurnAway(o) ==
    /\ line[o] # <<>>
    /\ over' = over \cup {Head(line[o])}
    /\ line' = [line EXCEPT ![o] = Tail(@)]
    /\ UNCHANGED <<offered, serving, live>>

Finish(o, S) ==
    /\ S \subseteq serving[o]
    /\ serving' = [serving EXCEPT ![o] = @ \ S]
    /\ over' = over \cup S
    /\ UNCHANGED <<offered, line, live>>

Retire(o) ==
    /\ over' = over \cup Members(line[o]) \cup serving[o]
    /\ line' = [line EXCEPT ![o] = <<>>]
    /\ serving' = [serving EXCEPT ![o] = {}]
    /\ live' = [live EXCEPT ![o] = FALSE]
    /\ UNCHANGED offered

HNext ==
    \/ \E c \in Fd : Refuse(c) \/ \E o \in Ops : Give(c, o)
    \/ \E o \in Ops : Admit(o) \/ TurnAway(o) \/ Retire(o) \/ \E S \in SUBSET serving[o] : Finish(o, S)

HSpec == HInit /\ [][HNext]_hvars
=============================================================================
