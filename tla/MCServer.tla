------------------------------ MODULE MCServer ------------------------------
(***************************************************************************)
(* The upload side with the boot thread and the listener's life cycle.  No *)
(* symmetry: the run checks liveness as well.                              *)
(***************************************************************************)
EXTENDS Server, Sizing

\* Every way to start it, the refused ones included.
AllLaunches == {l \in Launch : l.activated => "tcp" \notin {l.api, l.upload}}

\* The set that stands for the bit test is the powers of two.
ASSUME RingCapacityPowers == RingCapacities = {n \in 8..1024 : \E k \in 3..10 : n = 2^k}
=============================================================================
