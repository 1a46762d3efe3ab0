---------------------------- MODULE MCWorkerPool ----------------------------
EXTENDS WorkerPool, TLC

\* Connections are interchangeable in every safety property.
FdSymmetry == Permutations(Fd)
=============================================================================
