---------------------------- MODULE MCUploadPool ----------------------------
\* The instances of UploadPool.  No symmetry: the run checks liveness as well.
EXTENDS UploadPool
=============================================================================
