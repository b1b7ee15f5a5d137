--------------------------- MODULE MCWorkerLink ---------------------------
(* WorkerLink on small instances; no symmetry, the runs check liveness.    *)
EXTENDS WorkerLink
===========================================================================
