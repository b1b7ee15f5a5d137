------------------------------ MODULE MCWorker ------------------------------
(* Worker with a few process ids, enough for every spawn to find one free. *)
EXTENDS Worker, TLC

(* Process ids are interchangeable; only for runs without liveness.        *)
Symmetry == Permutations(Clients)
=============================================================================
