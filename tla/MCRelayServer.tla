-------------------------- MODULE MCRelayServer --------------------------
(* Model values and symmetry for RelayServer.                              *)
EXTENDS RelayServer, TLC

Symmetry == Permutations(Reqs)
===========================================================================
