---------------------------- MODULE MCTCPRelay ----------------------------
(* Model values and symmetry for TCPRelay.                                 *)
EXTENDS TCPRelay, TLC

Symmetry == Permutations(Ids)
===========================================================================
