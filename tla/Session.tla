------------------------------ MODULE Session ------------------------------
(***************************************************************************)
(* What the relay server and its one client make of their connections: a   *)
(* connection comes to carry the session once or never, it loses it for    *)
(* good, and at most one connection has it at a time.  Only then can the   *)
(* listeners of server/client_listener.py send every frame through "the"   *)
(* worker of server/worker_bridge.py without asking which one it is.       *)
(*                                                                         *)
(* WorkerLink implements it, silent cuts and late closes included.         *)
(***************************************************************************)
CONSTANT Conns      \* worker connections

VARIABLE phase      \* each connection: "new", "linked" or "over"

Init == phase = [c \in Conns |-> "new"]

(* Both ends have agreed on this connection, and on no other.              *)
Begin(c) ==
    /\ phase[c] = "new"
    /\ \A d \in Conns : phase[d] # "linked"
    /\ phase' = [phase EXCEPT ![c] = "linked"]

(* The session breaks, or the connection never gets one.                   *)
End(c) ==
    /\ phase[c] # "over"
    /\ phase' = [phase EXCEPT ![c] = "over"]

Next == \E c \in Conns : Begin(c) \/ End(c)

Spec == Init /\ [][Next]_phase
=============================================================================
