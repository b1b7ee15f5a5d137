------------------------- MODULE MCBridgeShutdown -------------------------
(* BridgeShutdown for TLC: the connections are model values.               *)
EXTENDS BridgeShutdown
===========================================================================
