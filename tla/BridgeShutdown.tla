--------------------------- MODULE BridgeShutdown ---------------------------
(***************************************************************************)
(* WorkerBridge.stop (server/worker_bridge.py), beside everything that     *)
(* module WorkerBridge does: the worker in the slot is closed and awaited, *)
(* then the server, which takes no new connection, closes those it has and *)
(* waits for their handlers.  In between the handlers go on: one that has  *)
(* waited for the same worker to close takes the slot.                     *)
(*                                                                         *)
(* The library's server is external: close() starts the close of every     *)
(* connection in a task of its own, wait_closed() waits for all handlers.  *)
(***************************************************************************)
EXTENDS WorkerBridge

VARIABLES
    stop,       \* how far stop() has come: "no", "worker", "server", "done"
    stopee      \* the connection whose close() it awaits

stopVars == <<stop, stopee>>

StopInit == Init /\ stop = "no" /\ stopee = NoConn

(* "if self._worker: await self._worker.close()"                           *)
StopBegins ==
    /\ stop = "no"
    /\ stop' = IF worker = NoConn THEN "server" ELSE "worker"
    /\ stopee' = worker
    /\ IF WorkerConnected THEN BeginClose(worker) ELSE UNCHANGED vars

(* The worker is closed: "self._server.close()".                           *)
StopWorkerClosed ==
    /\ stop = "worker" /\ ws[stopee] = "closed"
    /\ stop' = "server" /\ stopee' = NoConn
    /\ UNCHANGED vars

(* Mutant: only the connection in the slot is closed.                      *)
ServerClosesWorker(c) == c = worker /\ stop = "server" /\ BeginClose(c) /\ UNCHANGED stopVars

ServerCloses(c) == stop = "server" /\ BeginClose(c) /\ UNCHANGED stopVars

(* "await self._server.wait_closed()"                                      *)
StopReturns ==
    /\ stop = "server"
    /\ \A c \in Conns : handler[c] \in {"none", "done"} /\ ws[c] \in {"unborn", "closed"}
    /\ stop' = "done"
    /\ UNCHANGED <<vars, stopee>>

(* A connection is accepted only before the server is closed.              *)
Serves == Next /\ (stop \in {"server", "done"} => \A c \in Conns : ~Accept(c)) /\ UNCHANGED stopVars

StopNext ==
    \/ Serves
    \/ StopBegins \/ StopWorkerClosed \/ StopReturns
    \/ \E c \in Conns : ServerCloses(c)

(* stop() is called or not; once called it goes on when it can.            *)
StopFairness ==
    /\ WF_<<vars, stopVars>>(StopWorkerClosed \/ StopReturns)
    /\ \A c \in Conns : WF_<<vars, stopVars>>(ServerCloses(c))

StopSpec == StopInit /\ [][StopNext]_<<vars, stopVars>> /\ Fairness /\ StopFairness

-----------------------------------------------------------------------------
(* stop() returns: no handler waits for a connection nobody closes, for a  *)
(* lock nobody gives back, or takes the slot for a connection that the     *)
(* closed worker made room for and that the server then fails to close.    *)
StopEnds == stop \in {"worker", "server"} ~> stop = "done"

(* Nobody waits in vain, stop() included: the worker it awaits is going    *)
(* away, whoever has taken the slot since.                                 *)
StopWaitsEnd ==
    /\ WaitsEnd
    /\ stop = "worker" => stopee \in Conns /\ ws[stopee] \in {"closing", "closed"}

(* A stopped bridge has no worker and serves nobody.                       *)
StoppedIsEmpty ==
    stop = "done" => worker = NoConn /\ \A c \in Conns : handler[c] \in {"none", "done"}
=============================================================================
