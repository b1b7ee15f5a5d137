------------------------ MODULE BridgeShutdownProofs ------------------------
(***************************************************************************)
(* Proofs about BridgeShutdown: stop() is one more behaviour of the bridge *)
(* and its peers, so that all of WorkerBridgeProofs holds meanwhile, and a *)
(* bridge that has stopped is empty.                                       *)
(***************************************************************************)
EXTENDS BridgeShutdown, WorkerBridgeProofs

allVars == <<vars, stopVars>>

(* What stop() does to the connections, the peers could do as well.        *)
LEMMA StopStepIsBridgeStep ==
    ASSUME IInv, [StopNext]_allVars PROVE [Next]_vars
<1>1. CASE Serves
  BY <1>1 DEF Serves
<1>2. ASSUME NEW c \in Conns, BeginClose(c) PROVE Next
  BY <1>2 DEF Next, PeerNext
<1>3. CASE StopBegins
  <2>1. CASE WorkerConnected
    <3>1. worker \in Conns
      BY <2>1 DEF WorkerConnected, IInv, TypeOK
    <3>2. BeginClose(worker)
      BY <1>3, <2>1 DEF StopBegins
    <3> QED BY <3>1, <3>2, <1>2
  <2>2. CASE ~WorkerConnected
    BY <1>3, <2>2 DEF StopBegins
  <2> QED BY <2>1, <2>2
<1>4. CASE StopWorkerClosed \/ StopReturns
  BY <1>4 DEF StopWorkerClosed, StopReturns, vars
<1>5. ASSUME NEW c \in Conns, ServerCloses(c) PROVE Next
  BY <1>5, <1>2 DEF ServerCloses
<1>6. CASE UNCHANGED allVars
  BY <1>6 DEF allVars
<1> QED BY <1>1, <1>3, <1>4, <1>5, <1>6 DEF StopNext

(* The bridge keeps its invariant while it stops.                          *)
LEMMA StopKeepsBridge == StopSpec => Init /\ [][Next]_vars /\ []IInv
<1>1. StopInit => Init /\ IInv
  BY InitInv DEF StopInit
<1>2. IInv /\ [StopNext]_allVars => [Next]_vars /\ IInv'
  BY StopStepIsBridgeStep, NextKeepsInv
<1>3. StopSpec => StopInit /\ [][StopNext]_allVars
  BY DEF StopSpec, allVars
<1> QED BY <1>1, <1>2, <1>3, PTL

(* With stop() beside it the bridge is still the bridge of module          *)
(* WorkerBridge, fairness included: what holds of that holds while the     *)
(* server shuts down.                                                      *)
THEOREM StoppingIsBridge == StopSpec => Spec
<1>1. StopSpec => Fairness
  BY DEF StopSpec
<1> QED BY <1>1, StopKeepsBridge DEF Spec

-----------------------------------------------------------------------------
HandlersGone == stop = "done" => \A c \in Conns : handler[c] \in {"none", "done"}

(* Once stop() has returned no handler starts or comes back: nobody is     *)
(* accepted, and a handler that is gone waits for no lock.                 *)
LEMMA NoHandlerComesBack ==
    ASSUME IInv, HandlersGone, [StopNext]_allVars PROVE HandlersGone'
<1>1. CASE Serves
  <2> SUFFICES ASSUME stop = "done", NEW c \in Conns PROVE handler'[c] \in {"none", "done"}
    BY <1>1 DEF Serves, stopVars, HandlersGone
  <2>1. /\ Next /\ \A d \in Conns : ~Accept(d)
        /\ \A d \in Conns : handler[d] \in {"none", "done"}
    BY <1>1 DEF Serves, HandlersGone
  <2>2. ASSUME NEW d \in Conns PROVE ~HandlerStep(d)
    BY <2>1 DEF HandlerStep, HandlerStart, HandlerReplaced, HandleAuth, HandleAuthOk,
                HandleOther, HandlerExit, Reading
  <2>3. ASSUME NEW a \in Agents, LockWakeup(a) \/ SendDone(a) PROVE handler' = handler
    <3>1. a \notin Conns
      BY <2>1, <2>3 DEF IInv, HandlerState, LockWakeup, SendDone
    <3> QED BY <2>3, <3>1 DEF LockWakeup, SendDone, Write, SendReturns, SendPauses
  <2>4. ASSUME NEW t \in Tasks, SendToWorker(t) PROVE handler' = handler
    <3>1. t \notin Conns
      BY BridgeAssumption
    <3> QED BY <2>4, <3>1 DEF SendToWorker, SendRaw, Write, SendReturns, SendPauses
  <2>5. ASSUME PeerNext PROVE handler' = handler
    BY <2>1, <2>5 DEF PeerNext, PeerSend, PeerRead, BeginClose, Lost
  <2>6. handler' = handler
    BY <2>1, <2>2, <2>3, <2>4, <2>5 DEF Next, BridgeNext
  <2> QED BY <2>1, <2>6
<1>2. CASE StopReturns
  BY <1>2 DEF StopReturns, vars, HandlersGone
<1>3. CASE StopBegins \/ StopWorkerClosed
  BY <1>3 DEF StopBegins, StopWorkerClosed, HandlersGone
<1>4. ASSUME NEW c \in Conns, ServerCloses(c) PROVE HandlersGone'
  BY <1>4 DEF ServerCloses, stopVars, HandlersGone
<1>5. CASE UNCHANGED allVars
  BY <1>5 DEF allVars, vars, stopVars, HandlersGone
<1> QED BY <1>1, <1>2, <1>3, <1>4, <1>5 DEF StopNext

(* When stop() has returned the slot is empty and no handler is left,      *)
(* although handlers took and wiped the slot while it waited.              *)
THEOREM StoppedBridgeIsEmpty == StopSpec => []StoppedIsEmpty
<1>1. StopInit => HandlersGone
  BY DEF StopInit, HandlersGone
<1>2. IInv /\ HandlersGone /\ [StopNext]_allVars => HandlersGone'
  BY NoHandlerComesBack
<1>3. StopSpec => StopInit /\ [][StopNext]_allVars
  BY DEF StopSpec, allVars
<1>4. IInv /\ HandlersGone => StoppedIsEmpty
  BY DEF IInv, TypeOK, SlotOwner, Installed, HandlersGone, StoppedIsEmpty
<1> QED BY <1>1, <1>2, <1>3, <1>4, StopKeepsBridge, PTL

-----------------------------------------------------------------------------
(* A connection that is going away does not come back.                     *)
LEMMA GoneStaysGone ==
    ASSUME IInv, [Next]_vars, NEW c \in Conns, ws[c] \in {"closing", "closed"}
    PROVE  ws'[c] \in {"closing", "closed"}
<1>1. ws \in [Conns -> WsStates]
  BY DEF IInv, TypeOK
<1>2. ASSUME NEW d \in Conns, HandlerStep(d) PROVE ws'[c] \in {"closing", "closed"}
  BY <1>1, <1>2 DEF HandlerStep, HandlerStart, HandlerReplaced, HandleAuth, HandleAuthOk,
     HandleOther, HandlerExit, linkVars
<1>3. CASE \/ \E a \in Agents : LockWakeup(a) \/ SendDone(a)
           \/ \E t \in Tasks : SendToWorker(t)
           \/ UNCHANGED vars
  BY <1>3 DEF LockWakeup, SendDone, SendToWorker, vars
<1>4. CASE PeerNext
  BY <1>1, <1>4 DEF PeerNext, Accept, PeerRead, BeginClose, Lost, PeerSend
<1> QED BY <1>2, <1>3, <1>4 DEF Next, BridgeNext

(* stop() waits for a connection that was in the slot, so not for one that *)
(* was never made, and has asked it to close if it was open.               *)
LEMMA StopWaits ==
    ASSUME IInv, StopWaitsEnd, [StopNext]_allVars PROVE StopWaitsEnd'
<1>1. [Next]_vars /\ WaitsEnd'
  BY StopStepIsBridgeStep, NextKeepsWaits DEF StopWaitsEnd
<1>2. ASSUME stop' = "worker" PROVE stopee' \in Conns /\ ws'[stopee'] \in {"closing", "closed"}
  <2>1. CASE StopBegins
    <3>1. worker \in Conns /\ stopee' = worker /\ ws[worker] # "unborn"
      BY <1>2, <2>1, BridgeAssumption
         DEF StopBegins, IInv, TypeOK, SlotOwner, HandlerState, Installed
    <3>2. CASE WorkerConnected
      BY <2>1, <3>1, <3>2 DEF StopBegins, BeginClose, IInv, TypeOK
    <3>3. CASE ~WorkerConnected
      <4>1. ws' = ws /\ ws[worker] \in {"closing", "closed"}
        BY <2>1, <3>1, <3>3, BridgeAssumption
           DEF StopBegins, WorkerConnected, vars, IInv, TypeOK, WsStates
      <4> QED BY <3>1, <4>1
    <3> QED BY <3>2, <3>3
  <2>2. CASE UNCHANGED stopVars /\ stop = "worker"
    BY <1>1, <2>2, GoneStaysGone DEF stopVars, StopWaitsEnd
  <2>3. StopBegins \/ (UNCHANGED stopVars /\ stop = "worker")
    BY <1>2 DEF StopNext, Serves, StopWorkerClosed, StopReturns, ServerCloses, stopVars, allVars
  <2> QED BY <2>1, <2>2, <2>3
<1> QED BY <1>1, <1>2 DEF StopWaitsEnd

(* While the server shuts down nobody waits in vain either: neither the    *)
(* handlers and senders, whose slot may be wiped and taken meanwhile, nor  *)
(* stop() itself.                                                          *)
THEOREM StopWaitsForTheGone == StopSpec => []StopWaitsEnd
<1>1. StopInit => StopWaitsEnd
  BY ConnsAreAgents DEF StopInit, Init, WaitsEnd, StopWaitsEnd
<1>2. IInv /\ StopWaitsEnd /\ [StopNext]_allVars => StopWaitsEnd'
  BY StopWaits
<1>3. StopSpec => StopInit /\ [][StopNext]_allVars
  BY DEF StopSpec, allVars
<1> QED BY <1>1, <1>2, <1>3, StopKeepsBridge, PTL
=============================================================================
