----------------------------- MODULE WorkerLink -----------------------------
(***************************************************************************)
(* The worker bridge composed with the one client that dials it:           *)
(* src/client/connector.py (ServerConnector.run, _connect_and_listen).     *)
(*                                                                         *)
(* The client holds at most one connection, closes it when anything goes   *)
(* wrong, sleeps at least reconnect_delay and dials again.  Each of its    *)
(* connections is a connection of module WorkerBridge, with the client in  *)
(* the place of the arbitrary peer.                                        *)
(*                                                                         *)
(* The two ends learn that a connection is gone at different times.  When  *)
(* the network drops it with a reset both learn it; when it is cut         *)
(* silently, each end learns it from its own keepalive, so the client may  *)
(* be back while the server still serves its previous connection.          *)
(***************************************************************************)
EXTENDS WorkerBridge

CONSTANTS
    MaxDrops,   \* bound: connections reset
    MaxCuts     \* bound: connections cut silently

ASSUME LinkAssumption == MaxDrops \in Nat /\ MaxCuts \in Nat

VARIABLES
    cpc,        \* where the client's run loop stands
    cur,        \* the connection of this round: self._ws
    cli,        \* the client's end of each connection
    net,        \* whether frames pass
    drops, cuts

clientVars == <<cpc, cur, cli>>
netVars == <<net, drops, cuts>>
allVars == <<vars, clientVars, netVars>>

LinkInit ==
    /\ Init
    /\ cpc = "dialing"
    /\ cur = NoConn
    /\ cli = [c \in Conns |-> "none"]
    /\ net = [c \in Conns |-> "up"]
    /\ drops = 0 /\ cuts = 0

(* Types of the bridge, of the client's loop and of the network.           *)
LinkTypeOK ==
    /\ TypeOK
    /\ cpc \in {"dialing", "awaiting", "listening", "handling", "sleeping"}
    /\ cur \in Conns \cup {NoConn}
    /\ cli \in [Conns -> {"none", "open", "closed"}]
    /\ net \in [Conns -> {"up", "cut"}]
    /\ drops \in 0..MaxDrops /\ cuts \in 0..MaxCuts

(* The client has read its AUTH_OK and has not left the connection since.  *)
Attached == cpc \in {"listening", "handling"}

-----------------------------------------------------------------------------
(* The client.                                                             *)

(* connect(), then AUTH is the first frame written.                        *)
Dial(c) ==
    /\ cpc = "dialing"
    /\ ws[c] = "unborn"
    /\ ws' = [ws EXCEPT ![c] = "open"]
    /\ handler' = [handler EXCEPT ![c] = "starting"]
    /\ up' = [up EXCEPT ![c] = <<"auth">>]
    /\ cli' = [cli EXCEPT ![c] = "open"]
    /\ cur' = c
    /\ cpc' = "awaiting"
    /\ UNCHANGED <<down, closee, worker, authed, sendVars, netVars>>

(* Leaving "async with connect(...)" closes the client's end.              *)
Leave ==
    /\ cpc' = "sleeping"
    /\ cli' = [cli EXCEPT ![cur] = "closed"]
    /\ UNCHANGED cur

(* The first frame decides: anything but AUTH_OK ends the round.           *)
ReadReply ==
    /\ cpc = "awaiting"
    /\ net[cur] = "up"
    /\ IF down[cur] = <<>> THEN FALSE ELSE
         IF Head(down[cur]) = "auth_ok"
         THEN cpc' = "listening" /\ UNCHANGED <<cur, cli>>
         ELSE Leave
    /\ down' = [down EXCEPT ![cur] = Tail(@)]
    /\ UNCHANGED <<ws, up, handler, closee, worker, authed, sendVars, netVars>>

(* wait_for(ws.recv(), timeout=10) gives up: no reply is on its way, or    *)
(* the server is still closing the previous connection.                    *)
AuthTimeout ==
    /\ cpc = "awaiting"
    /\ \/ up[cur] = <<>> /\ down[cur] = <<>> /\ handler[cur] \in {"reading", "done"}
       \/ handler[cur] = "replacing"
    /\ Leave
    /\ UNCHANGED <<vars, netVars>>

(* "await self._on_message(msg)": a DATA message waits for the upstream's  *)
(* buffer to drain (client/relay.py), for ever when the upstream stops     *)
(* reading.  Until then no frame is read and no loss is noticed.           *)
ReadRelay ==
    /\ cpc = "listening"
    /\ net[cur] = "up"
    /\ PeerRead(cur)
    /\ \/ cpc' = "listening"
       \/ cpc' = "handling" /\ Head(down[cur]) = "relay"
    /\ UNCHANGED <<cur, cli, netVars>>

(* The awaited handler returns: nothing promises that it does.             *)
Handled ==
    /\ cpc = "handling"
    /\ cpc' = "listening"
    /\ UNCHANGED <<vars, cur, cli, netVars>>

(* The client finds its connection closed, or gets no pong.                *)
ConnectionClosed ==
    /\ cpc \in {"awaiting", "listening"}
    /\ ws[cur] \in {"closing", "closed"} \/ net[cur] = "cut"
    /\ Leave
    /\ UNCHANGED <<vars, netVars>>

(* The delay is 5 seconds, after the second loss 10 or more: by then the   *)
(* server has finished with every connection it knows to be gone, those    *)
(* included that waited for a predecessor to close (10 seconds at most, as *)
(* long as the client waits for the reply before it sleeps).  A connection *)
(* that was cut may still be OPEN there, or closing.                       *)
Settled ==
    /\ \A c \in Conns :
          /\ handler[c] \notin {"starting", "replacing"}
          /\ handler[c] = "reading" => up[c] = <<>>
          /\ net[c] = "up" \/ ws[c] = "closed" => handler[c] \in {"none", "done"}
    /\ sendq # <<>> => \E c \in Conns : net[c] = "cut" /\ ws[c] # "closed"

(* Mutant: the client dials again without a delay.                         *)
WakeAtOnce ==
    /\ cpc = "sleeping"
    /\ cpc' = "dialing"
    /\ UNCHANGED <<vars, cur, cli, netVars>>

Wake ==
    /\ cpc = "sleeping"
    /\ Settled
    /\ cpc' = "dialing"
    /\ UNCHANGED <<vars, cur, cli, netVars>>

ClientNext ==
    \/ \E c \in Conns : Dial(c)
    \/ ReadReply \/ AuthTimeout \/ ReadRelay \/ ConnectionClosed \/ Wake \/ Handled

-----------------------------------------------------------------------------
(* The network and the server's end of the library.                        *)

ServerSeesClose(c) ==
    /\ cli[c] = "closed" \/ net[c] = "cut" \/ handler[c] = "done"
    /\ BeginClose(c)
    /\ UNCHANGED <<clientVars, netVars>>

CloseCompletes(c) ==
    /\ ws[c] = "closing"
    /\ Lost(c)
    /\ UNCHANGED <<clientVars, netVars>>

Drop(c) ==
    /\ drops < MaxDrops
    /\ net[c] = "up"
    /\ Lost(c)
    /\ drops' = drops + 1
    /\ UNCHANGED <<clientVars, net, cuts>>

(* The library of a client stuck in its handler stops reading when its own *)
(* queue is full: no ping is answered, and a keepalive closes the          *)
(* connection.                                                             *)
KeepaliveFails(c) ==
    /\ drops < MaxDrops
    /\ c = cur /\ cpc = "handling" /\ Len(down[c]) = DownCap
    /\ BeginClose(c)
    /\ drops' = drops + 1
    /\ UNCHANGED <<clientVars, net, cuts>>

Cut(c) ==
    /\ cuts < MaxCuts
    /\ net[c] = "up" /\ cli[c] = "open" /\ ws[c] = "open"
    /\ net' = [net EXCEPT ![c] = "cut"]
    /\ cuts' = cuts + 1
    /\ up' \in {up, [up EXCEPT ![c] = <<>>]}     \* AUTH in flight may be lost
    /\ UNCHANGED <<ws, down, handler, closee, worker, authed, sendVars, clientVars, drops>>

NetNext ==
    \E c \in Conns :
        ServerSeesClose(c) \/ CloseCompletes(c) \/ Drop(c) \/ KeepaliveFails(c) \/ Cut(c)

-----------------------------------------------------------------------------
ServerNext == BridgeNext /\ UNCHANGED <<clientVars, netVars>>

LinkNext == ServerNext \/ ClientNext \/ NetNext

ServerStep(A) == A /\ UNCHANGED <<clientVars, netVars>>

(* Both event loops run; keepalives and close timeouts expire.  Nothing is *)
(* assumed of the handler the client awaits for each message.              *)
LinkFairness ==
    /\ \A c \in Conns :
        /\ WF_allVars(ServerStep(HandlerStep(c)))
        /\ WF_allVars(ServerSeesClose(c))
        /\ WF_allVars(CloseCompletes(c))
    /\ \A a \in Agents : WF_allVars(ServerStep(LockWakeup(a) \/ SendDone(a)))
    /\ WF_allVars(ClientNext /\ cpc # "handling")

LinkSpec == LinkInit /\ [][LinkNext]_allVars /\ LinkFairness

-----------------------------------------------------------------------------
(* Properties.                                                             *)

(* What the client believes while it holds a connection that is up is what *)
(* the server believes: that connection is in the slot and the flag is set *)
(* (or will be when the AUTH_OK it has read has drained), so bytes can     *)
(* reach the worker and come back.  Not so after a silent cut.             *)
Agreement ==
    cuts = 0 /\ Attached /\ ws[cur] = "open"
        => worker = cur /\ (authed \/ handler[cur] = "granting")

(* Whatever was cut and replaced, the slot never names another connection  *)
(* than the one an attached client holds: it is that one or empty, so the  *)
(* relay messages of a listener are lost or reach the client, never queue  *)
(* up on a connection nobody reads.                                        *)
SlotNotStale ==
    Attached /\ ws[cur] = "open" /\ net[cur] = "up" => worker \in {cur, NoConn}

LinkUp ==
    /\ Attached /\ net[cur] = "up" /\ ws[cur] = "open"
    /\ worker = cur /\ authed

(* The one way of not recovering, left to NoForgottenClient below: after a *)
(* silent cut the client listens on a connection, and the slot is empty.   *)
Forgotten == cuts > 0 /\ Attached /\ worker = NoConn

(* Bound: every connection of the instance has been dialed.                *)
OutOfConns == cpc = "dialing" /\ \A c \in Conns : ws[c] # "unborn"

(* A client whose message handlers all return has its link back after the  *)
(* last loss, for good, or it was forgotten after a silent cut: nothing    *)
(* else (a reply sent elsewhere, a flag cleared by another's finally, a    *)
(* slot held by a dead connection) keeps the two ends apart.  One that     *)
(* stays in a handler, behind an upstream that does not read, learns of no *)
(* loss and never dials again.                                             *)
LinkRecovers == []<>(cpc # "handling") => <>[](LinkUp \/ Forgotten \/ OutOfConns)

(* A replaced connection does not take its replacement down with it: a     *)
(* client that has its AUTH_OK has the link, or learns that it has not.    *)
NoForgottenClient == cpc = "listening" ~> LinkUp \/ cpc # "listening"

(* Whether a connection cannot have the link any more: an end is closed,   *)
(* it was cut, or its handler has had the slot and lost it.                *)
Over(c) ==
    \/ cli[c] = "closed" \/ ws[c] \in {"closing", "closed"} \/ net[c] = "cut"
    \/ handler[c] \in Installed \cup {"done"} /\ worker # c

Phase ==
    [c \in Conns |-> IF c = cur /\ LinkUp THEN "linked"
                     ELSE IF Over(c) THEN "over" ELSE "new"]

Sessions == INSTANCE Session WITH phase <- Phase

(* However connections are reset, cut and replaced and however late the    *)
(* server learns of it, one connection at a time has the link, each has it *)
(* once, and one that has lost it never gets it back (the slot and the     *)
(* flag of worker_bridge.py, seen from both ends).                         *)
OneSession == Sessions!Spec
=============================================================================
