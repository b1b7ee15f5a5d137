---------------------------- MODULE WorkerBridge ----------------------------
(***************************************************************************)
(* server/worker_bridge.py: the slot that holds "the" worker connection.   *)
(*                                                                         *)
(* Several connections may be alive at once: an old one that is being      *)
(* closed, a new one that replaces it, a third one that arrives meanwhile. *)
(* Each has a handler coroutine (_handle_worker_connection).  All handlers *)
(* share one slot (_worker), one authentication flag (_authenticated) and  *)
(* one send lock (_send_lock), and the listener tasks of the relay server  *)
(* send through the slot while the handlers change it.                     *)
(*                                                                         *)
(* One action is what one coroutine does between two awaits that can       *)
(* yield.  An asyncio lock that is free is taken without yielding, so      *)
(* checking the slot, taking a free _send_lock and writing the frame is    *)
(* one action; a task that finds the lock taken waits in FIFO order and    *)
(* reads the slot AGAIN when it wakes up.                                  *)
(*                                                                         *)
(* The websockets library is external: a connection is OPEN, CLOSING or    *)
(* CLOSED as seen by the server; close() returns once it is CLOSED; send() *)
(* on an OPEN connection queues the frame and may wait for it to drain, on *)
(* a CLOSING one it waits for CLOSED and raises, on a CLOSED one it raises.*)
(***************************************************************************)
EXTENDS Naturals, Sequences, FiniteSets

CONSTANTS
    Conns,      \* worker connections, in no particular order
    Tasks,      \* coroutines that call send_to_worker
    NoConn,     \* the slot's None
    UpKinds,    \* bound: the kinds of frame the peers send
    UpCap,      \* bound: frames in flight from a peer
    DownCap     \* bound: frames in flight to a peer

ASSUME BridgeAssumption ==
    /\ NoConn \notin Conns
    /\ Conns \cap Tasks = {}
    /\ UpKinds \subseteq {"auth", "badauth", "auth_ok", "other", "garbage"}
    /\ UpCap \in Nat /\ DownCap \in Nat

VARIABLES
    ws,         \* server-side state of each connection
    up,         \* frames the peer has sent and the handler has not read
    down,       \* frames written to the connection and not yet read
    handler,    \* where each connection's handler coroutine stands
    closee,     \* the connection a replacing handler waits to see closed
    worker,     \* self._worker
    authed,     \* self._authenticated
    sendq,      \* self._send_lock: its holder, then its waiters
    sender,     \* where each sending coroutine stands in _send_raw
    target      \* the connection a sender holding the lock is awaiting

linkVars == <<ws, up, down>>
sendVars == <<sendq, sender, target>>
vars == <<ws, up, down, handler, closee, worker, authed, sendq, sender, target>>

Agents == Conns \cup Tasks

(* What a peer may send; "garbage" is a frame from_json rejects, "other" a *)
(* relay message, PONG or AUTH_FAIL: nothing here depends on which.        *)
UpFrames == {"auth", "badauth", "auth_ok", "other", "garbage"}
DownFrames == {"auth_ok", "auth_fail", "relay"}

WsStates == {"unborn", "open", "closing", "closed"}
HandlerStates == {"none", "starting", "replacing", "reading",
                  "granting", "refusing", "done"}
SenderStates == {"idle", "waiting", "draining", "failing"}

(* A handler that has taken the slot and has not run its finally block.    *)
Installed == {"reading", "granting", "refusing"}

Init ==
    /\ ws = [c \in Conns |-> "unborn"]
    /\ up = [c \in Conns |-> <<>>]
    /\ down = [c \in Conns |-> <<>>]
    /\ handler = [c \in Conns |-> "none"]
    /\ closee = [c \in Conns |-> NoConn]
    /\ worker = NoConn
    /\ authed = FALSE
    /\ sendq = <<>>
    /\ sender = [a \in Agents |-> "idle"]
    /\ target = [a \in Agents |-> NoConn]

WorkerConnected == worker # NoConn /\ ws[worker] = "open"

(* Whether there is no connection to write to: None, or one that is gone.  *)
SlotDead == IF worker = NoConn THEN TRUE ELSE ws[worker] = "closed"

-----------------------------------------------------------------------------
(* The connections and their peers (external).                             *)

(* The library accepts a connection and starts its handler.                *)
Accept(c) ==
    /\ ws[c] = "unborn"
    /\ ws' = [ws EXCEPT ![c] = "open"]
    /\ handler' = [handler EXCEPT ![c] = "starting"]
    /\ UNCHANGED <<up, down, closee, worker, authed, sendVars>>

PeerSend(c, m) ==
    /\ ws[c] = "open"
    /\ Len(up[c]) < UpCap
    /\ up' = [up EXCEPT ![c] = Append(@, m)]
    /\ UNCHANGED <<ws, down, handler, closee, worker, authed, sendVars>>

PeerRead(c) ==
    /\ down[c] # <<>>
    /\ down' = [down EXCEPT ![c] = Tail(@)]
    /\ UNCHANGED <<ws, up, handler, closee, worker, authed, sendVars>>

(* A close handshake starts: by the peer, or by the keepalive when a ping  *)
(* (ping_interval=20, ping_timeout=10) is not answered.                    *)
BeginClose(c) ==
    /\ ws[c] = "open"
    /\ ws' = [ws EXCEPT ![c] = "closing"]
    /\ UNCHANGED <<up, down, handler, closee, worker, authed, sendVars>>

(* The library closes the connection of a handler that has returned.       *)
CloseAfterHandler(c) == handler[c] = "done" /\ BeginClose(c)

(* The TCP connection goes away: reset, handshake done, or close timeout.  *)
Lost(c) ==
    /\ ws[c] \in {"open", "closing"}
    /\ ws' = [ws EXCEPT ![c] = "closed"]
    /\ down' = [down EXCEPT ![c] = <<>>]
    /\ UNCHANGED <<up, handler, closee, worker, authed, sendVars>>

-----------------------------------------------------------------------------
(* _send_raw, shared by the handlers (AUTH replies) and by the tasks.      *)

(* Mutant: the lock is not released.                                       *)
SendReturnsHolding(a, f, q) ==
    /\ sendq' = sendq
    /\ sender' = [sender EXCEPT ![a] = "idle"]
    /\ target' = [target EXCEPT ![a] = NoConn]
    /\ authed' = (authed \/ f = "auth_ok")
    /\ handler' = IF a \in Conns THEN [handler EXCEPT ![a] = "reading"] ELSE handler

(* Mutant: AUTH_OK is sent and the flag is not set.                        *)
SendReturnsForgetful(a, f, q) ==
    /\ sendq' = IF q = <<>> THEN sendq ELSE Tail(q)
    /\ sender' = [sender EXCEPT ![a] = "idle"]
    /\ target' = [target EXCEPT ![a] = NoConn]
    /\ handler' = IF a \in Conns THEN [handler EXCEPT ![a] = "reading"] ELSE handler
    /\ UNCHANGED authed

(* a's send is over; q is the lock queue with a at its head, or empty when *)
(* a never took the lock.  A handler ignores the result, sets the flag if  *)
(* it was granting (its frame is "auth_ok") and reads the next frame.      *)
SendReturns(a, f, q) ==
    /\ sendq' = IF q = <<>> THEN sendq ELSE Tail(q)
    /\ sender' = [sender EXCEPT ![a] = "idle"]
    /\ target' = [target EXCEPT ![a] = NoConn]
    /\ authed' = (authed \/ f = "auth_ok")
    /\ handler' = IF a \in Conns THEN [handler EXCEPT ![a] = "reading"] ELSE handler

(* a's send is not over: a is in lock queue q, in state s, awaiting c.     *)
SendPauses(a, f, q, s, c) ==
    /\ sendq' = q
    /\ sender' = [sender EXCEPT ![a] = s]
    /\ target' = [target EXCEPT ![a] = c]
    /\ handler' = IF a \in Conns
                  THEN [handler EXCEPT ![a] = IF f = "auth_ok" THEN "granting" ELSE "refusing"]
                  ELSE handler
    /\ UNCHANGED authed

(* The body of "async with self._send_lock": the slot is read again.       *)
Write(a, f, q) ==
    \/ /\ SlotDead
       /\ SendReturns(a, f, q)
       /\ UNCHANGED down
    \/ /\ worker # NoConn /\ ws[worker] = "closing"
       /\ SendPauses(a, f, q, "failing", worker)
       /\ UNCHANGED down
    \/ /\ WorkerConnected
       /\ Len(down[worker]) < DownCap
       /\ down' = [down EXCEPT ![worker] = Append(@, f)]
       /\ \/ SendReturns(a, f, q)
          \/ SendPauses(a, f, q, "draining", worker)

SendRaw(a, f) ==
    \/ /\ ~WorkerConnected
       /\ SendReturns(a, f, <<>>)
       /\ UNCHANGED down
    \/ /\ WorkerConnected /\ sendq # <<>>
       /\ SendPauses(a, f, Append(sendq, a), "waiting", NoConn)
       /\ UNCHANGED down
    \/ /\ WorkerConnected /\ sendq = <<>>
       /\ Write(a, f, <<a>>)

Frame(a) ==
    CASE a \in Tasks -> "relay"
      [] a \in Conns /\ handler[a] = "granting" -> "auth_ok"
      [] OTHER -> "auth_fail"

(* The lock's first waiter wakes up.                                       *)
LockWakeup(a) ==
    /\ sender[a] = "waiting"
    /\ Head(sendq) = a
    /\ Write(a, Frame(a), sendq)
    /\ UNCHANGED <<ws, up, closee, worker>>

(* The awaited send() ends: the buffer drained, or the connection is gone. *)
SendDone(a) ==
    /\ \/ sender[a] = "draining"
       \/ sender[a] = "failing" /\ ws[target[a]] = "closed"
    /\ SendReturns(a, Frame(a), sendq)
    /\ UNCHANGED <<ws, up, down, closee, worker>>

(* send_to_worker: the flag is checked here, before any wait for the lock. *)
SendToWorker(t) ==
    /\ sender[t] = "idle"
    /\ WorkerConnected /\ authed
    /\ SendRaw(t, "relay")
    /\ UNCHANGED <<ws, up, closee, worker>>

-----------------------------------------------------------------------------
(* _handle_worker_connection and _process_worker_message.                  *)

(* "self._worker = ws; self._authenticated.clear()"                        *)
Install(c) ==
    /\ worker' = c
    /\ authed' = FALSE
    /\ handler' = [handler EXCEPT ![c] = "reading"]

(* Mutant: the slot is taken before the old connection is closed.          *)
HandlerStartEarly(c) ==
    /\ handler[c] = "starting"
    /\ IF WorkerConnected
       THEN /\ ws' = [ws EXCEPT ![worker] = "closing"]
            /\ closee' = [closee EXCEPT ![c] = worker]
            /\ handler' = [handler EXCEPT ![c] = "replacing"]
            /\ worker' = c
            /\ UNCHANGED authed
       ELSE Install(c) /\ UNCHANGED <<ws, closee>>
    /\ UNCHANGED <<up, down, sendVars>>

(* Mutant: the old connection is waited for but not closed.                *)
HandlerStartWaits(c) ==
    /\ handler[c] = "starting"
    /\ IF WorkerConnected
       THEN /\ closee' = [closee EXCEPT ![c] = worker]
            /\ handler' = [handler EXCEPT ![c] = "replacing"]
            /\ UNCHANGED <<worker, authed>>
       ELSE Install(c) /\ UNCHANGED closee
    /\ UNCHANGED <<ws, up, down, sendVars>>

(* The handler starts: an OPEN worker is asked to close and awaited first. *)
HandlerStart(c) ==
    /\ handler[c] = "starting"
    /\ IF WorkerConnected
       THEN /\ ws' = [ws EXCEPT ![worker] = "closing"]
            /\ closee' = [closee EXCEPT ![c] = worker]
            /\ handler' = [handler EXCEPT ![c] = "replacing"]
            /\ UNCHANGED <<worker, authed>>
       ELSE Install(c) /\ UNCHANGED <<ws, closee>>
    /\ UNCHANGED <<up, down, sendVars>>

(* Mutant: the slot is taken only if the old connection is still in it.    *)
HandlerReplacedIfThere(c) ==
    /\ handler[c] = "replacing"
    /\ ws[closee[c]] = "closed" /\ worker = closee[c]
    /\ closee' = [closee EXCEPT ![c] = NoConn]
    /\ Install(c)
    /\ UNCHANGED <<linkVars, sendVars>>

(* The awaited close() returned: the slot is taken, whoever is in it now.  *)
HandlerReplaced(c) ==
    /\ handler[c] = "replacing"
    /\ ws[closee[c]] = "closed"
    /\ closee' = [closee EXCEPT ![c] = NoConn]
    /\ Install(c)
    /\ UNCHANGED <<linkVars, sendVars>>

Reading(c) == handler[c] = "reading" /\ up[c] # <<>>
Consume(c) == up' = [up EXCEPT ![c] = Tail(@)]

(* AUTH from any connection while the flag is clear: the reply goes to     *)
(* whatever connection is in the slot.                                     *)
HandleAuth(c) ==
    /\ Reading(c)
    /\ Head(up[c]) \in {"auth", "badauth"} /\ ~authed
    /\ Consume(c)
    /\ SendRaw(c, IF Head(up[c]) = "auth" THEN "auth_ok" ELSE "auth_fail")
    /\ UNCHANGED <<ws, closee, worker>>

(* AUTH_OK from the peer sets the flag, whatever the peer is.              *)
HandleAuthOk(c) ==
    /\ Reading(c)
    /\ Head(up[c]) = "auth_ok"
    /\ Consume(c)
    /\ authed' = TRUE
    /\ UNCHANGED <<ws, down, handler, closee, worker, sendVars>>

(* Frames that change nothing here: AUTH when the flag is set, anything    *)
(* else when it is clear, PONG, AUTH_FAIL, and the relay messages, which   *)
(* are put on the request's queue (module RelayServer).                    *)
HandleOther(c) ==
    /\ Reading(c)
    /\ \/ Head(up[c]) = "other"
       \/ Head(up[c]) \in {"auth", "badauth"} /\ authed
    /\ Consume(c)
    /\ UNCHANGED <<ws, down, handler, closee, worker, authed, sendVars>>

(* Mutant: the slot is not cleared.                                        *)
FinallyKeepsSlot(c) ==
    /\ authed' = FALSE
    /\ handler' = [handler EXCEPT ![c] = "done"]
    /\ UNCHANGED worker

(* The finally block: it clears the slot without looking who is in it.     *)
Finally(c) ==
    /\ worker' = NoConn
    /\ authed' = FALSE
    /\ handler' = [handler EXCEPT ![c] = "done"]

(* The loop ends: the connection is closed, or a frame does not parse.     *)
HandlerExit(c) ==
    /\ handler[c] = "reading"
    /\ \/ ws[c] = "closed" /\ up' = [up EXCEPT ![c] = <<>>]
       \/ Reading(c) /\ Head(up[c]) = "garbage" /\ Consume(c)
    /\ Finally(c)
    /\ UNCHANGED <<ws, down, closee, sendVars>>

-----------------------------------------------------------------------------
HandlerStep(c) ==
    \/ HandlerStart(c) \/ HandlerReplaced(c)
    \/ HandleAuth(c) \/ HandleAuthOk(c) \/ HandleOther(c) \/ HandlerExit(c)

(* What the program does, whatever its peers do.                           *)
BridgeNext ==
    \/ \E c \in Conns : HandlerStep(c)
    \/ \E a \in Agents : LockWakeup(a) \/ SendDone(a)
    \/ \E t \in Tasks : SendToWorker(t)

PeerNext ==
    \E c \in Conns :
        \/ Accept(c) \/ PeerRead(c) \/ BeginClose(c) \/ Lost(c)
        \/ \E m \in UpKinds : PeerSend(c, m)

Next == BridgeNext \/ PeerNext

(* The event loop runs every ready coroutine.  A close handshake ends: the *)
(* library drops the connection after close_timeout.  A buffer drains or   *)
(* the keepalive finds the peer dead: a library peer that reads nothing    *)
(* answers no ping either.                                                 *)
Fairness ==
    /\ \A c \in Conns :
        /\ WF_vars(HandlerStep(c))
        /\ WF_vars(ws[c] = "closing" /\ Lost(c))
        /\ WF_vars(CloseAfterHandler(c))
        /\ WF_vars(PeerRead(c))
    /\ \A a \in Agents : WF_vars(LockWakeup(a)) /\ WF_vars(SendDone(a))

Spec == Init /\ [][Next]_vars /\ Fairness

-----------------------------------------------------------------------------
(* Properties.                                                             *)

(* Types of the connections, the slot, the lock queue and the senders.     *)
TypeOK ==
    /\ ws \in [Conns -> WsStates]
    /\ up \in [Conns -> Seq(UpFrames)]
    /\ down \in [Conns -> Seq(DownFrames)]
    /\ handler \in [Conns -> HandlerStates]
    /\ closee \in [Conns -> Conns \cup {NoConn}]
    /\ worker \in Conns \cup {NoConn}
    /\ authed \in BOOLEAN
    /\ sendq \in Seq(Agents)
    /\ sender \in [Agents -> SenderStates]
    /\ target \in [Agents -> Conns \cup {NoConn}]

(* The connection in the slot has a handler that is between taking the     *)
(* slot and its finally block: however handlers overlap, replace each      *)
(* other and wipe each other's slot, the slot never names a connection     *)
(* nobody serves any more, or one that has not taken it yet.               *)
SlotOwner == worker # NoConn => handler[worker] \in Installed

(* The send lock is handed over, never leaked: the queue holds exactly the *)
(* coroutines inside _send_raw, each once; only its head is past the lock. *)
LockDiscipline ==
    /\ \A i, j \in 1..Len(sendq) : i # j => sendq[i] # sendq[j]
    /\ \A a \in Agents : sender[a] # "idle" <=> \E i \in 1..Len(sendq) : sendq[i] = a
    /\ \A i \in 2..Len(sendq) : sender[sendq[i]] = "waiting"

(* A frame is written only to a connection that took the slot: a peer that *)
(* is still waiting for its predecessor to close is sent nothing.          *)
NothingBeforeInstall ==
    \A c \in Conns : down[c] # <<>> => handler[c] \in Installed \cup {"done"}

(* Nobody waits in vain or in a circle: the connection a replacing handler *)
(* waits for is going away and its own handler waits for no predecessor;   *)
(* a send that holds the lock for a connection that was going away waits   *)
(* for that one and no other, whatever has happened to the slot since.     *)
WaitsEnd ==
    /\ \A c \in Conns : handler[c] = "replacing" =>
          /\ closee[c] \in Conns /\ ws[closee[c]] \in {"closing", "closed"}
          /\ handler[closee[c]] \in Installed \cup {"done"}
    /\ \A a \in Agents : sender[a] = "failing" =>
          target[a] \in Conns /\ ws[target[a]] \in {"closing", "closed"}

(* Every send_to_worker returns: a dead or stalled connection never keeps  *)
(* the lock, and so the listeners of all clients, forever.                 *)
SendsReturn == \A t \in Tasks : sender[t] # "idle" ~> sender[t] = "idle"

(* A handler that closes its predecessor gets the slot in the end.         *)
ReplacementEnds ==
    \A c \in Conns : handler[c] \in {"starting", "replacing"} ~> handler[c] \in Installed

(* A connection that is gone does not stay in the slot, even when its      *)
(* handler was in the middle of a reply.                                   *)
DeadWorkerLeaves == SlotDead ~> worker = NoConn \/ ~SlotDead
=============================================================================
