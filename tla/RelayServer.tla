---------------------------- MODULE RelayServer ----------------------------
(***************************************************************************)
(* The relay server without the details of the worker connection:          *)
(* server/client_listener.py (one coroutine per external client),          *)
(* server/connection_manager.py (_clients, cleanup_idle), the data queues  *)
(* of server/worker_bridge.py and server/relay_server.py (_response_relay).*)
(*                                                                         *)
(* Three kinds of coroutine meet here.  The listener of a request uploads  *)
(* the client's bytes and cleans up; the one response relay moves          *)
(* everybody's responses from the queues to the sockets; the idle cleanup  *)
(* closes clients.  All three close clients, and wait for the close.       *)
(*                                                                         *)
(* External: the clients (peers), the TCP sockets, and the worker's end,   *)
(* which answers a REQUEST with DATA 1, 2, ... and END or ERROR.  The link *)
(* to the worker (module WorkerLink) is up or down; what is sent while it  *)
(* is down is lost.                                                        *)
(***************************************************************************)
EXTENDS Naturals, Sequences, FiniteSets

CONSTANTS
    Reqs,       \* request ids: one per external client connection
    NoReq,
    Stallers,   \* clients that may stop reading for good
    MayHalfClose, \* whether clients shut down their sending side early
    MayTimeout, \* whether the read timeouts of the listener expire
    MayIdle,    \* whether clients come to be idle for client_idle_timeout
    MaxData,    \* bound: response chunks per request
    MaxUp,      \* bound: chunks a client sends
    HighWater,  \* chunks in a socket buffer above which drain() waits
    MaxFlaps    \* bound: times the link goes down

ASSUME ServerAssumption ==
    /\ NoReq \notin Reqs /\ Stallers \subseteq Reqs
    /\ MayHalfClose \in BOOLEAN /\ MayTimeout \in BOOLEAN /\ MayIdle \in BOOLEAN
    /\ MaxData \in Nat /\ MaxUp \in Nat /\ HighWater \in Nat /\ MaxFlaps \in Nat

VARIABLES
    peer,       \* each client: "none", "open", "eof" (half-closed), "gone"
    sent, inb,  \* chunks the client has sent; those the listener has not read
    sock,       \* the server's end of the client's connection
    buf, got,   \* response chunks in the socket buffer; read by the client
    pc,         \* where the listener coroutine of the request stands
    clients,    \* ConnectionManager._clients
    idle,       \* clients whose idle_time is above client_idle_timeout
    queues,     \* keys of WorkerBridge._data_queue
    q,          \* content of each request's queue
    rpc, rcur, todo,    \* the response relay: place, request, ids to visit
    kpc, kcur, ktodo,   \* the idle cleanup: place, client, ids to close
    link, flaps,        \* whether send_to_worker can succeed
    wk, wsent, told     \* the worker's end: state, DATA sent, CLOSE received

peerVars == <<peer, sent, got>>
tableVars == <<clients, idle, queues>>
relayVars == <<rpc, rcur, todo>>
cleanVars == <<kpc, kcur, ktodo>>
linkVars == <<link, flaps>>
workVars == <<wk, wsent, told>>
connVars == <<inb, sock, buf>>
loopVars == <<relayVars, cleanVars>>
endVars == <<peerVars, linkVars, workVars>>
vars == <<connVars, pc, tableVars, q, loopVars, endVars>>

END == MaxData + 1      \* END and ERROR, after every DATA number
Message == 1..END

Init ==
    /\ peer = [r \in Reqs |-> "none"]
    /\ sent = [r \in Reqs |-> 0] /\ inb = [r \in Reqs |-> 0]
    /\ sock = [r \in Reqs |-> "none"]
    /\ buf = [r \in Reqs |-> <<>>] /\ got = [r \in Reqs |-> <<>>]
    /\ pc = [r \in Reqs |-> "none"]
    /\ clients = {} /\ idle = {} /\ queues = {}
    /\ q = [r \in Reqs |-> <<>>]
    /\ rpc = "check" /\ rcur = NoReq /\ todo = {}
    /\ kpc = "sleep" /\ kcur = NoReq /\ ktodo = {}
    /\ link = "up" /\ flaps = 0
    /\ wk = [r \in Reqs |-> "none"]
    /\ wsent = [r \in Reqs |-> 0] /\ told = [r \in Reqs |-> FALSE]

-----------------------------------------------------------------------------
(* Clients and sockets (external).                                         *)

(* start_server calls the handler, which registers the client at once.     *)
Connect(r) ==
    /\ pc[r] = "none"
    /\ peer' = [peer EXCEPT ![r] = "open"]
    /\ sock' = [sock EXCEPT ![r] = "open"]
    /\ clients' = clients \cup {r}
    /\ pc' = [pc EXCEPT ![r] = "first"]
    /\ UNCHANGED <<sent, got, inb, buf, idle, queues, q, loopVars, linkVars, workVars>>

PeerSend(r) ==
    /\ peer[r] = "open" /\ sock[r] = "open"
    /\ sent[r] < MaxUp
    /\ sent' = [sent EXCEPT ![r] = @ + 1]
    /\ inb' = [inb EXCEPT ![r] = @ + 1]
    /\ UNCHANGED <<peer, got, sock, buf, pc, tableVars, q, loopVars, linkVars,
                   workVars>>

PeerRead(r) ==
    /\ peer[r] \in {"open", "eof"} /\ buf[r] # <<>>
    /\ buf' = [buf EXCEPT ![r] = Tail(@)]
    /\ got' = [got EXCEPT ![r] = Append(@, Head(buf[r]))]
    /\ UNCHANGED <<peer, sent, inb, sock, pc, tableVars, q, loopVars, linkVars,
                   workVars>>

(* The client shuts down its sending side and waits for the response.      *)
HalfClose(r) ==
    /\ MayHalfClose
    /\ peer[r] = "open" /\ sock[r] = "open"
    /\ peer' = [peer EXCEPT ![r] = "eof"]
    /\ UNCHANGED <<sent, got, connVars, pc, tableVars, q, loopVars, linkVars, workVars>>

PeerGone(r) ==
    /\ peer[r] \in {"open", "eof"}
    /\ peer' = [peer EXCEPT ![r] = "gone"]
    /\ UNCHANGED <<sent, got, connVars, pc, tableVars, q, loopVars, linkVars, workVars>>

(* A closing socket closes when its buffer is flushed; a reset closes it.  *)
SockClosed(r) ==
    /\ \/ sock[r] = "closing" /\ buf[r] = <<>>
       \/ sock[r] \in {"open", "closing"} /\ peer[r] = "gone"
    /\ sock' = [sock EXCEPT ![r] = "closed"]
    /\ buf' = [buf EXCEPT ![r] = <<>>]
    /\ UNCHANGED <<endVars, inb, pc, tableVars, q, loopVars>>

(* Time passes without a response chunk for this client.                   *)
GoIdle(r) ==
    /\ MayIdle
    /\ r \in clients \ idle
    /\ idle' = idle \cup {r}
    /\ UNCHANGED <<endVars, connVars, pc, clients, queues, q, loopVars>>

-----------------------------------------------------------------------------
(* The link and the worker's end (external here, see WorkerLink, TCPRelay).*)

LinkDown ==
    /\ link = "up" /\ flaps < MaxFlaps
    /\ link' = "down" /\ flaps' = flaps + 1
    /\ UNCHANGED <<peerVars, connVars, pc, tableVars, q, loopVars, workVars>>

LinkBack ==
    /\ link = "down"
    /\ link' = "up"
    /\ UNCHANGED <<flaps, peerVars, connVars, pc, tableVars, q, loopVars, workVars>>

(* _process_worker_message: a message for an unknown request is dropped.   *)
Arrive(r, m) == q' = IF r \in queues THEN [q EXCEPT ![r] = Append(@, m)] ELSE q

WorkerData(r) ==
    /\ wk[r] = "serving" /\ link = "up"
    /\ wsent[r] < MaxData
    /\ wsent' = [wsent EXCEPT ![r] = @ + 1]
    /\ Arrive(r, wsent[r] + 1)
    /\ UNCHANGED <<peerVars, connVars, pc, tableVars, loopVars, linkVars, wk, told>>

(* END or ERROR: the upstream is done, or CLOSE was received.              *)
WorkerEnd(r) ==
    /\ wk[r] = "serving"
    /\ wk' = [wk EXCEPT ![r] = "ended"]
    /\ IF link = "up" THEN Arrive(r, END) ELSE UNCHANGED q
    /\ UNCHANGED <<peerVars, connVars, pc, tableVars, loopVars, linkVars, wsent, told>>

-----------------------------------------------------------------------------
(* ConnectionManager.close_client, up to the await of wait_closed().       *)

(* Mutant: the client is popped, its writer is left to somebody else.      *)
PopForgetsClose(r) ==
    /\ clients' = clients \ {r}
    /\ idle' = idle \ {r}
    /\ UNCHANGED sock

(* The client is popped and its writer closed; nothing when it is absent.  *)
PopAndClose(r) ==
    /\ clients' = clients \ {r}
    /\ idle' = idle \ {r}
    /\ sock' = IF r \in clients /\ sock[r] = "open"
               THEN [sock EXCEPT ![r] = "closing"] ELSE sock

WaitClosed(r) == sock[r] = "closed"

-----------------------------------------------------------------------------
(* ClientListener._handle_client and _relay_client_to_worker.              *)

Goto(r, place) == pc' = [pc EXCEPT ![r] = place]

(* What read() returns: a chunk, or b"" once nothing more can come.  When  *)
(* the socket is closed, buffered chunks are lost after a reset only.      *)
CanRead(r) == inb[r] > 0
AtEof(r) == sock[r] = "closed" \/ (inb[r] = 0 /\ peer[r] = "eof" /\ sock[r] = "open")

(* The first chunk: the queue is registered before REQUEST is sent.        *)
FirstChunk(r) ==
    /\ pc[r] = "first" /\ CanRead(r)
    /\ inb' = [inb EXCEPT ![r] = @ - 1]
    /\ queues' = queues \cup {r}
    /\ Goto(r, "requesting")
    /\ UNCHANGED <<endVars, sock, buf, clients, idle, q, loopVars>>

(* No first chunk: close_client() and return; the finally block closes the *)
(* client again, so the first of the two calls is left to it.              *)
FirstEof(r) ==
    /\ pc[r] = "first" /\ AtEof(r)
    /\ Goto(r, "finally")
    /\ UNCHANGED <<endVars, connVars, tableVars, q, loopVars>>

FirstTimeout(r) ==
    /\ MayTimeout
    /\ pc[r] = "first" /\ inb[r] = 0
    /\ Goto(r, "finally")
    /\ UNCHANGED <<endVars, connVars, tableVars, q, loopVars>>

(* send_to_worker(REQUEST) returns; a failure closes the client.           *)
Requested(r) ==
    /\ pc[r] = "requesting"
    /\ IF link = "up"
       THEN wk' = [wk EXCEPT ![r] = "serving"] /\ Goto(r, "relay")
       ELSE UNCHANGED wk /\ Goto(r, "finally")
    /\ UNCHANGED <<peerVars, connVars, tableVars, q, loopVars, linkVars, wsent, told>>

RelayChunk(r) ==
    /\ pc[r] = "relay" /\ CanRead(r)
    /\ inb' = [inb EXCEPT ![r] = @ - 1]
    /\ Goto(r, "sending")
    /\ UNCHANGED <<endVars, sock, buf, tableVars, q, loopVars>>

(* send_to_worker(DATA) returns; a failure ends the loop without CLOSE.    *)
Sent(r) ==
    /\ pc[r] = "sending"
    /\ Goto(r, IF link = "up" THEN "relay" ELSE "finally")
    /\ UNCHANGED <<endVars, connVars, tableVars, q, loopVars>>

(* Mutant: the loop ends without CLOSE.                                    *)
RelayEndsQuietly(r) ==
    /\ pc[r] = "relay"
    /\ AtEof(r) \/ (MayTimeout /\ inb[r] = 0)
    /\ Goto(r, "finally")
    /\ UNCHANGED <<endVars, connVars, tableVars, q, loopVars>>

(* EOF, the read timeout or a reset: CLOSE is to be sent.                  *)
RelayEnds(r) ==
    /\ pc[r] = "relay"
    /\ AtEof(r) \/ (MayTimeout /\ inb[r] = 0)
    /\ Goto(r, "farewell")
    /\ UNCHANGED <<endVars, connVars, tableVars, q, loopVars>>

(* send_to_worker(CLOSE) returns, its result is ignored.                   *)
Farewell(r) ==
    /\ pc[r] = "farewell"
    /\ told' = [told EXCEPT ![r] = link = "up"]
    /\ Goto(r, "finally")
    /\ UNCHANGED <<peerVars, connVars, tableVars, q, loopVars, linkVars, wk, wsent>>

(* Mutant: the queue stays registered.                                     *)
UnregisterForgotten(r) == Goto(r, "leaving") /\ UNCHANGED queues

(* After close_client: unregister_queue(conn_id) and writer.close().       *)
Unregister(r) ==
    /\ queues' = queues \ {r}
    /\ Goto(r, "leaving")

(* finally: close_client(conn_id) waits if the client was still there.     *)
FinallyClose(r) ==
    /\ pc[r] = "finally"
    /\ PopAndClose(r)
    /\ IF r \in clients THEN Goto(r, "closing") /\ UNCHANGED queues ELSE Unregister(r)
    /\ UNCHANGED <<endVars, inb, buf, q, loopVars>>

FinallyWait(r) ==
    /\ pc[r] = "closing" /\ WaitClosed(r)
    /\ Unregister(r)
    /\ UNCHANGED <<endVars, connVars, clients, idle, q, loopVars>>

(* Mutant: the listener waits until all of the response has been taken     *)
(* from its queue.                                                         *)
FinallyDoneDrained(r) ==
    /\ pc[r] = "leaving" /\ WaitClosed(r) /\ q[r] = <<>>
    /\ Goto(r, "done")
    /\ UNCHANGED <<endVars, connVars, tableVars, q, loopVars>>

(* The finally block's own writer.close() has been waited for.             *)
FinallyDone(r) ==
    /\ pc[r] = "leaving" /\ WaitClosed(r)
    /\ Goto(r, "done")
    /\ UNCHANGED <<endVars, connVars, tableVars, q, loopVars>>

ListenerStep(r) ==
    \/ FirstChunk(r) \/ FirstEof(r) \/ FirstTimeout(r) \/ Requested(r)
    \/ RelayChunk(r) \/ Sent(r) \/ RelayEnds(r) \/ Farewell(r)
    \/ FinallyClose(r) \/ FinallyWait(r) \/ FinallyDone(r)

-----------------------------------------------------------------------------
(* RelayServer._response_relay: one coroutine for all clients.  It yields  *)
(* in its sleep ("check"), in drain() and in wait_closed(); while it scans *)
(* the queues and moves messages no other coroutine runs.                  *)

Yielded == rpc \in {"check", "draining", "closing"}

(* Queues are visited only while the worker is connected.                  *)
RelayCheck ==
    /\ rpc = "check" /\ link = "up"
    /\ todo' = queues
    /\ rpc' = "scan"
    /\ UNCHANGED <<rcur, endVars, connVars, pc, tableVars, q, cleanVars>>

(* The next id of the snapshot; a queue unregistered since is skipped.     *)
RelayVisit ==
    /\ rpc = "scan"
    /\ IF todo \cap queues = {}
       THEN rpc' = "check" /\ todo' = {} /\ UNCHANGED rcur
       ELSE \E r \in todo \cap queues : rpc' = "drain" /\ rcur' = r /\ todo' = todo \ {r}
    /\ UNCHANGED <<endVars, connVars, pc, tableVars, q, cleanVars>>

(* The queue is empty: the next id.                                        *)
RelayDrained ==
    /\ rpc = "drain" /\ q[rcur] = <<>>
    /\ rpc' = "scan" /\ rcur' = NoReq
    /\ UNCHANGED <<todo, endVars, connVars, pc, tableVars, q, cleanVars>>

(* Mutant: a chunk that does not fit is dropped instead of waited for.     *)
RelayDataDrops ==
    /\ rpc = "drain" /\ q[rcur] # <<>>
    /\ Head(q[rcur]) # END
    /\ q' = [q EXCEPT ![rcur] = Tail(@)]
    /\ IF rcur \in clients /\ sock[rcur] = "open" /\ Len(buf[rcur]) < HighWater
       THEN /\ buf' = [buf EXCEPT ![rcur] = Append(@, Head(q[rcur]))]
            /\ idle' = idle \ {rcur}
       ELSE UNCHANGED <<buf, idle>>
    /\ UNCHANGED <<rpc, rcur, todo, endVars, inb, sock, pc, clients, queues, cleanVars>>

(* Mutant: the message is read but not removed from the queue.             *)
RelayDataPeeks ==
    /\ rpc = "drain" /\ q[rcur] # <<>>
    /\ Head(q[rcur]) # END
    /\ rcur \in clients /\ sock[rcur] = "open"
    /\ buf' = [buf EXCEPT ![rcur] = Append(@, Head(q[rcur]))]
    /\ rpc' = "draining"
    /\ UNCHANGED <<q, idle, rcur, todo, endVars, inb, sock, pc, clients, queues,
                   cleanVars>>

(* DATA: send_to_client writes, drains below the high-water mark, touches  *)
(* the client.  An unknown client drops the data.                          *)
RelayData ==
    /\ rpc = "drain" /\ q[rcur] # <<>>
    /\ Head(q[rcur]) # END
    /\ q' = [q EXCEPT ![rcur] = Tail(@)]
    /\ \/ /\ rcur \notin clients
          /\ UNCHANGED <<buf, rpc, idle>>
       \/ /\ rcur \in clients /\ sock[rcur] = "open"
          /\ buf' = [buf EXCEPT ![rcur] = Append(@, Head(q[rcur]))]
          /\ IF Len(buf[rcur]) < HighWater
             THEN idle' = idle \ {rcur} /\ UNCHANGED rpc
             ELSE rpc' = "draining" /\ UNCHANGED idle
       \/ /\ rcur \in clients /\ sock[rcur] # "open"
          /\ rpc' = "draining"
          /\ UNCHANGED <<buf, idle>>
    /\ UNCHANGED <<rcur, todo, endVars, inb, sock, pc, clients, queues, cleanVars>>

(* The awaited drain() returns, or raises when the connection is lost.     *)
RelayDrainReturns ==
    /\ rpc = "draining"
    /\ Len(buf[rcur]) <= HighWater \/ sock[rcur] = "closed"
    /\ rpc' = "drain"
    /\ idle' = IF sock[rcur] = "closed" THEN idle ELSE idle \ {rcur}
    /\ UNCHANGED <<rcur, todo, endVars, connVars, pc, clients, queues, q, cleanVars>>

(* The loop over this queue ends with unregister_queue.                    *)
RelayUnregister ==
    /\ queues' = queues \ {rcur}
    /\ rpc' = "scan" /\ rcur' = NoReq

(* Mutant: END ends the queue and closes nobody.                           *)
RelayEndClosesNobody ==
    /\ rpc = "drain" /\ q[rcur] # <<>>
    /\ Head(q[rcur]) = END
    /\ q' = [q EXCEPT ![rcur] = Tail(@)]
    /\ RelayUnregister
    /\ UNCHANGED <<todo, endVars, connVars, pc, clients, idle, cleanVars>>

(* END or ERROR: close_client waits if the client was still there.         *)
RelayEnd ==
    /\ rpc = "drain" /\ q[rcur] # <<>>
    /\ Head(q[rcur]) = END
    /\ q' = [q EXCEPT ![rcur] = Tail(@)]
    /\ PopAndClose(rcur)
    /\ IF rcur \in clients THEN rpc' = "closing" /\ UNCHANGED <<queues, rcur>>
                           ELSE RelayUnregister
    /\ UNCHANGED <<todo, endVars, inb, buf, pc, cleanVars>>

RelayClosed ==
    /\ rpc = "closing" /\ WaitClosed(rcur)
    /\ RelayUnregister
    /\ UNCHANGED <<todo, endVars, connVars, pc, clients, idle, q, cleanVars>>

RelayStep ==
    \/ RelayCheck \/ RelayVisit \/ RelayDrained \/ RelayData \/ RelayDrainReturns
    \/ RelayEnd \/ RelayClosed

-----------------------------------------------------------------------------
(* ConnectionManager.cleanup_idle.                                         *)

(* It yields in its sleep and in wait_closed() only.                       *)

(* Close r, and wait with the ids in rest still to be closed.              *)
CleanupClose(r, rest) ==
    /\ PopAndClose(r)
    /\ kpc' = "wait" /\ kcur' = r /\ ktodo' = rest

CleanupSnapshot ==
    /\ kpc = "sleep"
    /\ \E r \in idle : CleanupClose(r, idle \ {r})
    /\ UNCHANGED <<endVars, inb, buf, pc, queues, q, relayVars>>

(* The next id of the snapshot; clients closed meanwhile are skipped.      *)
CleanupNext ==
    /\ kpc = "wait" /\ WaitClosed(kcur)
    /\ \E r \in ktodo \cap clients : CleanupClose(r, ktodo \ {r})
    /\ UNCHANGED <<endVars, inb, buf, pc, queues, q, relayVars>>

CleanupSleeps ==
    /\ kpc = "wait" /\ WaitClosed(kcur)
    /\ ktodo \cap clients = {}
    /\ kpc' = "sleep" /\ kcur' = NoReq /\ ktodo' = {}
    /\ UNCHANGED <<endVars, connVars, pc, tableVars, q, relayVars>>

CleanupStep == CleanupSnapshot \/ CleanupNext \/ CleanupSleeps

-----------------------------------------------------------------------------
ExternalStep ==
    \/ \E r \in Reqs :
         \/ Connect(r) \/ PeerSend(r) \/ PeerRead(r) \/ HalfClose(r) \/ PeerGone(r)
         \/ SockClosed(r) \/ GoIdle(r) \/ WorkerData(r) \/ WorkerEnd(r)
    \/ LinkDown \/ LinkBack

Next ==
    \/ RelayStep
    \/ Yielded /\ ((\E r \in Reqs : ListenerStep(r)) \/ CleanupStep \/ ExternalStep)

(* Every coroutine runs when it can, and clients that do not stall read.   *)
(* Nothing is assumed of the worker and its link, and no timeout need      *)
(* expire: a client may send, or receive, often enough for ever.           *)
Fairness ==
    /\ \A r \in Reqs :
        /\ WF_vars(ListenerStep(r) /\ (AtEof(r) \/ CanRead(r) \/ pc[r] \notin {"first", "relay"}))
        /\ WF_vars(SockClosed(r))
        /\ WF_vars(r \notin Stallers /\ PeerRead(r))
    /\ WF_vars(RelayStep) /\ WF_vars(CleanupStep)

Spec == Init /\ [][Next]_vars /\ Fairness

-----------------------------------------------------------------------------
(* Properties.                                                             *)

(* Types of the sockets, the tables, the queues and the three coroutines.  *)
TypeOK ==
    /\ peer \in [Reqs -> {"none", "open", "eof", "gone"}]
    /\ sent \in [Reqs -> 0..MaxUp] /\ inb \in [Reqs -> 0..MaxUp]
    /\ sock \in [Reqs -> {"none", "open", "closing", "closed"}]
    /\ buf \in [Reqs -> Seq(Message)] /\ got \in [Reqs -> Seq(Message)]
    /\ pc \in [Reqs -> {"none", "first", "requesting", "relay", "sending", "farewell",
                        "finally", "closing", "leaving", "done"}]
    /\ clients \subseteq Reqs /\ idle \subseteq clients /\ queues \subseteq Reqs
    /\ q \in [Reqs -> Seq(Message)]
    /\ rpc \in {"check", "scan", "drain", "draining", "closing"}
    /\ rcur \in Reqs \cup {NoReq} /\ todo \subseteq Reqs
    /\ kpc \in {"sleep", "wait"}
    /\ kcur \in Reqs \cup {NoReq} /\ ktodo \subseteq Reqs
    /\ link \in {"up", "down"} /\ flaps \in 0..MaxFlaps
    /\ wk \in [Reqs -> {"none", "serving", "ended"}]
    /\ wsent \in [Reqs -> 0..MaxData] /\ told \in [Reqs -> BOOLEAN]

(* What a client reads is a prefix of what the worker sent for its         *)
(* request: no chunk is skipped, repeated or reordered between the queue,  *)
(* the relay and the socket, even when the client is closed or dropped in  *)
(* the middle.  Chunks are numbered per request, so that one written to    *)
(* the wrong client is out of its sequence or one too many.                *)
ResponsePrefix ==
    \A r \in Reqs : LET out == got[r] \o buf[r]
                    IN  Len(out) <= wsent[r] /\ \A i \in 1..Len(out) : out[i] = i

(* Three coroutines close clients; when the listener of a request is done, *)
(* nothing of it is left in either table and its socket is closed.         *)
NoLeak ==
    \A r \in Reqs : /\ pc[r] = "done" => r \notin clients \cup queues /\ sock[r] = "closed"
                    /\ r \in clients \cup queues => pc[r] \notin {"none", "done"}

(* While the link holds, the worker learns of the end of every request it  *)
(* was sent: its upstream connection is never left open for a client that  *)
(* is gone, whoever closed that client first.                              *)
WorkerTold ==
    \A r \in Reqs :
        pc[r] = "done" /\ wk[r] # "none" /\ flaps = 0 => told[r]

(* A socket that is being closed.                                          *)
Going(r) == sock[r] \in {"closing", "closed"}

(* Whoever pops a client closes its socket, so an open socket is always in *)
(* the table, where the idle cleanup finds it, and nobody awaits the close *)
(* of an open one: not a listener, not the relay on which all clients      *)
(* depend, and not the cleanup with its snapshot of ids.                   *)
ClosesUnderWay ==
    /\ \A r \in Reqs : /\ sock[r] = "open" => r \in clients
                       /\ pc[r] \in {"closing", "leaving"} => Going(r)
    /\ rpc = "closing" => Going(rcur)
    /\ kpc = "wait" => Going(kcur)

(* When the relay closes a client because of END, everything the worker    *)
(* sent before END has been written to it, unless the link failed or the   *)
(* client's socket was lost before.                                        *)
EndIsLast ==
    [][\A r \in Reqs :
         r \in clients \ clients' /\ rcur = r /\ rpc = "drain" /\ rpc' = "closing"
             => flaps > 0 \/ sock[r] = "closed" \/ Len(got[r]) + Len(buf[r]) = wsent[r]]_vars

(* The listener of a client that has gone finishes.                        *)
ListenersFinish == \A r \in Reqs : peer[r] = "gone" ~> pc[r] = "done"

(* END that has arrived closes its client, also when the link fails before *)
(* the relay gets to it or the queue is unregistered beside it.  Nothing   *)
(* else is sure to: no timeout need expire and no client need leave.  The  *)
(* relay must come back to its loop with the worker connected: one that    *)
(* stays in the drain of a client that does not read closes nobody.        *)
EndCloses ==
    []<>(rpc = "check" /\ link = "up") =>
        \A r \in Reqs : END \in {q[r][i] : i \in 1..Len(q[r])} ~> r \notin clients

(* "All data is relayed transparently": when the server has closed the     *)
(* connection of a client that never went away, the worker had ended the   *)
(* response and the client was given all of it.                            *)
TransparentResponse ==
    \A r \in Reqs :
        sock[r] = "closed" /\ peer[r] # "gone" /\ wk[r] # "none" /\ flaps = 0
            => wk[r] = "ended" /\ Len(got[r]) = wsent[r]

(* Seen from here, what serves the requests is what module WorkerEnd says, *)
(* and each request is sent once: the rules that the two workers of the    *)
(* repository keep are the ones this module takes for granted.             *)
Worker == INSTANCE WorkerEnd WITH Ids <- Reqs, data <- wsent
UsesWorkerEnd == Worker!Spec
=============================================================================
