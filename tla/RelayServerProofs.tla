------------------------- MODULE RelayServerProofs -------------------------
(***************************************************************************)
(* Proofs about RelayServer: its tables, the CLOSE a worker is sent, and   *)
(* the responses, for any number of clients and any bounds.                *)
(***************************************************************************)
EXTENDS RelayServer, TLAPS

(* A listener reads no more than its client has sent; the relay is at a    *)
(* request while it moves messages.                                        *)
Ranges ==
    /\ \A r \in Reqs : inb[r] <= sent[r]
    /\ rpc \in {"drain", "draining", "closing"} => rcur \in Reqs

(* Where a request may be registered, listener by listener.                *)
Tables ==
    \A r \in Reqs :
        /\ pc[r] \in {"none", "first"} => r \notin queues
        /\ pc[r] = "none" => r \notin clients
        /\ pc[r] \in {"closing", "leaving", "done"} => r \notin clients
        /\ pc[r] \in {"leaving", "done"} => r \notin queues
        /\ pc[r] = "done" => sock[r] = "closed"

(* The worker knows only requests that were sent, and while the link holds *)
(* it is told CLOSE before the listener comes to its finally block.        *)
Told ==
    /\ flaps = 0 => link = "up"
    /\ \A r \in Reqs :
         /\ pc[r] \in {"none", "first", "requesting"} => wk[r] = "none"
         /\ pc[r] \in {"finally", "closing", "leaving", "done"} /\ wk[r] # "none"
              => told[r] \/ flaps > 0

(* The request the response relay is at has a listener, and is popped when *)
(* the relay waits for its socket.  A client the worker serves has a queue.*)
Visited ==
    /\ rpc \in {"drain", "draining", "closing"} => pc[rcur] # "none"
    /\ rpc = "closing" => rcur \notin clients
    /\ \A r \in clients : pc[r] = "requesting" \/ wk[r] # "none" => r \in queues
    /\ \A r \in clients : sock[r] \in {"open", "closed"}

(* A response that was sent up to chunk n: g was read by the client, b is  *)
(* in its socket buffer.                                                   *)
Written(n, g, b) ==
    /\ Len(g) + Len(b) <= n
    /\ \A i \in 1..Len(g) : g[i] = i
    /\ \A i \in 1..Len(b) : b[i] = Len(g) + i

(* What follows in the queue of a client of which m chunks were written,   *)
(* when the worker's end is in state k and the link has failed f times.    *)
Queued(k, n, s, m, f) ==
    /\ \A i \in 1..Len(s) :
         \/ s[i] = m + i /\ s[i] <= n
         \/ s[i] = END /\ i = Len(s) /\ k = "ended"
    /\ k = "serving" => m + Len(s) = n
    /\ k = "ended" /\ f = 0 => m + Len(s) = n + 1

On(r) == r \in clients /\ sock[r] = "open"

StreamOf(r) ==
    /\ wk[r] = "none" => wsent[r] = 0 /\ q[r] = <<>>
    /\ Written(wsent[r], got[r], buf[r])
    /\ On(r) => Queued(wk[r], wsent[r], q[r], Len(got[r]) + Len(buf[r]), flaps)
Stream == \A r \in Reqs : StreamOf(r)

IInv == TypeOK /\ Ranges /\ Tables /\ Told /\ Visited /\ Stream

-----------------------------------------------------------------------------
(* Facts about sequences of messages.                                      *)

(* Taking the head off a queue or a buffer shifts the rest.                *)
LEMMA TailFacts ==
    ASSUME NEW s \in Seq(Message), s # <<>>
    PROVE  /\ Tail(s) \in Seq(Message) /\ Len(Tail(s)) = Len(s) - 1
           /\ Head(s) = s[1] /\ Head(s) \in Message /\ Len(s) \in Nat \ {0}
           /\ \A i \in 1..Len(Tail(s)) : Tail(s)[i] = s[i + 1] /\ i + 1 \in 1..Len(s)
  OBVIOUS

(* Appending a message leaves the others where they are.                   *)
LEMMA AppendFacts ==
    ASSUME NEW s \in Seq(Message), NEW m \in Message
    PROVE  /\ Append(s, m) \in Seq(Message) /\ Len(s) \in Nat
           /\ Len(Append(s, m)) = Len(s) + 1
           /\ Append(s, m)[Len(s) + 1] = m
           /\ \A i \in 1..Len(s) : Append(s, m)[i] = s[i]
  OBVIOUS

(* END comes after the numbers of all chunks.                              *)
LEMMA Messages ==
    /\ MaxData \in Nat /\ END \in Message /\ END = MaxData + 1
    /\ \A n \in 0..MaxData : n < MaxData => n + 1 \in Message \ {END} /\ n + 1 \in 0..MaxData
  BY ServerAssumption DEF END, Message

-----------------------------------------------------------------------------
(* Every step keeps the types and the ranges of the counters.              *)
LEMMA TypeStep ==
    ASSUME TypeOK, Ranges, Next
    PROVE  (TypeOK /\ Ranges)'
<1> USE DEF vars, connVars, tableVars, loopVars, endVars, peerVars, relayVars,
           cleanVars, linkVars, workVars
<1>1. ASSUME NEW r \in Reqs, Connect(r) \/ PeerSend(r) \/ PeerRead(r) \/ HalfClose(r)
             \/ PeerGone(r) \/ SockClosed(r) \/ GoIdle(r) \/ WorkerData(r)
             \/ WorkerEnd(r)
     PROVE  (TypeOK /\ Ranges)'
  <2>1. CASE Connect(r)
    BY <2>1, ServerAssumption DEF Connect, TypeOK, Ranges
  <2>2. CASE PeerSend(r)
    <3>0. sent[r] \in 0..MaxUp /\ inb[r] \in 0..MaxUp /\ sent[r] < MaxUp /\ inb[r] <= sent[r]
      BY <2>2 DEF PeerSend, TypeOK, Ranges
    <3>1. sent[r] + 1 \in 0..MaxUp /\ inb[r] + 1 \in 0..MaxUp /\ inb[r] + 1 <= sent[r] + 1
      BY <3>0, ServerAssumption
    <3> QED BY <2>2, <3>1 DEF PeerSend, TypeOK, Ranges
  <2>3. CASE PeerRead(r)
    <3>1. Tail(buf[r]) \in Seq(Message) /\ Append(got[r], Head(buf[r])) \in Seq(Message)
      BY <2>3, TailFacts, AppendFacts DEF PeerRead, TypeOK
    <3> QED BY <2>3, <3>1 DEF PeerRead, TypeOK, Ranges
  <2>4. CASE HalfClose(r)
    BY <2>4, ServerAssumption DEF HalfClose, TypeOK, Ranges
  <2>5. CASE PeerGone(r)
    BY <2>5, ServerAssumption DEF PeerGone, TypeOK, Ranges
  <2>6. CASE SockClosed(r)
    <3>1. <<>> \in Seq(Message)
      OBVIOUS
    <3> QED BY <2>6, <3>1 DEF SockClosed, TypeOK, Ranges
  <2>7. CASE GoIdle(r)
    BY <2>7, ServerAssumption DEF GoIdle, TypeOK, Ranges
  <2>8. CASE WorkerData(r)
    <3>1. wsent[r] + 1 \in 0..MaxData /\ Append(q[r], wsent[r] + 1) \in Seq(Message)
      BY <2>8, Messages, AppendFacts DEF WorkerData, TypeOK
    <3> QED BY <2>8, <3>1 DEF WorkerData, Arrive, TypeOK, Ranges
  <2>9. CASE WorkerEnd(r)
    <3>1. Append(q[r], END) \in Seq(Message)
      BY Messages, AppendFacts DEF TypeOK
    <3> QED BY <2>9, <3>1 DEF WorkerEnd, Arrive, TypeOK, Ranges
  <2> QED BY <1>1, <2>1, <2>2, <2>3, <2>4, <2>5, <2>6, <2>7, <2>8, <2>9
<1>2. ASSUME NEW r \in Reqs, FirstChunk(r) \/ FirstEof(r) \/ FirstTimeout(r)
             \/ Requested(r) \/ RelayChunk(r) \/ Sent(r) \/ RelayEnds(r) \/ Farewell(r)
             \/ FinallyClose(r) \/ FinallyWait(r) \/ FinallyDone(r)
     PROVE  (TypeOK /\ Ranges)'
  <2>1. CASE FirstChunk(r)
    <3>0. sent[r] \in 0..MaxUp /\ inb[r] \in 0..MaxUp /\ inb[r] > 0 /\ inb[r] <= sent[r]
      BY <2>1 DEF FirstChunk, CanRead, TypeOK, Ranges
    <3>1. inb[r] - 1 \in 0..MaxUp /\ inb[r] - 1 <= sent[r]
      BY <3>0, ServerAssumption
    <3> QED BY <2>1, <3>1 DEF FirstChunk, Goto, CanRead, TypeOK, Ranges
  <2>2. CASE FirstEof(r)
    BY <2>2, ServerAssumption DEF FirstEof, Goto, AtEof, TypeOK, Ranges
  <2>3. CASE FirstTimeout(r)
    BY <2>3, ServerAssumption DEF FirstTimeout, Goto, TypeOK, Ranges
  <2>4. CASE Requested(r)
    BY <2>4, ServerAssumption DEF Requested, Goto, TypeOK, Ranges
  <2>5. CASE RelayChunk(r)
    <3>0. sent[r] \in 0..MaxUp /\ inb[r] \in 0..MaxUp /\ inb[r] > 0 /\ inb[r] <= sent[r]
      BY <2>5 DEF RelayChunk, CanRead, TypeOK, Ranges
    <3>1. inb[r] - 1 \in 0..MaxUp /\ inb[r] - 1 <= sent[r]
      BY <3>0, ServerAssumption
    <3> QED BY <2>5, <3>1 DEF RelayChunk, Goto, CanRead, TypeOK, Ranges
  <2>6. CASE Sent(r)
    BY <2>6, ServerAssumption DEF Sent, Goto, TypeOK, Ranges
  <2>7. CASE RelayEnds(r)
    BY <2>7, ServerAssumption DEF RelayEnds, Goto, AtEof, TypeOK, Ranges
  <2>8. CASE Farewell(r)
    BY <2>8, ServerAssumption DEF Farewell, Goto, TypeOK, Ranges
  <2>9. CASE FinallyClose(r)
    BY <2>9, ServerAssumption DEF FinallyClose, Goto, PopAndClose, Unregister, TypeOK,
       Ranges
  <2>10. CASE FinallyWait(r)
    BY <2>10, ServerAssumption DEF FinallyWait, Goto, Unregister, WaitClosed, TypeOK, Ranges
  <2>11. CASE FinallyDone(r)
    BY <2>11, ServerAssumption DEF FinallyDone, Goto, WaitClosed, TypeOK, Ranges
  <2> QED BY <1>2, <2>1, <2>2, <2>3, <2>4, <2>5, <2>6, <2>7, <2>8, <2>9, <2>10, <2>11
<1>3. ASSUME LinkDown \/ LinkBack
     PROVE  (TypeOK /\ Ranges)'
  <2>1. CASE LinkDown
    <3>1. flaps + 1 \in 0..MaxFlaps
      BY <2>1, ServerAssumption DEF LinkDown, TypeOK
    <3> QED BY <2>1, <3>1 DEF LinkDown, TypeOK, Ranges
  <2>2. CASE LinkBack
    BY <2>2, ServerAssumption DEF LinkBack, TypeOK, Ranges
  <2> QED BY <1>3, <2>1, <2>2
<1>4. ASSUME RelayCheck \/ RelayVisit \/ RelayDrained \/ RelayData \/ RelayDrainReturns
             \/ RelayEnd \/ RelayClosed
     PROVE  (TypeOK /\ Ranges)'
  <2>1. CASE RelayCheck
    BY <2>1, ServerAssumption DEF RelayCheck, TypeOK, Ranges
  <2>2. CASE RelayVisit
    BY <2>2, ServerAssumption DEF RelayVisit, TypeOK, Ranges
  <2>3. CASE RelayDrained
    BY <2>3, ServerAssumption DEF RelayDrained, TypeOK, Ranges
  <2>4. CASE RelayData
    <3>1. Tail(q[rcur]) \in Seq(Message) /\ Append(buf[rcur], Head(q[rcur])) \in Seq(Message)
      BY <2>4, TailFacts, AppendFacts, Messages DEF RelayData, TypeOK, Ranges
    <3>2. /\ q \in [Reqs -> Seq(Message)] /\ buf \in [Reqs -> Seq(Message)]
          /\ q' = [q EXCEPT ![rcur] = Tail(q[rcur])]
          /\ buf' \in {buf, [buf EXCEPT ![rcur] = Append(buf[rcur], Head(q[rcur]))]}
      BY <2>4 DEF RelayData, TypeOK
    <3>4. q' \in [Reqs -> Seq(Message)] /\ buf' \in [Reqs -> Seq(Message)]
      BY <3>1, <3>2
    <3>3. /\ rpc' \in {"drain", "draining"} /\ idle' \subseteq clients /\ rcur \in Reqs
          /\ UNCHANGED <<rcur, todo, endVars, inb, sock, pc, clients, queues, cleanVars>>
      BY <2>4 DEF RelayData, TypeOK, Ranges
    <3> QED BY <3>3, <3>4 DEF TypeOK, Ranges
  <2>5. CASE RelayDrainReturns
    BY <2>5, ServerAssumption DEF RelayDrainReturns, TypeOK, Ranges
  <2>6. CASE RelayEnd
    <3>1. Tail(q[rcur]) \in Seq(Message)
      BY <2>6, TailFacts, Messages DEF RelayEnd, TypeOK, Ranges
    <3> QED BY <2>6, <3>1 DEF RelayEnd, PopAndClose, RelayUnregister, TypeOK, Ranges
  <2>7. CASE RelayClosed
    BY <2>7, ServerAssumption DEF RelayClosed, RelayUnregister, WaitClosed, TypeOK, Ranges
  <2> QED BY <1>4, <2>1, <2>2, <2>3, <2>4, <2>5, <2>6, <2>7
<1>5. ASSUME CleanupSnapshot \/ CleanupNext \/ CleanupSleeps
     PROVE  (TypeOK /\ Ranges)'
  <2>1. CASE CleanupSnapshot
    BY <2>1, ServerAssumption DEF CleanupSnapshot, CleanupClose, PopAndClose, TypeOK, Ranges
  <2>2. CASE CleanupNext
    BY <2>2, ServerAssumption DEF CleanupNext, CleanupClose, PopAndClose, WaitClosed,
       TypeOK, Ranges
  <2>3. CASE CleanupSleeps
    BY <2>3, ServerAssumption DEF CleanupSleeps, WaitClosed, TypeOK, Ranges
  <2> QED BY <1>5, <2>1, <2>2, <2>3
<1> QED BY <1>1, <1>2, <1>3, <1>4, <1>5
    DEF Next, ExternalStep, ListenerStep, RelayStep, CleanupStep

(* Whoever pops a client or unregisters a queue, a listener that has       *)
(* passed its finally block finds neither again.                           *)
LEMMA TablesStep ==
    ASSUME TypeOK, Tables, Next
    PROVE  Tables'
<1> USE DEF vars, connVars, tableVars, loopVars, endVars, peerVars, relayVars,
           cleanVars, linkVars, workVars
<1>1. ASSUME NEW r \in Reqs, Connect(r) \/ PeerSend(r) \/ PeerRead(r) \/ HalfClose(r)
             \/ PeerGone(r) \/ SockClosed(r) \/ GoIdle(r) \/ WorkerData(r)
             \/ WorkerEnd(r)
     PROVE  Tables'
  <2>1. CASE Connect(r)
    BY <2>1 DEF Connect, TypeOK, Tables
  <2>2. CASE PeerSend(r)
    BY <2>2 DEF PeerSend, TypeOK, Tables
  <2>3. CASE PeerRead(r)
    BY <2>3 DEF PeerRead, TypeOK, Tables
  <2>4. CASE HalfClose(r)
    BY <2>4 DEF HalfClose, TypeOK, Tables
  <2>5. CASE PeerGone(r)
    BY <2>5 DEF PeerGone, TypeOK, Tables
  <2>6. CASE SockClosed(r)
    BY <2>6 DEF SockClosed, TypeOK, Tables
  <2>7. CASE GoIdle(r)
    BY <2>7 DEF GoIdle, TypeOK, Tables
  <2>8. CASE WorkerData(r)
    BY <2>8 DEF WorkerData, Arrive, TypeOK, Tables
  <2>9. CASE WorkerEnd(r)
    BY <2>9 DEF WorkerEnd, Arrive, TypeOK, Tables
  <2> QED BY <1>1, <2>1, <2>2, <2>3, <2>4, <2>5, <2>6, <2>7, <2>8, <2>9
<1>2. ASSUME NEW r \in Reqs, FirstChunk(r) \/ FirstEof(r) \/ FirstTimeout(r)
             \/ Requested(r) \/ RelayChunk(r) \/ Sent(r) \/ RelayEnds(r) \/ Farewell(r)
             \/ FinallyClose(r) \/ FinallyWait(r) \/ FinallyDone(r)
     PROVE  Tables'
  <2>1. CASE FirstChunk(r)
    <3>1. /\ \A s \in Reqs : s # r => pc'[s] = pc[s] /\ (s \in queues' <=> s \in queues)
          /\ pc'[r] = "requesting" /\ UNCHANGED <<sock, clients>>
      BY <2>1 DEF FirstChunk, Goto, TypeOK
    <3> QED BY <3>1 DEF Tables
  <2>2. CASE FirstEof(r)
    BY <2>2 DEF FirstEof, Goto, AtEof, TypeOK, Tables
  <2>3. CASE FirstTimeout(r)
    BY <2>3 DEF FirstTimeout, Goto, TypeOK, Tables
  <2>4. CASE Requested(r)
    <3>1. /\ \A s \in Reqs : s # r => pc'[s] = pc[s]
          /\ pc'[r] \in {"relay", "finally"} /\ UNCHANGED <<sock, clients, queues>>
      BY <2>4 DEF Requested, Goto, TypeOK
    <3> QED BY <3>1 DEF Tables
  <2>5. CASE RelayChunk(r)
    BY <2>5 DEF RelayChunk, Goto, CanRead, TypeOK, Tables
  <2>6. CASE Sent(r)
    BY <2>6 DEF Sent, Goto, TypeOK, Tables
  <2>7. CASE RelayEnds(r)
    BY <2>7 DEF RelayEnds, Goto, AtEof, TypeOK, Tables
  <2>8. CASE Farewell(r)
    BY <2>8 DEF Farewell, Goto, TypeOK, Tables
  <2>9. CASE FinallyClose(r)
    <3>1. /\ pc \in [Reqs -> {"none", "first", "requesting", "relay", "sending",
                                "farewell", "finally", "closing", "leaving", "done"}]
          /\ sock \in [Reqs -> {"none", "open", "closing", "closed"}]
      BY DEF TypeOK
    <3>2. /\ \A s \in Reqs : s # r => pc'[s] = pc[s] /\ sock'[s] = sock[s]
          /\ clients' = clients \ {r}
          /\ \/ pc'[r] = "closing" /\ queues' = queues
             \/ pc'[r] = "leaving" /\ queues' = queues \ {r}
      BY <2>9, <3>1 DEF FinallyClose, Goto, PopAndClose, Unregister
    <3> QED BY <3>2 DEF Tables
  <2>10. CASE FinallyWait(r)
    BY <2>10 DEF FinallyWait, Goto, Unregister, WaitClosed, TypeOK, Tables
  <2>11. CASE FinallyDone(r)
    BY <2>11 DEF FinallyDone, Goto, WaitClosed, TypeOK, Tables
  <2> QED BY <1>2, <2>1, <2>2, <2>3, <2>4, <2>5, <2>6, <2>7, <2>8, <2>9, <2>10, <2>11
<1>3. ASSUME LinkDown \/ LinkBack
     PROVE  Tables'
  <2>1. CASE LinkDown
    BY <2>1 DEF LinkDown, TypeOK, Tables
  <2>2. CASE LinkBack
    BY <2>2 DEF LinkBack, TypeOK, Tables
  <2> QED BY <1>3, <2>1, <2>2
<1>4. ASSUME RelayCheck \/ RelayVisit \/ RelayDrained \/ RelayData \/ RelayDrainReturns
             \/ RelayEnd \/ RelayClosed
     PROVE  Tables'
  <2>1. CASE RelayCheck
    BY <2>1 DEF RelayCheck, TypeOK, Tables
  <2>2. CASE RelayVisit
    BY <2>2 DEF RelayVisit, TypeOK, Tables
  <2>3. CASE RelayDrained
    BY <2>3 DEF RelayDrained, TypeOK, Tables
  <2>4. CASE RelayData
    BY <2>4 DEF RelayData, TypeOK, Tables
  <2>5. CASE RelayDrainReturns
    BY <2>5 DEF RelayDrainReturns, TypeOK, Tables
  <2>6. CASE RelayEnd
    BY <2>6 DEF RelayEnd, PopAndClose, RelayUnregister, TypeOK, Tables
  <2>7. CASE RelayClosed
    BY <2>7 DEF RelayClosed, RelayUnregister, WaitClosed, TypeOK, Tables
  <2> QED BY <1>4, <2>1, <2>2, <2>3, <2>4, <2>5, <2>6, <2>7
<1>5. ASSUME CleanupSnapshot \/ CleanupNext \/ CleanupSleeps
     PROVE  Tables'
  <2>1. CASE CleanupSnapshot
    BY <2>1 DEF CleanupSnapshot, CleanupClose, PopAndClose, TypeOK, Tables
  <2>2. CASE CleanupNext
    BY <2>2 DEF CleanupNext, CleanupClose, PopAndClose, WaitClosed, TypeOK, Tables
  <2>3. CASE CleanupSleeps
    BY <2>3 DEF CleanupSleeps, WaitClosed, TypeOK, Tables
  <2> QED BY <1>5, <2>1, <2>2, <2>3
<1> QED BY <1>1, <1>2, <1>3, <1>4, <1>5
    DEF Next, ExternalStep, ListenerStep, RelayStep, CleanupStep

(* CLOSE is attempted on every way into the finally block of a request     *)
(* that was sent, and fails only after the link has.                       *)
LEMMA ToldStep ==
    ASSUME TypeOK, Told, Next
    PROVE  Told'
<1> USE DEF vars, connVars, tableVars, loopVars, endVars, peerVars, relayVars,
           cleanVars, linkVars, workVars
<1>1. ASSUME NEW r \in Reqs, Connect(r) \/ PeerSend(r) \/ PeerRead(r) \/ HalfClose(r)
             \/ PeerGone(r) \/ SockClosed(r) \/ GoIdle(r) \/ WorkerData(r)
             \/ WorkerEnd(r)
     PROVE  Told'
  <2>1. CASE Connect(r)
    BY <2>1 DEF Connect, TypeOK, Told
  <2>2. CASE PeerSend(r)
    BY <2>2 DEF PeerSend, TypeOK, Told
  <2>3. CASE PeerRead(r)
    BY <2>3 DEF PeerRead, TypeOK, Told
  <2>4. CASE HalfClose(r)
    BY <2>4 DEF HalfClose, TypeOK, Told
  <2>5. CASE PeerGone(r)
    BY <2>5 DEF PeerGone, TypeOK, Told
  <2>6. CASE SockClosed(r)
    BY <2>6 DEF SockClosed, TypeOK, Told
  <2>7. CASE GoIdle(r)
    BY <2>7 DEF GoIdle, TypeOK, Told
  <2>8. CASE WorkerData(r)
    BY <2>8 DEF WorkerData, Arrive, TypeOK, Told
  <2>9. CASE WorkerEnd(r)
    BY <2>9 DEF WorkerEnd, Arrive, TypeOK, Told
  <2> QED BY <1>1, <2>1, <2>2, <2>3, <2>4, <2>5, <2>6, <2>7, <2>8, <2>9
<1>2. ASSUME NEW r \in Reqs, FirstChunk(r) \/ FirstEof(r) \/ FirstTimeout(r)
             \/ Requested(r) \/ RelayChunk(r) \/ Sent(r) \/ RelayEnds(r) \/ Farewell(r)
             \/ FinallyClose(r) \/ FinallyWait(r) \/ FinallyDone(r)
     PROVE  Told'
  <2>1. CASE FirstChunk(r)
    BY <2>1 DEF FirstChunk, Goto, CanRead, TypeOK, Told
  <2>2. CASE FirstEof(r)
    BY <2>2 DEF FirstEof, Goto, AtEof, TypeOK, Told
  <2>3. CASE FirstTimeout(r)
    BY <2>3 DEF FirstTimeout, Goto, TypeOK, Told
  <2>4. CASE Requested(r)
    <3>1. /\ \A s \in Reqs : s # r => pc'[s] = pc[s] /\ wk'[s] = wk[s]
          /\ UNCHANGED <<told, flaps, link>>
          /\ \/ pc'[r] = "relay"
             \/ pc'[r] = "finally" /\ wk'[r] = wk[r]
          /\ wk[r] = "none"
      BY <2>4 DEF Requested, Goto, TypeOK, Told
    <3> QED BY <3>1 DEF Told
  <2>5. CASE RelayChunk(r)
    BY <2>5 DEF RelayChunk, Goto, CanRead, TypeOK, Told
  <2>6. CASE Sent(r)
    BY <2>6 DEF Sent, Goto, TypeOK, Told
  <2>7. CASE RelayEnds(r)
    BY <2>7 DEF RelayEnds, Goto, AtEof, TypeOK, Told
  <2>8. CASE Farewell(r)
    <3>1. /\ flaps = 0 => told'[r]
          /\ \A s \in Reqs : s # r => told'[s] = told[s]
      BY <2>8 DEF Farewell, TypeOK, Told
    <3> QED BY <2>8, <3>1 DEF Farewell, Goto, TypeOK, Told
  <2>9. CASE FinallyClose(r)
    <3>1. /\ \A s \in Reqs : s # r => pc'[s] = pc[s]
          /\ pc[r] \in {"finally", "closing"} /\ pc'[r] \in {"closing", "leaving"}
          /\ UNCHANGED <<wk, told, flaps, link>>
      BY <2>9 DEF FinallyClose, Goto, PopAndClose, Unregister, TypeOK
    <3> QED BY <3>1 DEF Told
  <2>10. CASE FinallyWait(r)
    <3>1. /\ \A s \in Reqs : s # r => pc'[s] = pc[s]
          /\ pc[r] \in {"finally", "closing"} /\ pc'[r] \in {"closing", "leaving"}
          /\ UNCHANGED <<wk, told, flaps, link>>
      BY <2>10 DEF FinallyWait, Goto, Unregister, TypeOK
    <3> QED BY <3>1 DEF Told
  <2>11. CASE FinallyDone(r)
    BY <2>11 DEF FinallyDone, Goto, WaitClosed, TypeOK, Told
  <2> QED BY <1>2, <2>1, <2>2, <2>3, <2>4, <2>5, <2>6, <2>7, <2>8, <2>9, <2>10, <2>11
<1>3. ASSUME LinkDown \/ LinkBack
     PROVE  Told'
  <2>1. CASE LinkDown
    BY <2>1 DEF LinkDown, TypeOK, Told
  <2>2. CASE LinkBack
    BY <2>2 DEF LinkBack, TypeOK, Told
  <2> QED BY <1>3, <2>1, <2>2
<1>4. ASSUME RelayCheck \/ RelayVisit \/ RelayDrained \/ RelayData \/ RelayDrainReturns
             \/ RelayEnd \/ RelayClosed
     PROVE  Told'
  <2>1. CASE RelayCheck
    BY <2>1 DEF RelayCheck, TypeOK, Told
  <2>2. CASE RelayVisit
    BY <2>2 DEF RelayVisit, TypeOK, Told
  <2>3. CASE RelayDrained
    BY <2>3 DEF RelayDrained, TypeOK, Told
  <2>4. CASE RelayData
    BY <2>4 DEF RelayData, TypeOK, Told
  <2>5. CASE RelayDrainReturns
    BY <2>5 DEF RelayDrainReturns, TypeOK, Told
  <2>6. CASE RelayEnd
    BY <2>6 DEF RelayEnd, PopAndClose, RelayUnregister, TypeOK, Told
  <2>7. CASE RelayClosed
    BY <2>7 DEF RelayClosed, RelayUnregister, WaitClosed, TypeOK, Told
  <2> QED BY <1>4, <2>1, <2>2, <2>3, <2>4, <2>5, <2>6, <2>7
<1>5. ASSUME CleanupSnapshot \/ CleanupNext \/ CleanupSleeps
     PROVE  Told'
  <2>1. CASE CleanupSnapshot
    BY <2>1 DEF CleanupSnapshot, CleanupClose, PopAndClose, TypeOK, Told
  <2>2. CASE CleanupNext
    BY <2>2 DEF CleanupNext, CleanupClose, PopAndClose, WaitClosed, TypeOK, Told
  <2>3. CASE CleanupSleeps
    BY <2>3 DEF CleanupSleeps, WaitClosed, TypeOK, Told
  <2> QED BY <1>5, <2>1, <2>2, <2>3
<1> QED BY <1>1, <1>2, <1>3, <1>4, <1>5
    DEF Next, ExternalStep, ListenerStep, RelayStep, CleanupStep

(* A client is popped before its queue is unregistered, so a client the    *)
(* worker serves has a queue.                                              *)
LEMMA VisitedStep ==
    ASSUME IInv, Next
    PROVE  Visited'
<1> USE DEF vars, connVars, tableVars, loopVars, endVars, peerVars, relayVars,
           cleanVars, linkVars, workVars
<1>1. ASSUME NEW r \in Reqs, Connect(r) \/ PeerSend(r) \/ PeerRead(r) \/ HalfClose(r)
             \/ PeerGone(r) \/ SockClosed(r) \/ GoIdle(r) \/ WorkerData(r)
             \/ WorkerEnd(r)
     PROVE  Visited'
  <2>1. CASE Connect(r)
    <3>1. /\ pc[r] = "none" /\ wk[r] = "none"
          /\ rpc \in {"drain", "draining", "closing"} => rcur # r
      BY <2>1 DEF Connect, IInv, Told, Visited
    <3>2. /\ UNCHANGED <<rpc, rcur, queues, wk>> /\ clients' = clients \cup {r}
          /\ sock'[r] = "open" /\ pc'[r] = "first"
          /\ \A s \in Reqs : s # r => pc'[s] = pc[s] /\ sock'[s] = sock[s]
      BY <2>1 DEF Connect, IInv, TypeOK
    <3>3. clients \subseteq Reqs /\ (rpc \in {"drain", "draining", "closing"} => rcur \in Reqs)
      BY DEF IInv, TypeOK, Ranges
    <3> QED BY <3>1, <3>2, <3>3 DEF IInv, Visited
  <2>2. CASE PeerSend(r)
    BY <2>2 DEF PeerSend, IInv, TypeOK, Ranges, Tables, Told, Visited
  <2>3. CASE PeerRead(r)
    BY <2>3 DEF PeerRead, IInv, TypeOK, Ranges, Tables, Told, Visited
  <2>4. CASE HalfClose(r)
    BY <2>4 DEF HalfClose, IInv, TypeOK, Ranges, Tables, Told, Visited
  <2>5. CASE PeerGone(r)
    BY <2>5 DEF PeerGone, IInv, TypeOK, Ranges, Tables, Told, Visited
  <2>6. CASE SockClosed(r)
    BY <2>6 DEF SockClosed, IInv, TypeOK, Ranges, Tables, Told, Visited
  <2>7. CASE GoIdle(r)
    BY <2>7 DEF GoIdle, IInv, TypeOK, Ranges, Tables, Told, Visited
  <2>8. CASE WorkerData(r)
    BY <2>8 DEF WorkerData, Arrive, IInv, TypeOK, Ranges, Tables, Told, Visited
  <2>9. CASE WorkerEnd(r)
    BY <2>9 DEF WorkerEnd, Arrive, IInv, TypeOK, Ranges, Tables, Told, Visited
  <2> QED BY <1>1, <2>1, <2>2, <2>3, <2>4, <2>5, <2>6, <2>7, <2>8, <2>9
<1>2. ASSUME NEW r \in Reqs, FirstChunk(r) \/ FirstEof(r) \/ FirstTimeout(r)
             \/ Requested(r) \/ RelayChunk(r) \/ Sent(r) \/ RelayEnds(r) \/ Farewell(r)
             \/ FinallyClose(r) \/ FinallyWait(r) \/ FinallyDone(r)
     PROVE  Visited'
  <2>1. CASE FirstChunk(r)
    <3>1. /\ pc[r] = "first" /\ pc'[r] = "requesting" /\ queues' = queues \cup {r}
          /\ \A s \in Reqs : s # r => pc'[s] = pc[s]
          /\ UNCHANGED <<rpc, rcur, clients, sock, wk>>
          /\ clients \subseteq Reqs
          /\ rpc \in {"drain", "draining", "closing"} => rcur \in Reqs
      BY <2>1 DEF FirstChunk, Goto, IInv, TypeOK, Ranges
    <3> QED BY <3>1 DEF IInv, Visited
  <2>2. CASE FirstEof(r)
    BY <2>2 DEF FirstEof, Goto, AtEof, IInv, TypeOK, Ranges, Tables, Told, Visited
  <2>3. CASE FirstTimeout(r)
    BY <2>3 DEF FirstTimeout, Goto, IInv, TypeOK, Ranges, Tables, Told, Visited
  <2>4. CASE Requested(r)
    <3>1. pc[r] = "requesting" /\ UNCHANGED <<rpc, rcur, clients, queues, sock>>
      BY <2>4 DEF Requested
    <3>2. /\ pc'[r] \in {"relay", "finally"}
          /\ \A s \in Reqs : s # r => pc'[s] = pc[s] /\ wk'[s] = wk[s]
      BY <2>4 DEF Requested, Goto, IInv, TypeOK
    <3>3. /\ clients \subseteq Reqs
          /\ rpc \in {"drain", "draining", "closing"} => rcur \in Reqs
      BY DEF IInv, TypeOK, Ranges
    <3> QED BY <3>1, <3>2, <3>3 DEF IInv, Visited
  <2>5. CASE RelayChunk(r)
    BY <2>5 DEF RelayChunk, Goto, CanRead, IInv, TypeOK, Ranges, Tables, Told, Visited
  <2>6. CASE Sent(r)
    BY <2>6 DEF Sent, Goto, IInv, TypeOK, Ranges, Tables, Told, Visited
  <2>7. CASE RelayEnds(r)
    BY <2>7 DEF RelayEnds, Goto, AtEof, IInv, TypeOK, Ranges, Tables, Told, Visited
  <2>8. CASE Farewell(r)
    BY <2>8 DEF Farewell, Goto, IInv, TypeOK, Ranges, Tables, Told, Visited
  <2>9. CASE FinallyClose(r)
    <3>1. /\ pc[r] = "finally" /\ pc'[r] \in {"closing", "leaving"}
          /\ clients' = clients \ {r} /\ queues \ {r} \subseteq queues'
          /\ \A s \in Reqs : s # r => pc'[s] = pc[s] /\ sock'[s] = sock[s]
          /\ UNCHANGED <<rpc, rcur, wk>>
          /\ clients \subseteq Reqs
          /\ rpc \in {"drain", "draining", "closing"} => rcur \in Reqs
      BY <2>9 DEF FinallyClose, Goto, PopAndClose, Unregister, IInv, TypeOK, Ranges
    <3> QED BY <3>1 DEF IInv, Visited
  <2>10. CASE FinallyWait(r)
    BY <2>10 DEF FinallyWait, Goto, Unregister, WaitClosed, IInv, TypeOK, Ranges, Tables,
       Told, Visited
  <2>11. CASE FinallyDone(r)
    BY <2>11 DEF FinallyDone, Goto, WaitClosed, IInv, TypeOK, Ranges, Tables, Told, Visited
  <2> QED BY <1>2, <2>1, <2>2, <2>3, <2>4, <2>5, <2>6, <2>7, <2>8, <2>9, <2>10, <2>11
<1>3. ASSUME LinkDown \/ LinkBack
     PROVE  Visited'
  <2>1. CASE LinkDown
    BY <2>1 DEF LinkDown, IInv, TypeOK, Ranges, Tables, Told, Visited
  <2>2. CASE LinkBack
    BY <2>2 DEF LinkBack, IInv, TypeOK, Ranges, Tables, Told, Visited
  <2> QED BY <1>3, <2>1, <2>2
<1>4. ASSUME RelayCheck \/ RelayVisit \/ RelayDrained \/ RelayData \/ RelayDrainReturns
             \/ RelayEnd \/ RelayClosed
     PROVE  Visited'
  <2>1. CASE RelayCheck
    BY <2>1 DEF RelayCheck, IInv, TypeOK, Ranges, Tables, Told, Visited
  <2>2. CASE RelayVisit
    BY <2>2 DEF RelayVisit, IInv, TypeOK, Ranges, Tables, Told, Visited
  <2>3. CASE RelayDrained
    BY <2>3 DEF RelayDrained, IInv, TypeOK, Ranges, Tables, Told, Visited
  <2>4. CASE RelayData
    BY <2>4 DEF RelayData, IInv, TypeOK, Ranges, Tables, Told, Visited
  <2>5. CASE RelayDrainReturns
    BY <2>5 DEF RelayDrainReturns, IInv, TypeOK, Ranges, Tables, Told, Visited
  <2>6. CASE RelayEnd
    BY <2>6 DEF RelayEnd, PopAndClose, RelayUnregister, IInv, TypeOK, Ranges, Tables, Told,
       Visited
  <2>7. CASE RelayClosed
    BY <2>7 DEF RelayClosed, RelayUnregister, WaitClosed, IInv, TypeOK, Ranges, Tables,
       Told, Visited
  <2> QED BY <1>4, <2>1, <2>2, <2>3, <2>4, <2>5, <2>6, <2>7
<1>5. ASSUME CleanupSnapshot \/ CleanupNext \/ CleanupSleeps
     PROVE  Visited'
  <2>1. CASE CleanupSnapshot
    <3>1. /\ clients' \subseteq clients /\ \A r \in clients' : sock'[r] = sock[r]
          /\ UNCHANGED <<rpc, rcur, pc, wk, queues>>
      BY <2>1 DEF CleanupSnapshot, CleanupClose, PopAndClose, IInv, TypeOK
    <3> QED BY <3>1 DEF IInv, Visited
  <2>2. CASE CleanupNext
    <3>1. /\ clients' \subseteq clients /\ \A r \in clients' : sock'[r] = sock[r]
          /\ UNCHANGED <<rpc, rcur, pc, wk, queues>>
      BY <2>2 DEF CleanupNext, CleanupClose, PopAndClose, IInv, TypeOK
    <3> QED BY <3>1 DEF IInv, Visited
  <2>3. CASE CleanupSleeps
    BY <2>3 DEF CleanupSleeps, WaitClosed, IInv, TypeOK, Ranges, Tables, Told, Visited
  <2> QED BY <1>5, <2>1, <2>2, <2>3
<1> QED BY <1>1, <1>2, <1>3, <1>4, <1>5
    DEF Next, ExternalStep, ListenerStep, RelayStep, CleanupStep

-----------------------------------------------------------------------------
(* The responses.                                                          *)

(* Nothing is added to a response or taken from it, and the client is not  *)
(* connected anew.                                                         *)
Same(r) ==
    /\ wk'[r] = wk[r] /\ wsent'[r] = wsent[r] /\ q'[r] = q[r]
    /\ got'[r] = got[r] /\ buf'[r] = buf[r]
    /\ flaps' = 0 => flaps = 0
    /\ r \in clients' /\ sock'[r] = "open" => r \in clients /\ sock[r] = "open"

(* A step that leaves the response of r alone keeps what is known of it.   *)
LEMMA SameKeeps ==
    ASSUME NEW r \in Reqs, StreamOf(r), Same(r)
    PROVE  StreamOf(r)'
<1>1. On(r)' => On(r)
  BY DEF Same, On
<1>2. Written(wsent[r], got[r], buf[r])'
  BY DEF Same, StreamOf
<1>3. ASSUME On(r)
      PROVE  Queued(wk[r], wsent[r], q[r], Len(got[r]) + Len(buf[r]), flaps')
  <2>1. Queued(wk[r], wsent[r], q[r], Len(got[r]) + Len(buf[r]), flaps)
    BY <1>3 DEF StreamOf
  <2> QED BY <2>1 DEF Same, Queued
<1> QED BY <1>1, <1>2, <1>3 DEF Same, StreamOf

(* The effects of the steps on one response.                               *)

(* The client reads a chunk from its buffer.                               *)
LEMMA ChunkRead ==
    ASSUME NEW n \in Nat, NEW g \in Seq(Message), NEW b \in Seq(Message),
           Written(n, g, b), b # <<>>
    PROVE  /\ Written(n, Append(g, Head(b)), Tail(b))
           /\ Len(Append(g, Head(b))) + Len(Tail(b)) = Len(g) + Len(b)
<1> DEFINE g2 == Append(g, Head(b))
           b2 == Tail(b)
<1>1. /\ g2 \in Seq(Message) /\ b2 \in Seq(Message)
      /\ Len(g2) = Len(g) + 1 /\ Len(b2) = Len(b) - 1 /\ Len(b) \in Nat \ {0}
      /\ g2[Len(g) + 1] = b[1] /\ \A i \in 1..Len(g) : g2[i] = g[i]
      /\ \A i \in 1..Len(b2) : b2[i] = b[i + 1] /\ i + 1 \in 1..Len(b)
  BY TailFacts, AppendFacts
<1> HIDE DEF g2, b2
<1>2. b[1] = Len(g) + 1
  BY <1>1 DEF Written, Message
<1>3. ASSUME NEW i \in 1..Len(g2) PROVE g2[i] = i
  <2>1. CASE i = Len(g) + 1
    BY <1>1, <1>2, <2>1
  <2>2. CASE i \in 1..Len(g)
    <3>1. g2[i] = g[i] /\ g[i] = i
      BY <1>1, <2>2 DEF Written
    <3> QED BY <3>1
  <2> QED BY <1>1, <2>1, <2>2
<1>4. \A i \in 1..Len(b2) : b2[i] = Len(g2) + i
  BY <1>1 DEF Written, Message
<1>5. Len(g2) + Len(b2) = Len(g) + Len(b)
  BY <1>1
<1>6. Written(n, g2, b2)
  BY <1>3, <1>4, <1>5 DEF Written
<1> QED BY <1>5, <1>6 DEF g2, b2

(* The worker sends a chunk.                                               *)
LEMMA ChunkQueued ==
    ASSUME NEW n \in 0..MaxData, n < MaxData, NEW s \in Seq(Message), NEW m \in Nat,
           NEW f \in Nat, Queued("serving", n, s, m, f)
    PROVE  Queued("serving", n + 1, Append(s, n + 1), m, f)
<1> DEFINE s2 == Append(s, n + 1)
<1>1. /\ s2 \in Seq(Message) /\ Len(s2) = Len(s) + 1 /\ n + 1 # END
      /\ s2[Len(s) + 1] = n + 1 /\ \A i \in 1..Len(s) : s2[i] = s[i]
  BY Messages, AppendFacts
<1> HIDE DEF s2
<1>2. m + Len(s) = n /\ \A i \in 1..Len(s) : s[i] = m + i /\ s[i] <= n
  BY DEF Queued, Message
<1>3. ASSUME NEW i \in 1..Len(s2) PROVE s2[i] = m + i /\ s2[i] <= n + 1
  <2>1. CASE i = Len(s) + 1
    BY <1>1, <1>2, <2>1
  <2>2. CASE i \in 1..Len(s)
    <3>1. s2[i] = s[i] /\ s[i] = m + i /\ s[i] <= n
      BY <1>1, <1>2, <2>2
    <3> QED BY <3>1, <1>2, <2>2
  <2> QED BY <1>1, <2>1, <2>2
<1>4. m + Len(s2) = n + 1
  BY <1>1, <1>2
<1>5. Queued("serving", n + 1, s2, m, f)
  BY <1>3, <1>4 DEF Queued
<1> QED BY <1>5 DEF s2

(* The worker sends END, which is lost when the link is down.              *)
LEMMA EndQueued ==
    ASSUME NEW n \in 0..MaxData, NEW s \in Seq(Message), NEW m \in Nat,
           NEW f \in Nat, Queued("serving", n, s, m, f)
    PROVE  /\ Queued("ended", n, Append(s, END), m, f)
           /\ f > 0 => Queued("ended", n, s, m, f)
<1> DEFINE s2 == Append(s, END)
<1>1. /\ s2 \in Seq(Message) /\ Len(s2) = Len(s) + 1
      /\ s2[Len(s) + 1] = END /\ \A i \in 1..Len(s) : s2[i] = s[i]
  BY Messages, AppendFacts
<1> HIDE DEF s2
<1>2. m + Len(s) = n /\ \A i \in 1..Len(s) : s[i] = m + i /\ s[i] <= n
  BY DEF Queued, Message
<1>3. \A i \in 1..Len(s2) : \/ s2[i] = m + i /\ s2[i] <= n
                            \/ s2[i] = END /\ i = Len(s2)
  BY <1>1, <1>2 DEF Message
<1>4. m + Len(s2) = n + 1
  <2>1. Len(s2) = Len(s) + 1 /\ m + Len(s) = n /\ Len(s) \in Nat
    BY <1>1, <1>2
  <2> QED BY <2>1
<1>5. Queued("ended", n, s2, m, f)
  BY <1>3, <1>4 DEF Queued
<1>6. f > 0 => Queued("ended", n, s, m, f)
  BY <1>2 DEF Queued
<1> QED BY <1>5, <1>6 DEF s2

(* The response relay moves a chunk to the buffer.                         *)
LEMMA ChunkMoved ==
    ASSUME NEW k, NEW n \in 0..MaxData, NEW s \in Seq(Message), NEW g \in Seq(Message),
           NEW b \in Seq(Message), NEW f \in Nat, s # <<>>, Head(s) # END,
           Written(n, g, b), Queued(k, n, s, Len(g) + Len(b), f)
    PROVE  /\ Written(n, g, Append(b, Head(s)))
           /\ Queued(k, n, Tail(s), Len(g) + Len(Append(b, Head(s))), f)
<1> DEFINE b2 == Append(b, Head(s))
           s2 == Tail(s)
<1>1. /\ b2 \in Seq(Message) /\ s2 \in Seq(Message)
      /\ Len(b2) = Len(b) + 1 /\ Len(s2) = Len(s) - 1 /\ Len(s) \in Nat \ {0}
      /\ b2[Len(b) + 1] = s[1] /\ \A i \in 1..Len(b) : b2[i] = b[i]
      /\ \A i \in 1..Len(s2) : s2[i] = s[i + 1] /\ i + 1 \in 1..Len(s)
      /\ s[1] # END
  BY TailFacts, AppendFacts
<1> HIDE DEF b2, s2
<1>2. s[1] = Len(g) + Len(b) + 1 /\ s[1] <= n
  BY <1>1 DEF Queued, Message
<1>3. ASSUME NEW i \in 1..Len(b2) PROVE b2[i] = Len(g) + i
  <2>1. CASE i = Len(b) + 1
    BY <1>1, <1>2, <2>1
  <2>2. CASE i \in 1..Len(b)
    <3>1. b2[i] = b[i] /\ b[i] = Len(g) + i
      BY <1>1, <2>2 DEF Written
    <3> QED BY <3>1
  <2> QED BY <1>1, <2>1, <2>2
<1>4. Written(n, g, b2)
  BY <1>1, <1>2, <1>3 DEF Written
<1>5. \A i \in 1..Len(s2) : \/ s2[i] = Len(g) + Len(b2) + i /\ s2[i] <= n
                            \/ s2[i] = END /\ i = Len(s2) /\ k = "ended"
  <2>1. ASSUME NEW i \in 1..Len(s2)
        PROVE  \/ s2[i] = Len(g) + Len(b2) + i /\ s2[i] <= n
               \/ s2[i] = END /\ i = Len(s2) /\ k = "ended"
    <3>1. s2[i] = s[i + 1] /\ i + 1 \in 1..Len(s)
      BY <1>1
    <3>2. \/ s[i + 1] = Len(g) + Len(b) + (i + 1) /\ s[i + 1] <= n
          \/ s[i + 1] = END /\ i + 1 = Len(s) /\ k = "ended"
      BY <3>1 DEF Queued
    <3> QED BY <1>1, <3>1, <3>2
  <2> QED BY <2>1
<1>6. Len(g) + Len(b2) + Len(s2) = Len(g) + Len(b) + Len(s)
  BY <1>1
<1>7. Queued(k, n, s2, Len(g) + Len(b2), f)
  BY <1>5, <1>6 DEF Queued
<1> QED BY <1>4, <1>7 DEF b2, s2

(* No request has been sent: nothing is there.                             *)
LEMMA NothingYet ==
    ASSUME NEW k \in {"none", "serving"}, NEW g \in Seq(Message), NEW b \in Seq(Message),
           NEW f \in Nat, Written(0, g, b)
    PROVE  Queued(k, 0, <<>>, Len(g) + Len(b), f)
<1>1. Len(g) + Len(b) = 0 /\ Len(<<>>) = 0
  BY DEF Written
<1> QED BY <1>1 DEF Queued

(* The socket is lost with what is in its buffer.                          *)
LEMMA BufferLost ==
    ASSUME NEW n \in Nat, NEW g \in Seq(Message), NEW b \in Seq(Message), Written(n, g, b)
    PROVE  Written(n, g, <<>>)
<1>1. Len(<<>>) = 0 /\ Len(g) \in Nat /\ Len(b) \in Nat
  OBVIOUS
<1>2. Len(g) + Len(<<>>) <= n
  BY <1>1 DEF Written
<1> QED BY <1>1, <1>2 DEF Written

(* When END is at the head of the queue everything else has been written.  *)
LEMMA EndIsLeft ==
    ASSUME NEW k, NEW n \in 0..MaxData, NEW s \in Seq(Message), NEW m \in Nat,
           Queued(k, n, s, m, 0), s # <<>>, Head(s) = END
    PROVE  m = n
<1>1. s[1] = END /\ 1 \in 1..Len(s) /\ END > n
  BY TailFacts, Messages
<1>2. \/ s[1] = m + 1 /\ s[1] <= n
      \/ s[1] = END /\ 1 = Len(s) /\ k = "ended"
  BY <1>1 DEF Queued
<1>4. ~(END <= n)
  BY <1>1, Messages
<1>3. m + Len(s) = n + 1 /\ Len(s) = 1
  BY <1>1, <1>2, <1>4 DEF Queued
<1> QED BY <1>3

(* The number of chunks written.                                           *)
LEMMA LengthSum ==
    ASSUME NEW g \in Seq(Message), NEW b \in Seq(Message)
    PROVE  Len(g) + Len(b) \in Nat
  OBVIOUS

(* The worker has sent one more chunk.                                     *)
LEMMA StillWritten ==
    ASSUME NEW n \in Nat, NEW g \in Seq(Message), NEW b \in Seq(Message), Written(n, g, b)
    PROVE  Written(n + 1, g, b)
  BY DEF Written

(* Steps that touch no response at all.                                    *)
LEMMA QuietSteps ==
    ASSUME IInv,
           \/ \E r \in Reqs : \/ PeerSend(r) \/ HalfClose(r) \/ PeerGone(r) \/ GoIdle(r)
                              \/ ListenerStep(r) /\ ~Requested(r)
           \/ LinkDown \/ LinkBack \/ CleanupStep
           \/ RelayStep /\ ~RelayData /\ ~RelayEnd
    PROVE  Stream'
<1> USE DEF vars, connVars, tableVars, loopVars, endVars, peerVars, relayVars,
           cleanVars, linkVars, workVars
<1> SUFFICES ASSUME NEW s \in Reqs PROVE Same(s)
  BY SameKeeps DEF IInv, Stream
<1>1. ASSUME NEW r \in Reqs, PeerSend(r) \/ HalfClose(r) \/ PeerGone(r) \/ GoIdle(r)
     PROVE  Same(s)
  <2>1. CASE PeerSend(r)
    BY <2>1 DEF PeerSend, Same, IInv, TypeOK
  <2>2. CASE HalfClose(r)
    BY <2>2 DEF HalfClose, Same, IInv, TypeOK
  <2>3. CASE PeerGone(r)
    BY <2>3 DEF PeerGone, Same, IInv, TypeOK
  <2>4. CASE GoIdle(r)
    BY <2>4 DEF GoIdle, Same, IInv, TypeOK
  <2> QED BY <1>1, <2>1, <2>2, <2>3, <2>4
<1>2. ASSUME NEW r \in Reqs, FirstChunk(r) \/ FirstEof(r) \/ FirstTimeout(r)
             \/ RelayChunk(r) \/ Sent(r) \/ RelayEnds(r) \/ Farewell(r)
             \/ FinallyClose(r) \/ FinallyWait(r) \/ FinallyDone(r)
     PROVE  Same(s)
  <2>1. CASE FirstChunk(r)
    BY <2>1 DEF FirstChunk, Goto, CanRead, Same, IInv, TypeOK
  <2>2. CASE FirstEof(r)
    BY <2>2 DEF FirstEof, Goto, AtEof, Same, IInv, TypeOK
  <2>3. CASE FirstTimeout(r)
    BY <2>3 DEF FirstTimeout, Goto, Same, IInv, TypeOK
  <2>4. CASE RelayChunk(r)
    BY <2>4 DEF RelayChunk, Goto, CanRead, Same, IInv, TypeOK
  <2>5. CASE Sent(r)
    BY <2>5 DEF Sent, Goto, Same, IInv, TypeOK
  <2>6. CASE RelayEnds(r)
    BY <2>6 DEF RelayEnds, Goto, AtEof, Same, IInv, TypeOK
  <2>7. CASE Farewell(r)
    BY <2>7 DEF Farewell, Goto, Same, IInv, TypeOK
  <2>8. CASE FinallyClose(r)
    BY <2>8 DEF FinallyClose, Goto, PopAndClose, Unregister, Same, IInv, TypeOK
  <2>9. CASE FinallyWait(r)
    BY <2>9 DEF FinallyWait, Goto, Unregister, WaitClosed, Same, IInv, TypeOK
  <2>10. CASE FinallyDone(r)
    BY <2>10 DEF FinallyDone, Goto, WaitClosed, Same, IInv, TypeOK
  <2> QED BY <1>2, <2>1, <2>2, <2>3, <2>4, <2>5, <2>6, <2>7, <2>8, <2>9, <2>10
<1>3. ASSUME LinkDown \/ LinkBack
     PROVE  Same(s)
  <2>1. CASE LinkDown
    BY <2>1 DEF LinkDown, Same, IInv, TypeOK
  <2>2. CASE LinkBack
    BY <2>2 DEF LinkBack, Same, IInv, TypeOK
  <2> QED BY <1>3, <2>1, <2>2
<1>4. ASSUME RelayCheck \/ RelayVisit \/ RelayDrained \/ RelayDrainReturns \/ RelayClosed
     PROVE  Same(s)
  <2>1. CASE RelayCheck
    BY <2>1 DEF RelayCheck, Same, IInv, TypeOK
  <2>2. CASE RelayVisit
    BY <2>2 DEF RelayVisit, Same, IInv, TypeOK
  <2>3. CASE RelayDrained
    BY <2>3 DEF RelayDrained, Same, IInv, TypeOK
  <2>4. CASE RelayDrainReturns
    BY <2>4 DEF RelayDrainReturns, Same, IInv, TypeOK
  <2>5. CASE RelayClosed
    BY <2>5 DEF RelayClosed, RelayUnregister, WaitClosed, Same, IInv, TypeOK
  <2> QED BY <1>4, <2>1, <2>2, <2>3, <2>4, <2>5
<1>5. ASSUME CleanupSnapshot \/ CleanupNext \/ CleanupSleeps
     PROVE  Same(s)
  <2>1. CASE CleanupSnapshot
    BY <2>1 DEF CleanupSnapshot, CleanupClose, PopAndClose, Same, IInv, TypeOK
  <2>2. CASE CleanupNext
    BY <2>2 DEF CleanupNext, CleanupClose, PopAndClose, WaitClosed, Same, IInv, TypeOK
  <2>3. CASE CleanupSleeps
    BY <2>3 DEF CleanupSleeps, WaitClosed, Same, IInv, TypeOK
  <2> QED BY <1>5, <2>1, <2>2, <2>3
<1> QED BY <1>1, <1>2, <1>3, <1>4, <1>5 DEF ListenerStep, RelayStep, CleanupStep

(* A step that touches the response of one request only.                   *)
LEMMA OneResponse ==
    ASSUME IInv, NEW r \in Reqs, StreamOf(r)',
           \A s \in Reqs : s # r => Same(s)
    PROVE  Stream'
  BY SameKeeps DEF IInv, Stream

(* What the client's side does.                                            *)
LEMMA ClientSteps ==
    ASSUME IInv, NEW r \in Reqs,
           Connect(r) \/ PeerRead(r) \/ SockClosed(r) \/ Requested(r)
    PROVE  Stream'
<1> USE DEF vars, connVars, tableVars, loopVars, endVars, peerVars, relayVars,
           cleanVars, linkVars, workVars
<1>0. \A s \in Reqs : s # r => Same(s)
  <2>1. CASE Connect(r)
    BY <2>1 DEF Connect, Same, IInv, TypeOK
  <2>2. CASE PeerRead(r)
    BY <2>2 DEF PeerRead, Same, IInv, TypeOK
  <2>3. CASE SockClosed(r)
    BY <2>3 DEF SockClosed, Same, IInv, TypeOK
  <2>4. CASE Requested(r)
    BY <2>4 DEF Requested, Goto, Same, IInv, TypeOK
  <2> QED BY <2>1, <2>2, <2>3, <2>4
<1>t. /\ StreamOf(r) /\ wsent[r] \in Nat /\ flaps \in Nat
      /\ got[r] \in Seq(Message) /\ buf[r] \in Seq(Message) /\ q[r] \in Seq(Message)
      /\ Written(wsent[r], got[r], buf[r])
      /\ wk[r] = "none" => wsent[r] = 0 /\ q[r] = <<>>
      /\ On(r) => Queued(wk[r], wsent[r], q[r], Len(got[r]) + Len(buf[r]), flaps)
  BY ServerAssumption DEF IInv, Stream, StreamOf, TypeOK
<1>1. CASE Connect(r)
  <2>1. wk[r] = "none" /\ UNCHANGED <<wk, wsent, q, got, buf, flaps>>
    BY <1>1 DEF Connect, IInv, Told
  <2>2. Queued("none", 0, <<>>, Len(got[r]) + Len(buf[r]), flaps)
    BY <1>t, <2>1, NothingYet
  <2>3. StreamOf(r)'
    BY <1>t, <2>1, <2>2 DEF StreamOf
  <2> QED BY <1>0, <2>3, OneResponse
<1>2. CASE PeerRead(r)
  <2>1. /\ got'[r] = Append(got[r], Head(buf[r])) /\ buf'[r] = Tail(buf[r])
        /\ buf[r] # <<>> /\ UNCHANGED <<wk, wsent, q, clients, sock, flaps>>
    BY <1>2 DEF PeerRead, IInv, TypeOK
  <2>2. /\ Written(wsent[r], got'[r], buf'[r])
        /\ Len(got'[r]) + Len(buf'[r]) = Len(got[r]) + Len(buf[r])
    <3>1. /\ wsent[r] \in Nat /\ got[r] \in Seq(Message) /\ buf[r] \in Seq(Message)
          /\ Written(wsent[r], got[r], buf[r])
      BY <1>t
    <3> QED BY <2>1, <3>1, ChunkRead
  <2>3. StreamOf(r)'
    BY <1>t, <2>1, <2>2 DEF StreamOf, On
  <2> QED BY <1>0, <2>3, OneResponse
<1>3. CASE SockClosed(r)
  <2>1. /\ buf'[r] = <<>> /\ ~On(r)' /\ UNCHANGED <<wk, wsent, q, got, flaps>>
    BY <1>3 DEF SockClosed, IInv, TypeOK, On
  <2>2. Written(wsent[r], got[r], buf'[r])
    BY <1>t, <2>1, BufferLost
  <2>3. StreamOf(r)'
    BY <1>t, <2>1, <2>2 DEF StreamOf
  <2> QED BY <1>0, <2>3, OneResponse
<1>4. CASE Requested(r)
  <2>1. /\ wk[r] = "none" /\ wk'[r] \in {"none", "serving"}
        /\ UNCHANGED <<wsent, q, got, buf, flaps>>
    BY <1>4 DEF Requested, Goto, IInv, Told, TypeOK
  <2>2. Queued(wk'[r], 0, <<>>, Len(got[r]) + Len(buf[r]), flaps)
    BY <1>t, <2>1, NothingYet
  <2>3. StreamOf(r)'
    BY <1>t, <2>1, <2>2 DEF StreamOf
  <2> QED BY <1>0, <2>3, OneResponse
<1> QED BY <1>1, <1>2, <1>3, <1>4

(* What the worker sends.                                                  *)
LEMMA WorkerSteps ==
    ASSUME IInv, NEW r \in Reqs, WorkerData(r) \/ WorkerEnd(r)
    PROVE  Stream'
<1> USE DEF vars, connVars, tableVars, loopVars, endVars, peerVars, relayVars,
           cleanVars, linkVars, workVars
<1>0. \A s \in Reqs : s # r => Same(s)
  <2>1. CASE WorkerData(r)
    BY <2>1 DEF WorkerData, Arrive, Same, IInv, TypeOK
  <2>2. CASE WorkerEnd(r)
    BY <2>2 DEF WorkerEnd, Arrive, Same, IInv, TypeOK
  <2> QED BY <2>1, <2>2
<1>t. /\ wsent[r] \in Nat /\ wsent[r] \in 0..MaxData /\ flaps \in Nat
      /\ got[r] \in Seq(Message) /\ buf[r] \in Seq(Message) /\ q[r] \in Seq(Message)
      /\ Written(wsent[r], got[r], buf[r]) /\ wk[r] = "serving"
      /\ On(r) => Queued("serving", wsent[r], q[r], Len(got[r]) + Len(buf[r]), flaps)
      /\ UNCHANGED <<got, buf, clients, sock, flaps>>
  BY ServerAssumption DEF WorkerData, WorkerEnd, IInv, Stream, StreamOf, TypeOK
<1>m. Len(got[r]) + Len(buf[r]) \in Nat
  BY <1>t, LengthSum
<1>q. On(r) => r \in queues
  BY <1>t DEF IInv, Visited, On
<1>1. CASE WorkerData(r)
  <2>1. /\ wk'[r] = "serving" /\ wsent'[r] = wsent[r] + 1 /\ wsent[r] < MaxData
        /\ r \in queues => q'[r] = Append(q[r], wsent[r] + 1)
    BY <1>1, <1>t DEF WorkerData, Arrive, IInv, TypeOK
  <2>2. Written(wsent[r] + 1, got[r], buf[r])
    BY <1>t, StillWritten
  <2>3. ASSUME On(r)
        PROVE  Queued("serving", wsent[r] + 1, q'[r], Len(got[r]) + Len(buf[r]), flaps)
    <3>1. q'[r] = Append(q[r], wsent[r] + 1)
      BY <2>1, <2>3, <1>q
    <3> QED BY <1>t, <1>m, <2>1, <2>3, <3>1, ChunkQueued
  <2>4. StreamOf(r)'
    BY <1>t, <2>1, <2>2, <2>3 DEF StreamOf, On
  <2> QED BY <1>0, <2>4, OneResponse
<1>2. CASE WorkerEnd(r)
  <2>1. /\ wk'[r] = "ended" /\ UNCHANGED wsent
        /\ \/ q'[r] = q[r] /\ flaps > 0
           \/ q'[r] = Append(q[r], END)
           \/ r \notin queues
    BY <1>2, <1>t DEF WorkerEnd, Arrive, IInv, Told, TypeOK
  <2>2. ASSUME On(r)
        PROVE  Queued("ended", wsent[r], q'[r], Len(got[r]) + Len(buf[r]), flaps)
    BY <1>t, <1>m, <1>q, <2>1, <2>2, EndQueued
  <2>3. StreamOf(r)'
    BY <1>t, <2>1, <2>2 DEF StreamOf, On
  <2> QED BY <1>0, <2>3, OneResponse
<1> QED BY <1>1, <1>2

(* What the response relay moves.                                          *)
LEMMA RelaySteps ==
    ASSUME IInv, NEW r \in Reqs, rcur = r, RelayData \/ RelayEnd
    PROVE  Stream'
<1> USE DEF vars, connVars, tableVars, loopVars, endVars, peerVars, relayVars,
           cleanVars, linkVars, workVars
<1>0. \A s \in Reqs : s # r => Same(s)
  <2>1. CASE RelayData
    BY <2>1 DEF RelayData, Same, IInv, TypeOK
  <2>2. CASE RelayEnd
    BY <2>2 DEF RelayEnd, PopAndClose, RelayUnregister, Same, IInv, TypeOK
  <2> QED BY <2>1, <2>2
<1>t. /\ wsent[r] \in Nat /\ wsent[r] \in 0..MaxData /\ flaps \in Nat
      /\ got[r] \in Seq(Message) /\ buf[r] \in Seq(Message) /\ q[r] \in Seq(Message)
      /\ q[r] # <<>> /\ q'[r] = Tail(q[r])
      /\ Written(wsent[r], got[r], buf[r]) /\ wk[r] # "none"
      /\ On(r) => Queued(wk[r], wsent[r], q[r],
                            Len(got[r]) + Len(buf[r]), flaps)
      /\ UNCHANGED <<wk, wsent, got, flaps>>
  <2>1. q[r] # <<>> /\ q' = [q EXCEPT ![r] = Tail(q[r])] /\ UNCHANGED <<wk, wsent, got, flaps>>
    BY DEF RelayData, RelayEnd
  <2>2. q \in [Reqs -> Seq(Message)]
    BY DEF IInv, TypeOK
  <2>3. q'[r] = Tail(q[r])
    BY <2>1, <2>2
  <2>4. StreamOf(r) /\ wk[r] # "none"
    BY <2>1 DEF IInv, Stream, StreamOf
  <2>5. /\ wsent[r] \in Nat /\ wsent[r] \in 0..MaxData /\ flaps \in Nat
        /\ got[r] \in Seq(Message) /\ buf[r] \in Seq(Message) /\ q[r] \in Seq(Message)
    BY ServerAssumption DEF IInv, TypeOK
  <2> QED BY <2>1, <2>3, <2>4, <2>5 DEF StreamOf
<1>1. CASE RelayData /\ On(r)
  <2>1. /\ UNCHANGED <<clients, sock>> /\ Head(q[r]) # END
        /\ buf'[r] = Append(buf[r], Head(q[r]))
    <3>1. /\ r \in clients /\ sock[r] = "open" /\ Head(q[r]) # END
          /\ buf' = [buf EXCEPT ![r] = Append(buf[r], Head(q[r]))]
          /\ UNCHANGED <<clients, sock>>
      BY <1>1 DEF RelayData, On
    <3>2. buf \in [Reqs -> Seq(Message)]
      BY DEF IInv, TypeOK
    <3> QED BY <3>1, <3>2
  <2>2. /\ Written(wsent[r], got[r], buf'[r])
        /\ Queued(wk[r], wsent[r], q'[r], Len(got[r]) + Len(buf'[r]), flaps)
    <3>1. /\ Queued(wk[r], wsent[r], q[r], Len(got[r]) + Len(buf[r]), flaps)
          /\ wsent[r] \in 0..MaxData /\ q[r] \in Seq(Message) /\ got[r] \in Seq(Message)
          /\ buf[r] \in Seq(Message) /\ flaps \in Nat /\ q[r] # <<>> /\ Head(q[r]) # END
          /\ Written(wsent[r], got[r], buf[r])
      BY <1>t, <1>1, <2>1
    <3>2. /\ Written(wsent[r], got[r], Append(buf[r], Head(q[r])))
          /\ Queued(wk[r], wsent[r], Tail(q[r]),
                    Len(got[r]) + Len(Append(buf[r], Head(q[r]))), flaps)
      BY <3>1, ChunkMoved
    <3> QED BY <1>t, <2>1, <3>2
  <2>3. StreamOf(r)'
    BY <1>t, <2>1, <2>2 DEF StreamOf
  <2> QED BY <1>0, <2>3, OneResponse
<1>2. CASE RelayData /\ ~On(r)
  <2>1. UNCHANGED <<clients, sock, buf>>
    BY <1>2 DEF RelayData, On
  <2>2. StreamOf(r)'
    BY <1>t, <1>2, <2>1 DEF StreamOf, On
  <2> QED BY <1>0, <2>2, OneResponse
<1>3. CASE RelayEnd
  <2>1. ~On(r)' /\ UNCHANGED buf
    BY <1>3 DEF RelayEnd, PopAndClose, On
  <2>2. StreamOf(r)'
    BY <1>t, <2>1 DEF StreamOf
  <2> QED BY <1>0, <2>2, OneResponse
<1> QED BY <1>1, <1>2, <1>3

-----------------------------------------------------------------------------
(* The invariant holds initially ...                                       *)
LEMMA InitInv == Init => IInv
<1> SUFFICES ASSUME Init PROVE IInv
  OBVIOUS
<1>1. TypeOK /\ Ranges
  <2>1. 0 \in 0..MaxUp /\ 0 \in 0..MaxData /\ 0 \in 0..MaxFlaps /\ <<>> \in Seq(Message)
    BY ServerAssumption
  <2> QED BY <2>1 DEF Init, TypeOK, Ranges
<1>2. Tables /\ Told /\ Visited
  BY DEF Init, Tables, Told, Visited
<1>3. Stream
  <2>1. Written(0, <<>>, <<>>)
    BY DEF Written
  <2> QED BY <2>1 DEF Init, Stream, StreamOf, On
<1> QED BY <1>1, <1>2, <1>3 DEF IInv

(* ... and every step keeps it.                                            *)
LEMMA NextInv == IInv /\ [Next]_vars => IInv'
<1> SUFFICES ASSUME IInv, [Next]_vars PROVE IInv'
  OBVIOUS
<1>1. CASE Next
  <2>1. /\ TypeOK' /\ Ranges' /\ Tables' /\ Told'
    BY <1>1, TypeStep, TablesStep, ToldStep DEF IInv
  <2>2. Visited'
    BY <1>1, VisitedStep
  <2>3. Stream'
    <3>1. RelayData \/ RelayEnd => rcur \in Reqs
      BY DEF IInv, Ranges, RelayData, RelayEnd
    <3> QED BY <1>1, <3>1, QuietSteps, ClientSteps, WorkerSteps, RelaySteps
       DEF Next, ExternalStep, ListenerStep, RelayStep
  <2> QED BY <2>1, <2>2, <2>3 DEF IInv
<1>2. CASE UNCHANGED vars
  <2> USE DEF vars, connVars, tableVars, loopVars, endVars, peerVars, relayVars,
              cleanVars, linkVars, workVars
  <2>1. TypeOK' /\ Ranges' /\ Tables' /\ Told' /\ Visited'
    <3>1. TypeOK'
      BY <1>2 DEF IInv, TypeOK
    <3>2. Ranges' /\ Tables'
      BY <1>2 DEF IInv, Ranges, Tables
    <3>3. Told' /\ Visited'
      BY <1>2 DEF IInv, Told, Visited
    <3> QED BY <3>1, <3>2, <3>3
  <2>2. \A s \in Reqs : Same(s)
    BY <1>2 DEF Same, vars, connVars, tableVars, loopVars, endVars, peerVars, relayVars,
           cleanVars, linkVars, workVars
  <2> QED BY <2>1, <2>2, SameKeeps DEF IInv, Stream
<1> QED BY <1>1, <1>2

(* The inductive invariant.                                                *)
THEOREM ServerInvariant == Spec => []IInv
  BY InitInv, NextInv, PTL DEF Spec

(* The types of the sockets, the tables, the queues and the coroutines.    *)
THEOREM ServerTypes == Spec => []TypeOK
<1>1. IInv => TypeOK
  BY DEF IInv
<1> QED BY <1>1, ServerInvariant, PTL

(* Three coroutines close clients, and nothing of a request is left when   *)
(* its listener is done (client_listener.py, relay_server.py,              *)
(* connection_manager.py).                                                 *)
THEOREM ServerTablesClean == Spec => []NoLeak
<1>1. IInv => NoLeak
  BY DEF IInv, Tables, NoLeak
<1> QED BY <1>1, ServerInvariant, PTL

(* While the link holds the worker is told of the end of every request.    *)
THEOREM WorkerAlwaysTold == Spec => []WorkerTold
<1>1. IInv => WorkerTold
  BY DEF IInv, Told, WorkerTold
<1> QED BY <1>1, ServerInvariant, PTL

(* Every client reads a prefix of its own response, in order.              *)
THEOREM ResponsesArePrefixes == Spec => []ResponsePrefix
<1>1. ASSUME NEW n \in Nat, NEW g \in Seq(Message), NEW b \in Seq(Message), Written(n, g, b)
      PROVE  Len(g \o b) <= n /\ \A i \in 1..Len(g \o b) : (g \o b)[i] = i
  <2>1. /\ Len(g \o b) = Len(g) + Len(b) /\ Len(g) + Len(b) <= n
        /\ \A i \in 1..Len(g) : (g \o b)[i] = g[i]
        /\ \A i \in Len(g) + 1..Len(g) + Len(b) : (g \o b)[i] = b[i - Len(g)]
    BY <1>1 DEF Written
  <2>2. ASSUME NEW i \in 1..Len(g \o b) PROVE (g \o b)[i] = i
    <3>1. CASE i \in 1..Len(g)
      BY <1>1, <2>1, <3>1 DEF Written
    <3>2. CASE i \in Len(g) + 1..Len(g) + Len(b)
      <4>1. i - Len(g) \in 1..Len(b) /\ (g \o b)[i] = b[i - Len(g)]
        BY <2>1, <3>2
      <4>2. b[i - Len(g)] = Len(g) + (i - Len(g))
        BY <1>1, <4>1 DEF Written
      <4> QED BY <4>1, <4>2
    <3> QED BY <2>1, <3>1, <3>2
  <2> QED BY <2>1, <2>2
<1>2. IInv => ResponsePrefix
  <2>1. ASSUME IInv, NEW r \in Reqs
        PROVE  /\ wsent[r] \in Nat /\ got[r] \in Seq(Message) /\ buf[r] \in Seq(Message)
               /\ Written(wsent[r], got[r], buf[r])
    BY <2>1, ServerAssumption DEF IInv, TypeOK, Stream, StreamOf
  <2> QED BY <1>1, <2>1 DEF ResponsePrefix
<1> QED BY <1>2, ServerInvariant, PTL

(* END closes a client only after everything before it has been written.   *)
THEOREM EndComesLast == Spec => EndIsLast
<1>1. ASSUME IInv, [Next]_vars, NEW r \in Reqs,
             r \in clients \ clients', rcur = r, rpc = "drain", rpc' = "closing"
      PROVE  flaps > 0 \/ sock[r] = "closed" \/ Len(got[r]) + Len(buf[r]) = wsent[r]
  <2>1. RelayEnd
    BY <1>1 DEF Next, Yielded, RelayStep, RelayCheck, RelayVisit, RelayDrained, RelayData,
                RelayDrainReturns, RelayClosed, vars, connVars, tableVars, loopVars, endVars, peerVars, relayVars,
           cleanVars, linkVars, workVars
  <2>2. /\ q[r] \in Seq(Message) /\ q[r] # <<>> /\ Head(q[r]) = END
        /\ got[r] \in Seq(Message) /\ buf[r] \in Seq(Message)
        /\ StreamOf(r) /\ flaps \in Nat /\ wsent[r] \in 0..MaxData
        /\ sock[r] \in {"open", "closed"} /\ r \in clients
    BY <1>1, <2>1, ServerAssumption DEF RelayEnd, IInv, TypeOK, Stream, Visited
  <2>3. CASE sock[r] = "open" /\ flaps = 0
    <3>1. On(r)
      BY <2>2, <2>3 DEF On
    <3>2. Len(got[r]) + Len(buf[r]) \in Nat
      BY <2>2, LengthSum
    <3>3. Queued(wk[r], wsent[r], q[r], Len(got[r]) + Len(buf[r]), 0)
      BY <2>2, <2>3, <3>1 DEF StreamOf
    <3> QED BY <2>2, <3>2, <3>3, EndIsLeft
  <2>4. CASE sock[r] = "closed"
    BY <2>4
  <2>5. CASE flaps # 0
    <3>1. flaps \in Nat
      BY <2>2
    <3>2. flaps > 0
      BY <2>5, <3>1
    <3> QED BY <3>2
  <2> QED BY <2>2, <2>3, <2>4, <2>5
<1>2. IInv /\ [Next]_vars =>
        [\A r \in Reqs :
           r \in clients \ clients' /\ rcur = r /\ rpc = "drain" /\ rpc' = "closing"
             => flaps > 0 \/ sock[r] = "closed" \/ Len(got[r]) + Len(buf[r]) = wsent[r]]_vars
  BY <1>1
<1> QED BY <1>2, ServerInvariant, PTL DEF Spec, EndIsLast

-----------------------------------------------------------------------------
(* ClosesUnderWay, from the invariant.                                     *)

(* A socket exists once its listener does, and the cleanup waits for one   *)
(* that does.                                                              *)
Placed ==
    /\ \A r \in Reqs : pc[r] # "none" => sock[r] # "none"
    /\ kpc = "wait" => kcur \in Reqs /\ pc[kcur] # "none"
ClosesInv == ClosesUnderWay /\ Placed

(* The parts of the invariant after a step.                                *)
LEMMA ClosesParts ==
    ASSUME \A r \in Reqs : /\ sock'[r] = "open" => r \in clients'
                           /\ pc'[r] \in {"closing", "leaving"} => sock'[r] \in {"closing", "closed"}
                           /\ pc'[r] # "none" => sock'[r] # "none",
           rpc' = "closing" => sock'[rcur'] \in {"closing", "closed"},
           kpc' = "wait" => /\ sock'[kcur'] \in {"closing", "closed"}
                            /\ kcur' \in Reqs /\ pc'[kcur'] # "none"
    PROVE  ClosesInv'
<1>1. ClosesUnderWay'
  BY DEF ClosesUnderWay, Going
<1>2. Placed'
  BY DEF Placed
<1> QED BY <1>1, <1>2 DEF ClosesInv

(* The steps that pop no client and let nobody wait for a close.           *)
LEMMA StillOpen ==
    ASSUME ClosesInv,
           UNCHANGED <<sock, clients>>,
           \A r \in Reqs : /\ pc'[r] # "none" <=> pc[r] # "none"
                           /\ pc'[r] \in {"closing", "leaving"} => pc[r] \in {"closing", "leaving"},
           UNCHANGED <<rpc, rcur>> \/ rpc' # "closing",
           UNCHANGED <<kpc, kcur>> \/ kpc' # "wait"
    PROVE  ClosesInv'
<1>1. \A r \in Reqs : /\ sock'[r] = "open" => r \in clients'
                      /\ pc'[r] \in {"closing", "leaving"} => sock'[r] \in {"closing", "closed"}
                      /\ pc'[r] # "none" => sock'[r] # "none"
  BY DEF ClosesInv, ClosesUnderWay, Placed, Going
<1>2. rpc' = "closing" => sock'[rcur'] \in {"closing", "closed"}
  BY DEF ClosesInv, ClosesUnderWay, Going
<1>3. kpc' = "wait" => /\ sock'[kcur'] \in {"closing", "closed"}
                       /\ kcur' \in Reqs /\ pc'[kcur'] # "none"
  <2>1. ASSUME kpc' = "wait" PROVE kpc = "wait" /\ kcur' = kcur
    BY <2>1
  <2>2. kpc = "wait" => kcur \in Reqs /\ pc[kcur] # "none" /\ sock[kcur] \in {"closing", "closed"}
    BY DEF ClosesInv, ClosesUnderWay, Placed, Going
  <2> QED BY <2>1, <2>2
<1> QED BY <1>1, <1>2, <1>3, ClosesParts

(* close_client up to its await: one socket is on its way, the others and  *)
(* the table keep to each other.                                           *)
LEMMA PopCloses ==
    ASSUME IInv, ClosesInv, NEW r \in Reqs, PopAndClose(r), pc[r] # "none"
    PROVE  /\ Going(r)' /\ \A s \in Reqs : Going(s) => Going(s)'
           /\ \A s \in Reqs : sock'[s] = "open" => s \in clients'
           /\ \A s \in Reqs : sock[s] # "none" => sock'[s] # "none"
<1>1. /\ sock \in [Reqs -> {"none", "open", "closing", "closed"}] /\ clients \subseteq Reqs
      /\ r \in clients => sock[r] \in {"open", "closed"}
      /\ sock[r] = "open" => r \in clients
      /\ sock[r] # "none"
  BY DEF IInv, TypeOK, Visited, ClosesInv, ClosesUnderWay, Placed
<1>2. \A s \in Reqs : s # r => sock'[s] = sock[s]
  BY <1>1 DEF PopAndClose
<1>3. Going(r)'
  BY <1>1 DEF PopAndClose, Going
<1>4. \A s \in Reqs : sock'[s] = "open" => s \in clients'
  <2>1. \A s \in Reqs : s # r => (s \in clients' <=> s \in clients)
    BY DEF PopAndClose
  <2> QED BY <1>2, <1>3, <2>1 DEF Going, ClosesInv, ClosesUnderWay
<1> QED BY <1>2, <1>3, <1>4 DEF Going

LEMMA ClosesStep == ASSUME IInv, ClosesInv, [Next]_vars PROVE ClosesInv'
<1> USE DEF vars, connVars, tableVars, loopVars, endVars, peerVars, relayVars,
           cleanVars, linkVars, workVars
<1>1. /\ pc \in [Reqs -> {"none", "first", "requesting", "relay", "sending", "farewell",
                        "finally", "closing", "leaving", "done"}]
      /\ sock \in [Reqs -> {"none", "open", "closing", "closed"}]
      /\ clients \subseteq Reqs /\ idle \subseteq clients /\ ktodo \subseteq Reqs
      /\ \A r \in clients : pc[r] # "none"
      /\ rpc \in {"drain", "draining", "closing"} => rcur \in Reqs /\ pc[rcur] # "none"
  BY DEF IInv, TypeOK, Tables, Visited, Ranges
<1>2. ASSUME NEW r \in Reqs,
             \/ PeerSend(r) \/ PeerRead(r) \/ HalfClose(r) \/ PeerGone(r) \/ GoIdle(r)
             \/ WorkerData(r) \/ WorkerEnd(r)
      PROVE  ClosesInv'
  <2>1. UNCHANGED <<sock, clients, pc, rpc, rcur, kpc, kcur>>
    BY <1>2 DEF PeerSend, PeerRead, HalfClose, PeerGone, GoIdle, WorkerData, WorkerEnd
  <2> QED BY <2>1, StillOpen
<1>3. ASSUME NEW r \in Reqs,
             \/ FirstChunk(r) \/ FirstEof(r) \/ FirstTimeout(r) \/ Requested(r)
             \/ RelayChunk(r) \/ Sent(r) \/ RelayEnds(r) \/ Farewell(r) \/ FinallyDone(r)
      PROVE  ClosesInv'
  <2>1. UNCHANGED <<sock, clients, rpc, rcur, kpc, kcur>> /\ pc[r] # "none"
    BY <1>3 DEF FirstChunk, FirstEof, FirstTimeout, Requested, RelayChunk, Sent, RelayEnds,
       Farewell, FinallyDone
  <2>2. \E p \in {"requesting", "finally", "relay", "sending", "farewell", "done"} :
            pc' = [pc EXCEPT ![r] = p]
    BY <1>3 DEF FirstChunk, FirstEof, FirstTimeout, Requested, RelayChunk, Sent, RelayEnds,
       Farewell, FinallyDone, Goto
  <2>3. \A s \in Reqs : /\ pc'[s] # "none" <=> pc[s] # "none"
                        /\ pc'[s] \in {"closing", "leaving"} => pc[s] \in {"closing", "leaving"}
    BY <1>1, <2>1, <2>2
  <2> QED BY <2>1, <2>3, StillOpen
<1>4. CASE \/ RelayCheck \/ RelayVisit \/ RelayDrained \/ RelayData \/ RelayDrainReturns
           \/ RelayClosed
  <2>1. UNCHANGED <<sock, clients, pc, kpc, kcur>> /\ rpc' # "closing"
    BY <1>4 DEF RelayCheck, RelayVisit, RelayDrained, RelayData, RelayDrainReturns,
       RelayClosed, RelayUnregister
  <2> QED BY <2>1, StillOpen
<1>5. CASE CleanupSleeps
  <2>1. UNCHANGED <<sock, clients, pc, rpc, rcur>> /\ kpc' # "wait"
    BY <1>5 DEF CleanupSleeps
  <2> QED BY <2>1, StillOpen
<1>6. ASSUME NEW r \in Reqs, Connect(r) PROVE ClosesInv'
  <2>1. /\ pc[r] = "none" /\ sock' = [sock EXCEPT ![r] = "open"] /\ clients' = clients \cup {r}
        /\ pc' = [pc EXCEPT ![r] = "first"] /\ UNCHANGED <<rpc, rcur, kpc, kcur>>
        /\ r \notin clients
    BY <1>1, <1>6 DEF Connect
  <2> QED BY <1>1, <2>1 DEF ClosesInv, ClosesUnderWay, Placed, Going
<1>7. ASSUME NEW r \in Reqs, SockClosed(r) PROVE ClosesInv'
  <2>1. sock' = [sock EXCEPT ![r] = "closed"] /\ UNCHANGED <<clients, pc, rpc, rcur, kpc, kcur>>
    BY <1>7 DEF SockClosed
  <2> QED BY <1>1, <2>1 DEF ClosesInv, ClosesUnderWay, Placed, Going
<1>8. ASSUME NEW r \in Reqs, FinallyClose(r) PROVE ClosesInv'
  <2>1. PopAndClose(r) /\ pc[r] # "none"
    BY <1>8 DEF FinallyClose
  <2>2. /\ UNCHANGED <<rpc, rcur, kpc, kcur>>
        /\ pc'[r] # "none" /\ \A s \in Reqs : s # r => pc'[s] = pc[s]
    BY <1>1, <1>8 DEF FinallyClose, Goto, Unregister
  <2>3. /\ sock'[r] \in {"closing", "closed"}
        /\ \A s \in Reqs : /\ sock[s] \in {"closing", "closed"} => sock'[s] \in {"closing", "closed"}
                           /\ sock'[s] = "open" => s \in clients'
                           /\ sock[s] # "none" => sock'[s] # "none"
    BY <2>1, PopCloses DEF Going
  <2>4. \A s \in Reqs : /\ sock'[s] = "open" => s \in clients'
                        /\ pc'[s] \in {"closing", "leaving"} => sock'[s] \in {"closing", "closed"}
                        /\ pc'[s] # "none" => sock'[s] # "none"
    BY <2>1, <2>2, <2>3 DEF ClosesInv, ClosesUnderWay, Placed, Going
  <2>5. rpc' = "closing" => sock'[rcur'] \in {"closing", "closed"}
    BY <1>1, <2>2, <2>3 DEF ClosesInv, ClosesUnderWay, Going
  <2>6. kpc' = "wait" => /\ sock'[kcur'] \in {"closing", "closed"}
                         /\ kcur' \in Reqs /\ pc'[kcur'] # "none"
    BY <2>2, <2>3 DEF ClosesInv, ClosesUnderWay, Placed, Going
  <2> QED BY <2>4, <2>5, <2>6, ClosesParts
<1>9. ASSUME NEW r \in Reqs, FinallyWait(r) PROVE ClosesInv'
  <2>1. /\ sock[r] = "closed" /\ UNCHANGED <<sock, clients, rpc, rcur, kpc, kcur>>
        /\ pc'[r] = "leaving" /\ \A s \in Reqs : s # r => pc'[s] = pc[s]
    BY <1>1, <1>9 DEF FinallyWait, WaitClosed, Unregister, Goto
  <2> QED BY <2>1 DEF ClosesInv, ClosesUnderWay, Placed, Going
<1>10. CASE RelayEnd
  <2>1. /\ rcur \in Reqs /\ pc[rcur] # "none" /\ PopAndClose(rcur)
        /\ UNCHANGED <<pc, kpc, kcur>> /\ (rpc' = "closing" => rcur' = rcur)
    BY <1>1, <1>10 DEF RelayEnd, RelayUnregister
  <2> QED BY <2>1, PopCloses DEF ClosesInv, ClosesUnderWay, Placed, Going
<1>11. CASE CleanupSnapshot \/ CleanupNext
  <2>1. PICK r \in clients : PopAndClose(r) /\ kpc' = "wait" /\ kcur' = r
    BY <1>1, <1>11 DEF CleanupSnapshot, CleanupNext, CleanupClose
  <2>2. UNCHANGED <<pc, rpc, rcur>> /\ r \in Reqs /\ pc[r] # "none"
    BY <1>1, <1>11, <2>1 DEF CleanupSnapshot, CleanupNext
  <2>3. /\ sock'[r] \in {"closing", "closed"}
        /\ \A s \in Reqs : /\ sock[s] \in {"closing", "closed"} => sock'[s] \in {"closing", "closed"}
                           /\ sock'[s] = "open" => s \in clients'
                           /\ sock[s] # "none" => sock'[s] # "none"
    BY <2>1, <2>2, PopCloses DEF Going
  <2>4. \A s \in Reqs : /\ sock'[s] = "open" => s \in clients'
                        /\ pc'[s] \in {"closing", "leaving"} => sock'[s] \in {"closing", "closed"}
                        /\ pc'[s] # "none" => sock'[s] # "none"
    BY <2>2, <2>3 DEF ClosesInv, ClosesUnderWay, Placed, Going
  <2>5. rpc' = "closing" => sock'[rcur'] \in {"closing", "closed"}
    BY <1>1, <2>2, <2>3 DEF ClosesInv, ClosesUnderWay, Going
  <2> QED BY <2>1, <2>2, <2>3, <2>4, <2>5, ClosesParts
<1>12. CASE UNCHANGED vars
  BY <1>12, StillOpen
<1>13. CASE RelayStep
  BY <1>4, <1>10, <1>13 DEF RelayStep
<1>14. CASE CleanupStep
  BY <1>5, <1>11, <1>14 DEF CleanupStep
<1>15. ASSUME NEW r \in Reqs, ListenerStep(r) PROVE ClosesInv'
  BY <1>3, <1>8, <1>9, <1>15 DEF ListenerStep
<1>16. CASE ExternalStep
  <2>1. CASE LinkDown \/ LinkBack
    <3>1. UNCHANGED <<sock, clients, pc, rpc, rcur, kpc, kcur>>
      BY <2>1 DEF LinkDown, LinkBack
    <3> QED BY <3>1, StillOpen
  <2> QED BY <1>2, <1>6, <1>7, <1>16, <2>1 DEF ExternalStep
<1> QED BY <1>12, <1>13, <1>14, <1>15, <1>16 DEF Next

(* An open socket is always in the table, and nobody (listener, relay,     *)
(* idle cleanup) awaits the close of a socket that is open.                *)
THEOREM ClosesAreUnderWay == Spec => []ClosesUnderWay
<1>1. Init => ClosesInv
  BY DEF Init, ClosesInv, ClosesUnderWay, Placed
<1>2. IInv /\ ClosesInv /\ [Next]_vars => ClosesInv'
  BY ClosesStep
<1>3. ClosesInv => ClosesUnderWay
  BY DEF ClosesInv
<1> QED BY <1>1, <1>2, <1>3, ServerInvariant, PTL DEF Spec

-----------------------------------------------------------------------------
(* The server's side of WorkerEnd: a listener that is about to send its    *)
(* REQUEST has not sent it before, and the worker's frames come after.     *)
LEMMA WorkerStep == ASSUME IInv, [Next]_vars PROVE [Worker!Next]_<<wk, wsent>>
<1> USE DEF vars, connVars, tableVars, loopVars, endVars, peerVars, relayVars,
           cleanVars, linkVars, workVars
<1>1. wk \in [Reqs -> {"none", "serving", "ended"}] /\ Told
  BY DEF IInv, TypeOK
<1>2. ASSUME NEW r \in Reqs, Requested(r) PROVE [Worker!Next]_<<wk, wsent>>
  <2>1. wk[r] = "none" /\ wsent' = wsent
    BY <1>1, <1>2 DEF Requested, Told
  <2>2. wk' = wk \/ wk' = [wk EXCEPT ![r] = "serving"]
    BY <1>2 DEF Requested
  <2> QED BY <2>1, <2>2 DEF Worker!Next, Worker!Request
<1>3. ASSUME NEW r \in Reqs, WorkerData(r) \/ WorkerEnd(r) PROVE Worker!Next
  BY <1>3 DEF WorkerData, WorkerEnd, Worker!Next, Worker!Data, Worker!End
<1>4. ASSUME UNCHANGED <<wk, wsent>> PROVE [Worker!Next]_<<wk, wsent>>
  BY <1>4
<1>5. ASSUME NEW r \in Reqs,
             \/ Connect(r) \/ PeerSend(r) \/ PeerRead(r) \/ HalfClose(r) \/ PeerGone(r)
             \/ SockClosed(r) \/ GoIdle(r)
             \/ FirstChunk(r) \/ FirstEof(r) \/ FirstTimeout(r) \/ RelayChunk(r) \/ Sent(r)
             \/ RelayEnds(r) \/ Farewell(r)
             \/ FinallyClose(r) \/ FinallyWait(r) \/ FinallyDone(r)
      PROVE  UNCHANGED <<wk, wsent>>
  BY <1>5 DEF Connect, PeerSend, PeerRead, HalfClose, PeerGone, SockClosed, GoIdle,
     FirstChunk, FirstEof, FirstTimeout, RelayChunk, Sent, RelayEnds, Farewell,
     FinallyClose, FinallyWait, FinallyDone
<1>6. ASSUME LinkDown \/ LinkBack \/ RelayStep \/ CleanupStep \/ UNCHANGED vars
      PROVE  UNCHANGED <<wk, wsent>>
  BY <1>6 DEF LinkDown, LinkBack, RelayStep, RelayCheck, RelayVisit, RelayDrained, RelayData,
     RelayDrainReturns, RelayEnd, RelayClosed, CleanupStep, CleanupSnapshot, CleanupNext,
     CleanupSleeps
<1> QED BY <1>2, <1>3, <1>4, <1>5, <1>6 DEF Next, ExternalStep, ListenerStep

(* RelayServer implements WorkerEnd as the two workers do: what it takes   *)
(* for granted of its worker is what TCPRelay and InlineWorker are proved  *)
(* to keep.                                                                *)
THEOREM ServerUsesWorkerEnd == Spec => UsesWorkerEnd
<1>1. Init => Worker!Init
  BY DEF Init, Worker!Init
<1>2. IInv /\ [Next]_vars => [Worker!Next]_<<wk, wsent>>
  BY WorkerStep
<1> QED BY <1>1, <1>2, ServerInvariant, PTL DEF Spec, UsesWorkerEnd, Worker!Spec
=============================================================================
