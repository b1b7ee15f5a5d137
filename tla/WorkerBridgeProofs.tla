------------------------ MODULE WorkerBridgeProofs ------------------------
(***************************************************************************)
(* Proofs about WorkerBridge, for any sets of connections and tasks and    *)
(* any bounds on the frames in flight.                                     *)
(***************************************************************************)
EXTENDS WorkerBridge, TLAPS

(* What SlotOwner needs beyond types: a connection has a handler from the  *)
(* moment it exists, a handler is inside a reply exactly while it is a     *)
(* sender, and a replacing handler names the connection it waits for.      *)
HandlerState ==
    \A c \in Conns :
        /\ ws[c] = "unborn" <=> handler[c] = "none"
        /\ sender[c] # "idle" <=> handler[c] \in {"granting", "refusing"}

IInv == TypeOK /\ HandlerState /\ SlotOwner /\ LockDiscipline /\ NothingBeforeInstall

USE DEF WsStates, HandlerStates, SenderStates, UpFrames, DownFrames, Installed

(* A handler may take the send lock too.                                   *)
LEMMA ConnsAreAgents == Conns \subseteq Agents
  BY DEF Agents

(* The start satisfies the invariant.                                      *)
LEMMA InitInv == Init => IInv
<1> SUFFICES ASSUME Init PROVE IInv
  OBVIOUS
<1>1. TypeOK
  <2>1. <<>> \in Seq(UpFrames) /\ <<>> \in Seq(DownFrames) /\ <<>> \in Seq(Agents)
    OBVIOUS
  <2>2. ws \in [Conns -> WsStates] /\ handler \in [Conns -> HandlerStates]
    BY DEF Init
  <2>3. up \in [Conns -> Seq(UpFrames)] /\ down \in [Conns -> Seq(DownFrames)]
    BY <2>1 DEF Init
  <2>4. sender \in [Agents -> SenderStates] /\ sendq \in Seq(Agents)
    BY <2>1 DEF Init
  <2>5. /\ closee \in [Conns -> Conns \cup {NoConn}]
        /\ target \in [Agents -> Conns \cup {NoConn}]
        /\ worker \in Conns \cup {NoConn} /\ authed \in BOOLEAN
    BY DEF Init
  <2> QED BY <2>2, <2>3, <2>4, <2>5 DEF TypeOK
<1>2. /\ sendq = <<>> /\ Len(sendq) = 0 /\ worker = NoConn
      /\ \A c \in Conns : down[c] = <<>> /\ ws[c] = "unborn" /\ handler[c] = "none"
      /\ \A a \in Agents : sender[a] = "idle"
  BY DEF Init
<1>3. HandlerState /\ SlotOwner /\ NothingBeforeInstall
  BY <1>2, ConnsAreAgents DEF HandlerState, SlotOwner, NothingBeforeInstall
<1>4. LockDiscipline
  <2>1. 1..Len(sendq) = {} /\ 2..Len(sendq) = {}
    BY <1>2
  <2> QED BY <1>2, <2>1 DEF LockDiscipline
<1> QED BY <1>1, <1>3, <1>4 DEF IInv

(* Leaving the lock queue from its head keeps the queue free of duplicates *)
(* and keeps everybody else in it.                                         *)
LEMMA TailKeepsOthers ==
    ASSUME NEW S, NEW q \in Seq(S), q # <<>>,
           \A i, j \in 1..Len(q) : i # j => q[i] # q[j]
    PROVE  /\ Tail(q) \in Seq(S)
           /\ \A i, j \in 1..Len(Tail(q)) : i # j => Tail(q)[i] # Tail(q)[j]
           /\ \A a \in S : (\E i \in 1..Len(Tail(q)) : Tail(q)[i] = a)
                              <=> a # Head(q) /\ \E i \in 1..Len(q) : q[i] = a
           /\ \A i \in 1..Len(Tail(q)) : Tail(q)[i] = q[i+1] /\ i+1 \in 2..Len(q)
<1>1. /\ Tail(q) \in Seq(S) /\ Len(Tail(q)) = Len(q) - 1 /\ Head(q) = q[1]
      /\ Len(q) \in Nat /\ Len(q) > 0
      /\ \A i \in 1..Len(Tail(q)) : Tail(q)[i] = q[i+1]
  OBVIOUS
<1>2. \A i, j \in 1..Len(Tail(q)) : i # j => Tail(q)[i] # Tail(q)[j]
  BY <1>1
<1>3. ASSUME NEW a \in S
      PROVE  (\E i \in 1..Len(Tail(q)) : Tail(q)[i] = a)
                <=> a # Head(q) /\ \E i \in 1..Len(q) : q[i] = a
  <2>1. ASSUME NEW i \in 1..Len(Tail(q)), Tail(q)[i] = a
        PROVE  a # Head(q) /\ \E j \in 1..Len(q) : q[j] = a
    <3>1. i+1 \in 1..Len(q) /\ q[i+1] = a /\ i+1 # 1 /\ 1 \in 1..Len(q)
      BY <1>1, <2>1
    <3> QED BY <3>1, <1>1
  <2>2. ASSUME a # Head(q), NEW i \in 1..Len(q), q[i] = a
        PROVE  \E j \in 1..Len(Tail(q)) : Tail(q)[j] = a
    <3>1. i # 1 BY <1>1, <2>2
    <3>2. i-1 \in 1..Len(Tail(q)) /\ Tail(q)[i-1] = q[i-1+1] /\ i-1+1 = i
      BY <1>1, <3>1
    <3> QED BY <3>2, <2>2
  <2> QED BY <2>1, <2>2
<1> QED BY <1>1, <1>2, <1>3

(* Joining the queue at its end: the newcomer was not in it.               *)
LEMMA AppendKeepsOthers ==
    ASSUME NEW S, NEW q \in Seq(S), NEW a \in S, NEW p, p = Append(q, a),
           \A i \in 1..Len(q) : q[i] # a,
           \A i, j \in 1..Len(q) : i # j => q[i] # q[j]
    PROVE  /\ p \in Seq(S)
           /\ \A i, j \in 1..Len(p) : i # j => p[i] # p[j]
           /\ \A b \in S : (\E i \in 1..Len(p) : p[i] = b)
                              <=> b = a \/ \E i \in 1..Len(q) : q[i] = b
           /\ Len(p) = Len(q) + 1 /\ p[Len(p)] = a
           /\ \A i \in 1..Len(q) : p[i] = q[i]
<1>1. /\ p \in Seq(S) /\ Len(p) = Len(q) + 1 /\ p[Len(p)] = a /\ Len(q) \in Nat
      /\ \A i \in 1..Len(q) : p[i] = q[i]
  OBVIOUS
<1>2. \A i \in 1..Len(p) : i \in 1..Len(q) \/ i = Len(p)
  BY <1>1
<1>3. \A i, j \in 1..Len(p) : i # j => p[i] # p[j]
  BY <1>1, <1>2
<1>4. \A i \in 1..Len(q) : i \in 1..Len(p)
  BY <1>1
<1>5. Len(p) \in 1..Len(p)
  BY <1>1
<1>6. \A b \in S : (\E i \in 1..Len(p) : p[i] = b)
                      <=> b = a \/ \E i \in 1..Len(q) : q[i] = b
  BY <1>1, <1>2, <1>4, <1>5
<1> QED BY <1>1, <1>3, <1>6

-----------------------------------------------------------------------------
(* A send that returns, now or after waiting: a leaves the queue it heads. *)
LEMMA ReturnsInv ==
    ASSUME IInv, NEW a \in Agents, NEW f, NEW q,
           SendReturns(a, f, q), UNCHANGED <<ws, closee, worker>>,
           a \in Conns => handler[a] \in Installed,
           up' \in [Conns -> Seq(UpFrames)], down' \in [Conns -> Seq(DownFrames)],
           \A c \in Conns : down'[c] # <<>> => handler[c] \in Installed \cup {"done"},
           \/ q = <<>> /\ sender[a] = "idle"
           \/ q = <<a>> /\ sendq = <<>> /\ sender[a] = "idle"
           \/ q = sendq /\ sendq # <<>> /\ Head(sendq) = a
    PROVE  IInv'
<1> USE DEF IInv
<1>1. /\ sender' = [sender EXCEPT ![a] = "idle"]
      /\ target' = [target EXCEPT ![a] = NoConn]
      /\ handler' = IF a \in Conns THEN [handler EXCEPT ![a] = "reading"] ELSE handler
      /\ authed' \in BOOLEAN
      /\ sendq' = IF q = <<>> THEN sendq ELSE Tail(q)
  BY DEF SendReturns, TypeOK
<1>4. ASSUME sendq' \in Seq(Agents) PROVE TypeOK'
  <2>1. /\ sender' \in [Agents -> SenderStates]
        /\ target' \in [Agents -> Conns \cup {NoConn}]
        /\ handler' \in [Conns -> HandlerStates]
    BY <1>1 DEF TypeOK
  <2> QED BY <1>1, <1>4, <2>1 DEF TypeOK
<1>5. HandlerState' /\ SlotOwner' /\ NothingBeforeInstall'
  <2>1. \A c \in Conns : handler'[c] = IF c = a THEN "reading" ELSE handler[c]
    BY <1>1 DEF TypeOK
  <2>2. \A c \in Conns : sender'[c] = IF c = a THEN "idle" ELSE sender[c]
    BY <1>1, ConnsAreAgents DEF TypeOK
  <2>3. HandlerState'
    BY <2>1, <2>2 DEF HandlerState
  <2>4. SlotOwner'
    BY <2>1 DEF SlotOwner, TypeOK
  <2>5. NothingBeforeInstall'
    BY <2>1 DEF NothingBeforeInstall
  <2> QED BY <2>3, <2>4, <2>5
<1>2. CASE q = sendq /\ sendq # <<>> /\ Head(sendq) = a
  <2>1. /\ sendq \in Seq(Agents)
        /\ \A i, j \in 1..Len(sendq) : i # j => sendq[i] # sendq[j]
    BY DEF TypeOK, LockDiscipline
  <2>2. sendq' = Tail(sendq)
    BY <1>1, <1>2
  <2> DEFINE p == Tail(sendq)
  <2>6. /\ p \in Seq(Agents)
        /\ \A i, j \in 1..Len(p) : i # j => p[i] # p[j]
        /\ \A b \in Agents : (\E i \in 1..Len(p) : p[i] = b)
                                 <=> b # Head(sendq) /\ \E i \in 1..Len(sendq) : sendq[i] = b
        /\ \A i \in 1..Len(p) : p[i] = sendq[i+1] /\ i+1 \in 2..Len(sendq)
    <3> HIDE DEF IInv
    <3> QED BY <1>2, <2>1, TailKeepsOthers, Zenon
  <2>3. /\ sendq' \in Seq(Agents)
        /\ \A i, j \in 1..Len(sendq') : i # j => sendq'[i] # sendq'[j]
        /\ \A b \in Agents : (\E i \in 1..Len(sendq') : sendq'[i] = b)
                                 <=> b # a /\ \E i \in 1..Len(sendq) : sendq[i] = b
        /\ \A i \in 1..Len(sendq') : sendq'[i] = sendq[i+1] /\ i+1 \in 2..Len(sendq)
    BY <1>2, <2>2, <2>6, Zenon
  <2>4. \A b \in Agents : sender'[b] # "idle" <=> \E i \in 1..Len(sendq') : sendq'[i] = b
    <3>1. \A b \in Agents : sender'[b] = IF b = a THEN "idle" ELSE sender[b]
      BY <1>1 DEF TypeOK
    <3>2. \A b \in Agents : sender[b] # "idle" <=> \E i \in 1..Len(sendq) : sendq[i] = b
      BY DEF LockDiscipline
    <3>3. ASSUME NEW b \in Agents
          PROVE  sender'[b] # "idle" <=> \E i \in 1..Len(sendq') : sendq'[i] = b
      <4> HIDE DEF IInv
      <4> QED BY <2>3, <3>1, <3>2
    <3> QED BY <3>3
  <2>5. \A i \in 2..Len(sendq') : sender'[sendq'[i]] = "waiting"
    <3>1. ASSUME NEW i \in 2..Len(sendq') PROVE sender'[sendq'[i]] = "waiting"
      <4>1. /\ i \in 1..Len(sendq') /\ sendq'[i] = sendq[i+1] /\ i+1 \in 2..Len(sendq)
            /\ i+1 \in 1..Len(sendq) /\ 1 \in 1..Len(sendq) /\ i+1 # 1
            /\ Head(sendq) = sendq[1]
        BY <2>1, <2>3, <2>2
      <4>2. sendq[i+1] # a /\ sendq[i+1] \in Agents
        BY <4>1, <1>2, <2>1
      <4>3. sender[sendq[i+1]] = "waiting"
        BY <4>1 DEF LockDiscipline
      <4> QED BY <4>1, <4>2, <4>3, <1>1 DEF TypeOK
    <3> QED BY <3>1
  <2>7. LockDiscipline'
    BY <2>3, <2>4, <2>5 DEF LockDiscipline
  <2> QED BY <2>3, <2>7, <1>4, <1>5
<1>3. CASE sender[a] = "idle" /\ (q = <<>> \/ (q = <<a>> /\ sendq = <<>>))
  <2>1. sendq' = sendq
    <3>1. <<a>> # <<>> /\ Tail(<<a>>) = <<>>
      OBVIOUS
    <3> HIDE DEF IInv
    <3> QED BY <1>1, <1>3, <3>1, Zenon
  <2>2. sender' = sender
    BY <1>1, <1>3 DEF TypeOK
  <2>3. LockDiscipline'
    BY <2>1, <2>2 DEF LockDiscipline
  <2>4. sendq' \in Seq(Agents)
    BY <2>1 DEF TypeOK
  <2> QED BY <2>3, <2>4, <1>4, <1>5
<1> HIDE DEF IInv
<1> QED BY <1>2, <1>3

(* A send that pauses: a joins the queue, or stays at its head.            *)
LEMMA PausesInv ==
    ASSUME IInv, NEW a \in Agents, NEW f, NEW q,
           NEW s \in SenderStates \ {"idle"}, NEW c \in Conns \cup {NoConn},
           SendPauses(a, f, q, s, c), UNCHANGED <<ws, closee, worker>>,
           a \in Conns => handler[a] \in Installed,
           up' \in [Conns -> Seq(UpFrames)], down' \in [Conns -> Seq(DownFrames)],
           \A b \in Conns : down'[b] # <<>> => handler[b] \in Installed \cup {"done"},
           \/ /\ q = Append(sendq, a) /\ sender[a] = "idle"
              /\ s = "waiting" \/ sendq = <<>>
           \/ q = sendq /\ sendq # <<>> /\ Head(sendq) = a /\ sender[a] # "idle"
    PROVE  IInv'
<1> USE DEF IInv
<1>1. /\ sender' = [sender EXCEPT ![a] = s]
      /\ target' = [target EXCEPT ![a] = c]
      /\ handler' = IF a \in Conns
                    THEN [handler EXCEPT ![a] = IF f = "auth_ok" THEN "granting" ELSE "refusing"]
                    ELSE handler
      /\ authed' = authed /\ sendq' = q
  BY DEF SendPauses
<1>2. HandlerState' /\ SlotOwner' /\ NothingBeforeInstall'
  <2>1. \A b \in Conns : IF b = a THEN handler'[b] \in {"granting", "refusing"}
                                  ELSE handler'[b] = handler[b]
    BY <1>1 DEF TypeOK
  <2>2. \A b \in Conns : sender'[b] = IF b = a THEN s ELSE sender[b]
    BY <1>1, ConnsAreAgents DEF TypeOK
  <2>3. HandlerState'
    BY <2>1, <2>2 DEF HandlerState
  <2>4. SlotOwner'
    BY <2>1 DEF SlotOwner, TypeOK
  <2>5. NothingBeforeInstall'
    BY <2>1 DEF NothingBeforeInstall
  <2> QED BY <2>3, <2>4, <2>5
<1>3. ASSUME sendq' \in Seq(Agents) PROVE TypeOK'
  <2>1. /\ sender' \in [Agents -> SenderStates]
        /\ target' \in [Agents -> Conns \cup {NoConn}]
        /\ handler' \in [Conns -> HandlerStates]
    BY <1>1 DEF TypeOK
  <2> QED BY <1>1, <1>3, <2>1 DEF TypeOK
<1>4. sendq \in Seq(Agents) /\ \A b \in Agents : sender'[b] = IF b = a THEN s ELSE sender[b]
  BY <1>1 DEF TypeOK
<1>5. CASE q = Append(sendq, a) /\ sender[a] = "idle" /\ (s = "waiting" \/ sendq = <<>>)
  <2>1. /\ \A i \in 1..Len(sendq) : sendq[i] # a
        /\ \A i, j \in 1..Len(sendq) : i # j => sendq[i] # sendq[j]
    BY <1>5 DEF LockDiscipline
  <2>2. /\ q \in Seq(Agents)
        /\ \A i, j \in 1..Len(q) : i # j => q[i] # q[j]
        /\ \A b \in Agents : (\E i \in 1..Len(q) : q[i] = b)
                                 <=> b = a \/ \E i \in 1..Len(sendq) : sendq[i] = b
        /\ Len(q) = Len(sendq) + 1 /\ q[Len(q)] = a
        /\ \A i \in 1..Len(sendq) : q[i] = sendq[i]
    <3>1. sendq \in Seq(Agents) /\ a \in Agents /\ q = Append(sendq, a)
      BY <1>4, <1>5
    <3> HIDE DEF IInv
    <3> QED BY <3>1, <2>1, AppendKeepsOthers, SMTT(30)
  <2>3. sendq' = q
    BY <1>1
  <2>4. \A b \in Agents : sender'[b] # "idle" <=> \E i \in 1..Len(q) : q[i] = b
    BY <1>4, <2>2 DEF LockDiscipline
  <2>5. ASSUME NEW i \in 2..Len(q) PROVE sender'[q[i]] = "waiting"
    <3>1. CASE i = Len(q)
      <4>1. s = "waiting"
        <5>1. sendq # <<>>
          <6> HIDE DEF IInv
          <6>1. Len(q) \in 2..Len(q) /\ Len(q) = Len(sendq) + 1 /\ Len(sendq) \in Nat
            BY <2>2, <3>1, <1>4
          <6>2. Len(sendq) # 0
            BY <6>1
          <6> QED BY <6>2
        <5> QED BY <5>1, <1>5
      <4> QED BY <2>2, <3>1, <4>1, <1>4
    <3>2. CASE i # Len(q)
      <4>1. i \in 2..Len(sendq) /\ i \in 1..Len(sendq)
        BY <2>2, <3>2, <1>4
      <4>2. q[i] = sendq[i] /\ sendq[i] # a /\ sendq[i] \in Agents
        BY <2>1, <2>2, <4>1, <1>4
      <4>3. sender[sendq[i]] = "waiting"
        BY <4>1 DEF LockDiscipline
      <4> QED BY <4>2, <4>3, <1>4
    <3> QED BY <3>1, <3>2
  <2>6. LockDiscipline'
    BY <2>2, <2>3, <2>4, <2>5 DEF LockDiscipline
  <2> QED BY <2>2, <2>3, <2>6, <1>2, <1>3
<1>6. CASE q = sendq /\ sendq # <<>> /\ Head(sendq) = a /\ sender[a] # "idle"
  <2>1. sendq' = sendq
    BY <1>1, <1>6
  <2>2. \A b \in Agents : sender'[b] # "idle" <=> sender[b] # "idle"
    BY <1>4, <1>6
  <2>3. ASSUME NEW i \in 2..Len(sendq) PROVE sender'[sendq[i]] = "waiting"
    <3>1. /\ i \in 1..Len(sendq) /\ 1 \in 1..Len(sendq) /\ i # 1 /\ sendq[1] = a
          /\ sendq[i] \in Agents
      BY <1>4, <1>6
    <3>2. sendq[i] # a /\ sender[sendq[i]] = "waiting"
      BY <3>1 DEF LockDiscipline
    <3> QED BY <3>1, <3>2, <1>4
  <2>4. LockDiscipline'
    BY <2>1, <2>2, <2>3 DEF LockDiscipline
  <2> QED BY <2>1, <2>4, <1>2, <1>3, <1>4
<1> HIDE DEF IInv
<1> QED BY <1>5, <1>6

(* Writing with the lock, taken just now or kept by the head of the queue. *)
LEMMA WriteInv ==
    ASSUME IInv, NEW a \in Agents, NEW f \in DownFrames, NEW q,
           Write(a, f, q), UNCHANGED <<ws, closee, worker>>,
           a \in Conns => handler[a] \in Installed,
           up' \in [Conns -> Seq(UpFrames)],
           \/ q = <<a>> /\ sendq = <<>> /\ sender[a] = "idle"
           \/ q = sendq /\ sendq # <<>> /\ Head(sendq) = a /\ sender[a] # "idle"
    PROVE  IInv'
<1>1. \/ /\ q = Append(sendq, a) /\ sender[a] = "idle"
         /\ sendq = <<>>
      \/ q = sendq /\ sendq # <<>> /\ Head(sendq) = a /\ sender[a] # "idle"
  <2>1. Append(<<>>, a) = <<a>>
    OBVIOUS
  <2> QED BY <2>1, Zenon
<1>2. /\ down \in [Conns -> Seq(DownFrames)]
      /\ \A c \in Conns : down[c] # <<>> => handler[c] \in Installed \cup {"done"}
  BY DEF IInv, TypeOK, NothingBeforeInstall
<1>3. CASE SendReturns(a, f, q) /\ UNCHANGED down
  BY <1>2, <1>3, ReturnsInv, SMTT(30)
<1>4. CASE /\ worker # NoConn /\ ws[worker] = "closing"
           /\ SendPauses(a, f, q, "failing", worker) /\ UNCHANGED down
  <2>1. worker \in Conns \cup {NoConn}
    BY DEF IInv, TypeOK
  <2> QED BY <1>1, <1>2, <1>4, <2>1, PausesInv, SMTT(30)
<1>5. CASE /\ WorkerConnected
           /\ down' = [down EXCEPT ![worker] = Append(@, f)]
           /\ SendReturns(a, f, q) \/ SendPauses(a, f, q, "draining", worker)
  <2>1. worker \in Conns /\ handler[worker] \in Installed
    BY <1>5 DEF WorkerConnected, IInv, TypeOK, SlotOwner
  <2>2. /\ down' \in [Conns -> Seq(DownFrames)]
        /\ \A c \in Conns : down'[c] # <<>> => handler[c] \in Installed \cup {"done"}
    BY <1>2, <1>5, <2>1
  <2>3. CASE SendReturns(a, f, q)
    BY <2>2, <2>3, ReturnsInv, SMTT(30)
  <2>4. CASE SendPauses(a, f, q, "draining", worker)
    BY <1>1, <2>1, <2>2, <2>4, PausesInv, SMTT(30)
  <2> QED BY <1>5, <2>3, <2>4
<1> QED BY <1>3, <1>4, <1>5, Zenon DEF Write

(* A call of _send_raw, up to its first await.                             *)
LEMMA SendRawInv ==
    ASSUME IInv, NEW a \in Agents, NEW f \in DownFrames,
           SendRaw(a, f), UNCHANGED <<ws, closee, worker>>,
           a \in Conns => handler[a] \in Installed,
           up' \in [Conns -> Seq(UpFrames)], sender[a] = "idle"
    PROVE  IInv'
<1>1. /\ down \in [Conns -> Seq(DownFrames)]
      /\ \A c \in Conns : down[c] # <<>> => handler[c] \in Installed \cup {"done"}
  BY DEF IInv, TypeOK, NothingBeforeInstall
<1>2. CASE SendReturns(a, f, <<>>) /\ UNCHANGED down
  BY <1>1, <1>2, ReturnsInv, SMTT(30)
<1>3. CASE /\ SendPauses(a, f, Append(sendq, a), "waiting", NoConn) /\ UNCHANGED down
  <2> DEFINE q == Append(sendq, a)
  <2>1. SendPauses(a, f, q, "waiting", NoConn) /\ q = Append(sendq, a)
    BY <1>3
  <2>2. \/ /\ q = Append(sendq, a) /\ sender[a] = "idle"
           /\ "waiting" = "waiting" \/ sendq = <<>>
        \/ q = sendq /\ sendq # <<>> /\ Head(sendq) = a /\ sender[a] # "idle"
    BY <2>1
  <2>3. /\ \A c \in Conns : down'[c] # <<>> => handler[c] \in Installed \cup {"done"}
        /\ down' \in [Conns -> Seq(DownFrames)]
        /\ "waiting" \in SenderStates \ {"idle"} /\ NoConn \in Conns \cup {NoConn}
    BY <1>1, <1>3
  <2> HIDE DEF q
  <2> QED BY <2>1, <2>2, <2>3, PausesInv, Zenon
<1>4. CASE sendq = <<>> /\ Write(a, f, <<a>>)
  <2> DEFINE q == <<a>>
  <2>1. Write(a, f, q) /\ q = <<a>>
    BY <1>4
  <2> HIDE DEF q
  <2> QED BY <1>4, <2>1, WriteInv, SMTT(30)
<1> QED BY <1>2, <1>3, <1>4, Zenon DEF SendRaw

(* The steps of a handler that do not send.                                *)
LEMMA InstallInv ==
    ASSUME IInv, NEW c \in Conns, handler[c] \in {"starting", "replacing"},
           Install(c), UNCHANGED <<linkVars, sendVars>>,
           closee' \in [Conns -> Conns \cup {NoConn}]
    PROVE  IInv'
<1>1. \A b \in Conns : handler'[b] = IF b = c THEN "reading" ELSE handler[b]
  BY DEF IInv, TypeOK, Install
<1>2. worker' = c /\ TypeOK'
  BY DEF IInv, TypeOK, Install, linkVars, sendVars
<1>3. HandlerState' /\ SlotOwner' /\ NothingBeforeInstall'
  BY <1>1, <1>2 DEF IInv, HandlerState, SlotOwner, NothingBeforeInstall, linkVars, sendVars
<1>4. LockDiscipline'
  BY DEF IInv, LockDiscipline, sendVars
<1> QED BY <1>2, <1>3, <1>4 DEF IInv

(* Every step of a handler.                                                *)
LEMMA HandlerInv ==
    ASSUME IInv, NEW c \in Conns, HandlerStep(c)
    PROVE  IInv'
<1>1. TypeOK /\ HandlerState /\ SlotOwner /\ LockDiscipline /\ NothingBeforeInstall
  BY DEF IInv
<1>2. up[c] \in Seq(UpFrames) /\ c \in Agents
  BY <1>1, ConnsAreAgents DEF TypeOK
<1>3. ASSUME up[c] # <<>>, Consume(c) PROVE up' \in [Conns -> Seq(UpFrames)]
  <2>1. Tail(up[c]) \in Seq(UpFrames)
    BY <1>2, <1>3
  <2> QED BY <1>1, <1>3, <2>1 DEF Consume, TypeOK
<1>4. CASE HandlerStart(c)
  <2>1. CASE WorkerConnected
    <3>1. /\ ws' = [ws EXCEPT ![worker] = "closing"] /\ ws[worker] = "open"
          /\ closee' = [closee EXCEPT ![c] = worker] /\ worker \in Conns
          /\ handler' = [handler EXCEPT ![c] = "replacing"] /\ handler[c] = "starting"
          /\ UNCHANGED <<up, down, worker, authed, sendq, sender, target>>
      BY <1>1, <1>4, <2>1 DEF HandlerStart, WorkerConnected, TypeOK, sendVars
    <3>2. TypeOK'
      BY <1>1, <3>1 DEF TypeOK
    <3>3. HandlerState' /\ SlotOwner' /\ NothingBeforeInstall'
      BY <1>1, <3>1 DEF TypeOK, HandlerState, SlotOwner, NothingBeforeInstall
    <3>4. LockDiscipline'
      BY <1>1, <3>1 DEF LockDiscipline
    <3> QED BY <3>2, <3>3, <3>4 DEF IInv
  <2>2. CASE ~WorkerConnected
    BY <1>1, <1>4, <2>2, InstallInv, SMTT(30) DEF HandlerStart, linkVars, TypeOK
  <2> QED BY <2>1, <2>2
<1>5. CASE HandlerReplaced(c)
  BY <1>1, <1>5, InstallInv, SMTT(30) DEF HandlerReplaced, TypeOK
<1>6. CASE HandleAuth(c)
  <2>1. handler[c] = "reading" /\ up[c] # <<>> /\ Consume(c)
    BY <1>6 DEF HandleAuth, Reading
  <2>2. sender[c] = "idle"
    BY <1>1, <2>1, <1>2 DEF HandlerState
  <2>3. PICK f \in DownFrames : SendRaw(c, f)
    BY <1>6 DEF HandleAuth
  <2> QED BY <1>2, <1>3, <1>6, <2>1, <2>2, <2>3, SendRawInv, SMTT(30) DEF HandleAuth
<1>7. CASE HandleAuthOk(c) \/ HandleOther(c)
  <2>1. up[c] # <<>> /\ Consume(c)
    BY <1>7 DEF HandleAuthOk, HandleOther, Reading
  <2>2. /\ UNCHANGED <<ws, down, handler, closee, worker, sendq, sender, target>>
        /\ authed' \in BOOLEAN
    BY <1>1, <1>7 DEF HandleAuthOk, HandleOther, sendVars, TypeOK
  <2>3. TypeOK'
    BY <1>1, <1>3, <2>1, <2>2 DEF TypeOK
  <2>4. HandlerState' /\ SlotOwner' /\ NothingBeforeInstall'
    BY <1>1, <2>2 DEF HandlerState, SlotOwner, NothingBeforeInstall
  <2>5. LockDiscipline'
    BY <1>1, <2>2 DEF LockDiscipline
  <2> QED BY <2>3, <2>4, <2>5 DEF IInv
<1>8. CASE HandlerExit(c)
  <2>1. up' \in [Conns -> Seq(UpFrames)]
    <3>1. <<>> \in Seq(UpFrames)
      OBVIOUS
    <3> QED BY <1>1, <1>3, <1>8, <3>1 DEF HandlerExit, Reading, TypeOK
  <2>2. /\ worker' = NoConn /\ authed' = FALSE /\ handler[c] = "reading"
        /\ handler' = [handler EXCEPT ![c] = "done"]
        /\ UNCHANGED <<ws, down, closee, sendq, sender, target>>
    BY <1>8 DEF HandlerExit, Finally, sendVars
  <2>3. TypeOK'
    BY <1>1, <2>1, <2>2 DEF TypeOK
  <2>4. HandlerState' /\ SlotOwner' /\ NothingBeforeInstall'
    BY <1>1, <2>2 DEF TypeOK, HandlerState, SlotOwner, NothingBeforeInstall
  <2>5. LockDiscipline'
    BY <1>1, <2>2 DEF LockDiscipline
  <2> QED BY <2>3, <2>4, <2>5 DEF IInv
<1> QED BY <1>4, <1>5, <1>6, <1>7, <1>8 DEF HandlerStep

(* The steps of a sender other than its first.                             *)
LEMMA SenderInv ==
    ASSUME IInv, NEW a \in Agents, LockWakeup(a) \/ SendDone(a)
    PROVE  IInv'
<1>1. TypeOK /\ HandlerState /\ SlotOwner /\ LockDiscipline /\ NothingBeforeInstall
  BY DEF IInv
<1>2. /\ up \in [Conns -> Seq(UpFrames)] /\ down \in [Conns -> Seq(DownFrames)]
      /\ sendq \in Seq(Agents)
      /\ \A c \in Conns : down[c] # <<>> => handler[c] \in Installed \cup {"done"}
  BY <1>1 DEF TypeOK, NothingBeforeInstall
<1>3. sender[a] # "idle"
  BY DEF LockWakeup, SendDone
<1>4. PICK i \in 1..Len(sendq) : sendq[i] = a
  BY <1>1, <1>3 DEF LockDiscipline
<1>5. sendq # <<>>
  BY <1>2, <1>4
<1>6. a \in Conns => handler[a] \in Installed
  BY <1>1, <1>3 DEF HandlerState
<1>7. Frame(a) \in DownFrames
  BY DEF Frame, Agents
<1>8. CASE LockWakeup(a)
  <2>1. /\ Head(sendq) = a /\ Write(a, Frame(a), sendq) /\ UNCHANGED <<ws, closee, worker>>
        /\ up' = up
    BY <1>8 DEF LockWakeup
  <2> QED BY <1>2, <1>3, <1>5, <1>6, <1>7, <2>1, WriteInv, SMTT(30)
<1>9. CASE SendDone(a)
  <2>1. /\ SendReturns(a, Frame(a), sendq) /\ UNCHANGED <<ws, closee, worker>>
        /\ up' = up /\ down' = down /\ sender[a] # "waiting"
    BY <1>9 DEF SendDone
  <2>2. i \notin 2..Len(sendq)
    BY <1>1, <1>4, <2>1 DEF LockDiscipline
  <2>3. Head(sendq) = a
    BY <1>2, <1>4, <1>5, <2>2
  <2> QED BY <1>2, <1>5, <1>6, <2>1, <2>3, ReturnsInv, SMTT(30)
<1> QED BY <1>8, <1>9

(* A listener that calls send_to_worker.                                   *)
LEMMA TaskInv ==
    ASSUME IInv, NEW t \in Tasks, SendToWorker(t)
    PROVE  IInv'
<1>1. t \in Agents /\ t \notin Conns /\ sender[t] = "idle" /\ SendRaw(t, "relay")
  BY BridgeAssumption DEF SendToWorker, Agents
<1>2. up' \in [Conns -> Seq(UpFrames)] /\ UNCHANGED <<ws, closee, worker>>
  BY DEF SendToWorker, IInv, TypeOK
<1> QED BY <1>1, <1>2, SendRawInv, SMTT(30)

(* The peers, the network and the library.                                 *)
LEMMA PeerInv ==
    ASSUME IInv, PeerNext
    PROVE  IInv'
<1>1. TypeOK /\ HandlerState /\ SlotOwner /\ LockDiscipline /\ NothingBeforeInstall
  BY DEF IInv
<1>2. PICK c \in Conns :
        \/ Accept(c) \/ PeerRead(c) \/ BeginClose(c) \/ Lost(c)
        \/ \E m \in UpKinds : PeerSend(c, m)
  BY DEF PeerNext
<1>3. /\ UNCHANGED <<closee, worker, authed, sendq, sender, target>>
      /\ up[c] \in Seq(UpFrames) /\ down[c] \in Seq(DownFrames)
  BY <1>1, <1>2 DEF TypeOK, Accept, PeerRead, BeginClose, Lost, PeerSend, sendVars
<1>4. LockDiscipline'
  BY <1>1, <1>3 DEF LockDiscipline
<1>5. CASE Accept(c) \/ BeginClose(c)
  <2>1. TypeOK'
    BY <1>1, <1>3, <1>5 DEF TypeOK, Accept, BeginClose
  <2>2. CASE Accept(c)
    <3>1. /\ ws[c] = "unborn" /\ ws' = [ws EXCEPT ![c] = "open"] /\ handler[c] = "none"
          /\ handler' = [handler EXCEPT ![c] = "starting"] /\ down' = down
      BY <1>1, <2>2 DEF Accept, HandlerState
    <3>2. HandlerState'
      BY <1>1, <1>3, <3>1 DEF TypeOK, HandlerState
    <3>3. SlotOwner' /\ NothingBeforeInstall'
      BY <1>1, <1>3, <3>1 DEF TypeOK, SlotOwner, NothingBeforeInstall
    <3> QED BY <1>4, <2>1, <3>2, <3>3 DEF IInv
  <2>3. CASE BeginClose(c)
    <3>1. HandlerState' /\ SlotOwner' /\ NothingBeforeInstall'
      BY <1>1, <1>3, <2>3 DEF TypeOK, BeginClose, HandlerState, SlotOwner,
         NothingBeforeInstall
    <3> QED BY <1>4, <2>1, <3>1 DEF IInv
  <2> QED BY <1>5, <2>2, <2>3
<1>6. CASE PeerRead(c) \/ Lost(c)
  <2>1. /\ Tail(down[c]) \in Seq(DownFrames) \/ down[c] = <<>>
        /\ <<>> \in Seq(DownFrames)
    BY <1>3
  <2>2. TypeOK'
    <3>1. /\ ws' \in [Conns -> WsStates] /\ down' \in [Conns -> Seq(DownFrames)]
          /\ up' \in [Conns -> Seq(UpFrames)] /\ handler' = handler
      <4>1. CASE PeerRead(c)
        BY <1>1, <1>3, <2>1, <4>1 DEF TypeOK, PeerRead
      <4>2. CASE Lost(c)
        BY <1>1, <1>3, <2>1, <4>2 DEF TypeOK, Lost
      <4> QED BY <1>6, <4>1, <4>2
    <3> QED BY <1>1, <1>3, <3>1 DEF TypeOK
  <2>3. /\ UNCHANGED <<handler, worker, closee, sender>>
        /\ \A d \in Conns : /\ ws'[d] = "unborn" <=> ws[d] = "unborn"
                            /\ down[d] = <<>> => down'[d] = <<>>
    BY <1>1, <1>3, <1>6 DEF TypeOK, PeerRead, Lost
  <2>4. HandlerState' /\ SlotOwner' /\ NothingBeforeInstall'
    BY <2>3 DEF IInv, HandlerState, SlotOwner, NothingBeforeInstall
  <2> QED BY <1>4, <2>2, <2>4 DEF IInv
<1>7. CASE \E m \in UpKinds : PeerSend(c, m)
  <2>1. PICK m \in UpFrames : PeerSend(c, m)
    BY <1>7, BridgeAssumption
  <2>2. Append(up[c], m) \in Seq(UpFrames)
    BY <1>3
  <2>3. TypeOK'
    BY <1>1, <1>3, <2>1, <2>2 DEF TypeOK, PeerSend
  <2>4. HandlerState' /\ SlotOwner' /\ NothingBeforeInstall'
    BY <1>1, <1>3, <2>1 DEF PeerSend, HandlerState, SlotOwner, NothingBeforeInstall
  <2> QED BY <1>4, <2>3, <2>4 DEF IInv
<1> QED BY <1>2, <1>5, <1>6, <1>7

-----------------------------------------------------------------------------
(* Every step keeps the invariant.                                         *)
LEMMA NextKeepsInv == ASSUME IInv, [Next]_vars PROVE IInv'
<1>1. CASE UNCHANGED vars
  <2>1. TypeOK'
    BY <1>1 DEF vars, IInv, TypeOK
  <2>2. HandlerState' /\ SlotOwner' /\ NothingBeforeInstall'
    BY <1>1 DEF vars, IInv, HandlerState, SlotOwner, NothingBeforeInstall
  <2>3. LockDiscipline'
    BY <1>1 DEF vars, IInv, LockDiscipline
  <2> QED BY <2>1, <2>2, <2>3 DEF IInv
<1>2. CASE BridgeNext
  BY <1>2, HandlerInv, SenderInv, TaskInv DEF BridgeNext
<1>3. CASE PeerNext
  BY <1>3, PeerInv
<1> QED BY <1>1, <1>2, <1>3 DEF Next

-----------------------------------------------------------------------------
(* WaitsEnd, from the invariant.                                           *)

(* A step of a sender changes no wait but its own.                         *)
LEMMA SenderWaits ==
    ASSUME WaitsEnd, NEW a \in Agents,
           UNCHANGED <<ws, closee>>,
           a \in Conns => handler[a] \in Installed /\ handler'[a] \in Installed,
           \A c \in Conns : c # a => handler'[c] = handler[c],
           \A b \in Agents : b # a => sender'[b] = sender[b] /\ target'[b] = target[b],
           sender'[a] = "failing"
                => target'[a] \in Conns /\ ws[target'[a]] \in {"closing", "closed"}
    PROVE  WaitsEnd'
  BY DEF WaitsEnd

LEMMA ReturnsWaits ==
    ASSUME IInv, WaitsEnd, NEW a \in Agents, NEW f, NEW q,
           SendReturns(a, f, q), UNCHANGED <<ws, closee>>,
           a \in Conns => handler[a] \in Installed
    PROVE  WaitsEnd'
<1>1. /\ handler \in [Conns -> HandlerStates] /\ sender \in [Agents -> SenderStates]
      /\ target \in [Agents -> Conns \cup {NoConn}]
  BY DEF IInv, TypeOK
<1>2. /\ a \in Conns => handler'[a] \in Installed
      /\ \A c \in Conns : c # a => handler'[c] = handler[c]
      /\ \A b \in Agents : b # a => sender'[b] = sender[b] /\ target'[b] = target[b]
      /\ sender'[a] # "failing"
  BY <1>1 DEF SendReturns
<1> QED BY <1>2, SenderWaits

LEMMA PausesWaits ==
    ASSUME IInv, WaitsEnd, NEW a \in Agents, NEW f, NEW q, NEW s, NEW c,
           SendPauses(a, f, q, s, c), UNCHANGED <<ws, closee>>,
           a \in Conns => handler[a] \in Installed,
           s = "failing" => c \in Conns /\ ws[c] = "closing"
    PROVE  WaitsEnd'
<1>1. /\ handler \in [Conns -> HandlerStates] /\ sender \in [Agents -> SenderStates]
      /\ target \in [Agents -> Conns \cup {NoConn}]
  BY DEF IInv, TypeOK
<1>2. /\ a \in Conns => handler'[a] \in Installed
      /\ \A d \in Conns : d # a => handler'[d] = handler[d]
      /\ \A b \in Agents : b # a => sender'[b] = sender[b] /\ target'[b] = target[b]
      /\ sender'[a] = s /\ target'[a] = c
  BY <1>1 DEF SendPauses
<1> QED BY <1>2, SenderWaits

(* Writing, and a call of _send_raw.                                       *)
LEMMA WriteWaits ==
    ASSUME IInv, WaitsEnd, NEW a \in Agents, NEW f, NEW q,
           Write(a, f, q), UNCHANGED <<ws, closee>>,
           a \in Conns => handler[a] \in Installed
    PROVE  WaitsEnd'
<1>1. CASE SendReturns(a, f, q)
  BY <1>1, ReturnsWaits, SMTT(30)
<1>2. CASE worker # NoConn /\ ws[worker] = "closing" /\ SendPauses(a, f, q, "failing", worker)
  <2>1. worker \in Conns
    BY <1>2 DEF IInv, TypeOK
  <2> QED BY <1>2, <2>1, PausesWaits, SMTT(30)
<1>3. CASE SendPauses(a, f, q, "draining", worker)
  BY <1>3, PausesWaits, SMTT(30)
<1> QED BY <1>1, <1>2, <1>3 DEF Write

LEMMA SendRawWaits ==
    ASSUME IInv, WaitsEnd, NEW a \in Agents, NEW f,
           SendRaw(a, f), UNCHANGED <<ws, closee>>,
           a \in Conns => handler[a] \in Installed
    PROVE  WaitsEnd'
<1>1. CASE SendReturns(a, f, <<>>)
  <2> DEFINE q == <<>>
  <2>1. SendReturns(a, f, q)
    BY <1>1
  <2> HIDE DEF q
  <2> QED BY <2>1, ReturnsWaits, SMTT(30)
<1>2. CASE SendPauses(a, f, Append(sendq, a), "waiting", NoConn)
  <2> DEFINE q == Append(sendq, a)
  <2>1. SendPauses(a, f, q, "waiting", NoConn)
    BY <1>2
  <2> HIDE DEF q
  <2> QED BY <2>1, PausesWaits, SMTT(30)
<1>3. CASE Write(a, f, <<a>>)
  <2> DEFINE q == <<a>>
  <2>1. Write(a, f, q)
    BY <1>3
  <2> HIDE DEF q
  <2> QED BY <2>1, WriteWaits, SMTT(30)
<1> QED BY <1>1, <1>2, <1>3, Zenon DEF SendRaw

(* Every step: a handler that begins to wait for its predecessor has asked *)
(* it to close, and finds there a handler that has taken the slot.         *)
LEMMA NextKeepsWaits == ASSUME IInv, WaitsEnd, [Next]_vars PROVE WaitsEnd'
<1>1. /\ ws \in [Conns -> WsStates] /\ handler \in [Conns -> HandlerStates]
      /\ closee \in [Conns -> Conns \cup {NoConn}] /\ HandlerState /\ SlotOwner
      /\ worker \in Conns \cup {NoConn}
  BY DEF IInv, TypeOK
<1>2. CASE UNCHANGED vars
  BY <1>2 DEF vars, WaitsEnd
<1>3. ASSUME NEW c \in Conns, HandlerStep(c) PROVE WaitsEnd'
  <2>1. c \in Agents
    BY ConnsAreAgents
  <2>2. CASE HandlerStart(c) /\ WorkerConnected
    <3>1. /\ ws[worker] = "open" /\ worker \in Conns /\ handler[c] = "starting"
          /\ ws' = [ws EXCEPT ![worker] = "closing"]
          /\ closee' = [closee EXCEPT ![c] = worker]
          /\ handler' = [handler EXCEPT ![c] = "replacing"] /\ UNCHANGED sendVars
      BY <1>1, <2>2 DEF HandlerStart, WorkerConnected
    <3>2. handler[worker] \in Installed
      BY <1>1, <3>1, BridgeAssumption DEF SlotOwner
    <3> QED BY <1>1, <3>1, <3>2 DEF WaitsEnd, sendVars
  <2>3. CASE (HandlerStart(c) /\ ~WorkerConnected) \/ HandlerReplaced(c)
    <3>1. /\ ws' = ws /\ handler' = [handler EXCEPT ![c] = "reading"]
          /\ handler[c] \in {"starting", "replacing"}
          /\ UNCHANGED sendVars /\ \A d \in Conns : d # c => closee'[d] = closee[d]
      BY <1>1, <2>3 DEF HandlerStart, HandlerReplaced, Install, linkVars
    <3> QED BY <1>1, <3>1 DEF WaitsEnd, sendVars
  <2>4. CASE HandleAuth(c)
    <3>1. handler[c] = "reading" /\ UNCHANGED <<ws, closee>> /\ \E f : SendRaw(c, f)
      BY <2>4 DEF HandleAuth, Reading
    <3> QED BY <2>1, <3>1, SendRawWaits, SMTT(30)
  <2>5. CASE HandleAuthOk(c) \/ HandleOther(c)
    BY <2>5 DEF HandleAuthOk, HandleOther, sendVars, WaitsEnd
  <2>6. CASE HandlerExit(c)
    <3>1. /\ handler' = [handler EXCEPT ![c] = "done"]
          /\ UNCHANGED <<ws, closee>> /\ UNCHANGED sendVars
      BY <2>6 DEF HandlerExit, Finally
    <3> QED BY <1>1, <3>1 DEF WaitsEnd, sendVars
  <2> QED BY <1>3, <2>2, <2>3, <2>4, <2>5, <2>6 DEF HandlerStep
<1>4. ASSUME NEW a \in Agents, LockWakeup(a) \/ SendDone(a) PROVE WaitsEnd'
  <2>1. sender[a] # "idle" /\ UNCHANGED <<ws, closee>>
    BY <1>4 DEF LockWakeup, SendDone
  <2>2. a \in Conns => handler[a] \in Installed
    BY <1>1, <2>1 DEF HandlerState
  <2>3. SendReturns(a, Frame(a), sendq) \/ Write(a, Frame(a), sendq)
    BY <1>4 DEF LockWakeup, SendDone
  <2> QED BY <2>1, <2>2, <2>3, ReturnsWaits, WriteWaits, SMTT(30)
<1>5. ASSUME NEW t \in Tasks, SendToWorker(t) PROVE WaitsEnd'
  <2>1. t \in Agents /\ t \notin Conns /\ SendRaw(t, "relay") /\ UNCHANGED <<ws, closee>>
    BY <1>5, BridgeAssumption DEF SendToWorker, Agents
  <2> QED BY <2>1, SendRawWaits, SMTT(30)
<1>6. CASE PeerNext
  <2>1. PICK c \in Conns :
          \/ Accept(c) \/ PeerRead(c) \/ BeginClose(c) \/ Lost(c)
          \/ \E m \in UpKinds : PeerSend(c, m)
    BY <1>6 DEF PeerNext
  <2>2. /\ UNCHANGED <<closee, sendq, sender, target>>
        /\ \A d \in Conns : ws[d] \in {"closing", "closed"} => ws'[d] \in {"closing", "closed"}
        /\ \A d \in Conns : handler[d] # "none" => handler'[d] = handler[d]
        /\ \A d \in Conns : handler'[d] = "replacing" => handler[d] = "replacing"
    BY <1>1, <2>1 DEF Accept, PeerRead, BeginClose, Lost, PeerSend, sendVars, HandlerState
  <2> QED BY <2>2 DEF WaitsEnd
<1> QED BY <1>2, <1>3, <1>4, <1>5, <1>6 DEF Next, BridgeNext

(* The inductive invariant holds in every behaviour, fair or not.          *)
THEOREM BridgeInvariant == Spec => []IInv
  BY InitInv, NextKeepsInv, PTL DEF Spec

(* Every value stays in its type.                                          *)
THEOREM BridgeTypes == Spec => []TypeOK
<1>1. IInv => TypeOK
  BY DEF IInv
<1> QED BY BridgeInvariant, <1>1, PTL

(* The slot never names a connection without a live handler, however many  *)
(* connections replace each other.                                         *)
THEOREM SlotAlwaysOwned == Spec => []SlotOwner
<1>1. IInv => SlotOwner
  BY DEF IInv
<1> QED BY BridgeInvariant, <1>1, PTL

(* The send lock is handed from sender to sender and never leaks.          *)
THEOREM LockNeverLeaks == Spec => []LockDiscipline
<1>1. IInv => LockDiscipline
  BY DEF IInv
<1> QED BY BridgeInvariant, <1>1, PTL

(* No frame is written to a connection that has not taken the slot.        *)
THEOREM SilentBeforeInstall == Spec => []NothingBeforeInstall
<1>1. IInv => NothingBeforeInstall
  BY DEF IInv
<1> QED BY BridgeInvariant, <1>1, PTL

(* Nobody waits for a connection that is not going away, or in a circle:   *)
(* the safety part of every replacement and every send coming to an end.   *)
THEOREM NobodyWaitsInVain == Spec => []WaitsEnd
<1>1. Init => WaitsEnd
  BY ConnsAreAgents DEF Init, WaitsEnd
<1>2. IInv /\ WaitsEnd /\ [Next]_vars => WaitsEnd'
  BY NextKeepsWaits
<1> QED BY BridgeInvariant, <1>1, <1>2, PTL DEF Spec
=============================================================================
