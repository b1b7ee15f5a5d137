-------------------------- MODULE WorkerLinkProofs --------------------------
(***************************************************************************)
(* Proofs about WorkerLink, for any sets of connections and tasks and any  *)
(* number of resets and silent cuts.  The invariant of the bridge carries  *)
(* over to the composition; on top of it comes what the two ends know of   *)
(* each other.                                                             *)
(***************************************************************************)
EXTENDS WorkerLink, WorkerBridgeProofs

USE DEF HandlerStates, DownFrames, Installed, Attached

(* Types of the client's loop and of the network.                          *)
LinkTypes ==
    /\ cpc \in {"dialing", "awaiting", "listening", "handling", "sleeping"}
    /\ cur \in Conns \cup {NoConn}
    /\ cli \in [Conns -> {"none", "open", "closed"}]
    /\ net \in [Conns -> {"up", "cut"}]
    /\ drops \in 0..MaxDrops /\ cuts \in 0..MaxCuts

(* The client's end is open on the connection of this round only; every    *)
(* connection the server knows was dialed.                                 *)
Ends ==
    /\ \A c \in Conns : cli[c] = "open" => c = cur /\ (cpc = "awaiting" \/ Attached)
    /\ cpc = "awaiting" \/ Attached => cur \in Conns /\ cli[cur] = "open"
    /\ \A c \in Conns : cli[c] = "none" <=> ws[c] = "unborn"
    /\ \A c \in Conns : cli[c] = "none" => net[c] = "up"

(* The client sends AUTH and nothing else.                                 *)
OnlyAuth == \A c \in Conns : up[c] \in {<<>>, <<"auth">>}

(* A handler that has not taken the slot yet is the newest one, so once    *)
(* the newest has taken it nobody else will.                               *)
Newest ==
    /\ \A c \in Conns : handler[c] \in {"starting", "replacing"} => c = cur /\ cpc # "dialing"
    /\ cur \in Conns /\ handler[cur] \in Installed \cup {"done"} => worker \in {cur, NoConn}

(* AUTH_OK is read from a connection that has taken the slot; a handler    *)
(* returns only when its connection is closed.                             *)
Reached ==
    /\ Attached => handler[cur] \in Installed \cup {"done"}
    /\ \A c \in Conns : handler[c] = "done" => ws[c] = "closed"

(* Whether an AUTH_OK is among the frames s.                               *)
Grants(s) == \E i \in 1..Len(s) : s[i] = "auth_ok"

Granted(c) == authed \/ handler[c] = "granting"

(* Until a connection is cut silently, the handlers of earlier connections *)
(* have returned before the client dials: the newest handler has the slot, *)
(* and an AUTH_OK sent or read means the flag is set or about to be.       *)
Quiet ==
    cuts = 0 =>
        /\ \A c \in Conns : net[c] = "up"
        /\ \A c \in Conns : c # cur \/ cpc = "dialing" => handler[c] \in {"none", "done"}
        /\ cur \in Conns /\ handler[cur] \in Installed =>
              /\ worker = cur
              /\ Attached => Granted(cur)
              /\ Grants(down[cur]) => Granted(cur)

LinkParts == LinkTypes /\ Ends /\ OnlyAuth /\ Newest /\ Reached /\ Quiet
LinkInv == IInv /\ LinkParts

(* The invariant says what the properties of the runs say.                 *)
LEMMA LinkInvImplies ==
    ASSUME LinkInv
    PROVE  LinkTypeOK /\ Agreement /\ SlotNotStale
<1>1. LinkTypeOK
  BY DEF LinkInv, LinkParts, LinkTypes, LinkTypeOK, IInv
<1>2. Attached => cur \in Conns /\ handler[cur] \in Installed \cup {"done"}
  BY DEF LinkInv, LinkParts, Ends, Reached
<1>3. SlotNotStale
  BY <1>2 DEF LinkInv, LinkParts, Newest, SlotNotStale
<1>4. Agreement
  <2> SUFFICES ASSUME cuts = 0, Attached, ws[cur] = "open"
               PROVE  worker = cur /\ (authed \/ handler[cur] = "granting")
    BY DEF Agreement
  <2>1. cur \in Conns /\ handler[cur] \in Installed
    BY <1>2 DEF LinkInv, LinkParts, Reached
  <2> QED BY <2>1 DEF LinkInv, LinkParts, Quiet, Granted
<1> QED BY <1>1, <1>3, <1>4

(* The start satisfies the invariant.                                      *)
LEMMA LinkInitInv == LinkInit => LinkInv
<1> SUFFICES ASSUME LinkInit PROVE LinkInv
  OBVIOUS
<1>1. IInv
  BY InitInv DEF LinkInit
<1>2. /\ \A c \in Conns : /\ cli[c] = "none" /\ net[c] = "up" /\ ws[c] = "unborn"
                          /\ handler[c] = "none" /\ up[c] = <<>>
      /\ cpc = "dialing" /\ cur = NoConn /\ NoConn \notin Conns
  BY BridgeAssumption DEF LinkInit, Init
<1>3. LinkTypes
  <2>1. 0 \in 0..MaxDrops /\ 0 \in 0..MaxCuts
    BY LinkAssumption
  <2> QED BY <2>1 DEF LinkInit, LinkTypes
<1>4. Ends /\ OnlyAuth /\ Newest /\ Reached
  BY <1>2 DEF Ends, OnlyAuth, Newest, Reached
<1>5. Quiet
  BY <1>2 DEF Quiet
<1> QED BY <1>1, <1>3, <1>4, <1>5 DEF LinkInv, LinkParts

-----------------------------------------------------------------------------
(* What the server's steps do to the slot, the flag and the frames, as the *)
(* other end sees it.                                                      *)

(* A step of _send_raw by a, which writes at most one frame, to the slot.  *)
Sends(a) ==
    /\ UNCHANGED <<ws, worker>>
    /\ a \in Conns => handler[a] \in Installed /\ handler'[a] \in Installed
    /\ \A c \in Conns : c # a => handler'[c] = handler[c]
    /\ authed => authed'
    /\ a \in Conns /\ handler[a] = "granting" => authed' \/ handler'[a] = "granting"
    /\ \/ down' = down
       \/ \E f \in DownFrames :
            /\ worker \in Conns
            /\ down' = [down EXCEPT ![worker] = Append(@, f)]
            /\ f = "auth_ok" => a \in Conns /\ (authed' \/ handler'[a] = "granting")

(* What a sender writes: nothing, or its frame to the slot.                *)
Writes(f) ==
    \/ down' = down
    \/ worker \in Conns /\ down' = [down EXCEPT ![worker] = Append(@, f)]

(* Who sends f: AUTH_OK comes from the handler that is granting.           *)
Speaks(a, f) ==
    /\ a \in Conns => handler[a] \in Installed
    /\ a \in Conns /\ handler[a] = "granting" => f = "auth_ok"
    /\ f = "auth_ok" => a \in Conns

(* A send that returns.                                                    *)
LEMMA ReturnsEffect ==
    ASSUME IInv, NEW a \in Agents, NEW f \in DownFrames, NEW q,
           SendReturns(a, f, q), UNCHANGED <<ws, worker>>, Speaks(a, f), Writes(f)
    PROVE  Sends(a)
<1>1. handler \in [Conns -> HandlerStates] /\ authed \in BOOLEAN
  BY DEF IInv, TypeOK
<1>2. /\ a \in Conns => handler'[a] = "reading"
      /\ \A c \in Conns : c # a => handler'[c] = handler[c]
  BY <1>1 DEF SendReturns
<1>3. (authed => authed') /\ (f = "auth_ok" => authed')
  BY DEF SendReturns
<1> QED BY <1>2, <1>3 DEF Sends, Speaks, Writes

(* A send that pauses.                                                     *)
LEMMA PausesEffect ==
    ASSUME IInv, NEW a \in Agents, NEW f \in DownFrames, NEW q, NEW s, NEW t,
           SendPauses(a, f, q, s, t), UNCHANGED <<ws, worker>>, Speaks(a, f), Writes(f)
    PROVE  Sends(a)
<1>1. handler \in [Conns -> HandlerStates]
  BY DEF IInv, TypeOK
<1>2. /\ a \in Conns => handler'[a] = IF f = "auth_ok" THEN "granting" ELSE "refusing"
      /\ \A c \in Conns : c # a => handler'[c] = handler[c]
  BY <1>1 DEF SendPauses
<1>3. authed' = authed
  BY DEF SendPauses
<1> QED BY <1>2, <1>3 DEF Sends, Speaks, Writes

(* Writing with the lock.                                                  *)
LEMMA WriteEffect ==
    ASSUME IInv, NEW a \in Agents, NEW f \in DownFrames, NEW q,
           Write(a, f, q), UNCHANGED <<ws, worker>>, Speaks(a, f)
    PROVE  Sends(a)
<1>1. Writes(f)
  BY DEF Write, Writes, WorkerConnected, IInv, TypeOK
<1>2. CASE SendReturns(a, f, q)
  BY <1>1, <1>2, ReturnsEffect, SMTT(30)
<1>3. CASE SendPauses(a, f, q, "failing", worker)
  BY <1>1, <1>3, PausesEffect, SMTT(30)
<1>4. CASE SendPauses(a, f, q, "draining", worker)
  BY <1>1, <1>4, PausesEffect, SMTT(30)
<1> QED BY <1>2, <1>3, <1>4 DEF Write

(* A call of _send_raw, up to its first await.                             *)
LEMMA SendRawEffect ==
    ASSUME IInv, NEW a \in Agents, NEW f \in DownFrames,
           SendRaw(a, f), UNCHANGED <<ws, worker>>, Speaks(a, f)
    PROVE  Sends(a)
<1>1. CASE SendReturns(a, f, <<>>) /\ UNCHANGED down
  <2> DEFINE q == <<>>
  <2>1. SendReturns(a, f, q) /\ Writes(f)
    BY <1>1 DEF Writes
  <2> HIDE DEF q
  <2> QED BY <2>1, ReturnsEffect, SMTT(30)
<1>2. CASE SendPauses(a, f, Append(sendq, a), "waiting", NoConn) /\ UNCHANGED down
  <2> DEFINE q == Append(sendq, a)
  <2>1. SendPauses(a, f, q, "waiting", NoConn) /\ Writes(f)
    BY <1>2 DEF Writes
  <2> HIDE DEF q
  <2> QED BY <2>1, PausesEffect, SMTT(30)
<1>3. CASE Write(a, f, <<a>>)
  <2> DEFINE q == <<a>>
  <2>1. Write(a, f, q)
    BY <1>3
  <2> HIDE DEF q
  <2> QED BY <2>1, WriteEffect, SMTT(30)
<1> QED BY <1>1, <1>2, <1>3, Zenon DEF SendRaw

(* A waiting sender's steps.                                               *)
LEMMA SenderEffect ==
    ASSUME IInv, NEW a \in Agents, LockWakeup(a) \/ SendDone(a)
    PROVE  Sends(a) /\ up' = up
<1>1. sender[a] # "idle" /\ UNCHANGED <<ws, up, worker>>
  BY DEF LockWakeup, SendDone
<1>2. a \in Conns => handler[a] \in {"granting", "refusing"}
  BY <1>1 DEF IInv, HandlerState
<1>3. Frame(a) \in DownFrames /\ Speaks(a, Frame(a))
  BY <1>2, BridgeAssumption DEF Frame, Agents, Speaks
<1>4. CASE LockWakeup(a)
  <2>1. Write(a, Frame(a), sendq)
    BY <1>4 DEF LockWakeup
  <2> QED BY <1>1, <1>3, <2>1, WriteEffect, SMTT(30)
<1>5. CASE SendDone(a)
  <2>1. SendReturns(a, Frame(a), sendq) /\ Writes(Frame(a))
    BY <1>5 DEF SendDone, Writes
  <2> QED BY <1>1, <1>3, <2>1, ReturnsEffect, SMTT(30)
<1> QED BY <1>4, <1>5

(* A listener that calls send_to_worker.                                   *)
LEMMA TaskEffect ==
    ASSUME IInv, NEW t \in Tasks, SendToWorker(t)
    PROVE  Sends(t) /\ up' = up
<1>1. t \in Agents /\ t \notin Conns /\ SendRaw(t, "relay") /\ UNCHANGED <<ws, up, worker>>
  BY BridgeAssumption DEF SendToWorker, Agents
<1>2. "relay" \in DownFrames /\ Speaks(t, "relay")
  BY <1>1 DEF Speaks
<1> QED BY <1>1, <1>2, SendRawEffect, SMTT(30)

(* An AUTH_OK among the frames after one was written or read.              *)
LEMMA GrantsOf ==
    ASSUME NEW s \in Seq(DownFrames)
    PROVE  /\ ~Grants(<<>>)
           /\ s # <<>> /\ Grants(Tail(s)) => Grants(s)
           /\ s # <<>> /\ Head(s) = "auth_ok" => Grants(s)
           /\ \A f \in DownFrames : Grants(Append(s, f)) => Grants(s) \/ f = "auth_ok"
<1>1. ~Grants(<<>>)
  BY DEF Grants
<1>2. ASSUME s # <<>>, Grants(Tail(s)) PROVE Grants(s)
  <2>1. PICK i \in 1..Len(Tail(s)) : Tail(s)[i] = "auth_ok"
    BY <1>2 DEF Grants
  <2>2. i+1 \in 1..Len(s) /\ Tail(s)[i] = s[i+1]
    BY <1>2
  <2> QED BY <2>1, <2>2 DEF Grants
<1>3. ASSUME s # <<>>, Head(s) = "auth_ok" PROVE Grants(s)
  <2>1. 1 \in 1..Len(s) /\ s[1] = "auth_ok"
    BY <1>3
  <2> QED BY <2>1 DEF Grants
<1>4. ASSUME NEW f \in DownFrames, Grants(Append(s, f)) PROVE Grants(s) \/ f = "auth_ok"
  <2>1. PICK i \in 1..Len(Append(s, f)) : Append(s, f)[i] = "auth_ok"
    BY <1>4 DEF Grants
  <2>2. (i \in 1..Len(s) /\ s[i] = "auth_ok") \/ f = "auth_ok"
    BY <2>1
  <2> QED BY <2>2 DEF Grants
<1> QED BY <1>1, <1>2, <1>3, <1>4

(* The other steps of the handlers.                                        *)
Skips == UNCHANGED <<ws, down, handler, worker>> /\ (authed => authed')

Asks(c) ==
    /\ handler[c] = "starting" /\ handler' = [handler EXCEPT ![c] = "replacing"]
    /\ worker \in Conns /\ ws[worker] = "open" /\ ws' = [ws EXCEPT ![worker] = "closing"]
    /\ UNCHANGED <<down, worker, authed>>

Installs(c) ==
    /\ handler[c] \in {"starting", "replacing"}
    /\ Install(c)
    /\ UNCHANGED <<ws, down>>

Exits(c) ==
    /\ handler[c] = "reading" /\ ws[c] = "closed"
    /\ Finally(c)
    /\ UNCHANGED <<ws, down>>

ServerMoves ==
    \/ Skips
    \/ \E a \in Agents : Sends(a)
    \/ \E c \in Conns : Asks(c) \/ Installs(c) \/ Exits(c)

(* The client's only frame is AUTH: no handler returns for a frame that    *)
(* does not parse, and nobody sends the server AUTH_OK.                    *)
LEMMA HandlerEffect ==
    ASSUME IInv, OnlyAuth, NEW c \in Conns, HandlerStep(c)
    PROVE  OnlyAuth' /\ ServerMoves
<1>1. up[c] \in {<<>>, <<"auth">>} /\ c \in Agents /\ up \in [Conns -> Seq(UpFrames)]
  BY ConnsAreAgents DEF OnlyAuth, IInv, TypeOK
<1>2. /\ <<"auth">> # <<>> /\ Head(<<"auth">>) = "auth" /\ Tail(<<"auth">>) = <<>>
      /\ up[c] # <<>> => Head(up[c]) = "auth" /\ Tail(up[c]) = <<>>
  BY <1>1
<1>3. ASSUME up' = [up EXCEPT ![c] = <<>>] PROVE OnlyAuth'
  BY <1>1, <1>3 DEF OnlyAuth
<1>4. CASE HandlerStart(c)
  <2>1. up' = up
    BY <1>4 DEF HandlerStart
  <2>2. Asks(c) \/ Installs(c)
    BY <1>4 DEF HandlerStart, Asks, Installs, IInv, TypeOK, WorkerConnected
  <2> QED BY <2>1, <2>2 DEF OnlyAuth, ServerMoves
<1>5. CASE HandlerReplaced(c)
  <2>1. up' = up /\ Installs(c)
    BY <1>5 DEF HandlerReplaced, Installs, linkVars
  <2> QED BY <2>1 DEF OnlyAuth, ServerMoves
<1>6. CASE HandleAuth(c)
  <2>1. /\ handler[c] = "reading" /\ up[c] # <<>> /\ up' = [up EXCEPT ![c] = Tail(@)]
        /\ UNCHANGED <<ws, worker>>
    BY <1>6 DEF HandleAuth, Reading, Consume
  <2>2. SendRaw(c, "auth_ok")
    BY <1>2, <1>6, <2>1 DEF HandleAuth
  <2>3. Speaks(c, "auth_ok") /\ "auth_ok" \in DownFrames
    BY <2>1 DEF Speaks
  <2>4. Sends(c)
    BY <1>1, <2>1, <2>2, <2>3, SendRawEffect, SMTT(30)
  <2> QED BY <1>1, <1>2, <1>3, <2>1, <2>4 DEF ServerMoves
<1>7. CASE HandleAuthOk(c) \/ HandleOther(c)
  <2>1. up[c] # <<>> /\ up' = [up EXCEPT ![c] = Tail(@)]
    BY <1>7 DEF HandleAuthOk, HandleOther, Reading, Consume
  <2>2. Skips
    BY <1>7 DEF HandleAuthOk, HandleOther, Skips
  <2> QED BY <1>2, <1>3, <2>1, <2>2 DEF ServerMoves
<1>8. CASE HandlerExit(c)
  <2>1. ws[c] = "closed" /\ up' = [up EXCEPT ![c] = <<>>]
    BY <1>2, <1>8 DEF HandlerExit, Reading
  <2>2. Exits(c)
    BY <1>8, <2>1 DEF HandlerExit, Exits
  <2> QED BY <1>3, <2>1, <2>2 DEF ServerMoves
<1> QED BY <1>4, <1>5, <1>6, <1>7, <1>8 DEF HandlerStep

(* Every step of the server.                                               *)
LEMMA BridgeEffect ==
    ASSUME IInv, OnlyAuth, BridgeNext
    PROVE  IInv' /\ OnlyAuth' /\ ServerMoves
<1>1. CASE \E c \in Conns : HandlerStep(c)
  BY <1>1, HandlerInv, HandlerEffect
<1>2. CASE \E a \in Agents : LockWakeup(a) \/ SendDone(a)
  BY <1>2, SenderInv, SenderEffect DEF OnlyAuth, ServerMoves
<1>3. CASE \E t \in Tasks : SendToWorker(t)
  <2>1. Tasks \subseteq Agents
    BY DEF Agents
  <2> QED BY <1>3, <2>1, TaskInv, TaskEffect DEF OnlyAuth, ServerMoves
<1> QED BY <1>1, <1>2, <1>3 DEF BridgeNext

(* The server's steps keep what the two ends know of each other.           *)
LEMMA ServerLinkInv ==
    ASSUME LinkInv, ServerNext
    PROVE  LinkInv'
<1>1. IInv' /\ OnlyAuth' /\ ServerMoves
  BY BridgeEffect DEF LinkInv, LinkParts, ServerNext
<1>2. UNCHANGED <<cpc, cur, cli, net, drops, cuts>>
  BY DEF ServerNext, clientVars, netVars
<1>3. LinkTypes'
  BY <1>2 DEF LinkInv, LinkParts, LinkTypes
<1>4. /\ ws \in [Conns -> WsStates] /\ handler \in [Conns -> HandlerStates]
      /\ down \in [Conns -> Seq(DownFrames)] /\ worker \in Conns \cup {NoConn}
      /\ authed \in BOOLEAN
  BY DEF LinkInv, IInv, TypeOK
<1>5. Ends /\ Newest /\ Reached /\ Quiet /\ cur \in Conns \cup {NoConn}
  BY DEF LinkInv, LinkParts, LinkTypes
<1>6. CASE Skips
  <2>1. Ends' /\ Newest' /\ Reached'
    BY <1>2, <1>5, <1>6 DEF Skips, Ends, Newest, Reached
  <2>2. Quiet'
    BY <1>2, <1>4, <1>5, <1>6 DEF Skips, Quiet, Granted, Grants
  <2> QED BY <1>1, <1>3, <2>1, <2>2 DEF LinkInv, LinkParts
<1>7. ASSUME NEW a \in Agents, Sends(a) PROVE LinkInv'
  <2>1. /\ UNCHANGED <<ws, worker>>
        /\ a \in Conns => handler[a] \in Installed /\ handler'[a] \in Installed
        /\ \A c \in Conns : c # a => handler'[c] = handler[c]
    BY <1>7 DEF Sends
  <2>2. Ends' /\ Newest' /\ Reached'
    BY <1>2, <1>5, <2>1 DEF Ends, Newest, Reached
  <2>3. Quiet'
    <3> SUFFICES ASSUME cuts = 0 PROVE Quiet'
      BY <1>2 DEF Quiet
    <3>1. /\ \A c \in Conns : net'[c] = "up"
          /\ \A c \in Conns : c # cur \/ cpc = "dialing" => handler'[c] \in {"none", "done"}
      BY <1>2, <1>5, <2>1 DEF Quiet
    <3>2. ASSUME cur \in Conns, handler'[cur] \in Installed
          PROVE  /\ worker' = cur
                 /\ Attached => Granted(cur)'
                 /\ Grants(down'[cur]) => Granted(cur)'
      <4>1. handler[cur] \in Installed /\ worker = cur
        BY <1>5, <2>1, <3>2 DEF Quiet
      <4>2. a \in Conns => a = cur
        BY <1>5, <2>1 DEF Quiet
      <4>3. Granted(cur) => Granted(cur)'
        BY <1>2, <1>7, <2>1, <3>2, <4>2 DEF Granted, Sends
      <4>4. Grants(down'[cur]) => Granted(cur)'
        <5>1. CASE down' = down
          <6>1. Grants(down[cur]) => Granted(cur)
            BY <1>5, <3>2, <4>1 DEF Quiet
          <6> QED BY <4>3, <5>1, <6>1
        <5>2. ASSUME NEW f \in DownFrames,
                     down' = [down EXCEPT ![worker] = Append(@, f)],
                     f = "auth_ok" => a \in Conns /\ (authed' \/ handler'[a] = "granting")
              PROVE  Grants(down'[cur]) => Granted(cur)'
          <6>1. down'[cur] = Append(down[cur], f) /\ down[cur] \in Seq(DownFrames)
            BY <1>4, <3>2, <4>1, <5>2
          <6>2. Grants(down'[cur]) => Grants(down[cur]) \/ f = "auth_ok"
            BY <6>1, GrantsOf
          <6>3. f = "auth_ok" => Granted(cur)'
            BY <1>2, <4>2, <5>2 DEF Granted
          <6>4. Grants(down[cur]) => Granted(cur)
            BY <1>5, <3>2, <4>1 DEF Quiet
          <6> QED BY <6>2, <6>3, <6>4, <4>3
        <5> QED BY <1>7, <5>1, <5>2 DEF Sends
      <4>5. Attached => Granted(cur)
        BY <1>5, <3>2, <4>1 DEF Quiet
      <4> QED BY <2>1, <4>1, <4>3, <4>4, <4>5
    <3> QED BY <1>2, <3>1, <3>2 DEF Quiet
  <2> QED BY <1>1, <1>3, <2>2, <2>3 DEF LinkInv, LinkParts
<1>8. ASSUME NEW c \in Conns, Asks(c) PROVE LinkInv'
  <2>1. /\ handler[c] = "starting" /\ ws[worker] = "open" /\ worker \in Conns
        /\ \A d \in Conns : handler'[d] = IF d = c THEN "replacing" ELSE handler[d]
        /\ \A d \in Conns : ws'[d] = IF d = worker THEN "closing" ELSE ws[d]
        /\ UNCHANGED <<down, worker, authed>>
    BY <1>4, <1>8 DEF Asks
  <2>2. c = cur /\ cpc # "dialing"
    BY <1>5, <2>1 DEF Newest
  <2>3. Ends' /\ Newest' /\ Reached'
    BY <1>2, <1>5, <2>1, <2>2 DEF Ends, Newest, Reached
  <2>4. Quiet'
    BY <1>2, <1>5, <2>1, <2>2 DEF Quiet
  <2> QED BY <1>1, <1>3, <2>3, <2>4 DEF LinkInv, LinkParts
<1>9. ASSUME NEW c \in Conns, Installs(c) PROVE LinkInv'
  <2>1. /\ handler[c] \in {"starting", "replacing"} /\ worker' = c
        /\ \A d \in Conns : handler'[d] = IF d = c THEN "reading" ELSE handler[d]
        /\ UNCHANGED <<down, ws>>
    BY <1>4, <1>9 DEF Installs, Install
  <2>2. c = cur /\ cpc # "dialing" /\ ~Attached
    BY <1>5, <2>1 DEF Newest, Reached
  <2>3. Ends' /\ Newest' /\ Reached'
    BY <1>2, <1>5, <2>1, <2>2 DEF Ends, Newest, Reached
  <2>4. ~Grants(down[cur])
    <3>1. down[cur] = <<>>
      BY <2>1, <2>2 DEF LinkInv, IInv, NothingBeforeInstall
    <3> QED BY <3>1 DEF Grants
  <2>5. Quiet'
    BY <1>2, <1>5, <2>1, <2>2, <2>4 DEF Quiet, Grants
  <2> QED BY <1>1, <1>3, <2>3, <2>5 DEF LinkInv, LinkParts
<1>10. ASSUME NEW c \in Conns, Exits(c) PROVE LinkInv'
  <2>1. /\ handler[c] = "reading" /\ ws[c] = "closed" /\ worker' = NoConn
        /\ \A d \in Conns : handler'[d] = IF d = c THEN "done" ELSE handler[d]
        /\ UNCHANGED <<down, ws>>
    BY <1>4, <1>10 DEF Exits, Finally
  <2>2. Ends' /\ Newest' /\ Reached'
    BY <1>2, <1>5, <2>1 DEF Ends, Newest, Reached
  <2>3. Quiet'
    <3> SUFFICES ASSUME cuts = 0 PROVE Quiet'
      BY <1>2 DEF Quiet
    <3>1. c = cur
      BY <1>5, <2>1 DEF Quiet
    <3> QED BY <1>2, <1>5, <2>1, <3>1 DEF Quiet
  <2> QED BY <1>1, <1>3, <2>2, <2>3 DEF LinkInv, LinkParts
<1> QED BY <1>1, <1>6, <1>7, <1>8, <1>9, <1>10 DEF ServerMoves

-----------------------------------------------------------------------------
(* The client dials: its AUTH is in flight, its handler starts.            *)
LEMMA DialInv ==
    ASSUME LinkInv, NEW c \in Conns, Dial(c)
    PROVE  LinkInv'
<1>1. TypeOK /\ HandlerState /\ SlotOwner /\ LockDiscipline /\ NothingBeforeInstall
  BY DEF LinkInv, IInv
<1>2. LinkTypes /\ Ends /\ OnlyAuth /\ Newest /\ Reached /\ Quiet
  BY DEF LinkInv, LinkParts
<1>3. /\ cpc = "dialing" /\ cpc' = "awaiting" /\ cur' = c /\ ws[c] = "unborn"
      /\ UNCHANGED <<down, closee, worker, authed, sendq, sender, target>>
      /\ UNCHANGED <<net, drops, cuts>>
      /\ ws' = [ws EXCEPT ![c] = "open"] /\ up' = [up EXCEPT ![c] = <<"auth">>]
      /\ handler' = [handler EXCEPT ![c] = "starting"]
      /\ cli' = [cli EXCEPT ![c] = "open"]
  BY DEF Dial, sendVars, netVars
<1>4. handler[c] = "none" /\ cli[c] = "none" /\ net[c] = "up"
  BY <1>1, <1>2, <1>3 DEF HandlerState, Ends
<1>5. \A d \in Conns :
        /\ ws'[d] = IF d = c THEN "open" ELSE ws[d]
        /\ up'[d] = IF d = c THEN <<"auth">> ELSE up[d]
        /\ handler'[d] = IF d = c THEN "starting" ELSE handler[d]
        /\ cli'[d] = IF d = c THEN "open" ELSE cli[d]
  BY <1>1, <1>2, <1>3 DEF TypeOK, LinkTypes
<1>6. IInv'
  <2>1. TypeOK'
    <3>1. <<"auth">> \in Seq(UpFrames)
      BY DEF UpFrames
    <3> QED BY <1>1, <1>3, <3>1 DEF TypeOK, WsStates
  <2>2. HandlerState' /\ SlotOwner' /\ NothingBeforeInstall'
    BY <1>1, <1>3, <1>4, <1>5, ConnsAreAgents
       DEF HandlerState, SlotOwner, NothingBeforeInstall
  <2>3. LockDiscipline'
    BY <1>1, <1>3 DEF LockDiscipline
  <2> QED BY <2>1, <2>2, <2>3 DEF IInv
<1>7. LinkTypes'
  BY <1>2, <1>3 DEF LinkTypes
<1>8. Ends'
  BY <1>2, <1>3, <1>4, <1>5 DEF Ends
<1>9. OnlyAuth'
  BY <1>2, <1>5 DEF OnlyAuth
<1>10. Newest' /\ Reached'
  BY <1>2, <1>3, <1>4, <1>5 DEF Newest, Reached
<1>11. Quiet'
  BY <1>2, <1>3, <1>5 DEF Quiet
<1> QED BY <1>6, <1>7, <1>8, <1>9, <1>10, <1>11 DEF LinkInv, LinkParts

(* The client reads from its connection: the reply, or a relay message.    *)
LEMMA ReadInv ==
    ASSUME LinkInv, ReadReply \/ ReadRelay
    PROVE  LinkInv'
<1>1. LinkTypes /\ Ends /\ OnlyAuth /\ Newest /\ Reached /\ Quiet
  BY DEF LinkInv, LinkParts
<1>2. cpc \in {"awaiting", "listening"} /\ down[cur] # <<>>
  BY DEF ReadReply, ReadRelay, PeerRead
<1>3. cur \in Conns /\ cli[cur] = "open"
  BY <1>1, <1>2 DEF Ends
<1>4. PeerRead(cur) /\ UNCHANGED <<ws, up, handler, worker, authed, net, drops, cuts>>
  BY <1>2 DEF ReadReply, ReadRelay, PeerRead, netVars
<1>5. IInv'
  BY <1>3, <1>4, PeerInv DEF LinkInv, PeerNext
<1>6. /\ cur' = cur
      /\ \/ cpc' = "sleeping" /\ cli' = [cli EXCEPT ![cur] = "closed"]
         \/ /\ cpc' \in {"listening", "handling"} /\ cli' = cli
            /\ cpc = "listening" \/ Head(down[cur]) = "auth_ok"
  BY DEF ReadReply, ReadRelay, Leave, clientVars
<1>7. LinkTypes' /\ OnlyAuth'
  BY <1>1, <1>4, <1>6 DEF LinkTypes, OnlyAuth
<1>8. Ends'
  BY <1>1, <1>2, <1>3, <1>4, <1>6 DEF Ends, LinkTypes
<1>9. Newest' /\ Reached'
  <2>1. handler[cur] \in Installed \cup {"done"}
    BY <1>2, <1>3 DEF LinkInv, IInv, NothingBeforeInstall
  <2> QED BY <1>1, <1>2, <1>4, <1>6, <2>1 DEF Newest, Reached
<1>10. Quiet'
  <2>1. /\ down[cur] \in Seq(DownFrames) /\ down'[cur] = Tail(down[cur])
    BY <1>3, <1>4 DEF LinkInv, IInv, TypeOK, PeerRead
  <2>2. /\ Grants(down'[cur]) => Grants(down[cur])
        /\ Head(down[cur]) = "auth_ok" => Grants(down[cur])
    BY <1>2, <2>1, GrantsOf
  <2>3. cpc' # "dialing" /\ cpc # "dialing"
    BY <1>2, <1>6
  <2> HIDE DEF Grants
  <2>4. Granted(cur)' <=> Granted(cur)
    BY <1>4, <1>6 DEF Granted
  <2> QED BY <1>1, <1>4, <1>6, <2>2, <2>3, <2>4 DEF Quiet
<1> QED BY <1>1, <1>5, <1>7, <1>8, <1>9, <1>10 DEF LinkInv, LinkParts

(* The client gives up its connection, wakes up from its delay, or goes on *)
(* listening after a message was handled.                                  *)
LEMMA RoundInv ==
    ASSUME LinkInv, AuthTimeout \/ ConnectionClosed \/ Wake \/ Handled
    PROVE  LinkInv'
<1>1. LinkTypes /\ Ends /\ OnlyAuth /\ Newest /\ Reached /\ Quiet
  BY DEF LinkInv, LinkParts
<1>2. UNCHANGED vars /\ UNCHANGED <<net, drops, cuts, cur>>
  BY DEF AuthTimeout, ConnectionClosed, Wake, Handled, Leave, netVars
<1>3. /\ IInv' /\ OnlyAuth'
      /\ UNCHANGED <<ws, up, down, handler, worker, authed>>
  <2>1. IInv'
    BY <1>2, NextKeepsInv DEF LinkInv
  <2> QED BY <1>1, <1>2, <2>1 DEF vars, OnlyAuth
<1>4. CASE AuthTimeout \/ ConnectionClosed
  <2>1. /\ cpc \in {"awaiting", "listening"} /\ cpc' = "sleeping"
        /\ cli' = [cli EXCEPT ![cur] = "closed"]
    BY <1>4 DEF AuthTimeout, ConnectionClosed, Leave
  <2>2. cur \in Conns /\ cli[cur] = "open"
    BY <1>1, <2>1 DEF Ends
  <2>3. LinkTypes' /\ Ends'
    BY <1>1, <1>2, <1>3, <2>1, <2>2 DEF LinkTypes, Ends
  <2>4. Newest' /\ Reached'
    BY <1>1, <1>2, <1>3, <2>1 DEF Newest, Reached
  <2>5. Quiet'
    BY <1>1, <1>2, <1>3, <2>1 DEF Quiet, Granted, Grants
  <2> QED BY <1>3, <2>3, <2>4, <2>5 DEF LinkInv, LinkParts
<1>5. CASE Wake
  <2>1. cpc = "sleeping" /\ cpc' = "dialing" /\ cli' = cli /\ Settled
    BY <1>5 DEF Wake
  <2>2. LinkTypes' /\ Ends'
    BY <1>1, <1>2, <1>3, <2>1 DEF LinkTypes, Ends
  <2>3. Newest' /\ Reached'
    BY <1>1, <1>2, <1>3, <2>1 DEF Newest, Reached, Settled
  <2>4. Quiet'
    BY <1>1, <1>2, <1>3, <2>1 DEF Quiet, Granted, Grants, Settled
  <2> QED BY <1>3, <2>2, <2>3, <2>4 DEF LinkInv, LinkParts
<1>6. CASE Handled
  <2>1. cpc = "handling" /\ cpc' = "listening" /\ cli' = cli
    BY <1>6 DEF Handled
  <2>2. LinkTypes' /\ Ends'
    BY <1>1, <1>2, <1>3, <2>1 DEF LinkTypes, Ends
  <2>3. Newest' /\ Reached'
    BY <1>1, <1>2, <1>3, <2>1 DEF Newest, Reached
  <2>4. Quiet'
    BY <1>1, <1>2, <1>3, <2>1 DEF Quiet, Granted, Grants
  <2> QED BY <1>3, <2>2, <2>3, <2>4 DEF LinkInv, LinkParts
<1> QED BY <1>4, <1>5, <1>6

(* The network, and the library's end of a connection.                     *)
LEMMA NetInv ==
    ASSUME LinkInv, NetNext
    PROVE  LinkInv'
<1>1. LinkTypes /\ Ends /\ OnlyAuth /\ Newest /\ Reached /\ Quiet
  BY DEF LinkInv, LinkParts
<1>2. PICK c \in Conns : \/ ServerSeesClose(c) \/ CloseCompletes(c) \/ Drop(c)
                         \/ KeepaliveFails(c) \/ Cut(c)
  BY DEF NetNext
<1>3. TypeOK /\ IInv
  BY DEF LinkInv, IInv
<1>4. UNCHANGED <<cpc, cur, cli, handler, worker, authed>>
  BY <1>2
     DEF ServerSeesClose, CloseCompletes, Drop, KeepaliveFails, Cut, BeginClose, Lost, clientVars
<1>5. CASE ServerSeesClose(c) \/ CloseCompletes(c) \/ Drop(c) \/ KeepaliveFails(c)
  <2>1. BeginClose(c) \/ Lost(c)
    BY <1>5 DEF ServerSeesClose, CloseCompletes, Drop, KeepaliveFails
  <2>2. IInv'
    BY <1>3, <2>1, PeerInv DEF PeerNext
  <2>3. up' = up /\ net' = net /\ cuts' = cuts /\ drops' \in 0..MaxDrops
    BY <1>1, <1>5, LinkAssumption
       DEF ServerSeesClose, CloseCompletes, Drop, KeepaliveFails, BeginClose, Lost, netVars,
           LinkTypes
  <2>4. /\ ws[c] \in {"open", "closing"} /\ ws'[c] \in {"closing", "closed"}
        /\ ws[c] = "closing" => ws'[c] = "closed"
        /\ \A d \in Conns : d # c => ws'[d] = ws[d]
        /\ \A d \in Conns : down'[d] = down[d] \/ down'[d] = <<>>
    BY <1>3, <2>1 DEF BeginClose, Lost, TypeOK
  <2>5. LinkTypes' /\ OnlyAuth'
    BY <1>1, <1>4, <2>3 DEF LinkTypes, OnlyAuth
  <2>6. Ends' /\ Newest' /\ Reached'
    BY <1>1, <1>4, <2>3, <2>4 DEF Ends, Newest, Reached
  <2>7. Quiet'
    <3>1. \A d \in Conns : Grants(down'[d]) => Grants(down[d])
      BY <2>4 DEF Grants
    <3>2. \A d \in Conns : Granted(d)' <=> Granted(d)
      BY <1>4 DEF Granted
    <3> QED BY <1>1, <1>4, <2>3, <3>1, <3>2 DEF Quiet
  <2> QED BY <2>2, <2>5, <2>6, <2>7 DEF LinkInv, LinkParts
<1>6. CASE Cut(c)
  <2>1. /\ UNCHANGED <<ws, down, closee, sendq, sender, target, drops>>
        /\ cuts < MaxCuts /\ cuts' = cuts + 1 /\ cli[c] = "open"
        /\ net' = [net EXCEPT ![c] = "cut"]
        /\ up' = up \/ up' = [up EXCEPT ![c] = <<>>]
    BY <1>6 DEF Cut, sendVars
  <2>2. IInv'
    <3>1. TypeOK'
      <4>1. <<>> \in Seq(UpFrames)
        OBVIOUS
      <4> QED BY <1>3, <1>4, <2>1, <4>1 DEF TypeOK
    <3>2. HandlerState' /\ SlotOwner' /\ NothingBeforeInstall'
      BY <1>3, <1>4, <2>1 DEF IInv, HandlerState, SlotOwner, NothingBeforeInstall
    <3>3. LockDiscipline'
      BY <1>3, <2>1 DEF IInv, LockDiscipline
    <3> QED BY <3>1, <3>2, <3>3 DEF IInv
  <2>3. LinkTypes' /\ cuts' # 0
    BY <1>1, <1>4, <2>1, LinkAssumption DEF LinkTypes
  <2>4. OnlyAuth'
    BY <1>1, <1>3, <2>1 DEF OnlyAuth, TypeOK
  <2>5. Ends' /\ Newest' /\ Reached'
    BY <1>1, <1>4, <2>1 DEF Ends, Newest, Reached, LinkTypes
  <2>6. Quiet'
    BY <2>3 DEF Quiet
  <2> QED BY <2>2, <2>3, <2>4, <2>5, <2>6 DEF LinkInv, LinkParts
<1> QED BY <1>2, <1>5, <1>6

(* Every step keeps the invariant.                                         *)
LEMMA LinkNextInv == ASSUME LinkInv, [LinkNext]_allVars PROVE LinkInv'
<1>1. CASE UNCHANGED allVars
  <2>1. UNCHANGED vars /\ UNCHANGED <<cpc, cur, cli, net, drops, cuts>>
    BY <1>1 DEF allVars, clientVars, netVars
  <2>2. IInv'
    BY <2>1, NextKeepsInv DEF LinkInv
  <2>3. LinkParts'
    BY <2>1 DEF vars, LinkInv, LinkParts, LinkTypes, Ends, OnlyAuth, Newest, Reached,
       Quiet, Granted, Grants
  <2> QED BY <2>2, <2>3 DEF LinkInv
<1>2. CASE ClientNext
  BY <1>2, DialInv, ReadInv, RoundInv DEF ClientNext
<1> QED BY <1>1, <1>2, ServerLinkInv, NetInv DEF LinkNext

(* Every step keeps the waits in order, as in the bridge alone.            *)
LEMMA LinkWaits == ASSUME LinkInv, WaitsEnd, [LinkNext]_allVars PROVE WaitsEnd'
<1>1. IInv /\ TypeOK /\ HandlerState
  BY DEF LinkInv, IInv
<1>2. ASSUME NEW c \in Conns, Dial(c) PROVE WaitsEnd'
  <2>1. /\ ws[c] = "unborn" /\ handler[c] = "none" /\ ws' = [ws EXCEPT ![c] = "open"]
        /\ handler' = [handler EXCEPT ![c] = "starting"]
        /\ UNCHANGED <<closee, sender, target>>
    BY <1>1, <1>2 DEF Dial, sendVars, HandlerState
  <2> QED BY <1>1, <2>1 DEF WaitsEnd, TypeOK
<1>3. ASSUME NEW c \in Conns, Cut(c) PROVE WaitsEnd'
  BY <1>3 DEF Cut, sendVars, WaitsEnd
<1>4. ASSUME [Next]_vars PROVE WaitsEnd'
  BY <1>1, <1>4, NextKeepsWaits
<1>5. CASE ServerNext
  BY <1>4, <1>5 DEF ServerNext, Next
<1>6. CASE ReadReply \/ ReadRelay
  <2>1. cur \in Conns
    BY <1>6 DEF ReadReply, ReadRelay, LinkInv, LinkParts, Ends
  <2>2. PeerRead(cur)
    BY <1>6 DEF ReadReply, ReadRelay, PeerRead
  <2> QED BY <1>4, <2>1, <2>2 DEF Next, PeerNext
<1>7. CASE AuthTimeout \/ ConnectionClosed \/ Wake \/ Handled \/ UNCHANGED allVars
  BY <1>4, <1>7 DEF AuthTimeout, ConnectionClosed, Wake, Handled, allVars
<1>8. ASSUME NEW c \in Conns,
             ServerSeesClose(c) \/ CloseCompletes(c) \/ Drop(c) \/ KeepaliveFails(c)
      PROVE WaitsEnd'
  BY <1>4, <1>8 DEF ServerSeesClose, CloseCompletes, Drop, KeepaliveFails, Next, PeerNext
<1> QED BY <1>2, <1>3, <1>5, <1>6, <1>7, <1>8 DEF LinkNext, ClientNext, NetNext

(* The inductive invariant holds in every behaviour, fair or not.          *)
THEOREM LinkInvariant == LinkSpec => []LinkInv
  BY LinkInitInv, LinkNextInv, PTL DEF LinkSpec

(* Every value of the composition stays in its type.                       *)
THEOREM LinkTypesHold == LinkSpec => []LinkTypeOK
  BY LinkInvariant, LinkInvImplies, PTL

(* Until a silent cut, what an attached client believes of its connection  *)
(* is what the server believes: it has the slot and the flag.              *)
THEOREM EndsAgree == LinkSpec => []Agreement
  BY LinkInvariant, LinkInvImplies, PTL

(* Cut or not, the slot never names another connection than the one an     *)
(* attached client holds.                                                  *)
THEOREM SlotNeverStale == LinkSpec => []SlotNotStale
  BY LinkInvariant, LinkInvImplies, PTL

(* What WorkerBridgeProofs shows of the slot, the lock, the frames and the *)
(* waits for arbitrary peers holds of the reconnecting client as well.     *)
THEOREM LinkKeepsBridge ==
    LinkSpec => [](SlotOwner /\ LockDiscipline /\ NothingBeforeInstall /\ WaitsEnd)
<1>1. LinkInit => WaitsEnd
  BY ConnsAreAgents DEF LinkInit, Init, WaitsEnd
<1>2. LinkInv /\ WaitsEnd /\ [LinkNext]_allVars => WaitsEnd'
  BY LinkWaits
<1>3. LinkInv => SlotOwner /\ LockDiscipline /\ NothingBeforeInstall
  BY DEF LinkInv, IInv
<1> QED BY LinkInvariant, <1>1, <1>2, <1>3, PTL DEF LinkSpec

-----------------------------------------------------------------------------
(* The refinement of module Session.                                       *)

(* What a step other than Dial may do to the link: ends close, connections *)
(* are cut, the slot is emptied or passes to a handler that had none.      *)
Moves ==
    /\ cur' = cur
    /\ \A c \in Conns : cli'[c] = cli[c] \/ (cli[c] # "none" /\ cli'[c] = "closed")
    /\ Attached => Attached' \/ cli'[cur] = "closed"
    /\ \A c \in Conns : ws'[c] = ws[c] \/ ws'[c] \in {"closing", "closed"}
    /\ \A c \in Conns : ws[c] \in {"closing", "closed"} => ws'[c] \in {"closing", "closed"}
    /\ \A c \in Conns : net'[c] = net[c] \/ net'[c] = "cut"
    /\ \A c \in Conns : handler[c] \in Installed \cup {"done"}
                          => handler'[c] \in Installed \cup {"done"}
    /\ \/ worker' = worker /\ (authed => authed')
       \/ worker' = NoConn
       \/ \E c \in Conns : handler[c] \in {"starting", "replacing"} /\ worker' = c

LEMMA LinkMoves ==
    ASSUME LinkInv, [LinkNext]_allVars
    PROVE  (\E c \in Conns : Dial(c)) \/ Moves
<1>1. /\ ws \in [Conns -> WsStates] /\ handler \in [Conns -> HandlerStates]
      /\ cli \in [Conns -> {"none", "open", "closed"}] /\ net \in [Conns -> {"up", "cut"}]
      /\ Ends
  BY DEF LinkInv, LinkParts, LinkTypes, IInv, TypeOK
<1>2. CASE UNCHANGED allVars
  BY <1>2 DEF allVars, vars, clientVars, netVars, Moves
<1>3. CASE ServerNext
  <2>1. UNCHANGED <<cpc, cur, cli, net>> /\ ServerMoves
    BY <1>3, BridgeEffect DEF LinkInv, LinkParts, ServerNext, clientVars, netVars
  <2>2. CASE Skips
    BY <2>1, <2>2 DEF Skips, Moves
  <2>3. CASE \E a \in Agents : Sends(a)
    BY <2>1, <2>3 DEF Sends, Moves
  <2>4. ASSUME NEW c \in Conns, Asks(c) \/ Installs(c) \/ Exits(c) PROVE Moves
    <3>1. CASE Asks(c)
      BY <1>1, <2>1, <3>1 DEF Asks, Moves
    <3>2. CASE Installs(c)
      BY <1>1, <2>1, <3>2 DEF Installs, Install, Moves
    <3>3. CASE Exits(c)
      BY <1>1, <2>1, <3>3 DEF Exits, Finally, Moves
    <3> QED BY <2>4, <3>1, <3>2, <3>3
  <2> QED BY <2>1, <2>2, <2>3, <2>4 DEF ServerMoves
<1>4. CASE ReadReply \/ AuthTimeout \/ ReadRelay \/ ConnectionClosed \/ Wake \/ Handled
  <2>1. /\ UNCHANGED <<cur, ws, net, handler, worker, authed>>
        /\ \/ cli' = cli /\ (Attached => Attached')
           \/ /\ cpc \in {"awaiting", "listening"}
              /\ cli' = [cli EXCEPT ![cur] = "closed"]
    BY <1>4 DEF ReadReply, AuthTimeout, ReadRelay, PeerRead, ConnectionClosed, Wake, Handled, Leave,
       clientVars, netVars, vars
  <2>2. cpc \in {"awaiting", "listening"} => cur \in Conns /\ cli[cur] = "open"
    BY <1>1 DEF Ends
  <2> QED BY <1>1, <2>1, <2>2 DEF Moves
<1>5. CASE NetNext
  <2>1. PICK c \in Conns : \/ ServerSeesClose(c) \/ CloseCompletes(c) \/ Drop(c)
                           \/ KeepaliveFails(c) \/ Cut(c)
    BY <1>5 DEF NetNext
  <2>2. CASE ServerSeesClose(c) \/ CloseCompletes(c) \/ Drop(c) \/ KeepaliveFails(c)
    <3>1. /\ UNCHANGED <<cpc, cur, cli, net, handler, worker, authed>>
          /\ \/ ws[c] = "open" /\ ws' = [ws EXCEPT ![c] = "closing"]
             \/ ws' = [ws EXCEPT ![c] = "closed"]
      BY <2>2
        DEF ServerSeesClose, CloseCompletes, Drop, KeepaliveFails, BeginClose, Lost, clientVars,
            netVars
    <3> QED BY <1>1, <3>1 DEF Moves
  <2>3. CASE Cut(c)
    BY <1>1, <2>3 DEF Cut, Moves, clientVars, sendVars
  <2> QED BY <2>1, <2>2, <2>3
<1> QED BY <1>2, <1>3, <1>4, <1>5 DEF LinkNext, ClientNext

(* A connection other than this round's is over once it was dialed; this   *)
(* round's is not over while it has the link.                              *)
OverOf(c) ==
    /\ cli[c] = "none" => ~Over(c)
    /\ c # cur => (Over(c) <=> cli[c] # "none")
    /\ c = cur /\ LinkUp => ~Over(c)

OverInv == \A c \in Conns : OverOf(c)

LEMMA OverElsewhere == LinkInv => OverInv
<1> SUFFICES ASSUME LinkInv, NEW c \in Conns PROVE OverOf(c)
  BY DEF OverInv
<1>1. /\ cli \in [Conns -> {"none", "open", "closed"}] /\ handler \in [Conns -> HandlerStates]
      /\ Ends /\ HandlerState
  BY DEF LinkInv, LinkParts, LinkTypes, IInv, TypeOK
<1>2. cli[c] = "none" => ~Over(c)
  BY <1>1 DEF Over, Ends, HandlerState
<1>3. c # cur => (Over(c) <=> cli[c] # "none")
  BY <1>1, <1>2 DEF Over, Ends
<1>4. c = cur /\ LinkUp => ~Over(c)
  BY <1>1 DEF Over, LinkUp, Ends
<1> QED BY <1>2, <1>3, <1>4 DEF OverOf

(* A connection that is over stays over, and the one that has the link has *)
(* it until it is over.                                                    *)
LEMMA OverStays ==
    ASSUME LinkInv, Moves, NEW c \in Conns
    PROVE  /\ Over(c) => Over(c)'
           /\ c = cur /\ LinkUp /\ ~LinkUp' => Over(c)'
<1>1. NoConn \notin Conns
  BY BridgeAssumption
<1>2. Over(c) => Over(c)'
  BY <1>1 DEF Over, Moves
<1>3. ASSUME c = cur, LinkUp, ~LinkUp' PROVE Over(c)'
  <2>1. /\ Attached /\ net[c] = "up" /\ ws[c] = "open" /\ worker = c /\ authed
        /\ handler[c] \in Installed \cup {"done"}
    BY <1>3 DEF LinkUp, LinkInv, LinkParts, Reached
  <2>2. handler'[c] \in Installed \cup {"done"} /\ cur' = c
    BY <1>3, <2>1 DEF Moves
  <2>3. CASE worker' # c
    BY <2>2, <2>3 DEF Over
  <2>4. CASE worker' = c
    <3>1. authed'
      BY <1>1, <2>1, <2>4 DEF Moves
    <3>2. ~Attached' \/ net'[c] # "up" \/ ws'[c] # "open"
      BY <1>3, <2>2, <2>4, <3>1 DEF LinkUp
    <3> QED BY <1>3, <2>1, <3>2 DEF Moves, Over
  <2> QED BY <2>3, <2>4
<1> QED BY <1>2, <1>3

(* The start maps to the start.                                            *)
LEMMA SessionInit == LinkInit => Sessions!Init
<1> SUFFICES ASSUME LinkInit PROVE Phase = [c \in Conns |-> "new"]
  BY DEF Sessions!Init
<1>1. \A c \in Conns : ~Over(c)
  BY LinkInitInv, OverElsewhere DEF LinkInit, OverInv, OverOf
<1>2. ~LinkUp
  BY DEF LinkInit, LinkUp
<1> QED BY <1>1, <1>2 DEF Phase

(* Every step maps to a step or a stutter.                                 *)
LEMMA SessionStep ==
    ASSUME LinkInv, OverInv, OverInv', [LinkNext]_allVars
    PROVE  [Sessions!Next]_Phase
<1> DEFINE P(c) == IF c = cur /\ LinkUp THEN "linked" ELSE IF Over(c) THEN "over" ELSE "new"
<1>1. /\ Phase = [c \in Conns |-> P(c)] /\ Phase' = [c \in Conns |-> P(c)']
  BY DEF Phase
<1>2. ASSUME NEW d \in Conns, Dial(d) PROVE Phase' = Phase
  <2>1. /\ cpc = "dialing" /\ cpc' = "awaiting" /\ cli[d] = "none" /\ handler[d] = "none"
        /\ net[d] = "up" /\ worker' = worker /\ net' = net
        /\ ws' = [ws EXCEPT ![d] = "open"] /\ handler' = [handler EXCEPT ![d] = "starting"]
        /\ cli' = [cli EXCEPT ![d] = "open"]
    BY <1>2 DEF Dial, netVars, LinkInv, LinkParts, Ends, IInv, HandlerState
  <2>2. ~LinkUp /\ ~LinkUp'
    BY <2>1 DEF LinkUp
  <2>3. \A c \in Conns : Over(c)' <=> Over(c)
    <3>1. /\ ws \in [Conns -> WsStates] /\ handler \in [Conns -> HandlerStates]
          /\ cli \in [Conns -> {"none", "open", "closed"}]
      BY DEF LinkInv, LinkParts, LinkTypes, IInv, TypeOK
    <3>2. ~Over(d)
      BY <2>1 DEF OverInv, OverOf
    <3>3. ~Over(d)'
      BY <2>1, <3>1 DEF Over
    <3>4. ASSUME NEW c \in Conns, c # d PROVE Over(c)' <=> Over(c)
      BY <2>1, <3>1, <3>4 DEF Over
    <3> QED BY <3>2, <3>3, <3>4
  <2>4. \A c \in Conns : P(c)' = P(c)
    BY <2>2, <2>3
  <2> QED BY <1>1, <2>4, Zenon
<1>3. ASSUME Moves PROVE [Sessions!Next]_Phase
  <2>1. cur' = cur
    BY <1>3 DEF Moves
  <2>2. \A c \in Conns : c # cur => P(c)' = P(c)
    <3> SUFFICES ASSUME NEW c \in Conns, c # cur PROVE P(c)' = P(c)
      OBVIOUS
    <3>1. cli'[c] = "none" <=> cli[c] = "none"
      BY <1>3 DEF Moves
    <3>2. Over(c)' <=> cli'[c] # "none"
      BY <2>1 DEF OverInv, OverOf
    <3>3. Over(c) <=> cli[c] # "none"
      BY DEF OverInv, OverOf
    <3> QED BY <2>1, <3>1, <3>2, <3>3
  <2>3. CASE cur \notin Conns \/ (cur \in Conns /\ P(cur)' = P(cur))
    <3>1. \A c \in Conns : P(c)' = P(c)
      BY <2>2, <2>3, <2>1
    <3> QED BY <1>1, <3>1, Zenon
  <2>4. CASE cur \in Conns /\ P(cur)' # P(cur)
    <3>1. Phase' = [Phase EXCEPT ![cur] = P(cur)']
      <4>1. \A c \in Conns : P(c)' = IF c = cur THEN P(cur)' ELSE P(c)
        BY <2>2, <2>1
      <4> HIDE DEF P
      <4> QED BY <1>1, <4>1
    <3>2. /\ Over(cur) => Over(cur)'
          /\ LinkUp /\ ~LinkUp' => Over(cur)'
          /\ LinkUp' => ~Over(cur)'
      BY <1>3, <2>4, <2>1, OverStays DEF OverInv, OverOf
    <3>3. CASE LinkUp'
      <4>1. P(cur)' = "linked" /\ ~LinkUp /\ ~Over(cur)
        BY <2>4, <2>1, <3>2, <3>3
      <4>2. Phase[cur] = "new" /\ \A d \in Conns : Phase[d] # "linked"
        BY <1>1, <2>4, <4>1
      <4>3. Sessions!Begin(cur)
        BY <3>1, <4>1, <4>2 DEF Sessions!Begin
      <4> QED BY <2>4, <4>3 DEF Sessions!Next
    <3>4. CASE ~LinkUp'
      <4>1. P(cur)' = "over" /\ P(cur) # "over"
        BY <2>4, <2>1, <3>2, <3>4
      <4>2. Phase[cur] # "over"
        BY <1>1, <2>4, <4>1
      <4>3. Sessions!End(cur)
        BY <3>1, <4>1, <4>2 DEF Sessions!End
      <4> QED BY <2>4, <4>3 DEF Sessions!Next
    <3> QED BY <3>3, <3>4
  <2> QED BY <2>3, <2>4
<1> QED BY <1>2, <1>3, LinkMoves

(* One connection at a time has the link, each has it once, and one that   *)
(* has lost it never gets it back, however connections are reset, cut and  *)
(* replaced: the composition implements Session.                           *)
THEOREM LinkIsOneSession == LinkSpec => OneSession
  BY LinkInvariant, OverElsewhere, SessionInit, SessionStep, PTL DEF LinkSpec, OneSession, Sessions!Spec
===========================================================================
