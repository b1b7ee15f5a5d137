---------------------------- MODULE DirectRelay ----------------------------
(***************************************************************************)
(* server/client_local.py and server/worker_daytona.py: two TCP relays in  *)
(* a row, without frames and without the relay server.  A connection of    *)
(* the browser becomes a connection of the local client to the worker      *)
(* (through ssh -L) and one of the worker to the target:                   *)
(*                                                                         *)
(*   browser - "local_in"  "local_out" - "worker_in"  "worker_out" - target*)
(*                                                                         *)
(* One connection is modelled: connections share nothing.  asyncio's       *)
(* StreamWriter.close() closes both directions; what has reached the       *)
(* reader of the other end can still be read there.                        *)
(*                                                                         *)
(* External: the browser, the target and the sockets.                      *)
(***************************************************************************)
EXTENDS Naturals

CONSTANTS
    MaxUp,      \* bound: chunks the browser sends
    MaxDown     \* bound: chunks the target answers

VARIABLES
    st,         \* each end of the three connections: "none", "open", "closed"
    inb,        \* chunks that have been written to an end and not read there
    eof,        \* the browser has shut down its sending side
    sent, made, \* chunks sent by the browser; answered by the target
    lpc, wpc,   \* where the two handle_client coroutines stand
    copy        \* the two _copy coroutines of each: "none", "running", "done"

vars == <<st, inb, eof, sent, made, lpc, wpc, copy>>

Ends == {"browser", "local_in", "local_out", "worker_in", "worker_out", "target"}
Copies == {"local_up", "local_down", "worker_up", "worker_down"}

(* The other end of the same connection.                                   *)
Peer == [e \in Ends |->
    CASE e = "browser" -> "local_in"     [] e = "local_in" -> "browser"
      [] e = "local_out" -> "worker_in"  [] e = "worker_in" -> "local_out"
      [] e = "worker_out" -> "target"    [] e = "target" -> "worker_out"]

(* src and dst of the copies that work.                                    *)
Src == [k \in Copies |->
    CASE k = "local_up" -> "local_in"    [] k = "local_down" -> "local_out"
      [] k = "worker_up" -> "worker_in"  [] k = "worker_down" -> "worker_out"]
Dst == [k \in Copies |->
    CASE k = "local_up" -> "local_out"   [] k = "local_down" -> "local_in"
      [] k = "worker_up" -> "worker_out" [] k = "worker_down" -> "worker_in"]

Init ==
    /\ st = [e \in Ends |-> IF e \in {"browser", "local_in"} THEN "open" ELSE "none"]
    /\ inb = [e \in Ends |-> 0]
    /\ eof = FALSE /\ sent = 0 /\ made = 0
    /\ lpc = "connecting" /\ wpc = "none"
    /\ copy = [k \in Copies |-> "none"]

(* A chunk written at e arrives at the other end, or is lost with it.     *)
Arrives(e, chunks) ==
    inb' = IF st[Peer[e]] = "open" THEN [chunks EXCEPT ![Peer[e]] = @ + 1] ELSE chunks

AtEof(e) ==
    /\ inb[e] = 0
    /\ "closed" \in {st[e], st[Peer[e]]} \/ (eof /\ e = "local_in")

-----------------------------------------------------------------------------
(* The browser and the target (external).                                  *)

BrowserSends ==
    /\ st["browser"] = "open" /\ ~eof /\ sent < MaxUp
    /\ sent' = sent + 1
    /\ Arrives("browser", inb)
    /\ UNCHANGED <<st, eof, made, lpc, wpc, copy>>

BrowserEnds ==
    /\ st["browser"] = "open"
    /\ \/ ~eof /\ eof' = TRUE /\ UNCHANGED st
       \/ st' = [st EXCEPT !["browser"] = "closed"] /\ UNCHANGED eof
    /\ UNCHANGED <<inb, sent, made, lpc, wpc, copy>>

(* The target answers what it has been sent, or closes.                    *)
TargetAnswers ==
    /\ st["target"] = "open" /\ inb["target"] > 0 /\ made < MaxDown
    /\ made' = made + 1
    /\ Arrives("target", inb)
    /\ UNCHANGED <<st, eof, sent, lpc, wpc, copy>>

TargetCloses ==
    /\ st["target"] = "open"
    /\ st' = [st EXCEPT !["target"] = "closed"]
    /\ UNCHANGED <<inb, eof, sent, made, lpc, wpc, copy>>

-----------------------------------------------------------------------------
(* _copy, nearly the same in both programs.                                *)

(* A chunk is read, written and drained.                                   *)
CopyMoves(k) ==
    /\ copy[k] = "running" /\ k # "worker_down"
    /\ inb[Src[k]] > 0
    /\ Arrives(Dst[k], [inb EXCEPT ![Src[k]] = @ - 1])
    /\ UNCHANGED <<st, eof, sent, made, lpc, wpc, copy>>

(* End of file, or drain() raises because dst is gone; the worker's copies *)
(* also end after 30 seconds without a chunk.  dst is closed.              *)
CopyEnds(k) ==
    /\ copy[k] = "running" /\ k # "worker_down"
    /\ \/ AtEof(Src[k])
       \/ "closed" \in {st[Dst[k]], st[Peer[Dst[k]]]}
       \/ k = "worker_up" /\ inb[Src[k]] = 0
    /\ copy' = [copy EXCEPT ![k] = "done"]
    /\ st' = [st EXCEPT ![Dst[k]] = "closed"]
    /\ UNCHANGED <<inb, eof, sent, made, lpc, wpc>>

(* relay() is called with the client's reader and the target's writer, and *)
(* its second copy takes them the other way round: StreamWriter has no     *)
(* read() and StreamReader no close(), both exceptions are caught, and     *)
(* target_reader is left alone.                                            *)
DownCopyFails ==
    /\ copy["worker_down"] = "running"
    /\ copy' = [copy EXCEPT !["worker_down"] = "done"]
    /\ UNCHANGED <<st, inb, eof, sent, made, lpc, wpc>>

-----------------------------------------------------------------------------
(* client_local.handle_client.                                             *)

(* ssh accepts, and the worker's handle_client starts; or nobody accepts.  *)
LocalConnects ==
    /\ lpc = "connecting"
    /\ lpc' = "copying" /\ wpc' = "first"
    /\ st' = [st EXCEPT !["local_out"] = "open", !["worker_in"] = "open"]
    /\ copy' = [copy EXCEPT !["local_up"] = "running", !["local_down"] = "running"]
    /\ UNCHANGED <<inb, eof, sent, made>>

(* gather() returns, or the connection was refused: the finally block.     *)
LocalDone ==
    /\ \/ lpc = "connecting"
       \/ lpc = "copying" /\ copy["local_up"] = "done" /\ copy["local_down"] = "done"
    /\ lpc' = "done"
    /\ st' = [st EXCEPT !["local_in"] = "closed"]
    /\ UNCHANGED <<inb, eof, sent, made, wpc, copy>>

-----------------------------------------------------------------------------
(* worker_daytona.handle_client.                                           *)

(* The first chunk names the target.                                       *)
ReadFirst ==
    /\ wpc = "first" /\ inb["worker_in"] > 0
    /\ inb' = [inb EXCEPT !["worker_in"] = @ - 1]
    /\ wpc' = "connecting"
    /\ UNCHANGED <<st, eof, sent, made, lpc, copy>>

(* The connection is made, the first chunk written, relay() called.        *)
Connected ==
    /\ wpc = "connecting"
    /\ wpc' = "relaying"
    /\ st' = [st EXCEPT !["worker_out"] = "open", !["target"] = "open"]
    /\ inb' = [inb EXCEPT !["target"] = @ + 1]
    /\ copy' = [copy EXCEPT !["worker_up"] = "running", !["worker_down"] = "running"]
    /\ UNCHANGED <<eof, sent, made, lpc>>

(* No first chunk within 10 seconds, no host in it, no connection within   *)
(* 20 seconds, or relay() is over: the client's writer is closed.          *)
WorkerDone ==
    /\ \/ wpc = "first" /\ inb["worker_in"] = 0
       \/ wpc = "connecting"
       \/ wpc = "relaying" /\ copy["worker_up"] = "done" /\ copy["worker_down"] = "done"
    /\ wpc' = "done"
    /\ st' = [st EXCEPT !["worker_in"] = "closed"]
    /\ UNCHANGED <<inb, eof, sent, made, lpc, copy>>

-----------------------------------------------------------------------------
CodeStep ==
    \/ \E k \in Copies : CopyMoves(k) \/ CopyEnds(k)
    \/ DownCopyFails
    \/ LocalConnects \/ LocalDone
    \/ ReadFirst \/ Connected \/ WorkerDone

Next == BrowserSends \/ BrowserEnds \/ TargetAnswers \/ TargetCloses \/ CodeStep

Spec == Init /\ [][Next]_vars /\ WF_vars(CodeStep)

-----------------------------------------------------------------------------
(* Properties.                                                             *)

(* worker_daytona.py:48: "Bidirectional relay between two streams."  As    *)
(* long as both connections are open, what the target has sent has a       *)
(* reader: a direction is given up only by closing its destination.        *)
Bidirectional ==
    inb["worker_out"] > 0 /\ st["worker_out"] = "open" /\ st["worker_in"] = "open"
        => copy["worker_down"] = "running"

(* What relay() does instead: not a single chunk ever comes back.          *)
NothingComesBack == inb["local_out"] = 0 /\ inb["browser"] = 0
=============================================================================
