---------------------------- MODULE InlineWorker ----------------------------
(***************************************************************************)
(* server/relay_standalone.py: the worker built into the standalone relay. *)
(* One coroutine reads the frames of the server and makes a task of every  *)
(* REQUEST; the task connects to the host its first chunk names, hands on  *)
(* that chunk and then sends the response until it ends or pauses for 30   *)
(* seconds.  Unlike module TCPRelay nothing is cancelled: CLOSE only       *)
(* closes a writer that is already there, and DATA is not looked at.       *)
(*                                                                         *)
(* External: the server's frames, the target and the link to the server.   *)
(***************************************************************************)
EXTENDS Naturals, Sequences

CONSTANTS
    Ids,        \* request ids
    Talkers,    \* targets that may send within every 30 seconds for ever
    MayReset,   \* whether targets may reset their connections
    MaxResp,    \* bound: response chunks per request
    ChanCap,    \* bound: frames from the server not yet read
    MaxFlaps    \* bound: times the link goes down

ASSUME InlineAssumption ==
    /\ Talkers \subseteq Ids /\ MayReset \in BOOLEAN
    /\ MaxResp \in Nat /\ ChanCap \in Nat /\ MaxFlaps \in Nat

VARIABLES
    srv,        \* what the server has sent for each request
    chan,       \* frames of the server, in order
    task,       \* where the task of each request stands
    active,     \* keys of _active
    wr,         \* the writer to the target: "none", "open", "closed" or "lost"
    made, eof,  \* response chunks the target has produced; whether it ended
    rd,         \* response chunks the task has read
    out,        \* frames delivered to the server for each request
    link,       \* "up", "dying" (broken, nobody knows yet), "down" or "stopped"
    flaps

serverVars == <<srv, chan>>
targetVars == <<wr, made, eof>>
linkVars == <<link, flaps>>
vars == <<serverVars, task, active, targetVars, rd, out, linkVars>>

Frames == [id : Ids, kind : {"request", "data", "close"}]

END == MaxResp + 1
ERROR == MaxResp + 2

Init ==
    /\ srv = [r \in Ids |-> "none"] /\ chan = <<>>
    /\ task = [r \in Ids |-> "none"]
    /\ active = {}
    /\ wr = [r \in Ids |-> "none"]
    /\ made = [r \in Ids |-> 0] /\ eof = [r \in Ids |-> FALSE]
    /\ rd = [r \in Ids |-> 0]
    /\ out = [r \in Ids |-> <<>>]
    /\ link = "up" /\ flaps = 0

-----------------------------------------------------------------------------
(* The server, the target and the link (external).                         *)

(* REQUEST, then DATA frames, then CLOSE.                                  *)
ServerSends(r) ==
    /\ link = "up" /\ Len(chan) < ChanCap
    /\ \E k \in {"request", "data", "close"} :
         /\ srv[r] \in (IF k = "request" THEN {"none"} ELSE {"requested"})
         /\ chan' = Append(chan, [id |-> r, kind |-> k])
         /\ srv' = [srv EXCEPT ![r] = IF k = "close" THEN "closed" ELSE "requested"]
    /\ UNCHANGED <<task, active, targetVars, rd, out, linkVars>>

(* A response need not end.  Chunks after the first MaxResp, which only a  *)
(* talker sends for ever, are not counted: see Fairness.                   *)
TargetAnswers(r) ==
    /\ wr[r] = "open" /\ ~eof[r]
    /\ \/ made[r] < MaxResp /\ made' = [made EXCEPT ![r] = @ + 1] /\ UNCHANGED eof
       \/ eof' = [eof EXCEPT ![r] = TRUE] /\ UNCHANGED made
    /\ UNCHANGED <<serverVars, task, active, wr, rd, out, linkVars>>

TargetResets(r) ==
    /\ MayReset /\ wr[r] = "open"
    /\ wr' = [wr EXCEPT ![r] = "lost"]
    /\ UNCHANGED <<serverVars, task, active, made, eof, rd, out, linkVars>>

(* The connection breaks: frames in flight are lost both ways.             *)
LinkDies ==
    /\ link = "up" /\ flaps < MaxFlaps
    /\ link' = "dying" /\ flaps' = flaps + 1
    /\ \E n \in 0..Len(chan) : chan' = SubSeq(chan, 1, n)
    /\ UNCHANGED <<srv, task, active, targetVars, rd, out>>

-----------------------------------------------------------------------------
(* InlineWorker.run.                                                       *)

(* The loop over the frames ends, by its end or by an exception.           *)
LinkDown ==
    /\ link = "dying"
    /\ link' = "down" /\ chan' = <<>>
    /\ UNCHANGED <<flaps, srv, task, active, targetVars, rd, out>>

(* Connected again after two seconds or more.  AUTH is the first frame, so *)
(* what tasks send from here on is accepted.                               *)
LinkBack ==
    /\ link = "down"
    /\ link' = "up"
    /\ UNCHANGED <<flaps, serverVars, task, active, targetVars, rd, out>>

Reading(r, kind) == chan # <<>> /\ Head(chan) = [id |-> r, kind |-> kind]

(* REQUEST: create_task(_handle_request), which has not run yet.           *)
ReadRequest(r) ==
    /\ Reading(r, "request")
    /\ chan' = Tail(chan)
    /\ task' = [task EXCEPT ![r] = "spawned"]
    /\ UNCHANGED <<srv, active, targetVars, rd, out, linkVars>>

(* The loop has no branch for DATA.                                        *)
ReadData(r) ==
    /\ Reading(r, "data")
    /\ chan' = Tail(chan)
    /\ UNCHANGED <<srv, task, active, targetVars, rd, out, linkVars>>

(* Mutant: the writer is popped but not closed.                            *)
ReadCloseOnlyPops(r) ==
    /\ Reading(r, "close")
    /\ chan' = Tail(chan)
    /\ active' = active \ {r}
    /\ UNCHANGED <<srv, task, targetVars, rd, out, linkVars>>

(* CLOSE: _close.  Chunks that have not reached the reader are lost.       *)
ReadClose(r) ==
    /\ Reading(r, "close")
    /\ chan' = Tail(chan)
    /\ active' = active \ {r}
    /\ IF r \in active /\ wr[r] = "open"
       THEN /\ wr' = [wr EXCEPT ![r] = "closed"]
            /\ \E n \in rd[r]..made[r] : made' = [made EXCEPT ![r] = n]
       ELSE UNCHANGED <<wr, made>>
    /\ UNCHANGED <<srv, task, eof, rd, out, linkVars>>

RunStep ==
    \/ \E r \in Ids : ReadRequest(r) \/ ReadData(r) \/ ReadClose(r)
    \/ LinkDown \/ LinkBack

-----------------------------------------------------------------------------
(* InlineWorker._handle_request.                                           *)

Goto(r, place) == task' = [task EXCEPT ![r] = place]

(* _parse_target finds no host: ERROR is to be sent.                       *)
CannotParse(r) ==
    /\ task[r] = "spawned"
    /\ Goto(r, "erroring")
    /\ UNCHANGED <<serverVars, active, targetVars, rd, out, linkVars>>

Connects(r) ==
    /\ task[r] = "spawned"
    /\ Goto(r, "connecting")
    /\ UNCHANGED <<serverVars, active, targetVars, rd, out, linkVars>>

(* open_connection fails, or takes more than 20 seconds.                   *)
Refused(r) ==
    /\ task[r] = "connecting"
    /\ Goto(r, "erroring")
    /\ UNCHANGED <<serverVars, active, targetVars, rd, out, linkVars>>

(* The writer is stored and the first chunk written.  It is never above    *)
(* the writer's high-water mark, so drain() does not wait.                 *)
Connected(r) ==
    /\ task[r] = "connecting"
    /\ active' = active \cup {r}
    /\ wr' = [wr EXCEPT ![r] = "open"]
    /\ Goto(r, "reading")
    /\ UNCHANGED <<serverVars, made, eof, rd, out, linkVars>>

(* drain() raises: the target has reset the connection already.  It stands *)
(* outside the try, so the task ends with the exception.                   *)
DrainRaises(r) ==
    /\ MayReset /\ task[r] = "connecting"
    /\ active' = active \cup {r}
    /\ wr' = [wr EXCEPT ![r] = "lost"]
    /\ Goto(r, "dead")
    /\ UNCHANGED <<serverVars, made, eof, rd, out, linkVars>>

(* Mutant: the task does not wait for the chunk it reads.                  *)
ReadsAhead(r) ==
    /\ task[r] = "reading"
    /\ rd[r] <= made[r] /\ wr[r] # "lost"
    /\ rd' = [rd EXCEPT ![r] = @ + 1]
    /\ Goto(r, "sending")
    /\ UNCHANGED <<serverVars, active, targetVars, out, linkVars>>

Reads(r) ==
    /\ task[r] = "reading"
    /\ rd[r] < made[r] /\ wr[r] # "lost"
    /\ rd' = [rd EXCEPT ![r] = @ + 1]
    /\ Goto(r, "sending")
    /\ UNCHANGED <<serverVars, active, targetVars, out, linkVars>>

Deliver(r, f) == out' = IF link = "up" THEN [out EXCEPT ![r] = Append(@, f)] ELSE out

(* _send_data returns, whether the chunk was sent or not.                  *)
SendData(r) ==
    /\ task[r] = "sending"
    /\ Deliver(r, rd[r])
    /\ Goto(r, "reading")
    /\ UNCHANGED <<serverVars, active, targetVars, rd, linkVars>>

(* Mutant: reads have no timeout.                                          *)
ReadEndsNoTimeout(r) ==
    /\ task[r] = "reading"
    /\ (rd[r] = made[r] /\ (eof[r] \/ wr[r] = "closed")) \/ wr[r] = "lost"
    /\ wr' = [wr EXCEPT ![r] = IF @ = "open" THEN "closed" ELSE @]
    /\ active' = active \ {r}
    /\ Goto(r, "ending")
    /\ UNCHANGED <<serverVars, made, eof, rd, out, linkVars>>

(* End of the response, 30 seconds without a chunk, a reset, or the writer *)
(* was closed by CLOSE: the finally block, up to its await.                *)
ReadEnds(r) ==
    /\ task[r] = "reading"
    /\ rd[r] = made[r] \/ wr[r] = "lost"
    /\ wr' = [wr EXCEPT ![r] = IF @ = "open" THEN "closed" ELSE @]
    /\ active' = active \ {r}
    /\ Goto(r, "ending")
    /\ UNCHANGED <<serverVars, made, eof, rd, out, linkVars>>

(* Mutant: END is sent and the loop goes on.                               *)
SendEndAndReads(r) ==
    /\ task[r] = "ending"
    /\ Deliver(r, END)
    /\ Goto(r, "reading")
    /\ UNCHANGED <<serverVars, active, targetVars, rd, linkVars>>

(* Mutant: END is for connections CLOSE has not closed before.             *)
SendEndIfOpen(r) ==
    /\ task[r] = "ending"
    /\ IF srv[r] = "closed" THEN UNCHANGED out ELSE Deliver(r, END)
    /\ Goto(r, "done")
    /\ UNCHANGED <<serverVars, active, targetVars, rd, linkVars>>

(* _send_end and _send_error return.                                       *)
SendEnd(r) ==
    /\ task[r] = "ending"
    /\ Deliver(r, END)
    /\ Goto(r, "done")
    /\ UNCHANGED <<serverVars, active, targetVars, rd, linkVars>>

SendError(r) ==
    /\ task[r] = "erroring"
    /\ Deliver(r, ERROR)
    /\ Goto(r, "done")
    /\ UNCHANGED <<serverVars, active, targetVars, rd, linkVars>>

TaskStep(r) ==
    \/ CannotParse(r) \/ Connects(r) \/ Refused(r) \/ Connected(r) \/ DrainRaises(r)
    \/ Reads(r) \/ SendData(r) \/ ReadEnds(r) \/ SendEnd(r) \/ SendError(r)

(* main, after SIGTERM: the run loop is cancelled and its connection       *)
(* closed; asyncio.run cancels every task.  Tasks in the try run their     *)
(* finally block, whose END finds no connection.                           *)
Stop ==
    /\ link # "stopped"
    /\ link' = "stopped" /\ chan' = <<>>
    /\ LET reading == {r \in Ids : task[r] \in {"reading", "sending"}}
       IN  /\ active' = active \ reading
           /\ wr' = [r \in Ids |-> IF r \in reading /\ wr[r] = "open" THEN "closed" ELSE wr[r]]
    /\ task' = [r \in Ids |-> IF task[r] \in {"none", "dead"} THEN task[r] ELSE "done"]
    /\ UNCHANGED <<srv, made, eof, rd, out, flaps>>

-----------------------------------------------------------------------------
Next ==
    \/ RunStep \/ Stop
    \/ \E r \in Ids : TaskStep(r) \/ ServerSends(r) \/ TargetAnswers(r) \/ TargetResets(r)
    \/ LinkDies

(* Whether the task awaits a chunk that may always come before the timeout.*)
ReadsOn(r) ==
    r \in Talkers /\ task[r] = "reading" /\ rd[r] = made[r] /\ wr[r] = "open" /\ ~eof[r]

(* The event loop runs every ready task and every timeout expires, but for *)
(* that of the reads from a target that never pauses.                      *)
Fairness ==
    /\ WF_vars(RunStep)
    /\ \A r \in Ids : WF_vars(TaskStep(r) /\ ~ReadsOn(r))

Spec == Init /\ [][Next]_vars /\ Fairness

-----------------------------------------------------------------------------
(* Properties.                                                             *)

(* Types of the frames, the tasks, the table, the writers and the link.    *)
TypeOK ==
    /\ srv \in [Ids -> {"none", "requested", "closed"}] /\ chan \in Seq(Frames)
    /\ task \in [Ids -> {"none", "spawned", "connecting", "reading", "sending", "ending",
                          "erroring", "done", "dead"}]
    /\ active \subseteq Ids
    /\ wr \in [Ids -> {"none", "open", "closed", "lost"}]
    /\ made \in [Ids -> 0..MaxResp] /\ eof \in [Ids -> BOOLEAN]
    /\ rd \in [Ids -> 0..MaxResp]
    /\ out \in [Ids -> Seq(1..ERROR)]
    /\ link \in {"up", "dying", "down", "stopped"} /\ flaps \in 0..MaxFlaps

(* CLOSE and the task's own finally block both pop and close a writer.  As *)
(* long as a writer is open CLOSE can find it in _active; an entry belongs *)
(* to a task that is reading a response, or to one that died in drain().   *)
NoLeak ==
    \A r \in Ids :
        /\ wr[r] = "open" => r \in active
        /\ r \in active => \/ task[r] \in {"reading", "sending"}
                           \/ task[r] = "dead" /\ wr[r] = "lost"

Answered(r) == Len(out[r]) > 0 /\ out[r][Len(out[r])] \in {END, ERROR}

(* Whatever comes between (CLOSE before, during and after the connection   *)
(* is made, resets, timeouts), a task that comes to its end while the link *)
(* holds has told the server, who closes the client.  A task killed by     *)
(* drain() (DrainRaises) does not come to its end.                         *)
EndIsTold == \A r \in Ids : task[r] = "done" => Answered(r) \/ flaps > 0 \/ link = "stopped"

(* A task ends when its target has ended, has reset or pauses for as long  *)
(* as the read timeout, also when CLOSE came before there was a writer to  *)
(* close.  Once CLOSE has found the writer the task ends whatever its      *)
(* target does.  One whose CLOSE came too early and whose target never     *)
(* pauses goes on for ever, for a client that is gone.                     *)
Ending(r) ==
    \/ task[r] = "spawned" /\ r \notin Talkers
    \/ task[r] \in {"reading", "sending"} /\ (r \notin active \/ eof[r] \/ wr[r] = "lost")

TasksEnd == \A r \in Ids : Ending(r) ~> task[r] \in {"done", "dead"}

(* What the server has seen of each request, in terms of WorkerEnd.        *)
Served ==
    [r \in Ids |-> IF Answered(r) THEN "ended"
                   ELSE IF srv[r] = "none" THEN "none" ELSE "serving"]
Given == [r \in Ids |-> IF Answered(r) THEN Len(out[r]) - 1 ELSE Len(out[r])]

Server == INSTANCE WorkerEnd WITH wk <- Served, data <- Given

(* The tasks keep the order the server relies on, although they share one  *)
(* connection, survive its loss and are never cancelled (_handle_request). *)
ServesRequests == Server!Spec
=============================================================================
