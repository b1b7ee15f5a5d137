------------------------------ MODULE TCPRelay ------------------------------
(***************************************************************************)
(* src/client/relay.py: the client's side of every relayed connection,     *)
(* driven by the frames the connector reads from the server.               *)
(*                                                                         *)
(* The connector's loop handles one frame at a time and awaits the         *)
(* handler.  REQUEST only schedules a task; that task creates the relay    *)
(* task, which connects to the upstream port, writes the first chunk and   *)
(* starts a pipe task for the response.  DATA is written by the            *)
(* connector's loop itself, and CLOSE cancels the two tasks.               *)
(*                                                                         *)
(* External: the server's frames, the upstream application and whether     *)
(* the connector's send() succeeds (link).                                 *)
(***************************************************************************)
EXTENDS Naturals, Sequences, FiniteSets

CONSTANTS
    Ids,        \* request ids
    NoId,
    Stallers,   \* upstream connections that may stop reading for good
    MayReset,   \* whether upstream connections may be reset
    MaxUp,      \* bound: DATA frames per request, after the first chunk
    MaxResp,    \* bound: response chunks per request
    ChanCap,    \* bound: frames from the server not yet handled
    HighWater,  \* chunks in a writer's buffer above which drain() waits
    MaxFlaps    \* bound: times the link goes down

ASSUME RelayAssumption ==
    /\ NoId \notin Ids /\ Stallers \subseteq Ids
    /\ MayReset \in BOOLEAN
    /\ MaxUp \in Nat /\ MaxResp \in Nat /\ ChanCap \in Nat /\ HighWater \in Nat
    /\ MaxFlaps \in Nat

VARIABLES
    srv,        \* next thing the server sends for each request
    chan,       \* frames of the server, in order
    hpc,        \* the id whose drain() the connector's loop awaits, or NoId
    loop, pipe, \* where the relay task and the pipe task of each id stand
    conns,      \* keys of _connections
    tasks,      \* ids whose relay task is in _tasks
    wr,         \* the upstream writer: "none", "open", "closed" or "lost"
    ub, upgot,  \* chunks in the writer's buffer; read by the upstream
    made, eof,  \* response chunks the upstream has produced; whether it ended
    rd,         \* response chunks the pipe has read
    out,        \* frames delivered to the server for each request
    link,       \* "up", "dying" (broken, nobody knows yet), "down", and
                \* when the client shuts down "stopping" and "stopped"
    flaps

serverVars == <<srv, chan>>
taskVars == <<loop, pipe>>
tableVars == <<conns, tasks>>
upVars == <<upgot, made, eof>>
linkVars == <<link, flaps>>
vars == <<serverVars, hpc, taskVars, tableVars, wr, ub, upVars, rd, out, linkVars>>

CLOSE == MaxUp + 1
Frames == [id : Ids, n : 0..CLOSE]      \* 0 is REQUEST, CLOSE the last one

END == MaxResp + 1
ERROR == MaxResp + 2

Init ==
    /\ srv = [r \in Ids |-> 0] /\ chan = <<>>
    /\ hpc = NoId
    /\ loop = [r \in Ids |-> "none"] /\ pipe = [r \in Ids |-> "none"]
    /\ conns = {} /\ tasks = {}
    /\ wr = [r \in Ids |-> "none"]
    /\ ub = [r \in Ids |-> <<>>] /\ upgot = [r \in Ids |-> <<>>]
    /\ made = [r \in Ids |-> 0] /\ eof = [r \in Ids |-> FALSE]
    /\ rd = [r \in Ids |-> 0]
    /\ out = [r \in Ids |-> <<>>]
    /\ link = "up" /\ flaps = 0

-----------------------------------------------------------------------------
(* The server and the upstream application (external).                     *)

(* REQUEST, then DATA frames, then CLOSE at any point.                     *)
ServerSends(r) ==
    /\ Len(chan) < ChanCap /\ link = "up"
    /\ srv[r] <= CLOSE
    /\ \/ /\ chan' = Append(chan, [id |-> r, n |-> srv[r]])
          /\ srv' = [srv EXCEPT ![r] = @ + 1]
       \/ /\ srv[r] \in 1..MaxUp
          /\ chan' = Append(chan, [id |-> r, n |-> CLOSE])
          /\ srv' = [srv EXCEPT ![r] = CLOSE + 1]
    /\ UNCHANGED <<hpc, taskVars, tableVars, wr, ub, upVars, rd, out, linkVars>>

UpstreamReads(r) ==
    /\ ub[r] # <<>>
    /\ ub' = [ub EXCEPT ![r] = Tail(@)]
    /\ upgot' = [upgot EXCEPT ![r] = Append(@, Head(ub[r]))]
    /\ UNCHANGED <<serverVars, hpc, taskVars, tableVars, wr, made, eof, rd, out, linkVars>>

UpstreamAnswers(r) ==
    /\ wr[r] = "open" /\ ~eof[r]
    /\ \/ made[r] < MaxResp /\ made' = [made EXCEPT ![r] = @ + 1] /\ UNCHANGED eof
       \/ eof' = [eof EXCEPT ![r] = TRUE] /\ UNCHANGED made
    /\ UNCHANGED <<serverVars, hpc, taskVars, tableVars, wr, ub, upgot, rd, out, linkVars>>

(* The upstream resets the connection: what it has not read is lost.       *)
UpstreamResets(r) ==
    /\ MayReset /\ wr[r] = "open"
    /\ wr' = [wr EXCEPT ![r] = "lost"]
    /\ ub' = [ub EXCEPT ![r] = <<>>]
    /\ UNCHANGED <<serverVars, hpc, taskVars, tableVars, upVars, rd, out, linkVars>>

(* The connection to the server breaks: frames in flight are lost both     *)
(* ways, and send() succeeds until the client finds out.                   *)
LinkDies ==
    /\ link = "up" /\ flaps < MaxFlaps
    /\ link' = "dying" /\ flaps' = flaps + 1
    /\ \E n \in 0..Len(chan) : chan' = SubSeq(chan, 1, n)
    /\ UNCHANGED <<srv, hpc, taskVars, tableVars, wr, ub, upVars, rd, out>>

LinkDown ==
    /\ link = "dying"
    /\ link' = "down" /\ chan' = <<>>
    /\ UNCHANGED <<flaps, srv, hpc, taskVars, tableVars, wr, ub, upVars, rd, out>>

(* run() dials again when _connect_and_listen has returned, so not while   *)
(* a handler it called still waits for a drain(), and reconnect_delay      *)
(* (5 seconds or more) later, when every send() to the old connection has  *)
(* returned.                                                               *)
LinkBack ==
    /\ link = "down" /\ hpc = NoId
    /\ \A r \in Ids : pipe[r] \notin {"sending", "ending"} /\ loop[r] # "erroring"
    /\ link' = "up"
    /\ UNCHANGED <<flaps, serverVars, hpc, taskVars, tableVars, wr, ub, upVars, rd, out>>

-----------------------------------------------------------------------------
(* TCPRelay.handle, called by the connector's loop.                        *)

Handling(r) == hpc = NoId /\ chan # <<>> /\ Head(chan).id = r
Arrived == Head(chan).n

(* REQUEST: create_task(_on_new_connection), which has not run yet.        *)
HandleRequest(r) ==
    /\ Handling(r) /\ Arrived = 0
    /\ chan' = Tail(chan)
    /\ loop' = [loop EXCEPT ![r] = "spawned"]
    /\ UNCHANGED <<srv, hpc, pipe, tableVars, wr, ub, upVars, rd, out, linkVars>>

(* Mutant: CLOSE is taken for DATA.                                        *)
HandleAnyAsData(r) ==
    /\ Handling(r) /\ Arrived \in 1..CLOSE
    /\ r \in conns /\ wr[r] = "open"
    /\ chan' = Tail(chan)
    /\ ub' = [ub EXCEPT ![r] = Append(@, Arrived)]
    /\ hpc' = IF Len(ub[r]) < HighWater THEN NoId ELSE r
    /\ UNCHANGED <<srv, taskVars, tableVars, wr, upVars, rd, out, linkVars>>

(* Mutant: DATA is written again after the drain.                          *)
HandleDataTwice(r) ==
    /\ Handling(r) /\ Arrived \in 1..MaxUp
    /\ r \in conns /\ wr[r] = "open"
    /\ chan' = Tail(chan)
    /\ ub' = [ub EXCEPT ![r] = @ \o <<Arrived, Arrived>>]
    /\ hpc' = r
    /\ UNCHANGED <<srv, taskVars, tableVars, wr, upVars, rd, out, linkVars>>

(* DATA with a writer: written, and the loop awaits drain().               *)
HandleData(r) ==
    /\ Handling(r) /\ Arrived \in 1..MaxUp
    /\ r \in conns /\ wr[r] = "open"
    /\ chan' = Tail(chan)
    /\ ub' = [ub EXCEPT ![r] = Append(@, Arrived)]
    /\ hpc' = IF Len(ub[r]) < HighWater THEN NoId ELSE r
    /\ UNCHANGED <<srv, taskVars, tableVars, wr, upVars, rd, out, linkVars>>

(* DATA without one: nothing happens.                                      *)
HandleDataDropped(r) ==
    /\ Handling(r) /\ Arrived \in 1..MaxUp
    /\ r \notin conns \/ wr[r] # "open"
    /\ chan' = Tail(chan)
    /\ UNCHANGED <<srv, hpc, taskVars, tableVars, wr, ub, upVars, rd, out, linkVars>>

DrainReturns ==
    /\ hpc # NoId
    /\ wr[hpc] # "lost" /\ Len(ub[hpc]) <= HighWater
    /\ hpc' = NoId
    /\ UNCHANGED <<serverVars, taskVars, tableVars, wr, ub, upVars, rd, out, linkVars>>

(* Mutant: only the pipe tasks are cancelled.                             *)
CloseKeepsTasks(R) ==
    /\ conns' = conns \ R /\ tasks' = tasks \ R
    /\ wr' = [r \in Ids |-> IF r \in R \cap conns /\ wr[r] = "open" THEN "closed" ELSE wr[r]]
    /\ pipe' = [r \in Ids |->
         IF r \in R \cap tasks /\ pipe[r] \in {"reading", "sending"} THEN "ending" ELSE pipe[r]]
    /\ UNCHANGED loop

(* _close_connection, for the ids of R.  Cancelled, a pipe that reads or   *)
(* sends swallows the cancellation and goes on to END; one that has not    *)
(* started, or is sending END, stops.  The relay task ends with its pipe,  *)
(* or without a word when it has none.  A task not in _tasks is left.      *)
CloseConnections(R) ==
    /\ conns' = conns \ R /\ tasks' = tasks \ R
    /\ wr' = [r \in Ids |-> IF r \in R \cap conns /\ wr[r] = "open" THEN "closed" ELSE wr[r]]
    /\ loop' = [r \in Ids |->
         IF r \in R \cap tasks /\ loop[r] \in {"connecting", "initial", "erroring"}
         THEN "done" ELSE loop[r]]
    /\ pipe' = [r \in Ids |->
         CASE r \in R \cap tasks /\ pipe[r] \in {"reading", "sending"} -> "ending"
           [] r \in R \cap tasks /\ pipe[r] \in {"scheduled", "ending"} -> "done"
           [] OTHER -> pipe[r]]

(* drain() raises when the upstream connection was reset.                  *)
DrainFails ==
    /\ hpc # NoId
    /\ wr[hpc] = "lost"
    /\ CloseConnections({hpc})
    /\ hpc' = NoId
    /\ UNCHANGED <<serverVars, ub, upVars, rd, out, linkVars>>

HandleClose(r) ==
    /\ Handling(r) /\ Arrived = CLOSE
    /\ chan' = Tail(chan)
    /\ CloseConnections({r})
    /\ UNCHANGED <<srv, hpc, ub, upVars, rd, out, linkVars>>

HandleStep ==
    \/ \E r \in Ids : \/ HandleRequest(r) \/ HandleData(r) \/ HandleDataDropped(r)
                      \/ HandleClose(r)
    \/ DrainReturns \/ DrainFails

-----------------------------------------------------------------------------
(* Shutdown: RelayClient.run after stop().                                 *)

(* ServerConnector.stop: the connection is being closed, send() fails from *)
(* here on, and frames that have arrived may still be handled.             *)
Stop ==
    /\ link \in {"up", "dying", "down"}
    /\ link' = "stopping"
    /\ \E n \in 0..Len(chan) : chan' = SubSeq(chan, 1, n)
    /\ UNCHANGED <<flaps, srv, hpc, taskVars, tableVars, wr, ub, upVars, rd, out>>

(* The close is over: cleanup_all, then the connector's task is cancelled, *)
(* wherever it stands.  Soon after that the process ends.                  *)
CleanUpAll ==
    /\ link = "stopping"
    /\ link' = "stopped" /\ chan' = <<>> /\ hpc' = NoId
    /\ CloseConnections(conns)
    /\ UNCHANGED <<flaps, srv, ub, upVars, rd, out>>

-----------------------------------------------------------------------------
(* The relay task and the pipe task.                                       *)

(* _on_new_connection creates the relay task and stores it.                *)
NewConnection(r) ==
    /\ loop[r] = "spawned"
    /\ loop' = [loop EXCEPT ![r] = "connecting"]
    /\ tasks' = tasks \cup {r}
    /\ UNCHANGED <<serverVars, hpc, pipe, conns, wr, ub, upVars, rd, out, linkVars>>

SchedulePipe(r) ==
    /\ loop' = [loop EXCEPT ![r] = "piping"]
    /\ pipe' = [pipe EXCEPT ![r] = "scheduled"]

(* open_connection succeeds: the writer is stored, the first chunk written *)
(* and drained.                                                            *)
Connected(r) ==
    /\ loop[r] = "connecting"
    /\ conns' = conns \cup {r}
    /\ wr' = [wr EXCEPT ![r] = "open"]
    /\ ub' = [ub EXCEPT ![r] = <<0>>]
    /\ IF HighWater > 0 THEN SchedulePipe(r)
       ELSE loop' = [loop EXCEPT ![r] = "initial"] /\ UNCHANGED pipe
    /\ UNCHANGED <<serverVars, hpc, tasks, upVars, rd, out, linkVars>>

(* open_connection fails: ERROR is sent.                                   *)
Refused(r) ==
    /\ loop[r] = "connecting"
    /\ loop' = [loop EXCEPT ![r] = "erroring"]
    /\ UNCHANGED <<serverVars, hpc, pipe, tableVars, wr, ub, upVars, rd, out, linkVars>>

(* The awaited drain() of the first chunk returns, or raises.              *)
InitialDrained(r) ==
    /\ loop[r] = "initial"
    /\ wr[r] # "lost" /\ Len(ub[r]) <= HighWater
    /\ SchedulePipe(r)
    /\ UNCHANGED <<serverVars, hpc, tableVars, wr, ub, upVars, rd, out, linkVars>>

InitialFails(r) ==
    /\ loop[r] = "initial" /\ wr[r] = "lost"
    /\ loop' = [loop EXCEPT ![r] = "erroring"]
    /\ UNCHANGED <<serverVars, hpc, pipe, tableVars, wr, ub, upVars, rd, out, linkVars>>

PipeStarts(r) ==
    /\ pipe[r] = "scheduled"
    /\ pipe' = [pipe EXCEPT ![r] = "reading"]
    /\ UNCHANGED <<serverVars, hpc, loop, tableVars, wr, ub, upVars, rd, out, linkVars>>

(* The pipe reads a chunk and sends it.                                    *)
PipeReads(r) ==
    /\ pipe[r] = "reading" /\ rd[r] < made[r] /\ wr[r] = "open"
    /\ rd' = [rd EXCEPT ![r] = @ + 1]
    /\ pipe' = [pipe EXCEPT ![r] = "sending"]
    /\ UNCHANGED <<serverVars, hpc, loop, tableVars, wr, ub, upVars, out, linkVars>>

Deliver(r, f) ==
    out' = IF link = "up" THEN [out EXCEPT ![r] = Append(@, f)] ELSE out

(* Mutant: one chunk is read and sent, not all of them.                    *)
PipeSentOnce(r) ==
    /\ pipe[r] = "sending"
    /\ Deliver(r, rd[r])
    /\ pipe' = [pipe EXCEPT ![r] = "ending"]
    /\ UNCHANGED <<serverVars, hpc, loop, tableVars, wr, ub, upVars, rd, linkVars>>

(* send() returns; False, when the client knows that the link is down or   *)
(* has closed it, ends the loop.                                           *)
PipeSent(r) ==
    /\ pipe[r] = "sending"
    /\ Deliver(r, rd[r])
    /\ pipe' = [pipe EXCEPT ![r] = IF link \in {"up", "dying"} THEN "reading" ELSE "ending"]
    /\ UNCHANGED <<serverVars, hpc, loop, tableVars, wr, ub, upVars, rd, linkVars>>

(* Mutant: the end of the response is not noticed.                         *)
PipeEofOnReset(r) ==
    /\ pipe[r] = "reading"
    /\ wr[r] = "lost"
    /\ pipe' = [pipe EXCEPT ![r] = "ending"]
    /\ UNCHANGED <<serverVars, hpc, loop, tableVars, wr, ub, upVars, rd, out, linkVars>>

(* End of the response, or a reset.                                        *)
PipeEof(r) ==
    /\ pipe[r] = "reading"
    /\ (eof[r] /\ rd[r] = made[r]) \/ wr[r] = "lost"
    /\ pipe' = [pipe EXCEPT ![r] = "ending"]
    /\ UNCHANGED <<serverVars, hpc, loop, tableVars, wr, ub, upVars, rd, out, linkVars>>

(* Mutant: after END the pipe goes on reading.                             *)
PipeEndsAndReads(r) ==
    /\ pipe[r] = "ending"
    /\ Deliver(r, END)
    /\ pipe' = [pipe EXCEPT ![r] = "reading"]
    /\ UNCHANGED <<serverVars, hpc, loop, tableVars, wr, ub, upVars, rd, linkVars>>

(* END is sent, or lost with the link.                                     *)
PipeEnds(r) ==
    /\ pipe[r] = "ending"
    /\ Deliver(r, END)
    /\ pipe' = [pipe EXCEPT ![r] = "done"]
    /\ UNCHANGED <<serverVars, hpc, loop, tableVars, wr, ub, upVars, rd, linkVars>>

(* Mutant: the tasks are not removed.                                      *)
CleanUpKeepsTasks(r) ==
    /\ wr' = IF wr[r] = "open" THEN [wr EXCEPT ![r] = "closed"] ELSE wr
    /\ conns' = conns \ {r}
    /\ loop' = [loop EXCEPT ![r] = "done"]
    /\ UNCHANGED tasks

(* The finally block of the relay task.                                    *)
CleanUp(r) ==
    /\ wr' = IF wr[r] = "open" THEN [wr EXCEPT ![r] = "closed"] ELSE wr
    /\ conns' = conns \ {r} /\ tasks' = tasks \ {r}
    /\ loop' = [loop EXCEPT ![r] = "done"]

PipeJoined(r) ==
    /\ loop[r] = "piping" /\ pipe[r] = "done"
    /\ CleanUp(r)
    /\ UNCHANGED <<serverVars, hpc, pipe, ub, upVars, rd, out, linkVars>>

ErrorSent(r) ==
    /\ loop[r] = "erroring"
    /\ Deliver(r, ERROR)
    /\ CleanUp(r)
    /\ UNCHANGED <<serverVars, hpc, pipe, ub, upVars, rd, linkVars>>

TaskStep(r) ==
    \/ NewConnection(r) \/ Connected(r) \/ Refused(r)
    \/ InitialDrained(r) \/ InitialFails(r)
    \/ PipeStarts(r) \/ PipeReads(r) \/ PipeSent(r) \/ PipeEof(r) \/ PipeEnds(r)
    \/ PipeJoined(r) \/ ErrorSent(r)

-----------------------------------------------------------------------------
Next ==
    \/ HandleStep
    \/ \E r \in Ids : \/ TaskStep(r)
                      \/ ServerSends(r)
                      \/ UpstreamReads(r) \/ UpstreamAnswers(r) \/ UpstreamResets(r)
    \/ LinkDies \/ LinkDown \/ LinkBack
    \/ Stop \/ CleanUpAll

(* The event loop runs every ready task, until the process ends;           *)
(* open_connection answers; the close of the connection ends.  An upstream *)
(* reads if it is not one of the Stallers; it need not answer or end.      *)
Fairness ==
    /\ WF_vars(HandleStep) /\ WF_vars(CleanUpAll)
    /\ \A r \in Ids :
        /\ WF_vars(link # "stopped" /\ TaskStep(r))
        /\ WF_vars(r \notin Stallers /\ UpstreamReads(r))

Spec == Init /\ [][Next]_vars /\ Fairness

-----------------------------------------------------------------------------
(* Properties.                                                             *)

(* Types of the frames, the tables, both tasks of a request and the link.  *)
TypeOK ==
    /\ srv \in [Ids -> 0..CLOSE + 1] /\ chan \in Seq(Frames)
    /\ hpc \in Ids \cup {NoId}
    /\ loop \in [Ids -> {"none", "spawned", "connecting", "initial", "piping",
                          "erroring", "done"}]
    /\ pipe \in [Ids -> {"none", "scheduled", "reading", "sending", "ending", "done"}]
    /\ conns \subseteq Ids /\ tasks \subseteq Ids
    /\ wr \in [Ids -> {"none", "open", "closed", "lost"}]
    /\ ub \in [Ids -> Seq(0..MaxUp)] /\ upgot \in [Ids -> Seq(0..MaxUp)]
    /\ made \in [Ids -> 0..MaxResp] /\ eof \in [Ids -> BOOLEAN]
    /\ rd \in [Ids -> 0..MaxResp]
    /\ out \in [Ids -> Seq(1..ERROR)]
    /\ link \in {"up", "dying", "down", "stopping", "stopped"}
    /\ flaps \in 0..MaxFlaps

(* What the server receives for a request is DATA in the order of the      *)
(* response, then at most one END or ERROR, and ERROR only without DATA:   *)
(* whatever races of CLOSE, reset, refusal and reconnection, nothing       *)
(* follows END and no chunk comes twice.                                   *)
ResponseOrdered ==
    \A r \in Ids :
        /\ \A i, j \in 1..Len(out[r]) : i < j => out[r][i] < out[r][j] /\ out[r][i] < END
        /\ ERROR \in {out[r][i] : i \in 1..Len(out[r])} => rd[r] = 0

(* The upstream reads the chunks of the upload in order and none twice,    *)
(* although the first is written by the relay task and the others by the   *)
(* connector's loop.                                                       *)
UploadOrdered ==
    \A r \in Ids : LET got == upgot[r] \o ub[r]
                   IN  \A i, j \in 1..Len(got) : i < j => got[i] < got[j]

(* Four code paths tear a connection down: CLOSE, a failed drain, the      *)
(* relay task's finally block and the shutdown.  When the relay task is    *)
(* over its entries are gone, its writer is not open and its pipe is not   *)
(* running; an entry always belongs to a live relay task.                  *)
NoLeak ==
    \A r \in Ids :
        /\ loop[r] = "done" => /\ r \notin conns \cup tasks
                               /\ wr[r] # "open"
                               /\ pipe[r] \in {"none", "done"}
        /\ r \in conns => r \in tasks /\ loop[r] \in {"initial", "piping", "erroring"}
        /\ r \in tasks => loop[r] # "spawned"

(* END tells the server that the response is complete.  Unless the server  *)
(* itself asked to close, the upstream was reset or the link broke, it is  *)
(* true: every chunk the upstream produced has been delivered before END.  *)
EndMeansComplete ==
    \A r \in Ids :
        END \in {out[r][i] : i \in 1..Len(out[r])}
            => \/ srv[r] > CLOSE \/ wr[r] = "lost" \/ flaps > 0
               \/ eof[r] /\ Len(out[r]) = made[r] + 1

(* The relay task of a connection the upstream has ended finishes once its *)
(* first chunk has drained, in spite of broken links, cancellations and    *)
(* failed drains, and whether or not the upstream ever reads on.           *)
UpstreamEndIsFinal ==
    \A r \in Ids : eof[r] /\ loop[r] # "initial" ~> loop[r] = "done" \/ link = "stopped"

(* While the connector's loop comes back from every drain(), CLOSE for a   *)
(* connection whose task is registered tears it down: the task may be      *)
(* connecting, draining its first chunk into an upstream that never reads, *)
(* about to start its pipe or sending an ERROR, and its upstream may just  *)
(* have been reset.  A loop that stays in the drain() of DATA, behind such *)
(* an upstream, handles no CLOSE, of whatever connection.                  *)
CloseTearsDown ==
    []<>(hpc = NoId) =>
        \A r \in Ids :
            r \in tasks /\ chan # <<>> /\ Head(chan) = [id |-> r, n |-> CLOSE]
                ~> loop[r] = "done" \/ flaps > 0 \/ link = "stopped"

(* "forwards all bytes bidirectionally without modification": what the     *)
(* upstream reads starts with everything the client sent, without a hole.  *)
UploadHasNoHole ==
    \A r \in Ids : LET got == upgot[r] \o ub[r]
                   IN  \A i \in 1..Len(got) : got[i] = i - 1

(* What the server has seen of each request, in terms of WorkerEnd.        *)
Answered(r) == Len(out[r]) > 0 /\ out[r][Len(out[r])] \in {END, ERROR}
Served ==
    [r \in Ids |-> IF Answered(r) THEN "ended"
                   ELSE IF srv[r] = 0 THEN "none" ELSE "serving"]
Given == [r \in Ids |-> IF Answered(r) THEN Len(out[r]) - 1 ELSE Len(out[r])]

Server == INSTANCE WorkerEnd WITH wk <- Served, data <- Given

(* Two tasks per request and the connector's loop, with cancellations that *)
(* are swallowed and a link that breaks, still give the server what        *)
(* relay_server.py relies on: nothing before REQUEST or after END or ERROR.*)
ServesRequests == Server!Spec
=============================================================================
