--------------------------- MODULE TCPRelayProofs ---------------------------
(***************************************************************************)
(* Proofs about TCPRelay: its tables are clean, what it sends is ordered   *)
(* and complete where it says so, and it serves requests the way WorkerEnd *)
(* says.                                                                   *)
(***************************************************************************)
EXTENDS TCPRelay, TLAPS

(* The stages of a relay task: before it has a writer; without a pipe.     *)
Before == {"none", "spawned", "connecting"}
NoPipe == {"none", "spawned", "connecting", "initial", "erroring"}

(* The channel holds what the server has sent, in order, and a REQUEST     *)
(* until its task is made.                                                 *)
ChanInv ==
    /\ \A i \in 1..Len(chan) : chan[i].n < srv[chan[i].id]
    /\ \A i \in 1..Len(chan) : chan[i].n = 0 => loop[chan[i].id] = "none"
    /\ \A i, j \in 1..Len(chan) :
         i < j /\ chan[i].id = chan[j].id => chan[i].n < chan[j].n

(* Where the writer, the pipe and the table entries may be, stage by stage *)
(* of the relay task.                                                      *)
StageOf(r) ==
    /\ srv[r] = 0 => loop[r] = "none"
    /\ loop[r] \in Before => /\ wr[r] = "none" /\ made[r] = 0 /\ ~eof[r]
                             /\ ub[r] = <<>> /\ upgot[r] = <<>>
    /\ loop[r] \in NoPipe => pipe[r] = "none" /\ out[r] = <<>> /\ rd[r] = 0
    /\ loop[r] \in {"connecting", "initial", "erroring"} => r \in tasks
    /\ loop[r] = "initial" => r \in conns
    /\ loop[r] = "erroring" => wr[r] # "open"
    /\ loop[r] = "piping" => pipe[r] # "none"
    /\ r \in tasks => loop[r] \notin {"none", "spawned"}

(* NoLeak, of one request.                                                 *)
LeakOf(r) ==
    /\ loop[r] = "done" => /\ r \notin conns /\ r \notin tasks
                           /\ wr[r] # "open"
                           /\ pipe[r] \in {"none", "done"}
    /\ r \in conns => r \in tasks /\ loop[r] \in {"initial", "piping", "erroring"}
    /\ r \in tasks => loop[r] # "spawned"

(* The response: chunks that were read, in order, then END from the pipe   *)
(* or ERROR from a relay task without one.                                 *)
ResponseOf(r) ==
    /\ \A i, j \in 1..Len(out[r]) : i < j => out[r][i] < out[r][j] /\ out[r][i] < END
    /\ \A i \in 1..Len(out[r]) : \/ out[r][i] <= rd[r]
                                 \/ out[r][i] = END /\ pipe[r] = "done"
                                 \/ out[r][i] = ERROR /\ loop[r] = "done" /\ pipe[r] = "none"
    /\ pipe[r] = "sending" => rd[r] > 0 /\ \A i \in 1..Len(out[r]) : out[r][i] < rd[r]
    /\ pipe[r] = "none" => rd[r] = 0
    /\ rd[r] <= made[r]

(* While the link holds everything read has been delivered, and a pipe     *)
(* comes to its end for a reason.                                          *)
Linked == flaps = 0 /\ link = "up"
CompleteOf(r) ==
    /\ pipe[r] = "scheduled" => out[r] = <<>> /\ rd[r] = 0
    /\ pipe[r] = "reading" => Len(out[r]) = rd[r]
    /\ pipe[r] = "sending" => Len(out[r]) + 1 = rd[r]
    /\ pipe[r] = "ending" => \/ srv[r] > CLOSE \/ wr[r] = "lost"
                             \/ eof[r] /\ rd[r] = made[r] /\ Len(out[r]) = rd[r]

(* EndMeansComplete, of one request.                                       *)
EndOf(r) ==
    \A i \in 1..Len(out[r]) : out[r][i] = END
        => \/ srv[r] > CLOSE \/ wr[r] = "lost" \/ flaps > 0
           \/ eof[r] /\ Len(out[r]) = made[r] + 1

LocalOf(r) == StageOf(r) /\ LeakOf(r) /\ ResponseOf(r) /\ (Linked => CompleteOf(r)) /\ EndOf(r)
Local == \A r \in Ids : LocalOf(r)

LinkInv == flaps = 0 => link \in {"up", "stopping", "stopped"}

(* The chunks of an upload are written in order, each before the next one  *)
(* is taken from the channel.                                              *)
Rising(s) == \A i, j \in 1..Len(s) : i < j => s[i] < s[j]
Below(s, n) == \A i \in 1..Len(s) : s[i] < n
Follows(s, t) == \A i \in 1..Len(s), j \in 1..Len(t) : s[i] < t[j]

UploadOf(r) ==
    /\ Rising(upgot[r]) /\ Rising(ub[r]) /\ Follows(upgot[r], ub[r])
    /\ Below(upgot[r], srv[r]) /\ Below(ub[r], srv[r])
    /\ \A k \in 1..Len(chan) : chan[k].id = r =>
         Below(upgot[r], chan[k].n) /\ Below(ub[r], chan[k].n)
Uploads == \A r \in Ids : UploadOf(r)

IInv == TypeOK /\ ChanInv /\ LinkInv /\ Local /\ Uploads
-----------------------------------------------------------------------------
(* Facts about sequences.                                                  *)

LEMMA Elements ==
    ASSUME NEW S, NEW s \in Seq(S)
    PROVE  Len(s) \in Nat /\ \A i \in 1..Len(s) : s[i] \in S
  OBVIOUS

LEMMA Appended ==
    ASSUME NEW S, NEW s \in Seq(S), NEW v \in S
    PROVE  /\ Append(s, v) \in Seq(S) /\ Len(s) \in Nat /\ Len(Append(s, v)) = Len(s) + 1
           /\ Append(s, v)[Len(s) + 1] = v
           /\ \A i \in 1..Len(s) : Append(s, v)[i] = s[i]
           /\ \A i \in 1..(Len(s) + 1) : i \in 1..Len(s) \/ i = Len(s) + 1
  OBVIOUS

LEMMA Shifted ==
    ASSUME NEW S, NEW s \in Seq(S), s # <<>>
    PROVE  /\ Tail(s) \in Seq(S) /\ Len(Tail(s)) = Len(s) - 1 /\ Len(s) \in Nat \ {0}
           /\ Head(s) = s[1] /\ Head(s) \in S /\ 1 \in 1..Len(s)
           /\ \A i \in 1..Len(Tail(s)) : Tail(s)[i] = s[i + 1] /\ i + 1 \in 1..Len(s)
  OBVIOUS

LEMMA Cut ==
    ASSUME NEW S, NEW s \in Seq(S), NEW n \in 0..Len(s)
    PROVE  /\ SubSeq(s, 1, n) \in Seq(S) /\ Len(SubSeq(s, 1, n)) = n
           /\ \A i \in 1..n : SubSeq(s, 1, n)[i] = s[i] /\ i \in 1..Len(s)
  OBVIOUS

LEMMA Joined ==
    ASSUME NEW S, NEW s \in Seq(S), NEW t \in Seq(S)
    PROVE  /\ Len(s) \in Nat /\ Len(t) \in Nat /\ Len(s \o t) = Len(s) + Len(t)
           /\ \A i \in 1..Len(s) : (s \o t)[i] = s[i]
           /\ \A i \in (Len(s) + 1)..(Len(s) + Len(t)) : (s \o t)[i] = t[i - Len(s)]
  OBVIOUS

LEMMA Bounds ==
    /\ MaxUp \in Nat /\ MaxResp \in Nat /\ MaxFlaps \in Nat /\ HighWater \in Nat /\ NoId \notin Ids
    /\ CLOSE = MaxUp + 1 /\ END = MaxResp + 1 /\ ERROR = MaxResp + 2
    /\ \A f \in Frames : f.id \in Ids /\ f.n \in 0..CLOSE
    /\ \A r \in Ids, n \in 0..CLOSE : [id |-> r, n |-> n] \in Frames
  BY RelayAssumption DEF CLOSE, END, ERROR, Frames

-----------------------------------------------------------------------------
(* What a step of one request does to another, and to the link.            *)
Same(r) ==
    /\ srv'[r] = srv[r] /\ loop'[r] = loop[r] /\ pipe'[r] = pipe[r]
    /\ r \in conns' <=> r \in conns
    /\ r \in tasks' <=> r \in tasks
    /\ wr'[r] = wr[r] /\ ub'[r] = ub[r] /\ upgot'[r] = upgot[r]
    /\ made'[r] = made[r] /\ eof'[r] = eof[r] /\ rd'[r] = rd[r] /\ out'[r] = out[r]

Receives(r) == HandleRequest(r) \/ HandleData(r) \/ HandleDataDropped(r) \/ HandleClose(r)

StepOf(r) ==
    \/ ServerSends(r) \/ UpstreamReads(r) \/ UpstreamAnswers(r) \/ UpstreamResets(r)
    \/ Receives(r)
    \/ hpc = r /\ DrainFails
    \/ TaskStep(r)

(* Steps of no request.                                                    *)
Elsewhere == LinkDies \/ LinkDown \/ LinkBack \/ Stop \/ DrainReturns

LEMMA Steps ==
    ASSUME TypeOK, Next
    PROVE  (\E r \in Ids : StepOf(r)) \/ Elsewhere \/ CleanUpAll
<1>1. DrainFails => hpc \in Ids
  BY DEF DrainFails, TypeOK
<1>2. DrainFails => \E r \in Ids : StepOf(r)
  BY <1>1 DEF StepOf
<1>3. CASE HandleStep
  <2>1. ASSUME NEW r \in Ids, HandleRequest(r) \/ HandleData(r) \/ HandleDataDropped(r)
                               \/ HandleClose(r)
        PROVE  StepOf(r)
    BY <2>1 DEF StepOf, Receives
  <2>2. CASE DrainReturns
    BY <2>2 DEF Elsewhere
  <2> QED BY <1>2, <1>3, <2>1, <2>2 DEF HandleStep
<1>4. CASE \E r \in Ids : \/ TaskStep(r) \/ ServerSends(r)
                          \/ UpstreamReads(r) \/ UpstreamAnswers(r) \/ UpstreamResets(r)
  BY <1>4 DEF StepOf
<1> QED BY <1>3, <1>4 DEF Next, Elsewhere

LEMMA OthersSame ==
    ASSUME TypeOK, NEW r \in Ids, NEW s \in Ids, s # r, StepOf(r)
    PROVE  Same(s)
<1> USE DEF Same, TypeOK, serverVars, taskVars, tableVars, upVars, linkVars
<1>1. CASE ServerSends(r) \/ UpstreamReads(r) \/ UpstreamAnswers(r) \/ UpstreamResets(r)
  BY <1>1 DEF ServerSends, UpstreamReads, UpstreamAnswers, UpstreamResets
<1>2. CASE HandleRequest(r) \/ HandleData(r) \/ HandleDataDropped(r)
  BY <1>2 DEF HandleRequest, HandleData, HandleDataDropped
<1>3. CASE HandleClose(r) \/ (hpc = r /\ DrainFails)
  <2>1. CloseConnections({r})
    BY <1>3 DEF HandleClose, DrainFails
  <2>2. /\ srv' = srv /\ ub' = ub /\ upgot' = upgot /\ made' = made /\ eof' = eof
        /\ rd' = rd /\ out' = out
    BY <1>3 DEF HandleClose, DrainFails
  <2> QED BY <2>1, <2>2 DEF CloseConnections
<1>4. CASE NewConnection(r) \/ Connected(r) \/ Refused(r) \/ InitialDrained(r) \/ InitialFails(r)
  <2>1. CASE NewConnection(r) \/ Refused(r) \/ InitialFails(r)
    BY <2>1 DEF NewConnection, Refused, InitialFails
  <2>2. CASE Connected(r) \/ InitialDrained(r)
    BY <2>2 DEF Connected, InitialDrained, SchedulePipe
  <2> QED BY <1>4, <2>1, <2>2
<1>5. CASE PipeStarts(r) \/ PipeReads(r) \/ PipeSent(r) \/ PipeEof(r) \/ PipeEnds(r)
  <2>1. CASE PipeStarts(r) \/ PipeReads(r) \/ PipeEof(r)
    BY <2>1 DEF PipeStarts, PipeReads, PipeEof
  <2>2. CASE PipeSent(r) \/ PipeEnds(r)
    BY <2>2 DEF PipeSent, PipeEnds, Deliver
  <2> QED BY <1>5, <2>1, <2>2
<1>6. CASE PipeJoined(r) \/ ErrorSent(r)
  BY <1>6 DEF PipeJoined, ErrorSent, CleanUp, Deliver
<1> QED BY <1>1, <1>2, <1>3, <1>4, <1>5, <1>6 DEF StepOf, Receives, TaskStep

LEMMA ElsewhereSame == ASSUME NEW r \in Ids, Elsewhere PROVE Same(r)
  BY DEF Elsewhere, LinkDies, LinkDown, LinkBack, Stop, DrainReturns, Same,
         serverVars, taskVars, tableVars, upVars, linkVars

(* Failures are counted, and a link that has failed is not taken for one   *)
(* that has not.                                                           *)
LEMMA LinkStep ==
    ASSUME TypeOK, LinkInv, Next
    PROVE  LinkInv' /\ flaps' \in 0..MaxFlaps /\ flaps' >= flaps /\ (Linked' => Linked)
<1> USE DEF TypeOK, LinkInv, Linked, linkVars
<1>1. CASE \E r \in Ids : StepOf(r)
  <2>1. UNCHANGED <<link, flaps>>
    BY <1>1 DEF StepOf, Receives, TaskStep, ServerSends, UpstreamReads, UpstreamAnswers,
         UpstreamResets, HandleRequest, HandleData, HandleDataDropped, HandleClose, DrainFails,
         NewConnection, Connected, Refused, InitialDrained, InitialFails, PipeStarts, PipeReads,
         PipeSent, PipeEof, PipeEnds, PipeJoined, ErrorSent
  <2> QED BY <2>1
<1>2. CASE Elsewhere \/ CleanUpAll
  BY <1>2, Bounds DEF Elsewhere, LinkDies, LinkDown, LinkBack, Stop, DrainReturns, CleanUpAll
<1> QED BY <1>1, <1>2, Steps

LEMMA LinkLasts ==
    ASSUME TypeOK, LinkInv, Next
    PROVE  flaps' \in Nat /\ flaps \in Nat /\ flaps' >= flaps /\ (Linked' => Linked)
<1>1. flaps' \in 0..MaxFlaps /\ flaps' >= flaps /\ (Linked' => Linked)
  BY LinkStep
<1>2. flaps \in 0..MaxFlaps
  BY DEF TypeOK
<1>3. \A n \in 0..MaxFlaps : n \in Nat
  BY Bounds
<1> QED BY <1>1, <1>2, <1>3

-----------------------------------------------------------------------------
(* Types.                                                                  *)

(* A chunk that is sent has been read.                                     *)
LEMMA ChunkInHand ==
    ASSUME TypeOK, NEW r \in Ids, LocalOf(r), pipe[r] = "sending"
    PROVE  rd[r] \in 1..MaxResp /\ rd[r] \in 1..ERROR /\ rd[r] # END /\ rd[r] # ERROR
<1>1. rd[r] \in 0..MaxResp /\ rd[r] > 0
  BY DEF LocalOf, ResponseOf, TypeOK
<1>2. MaxResp \in Nat /\ END = MaxResp + 1 /\ ERROR = MaxResp + 2
  BY Bounds
<1> QED BY <1>1, <1>2

LEMMA SentTypes ==
    ASSUME TypeOK, NEW r \in Ids, NEW f \in 1..ERROR, Deliver(r, f)
    PROVE  out' \in [Ids -> Seq(1..ERROR)]
<1>1. Append(out[r], f) \in Seq(1..ERROR)
  BY Appended DEF TypeOK
<1> QED BY <1>1 DEF Deliver, TypeOK

LEMMA ClosedTypes ==
    ASSUME TypeOK, NEW R, CloseConnections(R)
    PROVE  /\ loop' \in [Ids -> {"none", "spawned", "connecting", "initial", "piping",
                                 "erroring", "done"}]
           /\ pipe' \in [Ids -> {"none", "scheduled", "reading", "sending", "ending", "done"}]
           /\ conns' \subseteq Ids /\ tasks' \subseteq Ids
           /\ wr' \in [Ids -> {"none", "open", "closed", "lost"}]
<1> USE DEF TypeOK, CloseConnections
<1>1. loop' \in [Ids -> {"none", "spawned", "connecting", "initial", "piping",
                         "erroring", "done"}]
  OBVIOUS
<1>2. ASSUME NEW r \in Ids
      PROVE  pipe'[r] \in {"none", "scheduled", "reading", "sending", "ending", "done"}
  <2>1. pipe'[r] \in {"ending", "done", pipe[r]}
    OBVIOUS
  <2> QED BY <2>1
<1>3. pipe' \in [Ids -> {"none", "scheduled", "reading", "sending", "ending", "done"}]
  BY <1>2
<1>4. wr' \in [Ids -> {"none", "open", "closed", "lost"}]
  OBVIOUS
<1> QED BY <1>1, <1>3, <1>4

LEMMA CutTypes == ASSUME TypeOK PROVE \A n \in 0..Len(chan) : SubSeq(chan, 1, n) \in Seq(Frames)
  BY Cut DEF TypeOK

LEMMA TypeStep ==
    ASSUME TypeOK, Local, LinkInv, Next
    PROVE  TypeOK'
<1> USE DEF serverVars, taskVars, tableVars, upVars, linkVars
<1>0. flaps' \in 0..MaxFlaps
  BY LinkStep
<1>1. ASSUME NEW r \in Ids, ServerSends(r) PROVE TypeOK'
  <2>1. srv[r] \in 0..CLOSE /\ CLOSE \in 0..CLOSE
    BY <1>1, Bounds DEF ServerSends, TypeOK
  <2>2. \A n \in 0..CLOSE : Append(chan, [id |-> r, n |-> n]) \in Seq(Frames)
    BY Bounds, Appended DEF TypeOK
  <2>3. chan' \in Seq(Frames)
    BY <1>1, <2>1, <2>2 DEF ServerSends
  <2>4. CLOSE \in Nat
    BY Bounds
  <2>5. srv[r] + 1 \in 0..CLOSE + 1 /\ CLOSE + 1 \in 0..CLOSE + 1
    BY <2>1, <2>4
  <2>6. srv' \in [Ids -> 0..CLOSE + 1]
    BY <1>1, <2>5 DEF ServerSends, TypeOK
  <2> QED BY <1>1, <2>3, <2>6 DEF ServerSends, TypeOK
<1>2. ASSUME NEW r \in Ids, UpstreamReads(r) \/ UpstreamAnswers(r) \/ UpstreamResets(r)
      PROVE  TypeOK'
  <2>1. CASE UpstreamReads(r)
    <3>1. Tail(ub[r]) \in Seq(0..MaxUp) /\ Append(upgot[r], Head(ub[r])) \in Seq(0..MaxUp)
      BY <2>1, Shifted, Appended DEF UpstreamReads, TypeOK
    <3> QED BY <2>1, <3>1 DEF UpstreamReads, TypeOK
  <2>2. CASE UpstreamAnswers(r)
    <3>0. made[r] \in 0..MaxResp /\ MaxResp \in Nat
      BY Bounds DEF TypeOK
    <3>1. made[r] < MaxResp => made[r] + 1 \in 0..MaxResp
      BY <3>0
    <3> QED BY <2>2, <3>1 DEF UpstreamAnswers, TypeOK
  <2>3. CASE UpstreamResets(r)
    <3>1. <<>> \in Seq(0..MaxUp)
      OBVIOUS
    <3> QED BY <2>3, <3>1 DEF UpstreamResets, TypeOK
  <2> QED BY <1>2, <2>1, <2>2, <2>3
<1>3. ASSUME NEW r \in Ids, Receives(r) PROVE TypeOK'
  <2>1. chan # <<>>
    BY <1>3 DEF Receives, HandleRequest, HandleData, HandleDataDropped, HandleClose, Handling
  <2>2. Tail(chan) \in Seq(Frames)
    BY <2>1, Shifted DEF TypeOK
  <2>3. CASE HandleRequest(r)
    BY <2>2, <2>3 DEF HandleRequest, TypeOK
  <2>4. CASE HandleData(r)
    <3>1. Append(ub[r], Arrived) \in Seq(0..MaxUp)
      BY <2>4, Bounds, Appended DEF HandleData, TypeOK
    <3> QED BY <2>2, <2>4, <3>1 DEF HandleData, TypeOK
  <2>5. CASE HandleDataDropped(r)
    BY <2>2, <2>5 DEF HandleDataDropped, TypeOK
  <2>6. CASE HandleClose(r)
    BY <2>2, <2>6, ClosedTypes DEF HandleClose, TypeOK
  <2> QED BY <1>3, <2>3, <2>4, <2>5, <2>6 DEF Receives
<1>4. ASSUME DrainFails PROVE TypeOK'
  BY <1>4, ClosedTypes DEF DrainFails, TypeOK
<1>5. ASSUME NEW r \in Ids, TaskStep(r) PROVE TypeOK'
  <2>1. CASE NewConnection(r) \/ Refused(r) \/ InitialDrained(r) \/ InitialFails(r)
    BY <2>1 DEF NewConnection, Refused, InitialDrained, InitialFails, SchedulePipe, TypeOK
  <2>2. CASE Connected(r)
    <3>1. <<0>> \in Seq(0..MaxUp)
      BY Bounds
    <3> QED BY <2>2, <3>1 DEF Connected, SchedulePipe, TypeOK
  <2>3. CASE PipeStarts(r) \/ PipeEof(r)
    BY <2>3 DEF PipeStarts, PipeEof, TypeOK
  <2>4. CASE PipeReads(r)
    <3>0. rd[r] \in 0..MaxResp /\ made[r] \in 0..MaxResp /\ rd[r] < made[r] /\ MaxResp \in Nat
      BY <2>4, Bounds DEF PipeReads, TypeOK
    <3>1. rd[r] + 1 \in 0..MaxResp
      BY <3>0
    <3> QED BY <2>4, <3>1 DEF PipeReads, TypeOK
  <2>5. CASE PipeSent(r)
    <3>1. out' \in [Ids -> Seq(1..ERROR)]
      BY <2>5, ChunkInHand, SentTypes DEF PipeSent, Local
    <3> QED BY <2>5, <3>1 DEF PipeSent, TypeOK
  <2>6. CASE PipeEnds(r)
    <3>1. END \in 1..ERROR
      BY Bounds
    <3>2. out' \in [Ids -> Seq(1..ERROR)]
      BY <2>6, <3>1, SentTypes DEF PipeEnds
    <3> QED BY <2>6, <3>2 DEF PipeEnds, TypeOK
  <2>7. CASE PipeJoined(r)
    BY <2>7 DEF PipeJoined, CleanUp, TypeOK
  <2>8. CASE ErrorSent(r)
    <3>1. ERROR \in 1..ERROR
      BY Bounds
    <3>2. out' \in [Ids -> Seq(1..ERROR)]
      BY <2>8, <3>1, SentTypes DEF ErrorSent
    <3> QED BY <2>8, <3>2 DEF ErrorSent, CleanUp, TypeOK
  <2> QED BY <1>5, <2>1, <2>2, <2>3, <2>4, <2>5, <2>6, <2>7, <2>8 DEF TaskStep
<1>6. CASE Elsewhere
  <2>1. <<>> \in Seq(Frames)
    OBVIOUS
  <2>2. chan' \in Seq(Frames)
    BY <1>6, <2>1, CutTypes DEF Elsewhere, LinkDies, LinkDown, LinkBack, Stop, DrainReturns, TypeOK
  <2> QED BY <1>0, <1>6, <2>2 DEF Elsewhere, LinkDies, LinkDown, LinkBack, Stop, DrainReturns, TypeOK
<1>7. CASE CleanUpAll
  <2>1. <<>> \in Seq(Frames)
    OBVIOUS
  <2> QED BY <1>7, <2>1, ClosedTypes DEF CleanUpAll, TypeOK
<1> QED BY <1>1, <1>2, <1>3, <1>4, <1>5, <1>6, <1>7, Steps DEF StepOf

-----------------------------------------------------------------------------
(* The channel.                                                            *)

(* A request leaves its first stage only with its REQUEST.                 *)
LEMMA Untouched ==
    ASSUME TypeOK, Local, Next, NEW r \in Ids, ~HandleRequest(r), loop[r] = "none"
    PROVE  loop'[r] = "none"
<1>1. ASSUME NEW s \in Ids, s # r, StepOf(s) PROVE loop'[r] = "none"
  BY <1>1, OthersSame DEF Same
<1>2. CASE StepOf(r)
  <2>1. pipe[r] = "none"
    BY DEF Local, LocalOf, StageOf, NoPipe
  <2> QED
    BY <1>2, <2>1 DEF StepOf, Receives, TaskStep, ServerSends, UpstreamReads, UpstreamAnswers,
         UpstreamResets, HandleData, HandleDataDropped, HandleClose, DrainFails, CloseConnections,
         NewConnection, Connected, Refused, InitialDrained, InitialFails, PipeStarts, PipeReads,
         PipeSent, PipeEof, PipeEnds, PipeJoined, ErrorSent, taskVars, TypeOK
<1>3. CASE Elsewhere
  BY <1>3, ElsewhereSame DEF Same
<1>4. CASE CleanUpAll
  BY <1>4 DEF CleanUpAll, CloseConnections
<1> QED BY <1>1, <1>2, <1>3, <1>4, Steps

LEMMA SentOnly ==
    ASSUME TypeOK, Next, NEW r \in Ids
    PROVE  srv'[r] = srv[r] \/ ServerSends(r)
<1>1. ASSUME NEW s \in Ids, s # r, StepOf(s) PROVE srv'[r] = srv[r]
  BY <1>1, OthersSame DEF Same
<1>2. CASE StepOf(r)
  BY <1>2 DEF StepOf, Receives, TaskStep, UpstreamReads, UpstreamAnswers,
         UpstreamResets, HandleRequest, HandleData, HandleDataDropped, HandleClose, DrainFails,
         NewConnection, Connected, Refused, InitialDrained, InitialFails, PipeStarts, PipeReads,
         PipeSent, PipeEof, PipeEnds, PipeJoined, ErrorSent, serverVars
<1>3. CASE Elsewhere
  BY <1>3, ElsewhereSame DEF Same
<1>4. CASE CleanUpAll
  BY <1>4 DEF CleanUpAll
<1> QED BY <1>1, <1>2, <1>3, <1>4, Steps

(* What a step does to the channel.                                        *)
LEMMA ChanSteps ==
    ASSUME TypeOK, Next
    PROVE  \/ chan' = chan
           \/ \E r \in Ids : ServerSends(r)
           \/ chan # <<>> /\ chan' = Tail(chan) /\ \E r \in Ids : Receives(r)
           \/ \E n \in 0..Len(chan) : chan' = SubSeq(chan, 1, n)
           \/ chan' = <<>>
<1>1. ASSUME NEW r \in Ids, StepOf(r)
      PROVE  \/ chan' = chan \/ ServerSends(r)
             \/ chan # <<>> /\ chan' = Tail(chan) /\ Receives(r)
  <2>1. ASSUME Receives(r) PROVE chan # <<>> /\ chan' = Tail(chan)
    BY <2>1 DEF Receives, HandleRequest, HandleData, HandleDataDropped, HandleClose, Handling
  <2>2. ASSUME UpstreamReads(r) \/ UpstreamAnswers(r) \/ UpstreamResets(r) \/ DrainFails
        PROVE  chan' = chan
    BY <2>2 DEF UpstreamReads, UpstreamAnswers, UpstreamResets, DrainFails, serverVars
  <2>3. ASSUME TaskStep(r) PROVE chan' = chan
    BY <2>3 DEF TaskStep, NewConnection, Connected, Refused, InitialDrained, InitialFails,
         PipeStarts, PipeReads, PipeSent, PipeEof, PipeEnds, PipeJoined, ErrorSent, serverVars
  <2> QED BY <1>1, <2>1, <2>2, <2>3 DEF StepOf
<1>2. CASE Elsewhere
  BY <1>2 DEF Elsewhere, LinkDies, LinkDown, LinkBack, Stop, DrainReturns, serverVars
<1>3. CASE CleanUpAll
  BY <1>3 DEF CleanUpAll
<1> QED BY <1>1, <1>2, <1>3, Steps

(* The frame a REQUEST is handled with is the only one of its id with the  *)
(* number 0.                                                               *)
LEMMA ChanStep ==
    ASSUME TypeOK, ChanInv, Local, Next
    PROVE  ChanInv'
<1>0. /\ chan \in Seq(Frames) /\ Len(chan) \in Nat
      /\ \A i \in 1..Len(chan) : chan[i].id \in Ids /\ chan[i].n \in 0..CLOSE /\ chan[i].n \in Nat
      /\ \A r \in Ids : srv[r] \in Nat /\ srv'[r] \in Nat /\ srv[r] <= srv'[r]
      /\ \A i \in 1..Len(chan) : chan[i].n < srv'[chan[i].id]
  <2>1. chan \in Seq(Frames) /\ Len(chan) \in Nat
    BY DEF TypeOK
  <2>2. \A i \in 1..Len(chan) : chan[i] \in Frames
    BY <2>1
  <2>3. CLOSE \in Nat
    BY Bounds
  <2>4. \A i \in 1..Len(chan) : chan[i].id \in Ids /\ chan[i].n \in 0..CLOSE
    BY <2>2, Bounds
  <2>5. ASSUME NEW r \in Ids PROVE srv[r] \in Nat /\ srv'[r] \in Nat /\ srv[r] <= srv'[r]
    <3>1. srv[r] \in 0..CLOSE + 1
      BY DEF TypeOK
    <3>2. CASE ServerSends(r)
      <4>1. srv'[r] = srv[r] + 1 \/ srv'[r] = CLOSE + 1
        BY <3>2 DEF ServerSends, TypeOK
      <4>2. srv[r] <= CLOSE /\ srv[r] \in Nat
        BY <2>3, <3>1, <3>2 DEF ServerSends
      <4> QED BY <2>3, <4>1, <4>2
    <3> QED BY <2>3, <3>1, <3>2, SentOnly
  <2>6. ASSUME NEW i \in 1..Len(chan) PROVE chan[i].n < srv'[chan[i].id]
    <3>1. /\ chan[i].n \in Nat /\ srv[chan[i].id] \in Nat /\ srv'[chan[i].id] \in Nat
          /\ srv[chan[i].id] <= srv'[chan[i].id]
      BY <2>3, <2>4, <2>5
    <3>2. chan[i].n < srv[chan[i].id]
      BY DEF ChanInv
    <3> QED BY <3>1, <3>2
  <2> QED BY <2>1, <2>3, <2>4, <2>5, <2>6
<1>1. CASE \E r \in Ids : Receives(r)
  <2>1. PICK r \in Ids : Receives(r)
    BY <1>1
  <2>2. chan # <<>> /\ chan' = Tail(chan) /\ Head(chan).id = r
        /\ (HandleRequest(r) => Head(chan).n = 0)
    BY <2>1 DEF Receives, HandleRequest, HandleData, HandleDataDropped, HandleClose, Handling, Arrived
  <2>3. /\ Head(chan) = chan[1] /\ 1 \in 1..Len(chan)
        /\ \A i \in 1..Len(chan') : chan'[i] = chan[i + 1] /\ i + 1 \in 1..Len(chan)
    BY <1>0, <2>2, Shifted
  <2>4. ASSUME NEW i \in 1..Len(chan'), chan'[i].n = 0 PROVE loop'[chan'[i].id] = "none"
    <3>1. chan[i + 1].n = 0 /\ i + 1 \in 1..Len(chan) /\ i + 1 > 1
      BY <2>3, <2>4
    <3>2. loop[chan[i + 1].id] = "none" /\ chan[i + 1].id \in Ids
      BY <1>0, <3>1 DEF ChanInv
    <3>3. ~HandleRequest(chan[i + 1].id)
      <4>1. SUFFICES ASSUME HandleRequest(chan[i + 1].id) PROVE FALSE
        OBVIOUS
      <4>2. chan[1].id = chan[i + 1].id /\ chan[1].n = 0
        BY <2>3, <4>1 DEF HandleRequest, Handling, Arrived
      <4>3. chan[1].n < chan[i + 1].n
        BY <2>3, <3>1, <4>2 DEF ChanInv
      <4> QED BY <3>1, <4>2, <4>3
    <3> QED BY <2>3, <3>2, <3>3, Untouched
  <2>5. \A i \in 1..Len(chan') : chan'[i].n < srv'[chan'[i].id]
    BY <1>0, <2>3
  <2>6. \A i, j \in 1..Len(chan') :
          i < j /\ chan'[i].id = chan'[j].id => chan'[i].n < chan'[j].n
    <3>1. \A i, j \in 1..Len(chan') : i < j => i + 1 < j + 1
      OBVIOUS
    <3> QED BY <2>3, <3>1 DEF ChanInv
  <2> QED BY <2>4, <2>5, <2>6 DEF ChanInv
<1>2. CASE \A r \in Ids : ~Receives(r)
  <2>0. \A r \in Ids : loop[r] = "none" => loop'[r] = "none"
    BY <1>2, Untouched DEF Receives
  <2>1. ASSUME \A i \in 1..Len(chan') : chan'[i] = chan[i] /\ i \in 1..Len(chan)
        PROVE  ChanInv'
    <3>1. \A i \in 1..Len(chan') : chan'[i].n < srv'[chan'[i].id]
      BY <1>0, <2>1
    <3>2. \A i \in 1..Len(chan') : chan'[i].n = 0 => loop'[chan'[i].id] = "none"
      BY <1>0, <2>0, <2>1 DEF ChanInv
    <3>3. \A i, j \in 1..Len(chan') :
            i < j /\ chan'[i].id = chan'[j].id => chan'[i].n < chan'[j].n
      BY <2>1 DEF ChanInv
    <3> QED BY <3>1, <3>2, <3>3 DEF ChanInv
  <2>2. CASE chan' = chan
    BY <2>1, <2>2
  <2>3. ASSUME NEW r \in Ids, ServerSends(r) PROVE ChanInv'
    <3>1. PICK n \in 0..CLOSE : /\ chan' = Append(chan, [id |-> r, n |-> n])
                                /\ srv[r] <= n /\ n < srv'[r] /\ (n = 0 => srv[r] = 0)
      <4>1. srv[r] \in 0..CLOSE /\ CLOSE \in Nat /\ CLOSE = MaxUp + 1 /\ MaxUp \in Nat
        BY <2>3, Bounds DEF ServerSends, TypeOK
      <4>2. CASE chan' = Append(chan, [id |-> r, n |-> srv[r]]) /\ srv' = [srv EXCEPT ![r] = @ + 1]
        <5>1. srv \in [Ids -> 0..CLOSE + 1]
          BY DEF TypeOK
        <5>2. srv'[r] = srv[r] + 1
          BY <4>2, <5>1
        <5>3. srv[r] \in Nat /\ srv[r] < srv[r] + 1 /\ srv[r] <= srv[r]
          BY <4>1
        <5> QED BY <4>1, <4>2, <5>2, <5>3
      <4>3. CASE srv[r] \in 1..MaxUp /\ chan' = Append(chan, [id |-> r, n |-> CLOSE])
                 /\ srv' = [srv EXCEPT ![r] = CLOSE + 1]
        <5>1. srv \in [Ids -> 0..CLOSE + 1]
          BY DEF TypeOK
        <5>2. srv'[r] = CLOSE + 1
          BY <4>3, <5>1
        <5>3. CLOSE \in 0..CLOSE /\ srv[r] <= CLOSE /\ CLOSE < CLOSE + 1 /\ CLOSE # 0
          BY <4>1
        <5> QED BY <4>3, <5>2, <5>3
      <4> QED BY <2>3, <4>2, <4>3 DEF ServerSends
    <3> DEFINE f == [id |-> r, n |-> n]
    <3>2. f \in Frames /\ f.id = r /\ f.n = n
      BY Bounds
    <3>3. /\ Len(chan') = Len(chan) + 1 /\ chan'[Len(chan) + 1] = f
          /\ \A i \in 1..Len(chan) : chan'[i] = chan[i]
          /\ \A i \in 1..(Len(chan) + 1) : i \in 1..Len(chan) \/ i = Len(chan) + 1
      BY <1>0, <3>1, <3>2, Appended
    <3> HIDE DEF f
    <3>4. \A i \in 1..Len(chan') : chan'[i].n < srv'[chan'[i].id]
      <4>1. chan'[Len(chan) + 1].n < srv'[chan'[Len(chan) + 1].id]
        BY <3>1, <3>2, <3>3
      <4> QED BY <1>0, <3>3, <4>1
    <3>5. f.n = 0 => loop[r] = "none"
      BY <3>1, <3>2 DEF Local, LocalOf, StageOf
    <3>6. \A i \in 1..Len(chan') : chan'[i].n = 0 => loop'[chan'[i].id] = "none"
      BY <1>0, <2>0, <3>2, <3>3, <3>5 DEF ChanInv
    <3>7. \A i \in 1..Len(chan) : chan[i].id = r => chan[i].n < n
      BY <1>0, <3>1 DEF ChanInv
    <3>8. \A i, j \in 1..Len(chan') :
            i < j /\ chan'[i].id = chan'[j].id => chan'[i].n < chan'[j].n
      <4> SUFFICES ASSUME NEW i \in 1..Len(chan'), NEW j \in 1..Len(chan'), i < j,
                          chan'[i].id = chan'[j].id
                   PROVE  chan'[i].n < chan'[j].n
        OBVIOUS
      <4>1. i \in 1..Len(chan)
        BY <1>0, <3>3
      <4>2. CASE j \in 1..Len(chan)
        BY <3>3, <4>1, <4>2 DEF ChanInv
      <4>3. CASE j = Len(chan) + 1
        BY <3>2, <3>3, <3>7, <4>1, <4>3
      <4> QED BY <3>3, <4>2, <4>3
    <3> QED BY <3>4, <3>6, <3>8 DEF ChanInv
  <2>4. ASSUME NEW n \in 0..Len(chan), chan' = SubSeq(chan, 1, n) PROVE ChanInv'
    BY <1>0, <2>1, <2>4, Cut
  <2>5. CASE chan' = <<>>
    BY <2>1, <2>5
  <2> QED BY <1>2, <2>2, <2>3, <2>4, <2>5, ChanSteps
<1> QED BY <1>1, <1>2

-----------------------------------------------------------------------------
(* The requests, one by one.                                               *)

LEMMA SameKeeps ==
    ASSUME TypeOK, LinkInv, Next, NEW r \in Ids, LocalOf(r), Same(r)
    PROVE  LocalOf(r)'
<1>1. flaps' \in Nat /\ flaps \in Nat /\ flaps' >= flaps /\ (Linked' => Linked)
  BY LinkLasts
<1> USE DEF LocalOf, Same
<1>2. StageOf(r)' /\ LeakOf(r)'
  BY DEF StageOf, LeakOf
<1>3. ResponseOf(r)'
  BY DEF ResponseOf
<1>4. Linked' => CompleteOf(r)'
  BY <1>1 DEF CompleteOf
<1>5. EndOf(r)'
  BY <1>1 DEF EndOf
<1> QED BY <1>2, <1>3, <1>4, <1>5

(* Values the arithmetic of the steps needs.                               *)
LEMMA Values ==
    ASSUME TypeOK, NEW r \in Ids
    PROVE  /\ srv[r] \in Nat /\ CLOSE \in Nat /\ CLOSE > 0
           /\ made[r] \in Nat /\ rd[r] \in Nat /\ rd[r] < END /\ made[r] < END
           /\ END \in Nat /\ ERROR = END + 1 /\ Len(out[r]) \in Nat
           /\ \A i \in 1..Len(out[r]) : out[r][i] \in Nat
           /\ flaps \in Nat
<1>1. MaxUp \in Nat /\ CLOSE = MaxUp + 1 /\ MaxResp \in Nat /\ END = MaxResp + 1
      /\ ERROR = MaxResp + 2 /\ MaxFlaps \in Nat
  BY Bounds
<1>2. srv[r] \in 0..CLOSE + 1 /\ made[r] \in 0..MaxResp /\ rd[r] \in 0..MaxResp
      /\ out[r] \in Seq(1..ERROR) /\ flaps \in 0..MaxFlaps
  BY DEF TypeOK
<1>3. Len(out[r]) \in Nat /\ \A i \in 1..Len(out[r]) : out[r][i] \in 1..ERROR
  BY <1>2, Elements
<1>4. \A i \in 1..Len(out[r]) : out[r][i] \in Nat
  BY <1>3
<1>5. CLOSE \in Nat /\ CLOSE > 0 /\ END \in Nat /\ ERROR = END + 1
  BY <1>1
<1>6. srv[r] \in Nat /\ made[r] \in Nat /\ rd[r] \in Nat /\ rd[r] < END /\ made[r] < END
  BY <1>1, <1>2
<1>7. flaps \in Nat
  BY <1>1, <1>2
<1> QED BY <1>3, <1>4, <1>5, <1>6, <1>7

(* Connections that are closed: a pipe that is told to end has a reason.   *)
LEMMA CloseKeeps ==
    ASSUME TypeOK, LinkInv, Next, NEW r \in Ids, LocalOf(r), NEW R, CloseConnections(R),
           UNCHANGED <<srv, ub, upVars, rd, out>>,
           r \in R /\ Linked' => srv[r] > CLOSE \/ wr[r] = "lost"
    PROVE  LocalOf(r)'
<1>1. flaps' \in Nat /\ flaps \in Nat /\ flaps' >= flaps /\ (Linked' => Linked)
  BY LinkLasts
<1>2. /\ srv' = srv /\ ub' = ub /\ upgot' = upgot /\ made' = made /\ eof' = eof
      /\ rd' = rd /\ out' = out
  BY DEF upVars
<1>3. /\ r \in conns' <=> r \in conns /\ r \notin R
      /\ r \in tasks' <=> r \in tasks /\ r \notin R
      /\ wr'[r] = IF r \in R \cap conns /\ wr[r] = "open" THEN "closed" ELSE wr[r]
      /\ loop'[r] = IF r \in R \cap tasks /\ loop[r] \in {"connecting", "initial", "erroring"}
                    THEN "done" ELSE loop[r]
      /\ r \in R \cap tasks /\ pipe[r] \in {"reading", "sending"} => pipe'[r] = "ending"
      /\ r \in R \cap tasks /\ pipe[r] \in {"scheduled", "ending"} => pipe'[r] = "done"
      /\ r \notin R \cap tasks \/ pipe[r] \in {"none", "done"} => pipe'[r] = pipe[r]
  BY DEF CloseConnections
<1>4. pipe[r] \in {"none", "scheduled", "reading", "sending", "ending", "done"}
  BY DEF TypeOK
<1>5. StageOf(r)'
  BY <1>2, <1>3, <1>4 DEF LocalOf, StageOf, LeakOf, Before, NoPipe
<1>6. LeakOf(r)'
  BY <1>2, <1>3, <1>4 DEF LocalOf, StageOf, LeakOf, Before, NoPipe
<1>7. ResponseOf(r)'
  BY <1>2, <1>3, <1>4 DEF LocalOf, ResponseOf
<1>8. Linked' => CompleteOf(r)'
  BY <1>1, <1>2, <1>3, <1>4 DEF LocalOf, CompleteOf
<1>9. EndOf(r)'
  BY <1>1, <1>2, <1>3 DEF LocalOf, EndOf
<1> QED BY <1>5, <1>6, <1>7, <1>8, <1>9 DEF LocalOf

(* Steps of the server, the upstream and the connector's loop.             *)
LEMMA ReceivesKeeps ==
    ASSUME TypeOK, ChanInv, LinkInv, Next, NEW r \in Ids, LocalOf(r),
           Receives(r) \/ (hpc = r /\ DrainFails)
    PROVE  LocalOf(r)'
<1>1. flaps' \in Nat /\ flaps \in Nat /\ flaps' >= flaps /\ (Linked' => Linked)
  BY LinkLasts
<1>2. Receives(r) => chan # <<>> /\ Head(chan).id = r
  BY DEF Receives, HandleRequest, HandleData, HandleDataDropped, HandleClose, Handling
<1>3. chan # <<>> => Head(chan) = chan[1] /\ 1 \in 1..Len(chan)
  BY Shifted DEF TypeOK
<1>4. Receives(r) => Head(chan).n < srv[r]
  BY <1>2, <1>3 DEF ChanInv
<1>5. CASE HandleRequest(r)
  <2>1. loop[r] = "none"
    BY <1>2, <1>3, <1>5 DEF HandleRequest, Receives, Arrived, ChanInv
  <2>2. srv[r] # 0
    BY <1>4, <1>5, Values DEF Receives, HandleRequest, Arrived
  <2>3. /\ srv' = srv /\ loop'[r] = "spawned" /\ pipe' = pipe /\ conns' = conns /\ tasks' = tasks
        /\ wr' = wr /\ ub' = ub /\ upgot' = upgot /\ made' = made /\ eof' = eof
        /\ rd' = rd /\ out' = out
    BY <1>5 DEF HandleRequest, TypeOK, tableVars, upVars
  <2>4. StageOf(r)' /\ LeakOf(r)'
    BY <2>1, <2>2, <2>3 DEF LocalOf, StageOf, LeakOf, Before, NoPipe
  <2>5. ResponseOf(r)' /\ EndOf(r)'
    BY <1>1, <2>1, <2>3 DEF LocalOf, ResponseOf, EndOf
  <2>6. Linked' => CompleteOf(r)'
    BY <1>1, <2>3 DEF LocalOf, CompleteOf
  <2> QED BY <2>4, <2>5, <2>6 DEF LocalOf
<1>6. CASE HandleData(r)
  <2>1. /\ srv' = srv /\ loop' = loop /\ pipe' = pipe /\ conns' = conns /\ tasks' = tasks
        /\ wr' = wr /\ upgot' = upgot /\ made' = made /\ eof' = eof
        /\ rd' = rd /\ out' = out
    BY <1>6 DEF HandleData, taskVars, tableVars, upVars
  <2>2. StageOf(r)' /\ LeakOf(r)'
    BY <1>6, <2>1 DEF HandleData, LocalOf, StageOf, LeakOf, Before, NoPipe
  <2>3. ResponseOf(r)' /\ EndOf(r)'
    BY <1>1, <2>1 DEF LocalOf, ResponseOf, EndOf
  <2>4. Linked' => CompleteOf(r)'
    BY <1>1, <2>1 DEF LocalOf, CompleteOf
  <2> QED BY <2>2, <2>3, <2>4 DEF LocalOf
<1>7. CASE HandleDataDropped(r)
  <2>1. Same(r)
    BY <1>7 DEF HandleDataDropped, Same, taskVars, tableVars, upVars
  <2> QED BY <2>1, SameKeeps
<1>8. CASE HandleClose(r)
  <2>1. srv[r] > CLOSE
    BY <1>4, <1>8, Values DEF Receives, HandleClose, Arrived
  <2> QED BY <1>8, <2>1, CloseKeeps DEF HandleClose
<1>9. CASE hpc = r /\ DrainFails
  <2>1. wr[r] = "lost" /\ CloseConnections({r}) /\ UNCHANGED <<srv, ub, upVars, rd, out>>
    BY <1>9 DEF DrainFails, serverVars
  <2> QED BY <2>1, CloseKeeps
<1> QED BY <1>5, <1>6, <1>7, <1>8, <1>9 DEF Receives

LEMMA OutsideKeeps ==
    ASSUME TypeOK, LinkInv, Next, NEW r \in Ids, LocalOf(r),
           ServerSends(r) \/ UpstreamReads(r) \/ UpstreamAnswers(r) \/ UpstreamResets(r)
    PROVE  LocalOf(r)'
<1>1. flaps' \in Nat /\ flaps \in Nat /\ flaps' >= flaps /\ (Linked' => Linked)
  BY LinkLasts
<1>2. CASE ServerSends(r)
  <2>1. /\ loop' = loop /\ pipe' = pipe /\ conns' = conns /\ tasks' = tasks
        /\ wr' = wr /\ ub' = ub /\ upgot' = upgot /\ made' = made /\ eof' = eof
        /\ rd' = rd /\ out' = out
    BY <1>2 DEF ServerSends, taskVars, tableVars, upVars
  <2>2. srv'[r] # 0 /\ srv'[r] >= srv[r] /\ srv'[r] \in Nat
    <3>1. srv'[r] = srv[r] + 1 \/ srv'[r] = CLOSE + 1
      BY <1>2 DEF ServerSends, TypeOK
    <3>2. srv[r] \in Nat /\ CLOSE \in Nat /\ srv[r] <= CLOSE
      BY <1>2, Values DEF ServerSends
    <3> QED BY <3>1, <3>2
  <2>3. srv[r] > CLOSE => srv'[r] > CLOSE
    BY <2>2, Values
  <2>4. StageOf(r)' /\ LeakOf(r)'
    BY <2>1, <2>2 DEF LocalOf, StageOf, LeakOf
  <2>5. ResponseOf(r)'
    BY <2>1 DEF LocalOf, ResponseOf
  <2>6. Linked' => CompleteOf(r)'
    BY <1>1, <2>1, <2>3 DEF LocalOf, CompleteOf
  <2>7. EndOf(r)'
    BY <1>1, <2>1, <2>3 DEF LocalOf, EndOf
  <2> QED BY <2>4, <2>5, <2>6, <2>7 DEF LocalOf
<1>3. CASE UpstreamReads(r)
  <2>1. /\ srv' = srv /\ loop' = loop /\ pipe' = pipe /\ conns' = conns /\ tasks' = tasks
        /\ wr' = wr /\ made' = made /\ eof' = eof
        /\ rd' = rd /\ out' = out
    BY <1>3 DEF UpstreamReads, serverVars, taskVars, tableVars
  <2>2. StageOf(r)' /\ LeakOf(r)'
    BY <1>3, <2>1 DEF UpstreamReads, LocalOf, StageOf, LeakOf
  <2>3. ResponseOf(r)' /\ EndOf(r)'
    BY <1>1, <2>1 DEF LocalOf, ResponseOf, EndOf
  <2>4. Linked' => CompleteOf(r)'
    BY <1>1, <2>1 DEF LocalOf, CompleteOf
  <2> QED BY <2>2, <2>3, <2>4 DEF LocalOf
<1>4. CASE UpstreamAnswers(r)
  <2>1. /\ srv' = srv /\ loop' = loop /\ pipe' = pipe /\ conns' = conns /\ tasks' = tasks
        /\ wr' = wr /\ ub' = ub /\ upgot' = upgot
        /\ rd' = rd /\ out' = out /\ wr[r] = "open" /\ ~eof[r]
    BY <1>4 DEF UpstreamAnswers, serverVars, taskVars, tableVars
  <2>2. made'[r] \in {made[r], made[r] + 1}
    BY <1>4 DEF UpstreamAnswers, TypeOK
  <2>3. rd'[r] <= made'[r]
    BY <2>1, <2>2, Values DEF LocalOf, ResponseOf
  <2>4. StageOf(r)' /\ LeakOf(r)'
    BY <2>1 DEF LocalOf, StageOf, LeakOf
  <2>5. ResponseOf(r)'
    BY <2>1, <2>3 DEF LocalOf, ResponseOf
  <2>6. Linked' => CompleteOf(r)'
    BY <1>1, <2>1 DEF LocalOf, CompleteOf
  <2>7. EndOf(r)'
    BY <1>1, <2>1 DEF LocalOf, EndOf
  <2> QED BY <2>4, <2>5, <2>6, <2>7 DEF LocalOf
<1>5. CASE UpstreamResets(r)
  <2>1. /\ srv' = srv /\ loop' = loop /\ pipe' = pipe /\ conns' = conns /\ tasks' = tasks
        /\ upgot' = upgot /\ made' = made /\ eof' = eof
        /\ rd' = rd /\ out' = out /\ wr[r] = "open" /\ wr'[r] = "lost"
    BY <1>5 DEF UpstreamResets, serverVars, taskVars, tableVars, upVars, TypeOK
  <2>2. StageOf(r)' /\ LeakOf(r)'
    BY <2>1 DEF LocalOf, StageOf, LeakOf
  <2>3. ResponseOf(r)' /\ EndOf(r)'
    BY <1>1, <2>1 DEF LocalOf, ResponseOf, EndOf
  <2>4. Linked' => CompleteOf(r)'
    BY <1>1, <2>1 DEF LocalOf, CompleteOf
  <2> QED BY <2>2, <2>3, <2>4 DEF LocalOf
<1> QED BY <1>2, <1>3, <1>4, <1>5

(* Steps of the relay task.                                                *)
LEMMA LoopKeeps ==
    ASSUME TypeOK, LinkInv, Next, NEW r \in Ids, LocalOf(r),
           NewConnection(r) \/ Connected(r) \/ Refused(r) \/ InitialDrained(r)
             \/ InitialFails(r) \/ PipeJoined(r)
    PROVE  LocalOf(r)'
<1>1. flaps' \in Nat /\ flaps \in Nat /\ flaps' >= flaps /\ (Linked' => Linked)
  BY LinkLasts
<1>2. /\ srv' = srv /\ upgot' = upgot /\ made' = made /\ eof' = eof /\ rd' = rd /\ out' = out
  BY DEF NewConnection, Connected, Refused, InitialDrained, InitialFails, PipeJoined,
         serverVars, upVars
<1>3. CASE NewConnection(r) \/ Refused(r) \/ InitialFails(r)
  <2>1. /\ pipe' = pipe /\ conns' = conns /\ wr' = wr /\ ub' = ub
        /\ (r \in tasks' <=> r \in tasks \/ loop[r] = "spawned")
        /\ \/ loop[r] = "spawned" /\ loop'[r] = "connecting"
           \/ loop[r] = "connecting" /\ loop'[r] = "erroring"
           \/ loop[r] = "initial" /\ wr[r] = "lost" /\ loop'[r] = "erroring"
    BY <1>3 DEF NewConnection, Refused, InitialFails, tableVars, TypeOK
  <2>2. StageOf(r)'
    BY <1>2, <2>1 DEF LocalOf, StageOf, LeakOf, Before, NoPipe
  <2>3. LeakOf(r)'
    BY <1>2, <2>1 DEF LocalOf, StageOf, LeakOf, Before, NoPipe
  <2>4. ResponseOf(r)' /\ EndOf(r)'
    BY <1>1, <1>2, <2>1 DEF LocalOf, ResponseOf, EndOf
  <2>5. Linked' => CompleteOf(r)'
    BY <1>1, <1>2, <2>1 DEF LocalOf, CompleteOf
  <2> QED BY <2>2, <2>3, <2>4, <2>5 DEF LocalOf
<1>4. CASE Connected(r) \/ InitialDrained(r)
  <2>1. /\ tasks' = tasks
        /\ \/ loop'[r] = "piping" /\ pipe'[r] = "scheduled"
           \/ loop'[r] = "initial" /\ pipe'[r] = pipe[r]
        /\ loop[r] \in {"connecting", "initial"}
        /\ r \in conns' /\ (loop[r] = "initial" => wr' = wr)
    BY <1>4 DEF Connected, InitialDrained, SchedulePipe, tableVars, TypeOK, LocalOf, StageOf
  <2>2. pipe[r] = "none" /\ out[r] = <<>> /\ rd[r] = 0 /\ r \in tasks
    BY <2>1 DEF LocalOf, StageOf, NoPipe
  <2>3. StageOf(r)'
    BY <1>2, <2>1, <2>2 DEF LocalOf, StageOf, LeakOf, Before, NoPipe
  <2>4. LeakOf(r)'
    BY <2>1, <2>2 DEF LocalOf, StageOf, LeakOf
  <2>5. ResponseOf(r)' /\ EndOf(r)'
    BY <1>2, <2>1, <2>2 DEF LocalOf, ResponseOf, EndOf
  <2>6. Linked' => CompleteOf(r)'
    BY <1>2, <2>1, <2>2 DEF LocalOf, CompleteOf
  <2> QED BY <2>3, <2>4, <2>5, <2>6 DEF LocalOf
<1>5. CASE PipeJoined(r)
  <2>1. /\ loop[r] = "piping" /\ pipe[r] = "done" /\ loop'[r] = "done" /\ pipe' = pipe
        /\ r \notin conns' /\ r \notin tasks' /\ ub' = ub
        /\ wr'[r] # "open" /\ (wr'[r] = "lost" <=> wr[r] = "lost")
    BY <1>5 DEF PipeJoined, CleanUp, TypeOK
  <2>2. StageOf(r)' /\ LeakOf(r)'
    BY <1>2, <2>1 DEF LocalOf, StageOf, LeakOf, Before, NoPipe
  <2>3. ResponseOf(r)'
    BY <1>2, <2>1 DEF LocalOf, ResponseOf
  <2>4. EndOf(r)'
    BY <1>1, <1>2, <2>1 DEF LocalOf, EndOf
  <2>5. Linked' => CompleteOf(r)'
    BY <1>1, <1>2, <2>1 DEF LocalOf, CompleteOf
  <2> QED BY <2>2, <2>3, <2>4, <2>5 DEF LocalOf
<1> QED BY <1>3, <1>4, <1>5

(* Steps of the pipe task, and the relay task's ERROR.                     *)
LEMMA PipeKeeps ==
    ASSUME TypeOK, LinkInv, Next, NEW r \in Ids, LocalOf(r),
           PipeStarts(r) \/ PipeReads(r) \/ PipeSent(r) \/ PipeEof(r) \/ PipeEnds(r)
             \/ ErrorSent(r)
    PROVE  LocalOf(r)'
<1>0. /\ flaps' = flaps /\ link' = link /\ (Linked' <=> Linked)
  BY DEF PipeStarts, PipeReads, PipeSent, PipeEof, PipeEnds, ErrorSent, linkVars, Linked
<1>1. /\ srv' = srv /\ ub' = ub /\ upgot' = upgot /\ made' = made /\ eof' = eof
  BY DEF PipeStarts, PipeReads, PipeSent, PipeEof, PipeEnds, ErrorSent,
         serverVars, upVars
<1>2. ASSUME PipeStarts(r) \/ PipeReads(r) \/ PipeSent(r) \/ PipeEof(r) \/ PipeEnds(r)
      PROVE  loop' = loop /\ conns' = conns /\ tasks' = tasks /\ wr' = wr
  BY <1>2 DEF PipeStarts, PipeReads, PipeSent, PipeEof, PipeEnds, tableVars
<1>3. CASE PipeStarts(r) \/ PipeEof(r)
  <2>1. /\ rd' = rd /\ out' = out
        /\ \/ pipe[r] = "scheduled" /\ pipe'[r] = "reading"
           \/ /\ pipe[r] = "reading" /\ pipe'[r] = "ending"
              /\ (eof[r] /\ rd[r] = made[r]) \/ wr[r] = "lost"
    BY <1>3 DEF PipeStarts, PipeEof, TypeOK
  <2>2. StageOf(r)' /\ LeakOf(r)'
    BY <1>1, <1>2, <1>3, <2>1 DEF LocalOf, StageOf, LeakOf, Before, NoPipe
  <2>3. ResponseOf(r)' /\ EndOf(r)'
    BY <1>0, <1>1, <1>2, <1>3, <2>1 DEF LocalOf, ResponseOf, EndOf
  <2>4. Linked' => CompleteOf(r)'
    BY <1>0, <1>1, <1>2, <1>3, <2>1 DEF LocalOf, CompleteOf
  <2> QED BY <2>2, <2>3, <2>4 DEF LocalOf
<1>4. CASE PipeReads(r)
  <2>1. /\ pipe[r] = "reading" /\ pipe'[r] = "sending" /\ out' = out
        /\ rd'[r] = rd[r] + 1 /\ rd[r] < made[r]
    BY <1>4 DEF PipeReads, TypeOK
  <2>2. StageOf(r)' /\ LeakOf(r)'
    BY <1>1, <1>2, <1>4, <2>1 DEF LocalOf, StageOf, LeakOf, Before, NoPipe
  <2>3. \A i \in 1..Len(out[r]) : out[r][i] <= rd[r] /\ out[r][i] \in Nat
    BY <2>1, Values DEF LocalOf, ResponseOf
  <2>4. rd[r] \in Nat /\ made[r] \in Nat /\ rd'[r] > 0 /\ rd'[r] <= made[r]
    BY <2>1, Values
  <2>5. \A i \in 1..Len(out[r]) : out[r][i] < rd'[r] /\ out[r][i] <= rd'[r]
    BY <2>1, <2>3, <2>4
  <2>6. ResponseOf(r)'
    BY <1>1, <2>1, <2>4, <2>5 DEF LocalOf, ResponseOf
  <2>7. EndOf(r)'
    BY <1>0, <1>1, <1>2, <1>4, <2>1 DEF LocalOf, EndOf
  <2>8. Linked' => CompleteOf(r)'
    BY <1>0, <1>1, <1>2, <1>4, <2>1, <2>4 DEF LocalOf, CompleteOf
  <2> QED BY <2>2, <2>6, <2>7, <2>8 DEF LocalOf
<1>5. CASE PipeSent(r)
  <2>1. /\ pipe[r] = "sending" /\ rd' = rd
        /\ pipe'[r] \in {"reading", "ending"} /\ (Linked => pipe'[r] = "reading")
        /\ \/ link # "up" /\ out'[r] = out[r]
           \/ link = "up" /\ out'[r] = Append(out[r], rd[r])
    BY <1>5 DEF PipeSent, Deliver, Linked, TypeOK
  <2>2. /\ rd[r] \in 1..ERROR /\ rd[r] \in Nat /\ rd[r] < END /\ END \in Nat
        /\ Len(out[r]) \in Nat /\ out[r] \in Seq(1..ERROR)
        /\ \A i \in 1..Len(out[r]) : out[r][i] < rd[r] /\ out[r][i] \in Nat
    BY <2>1, ChunkInHand, Values DEF LocalOf, ResponseOf, TypeOK
  <2>3. StageOf(r)' /\ LeakOf(r)'
    BY <1>1, <1>2, <1>5, <2>1 DEF LocalOf, StageOf, LeakOf, Before, NoPipe
  <2>4. CASE link # "up" /\ out'[r] = out[r]
    <3>1. ResponseOf(r)'
      <4>1. \A i \in 1..Len(out[r]) : out[r][i] <= rd[r]
        BY <2>2
      <4> QED BY <1>1, <2>1, <2>4, <4>1 DEF LocalOf, ResponseOf
    <3>2. EndOf(r)' /\ ~Linked'
      BY <1>0, <1>1, <1>2, <1>5, <2>4 DEF LocalOf, EndOf, Linked
    <3> QED BY <2>3, <3>1, <3>2 DEF LocalOf
  <2>5. CASE link = "up" /\ out'[r] = Append(out[r], rd[r])
    <3>1. /\ Len(out'[r]) = Len(out[r]) + 1 /\ out'[r][Len(out[r]) + 1] = rd[r]
          /\ \A i \in 1..Len(out[r]) : out'[r][i] = out[r][i]
          /\ \A i \in 1..(Len(out[r]) + 1) : i \in 1..Len(out[r]) \/ i = Len(out[r]) + 1
      BY <2>2, <2>5, Appended
    <3>2. ASSUME NEW i \in 1..Len(out'[r])
          PROVE  out'[r][i] <= rd[r] /\ out'[r][i] < END
      <4>1. CASE i \in 1..Len(out[r])
        <5>1. out'[r][i] = out[r][i] /\ out[r][i] < rd[r] /\ out[r][i] \in Nat
          BY <2>2, <3>1, <4>1
        <5> QED BY <2>2, <5>1
      <4>2. CASE i = Len(out[r]) + 1
        BY <2>2, <3>1, <4>2
      <4> QED BY <3>1, <4>1, <4>2
    <3>3. ASSUME NEW i \in 1..Len(out'[r]), NEW j \in 1..Len(out'[r]), i < j
          PROVE  out'[r][i] < out'[r][j] /\ out'[r][i] < END
      <4>1. i \in 1..Len(out[r])
        BY <2>2, <3>1, <3>3
      <4>2. CASE j \in 1..Len(out[r])
        BY <3>1, <3>2, <3>3, <4>1, <4>2 DEF LocalOf, ResponseOf
      <4>3. CASE j = Len(out[r]) + 1
        BY <2>2, <3>1, <3>2, <4>1, <4>3
      <4> QED BY <3>1, <4>2, <4>3
    <3>4. ResponseOf(r)'
      BY <1>1, <2>1, <3>2, <3>3 DEF LocalOf, ResponseOf
    <3>5. EndOf(r)'
      <4>1. \A i \in 1..Len(out'[r]) : out'[r][i] # END
        BY <2>2, <3>1
      <4> QED BY <4>1 DEF EndOf
    <3>6. Linked' => CompleteOf(r)'
      BY <1>0, <1>1, <2>1, <3>1 DEF LocalOf, CompleteOf
    <3> QED BY <2>3, <3>4, <3>5, <3>6 DEF LocalOf
  <2> QED BY <2>1, <2>4, <2>5
<1>6. CASE PipeEnds(r)
  <2>1. /\ pipe[r] = "ending" /\ rd' = rd /\ pipe'[r] = "done"
        /\ \/ link # "up" /\ out'[r] = out[r]
           \/ link = "up" /\ out'[r] = Append(out[r], END)
    BY <1>6 DEF PipeEnds, Deliver, TypeOK
  <2>2. /\ rd[r] \in Nat /\ rd[r] < END /\ END \in Nat /\ END \in 1..ERROR
        /\ Len(out[r]) \in Nat /\ out[r] \in Seq(1..ERROR)
        /\ \A i \in 1..Len(out[r]) : out[r][i] <= rd[r] /\ out[r][i] \in Nat
    <3>1. END \in 1..ERROR
      BY Bounds
    <3>2. out[r] \in Seq(1..ERROR)
      BY DEF TypeOK
    <3>3. \A i \in 1..Len(out[r]) : out[r][i] <= rd[r]
      BY <2>1 DEF LocalOf, ResponseOf
    <3> QED BY <3>1, <3>2, <3>3, Values
  <2>3. StageOf(r)' /\ LeakOf(r)'
    BY <1>1, <1>2, <1>6, <2>1 DEF LocalOf, StageOf, LeakOf, Before, NoPipe
  <2>0. Linked' => CompleteOf(r)'
    BY <2>1 DEF CompleteOf
  <2>4. CASE link # "up" /\ out'[r] = out[r]
    <3>1. ResponseOf(r)'
      BY <1>1, <2>1, <2>2, <2>4 DEF LocalOf, ResponseOf
    <3>2. EndOf(r)'
      BY <1>0, <1>1, <1>2, <1>6, <2>4 DEF LocalOf, EndOf, Linked
    <3> QED BY <2>0, <2>3, <3>1, <3>2 DEF LocalOf
  <2>5. CASE link = "up" /\ out'[r] = Append(out[r], END)
    <3>1. /\ Len(out'[r]) = Len(out[r]) + 1 /\ out'[r][Len(out[r]) + 1] = END
          /\ \A i \in 1..Len(out[r]) : out'[r][i] = out[r][i]
          /\ \A i \in 1..(Len(out[r]) + 1) : i \in 1..Len(out[r]) \/ i = Len(out[r]) + 1
      BY <2>2, <2>5, Appended
    <3>2. \A i \in 1..Len(out'[r]) : out'[r][i] <= rd[r] \/ out'[r][i] = END
      BY <2>2, <3>1
    <3>3. ASSUME NEW i \in 1..Len(out'[r]), NEW j \in 1..Len(out'[r]), i < j
          PROVE  out'[r][i] < out'[r][j] /\ out'[r][i] < END
      <4>0. i \in 1..Len(out[r])
        <5>1. Len(out[r]) \in Nat /\ Len(out'[r]) = Len(out[r]) + 1
          BY <2>2, <3>1
        <5> QED BY <3>3, <5>1
      <4>1. out[r][i] \in Nat /\ out[r][i] <= rd[r] /\ out'[r][i] = out[r][i]
        BY <2>2, <3>1, <4>0
      <4>2. CASE j \in 1..Len(out[r])
        <5>1. out[r][i] < out[r][j] /\ out[r][i] < END
          BY <3>3, <4>0, <4>2 DEF LocalOf, ResponseOf
        <5> QED BY <3>1, <4>1, <4>2, <5>1
      <4>3. CASE j = Len(out[r]) + 1
        <5>1. out'[r][j] = END
          BY <3>1, <4>3
        <5>2. out[r][i] < END
          <6>1. rd[r] \in Nat /\ END \in Nat /\ rd[r] < END
            BY <2>2
          <6> QED BY <4>1, <6>1
        <5> QED BY <4>1, <5>1, <5>2
      <4> QED BY <3>1, <4>2, <4>3
    <3>4. ResponseOf(r)'
      BY <1>1, <2>1, <3>2, <3>3 DEF LocalOf, ResponseOf
    <3>5. EndOf(r)'
      <4>1. flaps = 0 => Linked
        BY <2>5 DEF Linked
      <4>2. flaps > 0 \/ flaps = 0
        BY Values
      <4>3. flaps > 0 \/ srv[r] > CLOSE \/ wr[r] = "lost"
              \/ (eof[r] /\ Len(out'[r]) = made[r] + 1)
        BY <2>1, <3>1, <4>1, <4>2 DEF LocalOf, CompleteOf
      <4> QED BY <1>0, <1>1, <1>2, <1>6, <4>3 DEF EndOf
    <3> QED BY <2>0, <2>3, <3>4, <3>5 DEF LocalOf
  <2> QED BY <2>1, <2>4, <2>5
<1>7. CASE ErrorSent(r)
  <2>1. /\ loop[r] = "erroring" /\ loop'[r] = "done" /\ pipe' = pipe /\ rd' = rd
        /\ r \notin conns' /\ r \notin tasks'
        /\ wr'[r] # "open"
        /\ \/ out'[r] = out[r]
           \/ out'[r] = Append(out[r], ERROR)
    BY <1>7 DEF ErrorSent, CleanUp, Deliver, TypeOK
  <2>2. pipe[r] = "none" /\ out[r] = <<>> /\ rd[r] = 0
    BY <2>1 DEF LocalOf, StageOf, NoPipe
  <2>3. out'[r] = <<>> \/ out'[r] = <<ERROR>>
    BY <2>1, <2>2
  <2>4. Len(out'[r]) \in {0, 1} /\ \A i \in 1..Len(out'[r]) : out'[r][i] = ERROR
    <3>1. CASE out'[r] = <<>>
      BY <3>1
    <3>2. CASE out'[r] = <<ERROR>>
      <4>1. Len(out'[r]) = 1 /\ out'[r][1] = ERROR
        BY <3>2
      <4> QED BY <4>1
    <3> QED BY <2>3, <3>1, <3>2
  <2>5. StageOf(r)' /\ LeakOf(r)'
    BY <1>1, <2>1, <2>2 DEF LocalOf, StageOf, LeakOf, Before, NoPipe
  <2>6. \A i, j \in 1..Len(out'[r]) : ~(i < j)
    BY <2>4
  <2>7. ResponseOf(r)'
    BY <1>1, <2>1, <2>2, <2>4, <2>6 DEF LocalOf, ResponseOf
  <2>8. ERROR # END
    BY Values
  <2>9. EndOf(r)' /\ (Linked' => CompleteOf(r)')
    BY <2>1, <2>2, <2>4, <2>8 DEF EndOf, CompleteOf
  <2> QED BY <2>5, <2>7, <2>9 DEF LocalOf
<1> QED BY <1>3, <1>4, <1>5, <1>6, <1>7

LEMMA LocalStep ==
    ASSUME TypeOK, ChanInv, LinkInv, Local, Next
    PROVE  Local'
<1>1. ASSUME NEW s \in Ids, NEW r \in Ids, StepOf(r) PROVE LocalOf(s)'
  <2>0. LocalOf(s)
    BY DEF Local
  <2>1. CASE s # r
    BY <1>1, <2>0, <2>1, OthersSame, SameKeeps
  <2>2. CASE s = r
    BY <1>1, <2>0, <2>2, ReceivesKeeps, OutsideKeeps, LoopKeeps, PipeKeeps DEF StepOf, TaskStep
  <2> QED BY <2>1, <2>2
<1>2. ASSUME NEW s \in Ids, Elsewhere PROVE LocalOf(s)'
  BY <1>2, ElsewhereSame, SameKeeps DEF Local
<1>3. ASSUME NEW s \in Ids, CleanUpAll PROVE LocalOf(s)'
  <2>1. CloseConnections(conns) /\ UNCHANGED <<srv, ub, upVars, rd, out>> /\ ~Linked'
    BY <1>3 DEF CleanUpAll, Linked
  <2> QED BY <2>1, CloseKeeps DEF Local
<1> QED BY <1>1, <1>2, <1>3, Steps DEF Local

-----------------------------------------------------------------------------
(* The uploads.                                                            *)

(* Everything about one request's upload, and the frames on their way.     *)
LEMMA Chunks ==
    ASSUME TypeOK, NEW r \in Ids
    PROVE  /\ ub[r] \in Seq(0..MaxUp) /\ upgot[r] \in Seq(0..MaxUp)
           /\ Len(ub[r]) \in Nat /\ Len(upgot[r]) \in Nat
           /\ \A i \in 1..Len(ub[r]) : ub[r][i] \in Nat
           /\ \A i \in 1..Len(upgot[r]) : upgot[r][i] \in Nat
<1>1. ub[r] \in Seq(0..MaxUp) /\ upgot[r] \in Seq(0..MaxUp)
  BY DEF TypeOK
<1>2. ASSUME NEW s \in Seq(0..MaxUp) PROVE Len(s) \in Nat /\ \A i \in 1..Len(s) : s[i] \in Nat
  <2>1. Len(s) \in Nat /\ \A i \in 1..Len(s) : s[i] \in 0..MaxUp
    BY Elements
  <2> QED BY <2>1, Bounds
<1> QED BY <1>1, <1>2

LEMMA BelowMore ==
    ASSUME NEW s, NEW m \in Nat, NEW n \in Nat, m <= n, Below(s, m),
           \A i \in 1..Len(s) : s[i] \in Nat
    PROVE  Below(s, n)
  BY DEF Below

LEMMA RisingAppend ==
    ASSUME NEW S, NEW s \in Seq(S), NEW v \in S, Rising(s), Below(s, v)
    PROVE  Rising(Append(s, v))
<1>1. /\ Len(s) \in Nat /\ Len(Append(s, v)) = Len(s) + 1
      /\ Append(s, v)[Len(s) + 1] = v
      /\ \A i \in 1..Len(s) : Append(s, v)[i] = s[i]
      /\ \A i \in 1..(Len(s) + 1) : i \in 1..Len(s) \/ i = Len(s) + 1
  BY Appended
<1>2. ASSUME NEW i \in 1..Len(Append(s, v)), NEW j \in 1..Len(Append(s, v)), i < j
      PROVE  Append(s, v)[i] < Append(s, v)[j]
  <2>1. i \in 1..Len(s)
    BY <1>1, <1>2
  <2>2. CASE j \in 1..Len(s)
    BY <1>1, <1>2, <2>1, <2>2 DEF Rising
  <2>3. CASE j = Len(s) + 1
    BY <1>1, <2>1, <2>3 DEF Below
  <2> QED BY <1>1, <2>2, <2>3
<1> QED BY <1>2 DEF Rising

LEMMA BelowAppend ==
    ASSUME NEW S, NEW s \in Seq(S), NEW v \in S, NEW n, Below(s, n), v < n
    PROVE  Below(Append(s, v), n)
  BY Appended DEF Below

(* What is below everything the server has yet to send of a request, or    *)
(* the client to handle, stays so.                                         *)
Ahead(r, s) ==
    /\ Below(s, srv[r])
    /\ \A k \in 1..Len(chan) : chan[k].id = r => Below(s, chan[k].n)

LEMMA AheadStep ==
    ASSUME TypeOK, Next, NEW r \in Ids, NEW s \in Seq(0..MaxUp), Ahead(r, s)
    PROVE  /\ Below(s, srv'[r])
           /\ \A k \in 1..Len(chan') : chan'[k].id = r => Below(s, chan'[k].n)
<1>0. chan \in Seq(Frames) /\ Len(chan) \in Nat
  BY Elements DEF TypeOK
<1>1. \A i \in 1..Len(s) : s[i] \in Nat
  <2>1. Len(s) \in Nat /\ \A i \in 1..Len(s) : s[i] \in 0..MaxUp
    BY Elements
  <2> QED BY <2>1, Bounds
<1>2. ASSUME NEW q \in Ids, ServerSends(q)
      PROVE  \E n \in Nat : /\ chan' = Append(chan, [id |-> q, n |-> n])
                            /\ [id |-> q, n |-> n] \in Frames
                            /\ srv[q] \in Nat /\ srv[q] <= n /\ srv'[q] = n + 1
  <2>1. srv[q] \in Nat /\ CLOSE \in Nat /\ srv[q] <= CLOSE /\ srv[q] \in 0..CLOSE
    BY <1>2, Values DEF ServerSends
  <2>2. CASE chan' = Append(chan, [id |-> q, n |-> srv[q]]) /\ srv' = [srv EXCEPT ![q] = @ + 1]
    <3>1. srv'[q] = srv[q] + 1 /\ srv[q] <= srv[q]
      BY <2>1, <2>2 DEF TypeOK
    <3>2. [id |-> q, n |-> srv[q]] \in Frames
      BY <2>1, Bounds
    <3> QED BY <2>1, <2>2, <3>1, <3>2
  <2>3. CASE chan' = Append(chan, [id |-> q, n |-> CLOSE]) /\ srv' = [srv EXCEPT ![q] = CLOSE + 1]
    <3>1. srv'[q] = CLOSE + 1
      BY <2>3 DEF TypeOK
    <3>2. [id |-> q, n |-> CLOSE] \in Frames
      BY <2>1, Bounds
    <3> QED BY <2>1, <2>3, <3>1, <3>2
  <2> QED BY <1>2, <2>2, <2>3 DEF ServerSends
<1>3. Below(s, srv'[r])
  <2>1. CASE ServerSends(r)
    <3>1. srv[r] \in Nat /\ srv'[r] \in Nat /\ srv[r] <= srv'[r]
      <4>1. PICK n \in Nat : srv[r] \in Nat /\ srv[r] <= n /\ srv'[r] = n + 1
        BY <1>2, <2>1
      <4> QED BY <4>1
    <3> QED BY <1>1, <3>1, BelowMore DEF Ahead
  <2> QED BY <2>1, SentOnly DEF Ahead
<1>4. ASSUME \A k \in 1..Len(chan') : \E i \in 1..Len(chan) : chan'[k] = chan[i]
      PROVE  \A k \in 1..Len(chan') : chan'[k].id = r => Below(s, chan'[k].n)
  BY <1>4 DEF Ahead
<1>5. ASSUME chan' = chan \/ chan' = <<>>
      PROVE  \A k \in 1..Len(chan') : chan'[k].id = r => Below(s, chan'[k].n)
  <2>1. \A k \in 1..Len(chan') : k \in 1..Len(chan) /\ chan'[k] = chan[k]
    BY <1>5
  <2> QED BY <1>4, <2>1
<1>6. ASSUME chan # <<>> /\ chan' = Tail(chan)
      PROVE  \A k \in 1..Len(chan') : chan'[k].id = r => Below(s, chan'[k].n)
  <2>1. \A k \in 1..Len(chan') : chan'[k] = chan[k + 1] /\ k + 1 \in 1..Len(chan)
    BY <1>0, <1>6, Shifted
  <2> QED BY <1>4, <2>1
<1>7. ASSUME NEW n \in 0..Len(chan), chan' = SubSeq(chan, 1, n)
      PROVE  \A k \in 1..Len(chan') : chan'[k].id = r => Below(s, chan'[k].n)
  BY <1>0, <1>4, <1>7, Cut
<1>8. ASSUME NEW q \in Ids, ServerSends(q)
      PROVE  \A k \in 1..Len(chan') : chan'[k].id = r => Below(s, chan'[k].n)
  <2>1. PICK n \in Nat : /\ chan' = Append(chan, [id |-> q, n |-> n])
                         /\ [id |-> q, n |-> n] \in Frames
                         /\ srv[q] \in Nat /\ srv[q] <= n
    BY <1>2, <1>8
  <2>2. /\ Len(chan') = Len(chan) + 1 /\ chan'[Len(chan) + 1] = [id |-> q, n |-> n]
        /\ \A i \in 1..Len(chan) : chan'[i] = chan[i]
        /\ \A i \in 1..(Len(chan) + 1) : i \in 1..Len(chan) \/ i = Len(chan) + 1
    BY <1>0, <2>1, Appended
  <2>3. r = q => Below(s, n)
    BY <1>1, <2>1, BelowMore DEF Ahead
  <2>4. ASSUME NEW k \in 1..Len(chan'), chan'[k].id = r PROVE Below(s, chan'[k].n)
    <3>1. CASE k \in 1..Len(chan)
      BY <2>2, <2>4, <3>1 DEF Ahead
    <3>2. CASE k = Len(chan) + 1
      BY <2>2, <2>3, <2>4, <3>2
    <3> QED BY <2>2, <3>1, <3>2
  <2> QED BY <2>4
<1> QED BY <1>3, <1>5, <1>6, <1>7, <1>8, ChanSteps

(* A chunk is written before the next one is taken from the channel.       *)
LEMMA WrittenInOrder ==
    ASSUME TypeOK, TypeOK', ChanInv, Next, NEW r \in Ids, UploadOf(r), HandleData(r)
    PROVE  UploadOf(r)'
<1>1. /\ upgot' = upgot /\ ub'[r] = Append(ub[r], Arrived) /\ srv' = srv
      /\ chan # <<>> /\ chan' = Tail(chan) /\ Head(chan).id = r
    BY DEF HandleData, Handling, upVars, TypeOK
<1>2. /\ Head(chan) = chan[1] /\ 1 \in 1..Len(chan)
      /\ \A i \in 1..Len(chan') : chan'[i] = chan[i + 1] /\ i + 1 \in 1..Len(chan) /\ 1 < i + 1
  <2>1. /\ Head(chan) = chan[1] /\ 1 \in 1..Len(chan)
        /\ \A i \in 1..Len(chan') : chan'[i] = chan[i + 1] /\ i + 1 \in 1..Len(chan)
    BY <1>1, Shifted DEF TypeOK
  <2>2. \A i \in 1..Len(chan') : 1 < i + 1
    OBVIOUS
  <2> QED BY <2>1, <2>2
<1>3. Arrived = chan[1].n /\ Arrived \in 0..MaxUp
  BY <1>2, Bounds DEF Arrived, HandleData
<1>4. Arrived < srv[r] /\ \A k \in 1..Len(chan') : chan'[k].id = r => Arrived < chan'[k].n
  BY <1>1, <1>2, <1>3 DEF ChanInv
<1>5. Below(ub[r], Arrived) /\ Below(upgot[r], Arrived)
  BY <1>1, <1>2, <1>3 DEF UploadOf
<1>6. Rising(ub'[r])
  BY <1>1, <1>3, <1>5, Chunks, RisingAppend DEF UploadOf
<1>7. Follows(upgot[r], ub'[r])
  <2>1. \A j \in 1..Len(ub'[r]) : (j \in 1..Len(ub[r]) /\ ub'[r][j] = ub[r][j]) \/ ub'[r][j] = Arrived
    BY <1>1, <1>3, Chunks, Appended
  <2> QED BY <1>5, <2>1 DEF UploadOf, Follows, Below
<1>8. Ahead(r, ub[r]) /\ Ahead(r, upgot[r])
  BY DEF UploadOf, Ahead
<1>9. Below(upgot[r], srv'[r]) /\ \A k \in 1..Len(chan') : chan'[k].id = r => Below(upgot[r], chan'[k].n)
  BY <1>8, Chunks, AheadStep
<1>10. Below(ub'[r], srv'[r])
  BY <1>1, <1>3, <1>4, Chunks, BelowAppend DEF UploadOf
<1>11. ASSUME NEW k \in 1..Len(chan'), chan'[k].id = r PROVE Below(ub'[r], chan'[k].n)
  <2>1. Below(ub[r], chan'[k].n)
    BY <1>8, <1>11, Chunks, AheadStep
  <2> QED BY <1>1, <1>3, <1>4, <1>11, <2>1, Chunks, BelowAppend
<1> QED BY <1>1, <1>6, <1>7, <1>9, <1>10, <1>11 DEF UploadOf

LEMMA ReadInOrder ==
    ASSUME TypeOK, Next, NEW r \in Ids, UploadOf(r), UpstreamReads(r)
    PROVE  UploadOf(r)'
<1> DEFINE v == ub[r][1]
<1>1. /\ upgot'[r] = Append(upgot[r], v) /\ ub'[r] = Tail(ub[r]) /\ srv' = srv /\ chan' = chan
      /\ ub[r] # <<>> /\ v \in 0..MaxUp /\ 1 \in 1..Len(ub[r])
      /\ \A i \in 1..Len(ub'[r]) : ub'[r][i] = ub[r][i + 1] /\ i + 1 \in 1..Len(ub[r])
  <2>1. ub[r] # <<>> /\ ub'[r] = Tail(ub[r]) /\ upgot'[r] = Append(upgot[r], Head(ub[r]))
        /\ srv' = srv /\ chan' = chan
    BY DEF UpstreamReads, serverVars, TypeOK
  <2>2. Head(ub[r]) = v /\ Head(ub[r]) \in 0..MaxUp
    BY <2>1, Chunks, Shifted
  <2> QED BY <2>1, <2>2, Chunks, Shifted
<1> HIDE DEF v
<1>0. v = ub[r][1]
  BY DEF v
<1>2. Below(upgot[r], v)
  BY <1>0, <1>1 DEF UploadOf, Follows, Below
<1>3. Rising(upgot'[r])
  BY <1>1, <1>2, Chunks, RisingAppend DEF UploadOf
<1>4. \A i, j \in 1..Len(ub'[r]) : i < j => i + 1 < j + 1
  OBVIOUS
<1>5. Rising(ub'[r])
  BY <1>1, <1>4 DEF UploadOf, Rising
<1>6. \A n : Below(ub[r], n) => Below(ub'[r], n) /\ v < n
  BY <1>0, <1>1 DEF Below
<1>7. \A n : Below(upgot[r], n) /\ v < n => Below(upgot'[r], n)
  BY <1>1, Chunks, BelowAppend
<1>8. \A j \in 1..Len(ub'[r]) : 1 < j + 1
  OBVIOUS
<1>9. \A j \in 1..Len(ub'[r]) : v < ub'[r][j]
  BY <1>0, <1>1, <1>8 DEF UploadOf, Rising
<1>10. Follows(upgot'[r], ub'[r])
  <2>1. \A i \in 1..Len(upgot'[r]) :
           (i \in 1..Len(upgot[r]) /\ upgot'[r][i] = upgot[r][i]) \/ upgot'[r][i] = v
    BY <1>1, Chunks, Appended
  <2> QED BY <1>1, <1>9, <2>1 DEF UploadOf, Follows
<1> QED BY <1>1, <1>3, <1>5, <1>6, <1>7, <1>10 DEF UploadOf

LEMMA UploadSteps ==
    ASSUME TypeOK, Next, NEW r \in Ids
    PROVE  \/ ub'[r] = ub[r] /\ upgot'[r] = upgot[r]
           \/ ub'[r] = <<>> /\ upgot'[r] = upgot[r]
           \/ UpstreamReads(r) \/ HandleData(r) \/ Connected(r)
<1>1. ASSUME NEW s \in Ids, s # r, StepOf(s) PROVE ub'[r] = ub[r] /\ upgot'[r] = upgot[r]
  BY <1>1, OthersSame DEF Same
<1>2. ASSUME UpstreamResets(r) PROVE ub'[r] = <<>> /\ upgot'[r] = upgot[r]
  BY <1>2 DEF UpstreamResets, upVars, TypeOK
<1>3. ASSUME \/ ServerSends(r) \/ UpstreamAnswers(r) \/ HandleRequest(r)
             \/ HandleDataDropped(r) \/ HandleClose(r) \/ DrainFails
      PROVE  ub' = ub /\ upgot' = upgot
  BY <1>3 DEF ServerSends, UpstreamAnswers, HandleRequest, HandleDataDropped, HandleClose,
         DrainFails, upVars
<1>4. ASSUME TaskStep(r), ~Connected(r) PROVE ub' = ub /\ upgot' = upgot
  BY <1>4 DEF TaskStep, NewConnection, Refused, InitialDrained, InitialFails, PipeStarts,
         PipeReads, PipeSent, PipeEof, PipeEnds, PipeJoined, ErrorSent, upVars
<1>5. CASE StepOf(r)
  BY <1>2, <1>3, <1>4, <1>5 DEF StepOf, Receives
<1>6. CASE Elsewhere
  BY <1>6, ElsewhereSame DEF Same
<1>7. CASE CleanUpAll
  BY <1>7 DEF CleanUpAll, upVars
<1> QED BY <1>1, <1>5, <1>6, <1>7, Steps

LEMMA UploadStep ==
    ASSUME TypeOK, TypeOK', ChanInv, Local, Uploads, Next
    PROVE  Uploads'
<1> SUFFICES ASSUME NEW r \in Ids PROVE UploadOf(r)'
  BY DEF Uploads
<1>0. UploadOf(r)
  BY DEF Uploads
<1>1. Ahead(r, ub[r]) /\ Ahead(r, upgot[r])
  BY <1>0 DEF UploadOf, Ahead
<1>2. CASE ub'[r] = ub[r] /\ upgot'[r] = upgot[r]
  BY <1>0, <1>1, <1>2, Chunks, AheadStep DEF UploadOf
<1>3. CASE ub'[r] = <<>> /\ upgot'[r] = upgot[r]
  <2>1. \A n : Below(ub'[r], n)
    BY <1>3 DEF Below
  <2>2. Rising(ub'[r]) /\ Follows(upgot'[r], ub'[r])
    BY <1>3 DEF Rising, Follows
  <2>3. /\ Below(upgot[r], srv'[r])
        /\ \A k \in 1..Len(chan') : chan'[k].id = r => Below(upgot[r], chan'[k].n)
    BY <1>1, Chunks, AheadStep
  <2> QED BY <1>0, <1>3, <2>1, <2>2, <2>3 DEF UploadOf
<1>4. CASE Connected(r)
  <2>1. ub'[r] = <<0>> /\ upgot' = upgot /\ srv' = srv /\ chan' = chan /\ loop[r] = "connecting"
    BY <1>4 DEF Connected, serverVars, upVars, TypeOK
  <2>2. upgot[r] = <<>> /\ srv[r] # 0
    BY <2>1 DEF Local, LocalOf, StageOf, Before
  <2>3. Len(ub'[r]) = 1 /\ ub'[r][1] = 0
    BY <2>1
  <2>4. \A n \in Nat : n # 0 => Below(ub'[r], n)
    BY <2>3 DEF Below
  <2>5. \A n : Below(upgot'[r], n)
    BY <2>1, <2>2 DEF Below
  <2>6. Rising(upgot'[r]) /\ Rising(ub'[r]) /\ Follows(upgot'[r], ub'[r])
    BY <2>1, <2>2, <2>3 DEF Rising, Follows
  <2>7. \A k \in 1..Len(chan) : chan[k].id = r => chan[k].n \in Nat /\ chan[k].n # 0
    <3>1. \A k \in 1..Len(chan) : chan[k] \in Frames
      BY Elements DEF TypeOK
    <3>2. CLOSE \in Nat
      BY Bounds
    <3> QED BY <2>1, <3>1, <3>2, Bounds DEF ChanInv
  <2>8. srv[r] \in Nat
    BY Values
  <2> QED BY <2>1, <2>2, <2>4, <2>5, <2>6, <2>7, <2>8 DEF UploadOf
<1> QED BY <1>0, <1>2, <1>3, <1>4, UploadSteps, WrittenInOrder, ReadInOrder

-----------------------------------------------------------------------------
(* The theorems.                                                           *)

LEMMA InitInv == Init => IInv
<1> SUFFICES ASSUME Init PROVE IInv
  OBVIOUS
<1>1. /\ srv = [r \in Ids |-> 0] /\ chan = <<>> /\ Len(chan) = 0 /\ hpc = NoId
      /\ loop = [r \in Ids |-> "none"] /\ pipe = [r \in Ids |-> "none"]
      /\ conns = {} /\ tasks = {} /\ wr = [r \in Ids |-> "none"]
      /\ ub = [r \in Ids |-> <<>>] /\ upgot = [r \in Ids |-> <<>>]
      /\ made = [r \in Ids |-> 0] /\ eof = [r \in Ids |-> FALSE] /\ rd = [r \in Ids |-> 0]
      /\ out = [r \in Ids |-> <<>>] /\ link = "up" /\ flaps = 0
  BY DEF Init
<1>2. TypeOK
  <2>1. CLOSE \in Nat /\ 0 \in 0..(CLOSE + 1) /\ 0 \in 0..MaxResp /\ 0 \in 0..MaxFlaps
    BY Bounds
  <2>2. <<>> \in Seq(Frames) /\ <<>> \in Seq(0..MaxUp) /\ <<>> \in Seq(1..ERROR)
    OBVIOUS
  <2> QED BY <1>1, <2>1, <2>2 DEF TypeOK
<1>3. ChanInv /\ LinkInv
  BY <1>1 DEF ChanInv, LinkInv
<1>4. Local
  <2> SUFFICES ASSUME NEW r \in Ids PROVE LocalOf(r)
    BY DEF Local
  <2>1. StageOf(r) /\ LeakOf(r)
    BY <1>1 DEF StageOf, LeakOf
  <2>2. ResponseOf(r) /\ CompleteOf(r) /\ EndOf(r)
    BY <1>1 DEF ResponseOf, CompleteOf, EndOf
  <2> QED BY <2>1, <2>2 DEF LocalOf
<1>5. Uploads
  BY <1>1 DEF Uploads, UploadOf, Rising, Follows, Below
<1> QED BY <1>2, <1>3, <1>4, <1>5 DEF IInv

LEMMA StutterInv == ASSUME IInv, UNCHANGED vars PROVE IInv'
<1>1. /\ srv' = srv /\ chan' = chan /\ hpc' = hpc /\ loop' = loop /\ pipe' = pipe
      /\ conns' = conns /\ tasks' = tasks /\ wr' = wr /\ ub' = ub /\ upgot' = upgot
      /\ made' = made /\ eof' = eof /\ rd' = rd /\ out' = out /\ link' = link /\ flaps' = flaps
  BY DEF vars, serverVars, taskVars, tableVars, upVars, linkVars
<1>2. TypeOK' /\ ChanInv' /\ LinkInv'
  BY <1>1 DEF IInv, TypeOK, ChanInv, LinkInv
<1>3. Local'
  BY <1>1 DEF IInv, Local, LocalOf, StageOf, LeakOf, ResponseOf, CompleteOf, EndOf, Linked
<1>4. Uploads'
  BY <1>1 DEF IInv, Uploads, UploadOf
<1> QED BY <1>2, <1>3, <1>4 DEF IInv

(* The inductive invariant: whatever frames, resets, refusals, broken      *)
(* links and shutdowns come.                                               *)
THEOREM RelayInvariant == Spec => []IInv
<1>1. IInv /\ [Next]_vars => IInv'
  <2> SUFFICES ASSUME IInv, [Next]_vars PROVE IInv'
    OBVIOUS
  <2>1. CASE Next
    BY <2>1, TypeStep, ChanStep, LinkStep, LocalStep, UploadStep DEF IInv
  <2>2. CASE UNCHANGED vars
    BY <2>2, StutterInv
  <2> QED BY <2>1, <2>2
<1> QED BY <1>1, InitInv, PTL DEF Spec

(* Types of the frames, the tables, both tasks of a request and the link.  *)
THEOREM RelayTypes == Spec => []TypeOK
<1>1. IInv => TypeOK
  BY DEF IInv
<1> QED BY <1>1, RelayInvariant, PTL

(* CLOSE, a failed drain, the relay task's finally block and the shutdown  *)
(* leave no table entry, no open writer and no pipe of a request that is   *)
(* over, and no entry without a live relay task.                           *)
THEOREM RelayTablesClean == Spec => []NoLeak
<1>1. IInv => NoLeak
  BY DEF IInv, NoLeak, Local, LocalOf, LeakOf
<1> QED BY <1>1, RelayInvariant, PTL

(* The response reaches the server in order, once, with nothing after END  *)
(* or ERROR.                                                               *)
THEOREM RelayResponses == Spec => []ResponseOrdered
<1>1. IInv => ResponseOrdered
  <2> SUFFICES ASSUME IInv, NEW r \in Ids
               PROVE  /\ \A i, j \in 1..Len(out[r]) :
                           i < j => out[r][i] < out[r][j] /\ out[r][i] < END
                      /\ ERROR \in {out[r][i] : i \in 1..Len(out[r])} => rd[r] = 0
    BY DEF ResponseOrdered
  <2>1. TypeOK /\ ResponseOf(r)
    BY DEF IInv, Local, LocalOf
  <2>2. ASSUME NEW i \in 1..Len(out[r]), out[r][i] = ERROR PROVE rd[r] = 0
    <3>1. rd[r] \in Nat /\ rd[r] < END /\ END \in Nat /\ ERROR = END + 1
      BY <2>1, Values
    <3>2. ~(ERROR <= rd[r]) /\ ERROR # END
      BY <3>1
    <3> QED BY <2>1, <2>2, <3>2 DEF ResponseOf
  <2> QED BY <2>1, <2>2 DEF ResponseOf
<1> QED BY <1>1, RelayInvariant, PTL

(* END means a complete response, unless the server closed the request,    *)
(* the upstream was reset or the link broke.                               *)
THEOREM RelayEnds == Spec => []EndMeansComplete
<1>1. IInv => EndMeansComplete
  BY DEF IInv, EndMeansComplete, Local, LocalOf, EndOf
<1> QED BY <1>1, RelayInvariant, PTL

(* The upstream gets the chunks of an upload in order and none twice.      *)
THEOREM RelayUploads == Spec => []UploadOrdered
<1>1. IInv => UploadOrdered
  <2> SUFFICES ASSUME IInv, NEW r \in Ids PROVE Rising(upgot[r] \o ub[r])
    BY DEF UploadOrdered, Rising
  <2>1. UploadOf(r) /\ TypeOK
    BY DEF IInv, Uploads
  <2>2. upgot[r] \in Seq(0..MaxUp) /\ ub[r] \in Seq(0..MaxUp)
    BY <2>1, Chunks
  <2> DEFINE m == Len(upgot[r])
             n == Len(ub[r])
             got == upgot[r] \o ub[r]
  <2>3. /\ m \in Nat /\ n \in Nat /\ Len(got) = m + n
        /\ \A i \in 1..m : got[i] = upgot[r][i]
        /\ \A i \in (m + 1)..(m + n) : got[i] = ub[r][i - m]
    BY <2>2, Joined
  <2>4. ASSUME NEW i \in 1..Len(got), NEW j \in 1..Len(got), i < j PROVE got[i] < got[j]
    <3> HIDE DEF got, m, n
    <3>1. CASE i \in 1..m /\ j \in 1..m
      BY <2>1, <2>3, <2>4, <3>1 DEF UploadOf, Rising, m
    <3>2. CASE i \in 1..m /\ j \in (m + 1)..(m + n)
      <4>1. j - m \in 1..n
        BY <2>3, <3>2
      <4> QED BY <2>1, <2>3, <3>2, <4>1 DEF UploadOf, Follows, m, n
    <3>3. CASE i \in (m + 1)..(m + n) /\ j \in (m + 1)..(m + n)
      <4>1. i - m \in 1..n /\ j - m \in 1..n /\ i - m < j - m
        BY <2>3, <2>4, <3>3
      <4> QED BY <2>1, <2>3, <3>3, <4>1 DEF UploadOf, Rising, n
    <3>4. i \in 1..m \/ i \in (m + 1)..(m + n)
      BY <2>3
    <3>5. j \in 1..m => i \in 1..m
      BY <2>3, <2>4
    <3>6. j \in 1..m \/ j \in (m + 1)..(m + n)
      BY <2>3
    <3> QED BY <3>1, <3>2, <3>3, <3>4, <3>5, <3>6
  <2> QED BY <2>4 DEF Rising
<1> QED BY <1>1, RelayInvariant, PTL

-----------------------------------------------------------------------------
(* WorkerEnd.                                                              *)

(* What a step of a request shows the server.                              *)
Quiet(r) == out'[r] = out[r] /\ (srv'[r] = 0 <=> srv[r] = 0)

LEMMA Shown ==
    ASSUME IInv, Next, NEW r \in Ids, StepOf(r)
    PROVE  \/ Quiet(r)
           \/ srv[r] = 0 /\ srv'[r] # 0 /\ out[r] = <<>> /\ out'[r] = <<>>
           \/ /\ srv[r] # 0 /\ srv'[r] = srv[r] /\ ~Answered(r)
              /\ \E f \in 1..ERROR : out'[r] = Append(out[r], f)
<1>0. TypeOK /\ LocalOf(r)
  BY DEF IInv, Local
<1>1. CASE ServerSends(r)
  <2>1. out' = out
    BY <1>1 DEF ServerSends
  <2>2. srv'[r] = srv[r] + 1 \/ srv'[r] = CLOSE + 1
    BY <1>0, <1>1 DEF ServerSends, TypeOK
  <2>3. srv'[r] # 0
    BY <1>0, <2>2, Values
  <2>4. srv[r] = 0 => out[r] = <<>>
    BY <1>0 DEF LocalOf, StageOf, NoPipe
  <2> QED BY <2>1, <2>3, <2>4 DEF Quiet
<1>2. CASE UpstreamReads(r) \/ UpstreamAnswers(r) \/ UpstreamResets(r) \/ Receives(r) \/ DrainFails
  BY <1>2 DEF Quiet, Receives, UpstreamReads, UpstreamAnswers, UpstreamResets, HandleRequest,
       HandleData, HandleDataDropped, HandleClose, DrainFails, serverVars
<1>3. CASE NewConnection(r) \/ Connected(r) \/ Refused(r) \/ InitialDrained(r) \/ InitialFails(r)
           \/ PipeStarts(r) \/ PipeReads(r) \/ PipeEof(r) \/ PipeJoined(r)
  BY <1>3 DEF Quiet, NewConnection, Connected, Refused, InitialDrained, InitialFails,
       PipeStarts, PipeReads, PipeEof, PipeJoined, serverVars
<1>4. CASE PipeSent(r) \/ PipeEnds(r) \/ ErrorSent(r)
  <2>1. srv' = srv /\ srv[r] # 0
    BY <1>0, <1>4 DEF PipeSent, PipeEnds, ErrorSent, serverVars, LocalOf, StageOf, NoPipe
  <2>2. \/ out'[r] = out[r]
        \/ out'[r] = Append(out[r], rd[r]) /\ pipe[r] = "sending"
        \/ out'[r] = Append(out[r], END)
        \/ out'[r] = Append(out[r], ERROR)
    BY <1>0, <1>4 DEF PipeSent, PipeEnds, ErrorSent, Deliver, TypeOK
  <2>3. END \in 1..ERROR /\ ERROR \in 1..ERROR
    BY Bounds
  <2>4. pipe[r] = "sending" => rd[r] \in 1..ERROR
    BY <1>0, ChunkInHand
  <2>5. pipe[r] \in {"sending", "ending"} \/ loop[r] = "erroring"
    BY <1>4 DEF PipeSent, PipeEnds, ErrorSent
  <2>6. \A i \in 1..Len(out[r]) : out[r][i] <= rd[r]
    BY <1>0, <2>5 DEF LocalOf, ResponseOf, StageOf, NoPipe
  <2>7. ~Answered(r)
    <3>1. Len(out[r]) \in Nat
      BY <1>0, Values
    <3>2. Len(out[r]) > 0 => Len(out[r]) \in 1..Len(out[r])
      BY <3>1
    <3>3. ~(END <= rd[r]) /\ ~(ERROR <= rd[r])
      BY <1>0, Values
    <3> QED BY <2>6, <3>2, <3>3 DEF Answered
  <2> QED BY <2>1, <2>2, <2>3, <2>4, <2>7 DEF Quiet
<1> QED BY <1>1, <1>2, <1>3, <1>4 DEF StepOf, TaskStep

(* A request nothing is shown of stays as it is.                           *)
LEMMA QuietKeeps == ASSUME NEW r \in Ids, Quiet(r) PROVE Served'[r] = Served[r] /\ Given'[r] = Given[r]
  BY DEF Quiet, Served, Given, Answered

LEMMA StepServes ==
    ASSUME IInv, [Next]_vars
    PROVE  [Server!Next]_<<Served, Given>>
<1>0. /\ Served = [r \in Ids |-> Served[r]] /\ Given = [r \in Ids |-> Given[r]]
      /\ Served' = [r \in Ids |-> Served'[r]] /\ Given' = [r \in Ids |-> Given'[r]]
  BY DEF Served, Given
<1>1. CASE \A r \in Ids : Quiet(r)
  <2>1. \A r \in Ids : Served'[r] = Served[r] /\ Given'[r] = Given[r]
    BY <1>1, QuietKeeps
  <2> QED BY <1>0, <2>1
<1>2. ASSUME NEW r \in Ids, StepOf(r), Next PROVE [Server!Next]_<<Served, Given>>
  <2>1. \A s \in Ids : s # r => Served'[s] = Served[s] /\ Given'[s] = Given[s]
    <3>1. \A s \in Ids : s # r => Quiet(s)
      BY <1>2, OthersSame DEF Quiet, Same, IInv
    <3> QED BY <3>1, QuietKeeps
  <2>2. CASE Quiet(r)
    <3>1. \A s \in Ids : Served'[s] = Served[s] /\ Given'[s] = Given[s]
      BY <2>1, <2>2, QuietKeeps
    <3> QED BY <1>0, <3>1
  <2>3. CASE srv[r] = 0 /\ srv'[r] # 0 /\ out[r] = <<>> /\ out'[r] = <<>>
    <3>1. Served[r] = "none" /\ Served'[r] = "serving" /\ Given'[r] = Given[r]
      BY <2>3 DEF Served, Given, Answered
    <3>2. Server!Request(r)
      BY <1>0, <2>1, <3>1 DEF Server!Request
    <3> QED BY <3>2 DEF Server!Next
  <2>4. ASSUME srv[r] # 0, srv'[r] = srv[r], ~Answered(r),
               NEW f \in 1..ERROR, out'[r] = Append(out[r], f)
        PROVE  Server!Data(r) \/ Server!End(r)
    <3>1. /\ Len(out[r]) \in Nat /\ Len(out'[r]) = Len(out[r]) + 1
          /\ out'[r][Len(out'[r])] = f
      <4>1. out[r] \in Seq(1..ERROR)
        BY DEF IInv, TypeOK
      <4> QED BY <2>4, <4>1, Appended
    <3>2. Served[r] = "serving" /\ Given[r] = Len(out[r])
      BY <2>4 DEF Served, Given
    <3>3. Len(out'[r]) > 0 /\ Len(out'[r]) - 1 = Len(out[r])
      BY <3>1
    <3>4. CASE f \in {END, ERROR}
      <4>1. Served'[r] = "ended" /\ Given'[r] = Given[r]
        BY <3>1, <3>2, <3>3, <3>4 DEF Served, Given, Answered
      <4> QED BY <1>0, <2>1, <3>2, <4>1 DEF Server!End
    <3>5. CASE f \notin {END, ERROR}
      <4>1. Served'[r] = "serving" /\ Given'[r] = Given[r] + 1
        BY <2>4, <3>1, <3>2, <3>3, <3>5 DEF Served, Given, Answered
      <4> QED BY <1>0, <2>1, <3>2, <4>1 DEF Server!Data
    <3> QED BY <3>4, <3>5
  <2> QED BY <1>2, <2>2, <2>3, <2>4, Shown DEF Server!Next
<1>3. CASE Elsewhere
  BY <1>1, <1>3, ElsewhereSame DEF Quiet, Same
<1>4. CASE CleanUpAll
  BY <1>1, <1>4 DEF CleanUpAll, Quiet
<1>5. CASE UNCHANGED vars
  BY <1>1, <1>5 DEF vars, serverVars, Quiet
<1> QED BY <1>2, <1>3, <1>4, <1>5, Steps DEF IInv

(* Two tasks per request and the connector's loop, with cancellations that *)
(* are swallowed and a link that breaks, give the server what it expects   *)
(* of a worker.                                                            *)
THEOREM RelayServes == Spec => ServesRequests
<1>1. Init => Server!Init
  BY DEF Init, Server!Init, Served, Given, Answered
<1>2. IInv /\ [Next]_vars => [Server!Next]_<<Served, Given>>
  BY StepServes
<1> QED BY <1>1, <1>2, RelayInvariant, PTL DEF Spec, ServesRequests, Server!Spec

=============================================================================
