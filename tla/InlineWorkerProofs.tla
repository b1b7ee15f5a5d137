------------------------- MODULE InlineWorkerProofs -------------------------
(***************************************************************************)
(* Proofs about InlineWorker: its tables are clean, every task tells the   *)
(* server of its end, and it serves requests the way WorkerEnd says.       *)
(***************************************************************************)
EXTENDS InlineWorker, TLAPS

(* A request has a task only after the server has sent it, and only one:   *)
(* its REQUEST frame is in the channel once, until the task is made.       *)
OneTask ==
    /\ \A r \in Ids : srv[r] = "none" => task[r] = "none" /\ out[r] = <<>>
    /\ \A i \in 1..Len(chan) : srv[chan[i].id] # "none"
    /\ \A i \in 1..Len(chan) : chan[i].kind = "request" => task[chan[i].id] = "none"
    /\ \A i, j \in 1..Len(chan) :
         chan[i].kind = "request" /\ chan[j].kind = "request" /\ chan[i].id = chan[j].id
             => i = j

(* Nothing is sent for a request after its END or ERROR.                   *)
EndIsFinal == \A r \in Ids : Answered(r) => task[r] = "done"

(* The link is down only after it has failed.                              *)
LinkInv == link \in {"dying", "down"} => flaps > 0

(* A task that sends a chunk has read one.                                 *)
ChunkInHand == \A r \in Ids : task[r] = "sending" => rd[r] \in 1..MaxResp

IInv ==
    /\ TypeOK /\ NoLeak /\ EndIsTold
    /\ OneTask /\ EndIsFinal /\ LinkInv /\ ChunkInHand

-----------------------------------------------------------------------------
(* Facts about the channel and the frames of a request.                    *)

(* What is left of the channel when its head is taken.                     *)
LEMMA TailOfChan ==
    ASSUME NEW s \in Seq(Frames), s # <<>>
    PROVE  /\ Tail(s) \in Seq(Frames) /\ Len(Tail(s)) = Len(s) - 1
           /\ Head(s) = s[1] /\ Len(s) \in Nat \ {0}
           /\ \A i \in 1..Len(Tail(s)) : Tail(s)[i] = s[i + 1] /\ i + 1 \in 1..Len(s)
  OBVIOUS

(* A frame of a response appended to it is its last one.                   *)
LEMMA AppendFrame ==
    ASSUME NEW s \in Seq(1..ERROR), NEW f \in 1..ERROR
    PROVE  /\ Append(s, f) \in Seq(1..ERROR)
           /\ Len(Append(s, f)) = Len(s) + 1 /\ Len(s) \in Nat
           /\ Append(s, f)[Len(s) + 1] = f
  OBVIOUS

-----------------------------------------------------------------------------
LEMMA InitInv == Init => IInv
<1> SUFFICES ASSUME Init PROVE IInv
  OBVIOUS
<1>1. TypeOK
  <2>1. 0 \in 0..MaxResp /\ 0 \in 0..MaxFlaps
    BY InlineAssumption
  <2> QED BY <2>1 DEF Init, TypeOK, Frames
<1>2. NoLeak /\ EndIsTold /\ OneTask /\ EndIsFinal /\ LinkInv /\ ChunkInHand
  BY DEF Init, NoLeak, EndIsTold, OneTask, EndIsFinal, LinkInv, ChunkInHand, Answered
<1> QED BY <1>1, <1>2 DEF IInv

(* A step that moves the task of one request that is not over, and touches *)
(* neither the channel nor the frames delivered.                           *)
Moves(r) ==
    /\ task[r] \notin {"none", "done", "dead"}
    /\ task'[r] \notin {"none", "done"}
    /\ \A s \in Ids : s # r => task'[s] = task[s]
    /\ UNCHANGED <<serverVars, out, linkVars>>

(* It disturbs only the types and the tables.                              *)
LEMMA MovesKeep ==
    ASSUME IInv, NEW r \in Ids, Moves(r), TypeOK', NoLeak', ChunkInHand'
    PROVE  IInv'
<1>1. LinkInv' /\ \A s \in Ids : Answered(s)' = Answered(s)
  BY DEF Moves, IInv, LinkInv, linkVars, Answered
<1>a. EndIsTold'
  BY <1>1 DEF Moves, IInv, EndIsTold, linkVars
<1>b. EndIsFinal'
  BY <1>1 DEF Moves, IInv, EndIsFinal
<1>2. OneTask'
  <2>1. /\ UNCHANGED <<srv, chan, out>> /\ \A i \in 1..Len(chan) : chan[i] \in Frames
        /\ \A s \in Ids : task[s] = "none" => task'[s] = "none"
        /\ srv[r] # "none"
    BY DEF Moves, IInv, TypeOK, OneTask, serverVars
  <2>2. \A s \in Ids : srv[s] = "none" => task'[s] = "none"
    BY <2>1 DEF IInv, OneTask
  <2>3. \A i \in 1..Len(chan) : chan[i].kind = "request" => task'[chan[i].id] = "none"
    BY <2>1 DEF IInv, OneTask, Frames
  <2> QED BY <2>1, <2>2, <2>3 DEF IInv, OneTask
<1> QED BY <1>1, <1>a, <1>b, <1>2 DEF IInv

LEMMA TaskMoves ==
    ASSUME IInv, NEW r \in Ids,
           \/ CannotParse(r) \/ Connects(r) \/ Refused(r) \/ Connected(r)
           \/ DrainRaises(r) \/ Reads(r) \/ ReadEnds(r)
    PROVE  IInv'
<1>1. CASE CannotParse(r)
  <2>1. TypeOK'
    BY <1>1 DEF CannotParse, Goto, IInv, TypeOK, serverVars, targetVars, linkVars
  <2>2. Moves(r)
    BY <1>1 DEF CannotParse, Goto, Moves, IInv, TypeOK
  <2>3. NoLeak'
    BY <1>1 DEF CannotParse, Goto, IInv, TypeOK, NoLeak, targetVars
  <2>4. ChunkInHand'
    BY <1>1 DEF CannotParse, Goto, IInv, TypeOK, ChunkInHand
  <2> QED BY <2>1, <2>2, <2>3, <2>4, MovesKeep
<1>2. CASE Connects(r)
  <2>1. TypeOK'
    BY <1>2 DEF Connects, Goto, IInv, TypeOK, serverVars, targetVars, linkVars
  <2>2. Moves(r)
    BY <1>2 DEF Connects, Goto, Moves, IInv, TypeOK
  <2>3. NoLeak'
    BY <1>2 DEF Connects, Goto, IInv, TypeOK, NoLeak, targetVars
  <2>4. ChunkInHand'
    BY <1>2 DEF Connects, Goto, IInv, TypeOK, ChunkInHand
  <2> QED BY <2>1, <2>2, <2>3, <2>4, MovesKeep
<1>3. CASE Refused(r)
  <2>1. TypeOK'
    BY <1>3 DEF Refused, Goto, IInv, TypeOK, serverVars, targetVars, linkVars
  <2>2. Moves(r)
    BY <1>3 DEF Refused, Goto, Moves, IInv, TypeOK
  <2>3. NoLeak'
    BY <1>3 DEF Refused, Goto, IInv, TypeOK, NoLeak, targetVars
  <2>4. ChunkInHand'
    BY <1>3 DEF Refused, Goto, IInv, TypeOK, ChunkInHand
  <2> QED BY <2>1, <2>2, <2>3, <2>4, MovesKeep
<1>4. CASE Connected(r)
  <2>1. TypeOK'
    BY <1>4 DEF Connected, Goto, IInv, TypeOK, serverVars, targetVars, linkVars
  <2>2. Moves(r)
    BY <1>4 DEF Connected, Goto, Moves, IInv, TypeOK
  <2>3. NoLeak'
    BY <1>4 DEF Connected, Goto, IInv, TypeOK, NoLeak, targetVars
  <2>4. ChunkInHand'
    BY <1>4 DEF Connected, Goto, IInv, TypeOK, ChunkInHand
  <2> QED BY <2>1, <2>2, <2>3, <2>4, MovesKeep
<1>5. CASE DrainRaises(r)
  <2>1. TypeOK'
    BY <1>5 DEF DrainRaises, Goto, IInv, TypeOK, serverVars, targetVars, linkVars
  <2>2. Moves(r)
    BY <1>5 DEF DrainRaises, Goto, Moves, IInv, TypeOK
  <2>3. NoLeak'
    BY <1>5 DEF DrainRaises, Goto, IInv, TypeOK, NoLeak, targetVars
  <2>4. ChunkInHand'
    BY <1>5 DEF DrainRaises, Goto, IInv, TypeOK, ChunkInHand
  <2> QED BY <2>1, <2>2, <2>3, <2>4, MovesKeep
<1>6. CASE Reads(r)
  <2>0. rd[r] + 1 \in 0..MaxResp
    BY <1>6, InlineAssumption DEF Reads, IInv, TypeOK
  <2>1. TypeOK'
    BY <1>6, <2>0 DEF Reads, Goto, IInv, TypeOK, serverVars, targetVars, linkVars
  <2>2. Moves(r)
    BY <1>6 DEF Reads, Goto, Moves, IInv, TypeOK
  <2>3. NoLeak'
    BY <1>6 DEF Reads, Goto, IInv, TypeOK, NoLeak, targetVars
  <2>4. ChunkInHand'
    BY <1>6, InlineAssumption DEF Reads, Goto, IInv, TypeOK, ChunkInHand
  <2> QED BY <2>1, <2>2, <2>3, <2>4, MovesKeep
<1>7. CASE ReadEnds(r)
  <2>1. TypeOK'
    BY <1>7 DEF ReadEnds, Goto, IInv, TypeOK, serverVars, targetVars, linkVars
  <2>2. Moves(r)
    BY <1>7 DEF ReadEnds, Goto, Moves, IInv, TypeOK
  <2>3. NoLeak'
    BY <1>7 DEF ReadEnds, Goto, IInv, TypeOK, NoLeak, targetVars
  <2>4. ChunkInHand'
    BY <1>7 DEF ReadEnds, Goto, IInv, TypeOK, ChunkInHand
  <2> QED BY <2>1, <2>2, <2>3, <2>4, MovesKeep
<1> QED BY <1>1, <1>2, <1>3, <1>4, <1>5, <1>6, <1>7

-----------------------------------------------------------------------------
(* The three ways out of a task that send: what is sent for a request is   *)
(* its last frame, and only END and ERROR end its task.                    *)
LEMMA SendKeeps ==
    ASSUME IInv, NEW r \in Ids, NEW f \in 1..ERROR, Deliver(r, f),
           task[r] \notin {"none", "done", "dead"},
           NEW place \in {"reading", "done"}, Goto(r, place),
           place = "reading" => task[r] = "sending" /\ f \notin {END, ERROR},
           place = "done" => task[r] \in {"ending", "erroring"} /\ f \in {END, ERROR},
           UNCHANGED <<serverVars, active, targetVars, rd, linkVars>>
    PROVE  IInv'
<1> USE DEF Deliver, Goto
<1>1. /\ UNCHANGED <<srv, chan, active, wr, made, eof, rd, link, flaps>>
      /\ \A s \in Ids : s # r => out'[s] = out[s] /\ task'[s] = task[s]
      /\ task'[r] = place /\ out'[r] \in {out[r], Append(out[r], f)}
      /\ link = "up" => out'[r] = Append(out[r], f)
      /\ out[r] \in Seq(1..ERROR) /\ ~Answered(r)
  BY DEF IInv, TypeOK, EndIsFinal, serverVars, targetVars, linkVars
<1>2. TypeOK'
  <2>1. out' \in [Ids -> Seq(1..ERROR)]
    BY AppendFrame DEF IInv, TypeOK
  <2> QED BY <1>1, <2>1 DEF IInv, TypeOK
<1>3. /\ \A s \in Ids : s # r => Answered(s)' = Answered(s)
      /\ link = "up" => (Answered(r)' <=> place = "done")
      /\ Answered(r)' => place = "done"
  <2>1. /\ Append(out[r], f)[Len(Append(out[r], f))] = f
        /\ Len(Append(out[r], f)) > 0
    BY <1>1, AppendFrame
  <2> QED BY <1>1, <2>1 DEF Answered
<1>4. NoLeak'
  BY <1>1 DEF IInv, TypeOK, NoLeak
<1>5. EndIsTold' /\ EndIsFinal'
  BY <1>1, <1>3 DEF IInv, TypeOK, EndIsTold, EndIsFinal, LinkInv
<1>6. LinkInv' /\ ChunkInHand'
  BY <1>1 DEF IInv, LinkInv, ChunkInHand
<1>7. OneTask'
  <2>1. /\ \A i \in 1..Len(chan) : chan[i] \in Frames
        /\ \A s \in Ids : task[s] = "none" => task'[s] = "none"
        /\ srv[r] # "none"
    BY <1>1 DEF IInv, OneTask, TypeOK
  <2>2. \A s \in Ids : srv[s] = "none" => task'[s] = "none" /\ out'[s] = <<>>
    BY <1>1, <2>1 DEF IInv, OneTask
  <2>3. \A i \in 1..Len(chan) : chan[i].kind = "request" => task'[chan[i].id] = "none"
    BY <2>1 DEF IInv, OneTask, Frames
  <2> QED BY <1>1, <2>1, <2>2, <2>3 DEF IInv, OneTask
<1> QED BY <1>2, <1>4, <1>5, <1>6, <1>7 DEF IInv

LEMMA TaskSends ==
    ASSUME IInv, NEW r \in Ids, SendData(r) \/ SendEnd(r) \/ SendError(r)
    PROVE  IInv'
<1>1. END \in 1..ERROR /\ ERROR \in 1..ERROR /\ \A n \in 1..MaxResp : n \in 1..ERROR /\ n \notin {END, ERROR}
  BY InlineAssumption DEF END, ERROR
<1>2. CASE SendData(r)
  BY <1>1, <1>2, SendKeeps DEF SendData, IInv, ChunkInHand
<1>3. CASE SendEnd(r)
  BY <1>1, <1>3, SendKeeps DEF SendEnd
<1>4. CASE SendError(r)
  BY <1>1, <1>4, SendKeeps DEF SendError
<1> QED BY <1>2, <1>3, <1>4

-----------------------------------------------------------------------------
(* The reading side.  A frame taken from the channel leaves the others     *)
(* where they were relative to each other.                                 *)
LEMMA TailKeeps ==
    ASSUME IInv, NEW r \in Ids, NEW k \in {"request", "data", "close"}, Reading(r, k),
           chan' = Tail(chan), UNCHANGED <<srv, out>>,
           \A s \in Ids : task'[s] = task[s] \/ (s = r /\ k = "request")
    PROVE  OneTask' /\ chan' \in Seq(Frames) /\ srv[r] # "none"
           /\ (k = "request" => task[r] = "none")
<1>1. chan \in Seq(Frames) /\ chan # <<>>
  BY DEF IInv, TypeOK, Reading
<1>2. /\ Tail(chan) \in Seq(Frames) /\ Len(Tail(chan)) = Len(chan) - 1
      /\ Head(chan) = chan[1] /\ Len(chan) \in Nat \ {0} /\ 1 \in 1..Len(chan)
      /\ \A i \in 1..Len(Tail(chan)) : Tail(chan)[i] = chan[i + 1] /\ i + 1 \in 1..Len(chan)
  BY <1>1, TailOfChan
<1>3. /\ chan[1].id = r /\ chan[1].kind = k
      /\ \A i \in 1..Len(chan) : chan[i].id \in Ids
  <2>1. Head(chan) = [id |-> r, kind |-> k]
    BY DEF Reading
  <2>2. \A i \in 1..Len(chan) : chan[i] \in Frames
    BY <1>1
  <2> QED BY <1>2, <2>1, <2>2 DEF Frames
<1>4. srv[r] # "none" /\ (k = "request" => task[r] = "none")
  BY <1>2, <1>3 DEF IInv, OneTask
<1>5. \A i \in 1..Len(chan') : chan'[i] = chan[i + 1] /\ i + 1 \in 1..Len(chan) /\ i + 1 # 1 /\ i \in Nat
  BY <1>2
<1>6. \A s \in Ids : srv'[s] = "none" => task'[s] = "none" /\ out'[s] = <<>>
  BY <1>4 DEF IInv, OneTask
<1>7. \A i \in 1..Len(chan') : srv'[chan'[i].id] # "none"
  BY <1>5 DEF IInv, OneTask
<1>8. \A i \in 1..Len(chan') : chan'[i].kind = "request" => task'[chan'[i].id] = "none"
  <2> SUFFICES ASSUME NEW i \in 1..Len(chan'), chan'[i].kind = "request"
               PROVE  task'[chan'[i].id] = "none"
    OBVIOUS
  <2>1. task[chan[i + 1].id] = "none" /\ chan[i + 1].id \in Ids
    BY <1>3, <1>5 DEF IInv, OneTask
  <2>2. k = "request" => chan[i + 1].id # r
    BY <1>2, <1>3, <1>5 DEF IInv, OneTask
  <2> QED BY <1>5, <2>1, <2>2
<1>9. \A i, j \in 1..Len(chan') :
        chan'[i].kind = "request" /\ chan'[j].kind = "request" /\ chan'[i].id = chan'[j].id
            => i = j
  <2> SUFFICES ASSUME NEW i \in 1..Len(chan'), NEW j \in 1..Len(chan'),
                      chan'[i].kind = "request", chan'[j].kind = "request",
                      chan'[i].id = chan'[j].id
               PROVE  i = j
    OBVIOUS
  <2>1. i + 1 = j + 1
    BY <1>5 DEF IInv, OneTask
  <2> QED BY <1>5, <2>1
<1> QED BY <1>2, <1>4, <1>6, <1>7, <1>8, <1>9 DEF OneTask

LEMMA FrameRead ==
    ASSUME IInv, NEW r \in Ids, ReadRequest(r) \/ ReadData(r) \/ ReadClose(r)
    PROVE  IInv'
<1>1. CASE ReadRequest(r)
  <2>1. OneTask' /\ chan' \in Seq(Frames) /\ srv[r] # "none" /\ task[r] = "none"
    BY <1>1, TailKeeps DEF ReadRequest, IInv, TypeOK
  <2>2. ~Answered(r) /\ r \notin active
    BY <2>1 DEF IInv, EndIsFinal, NoLeak
  <2>3. TypeOK' /\ NoLeak' /\ ChunkInHand'
    BY <1>1, <2>1, <2>2 DEF ReadRequest, IInv, TypeOK, NoLeak, ChunkInHand, targetVars, linkVars
  <2>4. EndIsTold' /\ EndIsFinal' /\ LinkInv'
    BY <1>1, <2>2 DEF ReadRequest, IInv, TypeOK, EndIsTold, EndIsFinal, LinkInv, linkVars, Answered
  <2> QED BY <2>1, <2>3, <2>4 DEF IInv
<1>2. CASE ReadData(r)
  <2>1. OneTask' /\ chan' \in Seq(Frames)
    <3>1. Reading(r, "data") /\ chan' = Tail(chan) /\ UNCHANGED <<srv, task, out>>
      BY <1>2 DEF ReadData
    <3> QED BY <3>1, TailKeeps
  <2>2. TypeOK' /\ NoLeak' /\ ChunkInHand'
    BY <1>2, <2>1 DEF ReadData, IInv, TypeOK, NoLeak, ChunkInHand, targetVars, linkVars
  <2>3. EndIsTold' /\ EndIsFinal' /\ LinkInv'
    BY <1>2 DEF ReadData, IInv, EndIsTold, EndIsFinal, LinkInv, linkVars, Answered
  <2> QED BY <2>1, <2>2, <2>3 DEF IInv
<1>3. CASE ReadClose(r)
  <2>1. OneTask' /\ chan' \in Seq(Frames)
    <3>1. Reading(r, "close") /\ chan' = Tail(chan) /\ UNCHANGED <<srv, task, out>>
      BY <1>3 DEF ReadClose
    <3> QED BY <3>1, TailKeeps
  <2>2. TypeOK'
    <3>1. made' \in [Ids -> 0..MaxResp] /\ wr' \in [Ids -> {"none", "open", "closed", "lost"}]
      <4>1. \A n \in rd[r]..made[r] : n \in 0..MaxResp
        BY InlineAssumption DEF IInv, TypeOK
      <4> QED BY <1>3, <4>1 DEF ReadClose, IInv, TypeOK
    <3> QED BY <1>3, <2>1, <3>1 DEF ReadClose, IInv, TypeOK, linkVars
  <2>3. NoLeak' /\ ChunkInHand'
    BY <1>3 DEF ReadClose, IInv, TypeOK, NoLeak, ChunkInHand
  <2>4. EndIsTold' /\ EndIsFinal' /\ LinkInv'
    BY <1>3 DEF ReadClose, IInv, EndIsTold, EndIsFinal, LinkInv, linkVars, Answered
  <2> QED BY <2>1, <2>2, <2>3, <2>4 DEF IInv
<1> QED BY <1>1, <1>2, <1>3

(* Frames that come last or get lost leave a channel that is in order.     *)
LEMMA ServerStep ==
    ASSUME IInv, NEW r \in Ids, ServerSends(r)
    PROVE  IInv'
<1> PICK k \in {"request", "data", "close"} :
      /\ srv[r] \in (IF k = "request" THEN {"none"} ELSE {"requested"})
      /\ chan' = Append(chan, [id |-> r, kind |-> k])
      /\ srv' = [srv EXCEPT ![r] = IF k = "close" THEN "closed" ELSE "requested"]
  BY DEF ServerSends
<1> DEFINE f == [id |-> r, kind |-> k]
<1>1. f \in Frames /\ chan \in Seq(Frames) /\ srv \in [Ids -> {"none", "requested", "closed"}]
  BY DEF Frames, IInv, TypeOK
<1>2. /\ chan' \in Seq(Frames) /\ Len(chan') = Len(chan) + 1 /\ Len(chan) \in Nat
      /\ chan'[Len(chan) + 1] = f
      /\ \A i \in 1..Len(chan) : chan'[i] = chan[i] /\ chan[i].id \in Ids
  <2>1. \A i \in 1..Len(chan) : chan[i] \in Frames
    BY <1>1
  <2>2. /\ chan' \in Seq(Frames) /\ Len(chan') = Len(chan) + 1 /\ Len(chan) \in Nat
        /\ chan'[Len(chan) + 1] = f
        /\ \A i \in 1..Len(chan) : chan'[i] = chan[i]
    <3>1. chan' = Append(chan, f)
      OBVIOUS
    <3> HIDE DEF f
    <3> QED BY <1>1, <3>1
  <2> QED BY <2>1, <2>2 DEF Frames
<1>3. UNCHANGED <<task, active, targetVars, rd, out, linkVars>>
  BY DEF ServerSends
<1>4. srv'[r] # "none" /\ \A s \in Ids : s # r => srv'[s] = srv[s]
  BY <1>1
<1>5. TypeOK' /\ NoLeak' /\ ChunkInHand'
  BY <1>1, <1>2, <1>3 DEF IInv, TypeOK, NoLeak, ChunkInHand, targetVars, linkVars
<1>6. EndIsTold' /\ EndIsFinal' /\ LinkInv'
  BY <1>3 DEF IInv, EndIsTold, EndIsFinal, LinkInv, linkVars, Answered
<1>7. OneTask'
  <2>1. \A i \in 1..Len(chan') : i \in 1..Len(chan) \/ i = Len(chan) + 1
    BY <1>2
  <2>2. \A i \in 1..Len(chan') : srv'[chan'[i].id] # "none"
    BY <1>2, <1>4, <2>1 DEF IInv, OneTask
  <2>3. k = "request" => task[r] = "none" /\ \A i \in 1..Len(chan) : chan[i].id # r
    BY DEF IInv, OneTask
  <2>4. \A i \in 1..Len(chan') : chan'[i].kind = "request" => task'[chan'[i].id] = "none"
    BY <1>2, <1>3, <2>1, <2>3 DEF IInv, OneTask
  <2>5. \A i, j \in 1..Len(chan') :
          chan'[i].kind = "request" /\ chan'[j].kind = "request" /\ chan'[i].id = chan'[j].id
              => i = j
    BY <1>2, <2>1, <2>3 DEF IInv, OneTask
  <2>6. \A s \in Ids : srv'[s] = "none" => task'[s] = "none" /\ out'[s] = <<>>
    BY <1>3, <1>4 DEF IInv, OneTask
  <2> QED BY <2>2, <2>4, <2>5, <2>6 DEF OneTask
<1> QED BY <1>5, <1>6, <1>7 DEF IInv

LEMMA LinkStep ==
    ASSUME IInv, LinkDies \/ LinkDown \/ LinkBack
    PROVE  IInv'
<1>1. UNCHANGED <<srv, task, active, targetVars, rd, out>>
  BY DEF LinkDies, LinkDown, LinkBack, serverVars
<1>2. PICK n \in 0..Len(chan) : chan' = SubSeq(chan, 1, n) \/ chan' = <<>> \/ chan' = chan
  BY DEF LinkDies, LinkDown, LinkBack, serverVars, IInv, TypeOK
<1>3. /\ chan' \in Seq(Frames) /\ Len(chan') <= Len(chan) /\ Len(chan) \in Nat
      /\ \A i \in 1..Len(chan') : chan'[i] = chan[i] /\ i \in 1..Len(chan)
  <2>1. chan \in Seq(Frames) /\ Len(chan) \in Nat
    BY DEF IInv, TypeOK
  <2>2. CASE chan' = SubSeq(chan, 1, n)
    <3>1. chan' \in Seq(Frames) /\ Len(chan') = n
      BY <2>1, <2>2
    <3>2. \A i \in 1..n : i \in 1..Len(chan) /\ chan'[i] = chan[i]
      BY <2>1, <2>2
    <3>3. Len(chan') <= Len(chan)
      BY <2>1, <3>1
    <3> QED BY <2>1, <3>1, <3>2, <3>3
  <2>3. CASE chan' = <<>>
    BY <2>1, <2>3
  <2>4. CASE chan' = chan
    BY <2>1, <2>4
  <2> QED BY <1>2, <2>2, <2>3, <2>4
<1>4. link' \in {"up", "dying", "down"} /\ flaps' \in 0..MaxFlaps /\ flaps' \in Nat
      /\ (flaps' = flaps \/ (flaps' > 0 /\ link = "up")) /\ link # "stopped"
      /\ (link' \in {"dying", "down"} => flaps' > 0)
  <2>1. flaps \in Nat /\ MaxFlaps \in Nat /\ flaps <= MaxFlaps
    BY InlineAssumption DEF IInv, TypeOK
  <2>2. CASE LinkDies
    BY <2>1, <2>2 DEF LinkDies
  <2>3. CASE LinkDown
    BY <2>1, <2>3 DEF LinkDown, IInv, LinkInv
  <2>4. CASE LinkBack
    BY <2>1, <2>4 DEF LinkBack
  <2> QED BY <2>2, <2>3, <2>4
<1>5. TypeOK' /\ NoLeak' /\ ChunkInHand'
  <2>1. TypeOK'
    BY <1>1, <1>3, <1>4 DEF IInv, TypeOK, targetVars
  <2>2. NoLeak' /\ ChunkInHand'
    BY <1>1, <1>3, <1>4 DEF IInv, NoLeak, ChunkInHand, targetVars
  <2> QED BY <2>1, <2>2
<1>6. EndIsTold' /\ EndIsFinal' /\ LinkInv'
  BY <1>1, <1>4 DEF IInv, EndIsTold, EndIsFinal, LinkInv, Answered
<1>7. OneTask'
  <2>1. \A i \in 1..Len(chan') : /\ chan[i].kind = chan'[i].kind /\ chan[i].id = chan'[i].id
                                /\ i \in 1..Len(chan)
    BY <1>3
  <2>2. /\ \A i \in 1..Len(chan') : srv'[chan'[i].id] # "none"
        /\ \A i \in 1..Len(chan') : chan'[i].kind = "request" => task'[chan'[i].id] = "none"
    BY <1>1, <2>1 DEF IInv, OneTask
  <2>3. \A i, j \in 1..Len(chan') :
          chan'[i].kind = "request" /\ chan'[j].kind = "request" /\ chan'[i].id = chan'[j].id
              => i = j
    BY <2>1 DEF IInv, OneTask
  <2>4. \A s \in Ids : srv'[s] = "none" => task'[s] = "none" /\ out'[s] = <<>>
    BY <1>1 DEF IInv, OneTask
  <2> QED BY <2>2, <2>3, <2>4 DEF OneTask
<1> QED BY <1>5, <1>6, <1>7 DEF IInv

LEMMA TargetStep ==
    ASSUME IInv, NEW r \in Ids, TargetAnswers(r) \/ TargetResets(r)
    PROVE  IInv'
<1>1. UNCHANGED <<srv, chan, task, active, rd, out, link, flaps>>
  BY DEF TargetAnswers, TargetResets, serverVars, linkVars
<1>2. made' \in [Ids -> 0..MaxResp] /\ eof' \in [Ids -> BOOLEAN]
  <2>1. made[r] < MaxResp => made[r] + 1 \in 0..MaxResp
    BY InlineAssumption DEF IInv, TypeOK
  <2> QED BY <2>1 DEF TargetAnswers, TargetResets, IInv, TypeOK
<1>3. TypeOK' /\ NoLeak'
  BY <1>1, <1>2 DEF TargetAnswers, TargetResets, IInv, TypeOK, NoLeak
<1>4. EndIsTold' /\ EndIsFinal' /\ LinkInv' /\ OneTask' /\ ChunkInHand'
  BY <1>1 DEF IInv, EndIsTold, EndIsFinal, LinkInv, OneTask, ChunkInHand, Answered
<1> QED BY <1>3, <1>4 DEF IInv

LEMMA StopStep == ASSUME IInv, Stop PROVE IInv'
<1>1. TypeOK' /\ ChunkInHand'
  BY DEF Stop, IInv, TypeOK, ChunkInHand
<1>2. NoLeak'
  BY DEF Stop, IInv, TypeOK, NoLeak
<1>3. EndIsTold' /\ EndIsFinal' /\ LinkInv' /\ OneTask'
  BY DEF Stop, IInv, TypeOK, EndIsTold, EndIsFinal, LinkInv, OneTask, Answered
<1> QED BY <1>1, <1>2, <1>3 DEF IInv
-----------------------------------------------------------------------------
LEMMA NextInv == ASSUME IInv, [Next]_vars PROVE IInv'
<1>1. CASE Next
  BY <1>1, FrameRead, LinkStep, StopStep, TaskMoves, TaskSends, ServerStep, TargetStep
     DEF Next, RunStep, TaskStep
<1>2. CASE UNCHANGED vars
  BY <1>2 DEF vars, serverVars, targetVars, linkVars, IInv, TypeOK, NoLeak, EndIsTold,
     OneTask, EndIsFinal, LinkInv, ChunkInHand, Answered
<1> QED BY <1>1, <1>2

(* The inductive invariant, for any requests and bounds.                   *)
THEOREM InlineInvariant == Spec => []IInv
<1>1. Init => IInv
  BY InitInv
<1>2. IInv /\ [Next]_vars => IInv'
  BY NextInv
<1> QED BY <1>1, <1>2, PTL DEF Spec

(* Frames, tasks, tables and writers have their types (InlineWorker).      *)
THEOREM InlineTypes == Spec => []TypeOK
<1>1. IInv => TypeOK
  BY DEF IInv
<1> QED BY <1>1, InlineInvariant, PTL

(* CLOSE and the finally block of _handle_request leave no writer and no   *)
(* entry of _active behind, except after a drain() that raised.            *)
THEOREM InlineTablesClean == Spec => []NoLeak
<1>1. IInv => NoLeak
  BY DEF IInv
<1> QED BY <1>1, InlineInvariant, PTL

(* A task of _handle_request that comes to its end has told the server.    *)
THEOREM InlineEndIsTold == Spec => []EndIsTold
<1>1. IInv => EndIsTold
  BY DEF IInv
<1> QED BY <1>1, InlineInvariant, PTL

-----------------------------------------------------------------------------
(* The refinement of WorkerEnd.                                            *)

(* A step that delivers nothing and sends no REQUEST stutters.             *)
LEMMA QuietStep ==
    ASSUME UNCHANGED <<srv, out>> \/ UNCHANGED <<serverVars, out>>
    PROVE  UNCHANGED <<Served, Given>>
<1>1. UNCHANGED <<srv, out>>
  BY DEF serverVars
<1> QED BY <1>1 DEF Served, Given, Answered

(* A delivered chunk is a Data step, END and ERROR are End steps.          *)
LEMMA SendServes ==
    ASSUME IInv, NEW r \in Ids, NEW f \in 1..ERROR, Deliver(r, f), UNCHANGED srv,
           task[r] \notin {"none", "done", "dead"}
    PROVE  [Server!Next]_<<Served, Given>>
<1>1. CASE link # "up"
  BY <1>1, QuietStep DEF Deliver
<1>2. CASE link = "up"
  <2>1. /\ out' = [out EXCEPT ![r] = Append(@, f)] /\ out[r] \in Seq(1..ERROR)
        /\ ~Answered(r) /\ srv[r] # "none" /\ out \in [Ids -> Seq(1..ERROR)]
    BY <1>2 DEF Deliver, IInv, TypeOK, EndIsFinal, OneTask
  <2>2. /\ out'[r] = Append(out[r], f)
        /\ Len(out'[r]) = Len(out[r]) + 1 /\ Len(out[r]) \in Nat
        /\ out'[r][Len(out'[r])] = f
        /\ \A s \in Ids : s # r => out'[s] = out[s]
    BY <2>1, AppendFrame
  <2>3. /\ Answered(r)' <=> f \in {END, ERROR}
        /\ \A s \in Ids : s # r => Answered(s)' = Answered(s)
    BY <2>2 DEF Answered, END, ERROR
  <2>4. Served[r] = "serving" /\ Given[r] = Len(out[r])
    BY <2>1 DEF Served, Given
  <2>5. CASE f \in {END, ERROR}
    <3>1. Served' = [Served EXCEPT ![r] = "ended"]
      BY <2>3, <2>5 DEF Served
    <3>2. Given' = Given
      BY <2>1, <2>2, <2>3, <2>5 DEF Given
    <3> QED BY <2>4, <3>1, <3>2 DEF Server!Next, Server!End
  <2>6. CASE f \notin {END, ERROR}
    <3>1. Served' = Served
      BY <2>1, <2>3, <2>6 DEF Served
    <3>2. Given' = [Given EXCEPT ![r] = @ + 1]
      BY <2>1, <2>2, <2>3, <2>6 DEF Given
    <3> QED BY <2>4, <3>1, <3>2 DEF Server!Next, Server!Data
  <2> QED BY <2>5, <2>6
<1> QED BY <1>1, <1>2

LEMMA RequestServes ==
    ASSUME IInv, NEW r \in Ids, ServerSends(r)
    PROVE  [Server!Next]_<<Served, Given>>
<1>1. /\ out' = out /\ srv \in [Ids -> {"none", "requested", "closed"}]
      /\ srv[r] = "none" => Len(out[r]) = 0
      /\ \A s \in Ids : Answered(s)' = Answered(s)
  BY DEF ServerSends, IInv, TypeOK, OneTask, Answered
<1>2. \/ srv[r] = "none" /\ srv' = [srv EXCEPT ![r] = "requested"]
      \/ srv[r] = "requested" /\ srv' = [srv EXCEPT ![r] = "requested"]
      \/ srv[r] = "requested" /\ srv' = [srv EXCEPT ![r] = "closed"]
  BY DEF ServerSends
<1>3. Given' = Given
  BY <1>1 DEF Given
<1>4. CASE srv[r] # "none"
  <2>1. Served' = Served
    BY <1>1, <1>2, <1>4 DEF Served
  <2> QED BY <1>3, <2>1
<1>5. CASE srv[r] = "none"
  <2>1. ~Answered(r) /\ Served[r] = "none"
    BY <1>1, <1>5 DEF Served, Answered
  <2>2. Served' = [Served EXCEPT ![r] = "serving"]
    BY <1>1, <1>2, <1>5, <2>1 DEF Served
  <2> QED BY <1>3, <2>1, <2>2 DEF Server!Next, Server!Request
<1> QED BY <1>4, <1>5

LEMMA StepServes == ASSUME IInv, [Next]_vars PROVE [Server!Next]_<<Served, Given>>
<1> USE QuietStep
<1>1. CASE RunStep
  BY <1>1 DEF RunStep, ReadRequest, ReadData, ReadClose, LinkDown, LinkBack
<1>2. CASE Stop \/ LinkDies \/ \E r \in Ids : TargetAnswers(r) \/ TargetResets(r)
  BY <1>2 DEF Stop, LinkDies, TargetAnswers, TargetResets
<1>3. ASSUME NEW r \in Ids, TaskStep(r) PROVE [Server!Next]_<<Served, Given>>
  <2>1. CASE SendData(r) \/ SendEnd(r) \/ SendError(r)
    <3>1. /\ END \in 1..ERROR /\ ERROR \in 1..ERROR
          /\ \A n \in 1..MaxResp : n \in 1..ERROR
      BY InlineAssumption DEF END, ERROR
    <3>2. UNCHANGED srv /\ task[r] \notin {"none", "done", "dead"}
      BY <2>1 DEF SendData, SendEnd, SendError, serverVars
    <3>3. \E f \in 1..ERROR : Deliver(r, f)
      BY <2>1, <3>1 DEF SendData, SendEnd, SendError, IInv, ChunkInHand
    <3> QED BY <3>2, <3>3, SendServes
  <2>2. CASE ~(SendData(r) \/ SendEnd(r) \/ SendError(r))
    BY <1>3, <2>2 DEF TaskStep, CannotParse, Connects, Refused, Connected, DrainRaises,
       Reads, ReadEnds
  <2> QED BY <2>1, <2>2
<1>4. ASSUME NEW r \in Ids, ServerSends(r) PROVE [Server!Next]_<<Served, Given>>
  BY <1>4, RequestServes
<1>5. CASE UNCHANGED vars
  BY <1>5 DEF vars
<1> QED BY <1>1, <1>2, <1>3, <1>4, <1>5 DEF Next

(* Each task of the worker in the standalone relay serves its request the  *)
(* way the server of relay_server.py expects it: DATA only after REQUEST,  *)
(* nothing after END or ERROR.                                             *)
THEOREM InlineServes == Spec => ServesRequests
<1>1. Init => Server!Init
  BY DEF Init, Server!Init, Served, Given, Answered
<1>2. IInv /\ [Next]_vars => [Server!Next]_<<Served, Given>>
  BY StepServes
<1> QED BY <1>1, <1>2, InlineInvariant, PTL DEF Spec, ServesRequests, Server!Spec
=============================================================================
