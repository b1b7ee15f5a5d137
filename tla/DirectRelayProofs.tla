------------------------- MODULE DirectRelayProofs -------------------------
(***************************************************************************)
(* Proof that the two direct relays carry nothing from the target to the   *)
(* browser, however long the upload and the answer are.                    *)
(***************************************************************************)
EXTENDS DirectRelay, TLAPS

Inv == inb \in [Ends -> Nat] /\ NothingComesBack

(* The far ends of the connections.                                        *)
LEMMA Ways ==
    /\ \A e \in Ends : Peer[e] \in Ends
    /\ \A e \in Ends : Peer[e] = "browser" => e = "local_in"
    /\ \A e \in Ends : Peer[e] = "local_out" => e = "worker_in"
    /\ \A k \in Copies : Src[k] \in Ends \ {"browser"} /\ Dst[k] \in Ends
    /\ \A k \in Copies : Dst[k] = "local_in" => Src[k] = "local_out"
    /\ \A k \in Copies : Dst[k] = "worker_in" => k = "worker_down"
  BY DEF Peer, Src, Dst, Ends, Copies

(* A chunk written anywhere but towards the browser keeps the invariant.   *)
LEMMA ArrivesElsewhere ==
    ASSUME NEW chunks \in [Ends -> Nat],
           chunks["local_out"] = 0, chunks["browser"] = 0,
           NEW e \in Ends, e # "local_in", e # "worker_in", Arrives(e, chunks)
    PROVE  Inv'
<1>1. Peer[e] \in Ends /\ Peer[e] # "browser" /\ Peer[e] # "local_out"
  BY Ways
<1> QED BY <1>1 DEF Arrives, Inv, NothingComesBack, Ends

(* The answer of the target stays unread in the worker: relay() of         *)
(* worker_daytona.py has no copy that reads it.                            *)
THEOREM NothingEverComesBack == Spec => []NothingComesBack
<1>1. Init => Inv
  BY DEF Init, Inv, NothingComesBack, Ends
<1>2. ASSUME Inv, [Next]_vars PROVE Inv'
  <2> USE <1>2 DEF Inv, NothingComesBack
  <2>1. CASE BrowserSends
    BY <2>1, ArrivesElsewhere DEF BrowserSends, Ends
  <2>2. CASE TargetAnswers
    BY <2>2, ArrivesElsewhere DEF TargetAnswers, Ends
  <2>3. ASSUME NEW k \in Copies, CopyMoves(k) PROVE Inv'
    <3> DEFINE chunks == [inb EXCEPT ![Src[k]] = @ - 1]
    <3>1. Src[k] \in Ends /\ Src[k] # "local_out" /\ Src[k] # "browser" /\ inb[Src[k]] > 0
      BY <2>3, Ways DEF CopyMoves
    <3>2. Dst[k] \in Ends /\ Dst[k] # "local_in" /\ Dst[k] # "worker_in"
      BY <2>3, <3>1, Ways DEF CopyMoves
    <3>3. chunks \in [Ends -> Nat] /\ chunks["local_out"] = 0 /\ chunks["browser"] = 0
      BY <3>1 DEF Ends
    <3> QED BY <2>3, <3>2, <3>3, ArrivesElsewhere DEF CopyMoves
  <2>4. CASE ReadFirst \/ Connected
    BY <2>4 DEF ReadFirst, Connected, Ends
  <2>5. CASE UNCHANGED inb
    BY <2>5
  <2> QED BY <2>1, <2>2, <2>3, <2>4, <2>5 DEF Next, CodeStep, BrowserEnds, TargetCloses,
             CopyEnds, DownCopyFails, LocalConnects, LocalDone, WorkerDone, vars
<1> QED BY <1>1, <1>2, PTL DEF Spec, Inv
=============================================================================
