----------------------------- MODULE WorkerEnd -----------------------------
(***************************************************************************)
(* What the relay server expects of whatever serves its requests           *)
(* (server/worker_bridge.py _process_worker_message puts the frames of a   *)
(* request in its queue, server/relay_server.py _response_relay acts on    *)
(* them): DATA for requests it has sent only, then at most one END or      *)
(* ERROR, which ends the request for good.                                 *)
(*                                                                         *)
(* Module RelayServer has these two steps for its worker's end.  TCPRelay  *)
(* and InlineWorker, the two workers of the repository, implement them.    *)
(***************************************************************************)
EXTENDS Naturals

CONSTANT Ids        \* request ids

VARIABLES
    wk,             \* each request: "none", "serving" or "ended"
    data            \* DATA frames the server has been given

Init ==
    /\ wk = [r \in Ids |-> "none"]
    /\ data = [r \in Ids |-> 0]

(* The server sends REQUEST.                                               *)
Request(r) ==
    /\ wk[r] = "none"
    /\ wk' = [wk EXCEPT ![r] = "serving"]
    /\ UNCHANGED data

Data(r) ==
    /\ wk[r] = "serving"
    /\ data' = [data EXCEPT ![r] = @ + 1]
    /\ UNCHANGED wk

(* END or ERROR.                                                           *)
End(r) ==
    /\ wk[r] = "serving"
    /\ wk' = [wk EXCEPT ![r] = "ended"]
    /\ UNCHANGED data

Next == \E r \in Ids : Request(r) \/ Data(r) \/ End(r)

Spec == Init /\ [][Next]_<<wk, data>>
=============================================================================
