------------------------------- MODULE Worker -------------------------------
(***************************************************************************)
(* src/worker/worker.py and the signal handlers of src/worker/cli.py:      *)
(* RelayWorker.run starts the tunnel manager and the client manager on one *)
(* event loop, waits for SIGTERM or SIGINT and shuts both down.            *)
(*                                                                         *)
(* The managers' tasks share the loop, so a monitor that spins without     *)
(* yielding (module ClientProcess) keeps the tunnel's monitor, and the     *)
(* handler of the signal, from running; only SIGKILL ends such a worker.   *)
(* Who sends the signals is outside this module: proxy-ssh stop would, but *)
(* as the code stands it fails before it sends any (module Commands).      *)
(***************************************************************************)
EXTENDS ClientProcess, SSHTunnel

VARIABLE run        \* where RelayWorker.run stands

vars == <<clientVars, sshVars, run>>

RunStates == {"starting", "running", "stopping", "client stopped", "stopped", "killed"}

Init == ClientInit /\ SSHInit /\ run = "starting"

(* The worker process exists, and its event loop runs another task.        *)
Running == run \notin {"stopped", "killed"}
LoopFree == Running /\ mon # "spinning"

(* run() creates both tasks; their start() runs before anything else.      *)
RunStarts ==
    /\ run = "starting"
    /\ run' = "running"
    /\ TunnelStart /\ ClientStart

(* SIGTERM or SIGINT arrives; run() is woken when the loop is free.        *)
Signal ==
    /\ run = "running"
    /\ run' = "stopping"
    /\ UNCHANGED <<clientVars, sshVars>>

(* The finally block: the client first, then the tunnel.                   *)
ShutClient ==
    /\ run = "stopping" /\ LoopFree
    /\ ClientStop
    /\ run' = "client stopped"
    /\ UNCHANGED sshVars

ShutTunnel ==
    /\ run = "client stopped" /\ LoopFree
    /\ TunnelStop
    /\ run' = "stopped"
    /\ UNCHANGED clientVars

RunStep == RunStarts \/ ShutClient \/ ShutTunnel

(* Mutant: SIGTERM is repeated instead.                                    *)
TermAgain ==
    /\ run \in {"stopping", "client stopped"}
    /\ UNCHANGED vars

(* SIGKILL, at any time between SIGTERM and the end of the shutdown.       *)
ForceKill ==
    /\ run \in {"stopping", "client stopped"}
    /\ run' = "killed"
    /\ UNCHANGED <<clientVars, sshVars>>

ClientTask == LoopFree /\ MonitorStep /\ UNCHANGED <<sshVars, run>>

TunnelTask == LoopFree /\ TunnelStep /\ UNCHANGED <<clientVars, run>>

RestartTask == LoopFree /\ RestartStep /\ UNCHANGED <<sshVars, run>>

Spin == Running /\ SpinEnds /\ UNCHANGED <<sshVars, run>>

Outside ==
    \/ (\E p \in Clients : ClientExits(p)) /\ UNCHANGED <<sshVars, run>>
    \/ TunnelDies /\ UNCHANGED <<clientVars, run>>

Next ==
    \/ RunStep \/ Signal \/ ForceKill
    \/ ClientTask \/ TunnelTask \/ RestartTask
    \/ Spin \/ Outside

(* The event loop runs its ready tasks in turn: run() goes on in the first *)
(* turn after a spin, and every sleep ends.  That a binary becomes         *)
(* executable again is not assumed.  A worker whose loop is held up for    *)
(* ever after SIGTERM is sent SIGKILL; one that shuts down need not be.    *)
Fairness ==
    /\ SF_vars(RunStep)
    /\ WF_vars(ForceKill /\ ~LoopFree)
    /\ WF_vars(ClientTask)
    /\ WF_vars(TunnelTask)

Spec == Init /\ [][Next]_vars /\ Fairness

(***************************************************************************)
(* Properties.                                                             *)
(***************************************************************************)

(* Types of both managers and of the worker.                               *)
TypeOK == ClientTypeOK /\ SSHTypeOK /\ run \in RunStates

(* Unless restart() runs beside it, the monitor never has two clients: the *)
(* one that runs is self._process or the one it is about to be told of     *)
(* (process_manager.py _monitor_loop and _spawn_client).  Every restart    *)
(* adds at most one.                                                       *)
OneClient ==
    /\ Cardinality(alive) <= 1 + updates
    /\ updates = 0 => alive \subseteq {process, fresh["monitor"]}

(* Whatever died or was being started when the signal came, a worker that  *)
(* shut down by itself leaves no client and no ssh behind (worker.py run). *)
StoppedCleanly == run = "stopped" /\ updates = 0 => alive = {} /\ tunnels = 0

(* ssh is never started while the previous one runs (ssh_manager.py        *)
(* _monitor_loop): the second would fail to bind the forwarded port.       *)
OneTunnel == tunnels = IF ssh = "alive" THEN 1 ELSE 0

(* The tunnel's loop has no branch, and no await, for "connecting": it     *)
(* would hold the event loop for ever if it came to its top with it.       *)
LoopNeverSpins == AtTop => status # "connecting"

(* A client that exits is followed by another while the worker runs and    *)
(* the binary can be executed (_monitor_loop).                             *)
ClientComesBack ==
    (should /\ ~ClientRunning) ~> (alive # {} \/ mon = "spinning" \/ run # "running")

(* A tunnel whose ssh has exited does not go on being reported as          *)
(* connected (ssh_manager.py _monitor_loop), unless the loop is held up.   *)
TunnelHonest ==
    (status = "connected" /\ ssh = "dead")
        ~> (status # "connected" \/ mon = "spinning" \/ run # "running")

(* SIGTERM ends the worker, wherever its monitors stand, unless its loop   *)
(* is held up for ever; then the SIGKILL that follows does.                *)
StopCompletes == run = "stopping" ~> ~Running
=============================================================================
