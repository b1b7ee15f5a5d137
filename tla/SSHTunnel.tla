----------------------------- MODULE SSHTunnel -----------------------------
(***************************************************************************)
(* src/worker/ssh_manager.py: the worker keeps one ssh process running and *)
(* reports the state of the tunnel.                                        *)
(*                                                                         *)
(* One monitor task moves the status along; it sleeps three seconds after  *)
(* a start to see whether ssh survived, five between looks at a connected  *)
(* tunnel, and a growing delay after a failure.  stop() kills ssh and      *)
(* cancels the monitor wherever it stands.                                 *)
(***************************************************************************)
EXTENDS Naturals

VARIABLES
    ssh,        \* self._process: "none", "alive" or "dead"
    tunnels,    \* number of ssh processes that run
    status,     \* self._info.status
    tmon,       \* where the monitor task stands
    tshould     \* self._should_run

sshVars == <<ssh, tunnels, status, tmon, tshould>>

TunnelStatus == {"disconnected", "connecting", "connected", "reconnecting"}

SSHInit ==
    /\ ssh = "none" /\ tunnels = 0
    /\ status = "disconnected"
    /\ tmon = "none" /\ tshould = FALSE

SSHTypeOK ==
    /\ ssh \in {"none", "alive", "dead"} /\ tunnels \in Nat
    /\ status \in TunnelStatus
    /\ tmon \in {"none", "looking", "settling", "watching", "backoff", "done"}
    /\ tshould \in BOOLEAN

(* ssh exits, for any reason of its own (external).                        *)
TunnelDies ==
    /\ ssh = "alive"
    /\ ssh' = "dead" /\ tunnels' = tunnels - 1
    /\ UNCHANGED <<status, tmon, tshould>>

TunnelStart ==
    /\ tmon = "none"
    /\ tshould' = TRUE /\ tmon' = "looking"
    /\ UNCHANGED <<ssh, tunnels, status>>

(* The monitor's loop runs when the task starts and after its sleeps.  It  *)
(* does not see ~tshould: stop() cancels it in the step that clears that.  *)
AtTop == tmon \in {"looking", "watching", "backoff"}

(* Not connected: _start_process, which may fail.                          *)
TunnelOpens ==
    /\ AtTop /\ tshould
    /\ status \in {"disconnected", "reconnecting"}
    /\ \/ /\ ssh' = "alive" /\ tunnels' = tunnels + 1
          /\ status' = IF status = "disconnected" THEN "connecting" ELSE "reconnecting"
          /\ tmon' = "settling"
       \/ /\ status' = "reconnecting" /\ tmon' = "backoff"
          /\ UNCHANGED <<ssh, tunnels>>
    /\ UNCHANGED tshould

(* Mutant: an exit during startup is not looked for.                       *)
SettlesBlindly ==
    /\ tmon = "settling"
    /\ tmon' = "watching"
    /\ status' = IF ssh = "alive" THEN "connected" ELSE status
    /\ UNCHANGED <<ssh, tunnels, tshould>>

(* Mutant: an ssh that is slow to come up is given up, not killed.         *)
SettlesImpatiently ==
    /\ tmon = "settling"
    /\ \/ ssh = "alive" /\ status' = "connected" /\ tmon' = "watching"
       \/ status' = "reconnecting" /\ tmon' = "backoff"
    /\ UNCHANGED <<ssh, tunnels, tshould>>

(* Three seconds later: ssh is up, or it exited during startup.            *)
TunnelSettles ==
    /\ tmon = "settling"
    /\ IF ssh = "alive" THEN status' = "connected" /\ tmon' = "watching"
                        ELSE status' = "reconnecting" /\ tmon' = "backoff"
    /\ UNCHANGED <<ssh, tunnels, tshould>>

(* Mutant: an ssh that has exited still counts as the tunnel.              *)
WatchedIfAny ==
    /\ AtTop /\ tshould
    /\ status = "connected"
    /\ IF ssh # "none" THEN tmon' = "watching" /\ UNCHANGED <<ssh, status>>
       ELSE status' = "reconnecting" /\ tmon' = "backoff" /\ UNCHANGED ssh
    /\ UNCHANGED <<tunnels, tshould>>

(* Connected: ssh still runs, or it has exited.                            *)
TunnelWatched ==
    /\ AtTop /\ tshould
    /\ status = "connected"
    /\ IF ssh = "alive" THEN tmon' = "watching" /\ UNCHANGED <<ssh, status>>
       ELSE ssh' = "none" /\ status' = "reconnecting" /\ tmon' = "backoff"
    /\ UNCHANGED <<tunnels, tshould>>

(* Mutant: ssh is taken to be running whenever there is a process object.  *)
TunnelStopBlind ==
    /\ tshould' = FALSE
    /\ tunnels' = IF ssh = "none" THEN tunnels ELSE tunnels - 1
    /\ ssh' = "none"
    /\ tmon' = "done"
    /\ UNCHANGED status

(* stop(): terminate, wait, kill; blocks the event loop meanwhile.  The    *)
(* status is left as it is.                                                *)
TunnelStop ==
    /\ tshould' = FALSE
    /\ tunnels' = IF ssh = "alive" THEN tunnels - 1 ELSE tunnels
    /\ ssh' = "none"
    /\ tmon' = "done"
    /\ UNCHANGED status

TunnelStep == TunnelOpens \/ TunnelSettles \/ TunnelWatched
=============================================================================
