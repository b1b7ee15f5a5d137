--------------------------- MODULE ClientProcess ---------------------------
(***************************************************************************)
(* src/worker/process_manager.py: the worker keeps one client process      *)
(* running.                                                                *)
(*                                                                         *)
(* The monitor task looks at self._process, spawns a client when there is  *)
(* none, and sleeps.  stop() kills the client and cancels the monitor.     *)
(* update_config() restarts the client from another coroutine: it kills,   *)
(* sleeps one second and spawns, without telling the monitor.              *)
(*                                                                         *)
(* create_subprocess_exec yields once the process exists, and fails        *)
(* without yielding: while the binary cannot be executed the monitor tries *)
(* again and again and nothing else runs on the event loop ("spinning").   *)
(***************************************************************************)
EXTENDS Naturals, FiniteSets

CONSTANTS
    Clients,    \* process ids of client processes
    NoProc,     \* self._process is None
    MaxUpdates  \* bound: calls of update_config

ASSUME ClientAssumption ==
    /\ NoProc \notin Clients
    /\ MaxUpdates \in Nat

VARIABLES
    alive,      \* client processes that run
    process,    \* self._process
    fresh,      \* the process each spawner is waiting to be told of
    mon,        \* where the monitor task stands
    should,     \* self._should_run
    upd,        \* where update_config stands
    updates

clientVars == <<alive, process, fresh, mon, should, upd, updates>>

Spawners == {"monitor", "restart"}

ClientInit ==
    /\ alive = {}
    /\ process = NoProc
    /\ fresh = [w \in Spawners |-> NoProc]
    /\ mon = "none" /\ should = FALSE
    /\ upd = "idle" /\ updates = 0

ClientTypeOK ==
    /\ alive \subseteq Clients
    /\ process \in Clients \cup {NoProc}
    /\ fresh \in [Spawners -> Clients \cup {NoProc}]
    /\ mon \in {"none", "watching", "backoff", "spawning", "spinning", "done"}
    /\ should \in BOOLEAN
    /\ upd \in {"idle", "sleeping", "spawning"}
    /\ updates \in 0..MaxUpdates

(* A process id no live process or Process object has.                     *)
Unused(p) == p \notin alive /\ p # process /\ \A w \in Spawners : fresh[w] # p

(* "running"                                                               *)
ClientRunning == process \in alive

(* The process exits, for any reason of its own (external).                *)
ClientExits(p) ==
    /\ p \in alive
    /\ alive' = alive \ {p}
    /\ UNCHANGED <<process, fresh, mon, should, upd, updates>>

(* start(): nothing happens when the binary or its config is missing.      *)
ClientStart ==
    /\ mon = "none"
    /\ \/ mon' = "watching" /\ should' = TRUE
       \/ mon' = "done" /\ UNCHANGED should
    /\ UNCHANGED <<alive, process, fresh, upd, updates>>

(* _spawn_client, up to its await: the process exists.                     *)
Fork(w) ==
    \E p \in Clients : /\ Unused(p)
                       /\ alive' = alive \cup {p}
                       /\ fresh' = [fresh EXCEPT ![w] = p]

(* _spawn_client called by the monitor.                                    *)
MonitorSpawns ==
    \/ Fork("monitor") /\ mon' = "spawning" /\ UNCHANGED process
    \/ mon' = "spinning" /\ process' = NoProc /\ UNCHANGED <<alive, fresh>>

(* The top of the monitor's loop, at its start and after every two         *)
(* seconds.  Its other exit, ~should, is not met: stop() cancels the task  *)
(* in the step that clears the flag.                                       *)
MonitorLooks ==
    /\ mon = "watching" /\ should
    /\ \/ process = NoProc /\ MonitorSpawns
       \/ /\ process # NoProc
          /\ mon' = IF ClientRunning THEN "watching" ELSE "backoff"
          /\ UNCHANGED <<alive, process, fresh>>
    /\ UNCHANGED <<should, upd, updates>>

(* Mutant: the delay over, the monitor looks for a missing process only.   *)
BackoffOverIfGone ==
    /\ mon = "backoff" /\ should
    /\ IF process = NoProc THEN MonitorSpawns
       ELSE mon' = "watching" /\ UNCHANGED <<alive, process, fresh>>
    /\ UNCHANGED <<should, upd, updates>>

(* The delay is over: a client is spawned whatever self._process is now.   *)
BackoffOver ==
    /\ mon = "backoff" /\ should
    /\ MonitorSpawns
    /\ UNCHANGED <<should, upd, updates>>

(* The binary can be executed again.                                       *)
SpinEnds ==
    /\ mon = "spinning"
    /\ Fork("monitor") /\ mon' = "spawning"
    /\ UNCHANGED <<process, should, upd, updates>>

(* Mutant: the spawned process is not kept.                                *)
MonitorSpawnedUnset ==
    /\ mon = "spawning"
    /\ fresh' = [fresh EXCEPT !["monitor"] = NoProc]
    /\ mon' = "watching"
    /\ UNCHANGED <<alive, process, should, upd, updates>>

(* create_subprocess_exec returns to the monitor, which loops.             *)
MonitorSpawned ==
    /\ mon = "spawning"
    /\ process' = fresh["monitor"]
    /\ fresh' = [fresh EXCEPT !["monitor"] = NoProc]
    /\ mon' = IF fresh["monitor"] \in alive THEN "watching" ELSE "backoff"
    /\ UNCHANGED <<alive, should, upd, updates>>

(* _kill_client: run_until_complete raises inside a running loop, so       *)
(* SIGKILL follows SIGTERM at once.                                        *)
KillClient == process' = NoProc /\ alive' = alive \ {process}

(* Mutant: the monitor is not cancelled in the middle of a spawn.          *)
StopForgetsSpawn ==
    /\ should' = FALSE
    /\ KillClient
    /\ mon' = "done"
    /\ UNCHANGED <<fresh, upd, updates>>

(* stop(): a spawn the monitor waits for is undone by its cancellation.    *)
ClientStop ==
    /\ should' = FALSE
    /\ process' = NoProc
    /\ alive' = alive \ {process, fresh["monitor"]}
    /\ fresh' = [fresh EXCEPT !["monitor"] = NoProc]
    /\ mon' = "done"
    /\ UNCHANGED <<upd, updates>>

(* update_config() and restart(): kill, then sleep one second.             *)
UpdateConfig ==
    /\ upd = "idle" /\ updates < MaxUpdates
    /\ ClientRunning
    /\ updates' = updates + 1
    /\ KillClient
    /\ upd' = "sleeping"
    /\ UNCHANGED <<fresh, mon, should>>

RestartSpawns ==
    /\ upd = "sleeping"
    /\ \/ Fork("restart") /\ upd' = "spawning" /\ UNCHANGED process
       \/ process' = NoProc /\ upd' = "idle" /\ UNCHANGED <<alive, fresh>>
    /\ UNCHANGED <<mon, should, updates>>

RestartSpawned ==
    /\ upd = "spawning"
    /\ process' = fresh["restart"]
    /\ fresh' = [fresh EXCEPT !["restart"] = NoProc]
    /\ upd' = "idle"
    /\ UNCHANGED <<alive, mon, should, updates>>

MonitorStep == MonitorLooks \/ BackoffOver \/ MonitorSpawned

RestartStep == UpdateConfig \/ RestartSpawns \/ RestartSpawned
=============================================================================
