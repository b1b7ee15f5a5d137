--------------------------- MODULE WorkerProofs ---------------------------
(***************************************************************************)
(* Proofs about Worker, for any set of process ids and any number of       *)
(* restarts.                                                               *)
(***************************************************************************)
EXTENDS Worker, FiniteSetTheorems, TLAPS

(* Where the tunnel's monitor stands says what its status is and whether   *)
(* an ssh may be running.                                                  *)
TunnelInv ==
    /\ ssh = "alive" => tmon \in {"settling", "watching"}
    /\ tmon \in {"none", "looking"} => status = "disconnected"
    /\ tmon = "settling" => status \in {"connecting", "reconnecting"}
    /\ tmon = "watching" => status = "connected"
    /\ tmon = "backoff" => status = "reconnecting"

(* Until somebody calls restart(), the monitor knows every client that     *)
(* runs, and spawns one only when the last is dead.                        *)
ClientInv ==
    updates = 0 =>
        /\ upd = "idle"
        /\ alive \subseteq {process, fresh["monitor"]}
        /\ fresh["monitor"] # NoProc => mon = "spawning"
        /\ mon \in {"backoff", "spawning", "spinning"} => process \notin alive

(* What the shutdown has reached.                                          *)
RunInv ==
    /\ run = "starting" => tmon = "none" /\ ssh = "none"
    /\ run \in {"client stopped", "stopped"} =>
          /\ mon = "done"
          /\ updates = 0 => alive = {}
    /\ run = "stopped" => tmon = "done" /\ tunnels = 0

TInv == SSHTypeOK /\ OneTunnel /\ TunnelInv
CInv == ClientTypeOK /\ ClientInv
IInv == TInv /\ CInv /\ run \in RunStates /\ RunInv

-----------------------------------------------------------------------------
(* The start satisfies the invariant.                                      *)
LEMMA InitInv == Init => IInv
<1> SUFFICES ASSUME Init PROVE IInv
  OBVIOUS
<1>1. TInv
  BY DEF Init, SSHInit, TInv, SSHTypeOK, TunnelStatus, OneTunnel, TunnelInv
<1>2. CInv
  <2>1. fresh \in [Spawners -> Clients \cup {NoProc}] /\ fresh["monitor"] = NoProc
    BY DEF Init, ClientInit, Spawners
  <2>2. ClientTypeOK
    <3>1. 0 \in 0..MaxUpdates
      BY ClientAssumption
    <3> QED BY <2>1, <3>1 DEF Init, ClientInit, ClientTypeOK
  <2>3. ClientInv
    BY <2>1 DEF Init, ClientInit, ClientInv
  <2> QED BY <2>2, <2>3 DEF CInv
<1>3. run \in RunStates /\ RunInv
  BY DEF Init, SSHInit, RunStates, RunInv
<1> QED BY <1>1, <1>2, <1>3 DEF IInv

(* No step of the tunnel's monitor, and no exit of ssh, breaks TInv: ssh   *)
(* is started only from the top of the loop, where it is not alive.        *)
LEMMA TunnelStepInv ==
    ASSUME TInv, TunnelStep \/ TunnelDies
    PROVE  TInv'
<1> USE DEF TInv, SSHTypeOK, TunnelStatus, OneTunnel, TunnelInv
<1>1. CASE TunnelOpens
  BY <1>1 DEF TunnelOpens, AtTop
<1>2. CASE TunnelSettles
  BY <1>2 DEF TunnelSettles
<1>3. CASE TunnelWatched
  BY <1>3 DEF TunnelWatched, AtTop
<1>4. CASE TunnelDies
  BY <1>4 DEF TunnelDies
<1> QED BY <1>1, <1>2, <1>3, <1>4 DEF TunnelStep

(* A process that is spawned is a new one, and the monitor's only one.     *)
LEMMA ForkInv ==
    ASSUME CInv, Fork("monitor"), mon' = "spawning",
           mon \in {"watching", "backoff", "spinning"},
           updates = 0 => process \notin alive,
           UNCHANGED <<process, should, upd, updates>>
    PROVE  CInv'
<1>1. PICK p \in Clients : /\ Unused(p) /\ alive' = alive \cup {p}
                           /\ fresh' = [fresh EXCEPT !["monitor"] = p]
  BY DEF Fork
<1>2. /\ fresh' \in [Spawners -> Clients \cup {NoProc}]
      /\ fresh'["monitor"] = p
  BY <1>1 DEF CInv, ClientTypeOK, Spawners
<1>3. ClientTypeOK'
  BY <1>1, <1>2 DEF CInv, ClientTypeOK
<1>4. ClientInv'
  <2> SUFFICES ASSUME updates = 0
               PROVE  /\ upd = "idle" /\ alive' \subseteq {process, p}
                      /\ process \notin alive'
    BY <1>2 DEF ClientInv
  <2>1. upd = "idle" /\ alive \subseteq {process, fresh["monitor"]}
    BY DEF CInv, ClientInv
  <2>2. fresh["monitor"] = NoProc /\ alive \subseteq Clients
    BY DEF CInv, ClientInv, ClientTypeOK
  <2>3. alive = {}
    BY <2>1, <2>2, ClientAssumption
  <2> QED BY <1>1, <2>1, <2>3 DEF Unused
<1> QED BY <1>3, <1>4 DEF CInv

(* The monitor's spawn succeeds, or leaves it spinning with no process.    *)
LEMMA MonitorSpawnsInv ==
    ASSUME CInv, MonitorSpawns,
           mon \in {"watching", "backoff"},
           updates = 0 => process \notin alive,
           UNCHANGED <<should, upd, updates>>
    PROVE  CInv'
<1>1. CASE Fork("monitor") /\ mon' = "spawning" /\ UNCHANGED process
  BY <1>1, ForkInv
<1>2. CASE mon' = "spinning" /\ process' = NoProc /\ UNCHANGED <<alive, fresh>>
  <2>1. ClientTypeOK'
    BY <1>2 DEF CInv, ClientTypeOK
  <2>2. ClientInv'
    <3>1. updates = 0 => alive = {}
      BY ClientAssumption DEF CInv, ClientInv, ClientTypeOK
    <3>2. updates = 0 => upd = "idle" /\ fresh["monitor"] = NoProc
      BY DEF CInv, ClientInv
    <3> QED BY <1>2, <3>1, <3>2 DEF ClientInv
  <2> QED BY <2>1, <2>2 DEF CInv
<1> QED BY <1>1, <1>2 DEF MonitorSpawns

(* Every step around the client process keeps CInv; a restart leaves the   *)
(* part of it that is about no restarts.                                   *)
LEMMA ClientStepInv ==
    ASSUME CInv, MonitorStep \/ RestartStep \/ SpinEnds \/ \E p \in Clients : ClientExits(p)
    PROVE  CInv'
<1>1. CASE MonitorLooks
  <2>1. CASE process = NoProc /\ MonitorSpawns
    <3>1. process \notin alive
      BY <2>1, ClientAssumption DEF CInv, ClientTypeOK
    <3> QED BY <1>1, <2>1, <3>1, MonitorSpawnsInv DEF MonitorLooks
  <2>2. CASE /\ process # NoProc
             /\ mon' = IF ClientRunning THEN "watching" ELSE "backoff"
             /\ UNCHANGED <<alive, process, fresh>>
    BY <1>1, <2>2 DEF MonitorLooks, ClientRunning, CInv, ClientTypeOK, ClientInv
  <2> QED BY <1>1, <2>1, <2>2 DEF MonitorLooks
<1>2. CASE BackoffOver
  <2>1. updates = 0 => process \notin alive
    BY <1>2 DEF BackoffOver, CInv, ClientInv
  <2> QED BY <1>2, <2>1, MonitorSpawnsInv DEF BackoffOver
<1>3. CASE MonitorSpawned
  <2>1. /\ fresh["monitor"] \in Clients \cup {NoProc}
        /\ fresh' \in [Spawners -> Clients \cup {NoProc}]
        /\ fresh'["monitor"] = NoProc
    BY <1>3 DEF MonitorSpawned, CInv, ClientTypeOK, Spawners
  <2>2. ClientTypeOK'
    BY <1>3, <2>1 DEF MonitorSpawned, CInv, ClientTypeOK
  <2>3. ClientInv'
    <3> SUFFICES ASSUME updates = 0
                 PROVE  /\ upd = "idle" /\ alive \subseteq {process'}
                        /\ mon' = "backoff" => process' \notin alive
      BY <1>3, <2>1 DEF MonitorSpawned, ClientInv
    <3>1. process \notin alive /\ alive \subseteq {process, fresh["monitor"]} /\ upd = "idle"
      BY <1>3 DEF MonitorSpawned, CInv, ClientInv
    <3> QED BY <1>3, <3>1 DEF MonitorSpawned
  <2> QED BY <2>2, <2>3 DEF CInv
<1>4. CASE SpinEnds
  BY <1>4, ForkInv DEF SpinEnds, CInv, ClientInv
<1>5. CASE UpdateConfig
  BY <1>5, ClientAssumption DEF UpdateConfig, KillClient, CInv, ClientTypeOK, ClientInv
<1>6. CASE RestartSpawns
  <2>1. updates # 0 /\ updates' # 0
    BY <1>6 DEF RestartSpawns, CInv, ClientInv
  <2>2. CASE Fork("restart") /\ upd' = "spawning" /\ UNCHANGED process
    BY <1>6, <2>1, <2>2 DEF RestartSpawns, Fork, CInv, ClientTypeOK, ClientInv
  <2>3. CASE process' = NoProc /\ upd' = "idle" /\ UNCHANGED <<alive, fresh>>
    BY <1>6, <2>1, <2>3 DEF RestartSpawns, CInv, ClientTypeOK, ClientInv
  <2> QED BY <1>6, <2>2, <2>3 DEF RestartSpawns
<1>7. CASE RestartSpawned
  <2>1. updates # 0 /\ updates' # 0
    BY <1>7 DEF RestartSpawned, CInv, ClientInv
  <2> QED BY <1>7, <2>1 DEF RestartSpawned, CInv, ClientTypeOK, ClientInv, Spawners
<1>8. ASSUME NEW p \in Clients, ClientExits(p)
      PROVE  CInv'
  BY <1>8 DEF ClientExits, CInv, ClientTypeOK, ClientInv
<1> QED BY <1>1, <1>2, <1>3, <1>4, <1>5, <1>6, <1>7, <1>8 DEF MonitorStep, RestartStep

(* The worker's own steps: start, shutdown, and the kill.                  *)
LEMMA RunStepInv ==
    ASSUME IInv, RunStep \/ Signal \/ ForceKill
    PROVE  IInv'
<1>1. CASE RunStarts
  <2>1. TInv'
    BY <1>1 DEF RunStarts, TunnelStart, IInv, TInv, SSHTypeOK, OneTunnel, TunnelInv, RunInv
  <2>2. CInv'
    BY <1>1 DEF RunStarts, ClientStart, IInv, CInv, ClientTypeOK, ClientInv
  <2>3. run' \in RunStates /\ RunInv'
    BY <1>1 DEF RunStarts, RunStates, RunInv
  <2> QED BY <2>1, <2>2, <2>3 DEF IInv
<1>2. CASE Signal \/ ForceKill
  <2>1. TInv'
    BY <1>2 DEF Signal, ForceKill, sshVars, IInv, TInv, SSHTypeOK, OneTunnel, TunnelInv
  <2>2. CInv'
    BY <1>2 DEF Signal, ForceKill, clientVars, IInv, CInv, ClientTypeOK, ClientInv
  <2>3. run' \in RunStates /\ RunInv'
    BY <1>2 DEF Signal, ForceKill, RunStates, RunInv
  <2> QED BY <2>1, <2>2, <2>3 DEF IInv
<1>3. CASE ShutClient
  <2>1. TInv'
    BY <1>3 DEF ShutClient, sshVars, IInv, TInv, SSHTypeOK, OneTunnel, TunnelInv
  <2>2. /\ fresh' \in [Spawners -> Clients \cup {NoProc}]
        /\ fresh'["monitor"] = NoProc
    BY <1>3 DEF ShutClient, ClientStop, IInv, CInv, ClientTypeOK, Spawners
  <2>3. updates = 0 => alive' = {} /\ upd = "idle"
    BY <1>3 DEF ShutClient, ClientStop, IInv, CInv, ClientInv
  <2>4. ClientTypeOK'
    BY <1>3, <2>2 DEF ShutClient, ClientStop, IInv, CInv, ClientTypeOK
  <2>5. ClientInv'
    BY <1>3, <2>2, <2>3 DEF ShutClient, ClientStop, ClientInv
  <2>6. run' \in RunStates /\ RunInv'
    BY <1>3, <2>3 DEF ShutClient, ClientStop, RunStates, RunInv
  <2> QED BY <2>1, <2>4, <2>5, <2>6 DEF IInv, CInv
<1>4. CASE ShutTunnel
  <2>1. TInv' /\ tunnels' = 0
    <3>1. TunnelStop /\ SSHTypeOK /\ OneTunnel
      BY <1>4 DEF ShutTunnel, IInv, TInv
    <3>2. ssh' = "none" /\ tunnels' = 0 /\ tmon' = "done" /\ tshould' = FALSE
      BY <3>1 DEF TunnelStop, OneTunnel
    <3>3. status' \in TunnelStatus
      BY <3>1 DEF TunnelStop, SSHTypeOK
    <3> QED BY <3>2, <3>3 DEF TInv, SSHTypeOK, OneTunnel, TunnelInv
  <2>2. CInv'
    BY <1>4 DEF ShutTunnel, clientVars, IInv, CInv, ClientTypeOK, ClientInv
  <2>3. run' \in RunStates /\ RunInv'
    BY <1>4, <2>1 DEF ShutTunnel, TunnelStop, clientVars, RunStates, IInv, RunInv
  <2> QED BY <2>1, <2>2, <2>3 DEF IInv
<1> QED BY <1>1, <1>2, <1>3, <1>4 DEF RunStep

(* Steps of the tunnel: nothing is left of it to move once it is stopped.  *)
LEMMA TunnelSideInv ==
    ASSUME IInv, TunnelStep \/ TunnelDies, UNCHANGED <<clientVars, run>>
    PROVE  IInv'
<1>1. TInv'
  BY TunnelStepInv DEF IInv
<1>2. CInv'
  BY DEF clientVars, IInv, CInv, ClientTypeOK, ClientInv
<1>3. ssh = "alive" \/ AtTop \/ tmon = "settling"
  BY DEF TunnelStep, TunnelOpens, TunnelSettles, TunnelWatched, TunnelDies
<1>4. run # "starting" /\ run # "stopped"
  BY <1>3 DEF AtTop, IInv, RunInv, TInv, TunnelInv
<1>5. run' \in RunStates /\ RunInv'
  BY <1>4 DEF clientVars, IInv, RunInv
<1> QED BY <1>1, <1>2, <1>5 DEF IInv

(* Steps around the client: once it is stopped only a restart moves.       *)
LEMMA ClientSideInv ==
    ASSUME IInv, UNCHANGED <<sshVars, run>>,
           MonitorStep \/ RestartStep \/ SpinEnds \/ \E p \in Clients : ClientExits(p)
    PROVE  IInv'
<1>1. CInv'
  BY ClientStepInv DEF IInv
<1>2. TInv'
  BY DEF sshVars, IInv, TInv, SSHTypeOK, OneTunnel, TunnelInv
<1>3. ASSUME mon = "done"
      PROVE  mon' = "done" /\ (updates' = 0 /\ alive = {} => alive' = {})
  <2>1. CASE RestartStep
    <3>1. updates' # 0
      BY <2>1 DEF RestartStep, UpdateConfig, RestartSpawns, RestartSpawned,
                  IInv, CInv, ClientTypeOK, ClientInv
    <3> QED BY <1>3, <2>1, <3>1
            DEF RestartStep, UpdateConfig, RestartSpawns, RestartSpawned
  <2>2. CASE \E p \in Clients : ClientExits(p)
    BY <1>3, <2>2 DEF ClientExits
  <2>3. ~MonitorStep /\ ~SpinEnds
    BY <1>3 DEF MonitorStep, MonitorLooks, BackoffOver, MonitorSpawned, SpinEnds
  <2> QED BY <2>1, <2>2, <2>3
<1>4. updates' = 0 => updates = 0
  BY DEF MonitorStep, MonitorLooks, BackoffOver, MonitorSpawned, SpinEnds, RestartStep,
         UpdateConfig, RestartSpawns, RestartSpawned, ClientExits, IInv, CInv, ClientTypeOK
<1>5. run' \in RunStates /\ RunInv'
  BY <1>3, <1>4 DEF sshVars, IInv, RunInv
<1> QED BY <1>1, <1>2, <1>5 DEF IInv

-----------------------------------------------------------------------------
(* The inductive invariant holds in every behaviour, fair or not.          *)
THEOREM WorkerInvariant == Spec => []IInv
<1>1. IInv /\ [Next]_vars => IInv'
  <2> SUFFICES ASSUME IInv, [Next]_vars PROVE IInv'
    OBVIOUS
  <2>1. CASE UNCHANGED vars
    <3>1. TInv'
      BY <2>1 DEF vars, sshVars, IInv, TInv, SSHTypeOK, OneTunnel, TunnelInv
    <3>2. CInv'
      BY <2>1 DEF vars, clientVars, IInv, CInv, ClientTypeOK, ClientInv
    <3>3. run' \in RunStates /\ RunInv'
      BY <2>1 DEF vars, clientVars, sshVars, IInv, RunInv
    <3> QED BY <3>1, <3>2, <3>3 DEF IInv
  <2>2. CASE RunStep \/ Signal \/ ForceKill
    BY <2>2, RunStepInv
  <2>3. CASE ClientTask \/ RestartTask \/ Spin
    BY <2>3, ClientSideInv DEF ClientTask, RestartTask, Spin
  <2>4. CASE TunnelTask
    BY <2>4, TunnelSideInv DEF TunnelTask
  <2>5. CASE Outside
    BY <2>5, ClientSideInv, TunnelSideInv DEF Outside
  <2> QED BY <2>1, <2>2, <2>3, <2>4, <2>5 DEF Next
<1> QED BY InitInv, <1>1, PTL DEF Spec

(* Every value stays in its type.                                          *)
THEOREM WorkerTypes == Spec => []TypeOK
<1>1. IInv => TypeOK
  BY DEF IInv, TInv, CInv, TypeOK
<1> QED BY WorkerInvariant, <1>1, PTL

(* A worker that shut down by itself leaves no process behind, whatever    *)
(* died or was being started when the signal came.                         *)
THEOREM ShutdownIsClean == Spec => []StoppedCleanly
<1>1. IInv => StoppedCleanly
  BY DEF IInv, RunInv, StoppedCleanly
<1> QED BY WorkerInvariant, <1>1, PTL

(* There is never a second ssh.                                            *)
THEOREM TunnelNeverDoubled == Spec => []OneTunnel
<1>1. IInv => OneTunnel
  BY DEF IInv, TInv
<1> QED BY WorkerInvariant, <1>1, PTL

(* The tunnel's loop never comes to its top in a status it has no branch   *)
(* for.                                                                    *)
THEOREM TunnelLoopYields == Spec => []LoopNeverSpins
<1>1. IInv => LoopNeverSpins
  BY DEF IInv, TInv, TunnelInv, AtTop, LoopNeverSpins
<1> QED BY WorkerInvariant, <1>1, PTL

-----------------------------------------------------------------------------
(* How many clients there can be, with restarts.  A coroutine owes a spawn *)
(* when it may create a process before anybody creates or kills another:   *)
(* the monitor once its client is dead or gone, a restart once it has      *)
(* killed one.  A process that a spawner waits for and that exits is owed  *)
(* again.                                                                  *)
MonitorOwes ==
    IF \/ mon \in {"none", "backoff", "spinning"}
       \/ mon = "watching" /\ process \notin alive
       \/ mon = "spawning" /\ fresh["monitor"] \notin alive
    THEN 1 ELSE 0

RestartOwes ==
    IF \/ upd = "sleeping"
       \/ upd = "spawning" /\ fresh["restart"] \notin alive
    THEN 1 ELSE 0

(* The processes the two spawners wait for and self._process are different *)
(* ones, and a spawner waits for one exactly while it spawns.              *)
Names ==
    /\ fresh["monitor"] # NoProc <=> mon = "spawning"
    /\ fresh["restart"] # NoProc <=> upd = "spawning"
    /\ mon = "spawning" => fresh["monitor"] # process
    /\ upd = "spawning" => fresh["restart"] # process
    /\ mon = "spawning" /\ upd = "spawning" => fresh["monitor"] # fresh["restart"]

(* Every restart adds at most one process to those that run or are owed.   *)
Budget ==
    /\ IsFiniteSet(alive)
    /\ Cardinality(alive) + MonitorOwes + RestartOwes <= 1 + updates

SpawnInv == Names /\ Budget

(* Adding and removing one process, in the terms the budget is kept in.    *)
LEMMA OneMore ==
    ASSUME NEW S, IsFiniteSet(S), NEW x, x \notin S
    PROVE  IsFiniteSet(S \cup {x}) /\ Cardinality(S \cup {x}) = Cardinality(S) + 1
  BY FS_AddElement

LEMMA OneLess ==
    ASSUME NEW S, IsFiniteSet(S), NEW x, x \in S
    PROVE  IsFiniteSet(S \ {x}) /\ Cardinality(S \ {x}) = Cardinality(S) - 1
  BY FS_RemoveElement

LEMMA NoMore ==
    ASSUME NEW S, IsFiniteSet(S), NEW T, T \subseteq S
    PROVE  IsFiniteSet(T) /\ Cardinality(T) <= Cardinality(S)
  BY FS_Subset

(* A spawn uses up what its spawner owes, whoever else waits for what.     *)
LEMMA MonitorForks ==
    ASSUME CInv, SpawnInv, Fork("monitor"), mon' = "spawning",
           mon \in {"watching", "backoff", "spinning"}, MonitorOwes = 1,
           UNCHANGED <<process, upd, updates>>
    PROVE  SpawnInv'
<1>1. PICK p \in Clients : /\ Unused(p) /\ alive' = alive \cup {p}
                           /\ fresh' = [fresh EXCEPT !["monitor"] = p]
  BY DEF Fork
<1>2. /\ fresh'["monitor"] = p /\ fresh'["restart"] = fresh["restart"]
      /\ fresh["restart"] # p /\ p # NoProc /\ p # process /\ p \notin alive
  BY <1>1, ClientAssumption DEF CInv, ClientTypeOK, Spawners, Unused
<1>3. Names'
  BY <1>2 DEF SpawnInv, Names
<1>4. IsFiniteSet(alive') /\ Cardinality(alive') = Cardinality(alive) + 1
  BY <1>1, <1>2, OneMore DEF SpawnInv, Budget
<1>5. MonitorOwes' = 0 /\ RestartOwes' = RestartOwes
  BY <1>1, <1>2 DEF MonitorOwes, RestartOwes
<1>6. Cardinality(alive) \in Nat /\ updates \in Nat /\ RestartOwes \in Nat
  BY FS_CardinalityType DEF SpawnInv, Budget, CInv, ClientTypeOK, RestartOwes
<1>7. Budget'
  BY <1>4, <1>5, <1>6 DEF SpawnInv, Budget
<1> QED BY <1>3, <1>7 DEF SpawnInv

(* The monitor's steps.                                                    *)
LEMMA MonitorKeepsBudget ==
    ASSUME CInv, SpawnInv, MonitorStep \/ SpinEnds
    PROVE  SpawnInv'
<1> USE DEF SpawnInv
<1>1. Cardinality(alive) \in Nat /\ updates \in Nat
  BY FS_CardinalityType DEF Budget, CInv, ClientTypeOK
<1>2. ASSUME MonitorSpawns, mon \in {"watching", "backoff"}, MonitorOwes = 1,
             UNCHANGED <<upd, updates>>
      PROVE  SpawnInv'
  <2>1. CASE Fork("monitor") /\ mon' = "spawning" /\ UNCHANGED process
    BY <1>2, <2>1, MonitorForks
  <2>2. CASE mon' = "spinning" /\ process' = NoProc /\ UNCHANGED <<alive, fresh>>
    <3>1. Names'
      BY <1>2, <2>2 DEF Names
    <3>2. MonitorOwes' = 1 /\ RestartOwes' = RestartOwes
      BY <1>2, <2>2 DEF MonitorOwes, RestartOwes
    <3> QED BY <1>2, <2>2, <3>1, <3>2 DEF Budget
  <2> QED BY <1>2, <2>1, <2>2 DEF MonitorSpawns
<1>3. CASE MonitorLooks
  <2>1. CASE process = NoProc /\ MonitorSpawns
    <3>1. process \notin alive
      BY <2>1, ClientAssumption DEF CInv, ClientTypeOK
    <3>2. MonitorOwes = 1
      BY <1>3, <3>1 DEF MonitorLooks, MonitorOwes
    <3> QED BY <1>2, <1>3, <2>1, <3>2 DEF MonitorLooks
  <2>2. CASE /\ process # NoProc
             /\ mon' = IF ClientRunning THEN "watching" ELSE "backoff"
             /\ UNCHANGED <<alive, process, fresh>>
    <3>1. Names'
      BY <1>3, <2>2 DEF MonitorLooks, Names
    <3>2. MonitorOwes' = MonitorOwes /\ RestartOwes' = RestartOwes
      BY <1>3, <2>2 DEF MonitorLooks, ClientRunning, MonitorOwes, RestartOwes
    <3> QED BY <1>3, <2>2, <3>1, <3>2 DEF MonitorLooks, Budget
  <2> QED BY <1>3, <2>1, <2>2 DEF MonitorLooks
<1>4. CASE BackoffOver
  BY <1>2, <1>4 DEF BackoffOver, MonitorOwes
<1>5. CASE SpinEnds
  BY <1>5, MonitorForks DEF SpinEnds, MonitorOwes
<1>6. CASE MonitorSpawned
  <2>1. /\ fresh'["monitor"] = NoProc /\ fresh'["restart"] = fresh["restart"]
        /\ process' = fresh["monitor"] /\ alive' = alive
    BY <1>6 DEF MonitorSpawned, CInv, ClientTypeOK, Spawners
  <2>2. Names'
    BY <1>6, <2>1 DEF MonitorSpawned, Names
  <2>3. MonitorOwes' = MonitorOwes /\ RestartOwes' = RestartOwes
    BY <1>6, <2>1 DEF MonitorSpawned, MonitorOwes, RestartOwes
  <2> QED BY <1>6, <2>1, <2>2, <2>3 DEF MonitorSpawned, Budget
<1> QED BY <1>3, <1>4, <1>5, <1>6 DEF MonitorStep

(* The steps of a restart: what the kill takes away, the spawn may give    *)
(* back once, whether the monitor has already replaced the client or not.  *)
LEMMA RestartKeepsBudget ==
    ASSUME CInv, SpawnInv, RestartStep
    PROVE  SpawnInv'
<1> USE DEF SpawnInv
<1>1. /\ Cardinality(alive) \in Nat /\ updates \in Nat
      /\ MonitorOwes \in 0..1 /\ RestartOwes \in 0..1
      /\ MonitorOwes' \in 0..1 /\ RestartOwes' \in 0..1
  BY FS_CardinalityType DEF Budget, CInv, ClientTypeOK, MonitorOwes, RestartOwes
<1>2. CASE UpdateConfig
  <2>1. /\ process \in alive /\ alive' = alive \ {process} /\ process' = NoProc
        /\ updates' = updates + 1 /\ upd = "idle" /\ upd' = "sleeping"
        /\ UNCHANGED <<fresh, mon>>
    BY <1>2 DEF UpdateConfig, KillClient, ClientRunning
  <2>2. IsFiniteSet(alive') /\ Cardinality(alive') = Cardinality(alive) - 1
    BY <2>1, OneLess DEF Budget
  <2>3. Names'
    BY <2>1 DEF Names
  <2>4. RestartOwes = 0
    BY <2>1 DEF RestartOwes
  <2>5. mon # "watching" => MonitorOwes' = MonitorOwes
    BY <2>1 DEF MonitorOwes, Names
  <2>6. mon = "watching" => MonitorOwes = 0
    BY <2>1 DEF MonitorOwes
  <2> QED BY <1>1, <2>1, <2>2, <2>3, <2>4, <2>5, <2>6 DEF Budget
<1>3. CASE RestartSpawns
  <2>1. RestartOwes = 1 /\ upd = "sleeping" /\ UNCHANGED <<mon, updates>>
    BY <1>3 DEF RestartSpawns, RestartOwes
  <2>2. CASE Fork("restart") /\ upd' = "spawning" /\ UNCHANGED process
    <3>1. PICK p \in Clients : /\ Unused(p) /\ alive' = alive \cup {p}
                               /\ fresh' = [fresh EXCEPT !["restart"] = p]
      BY <2>2 DEF Fork
    <3>2. /\ fresh'["restart"] = p /\ fresh'["monitor"] = fresh["monitor"]
          /\ fresh["monitor"] # p /\ p # NoProc /\ p # process /\ p \notin alive
      BY <3>1, ClientAssumption DEF CInv, ClientTypeOK, Spawners, Unused
    <3>3. Names'
      BY <2>1, <2>2, <3>2 DEF Names
    <3>4. IsFiniteSet(alive') /\ Cardinality(alive') = Cardinality(alive) + 1
      BY <3>1, <3>2, OneMore DEF Budget
    <3>5. MonitorOwes' = MonitorOwes /\ RestartOwes' = 0
      BY <2>1, <2>2, <3>1, <3>2 DEF MonitorOwes, RestartOwes
    <3> QED BY <1>1, <2>1, <3>3, <3>4, <3>5 DEF Budget
  <2>3. CASE process' = NoProc /\ upd' = "idle" /\ UNCHANGED <<alive, fresh>>
    <3>1. Names'
      BY <2>1, <2>3 DEF Names
    <3>2. RestartOwes' = 0
      BY <2>3 DEF RestartOwes
    <3> QED BY <1>1, <2>1, <2>3, <3>1, <3>2 DEF Budget
  <2> QED BY <1>3, <2>2, <2>3 DEF RestartSpawns
<1>4. CASE RestartSpawned
  <2>1. /\ process' = fresh["restart"] /\ fresh'["restart"] = NoProc /\ upd' = "idle"
        /\ fresh'["monitor"] = fresh["monitor"] /\ upd = "spawning"
        /\ UNCHANGED <<alive, mon, updates>>
    BY <1>4 DEF RestartSpawned, CInv, ClientTypeOK, Spawners
  <2>2. Names'
    BY <2>1 DEF Names
  <2>3. RestartOwes' = 0
    BY <2>1 DEF RestartOwes
  <2>4. fresh["restart"] \in alive => MonitorOwes' <= MonitorOwes
    BY <2>1 DEF MonitorOwes
  <2>5. fresh["restart"] \notin alive => RestartOwes = 1
    BY <2>1 DEF RestartOwes
  <2> QED BY <1>1, <2>1, <2>2, <2>3, <2>4, <2>5 DEF Budget
<1> QED BY <1>2, <1>3, <1>4 DEF RestartStep

(* A process that exits is owed by one coroutine at most: the one that     *)
(* waits for it, or the monitor that watches it.                           *)
LEMMA ExitKeepsBudget ==
    ASSUME CInv, SpawnInv, NEW p \in Clients, ClientExits(p)
    PROVE  SpawnInv'
<1> USE DEF SpawnInv
<1>1. /\ p \in alive /\ alive' = alive \ {p}
      /\ UNCHANGED <<process, fresh, mon, upd, updates>>
  BY DEF ClientExits
<1>2. IsFiniteSet(alive') /\ Cardinality(alive') = Cardinality(alive) - 1
  BY <1>1, OneLess DEF Budget
<1>3. /\ Cardinality(alive) \in Nat /\ updates \in Nat
      /\ MonitorOwes \in 0..1 /\ RestartOwes \in 0..1
      /\ MonitorOwes' \in 0..1 /\ RestartOwes' \in 0..1
  BY FS_CardinalityType DEF Budget, CInv, ClientTypeOK, MonitorOwes, RestartOwes
<1>4. Names'
  BY <1>1 DEF Names
<1>5. MonitorOwes' = MonitorOwes \/ RestartOwes' = RestartOwes
  <2>1. CASE upd = "spawning" /\ p = fresh["restart"]
    BY <1>1, <2>1 DEF Names, MonitorOwes
  <2>2. CASE ~(upd = "spawning" /\ p = fresh["restart"])
    BY <1>1, <2>2 DEF RestartOwes
  <2> QED BY <2>1, <2>2
<1> QED BY <1>1, <1>2, <1>3, <1>4, <1>5 DEF Budget

(* Starting and stopping the monitor.                                      *)
LEMMA RunKeepsBudget ==
    ASSUME CInv, SpawnInv, ClientStart \/ ClientStop
    PROVE  SpawnInv'
<1> USE DEF SpawnInv
<1>1. /\ Cardinality(alive) \in Nat /\ updates \in Nat
      /\ MonitorOwes \in 0..1 /\ MonitorOwes' \in 0..1 /\ RestartOwes \in 0..1
  BY FS_CardinalityType DEF Budget, CInv, ClientTypeOK, MonitorOwes, RestartOwes
<1>2. CASE ClientStart
  <2>1. MonitorOwes = 1 /\ RestartOwes' = RestartOwes
    BY <1>2 DEF ClientStart, MonitorOwes, RestartOwes
  <2>2. Names'
    BY <1>2 DEF ClientStart, Names
  <2> QED BY <1>1, <1>2, <2>1, <2>2 DEF ClientStart, Budget
<1>3. CASE ClientStop
  <2>1. /\ alive' = alive \ {process, fresh["monitor"]} /\ process' = NoProc
        /\ fresh'["monitor"] = NoProc /\ fresh'["restart"] = fresh["restart"]
        /\ mon' = "done" /\ UNCHANGED <<upd, updates>>
    BY <1>3 DEF ClientStop, CInv, ClientTypeOK, Spawners
  <2>2. IsFiniteSet(alive') /\ Cardinality(alive') <= Cardinality(alive)
    BY <2>1, NoMore DEF Budget
  <2>3. Names'
    BY <2>1 DEF Names
  <2>4. MonitorOwes' = 0 /\ RestartOwes' = RestartOwes
    BY <2>1 DEF MonitorOwes, RestartOwes, Names
  <2>5. Cardinality(alive') \in Nat
    BY <2>2, FS_CardinalityType
  <2> QED BY <1>1, <2>1, <2>2, <2>3, <2>4, <2>5 DEF Budget
<1> QED BY <1>2, <1>3

(* The budget is kept in every behaviour, restarts and all.                *)
THEOREM SpawnsBounded == Spec => []SpawnInv
<1>1. Init => SpawnInv
  <2> SUFFICES ASSUME Init PROVE SpawnInv
    OBVIOUS
  <2>1. /\ alive = {} /\ process = NoProc /\ mon = "none" /\ upd = "idle" /\ updates = 0
        /\ fresh["monitor"] = NoProc /\ fresh["restart"] = NoProc
    BY DEF Init, ClientInit, Spawners
  <2>2. MonitorOwes = 1 /\ RestartOwes = 0 /\ IsFiniteSet(alive) /\ Cardinality(alive) = 0
    BY <2>1, FS_EmptySet DEF MonitorOwes, RestartOwes
  <2> QED BY <2>1, <2>2 DEF SpawnInv, Names, Budget
<1>2. ASSUME CInv, SpawnInv, UNCHANGED clientVars PROVE SpawnInv'
  BY <1>2 DEF clientVars, SpawnInv, Names, Budget, MonitorOwes, RestartOwes
<1>3. ASSUME IInv, SpawnInv, [Next]_vars PROVE SpawnInv'
  <2>1. CInv
    BY <1>3 DEF IInv
  <2>2. CASE RunStep
    BY <1>2, <1>3, <2>1, <2>2, RunKeepsBudget DEF RunStep, RunStarts, ShutClient, ShutTunnel
  <2>3. CASE Signal \/ ForceKill \/ TunnelTask
    BY <1>2, <1>3, <2>1, <2>3 DEF Signal, ForceKill, TunnelTask
  <2>4. CASE ClientTask \/ RestartTask \/ Spin
    BY <1>3, <2>1, <2>4, MonitorKeepsBudget, RestartKeepsBudget
       DEF ClientTask, RestartTask, Spin
  <2>5. CASE Outside
    BY <1>2, <1>3, <2>1, <2>5, ExitKeepsBudget DEF Outside
  <2>6. CASE UNCHANGED vars
    BY <1>2, <1>3, <2>1, <2>6 DEF vars
  <2> QED BY <1>3, <2>2, <2>3, <2>4, <2>5, <2>6 DEF Next
<1> QED BY WorkerInvariant, <1>1, <1>3, PTL DEF Spec

(* The monitor alone never has two clients, and every restart, however it  *)
(* overlaps with the monitor's own spawns, adds at most one.               *)
THEOREM ClientsBounded == Spec => []OneClient
<1>1. IInv /\ SpawnInv => OneClient
  <2> SUFFICES ASSUME IInv, SpawnInv PROVE OneClient
    OBVIOUS
  <2>1. MonitorOwes \in 0..1 /\ RestartOwes \in 0..1 /\ updates \in Nat
    BY DEF MonitorOwes, RestartOwes, IInv, CInv, ClientTypeOK
  <2>2. Cardinality(alive) \in Nat
    BY FS_CardinalityType DEF SpawnInv, Budget
  <2>3. Cardinality(alive) <= 1 + updates
    BY <2>1, <2>2 DEF SpawnInv, Budget
  <2> QED BY <2>3 DEF OneClient, IInv, CInv, ClientInv
<1> QED BY WorkerInvariant, SpawnsBounded, <1>1, PTL
===========================================================================
