# Verification of proxy-ssh

proxy-ssh lets programs outside reach a service inside a closed machine. Bytes
of an external TCP client go to the relay *server* (a VPS), over one WebSocket
to the *client process* in the closed machine, and from there to the upstream
service. A *worker* on the same machine supervises that client process and an
ssh tunnel. Everything is Python asyncio: one event loop per process, so the
interleavings are those of coroutines at their awaits, and every action of the
models runs from one await to the next.

This directory holds TLA+ models of these parts, TLC configurations that check
them on small instances, and TLAPS proofs. All paths below are relative to the
repository (`src/client/...` is the program package, `server/...` the server).

## Inventory

| Component | State | Operations | Talks to |
|---|---|---|---|
| `WorkerBridge` (server/worker_bridge.py) | the slot `_worker`, `_worker_authenticated`, the send lock, a queue per request | one handler per worker connection, `send_to_worker`, `register_queue`, `unregister_queue`, `stop` | `ServerConnector` over the WebSocket; listener and response relay by calls |
| `ClientListener` (server/client_listener.py) | a coroutine per external client | first read (10 s), REQUEST, upload loop (300 s), CLOSE, finally | external clients, `WorkerBridge`, `ConnectionManager` |
| `ConnectionManager` (server/connection_manager.py) | `_clients` with idle times | register, unregister, send, close, `cleanup_idle` | called by listener, response relay and cleanup task |
| `RelayServer` (server/relay_server.py) | none of its own | `_response_relay`, one coroutine for all clients | queues of the bridge, sockets |
| `ServerConnector` (src/client/connector.py) | `_ws`, `_authenticated`, the reconnect delay | dial, authenticate, listen, reconnect, `send`, `stop` | `WorkerBridge`; calls `TCPRelay.handle` |
| `TCPRelay` (src/client/relay.py) | `_connections`, `_tasks` | REQUEST, DATA, CLOSE, a relay task and a pipe task per request, `cleanup_all` | the upstream service, `ServerConnector.send` |
| `ClientProcessManager` (src/worker/process_manager.py) | `_process`, `_should_run`, the monitor task | start, stop, restart, monitor | the client process |
| `SSHManager` (src/worker/ssh_manager.py) | `_process`, the tunnel status, the monitor task | start, stop, monitor | the ssh process |
| `RelayWorker`, command line (src/worker/worker.py, cli.py) | both managers, the stop event, the pid file | start, stop, restart, ... | signals, both managers |
| `RelayClient` (src/client/\_\_main\_\_.py) | wiring only | run, stop | connector and relay |
| Standalone server (server/relay_standalone.py) | `_ws`, `_active`, `_send_lock`, a task per request | the relay server with a worker built in: REQUEST, CLOSE, reconnect, shutdown | `WorkerBridge`, the hosts that requests name |
| Daytona worker, local client (server/worker_daytona.py, client_local.py) | two copies per connection | TCP-to-TCP relays in a row, without the WebSocket | sockets |
| Configuration store (src/common, src/worker/config.py) | the two files, the machine key | load, save, delete, encrypt | used by the commands, worker and client |
| Setup wizard (src/worker/setup_wizard.py) | the running dialogue | questions, then save | configuration store |
| Doctor and status | none | read-only reports | - |

What is hard here: the slot is replaced while handlers, listeners and the
response relay are suspended with an old reading of it; three coroutines close
the same client; a request and its CLOSE race with the task that opens the
upstream connection; cancellation arrives at any await; links are lost with
one end noticing later than the other; tasks of the built-in worker outlive
the CLOSE and the connection they send on; supervised processes die at any
moment of their supervisors' sleeps; and a command that fails in the middle
leaves what it has done so far. `PROJECT.json` lists the hazards with
their lines and the properties about them.

Correctness, part by part:

* bridge: the slot names a connection that is served; the lock is not leaked;
  dead connections leave; a replacement takes over;
* link: client and server agree, and meet again after a loss, once the client
  gets to notice it;
* server: the worker learns of every end of a request; responses arrive as a
  prefix, END last, and END closes the client; nothing stays in a table; the
  listener of a client that has gone finishes;
* relay: both directions in order; END only after a complete response; tables
  clean; CLOSE tears down, once the receive loop gets to it;
* worker: one client, one tunnel, dead processes are noticed and replaced,
  SIGTERM ends the worker and what it started;
* built-in worker: no open connection out of reach of CLOSE, a task ends with
  its target or its writer and says so;
* both workers: the frames of a request begin after REQUEST and stop at END or
  ERROR, which is what the server relies on;
* direct relay: both directions; commands: a finished dialogue is saved.

## Modules

| Module | Models | State and actions |
|---|---|---|
| `WorkerBridge` | server/worker_bridge.py and the library's server-side connections | `worker`, `authed`, `sendq` (holder and waiters of the lock), `handler[c]` (where each handler coroutine stands), `ws`, `up`, `down` (connection and frames). `HandlerStart`/`HandlerReplaced` = lines 75-88, `HandleAuth`/`HandleAuthOk`/`HandleOther` = `_process_worker_message`, `HandlerExit` = the finally block, `SendRaw`/`LockWakeup`/`SendDone` = `_send_raw` up to, at and after its two awaits |
| `BridgeShutdown` | `WorkerBridge.stop`, beside everything in `WorkerBridge` | `stop` (how far it has come), `stopee` (the connection whose close it awaits). `StopBegins`, `StopWorkerClosed`, `StopReturns` are its steps between awaits, `ServerCloses` is the library's server closing its connections |
| `WorkerLink` | extends `WorkerBridge` with `ServerConnector` and the network | `cpc`, `cur`, `cli` (the client's loop), `net` ("up" or silently "cut"), counters of losses. `Dial`, `ReadReply`, `ReadRelay`, `Handled`, `ConnectionClosed`, `Wake` follow `_connect_and_listen` and `run`; between `ReadRelay` and `Handled` the loop awaits the handler of a message. `KeepaliveFails` is the keepalive closing the connection of a client that stays there |
| `Session` | abstract: what server and client make of their connections, so that "the" worker means something | `phase[c]` ("new", "linked", "over"); `Begin`, `End` |
| `RelayServer` | client_listener.py, connection_manager.py, the queues of the bridge and `_response_relay` | `pc[r]` per listener, `clients`, `queues`, `idle`, the socket of each client with its buffer, the position of the response relay and of the cleanup task. `MayHalfClose`, `MayTimeout` and `MayIdle` switch half-close, read timeouts and idling on |
| `TCPRelay` | src/client/relay.py, the receive loop that calls it and the shutdown of `RelayClient` | `conns`, `tasks`, `loop[r]` and `pipe[r]` (relay and pipe task), `hpc` (the drain the receive loop awaits), the frames of the server, the upstream's ends. `Stop` is `ServerConnector.stop`, `CleanUpAll` the rest of the shutdown: `cleanup_all` and the cancellation of the connector's task |
| `WorkerEnd` | abstract: what `_process_worker_message` and `_response_relay` expect of a worker | `wk[r]` ("none", "serving", "ended"), `data[r]`; `Request`, `Data`, `End` |
| `InlineWorker` | server/relay_standalone.py, the worker built into the standalone server | `task[r]` (where the task of a request stands), `active`, `wr` (the writer), `out` (frames given to the server), `link`. `RunStep` is the coroutine that reads frames and reconnects, `TaskStep` the task from one await to the next, `Stop` the shutdown of main, as one step. `Talkers` are the targets that may never pause for the 30 s of the read timeout |
| `DirectRelay` | client_local.py and worker_daytona.py in a row | `st` and `inb` per end of the three connections, `lpc`, `wpc` (the two `handle_client`), `copy` |
| `Commands` | cli.py, setup_wizard.py, config_base.py and worker/config.py as the commands use them | `config`, `client` (the files), `at` (the question asked), `last` (how the last command ended) |
| `ClientProcess` | process_manager.py | `process`, `alive` (processes that run), `fresh` (spawned, not yet returned), `mon`, `upd` |
| `SSHTunnel` | ssh_manager.py | `ssh`, `tunnels`, `status`, `tmon` |
| `Worker` | worker.py and the signal handlers of cli.py; composes the two above on one event loop | `run`; `Signal` is SIGTERM or SIGINT, `ForceKill` a SIGKILL after it, whoever sends them |
| `WorkerBridgeProofs`, `BridgeShutdownProofs`, `WorkerLinkProofs`, `WorkerProofs`, `RelayServerProofs`, `TCPRelayProofs`, `InlineWorkerProofs`, `DirectRelayProofs` | theorems about the module each extends | |

`RelayServer` takes its worker to be anything that behaves like `WorkerEnd`:
its `Arrive`, `WorkerData` and `WorkerEnd` actions are those two steps, with
the queue the frame goes to. `TCPRelay` and `InlineWorker`, the two workers of
the repository, are each shown to implement it (`ServesRequests`): `wk` is read
off the frames delivered and off what the server has sent (`Served`), `data` is
the number of DATA frames delivered (`Given`), and every other step of the
worker is a stutter. Both refinements are checked by TLC and proved, and
`RelayServer` is proved to take no other step of its worker than `WorkerEnd`
does (`ServerUsesWorkerEnd`), each request being sent once. The server's proofs
therefore say something about both.

`WorkerLink` implements `Session` (`OneSession`): a connection is "linked" while
the client listens on it, it is up, and the server has it authenticated in the
slot; it is "over" when it is closed or cut, or when its handler has been past
the slot and the slot names another.

The `MC*` modules add model values and symmetry for TLC. Frames and payloads
are members of small sets; JSON, base64, identifiers and wording are left out.
Sockets and the websockets library are external and modelled by what the code
relies on: ordered delivery up to a loss, `close()` that returns when the
connection is gone, writes to a closed connection that fail, `drain()` that
waits while the buffer is above its limit.

Each module holds, next to a definition, the mutated form of it that shows
that a property notices the bug ("Mutant: ..."). They are not part of any
specification.

## Runs

| Run | Question | Bounds |
|---|---|---|
| `bridge` | Are slot, flag and lock right however two connections replace each other, is every awaited close under way, and does `stop()` return? | 2 connections, 1 listener (3 users of the lock), frames that are AUTH with the right or a wrong token, AUTH_OK or not JSON, 1 frame in flight each way, `stop()` at any time |
| `link` | Do client and bridge agree, use one connection at a time, and meet again? | 3 connections, 1 loss, 2 silent cuts, 1 listener, message handlers that need not return |
| `link_silent_cut` | finding | 3 connections, 1 silent cut, no loss |
| `server_one_client` | Is the worker told of every end, and does END close the client, last? | 1 request, 2 chunks each way, half-close, timeouts, 1 link failure, a client that may stop reading for good |
| `server_two_clients` | Are responses kept apart, tables clean and closes under way? | 2 requests, 1 chunk up, 2 chunks down |
| `server_half_close` | finding | 1 request, no timeouts and no idling |
| `relay` | Are both directions ordered and the tables clean under every failure, and is the server served as it expects? | 1 request, 2 chunks each way, an upstream that may stop reading for good, resets, 1 broken link, shutdown at any time |
| `relay_upload_hole` | finding | 1 request |
| `inline_tasks` | Do the tasks of the built-in worker end, tell the server and leave nothing behind? | 2 requests, one to a target that may never pause, 1 response chunk, 1 frame in flight, resets, 1 broken link, shutdown at any time |
| `worker_life` | Does the worker keep exactly one client and one tunnel, and stop when it is sent SIGTERM? | 3 process ids (all that can be in use at once with 1 restart), unlimited deaths and failed spawns |
| `direct_one_way` | finding | 2 chunks each way |
| `commands_setup` | finding | none: the state is finite |

The bounds: two connections are the fewest with which one replaces another, and
what `bridge` can afford beside `stop()`. A third that takes the slot while two
wait for the same close is in no run (`link` has three connections, but under
`Settled`, below, one handler replaces at a time); the theorem
`SlotAlwaysOwned` covers any number. Two chunks are the fewest with which order, loss of one and a
last-but-one exist. The requests of the relay and of the built-in worker share
the link and the receive loop only; the second request of `inline_tasks` is
there for the tasks that share one connection, with one chunk each, since the
order of chunks is also proved. Two silent cuts are the fewest with which a
connection is cut while its handler still waits for one that was cut before;
one listener suffices beside the handlers, which use the send lock too.
The type invariants of `WorkerBridge`, `WorkerLink` and `RelayServer` are in no
run, since theorems state them. Deadlock is not checked where requests,
connections or the worker come to their end and nothing is left to do.

Fairness is that of an event loop: a coroutine that is ready runs (weak
fairness per coroutine, strong for the worker's `run`, whose wake-up is in the
loop's FIFO of ready callbacks whenever the loop gets a turn), sleeps end, a
close handshake ends, at a shutdown too (the library's `close_timeout`), and
keepalive finds a dead peer (a ping after 20 s, 10 s for the pong). A worker
whose loop is held up for ever after SIGTERM is sent SIGKILL.

Nothing is assumed of external clients that may stall, of the upstream, of
losses or exits, of a link that is down coming back, of a client binary
becoming executable, of a worker ending the responses it has begun, or of a
client becoming idle or running into a read timeout. Where that lets a
coroutine wait for ever, the property states it as its condition:

* the receive loop of the client process awaits the `drain()` of an upstream
  that may never read (relay.py:49, awaited at connector.py:106). `LinkRecovers`
  is about a client whose handlers return, `CloseTearsDown` about a receive loop
  that gets out of its drains;
* the response relay awaits the `drain()` and the close of a client that may
  never read. `EndCloses` is about a relay that comes back to its loop with the
  worker connected;
* a target that sends something every 30 s never lets the read timeout of the
  built-in worker expire. `TasksEnd` is about a target that ends, resets or
  pauses, and about a writer that CLOSE has found.

One assumption about time is built into `WorkerLink`: when the client dials
again, the server has dealt with every connection it knows to be gone
(`Settled`). The client sleeps 5 s after the first loss and 10 s or more after
every later one, against the library's close timeout of 10 s. A connection
that was cut silently may be unknown to be gone then, but no handler is
still waiting for it: a handler that waits has a connection on which the client
waits for the reply, up to 10 s, and then sleeps 10 s or more, while the wait
itself takes 10 s at most. Without the assumption,
`Agreement` and `SlotNotStale` fail: the mutant `WakeAtOnce` shows how a
handler that was still waiting for its predecessor takes the slot from a
connection that came after it.

## Findings

* A connection that ends after it was replaced clears the slot of its
  replacement (`link_silent_cut`).
* A client that half-closes loses its response (`server_half_close`). The
  upload's read timeout ends downloads in the same way, which the run leaves
  out.
* DATA that overtakes `open_connection` is dropped (`relay_upload_hole`).
* Nothing the target answers comes back through the Daytona worker: its relay
  passes the reader and the writer of different connections, and the second
  copy tries to read from a writer (`direct_one_way`).
* `proxy-ssh setup` saves nothing: the wizard uses a class it does not import,
  so the dialogue ends with a `NameError` after its last question. A password
  or an encrypted key ends it earlier (`getpass` is the module there), and
  after `--reset` the old files are already gone (`commands_setup`).

Seen while reading or in the models, without a document that says otherwise:

* `cli.py` takes `WorkerConfigManager` from `worker/config.py`, which has no
  `check_process_running`, `write_pid` or `remove_pid`; the class of that name
  in `worker/paths.py` has them and nothing imports it. So `start`, `stop`,
  `status`, `restart` and a confirmed `reset` end with an `AttributeError`,
  which is what `Commands` models. `Worker` models `RelayWorker` as it runs when
  it is given a manager with those methods.
* A response goes on after a broken link with the next chunk it reads: the
  chunks in flight are a hole in it (relay.py:96). `EndMeansComplete` and
  `ResponseOrdered` bound the damage.
* While the client binary cannot be executed the monitor retries without
  yielding (process_manager.py:120), so SIGTERM is not handled; only SIGKILL
  ends the worker then, and ssh goes on running.
* CLOSE can come too early: in the relay, before the task that REQUEST scheduled
  has registered the relay task (relay.py:119), and the upstream connection
  stays; in the built-in worker, before the connection is made
  (relay_standalone.py:61), and the task goes on to the end of the response or
  its read timeout, for ever if the target never pauses.
* A client process behind an upstream that does not read stays in its receive
  loop (relay.py:49): it handles no CLOSE, and when its link is lost it neither
  notices nor dials again. The server's response relay waits in the same way
  for a client that does not read (relay_server.py:90), and serves nobody else.
* What a listener has not said before the link failed is never said: a request
  whose client goes meanwhile keeps its upstream connection
  (client_listener.py:117), and an END that a worker could not send is not
  repeated (relay.py:112).
* The built-in worker drops every DATA frame: a client of the standalone server
  can send one chunk.
* `connector.py` asks `ws.open`, which the asyncio API of recent websockets
  releases lacks; the models take it for "the connection is open".
* The reconnect delay, and both back-off counters of the worker, grow and are
  never reset after a success.
* A client's stdout and stderr are pipes that nobody reads.
* A worker that is killed two seconds after SIGTERM, as `cmd_stop` means to, may
  still be shutting down: its client and ssh then go on running if they have
  not had a SIGTERM yet, or need longer to react to it.

## Proofs

`WorkerBridgeProofs` proves, for all sets of connections and listeners and all
bounds on frames in flight:

* `BridgeTypes`: `Spec => []TypeOK`;
* `SlotAlwaysOwned`: `Spec => []SlotOwner`;
* `LockNeverLeaks`: `Spec => []LockDiscipline`;
* `SilentBeforeInstall`: `Spec => []NothingBeforeInstall`;
* `NobodyWaitsInVain`: `Spec => []WaitsEnd`, the close that a handler awaits
  and the failure that a sender is about to meet are those of a connection that
  is closing or closed.

All but the last follow from `BridgeInvariant`, `Spec => []IInv`. `SlotOwner` alone is not
inductive: a step that ends a send moves the handler on, and only if a handler
inside a reply is exactly one that is a sender (`HandlerState`) does it stay
in the slot's owner states; and a handler that does not exist yet can only
be known not to own the slot if its connection is unborn. The lock needs that
the queue has no duplicates, so that its tail holds everybody but the holder
(`TailKeepsOthers`, `AppendKeepsOthers`). The only assumption is
`BridgeAssumption`: listeners and connections are different things, and
`NoConn` is none of them. `WaitsEnd` needs that whoever is recorded as awaited
was asked to close before, and that no step reopens a connection; it is the
safety half of the bridge's freedom from deadlock, whose other half (a close
ends, by the library's timeout) is the fairness under which TLC checks
`SendsReturn` and `DeadWorkerLeaves`.

`BridgeShutdownProofs` carries these over to a bridge that is being stopped:
`StoppingIsBridge`, `StopSpec => Spec`, fairness included. The shutdown adds
variables and one kind of step that touches the bridge's own, the close of a
connection, which the bridge's environment may take anyway. It also proves
`StoppedBridgeIsEmpty`: once `stop()` has returned, no handler is left and the
slot is empty, because only a handler that serves its connection can be named
by the slot (`SlotOwner`). `StopWaitsForTheGone` extends `WaitsEnd` to `stop()`,
which awaits a close it has asked for itself even if a handler has taken the
slot meanwhile. That `stop()` does return is `StopEnds`, by TLC.

`WorkerLinkProofs` proves, for any number of connections, listeners, losses and
silent cuts:

* `LinkTypesHold`: `LinkSpec => []LinkTypeOK`;
* `EndsAgree`: `LinkSpec => []Agreement`;
* `SlotNeverStale`: `LinkSpec => []SlotNotStale`;
* `LinkKeepsBridge`: `SlotOwner`, `LockDiscipline`, `NothingBeforeInstall` and
  `WaitsEnd` hold in the composition too;
* `LinkIsOneSession`: `LinkSpec => OneSession`, the refinement of `Session`.

The composition keeps the bridge's invariant because each of its steps is, on
the bridge's variables, one the bridge may take. What it adds (`LinkInvariant`)
is the client's side: which ends are open at each place of the client's loop
(`Ends`); that only AUTH is on its way up (`OnlyAuth`); that a handler which
has not taken the slot yet is that of the newest connection, so that once this
one has taken it nobody else will (`Newest`, where `Settled` enters); that the
client only listens on a connection that has taken the slot (`Reached`); and,
until the first silent cut, that every earlier handler has returned before the
client dials, so that the newest keeps the slot and an AUTH_OK sent to it or
read from it means that the flag is set or about to be (`Quiet`).
The proof treats the server's steps through what
they may change (`ServerMoves`) instead of one by one. For the refinement, a
step either leaves every phase alone, ends some, or begins the one of `cur`
(`Moves`), and "over" is never left (`OverStays`).

`WorkerProofs` proves, for any set of process ids and any number of restarts:

* `WorkerTypes`: `Spec => []TypeOK`;
* `ShutdownIsClean`: `Spec => []StoppedCleanly`;
* `TunnelNeverDoubled`: `Spec => []OneTunnel`;
* `TunnelLoopYields`: `Spec => []LoopNeverSpins`;
* `ClientsBounded`: `Spec => []OneClient`.

The inductive invariant (`WorkerInvariant`) adds what these lean on.
`TunnelInv` ties the status to the await at which the tunnel's monitor stands,
so that at the top of the loop, where ssh is started, none is alive.
`ClientInv` says, while no restart has been asked for, that the monitor knows
every client that runs and is about to spawn only when the last one is dead;
without it a shutdown in the middle of a spawn could miss a process. `RunInv`
records how far the shutdown has come: a monitor once cancelled never moves
again. `ClientsBounded` counts: the clients that run, the one the monitor is
about to start because it knows of none, and the one a restart is about to
start are together at most one more than the restarts so far (`SpawnsBounded`).
The count alone is not inductive; it needs that the two never name the same
process (`Names`). `ClientAssumption` (no process id is `NoProc`) is all that
is assumed.

`RelayServerProofs` proves, for any number of clients and any bounds:

* `ServerTypes`: `Spec => []TypeOK`;
* `ServerTablesClean`: `Spec => []NoLeak`;
* `WorkerAlwaysTold`: `Spec => []WorkerTold`;
* `ResponsesArePrefixes`: `Spec => []ResponsePrefix`;
* `EndComesLast`: `Spec => EndIsLast`, an action property;
* `ClosesAreUnderWay`: `Spec => []ClosesUnderWay`;
* `ServerUsesWorkerEnd`: `Spec => UsesWorkerEnd`, the server's view of its
  worker is `WorkerEnd`.

The invariant behind them (`ServerInvariant`) has five parts besides the
types. `Tables` says at which awaits of a listener its request may be in either
table; since the relay and the cleanup close clients of others, `NoLeak` needs
it for every listener state and not only the last. `Told` says the same of the
CLOSE the worker is owed. `Visited` is about the relay's suspended reading of
the tables: the request it awaits a drain or a close of has a listener, and a
served client that is still registered has a queue, so that no frame of a
connected client is dropped. `Stream` follows a response through its three
places: what the client has read, then its socket buffer (`Written`), then its
queue (`Queued`) are consecutive numbers, END last, and without a link failure
nothing is missing. That END comes last is then a fact about the head of the
queue. `ClosesUnderWay` needs beside it that a request has a socket as soon as
it has a listener (`Placed`), since a client is popped by whoever comes first
and only the first closes; `UsesWorkerEnd` needs `Told`, by which a request that
is about to be sent has not been sent. The proof has a lemma per part and per group of actions; the assumption
is `ServerAssumption` (the bounds are naturals, `NoReq` is no request).

`TCPRelayProofs` proves, for any number of requests and any bounds:

* `RelayTypes`: `Spec => []TypeOK`;
* `RelayTablesClean`: `Spec => []NoLeak`;
* `RelayResponses`: `Spec => []ResponseOrdered`;
* `RelayEnds`: `Spec => []EndMeansComplete`;
* `RelayUploads`: `Spec => []UploadOrdered`;
* `RelayServes`: `Spec => ServesRequests`, the refinement of `WorkerEnd`.

The invariant (`RelayInvariant`) has a part for each direction and one per
request. `ChanInv` orders the frames the server has sent and the client not
yet handled, and keeps a REQUEST in front of everything that is done for it;
`Uploads` puts what the upstream has read before what is in its writer, and
that before every frame still on its way, so that it does not matter that the
first chunk is written by one task and the others by another. Of one request,
`StageOf` says which writer, pipe and entries each stage of the relay task may
have; `ResponseOf` where the response may have come to, in particular that END
comes from a pipe that is done and ERROR from a task that never had one;
`CompleteOf`, only while the link has never failed, that everything read has
been delivered and that a pipe which comes to its end has a reason to.
Requests share the channel and the receive loop only, so the proof takes a
step of one request at a time (`Steps`) and shows that the others are as they
were (`OthersSame`), with the shutdown, which closes all of them at once, as a
case of its own. The assumption is `RelayAssumption`.

`InlineWorkerProofs` proves, for any number of requests and any bounds:

* `InlineTypes`, `InlineTablesClean`, `InlineEndIsTold`: the three invariants
  of the run;
* `InlineServes`: `Spec => ServesRequests`, the refinement of `WorkerEnd`.

The refinement needs that a request has at most one task in its life
(`OneTask`: its REQUEST frame is in the channel once, and only until the task
is made), that a task which has sent END or ERROR is over (`EndIsFinal`), and
that a task which sends a chunk has read one (`ChunkInHand`); the assumption is
`InlineAssumption` (the bounds are naturals).

`DirectRelayProofs` proves `NothingEverComesBack`: no chunk of an answer passes
the Daytona worker, however much is sent, so the counterexample of
`direct_one_way` is what every connection meets.

Every safety property of a passing run is a theorem. Model-checked only are the
liveness properties, which are beyond the prover, and the findings: a
counterexample needs no proof.

## Not modelled, and the plan

Not modelled:

* the rest of the server's shutdown (`RelayServer.stop`, `ClientListener.stop`,
  `ConnectionManager.close_all`): what it waits for depends on the Python
  version (see the hazard at relay_server.py:67);
* the command line and the configuration loading of `RelayClient`;
* the pid file, since no command that runs reaches it;
* writing, reading and the encryption of the configuration, since the wizard
  never reaches `save()`;
* doctor and status (read-only reports), JSON and base64, log messages, the
  length of delays;
* three outcomes inside a modelled step. A frame whose send is cancelled by
  CLOSE or the shutdown counts as not delivered (`CloseConnections`), though one
  already in the socket's buffer may still arrive. The first chunk's `drain()` in
  the Daytona worker does not raise (`DirectRelay.Connected`); raising, it would
  leave the target's connection open. The shutdown of the standalone server is
  one step (`InlineWorker.Stop`), without the sends that could go out while it
  closes the connection.

Next, in this order:

1. The server's shutdown, with the version of `wait_closed()` as a parameter.
2. When the wizard saves: the store with a crash between truncation and write;
   when the commands find the pid file methods: start, stop and restart of
   several workers.
