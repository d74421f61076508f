# TLA+ models of bevy-personal-test

A deterministic multiplayer framework: Rhai scripts run in a sandboxed VM on a
Bevy client, the client predicts and rolls back, a gateway serves clients over
encrypted WebSockets, and scripts and assets are updated over the air. These
modules model the parts of it that carry state and are hard to test, TLC checks
them on small instances, and TLAPS proves their safety, every invariant and
action property the passing runs check, for every value of the constants. `PROJECT.json` maps every definition to its lines.

## Inventory

| part | state | operations | what is hard | what makes it correct |
| --- | --- | --- | --- | --- |
| `engine/netcode` snapshot, prediction, rollback | ring of snapshots, inputs by tick, pending rollback | frame, input, server state, rollback | late, repeated, reordered server states; a ring and an input window that evict independently | a rollback can always be served, finds inputs for the ticks it replays, and ends at the current tick |
| `engine/netcode` connection | Connected / Frozen / Resync / Disconnected, retry time | disconnect, tick, full sync, version mismatch | three timers at once, late ticks, sync onto another tick | outages are bounded and resolve |
| `engine/protocol` connection | state of a session | events | reconnect paths | no game traffic without fresh keys |
| `server/gateway` listener | registry, counters, channel per connection | handshake, receive, pong, unregister, writer task | concurrent tasks, bounded channel, replayed frames | nothing answered twice or out of order, tasks end, the registry empties |
| `server/gateway` rooms, sessions | rooms, sessions, id counters | create, join, leave, start, finish, remove | any order of calls | capacity, roster, ids |
| `engine/vm_runtime` script manager | scripts by (priority, id), state, error counter | load, bulk load, unload, replace, frame | errors in the middle of a frame, rollback of a replacement | one instance per id, disabling earned |
| `engine/vm_runtime` hot update | reassembly buffers, batches | start, chunk, apply, commit, purge | loss, duplication, reordering, timeouts, failure half way | the server believes what happened; a commit keeps exactly what came before its failure |
| `server/hot_update_cdn` broadcast | answers per update and client | start, ack, remove, cleanup | answers after a restart of the session | as above |
| `engine/ota`, `engine/asset_manifest` | download queue, bytes in progress | schedule, batch, complete, apply | accounting across repeated schedules | budget kept, no leak |
| `server/simulation`, `replay_engine` | tick, RNG, players; recorded frames, playback position | step, join, snapshot, restore, record, run_full, step_frame | a restore in the middle of a recording | playback clears exactly the recordings that were not displaced; nobody joined in the future |
| `server/validator`, `anti_cheat`, `netcode/hash_validation` | mismatch counts, suspicion, sampler RNG, records | check, reset, sample, upgrade, result, remove | any order of matches, mismatches, resets and late results | suspicion follows the history, verdicts only rise, upgrades do not disturb sampling |
| `engine/shadow_vm`, `client/js/shadow_worker.js` | frame window, next sample, pending count, worker life cycle | frame, send, answer, error, restart, init, validate | a worker throws with requests and answers on their way, not always with an error event; a send fails after it was counted | requests are whole and fresh, the count is exact, a full queue drains unless nobody can know |
| `vm_runtime` bridge API, `engine/vm_bevy_bridge` | budget, id allocator, handles, two queues, entity map, mirror | API calls, transfer, flush, mirror, fallbacks | overflow, stale mirror, events of disabled scripts | map and world agree, no event is lost uncounted |
| `client/wasm_loader`, `client/js` start-up, `server/key_exchange` | key pair, retry count, timer, keys and counters of both ends | start, complete, timeout, retry, frames | a late answer to a hello whose key pair was replaced | both ends hold one key and every frame opens; the player is told |
| `vm_runtime` atomic update | batches with expected and received scripts | register, script ready, time out | re-registration, late and repeated scripts | handed over whole, once, in the newest builds |
| `bevy_runtime` asset decryption, `build/asset_encryptor` | session key, files in two formats | read, rotate, clear | the key changes while the file is awaited; format told by length | the whole content or none of it |
| `bevy_runtime` input, fixed update | captured frame, last frame handed on, recogniser | capture, ticks, reset | no or several ticks in a frame, state changes in a gesture | each frame once and in order; a gesture is what the whole hold makes of it |
| `bevy_runtime` camera, `vm_runtime` camera module | registry, override stacks, shakes, cinematic | register, push, pop, remove, tick, flush | order of systems, several owners of one stack | handles unambiguous, the best override shown, each owner removes its own |
| rest of `bevy_runtime` and `vm_runtime` | counters, statistics, file watchers | | | see *Not modelled* |
| `engine/crypto`, `deterministic`, `state_hash`, `bridge_types`, `server_types`, `build/*`, `tools/*`, `client/js` | none of their own, or generated | | | primitives taken as perfect, data, batch tools |

How they interact: the owner of `NetcodeState` drives prediction and hands the
same snapshot ring to the connection manager; `HotUpdateManager` installs builds
through `ScriptManager::replace_script` at frame boundaries and its answers feed
the server's `BroadcastManager`; in the gateway the listener does not use the
room and session managers yet. On the client a driver outside this repository
hands the ECS state to the scripts and their events and camera operations to
the bridge; the shadow VM replays what they computed in a Web Worker, over
messages. On the server the simulation, the recorder and the verdicts are
libraries that no code joins yet.

## Modules

* **SnapshotBuffer** – the ring and the input buffer as operators (`snapshot.rs`).
* **Rollback** – `NetcodeState` with `PredictionManager` and `RollbackManager`.
  `Frame` is the owner's simulate-then-`apply_input`; `HandleServerState` takes
  any tick and any world, which is what loss, delay and reordering amount to.
  The loop of `rollback_to` is one step: `Resimulation` describes its worlds, `PushAll`
  its pushes. `tick` and `world` belong to the owner, who adopts what a rollback
  or a sync returns. `first_revised` is auxiliary. `last_confirmed_tick`,
  which no code but tests reads, is left out.
* **Connection** – `ConnectionManager`. The clock is its caller's tick; up to
  `MAX_SKIP` ticks pass between two calls. It stands still while connected:
  only differences within an outage are read.
* **NetClient** – the two above around one ring.
* **WsListener** – `handle_ws_connection`, its writer task and `ClientRegistry`,
  one action per stretch between awaits. AES-GCM is perfect: a frame decrypts iff its
  sequence number is the expected one. `wire` holds all frames ever sent, and
  the handler may be given any of them at any time.
* **GatewayRooms**, **GatewaySessions** – `RoomManager`; `SessionManager` with
  the `ConnectionState` of `engine/protocol`. **Gateway** puts the three side by
  side; since they share nothing, `part` selects the one a behaviour shows.
* **Scripts** – `ScriptManager`. A frame is a list of dispatches, each a walk
  over the map with one action per script. What a script's hook does is a choice
  among Ok, a limit error, a scope error and a runtime error, and whether it
  used up budget. `on_init` and `streak` are auxiliary. A frame's walks are loops
  over finite maps, so no liveness is stated of them; a walk that did not pass over
  disabled scripts would show in `AutoDisableSound`.
* **HotUpdate** – `HotUpdateManager`, on top of Scripts: `TryApply` and
  `TryCommit` use `ReplaceResults`, the set of outcomes of `replace_script`.
  A build is a model number; loading accepts exactly a whole build. `last_commit`
  keeps what `commit` found, what it left and the id it failed at.
* **OtaBroadcast**, **AssetOta** – `BroadcastManager`; `OtaManager` with
  `AssetManifest::diff`. **Ota** composes them with the network.
* **Replay** – `AuthoritativeSimulation`, the recorder of its steps and the
  player that checks a recording on a simulation of its own. A step does what
  the code does today: it moves the tick, the game logic is a TODO. The hash is
  injective. `rewound` is auxiliary.
* **Verdicts** – `HashChecker` and the client's `HashValidator` fed with the same
  reports, `CheatDetector`, `ReplaySampler` (its RNG is the operator `Roll`).
* **ShadowVm** – collector, sampling, back-pressure, cleanup counter and worker
  life cycle on the main thread; a worker that loads, initialises, answers and
  throws. `queued` is the part of its messages that `shadow_worker.js` holds in
  `pendingMessages`: a throw for one of those ends the loop over them and is only
  logged (`shadow_worker.js:60-67`), so the rest is never dispatched and no error
  event is raised; a throw in `onmessage` is an error event. A panic of
  `handle_message` may leave `WORKER_STATE` borrowed, and then every further
  message panics (`broken`). Loading may fail without an event (`stuck`) or with
  one (`gone`). `send_request` may fail after `try_send` has counted the request;
  `lost` (auxiliary) counts the requests that will never be answered. An
  acknowledgement is a message of no bytes, which `on_message` refuses; no code
  here calls `on_init_ack`, so it is an external choice whether the layer above
  does. Channels keep their order, and what a replaced worker posted, and its
  error event, still arrive. The callbacks joining the parts are not in the
  repository: the order is that of the crate's integration test and comments.
* **Bridge** – the functions of the Bridge API by what they deduct, check and
  queue, and the systems of `BridgePlugin` in the order of the schedule. The
  functions are grouped by the event they push; all events that the flush only
  logs are one. The mirror and fallback systems are one step, as they write
  different state. One `BridgeState` serves both sides, as the comment on
  `SharedBridgeState` says. `fallback_event_system` is modelled but has nothing
  to remove: the flush of the same frame has just emptied the queue. The animation
  fallback sets or removes the play request and leaves a blend request, as the code
  does (`fallback.rs:81-87`).
* **Verification** puts Replay, Verdicts and ShadowVm side by side.
* **StartUp** – `handshake.rs` and the JavaScript that drives it against
  `handle_ws_connection`. Key pairs are numbered, a session key is the pair it
  was made with. The socket delivers in order; what is sent when it is closed is
  lost, as `sendBinary` waits for an `onopen` that has been. `on_timeout` makes one
  pair and `js_retry_handshake` another.
* **Assets** – `encrypt_file`, `SessionKeyStore`, `EncryptedAssetReader`. A read is
  two steps, before and after the await. What `decrypt_all` finds in a file of the
  other format is any outcome, success with nothing included. `steady` is auxiliary.
* **AtomicUpdate** – `AtomicUpdateManager`; `since` and `ready` record what should be
  handed over.
* **Input** – capture, `input_distribution_system`, `GestureRecognizer` and the fixed
  ticks of a frame. Bevy leaves the order of the distribution and of
  `increment_tick_counter` open, but fixes it when the schedule is built:
  `counted_first` is either, once per behaviour. Beside the recogniser
  stands a definition of what a gesture is over the whole hold (`WhileDown`,
  `OnRelease`).
* **Camera** – the systems of `CameraPlugin` in the order of the schedule, one step
  per camera in the registry's systems and one per request in `Update`;
  `flush_camera_ops` in the fixed ticks. Bevy keeps the removals until the next
  `PreUpdate`. `unlucky` is auxiliary.
* **PriorityOverrides** – the abstract specification of the override stacks: a set
  per camera of which the highest priority, and the newest among equals, is
  followed. Camera implements it (`Overrides == INSTANCE PriorityOverrides WITH
  ...`; `StacksFollowPriority` is `Overrides!PSpec`).
* **Client** puts StartUp, Assets, AtomicUpdate, Bridge, Input and Camera side by
  side; as in Gateway and Verification, `part` selects one, since no code joins them.
* **Selection** – what `Vec::retain` leaves of a vector, by the positions that stay;
  used wherever the code filters a list (rooms, the bridge's and the cameras' queues,
  downloads).
* **NetClientProofs** (Rollback, Connection and NetClient), **ScriptsProofs**,
  **OtaProofs**, **ClientProofs** (StartUp, Input, AtomicUpdate, Assets, Bridge),
  **CameraProofs**, **VerificationProofs**, **GatewayProofs** – the theorems.
  **ListLemmas** – the facts about lists, counts, sums and recursive functions that
  they share.
* **MCNetClient**, **MCScripts**, **MCOta**, **MCVerification** – instances for TLC.

Operators with a suffix such as `_Mut` are plausible wrong versions of a
definition, kept to see that the properties notice them; no specification uses them.

## Runs

| run | result | bounds |
| --- | --- | --- |
| `netclient` | passes | ring of 3, depth 1, ticks 0..4, 2 worlds, 2 inputs, one retry, calls up to 2 ticks apart |
| `lookup` | violated: `LookupIsCurrent` | the code's 10 and 8 |
| `gateway` | passes | 2 connections, channel of 1, 3 frames each; 2 rooms, 2 players, 2 sessions |
| `scripts` | passes | 2 ids, 2 priorities, 2 builds, threshold 2, budget 1, one event and one input per frame |
| `auto_disable`, `bulk_load` | violated: `AutoDisableFires`, `InitHasRun` | same |
| `ota` | passes | 2 updates of 2 and 1 chunks, 2 builds, 2 clients, one batch of up to 2 scripts, 2 assets, budget 5 |
| `verification` | passes | 3 recorded frames, 2 snapshots, 2 seeds; 5 comparisons, thresholds 0 to 2; 2 sessions, 7 mismatches, 4 samples; shadow VM: window of 2, queue of 2, 6 frames, 2 failures |
| `client` | passes | 3 messages each way; 2 readers, 2 keys, sizes at and above the limit, 3 reads, 3 key changes; 2 batches of 2 scripts in 2 builds; bridge: 3 frames, 3 calls, queue of 1; 6 input frames and ticks, up to 3 ticks a frame, 2 positions; 2 cameras, 2 frames, 3 calls |
| `spawn_id` | violated: `PreallocatedIdUsed` | 2 frames, 2 calls, queue of 2 |
| `handshake` | violated: `TimeoutResolves` | one message each way |
| `large_asset` | violated: `EncryptedAssetsRead` | as in `client` |

What the passing runs show:

* `netclient`: no rollback stays pending (`NoDanglingRollback`), every tick a rollback
  may replay still has an entry in the input buffer, which has been trimmed by then
  (`ReplayInputsKept`; which input it is, `DuplicatesAgree` says), the ring ends at the current tick (`NewestIsCurrent`), copies of a
  tick differ only where inputs were revised (`DuplicatesAgree`), outages are
  bounded and resolve (`OutageBounded`, `OutageResolves`).
* `gateway`: one Pong per Ping in the order the client expects (`AnsweredOnce`,
  `ClientAcceptsNext`), registry and writer tasks do not leak (`RegistryDrains`,
  `WriterTaskEnds`), rooms keep capacity, ids and the roster of a running game
  (`RoomsSound`, `RosterFrozen`), no game traffic under stale keys (`GameNeedsFreshKeys`).
* `scripts`: `OneInstancePerId`, disabling is earned (`AutoDisableSound`);
  `ScriptsTypeOK` with the counter's limit.
* `ota`: the server believes only what was installed (`AckIsTrue`), a commit that
  fails at a script has replaced exactly the scripts with smaller ids and left all
  others as they were, and one that does not fail has replaced all (`CommitIsPrefix`), `DownloadsWithinBudget`.
* `verification`: playback clears exactly the recordings that were not displaced
  (`VerdictExact`), `JoinedInThePast`, suspicion, sampling and escalation follow the
  history (`SuspicionMatchesHistory`, `SamplingUndisturbed`, `EscalationOnlyRises`), the
  shadow VM's count and requests survive failures of sends and of workers
  (`BackpressureExact`, `RequestsFresh`), and a full queue drains unless the
  failures that nobody is told of fill it (`QueueDrains`).
* `client`: one key at both ends (`KeysAgree`), assets whole or not at all
  (`DeliveredIntact`), batches likewise (`BatchIsWhole`), the bridge's map and events
  (`EntityMapExact`, `EventsAccounted`), gestures equal their
  definition (`RecognizerExact`), `FramesDistributedOnce`, camera handles
  (`RegistrySound`, which exempts the cameras in `unlucky`: a marker that comes and
  goes within a frame is lost by the code, see the hazards), overrides (`CinematicOwnsItsOverride`) and the refinement
  (`StacksFollowPriority`).

The bounds let every interesting case happen: the ring fills and evicts, inputs are
trimmed, a rollback fills it with duplicates, syncs go to older and newer ticks, the
channel is full while a Pong waits, both handlers hold the same id, a script
crosses the threshold within a frame, an update id is broadcast with two
builds whose chunks mix, a buffer expires, a batch fails at its second script,
items larger than what is left of the budget wait behind smaller ones, a
simulation is rewound between two recorded frames, a record passes all the
thresholds of the anti-cheat rules, a worker throws with a full queue before
it, or loses the rest of its queue in silence, an entity is despawned twice, or by an event pushed with a stale mirror,
the ServerHello meets a replaced key pair, a key is rotated between the two halves
of a read, a file has exactly the limit's size, a batch is registered again with
other scripts, a frame has no tick or three of them in the middle of a drag, a
camera asks for the handle another gives up in the same frame, and a script pops a cinematic's override.

The six violated runs state what a comment says of the code and
show that the code does something else; `PROJECT.json` quotes each line
(findings). In short: a rollback appends instead of replacing and lookups find the
mispredicted snapshot; a hook the script does not define resets its error
counter; bulk-loaded scripts never get `on_init`; the id that `spawn_entity` returns
is not the one the entity gets; the handshake's timer is not set again for the
retry, so a client that is not answered loads for ever; encrypted assets above
8 MB are taken for another format and cannot be read. (If the two sides were given a
`BridgeState` each, the ids would agree until the first dropped spawn.)

Other divergences seen while modelling, which no run is spent on: every
connection registers as session 1 (`gateway/src/listener.rs:182`, a TODO; a broadcast
reaches the newest only, against line 58), a complete buffer that waited too long is
purged (`hot_update.rs:284`), `try_commit` removes an incomplete batch
(`hot_update.rs:608`), the restart window of the shadow worker is tumbling, not
sliding (`worker_lifecycle.rs:68`), nothing in `GamePlugin` drains `PendingInputs`
(`input/mod.rs:34` relies on a plugin it does not add), and a `BridgeCamera` that asks
for the handle `u32::MAX` overflows `next_id` (`camera_registry.rs:91`).

A multi-script commit is not atomic. The doc comments (`hot_update.rs:375-376`,
492-494) and the log line at 537 say that a failing `on_init` rolls everything
back; the code (543-547) restores that script and keeps those it had replaced
before, and the comment there calls it a decision. `CommitIsPrefix` is stated
against the former: it gives the exact state after a failure, which is the old
one only when the first script fails.

Deadlock is checked in `scripts` (a frame can always go on). The others may
stop: the bounded counters run out, a connection is closed.

**Fairness.** `OutageResolves`: the owner calls `tick()` every frame, so
`OutageTick` is weakly fair. `WriterTaskEnds`: the async runtime polls a task that
can proceed, and a socket write completes or fails; nothing is assumed of the
peer's sending. `QueueDrains`: the event loops
of the main thread and of the worker go on, a worker whose every message panics
included; that the worker's module loads is not assumed (`stuck` is an outcome).
Two escapes are part of the property, because the code has no way out of them:
the module never loads, or requests that were lost without an error event are as
many as the queue may hold. `TimeoutResolves`: the browser's event loop and
the server's task go on, so messages are delivered, a timer that is set fires and
a hello that arrived is answered unless the connection was closed; nobody has to
close or to send anything else. Liveness is checked by TLC only.

## Proofs

Every theorem holds for all values of the constants: numbers of connections,
players, scripts or cameras, capacities, timeouts and thresholds, the bounds of
the runs (`MaxTick`, `MaxClock`, ...) included, and lists, files and histories of
any length. Each rests on an inductive invariant, proved
to hold initially and across each action, from which the property follows.
The assumptions are the named `ASSUME`s of the component's module, which TLC
evaluates on every run: what the code's constants, types or derivations
guarantee (a ring's depth limit below its capacity, say).

**Induction.** The models contain no `RECURSIVE` operator; where the code walks
through a list they define a recursive function. `ListLemmas` proves what the
other modules need of those: that a function given by its first value and its
steps exists (`StepwiseExists`, without which the `CHOOSE` behind a recursive
definition says nothing), induction stated with sets in place of predicates
(`InductionOnSet`, `SubsetInduction`), what `Selected` keeps and in which order
(`SelectedFacts`), and how counts and sums change by one element.

`NetClientProofs`. Types, `NoDanglingRollback`, `ReplayInputsKept` and
`NewestIsCurrent` need `Spaced`: the k-th entry from the end is at most k ticks
old and none is ahead of the current tick. It survives eviction, the duplicates
of a rollback and a resync, and says that the ring spans fewer ticks than the
input window keeps. Assumptions: the capacity is positive, the depth limit is
below it (`snapshot.rs` derives the one from the other), steps stay in World.
`ResimulationIsDeterministic` (`DuplicatesAgree`) adds that neighbouring ticks of
the ring that no revision has touched are one simulation step apart with the
input that is still in the buffer. `OutageIsBounded` relates the retry number to
the time the retries so far can have taken. The composition is proved to
implement Rollback (`NetClientImplementsRollback`), so that all of the above
holds of it (`NetRollbackIsSound`), and its outages are bounded too
(`NetOutageIsBounded`).

`ScriptsProofs`: types, `OneInstancePerId` and `AutoDisableSound`. The
invariant adds that the error counter never exceeds the auxiliary streak and
is below the threshold while the script is active.

`OtaProofs`, about the whole of Ota with its network. `ServerBelievesTruth`: every
answer under way is true, and nothing done at the client is ever undone in
`installed` and `refused`. `CommitsArePrefixes`: by induction over the ids, after
n of them the scripts of the batch below n, or below the one it stopped at, run
their new builds and all the rest is as before; `staged_count`, which lets the commit
begin, counts exactly the staged builds. `BudgetIsKept`: the counter is the sum,
over all items, of the size times the downloads under way, and a step of the
walk in `next_batch` changes one summand.

`ClientProofs`. `KeysStayAgreed`: the server answers the first hello only, the
first key pair is in use until the timer fires, and until the exchange is
complete only hellos are on the way. `FramesInOrder`: ticks handed on lie
before the next tick and their frames before the last one. `BatchesAreWhole`: a
pending batch holds exactly what arrived of it since its newest registration,
and pending means neither handed over nor expired. `AssetsDeliveredIntact`: the
ends of the chunks add up, so that a file cut anywhere fails in some chunk. `RecognizerFollowsHistory`:
the recogniser's state is determined by the hold (`Follows`) and by the latest
click (`Remembers`). `EntityMapStaysExact`: the map is exact after each single
event of a flush, entities are never reused, and ids lie below the counter.
`NoEventIsLost`: a transfer adds as many events as it drops or keeps.

`CameraProofs`. `RegistryStaysSound`: a camera waiting to be registered has a
marker, and one that PreUpdate will unregister although it has one is still to
be registered or is `unlucky`. The stacks: entries are ordered by priority and
then by id, and ids lie below `next_id`; each operation keeps that and does to
the set of entries what PriorityOverrides says. From this follow
`CinematicKeepsToItself` and `StacksImplementPriorities`, the refinement, proved
action by action under the mapping of `Overrides`.

`VerificationProofs`: `DetectorNeverForgives` (an action property; the status of a
record is a function of its count), `UpgradesDoNotShift` (the generator has made as
many steps as questions were asked), `PlayersJoinedInThePast` (also true of every
saved snapshot, which carries its own tick), `FramesSentOnce` (the window is the
row of the last frames, and the last request ended before it),
`PlaybackVerdictIsExact` (before frame i the checking simulation is i - 1 ticks
past its start, whatever its seed, since each frame brings its own generator),
`SuspicionFollowsHistory` (each counter is the length of a run at the end of the
log), `QueueCountsRequests` (an answer is counted with the worker that gave it, and
a throw moves to the lost exactly the requests of the part of the queue it cuts off).

`GatewayProofs`. `KeysBeforeGame`: a session that is Ready or Playing is confirmed.
`RegistryIsDrained`: an entry exists only while some handler is past its
handshake, whoever's it is. `PongsInOrder`: a channel, the frame its writer holds
and the frame a handler waits to enqueue are the row of numbers from the client's
next to the last given out. `OnePongPerPing`: the frames of a wire are numbered without
a gap, and a handler has given out as many numbers as it counted Pings.
`RoomsStaySound`: all ids, those in use and those gone, lie below `next_id`.
`RunningGameKeepsRoster` is an action property: what `retain` leaves of a roster is
a part of it.

**Only model-checked.** Liveness (`OutageResolves`, `WriterTaskEnds`, `QueueDrains`): it rests on fairness, and the prover handles neither `ENABLED` nor
the well-founded arguments it needs. For the same reason NetClient is not shown
to implement `ConnSpec`, whose fairness would have to be derived, but only its
safety. The properties of the runs that expect a violation are false and have no
theorem. Apart from NetClient and Ota the theorems are about the components' own
specifications (`WsSpec`, `RoomSpec`, `BridgeSpec`, `CameraSpec`, ...); in the
compositions that TLC runs (Gateway, Verification, Client) these stand side by
side and share no variable.

## Plan

1. Proofs: that NetClient's fairness implies that of Connection, should the
   prover come to handle `ENABLED`.
2. When the code joins them: rooms and sessions with the listener, the verdicts
   with the recorder and the shadow VM, the memory guard with the asset loader.

## Not modelled

About half of the repository's lines are inline tests; of the rest these are
left out.

* Presentation and floating point: rendering, interpolation, physics, the
  arithmetic of follow, zoom, bounds and shakes, the welcome screen, the start-up
  progress display.
* Primitives: `crypto`, `deterministic`, `state_hash` and `debug_hash`. Encryption is
  taken as perfect and hashes as injective; that a read under a key that changed fails
  and is not garbage (`DeliveredIntact`) rests on the former. What a shadow replay computes is
  the kind of its answer (today its hash covers tick and RNG only,
  `shadow_vm/src/executor.rs:160`).
* Managers that nothing outside their files and tests calls yet and whose state is
  one counter or map: memory guard, L1 cache (the memory monitor runs, but no
  code allocates through its guard, so it reports zeros), `AutoDisableManager`
  and the statistics of `performance.rs`, the CDN's rooms (the gateway's with fewer
  checks) and version registry, `session_key_bridge`, `asset_bridge`,
  `frame_orchestrator` (it drains queues nothing fills).
* Limits inside the Rhai engine (`sandbox.rs`, `scope_limiter.rs`): their outcomes are the
  hook results of Scripts.
* Formats and conversions: codec, manifest parsing, byte code, replay files, chunk
  splitting, `dynamic_convert`.
* I/O and tools: the accept loop, static files, file watchers and `dev_tools`, build
  tools except `encrypt_file`, `tools/*`, crash dumps, generated bindings
  (`wasm_loader.js`, `wasm_shadow_worker.js`).
