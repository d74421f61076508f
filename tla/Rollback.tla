------------------------------ MODULE Rollback ------------------------------
(***************************************************************************)
(* Client-side prediction and rollback: NetcodeState, PredictionManager    *)
(* and RollbackManager of engine/netcode.  The client steps its world one  *)
(* tick at a time with the inputs it knows, keeps a snapshot and the       *)
(* inputs of recent ticks, and on a server state whose hash differs from   *)
(* its own snapshot restores that snapshot and re-simulates up to the      *)
(* current tick.                                                           *)
(*                                                                         *)
(* World stands for the EcsMirror and the RNG state of a snapshot; the     *)
(* BLAKE3 state hash is taken to be injective, so a server hash is given   *)
(* by the world it was computed from.  The owner of NetcodeState supplies  *)
(* the tick and applies the snapshot that a rollback returns; both are     *)
(* part of this model (tick, world).  Server states may be late, repeated, *)
(* reordered or lost: HandleServerState takes any tick and any world.      *)
(* last_confirmed_tick is left out: no code but the tests reads it.        *)
(***************************************************************************)
EXTENDS SnapshotBuffer

CONSTANTS
  World,              \* deterministic part of a snapshot
  World0,             \* the world the client starts from
  Inputs,             \* the input vector of a tick
  NoInput,            \* the empty slice that stands in for a missing tick
  Step(_, _),         \* SimulationStep::step, deterministic
  MAX_ROLLBACK_DEPTH, \* 8 in the code
  MaxTick             \* bound of the model on ticks

ASSUME WorldAssumption ==
  /\ World0 \in World
  /\ NoInput \in Inputs
  /\ \A w \in World, i \in Inputs : Step(w, i) \in World

\* SNAPSHOT_CAPACITY is documented as MAX_ROLLBACK_DEPTH plus a margin of 2.
ASSUME DepthAssumption ==
  /\ MAX_ROLLBACK_DEPTH \in Nat
  /\ MAX_ROLLBACK_DEPTH < SNAPSHOT_CAPACITY
  /\ MaxTick \in Nat

VARIABLES
  tick,                  \* tick of the latest simulated frame
  world,                 \* world after that frame
  snapshot_buffer,
  input_buffer,
  pending_rollback,      \* a tick, or NoTick for None
  first_revised          \* auxiliary: least tick whose input was replaced after it was simulated

vars == <<tick, world, snapshot_buffer, input_buffer, pending_rollback, first_revised>>

NoTick == -1
Never  == MaxTick + 1     \* first_revised when no simulated input was replaced

Snapshots == [tick : 0 .. MaxTick, snap : World]

TypeOK ==
  /\ tick \in 0 .. MaxTick
  /\ world \in World
  /\ snapshot_buffer \in Seq(Snapshots)
  /\ Len(snapshot_buffer) <= SNAPSHOT_CAPACITY
  /\ DOMAIN input_buffer \subseteq 0 .. MaxTick
  /\ \A t \in DOMAIN input_buffer : input_buffer[t] \in Inputs
  /\ pending_rollback \in {NoTick} \cup 0 .. MaxTick
  /\ first_revised \in 0 .. Never

\* NetcodeState::new; the owner starts at tick 0 with nothing buffered.
Init ==
  /\ tick = 0
  /\ world = World0
  /\ snapshot_buffer = << >>
  /\ input_buffer = [t \in {} |-> NoInput]
  /\ pending_rollback = NoTick
  /\ first_revised = Never

-----------------------------------------------------------------------------
\* apply_input: record the inputs and the snapshot of tick t, trim old inputs.
ApplyInput(i, t, w) ==
  /\ input_buffer' = RetainRecent(InsertInput(input_buffer, t, i), t)
  /\ snapshot_buffer' = Push(snapshot_buffer, t, w)

\* One frame of the owner: simulate the next tick and call apply_input.
Frame(i) ==
  /\ tick < MaxTick
  /\ tick' = tick + 1
  /\ world' = Step(world, i)
  /\ ApplyInput(i, tick', world')
  /\ UNCHANGED <<pending_rollback, first_revised>>

\* The owner inserts the authoritative inputs of a tick (NetcodeState keeps
\* its input buffer public); for a tick already simulated this is the
\* correction that a later rollback replays.
ReviseInput(t, i) ==
  /\ t \in 1 .. tick
  /\ input_buffer' = InsertInput(input_buffer, t, i)
  /\ first_revised' = IF t < first_revised THEN t ELSE first_revised
  /\ UNCHANGED <<tick, world, snapshot_buffer, pending_rollback>>

\* A replay that pairs each tick with the inputs of the tick before it.
InputAt_Mut(t) == IF t - 1 \in DOMAIN input_buffer THEN input_buffer[t - 1] ELSE NoInput

\* The inputs a re-simulated tick gets.
InputAt(t) == IF t \in DOMAIN input_buffer THEN input_buffer[t] ELSE NoInput

\* A depth limit off by one, accepted by one of the two checks only.
TooDeep_Mut(st) == tick > st /\ tick - st > MAX_ROLLBACK_DEPTH + 1

\* The depth check at the head of receive_server_state.
TooDeep(st) == tick > st /\ tick - st > MAX_ROLLBACK_DEPTH

\* The depth check at the head of rollback_to.
RollbackTooDeep(rt) == tick > rt /\ tick - rt > MAX_ROLLBACK_DEPTH

\* The worlds of the ticks rt .. tick as the loop of rollback_to computes
\* them: the restored snapshot, then one step per tick.
Resimulation(rt, run) ==
  /\ run[rt] = Get(snapshot_buffer, rt)
  /\ \A t \in rt + 1 .. tick : run[t] = Step(run[t - 1], InputAt(t))

\* A loop that starts and ends one tick early (rt .. tick instead of rt + 1 ..= tick).
Resimulated_Mut(rt, run) ==
  [k \in 1 .. tick - rt |-> Entry(rt + k - 1, run[rt + k - 1])]

\* The snapshots the loop pushes, one per re-simulated tick.
Resimulated(rt, run) == [k \in 1 .. tick - rt |-> Entry(rt + k, run[rt + k])]

\* rollback_to: on an error nothing changes; otherwise restore, re-simulate
\* and push.  Its caller clears pending_rollback and the owner adopts the result.
RollbackTo(rt) ==
  \/ /\ RollbackTooDeep(rt) \/ ~ Holds(snapshot_buffer, rt)
     /\ pending_rollback' = rt
     /\ UNCHANGED <<world, snapshot_buffer>>
  \/ /\ ~ RollbackTooDeep(rt)
     /\ Holds(snapshot_buffer, rt)
     /\ \E run \in [rt .. tick -> World] :
          /\ Resimulation(rt, run)
          /\ snapshot_buffer' = PushAll(snapshot_buffer, Resimulated(rt, run))
          /\ world' = run[tick]
     /\ pending_rollback' = NoTick

\* handle_server_state for the server's world sw at tick st.  No snapshot and
\* too deep are errors that change nothing; a matching hash confirms the
\* tick; any other hash rolls back to it.
HandleServerState(st, sw) ==
  /\ Holds(snapshot_buffer, st)
  /\ ~ TooDeep(st)
  /\ UNCHANGED <<tick, input_buffer, first_revised>>
  /\ \/ /\ Get(snapshot_buffer, st) = sw
        /\ pending_rollback' = NoTick
        /\ UNCHANGED <<world, snapshot_buffer>>
     \/ /\ Get(snapshot_buffer, st) # sw
        /\ RollbackTo(st)

\* The buffer on_reconnect leaves: cleared, then the packet's snapshot.
SyncedBuffer(t, w) == Push(<< >>, t, w)

\* A verified FullSyncPacket (ConnectionManager::on_reconnect): the owner
\* continues from the packet's tick and world.  Inputs and
\* pending_rollback are left as they were.
FullSync(t, w) ==
  /\ snapshot_buffer' = SyncedBuffer(t, w)
  /\ tick' = t
  /\ world' = w
  /\ first_revised' = Never
  /\ UNCHANGED <<input_buffer, pending_rollback>>

Next ==
  \/ \E i \in Inputs : Frame(i)
  \/ \E t \in 0 .. MaxTick, i \in Inputs : ReviseInput(t, i)
  \/ \E st \in 0 .. MaxTick, sw \in World : HandleServerState(st, sw)
  \/ \E t \in 0 .. MaxTick, w \in World : FullSync(t, w)

Spec == Init /\ [][Next]_vars

-----------------------------------------------------------------------------
(* Properties *)

\* No call leaves a rollback pending: whenever receive_server_state asks for
\* one, rollback_to can serve it (its own depth check and snapshot lookup
\* cannot fail), so the early return that skips clear_rollback is dead code.
NoDanglingRollback == pending_rollback = NoTick

\* Every tick a rollback could re-simulate still has an entry in InputBuffer,
\* however many frames, rollbacks and full syncs have trimmed the one and
\* filled the other: rollback_to never silently replays a tick with no inputs
\* (that the entries are the ones simulated with is DuplicatesAgree's matter).
ReplayInputsKept ==
  \A k \in DOMAIN snapshot_buffer :
    \A t \in snapshot_buffer[k].tick + 1 .. tick : t \in DOMAIN input_buffer

\* The newest entry of the snapshot buffer is the client's current tick:
\* neither a rollback nor a resync leaves the ring ahead of or behind it.
NewestIsCurrent ==
  snapshot_buffer # << >> => snapshot_buffer[Len(snapshot_buffer)].tick = tick

\* Re-simulation is deterministic: two snapshots of one tick in the ring
\* differ only if the input of that tick or an earlier one was revised.
DuplicatesAgree ==
  \A i, j \in DOMAIN snapshot_buffer :
    (/\ snapshot_buffer[i].tick = snapshot_buffer[j].tick
     /\ snapshot_buffer[i].tick < first_revised)
    => snapshot_buffer[i].snap = snapshot_buffer[j].snap

\* What rollback.rs:31 says of the loop ("step, then update snapshot_buffer"):
\* after a rollback a lookup of the current tick finds the re-simulated world.
LookupIsCurrent ==
  Holds(snapshot_buffer, tick) => Get(snapshot_buffer, tick) = world
=============================================================================
