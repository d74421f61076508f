------------------------------- MODULE Bridge --------------------------------
(***************************************************************************)
(* The way from the scripts to the Bevy world: the Bridge API (engine/     *)
(* vm_runtime/src/bridge_api.rs, ops_cost.rs, handle_registry.rs) and the  *)
(* systems of BridgePlugin (engine/vm_bevy_bridge/src).  A frame is: the   *)
(* driver hands the ECS state to the VM, scripts call the API, the driver  *)
(* moves their events to the BridgeEventQueue, FixedUpdate runs            *)
(* flush_bridge_events and then the mirror and the fallback systems.  The  *)
(* driver is external (frame_orchestrator.rs names it); BridgeState is one *)
(* state for the VM side and the Bevy side, as SharedBridgeState says.     *)
(***************************************************************************)
EXTENDS Integers, Sequences, FiniteSets, Selection

CONSTANTS
  OPS_LIMIT,            \* OpsTracker: budget of a frame
  MAX_QUEUE_CAPACITY,   \* events of a BridgeEventQueue
  HANDLE_IDS,           \* handle ids before next_id wraps (2^32)
  MaxFrames, MaxCalls   \* bounds of the model

ASSUME BridgeConstants ==
  {OPS_LIMIT, MAX_QUEUE_CAPACITY, HANDLE_IDS, MaxFrames, MaxCalls} \subseteq Nat \ {0}

VARIABLES
  phase,        \* next of the frame's steps: driver, scripts, flush or mirror
  remaining,    \* OpsTracker
  counter,      \* EntityIdAllocator
  handles,      \* HandleRegistry: [next, effects, sounds]
  vm_mirror,    \* ids in BridgeState.ecs_mirror
  vm_queue,     \* EventQueue of the VM
  queue,        \* BridgeEventQueue: [events, dropped]
  vm_to_bevy, bevy_to_vm, \* BridgeEntityMap
  diagnostics,  \* BridgeDiagnostics: [processed, dropped, total]
  mirror,       \* EcsMirrorResource: [ids, frame]
  world,        \* Bevy's entities, numbered in the order they are spawned
  disabled,     \* entities with a ScriptDisabled component
  calls,        \* auxiliary: calls the budget has granted
  pushed,       \* auxiliary: events scripts have pushed
  flushed,      \* auxiliary: events flush_bridge_events has processed
  promised,     \* auxiliary: ids spawn_entity has returned
  born          \* auxiliary: ids that were given an entity

vmVars     == <<remaining, counter, handles, vm_mirror, vm_queue>>
mapVars    == <<vm_to_bevy, bevy_to_vm>>
bevyVars   == <<queue, mapVars, diagnostics, mirror, world, disabled>>
auxVars    == <<calls, pushed, flushed, promised, born>>
bridgeVars == <<phase, vmVars, bevyVars, auxVars>>

\* Functions of the API by the event they push, with their cost (OpsCostTable).
Cost == [spawn |-> 50, despawn |-> 30, position |-> 5, rotation |-> 5, scale |-> 5,
         show |-> 3, hide |-> 3, play |-> 5, stop |-> 5, blend |-> 8, bar |-> 5,
         vfx |-> 10, sound |-> 10, stop_vfx |-> 5, stop_sound |-> 5,
         ui |-> 5, prediction |-> 15, request |-> 10, query |-> 10, get |-> 2]

\* The ones with an entity (BridgeEvent::entity_id), the other ones whose event
\* is only logged, and the ones that push none.
AnimationOps == {"play", "stop", "blend"}
EntityOps == {"despawn", "position", "rotation", "scale", "show", "hide", "bar"} \cup AnimationOps
PlainOps  == {"ui", "prediction", "request"}
QueryOps  == {"query", "get"}

Unset == "unset"

\* What flush_bridge_events spawns for SpawnEntity and for PlayVfx, and the
\* fallback components an entity may have.
GameEntity == [kind |-> "game", transform |-> "default", visibility |-> "inherited", anim |-> FALSE,
               blended |-> FALSE, anim_default |-> Unset, server_position |-> FALSE]
VfxPlaceholder == [GameEntity EXCEPT !.kind = "vfx", !.transform = "position"]
Gone == [GameEntity EXCEPT !.kind = "gone"]

Live == {e \in DOMAIN world : world[e].kind # "gone"}

BridgeInit ==
  /\ phase = "driver"
  /\ remaining = OPS_LIMIT /\ counter = 1
  /\ handles = [next |-> 0, effects |-> {}, sounds |-> {}]
  /\ vm_mirror = {} /\ vm_queue = <<>>
  /\ queue = [events |-> <<>>, dropped |-> 0]
  /\ vm_to_bevy = <<>> /\ bevy_to_vm = <<>>
  /\ diagnostics = [processed |-> 0, dropped |-> 0, total |-> 0]
  /\ mirror = [ids |-> {}, frame |-> 0]
  /\ world = <<>> /\ disabled = {}
  /\ calls = 0 /\ pushed = 0 /\ flushed = 0 /\ promised = {} /\ born = {}

-----------------------------------------------------------------------------
(* The VM side. *)

\* The driver starts a frame: the budget is reset, and the ECS state reaches the
\* VM, or an older one is still there.
StartFrame ==
  /\ phase = "driver" /\ mirror.frame < MaxFrames
  /\ phase' = "scripts"
  /\ remaining' = OPS_LIMIT
  /\ vm_mirror' \in {vm_mirror, DOMAIN vm_to_bevy}
  /\ UNCHANGED <<counter, handles, vm_queue, bevyVars, auxVars>>

\* OpsTracker::deduct, the first thing every function does.
Deduct(op) ==
  /\ phase = "scripts" /\ calls < MaxCalls /\ calls' = calls + 1
  /\ remaining >= Cost[op]
  /\ remaining' = remaining - Cost[op]

Push(op, eid) == /\ vm_queue' = Append(vm_queue, [op |-> op, eid |-> eid])
                 /\ pushed' = pushed + 1

VmRest == UNCHANGED <<phase, vm_mirror, bevyVars, flushed, born>>

\* spawn_entity returns the next id; the event does not carry it.
SpawnEntity ==
  /\ Deduct("spawn") /\ Push("spawn", 0)
  /\ counter' = counter + 1 /\ promised' = promised \cup {counter}
  /\ UNCHANGED handles /\ VmRest

\* A function with an entity: no event unless the mirror knows the entity.
EntityCall(op, eid) ==
  /\ Deduct(op)
  /\ \/ eid \in vm_mirror /\ Push(op, eid)
     \/ eid \notin vm_mirror /\ UNCHANGED <<vm_queue, pushed>>
  /\ UNCHANGED <<counter, handles, promised>> /\ VmRest

\* HandleRegistry::create_effect and create_sound: one sequence of ids.
Created(kind) == [handles EXCEPT !.next = (@ + 1) % HANDLE_IDS, ![kind] = @ \cup {handles.next}]

PlayVfx   == /\ Deduct("vfx") /\ Push("vfx", 0) /\ handles' = Created("effects")
             /\ UNCHANGED <<counter, promised>> /\ VmRest
PlaySound == /\ Deduct("sound") /\ Push("log", 0) /\ handles' = Created("sounds")
             /\ UNCHANGED <<counter, promised>> /\ VmRest

\* stop_vfx and stop_sound: a handle the registry does not know is ignored.
StopHandle(op, kind, h) ==
  /\ Deduct(op)
  /\ \/ h \in handles[kind] /\ Push("log", 0)
     \/ h \notin handles[kind] /\ UNCHANGED <<vm_queue, pushed>>
  /\ UNCHANGED <<counter, handles, promised>> /\ VmRest

\* The UI and network functions without an entity.
PlainCall(op) ==
  /\ Deduct(op) /\ Push("log", 0)
  /\ UNCHANGED <<counter, handles, promised>> /\ VmRest

\* A query, or a call whose arguments are refused: only the cost remains.
NoEvent(op) ==
  /\ Deduct(op)
  /\ UNCHANGED <<counter, handles, promised, vm_queue, pushed>> /\ VmRest

-----------------------------------------------------------------------------
(* The Bevy side. *)

\* BridgeEventQueue::push
Pushed(q, event) ==
  IF Len(q.events) >= MAX_QUEUE_CAPACITY
  THEN [q EXCEPT !.dropped = @ + 1]
  ELSE [q EXCEPT !.events = Append(@, event)]

\* transfer_from pushes the events in their order.
Transferred(q, events) ==
  LET into[n \in 0 .. Len(events)] == IF n = 0 THEN q ELSE Pushed(into[n - 1], events[n])
  IN  into[Len(events)]

\* The driver calls it when the scripts have run.
Transfer ==
  /\ phase = "scripts" /\ phase' = "flush"
  /\ queue' = Transferred(queue, vm_queue)
  /\ vm_queue' = <<>>
  /\ UNCHANGED <<remaining, counter, handles, vm_mirror, mapVars, diagnostics, mirror, world, disabled, auxVars>>

Without(f, x) == [y \in DOMAIN f \ {x} |-> f[y]]
With(f, x, v) == [y \in DOMAIN f \cup {x} |-> IF y = x THEN v ELSE f[y]]

\* What the animation events do to the requests an entity carries.
Animated(c, op) ==
  CASE op = "play"  -> [c EXCEPT !.anim = TRUE]
    [] op = "stop"  -> [c EXCEPT !.anim = FALSE, !.blended = FALSE]
    [] op = "blend" -> [c EXCEPT !.blended = TRUE]

\* What an event does to the components of its entity; position, rotation and
\* scale each replace the whole Transform, a health bar is only logged.
Changed(c, op) ==
  CASE op \in {"position", "rotation", "scale"} -> [c EXCEPT !.transform = op]
    [] op = "show" -> [c EXCEPT !.visibility = "visible"]
    [] op = "hide" -> [c EXCEPT !.visibility = "hidden"]
    [] op = "bar"  -> c
    [] op \in AnimationOps -> Animated(c, op)

\* The state of the flush: allocator, map and world.
Flushing == [counter |-> counter, to_bevy |-> vm_to_bevy, to_vm |-> bevy_to_vm,
             world |-> world, born |-> born]

\* BridgeEntityMap::insert and remove_by_vm
Insert(f, id, e) == [f EXCEPT !.to_bevy = With(@, id, e), !.to_vm = With(@, e, id)]

\* A removal that keeps the way back.
RemoveByVm_Mut(f, id) == [f EXCEPT !.to_bevy = Without(@, id)]

RemoveByVm(f, id) == [f EXCEPT !.to_bevy = Without(@, id), !.to_vm = Without(@, f.to_bevy[id])]

\* process_bridge_event: SpawnEntity takes an id of its own from the allocator,
\* an event for an entity that is not mapped only logs a warning.
Process(f, event) ==
  LET id  == event.eid
      new == Len(f.world) + 1
  IN  CASE event.op = "spawn" ->
             [Insert(f, f.counter, new) EXCEPT !.counter = @ + 1, !.born = @ \cup {f.counter},
                                               !.world = Append(@, GameEntity)]
        [] event.op = "vfx" -> [f EXCEPT !.world = Append(@, VfxPlaceholder)]
        [] event.op \in EntityOps /\ id \in DOMAIN f.to_bevy ->
             IF event.op = "despawn"
             THEN [RemoveByVm(f, id) EXCEPT !.world[f.to_bevy[id]] = Gone]
             ELSE [f EXCEPT !.world[f.to_bevy[id]] = Changed(@, event.op)]
        [] OTHER -> f

\* The events are processed in their order.
Processed(f, events) ==
  LET after[n \in 0 .. Len(events)] == IF n = 0 THEN f ELSE Process(after[n - 1], events[n])
  IN  after[Len(events)]

\* Diagnostics that read the drop count after drain has reset it.
DroppedBefore_Mut(q) == 0

\* dropped_count() before drain()
DroppedBefore(q) == q.dropped

\* flush_bridge_events; commands are applied in their order when it ends.
Flush ==
  /\ phase = "flush" /\ phase' = "mirror"
  /\ LET f == Processed(Flushing, queue.events)
     IN  /\ counter' = f.counter /\ born' = f.born
         /\ vm_to_bevy' = f.to_bevy /\ bevy_to_vm' = f.to_vm
         /\ world' = f.world
         /\ disabled' = {e \in disabled : f.world[e] # Gone}
  /\ queue' = [events |-> <<>>, dropped |-> 0]
  /\ flushed' = flushed + Len(queue.events)
  /\ diagnostics' = [processed |-> Len(queue.events), dropped |-> DroppedBefore(queue),
                     total |-> diagnostics.total + DroppedBefore(queue)]
  /\ UNCHANGED <<remaining, handles, vm_mirror, vm_queue, mirror, calls, pushed, promised>>

\* fallback_animation_system
FallbackAnimation(c) == IF c.anim_default = Unset THEN c.anim ELSE c.anim_default = "some"

\* fallback_movement_system
FallbackTransform(c) == IF c.server_position THEN "server" ELSE c.transform

\* These two and fallback_ui_system.
Fallback(c) ==
  [c EXCEPT !.anim = FallbackAnimation(c), !.visibility = "hidden", !.transform = FallbackTransform(c)]

\* fallback_event_system: what retain leaves of the queue.
Retained(q) ==
  LET silenced == {bevy_to_vm[e] : e \in disabled \cap DOMAIN bevy_to_vm}
      stays(v) == v.op \notin EntityOps \/ v.eid \notin silenced
      kept     == Selected(q.events, {n \in DOMAIN q.events : stays(q.events[n])})
  IN  [events |-> kept, dropped |-> q.dropped + Len(q.events) - Len(kept)]

\* The set UpdateEcsMirror: update_ecs_mirror and the fallback systems write
\* different state, so that their order does not matter.
UpdateMirror ==
  /\ phase = "mirror" /\ phase' = "driver"
  /\ mirror' = [ids |-> vm_mirror \cap DOMAIN vm_to_bevy, frame |-> mirror.frame + 1]
  /\ queue' = Retained(queue)
  /\ world' = [e \in DOMAIN world |-> IF e \in disabled THEN Fallback(world[e]) ELSE world[e]]
  /\ UNCHANGED <<vmVars, mapVars, diagnostics, disabled, auxVars>>

\* External: an entity's script is disabled, with the defaults the entity has.
DisableScript(e) ==
  /\ phase = "scripts" /\ e \in Live \ disabled /\ world[e].kind = "game"
  /\ disabled' = disabled \cup {e}
  /\ \E default \in {Unset, "none", "some"}, server \in BOOLEAN :
       world' = [world EXCEPT ![e].anim_default = default, ![e].server_position = server]
  /\ UNCHANGED <<phase, vmVars, queue, mapVars, diagnostics, mirror, auxVars>>

BridgeNext ==
  \/ StartFrame \/ SpawnEntity \/ PlayVfx \/ PlaySound
  \/ \E op \in EntityOps, eid \in 1 .. counter - 1 : EntityCall(op, eid)
  \/ \E h \in 0 .. HANDLE_IDS - 1 : StopHandle("stop_vfx", "effects", h) \/ StopHandle("stop_sound", "sounds", h)
  \/ \E op \in PlainOps : PlainCall(op)
  \/ \E op \in DOMAIN Cost : NoEvent(op)
  \/ Transfer \/ Flush \/ UpdateMirror
  \/ \E e \in DOMAIN world : DisableScript(e)

BridgeSpec == BridgeInit /\ [][BridgeNext]_bridgeVars

-----------------------------------------------------------------------------
\* The two directions of BridgeEntityMap agree, and the mapped entities are
\* exactly the living game entities: no command is given to a despawned entity,
\* and no entity of the bridge is out of the scripts' reach for want of an id,
\* whatever stale or repeated despawns the frames' queues hold.
EntityMapExact ==
  /\ \A id \in DOMAIN vm_to_bevy : vm_to_bevy[id] \in DOMAIN bevy_to_vm /\ bevy_to_vm[vm_to_bevy[id]] = id
  /\ DOMAIN bevy_to_vm = {e \in Live : world[e].kind = "game"}
  /\ Cardinality(DOMAIN vm_to_bevy) = Cardinality(DOMAIN bevy_to_vm)

\* No event is lost without being counted: what scripts have pushed was
\* processed, counted as dropped in the diagnostics or in the queue, or waits,
\* and no more wait for Bevy than the queue may hold.
EventsAccounted ==
  /\ Len(queue.events) <= MAX_QUEUE_CAPACITY
  /\ pushed = flushed + diagnostics.total + queue.dropped + Len(queue.events) + Len(vm_queue)

\* "Entity ID pre-allocator (the pre-allocated ID is returned synchronously)":
\* once the events are flushed and none was dropped, every id spawn_entity has
\* returned is the id an entity was given.
PreallocatedIdUsed ==
  vm_queue = <<>> /\ queue.events = <<>> /\ queue.dropped + diagnostics.total = 0
    => promised \subseteq born
=============================================================================
