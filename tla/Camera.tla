------------------------------- MODULE Camera --------------------------------
(***************************************************************************)
(* The cameras (engine/bevy_runtime/src/camera): the registry that gives   *)
(* scripts handles for them, the operations scripts queue                  *)
(* (vm_runtime/src/camera_module.rs), the stack of overrides and the       *)
(* shakes of each camera, and the cinematic mode that is an override of    *)
(* its own.  A frame is PreUpdate, some fixed ticks, each with the flush   *)
(* of the script's operations, and the chain of Update systems, which      *)
(* first handles the requests one after the other.  Game code spawns and   *)
(* despawns cameras and changes their components at any time.  Positions,  *)
(* zoom and the noise of a shake are left out; a frame is the unit of time.*)
(***************************************************************************)
EXTENDS Integers, Sequences, FiniteSets, SequencesExt, Selection

CONSTANTS
  CAMERAS,        \* the entities that may be cameras; an entity lives once
  MAIN_CAMERA,    \* the one the game starts with
  REQUESTED,      \* handles a BridgeCamera may ask for; 0 is None or Some(0)
  PRIORITIES, CINEMATIC_PRIORITY,
  DURATIONS,      \* of a timed override, in frames
  TRAUMAS,        \* frames a shake lasts
  MaxCameraFrames, MaxCameraCalls  \* bounds of the model: frames, and calls of scripts and game code

\* Handles are u32 in the code.  next_id wraps only after 2^32 cameras, or when a
\* marker asks for the highest handle, which no instance does.
ASSUME CameraConstants ==
  /\ MAIN_CAMERA \in CAMERAS
  /\ REQUESTED \subseteq Nat
  /\ PRIORITIES \subseteq Int /\ CINEMATIC_PRIORITY \in PRIORITIES
  /\ DURATIONS \subseteq Nat
  /\ TRAUMAS \subseteq Nat /\ MaxCameraFrames \in Nat /\ MaxCameraCalls \in Nat

VARIABLES
  cam_phase,        \* pre, register, unregister (PreUpdate), fixed or events (Update)
  entity,           \* of each camera: unborn, alive or dead
  marker,           \* BridgeCamera: the handle asked for, or NoMarker
  added, removed,   \* changes of BridgeCamera that PreUpdate has not seen
  registry,         \* CameraRegistry: [handle_to_entity, entity_to_handle, next_id]
  camera_op_queue,  \* operations of scripts
  camera_requests,  \* CameraOverrideRequest and CameraShakeRequest events
  stack,            \* CameraOverrideStack of each camera: [entries, next_id]
  cinematic,        \* id in CameraCinematicShadow, or Nobody
  shake,            \* CameraShake: trauma of the entries
  shown,            \* override_apply: id of the override that moved the camera, or Nobody
  camera_frames,    \* auxiliary: frames so far
  camera_calls,     \* auxiliary: calls so far
  unlucky           \* auxiliary: marked cameras refused by register or re-marked within a frame

ecsVars    == <<entity, marker, added, removed>>
viewVars   == <<stack, cinematic, shake>>
cameraVars == <<cam_phase, ecsVars, registry, camera_op_queue, camera_requests, viewVars, shown,
                camera_frames, camera_calls, unlucky>>

NoMarker == -1
Nobody   == -1  \* no override
Forever  == -1  \* remaining of an untimed override
EveryCamera == "all"  \* camera: None

CameraInit ==
  /\ cam_phase = "pre"
  /\ entity = [c \in CAMERAS |-> IF c = MAIN_CAMERA THEN "alive" ELSE "unborn"]
  /\ \E n \in REQUESTED : marker = [c \in CAMERAS |-> IF c = MAIN_CAMERA THEN n ELSE NoMarker]
  /\ added = {MAIN_CAMERA} /\ removed = {}
  /\ registry = [handle_to_entity |-> <<>>, entity_to_handle |-> <<>>, next_id |-> 1]
  /\ camera_op_queue = <<>> /\ camera_requests = <<>>
  /\ stack = [c \in CAMERAS |-> [entries |-> <<>>, next_id |-> 0]]
  /\ cinematic = [c \in CAMERAS |-> Nobody]
  /\ shake = [c \in CAMERAS |-> <<>>]
  /\ shown = [c \in CAMERAS |-> Nobody]
  /\ camera_frames = 0 /\ camera_calls = 0 /\ unlucky = {}

-----------------------------------------------------------------------------
(* CameraRegistry *)

Bound(f, x, v) == [y \in DOMAIN f \cup {x} |-> IF y = x THEN v ELSE f[y]]
Unbound(f, x)  == [y \in DOMAIN f \ {x} |-> f[y]]

\* A registry that gives out next_id without looking at the handles asked for.
AfterHandle_Mut(r, n) == r.next_id

\* next_id after the handle n was asked for
AfterHandle(r, n) == IF n >= r.next_id THEN n + 1 ELSE r.next_id

\* CameraRegistry::register; the Err of a taken handle leaves all as it is.
Register(r, c) ==
  LET n == marker[c]
      h == IF n = 0 THEN r.next_id ELSE n
  IN  IF c \in DOMAIN r.entity_to_handle \/ (n # 0 /\ n \in DOMAIN r.handle_to_entity) THEN r
      ELSE [handle_to_entity |-> Bound(r.handle_to_entity, h, c),
            entity_to_handle |-> Bound(r.entity_to_handle, c, h),
            next_id |-> IF n = 0 THEN h + 1 ELSE AfterHandle(r, n)]

\* CameraRegistry::unregister
Unregister(r, c) ==
  IF c \notin DOMAIN r.entity_to_handle THEN r
  ELSE [r EXCEPT !.handle_to_entity = Unbound(@, r.entity_to_handle[c]),
                 !.entity_to_handle = Unbound(@, c)]

PreUpdateRest == UNCHANGED <<entity, marker, camera_op_queue, camera_requests, viewVars, shown,
                             camera_frames, camera_calls>>

StartPreUpdate ==
  /\ cam_phase = "pre" /\ camera_frames < MaxCameraFrames
  /\ cam_phase' = "register"
  /\ PreUpdateRest /\ UNCHANGED <<added, removed, registry, unlucky>>

\* bridge_camera_register_system: the next of the new ones, in any order
RegisterCamera(c) ==
  /\ cam_phase = "register" /\ c \in added
  /\ registry' = Register(registry, c)
  /\ added' = added \ {c}
  /\ unlucky' = IF c \in removed \/ c \notin DOMAIN registry'.entity_to_handle
                THEN unlucky \cup {c} ELSE unlucky
  /\ PreUpdateRest /\ UNCHANGED <<cam_phase, removed>>

RegisterDone ==
  /\ cam_phase = "register" /\ added = {}
  /\ cam_phase' = "unregister"
  /\ PreUpdateRest /\ UNCHANGED <<added, removed, registry, unlucky>>

\* bridge_camera_unregister_system: the next of the removed ones
UnregisterCamera(c) ==
  /\ cam_phase = "unregister" /\ c \in removed
  /\ registry' = Unregister(registry, c)
  /\ removed' = removed \ {c}
  /\ unlucky' = IF marker[c] = NoMarker THEN unlucky \ {c} ELSE unlucky
  /\ PreUpdateRest /\ UNCHANGED <<cam_phase, added>>

UnregisterDone ==
  /\ cam_phase = "unregister" /\ removed = {}
  /\ cam_phase' = "fixed"
  /\ PreUpdateRest /\ UNCHANGED <<added, removed, registry, unlucky>>

-----------------------------------------------------------------------------
(* CameraOverrideStack, CameraShake and the cinematic mode *)

\* A stack on which the newest of a priority lies lowest.
Above_Mut(entries, p) == 1 + SelectLastInSeq(entries, LAMBDA o : o.priority < p)

\* insert_at: behind the last entry whose priority is not higher
Above(entries, p) == 1 + SelectLastInSeq(entries, LAMBDA o : o.priority <= p)

\* CameraOverrideStack::push; by is who asked for it.
WithOverride(s, p, d, by) ==
  [entries |-> InsertAt(s.entries, Above(s.entries, p),
                        [id |-> s.next_id, priority |-> p, remaining |-> d, by |-> by]),
   next_id |-> s.next_id + 1]

\* CameraOverrideStack::remove_by_id
RemovedById(s, id) == [s EXCEPT !.entries = RemoveFirstMatch(@, LAMBDA o : o.id = id)]

\* CameraOverrideStack::pop_top
Popped(s) == [s EXCEPT !.entries = IF @ = <<>> THEN @ ELSE Front(@)]

\* A stack that starts its ids again.
Cleared_Mut(s) == [entries |-> <<>>, next_id |-> 0]

\* CameraOverrideStack::clear
Cleared(s) == [s EXCEPT !.entries = <<>>]

\* override_stack_tick_system for one stack
Ticked(s) ==
  [s EXCEPT !.entries =
     LET kept == Selected(@, {i \in DOMAIN @ : @[i].remaining = Forever \/ @[i].remaining > 1})
     IN  [i \in DOMAIN kept |->
            IF kept[i].remaining = Forever THEN kept[i] ELSE [kept[i] EXCEPT !.remaining = @ - 1]]]

\* shake_apply_system for one camera: a shake whose trauma is used up leaves.
Decayed(entries) ==
  LET kept == Selected(entries, {i \in DOMAIN entries : entries[i] > 1})
  IN  [i \in DOMAIN kept |-> kept[i] - 1]

\* The stack of a camera after a request.
OnStack(s, op) ==
  CASE op.kind = "push"   -> WithOverride(s, op.priority, op.duration, "request")
    [] op.kind = "remove" -> RemovedById(s, op.id)
    [] op.kind = "pop"    -> Popped(s)
    [] op.kind = "clear"  -> Cleared(s)
    [] OTHER -> s

\* The shakes of a camera after a request.
OnShake(entries, op) ==
  CASE op.kind = "shake"        -> Append(entries, op.trauma)
    [] op.kind = "clear_shakes" -> <<>>
    [] OTHER -> entries

\* override_event_handler_system and shake_event_handler_system, which share no
\* state: the next event.
HandleRequest ==
  /\ cam_phase = "events" /\ camera_requests # <<>>
  /\ LET ev == Head(camera_requests)
         Hit(c) == entity[c] = "alive" /\ ev.camera \in {c, EveryCamera}
     IN  /\ stack' = [c \in CAMERAS |-> IF Hit(c) THEN OnStack(stack[c], ev.op) ELSE stack[c]]
         /\ shake' = [c \in CAMERAS |-> IF Hit(c) THEN OnShake(shake[c], ev.op) ELSE shake[c]]
  /\ camera_requests' = Tail(camera_requests)
  /\ UNCHANGED <<cam_phase, ecsVars, registry, camera_op_queue, cinematic, shown,
                 camera_frames, camera_calls, unlucky>>

\* The systems after them: tick, then apply what is on top.
FinishUpdate ==
  /\ cam_phase = "events" /\ camera_requests = <<>>
  /\ cam_phase' = "pre"
  /\ stack' = [c \in CAMERAS |-> Ticked(stack[c])]
  /\ shown' = [c \in CAMERAS |-> IF stack'[c].entries = <<>> THEN Nobody ELSE Last(stack'[c].entries).id]
  /\ shake' = [c \in CAMERAS |-> Decayed(shake[c])]
  /\ camera_frames' = camera_frames + 1
  /\ UNCHANGED <<ecsVars, registry, camera_op_queue, camera_requests, cinematic, camera_calls, unlucky>>

-----------------------------------------------------------------------------
(* The fixed ticks of a frame *)

\* The operations of camera_module.rs; remove_by_id is for requests of game code only.
ScriptOps ==
  [kind : {"push"}, priority : PRIORITIES, duration : DURATIONS \cup {Forever}]
    \cup [kind : {"shake"}, trauma : TRAUMAS] \cup [kind : {"pop", "clear", "clear_shakes"}]

\* A script calls a function of camera_module.rs; a refused call leaves no trace here.
ScriptCall(handle, op) ==
  /\ cam_phase = "fixed" /\ camera_calls < MaxCameraCalls
  /\ camera_op_queue' = Append(camera_op_queue, [handle |-> handle, op |-> op])
  /\ camera_calls' = camera_calls + 1
  /\ UNCHANGED <<cam_phase, ecsVars, registry, camera_requests, viewVars, shown, camera_frames, unlucky>>

\* The request flush_camera_ops makes of an operation, if somebody has the
\* handle.  A duration below 0 is Forever.
Reachable(q) == q.handle = 0 \/ q.handle \in DOMAIN registry.handle_to_entity

Resolved(q) ==
  [camera |-> IF q.handle = 0 THEN EveryCamera ELSE registry.handle_to_entity[q.handle], op |-> q.op]

\* flush_camera_ops
FlushCameraOps ==
  /\ cam_phase = "fixed" /\ camera_op_queue # <<>>
  /\ LET kept == Selected(camera_op_queue, {i \in DOMAIN camera_op_queue : Reachable(camera_op_queue[i])})
     IN  camera_requests' = camera_requests \o [i \in DOMAIN kept |-> Resolved(kept[i])]
  /\ camera_op_queue' = <<>>
  /\ UNCHANGED <<cam_phase, ecsVars, registry, viewVars, shown, camera_frames, camera_calls, unlucky>>

\* Every fixed tick ends with the flush, so that none is left for Update.
StartUpdate ==
  /\ cam_phase = "fixed" /\ camera_op_queue = <<>>
  /\ cam_phase' = "events"
  /\ UNCHANGED <<ecsVars, registry, camera_op_queue, camera_requests, viewVars, shown,
                 camera_frames, camera_calls, unlucky>>

-----------------------------------------------------------------------------
(* Game code; its systems run before or after the chain of Update. *)

GameCall == /\ cam_phase \in {"pre", "fixed"} /\ camera_calls < MaxCameraCalls /\ camera_calls' = camera_calls + 1
            /\ UNCHANGED <<cam_phase, registry, camera_op_queue, shown, camera_frames, unlucky>>

\* A CameraOverrideRequest::RemoveById, with an id that push has returned.
RequestRemoval(c, id) ==
  /\ GameCall /\ entity[c] = "alive" /\ id < stack[c].next_id
  /\ camera_requests' = Append(camera_requests, [camera |-> c, op |-> [kind |-> "remove", id |-> id]])
  /\ UNCHANGED <<ecsVars, viewVars>>

SpawnCamera(c, n) ==
  /\ GameCall /\ entity[c] = "unborn"
  /\ entity' = [entity EXCEPT ![c] = "alive"]
  /\ marker' = [marker EXCEPT ![c] = n] /\ added' = added \cup {c}
  /\ UNCHANGED <<removed, camera_requests, viewVars>>

\* A BridgeCamera is put on a camera again.
InsertMarker(c, n) ==
  /\ GameCall /\ entity[c] = "alive" /\ marker[c] = NoMarker
  /\ marker' = [marker EXCEPT ![c] = n] /\ added' = added \cup {c}
  /\ UNCHANGED <<entity, removed, camera_requests, viewVars>>

Unmark(c) ==
  /\ marker' = [marker EXCEPT ![c] = NoMarker]
  /\ added' = added \ {c}
  /\ removed' = IF marker[c] = NoMarker THEN removed ELSE removed \cup {c}

RemoveMarker(c) ==
  /\ GameCall /\ marker[c] # NoMarker /\ Unmark(c)
  /\ UNCHANGED <<entity, camera_requests, viewVars>>

DespawnCamera(c) ==
  /\ GameCall /\ entity[c] = "alive" /\ Unmark(c)
  /\ entity' = [entity EXCEPT ![c] = "dead"]
  /\ stack' = [stack EXCEPT ![c].entries = <<>>]
  /\ shake' = [shake EXCEPT ![c] = <<>>]
  /\ cinematic' = [cinematic EXCEPT ![c] = Nobody]
  /\ UNCHANGED camera_requests

\* on_cinematic_added
AddCinematic(c) ==
  /\ GameCall /\ entity[c] = "alive" /\ cinematic[c] = Nobody
  /\ stack' = [stack EXCEPT ![c] = WithOverride(@, CINEMATIC_PRIORITY, Forever, "cinematic")]
  /\ cinematic' = [cinematic EXCEPT ![c] = stack[c].next_id]
  /\ UNCHANGED <<ecsVars, camera_requests, shake>>

\* on_cinematic_removed
RemoveCinematic(c) ==
  /\ GameCall /\ cinematic[c] # Nobody
  /\ stack' = [stack EXCEPT ![c] = RemovedById(@, cinematic[c])]
  /\ cinematic' = [cinematic EXCEPT ![c] = Nobody]
  /\ UNCHANGED <<ecsVars, camera_requests, shake>>

CameraNext ==
  \/ StartPreUpdate \/ RegisterDone \/ UnregisterDone \/ FlushCameraOps \/ StartUpdate \/ HandleRequest \/ FinishUpdate
  \/ \E h \in 0 .. registry.next_id, op \in ScriptOps : ScriptCall(h, op)
  \/ \E c \in CAMERAS :
       \/ \E id \in 0 .. stack[c].next_id - 1 : RequestRemoval(c, id)
       \/ \E n \in REQUESTED : SpawnCamera(c, n) \/ InsertMarker(c, n)
       \/ RegisterCamera(c) \/ UnregisterCamera(c)
       \/ RemoveMarker(c) \/ DespawnCamera(c) \/ AddCinematic(c) \/ RemoveCinematic(c)

CameraSpec == CameraInit /\ [][CameraNext]_cameraVars

-----------------------------------------------------------------------------
\* The two directions of the registry agree, 0 is nobody's handle, and no handle
\* that is in use can be given out again.
HandlesInverse ==
  /\ \A h \in DOMAIN registry.handle_to_entity :
       /\ 0 < h /\ h < registry.next_id
       /\ registry.handle_to_entity[h] \in DOMAIN registry.entity_to_handle
       /\ registry.entity_to_handle[registry.handle_to_entity[h]] = h
  /\ \A c \in DOMAIN registry.entity_to_handle :
       /\ registry.entity_to_handle[c] \in DOMAIN registry.handle_to_entity
       /\ registry.handle_to_entity[registry.entity_to_handle[c]] = c

\* Once PreUpdate has seen the changes, exactly the cameras with a marker can be
\* reached by a handle.  The exceptions are the ones the order of the two
\* systems and Added make: a camera refused because its handle was still taken
\* is not tried again, and one whose marker is removed and put back between two
\* frames is registered and then unregistered.
MarkedIsRegistered ==
  \A c \in CAMERAS \ (added \cup removed \cup unlucky) :
    (marker[c] # NoMarker) <=> c \in DOMAIN registry.entity_to_handle

\* The registry is sound, whatever cameras come and go in one frame.
RegistrySound == HandlesInverse /\ MarkedIsRegistered

\* The shadow's id is the cinematic's override or has left the stack, and no
\* override of a cinematic outlives it, although scripts pop and clear what
\* they did not push: leaving the cinematic never takes another's override.
CinematicOwnsItsOverride ==
  \A c \in CAMERAS : \A i \in DOMAIN stack[c].entries :
    (stack[c].entries[i].by = "cinematic") <=> (stack[c].entries[i].id = cinematic[c])

\* The stacks implement sets of overrides of which the best one is followed: the
\* order push keeps, and every removal by position, is what priority and age say.
Overrides == INSTANCE PriorityOverrides WITH
  held   <- [c \in CAMERAS |-> {[id |-> o.id, priority |-> o.priority, left |-> o.remaining]
                                 : o \in Range(stack[c].entries)}],
  newest <- [c \in CAMERAS |-> stack[c].next_id]

StacksFollowPriority == Overrides!PSpec
=============================================================================
