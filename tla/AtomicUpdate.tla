---------------------------- MODULE AtomicUpdate -----------------------------
(***************************************************************************)
(* AtomicUpdateManager of engine/vm_runtime/src/atomic_update.rs: batches  *)
(* of scripts that are handed over for the swap together or not at all.    *)
(* Scripts arrive in any order, repeatedly, late, for batches nobody       *)
(* registered or that were registered again; batches time out.             *)
(***************************************************************************)
EXTENDS Integers

CONSTANTS
  BatchIds, ScriptNames, Bytecodes,
  BATCH_TIMEOUT_FRAMES,
  MaxBatchFrames        \* bound of the model: frames

ASSUME AtomicUpdateConstants == BATCH_TIMEOUT_FRAMES \in Nat /\ MaxBatchFrames \in Nat

VARIABLES
  pending_batches,  \* update id -> [expected_scripts, received, created_at_frame]
  batch_frame,      \* current_frame of the caller
  ready,            \* auxiliary: the last Ready and what it should have been: [scripts, wanted, open]
  since             \* auxiliary: update id -> what happened since its last registration

batchVars == <<pending_batches, batch_frame, ready, since>>

Empty == [x \in {} |-> x]
NotReady == [scripts |-> Empty, wanted |-> Empty, open |-> TRUE]

BatchInit ==
  /\ pending_batches = Empty
  /\ batch_frame = 0
  /\ ready = NotReady
  /\ since = [u \in BatchIds |-> [asked |-> {}, arrived |-> Empty, open |-> FALSE]]

Put(f, x, v) == [y \in DOMAIN f \cup {x} |-> IF y = x THEN v ELSE f[y]]
Dropped(f, x) == [y \in DOMAIN f \ {x} |-> f[y]]

\* A registration that keeps what an earlier one has received.
Registered_Mut(u, S) ==
  [expected_scripts |-> S, created_at_frame |-> batch_frame,
   received |-> IF u \in DOMAIN pending_batches THEN pending_batches[u].received ELSE Empty]

Registered(u, S) == [expected_scripts |-> S, created_at_frame |-> batch_frame, received |-> Empty]

\* register_batch: an empty list is refused, a known id overwritten.
RegisterBatch(u, S) ==
  /\ S # {}
  /\ pending_batches' = Put(pending_batches, u, Registered(u, S))
  /\ since' = [since EXCEPT ![u] = [asked |-> S, arrived |-> Empty, open |-> TRUE]]
  /\ UNCHANGED <<batch_frame, ready>>

\* All the scripts of the batch b have been received.
IsWhole(b) == b.expected_scripts \subseteq DOMAIN b.received

\* What should be handed over: the newest bytecode of every script asked for.
Wanted(h) == [s \in h.asked |-> h.arrived[s]]

\* on_script_ready
OnScriptReady(u, s, code) ==
  /\ LET h == [since[u] EXCEPT !.arrived = Put(@, s, code)]
     IN  IF u \notin DOMAIN pending_batches \/ s \notin pending_batches[u].expected_scripts
         THEN since' = [since EXCEPT ![u] = h] /\ UNCHANGED <<pending_batches, ready>>
         ELSE LET b == [pending_batches[u] EXCEPT !.received = Put(@, s, code)]
              IN  IF IsWhole(b)
                  THEN /\ pending_batches' = Dropped(pending_batches, u)
                       /\ ready' = [scripts |-> b.received, wanted |-> Wanted(h), open |-> h.open]
                       /\ since' = [since EXCEPT ![u] = [h EXCEPT !.open = FALSE]]
                  ELSE /\ pending_batches' = [pending_batches EXCEPT ![u] = b]
                       /\ since' = [since EXCEPT ![u] = h]
                       /\ UNCHANGED ready
  /\ UNCHANGED batch_frame

\* check_timeouts; frames never run backwards.
Expired == {u \in DOMAIN pending_batches :
              batch_frame - pending_batches[u].created_at_frame >= BATCH_TIMEOUT_FRAMES}

CheckTimeouts ==
  /\ pending_batches' = [u \in DOMAIN pending_batches \ Expired |-> pending_batches[u]]
  /\ since' = [u \in BatchIds |-> IF u \in Expired THEN [since[u] EXCEPT !.open = FALSE] ELSE since[u]]
  /\ UNCHANGED <<batch_frame, ready>>

NextFrame ==
  /\ batch_frame < MaxBatchFrames /\ batch_frame' = batch_frame + 1
  /\ UNCHANGED <<pending_batches, ready, since>>

BatchNext ==
  \/ \E u \in BatchIds :
       \/ \E S \in SUBSET ScriptNames : RegisterBatch(u, S)
       \/ \E s \in ScriptNames, code \in Bytecodes : OnScriptReady(u, s, code)
  \/ CheckTimeouts \/ NextFrame

BatchSpec == BatchInit /\ [][BatchNext]_batchVars

-----------------------------------------------------------------------------
\* A batch is handed over all or nothing: every script of its newest
\* registration, each in the newest bytecode that came after it, no script of
\* an older registration of the same id, and never twice or after it expired.
BatchIsWhole == ready.open /\ ready.scripts = ready.wanted
=============================================================================
