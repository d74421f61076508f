----------------------------- MODULE HotUpdate ------------------------------
(***************************************************************************)
(* The client's HotUpdateManager (engine/vm_runtime/src/hot_update.rs):    *)
(* the reassembly buffers of single-script updates and the batches of      *)
(* multi-script updates, applied through ScriptManager::replace_script of  *)
(* module Scripts at a frame boundary (no frame is under way here).        *)
(*                                                                         *)
(* A chunk is its sequence number and the build it was cut from.  bytecode *)
(* load (decryption, Ed25519, decoding) accepts exactly the whole of one   *)
(* build; a build is identified with the AST it decodes to.  The age of a  *)
(* buffer replaces its creation time.                                      *)
(***************************************************************************)
EXTENDS Scripts, FiniteSets

CONSTANTS
  Updates,            \* update ids of single-script updates
  Batches,            \* update ids of multi-script batches
  Chunks(_),          \* number of chunks of an update, or of a script in a batch
  Target(_),          \* the script an update's metadata names
  OTA_TIMEOUT         \* OTA_REASSEMBLY_TIMEOUT_US, in steps of the clock

ASSUME HotUpdateAssumption ==
  /\ Updates \subseteq Nat /\ Batches \subseteq Nat /\ OTA_TIMEOUT \in Nat
  /\ \A u \in Updates : Target(u) \in Ids
  /\ \E n \in Ids : \A m \in Ids : m <= n   \* ScriptId is a machine integer
  /\ 0 \notin Asts                          \* 0 stands for no build

VARIABLES
  pending,         \* update id -> UpdateBuffer
  multi_batches,   \* update id -> MultiScriptUpdateBatch
  installed,       \* auxiliary: <<update, build>> that replace_script accepted
  refused,         \* auxiliary: updates that try_apply has failed on
  last_commit      \* auxiliary: what the latest commit found and did

updateVars == <<pending, multi_batches, installed, refused, last_commit>>

\* No script has failed.
NoneFailed == -1

NoCommit == [failed |-> NoneFailed, builds |-> <<>>, before |-> <<>>, after |-> <<>>]

UpdateInit ==
  /\ pending = [u \in {} |-> {}] /\ multi_batches = [u \in {} |-> {}]
  /\ installed = {} /\ refused = {} /\ last_commit = NoCommit

Without1(f, u) == [v \in DOMAIN f \ {u} |-> f[v]]

\* bytecode_compiler::load on the assembled chunks: the build, or nothing.
Load(frags) == {b \in Asts : \A s \in DOMAIN frags : frags[s] = b}

-----------------------------------------------------------------------------
(* Single-script updates *)

\* start_update, which also starts over
StartUpdate(u) ==
  /\ pending' = Insert(pending, u, [total |-> Chunks(u), frags |-> [s \in {} |-> 0], age |-> 0])
  /\ UNCHANGED <<multi_batches, installed, refused, last_commit>>

\* receive_chunk: a repeated sequence number overwrites, an unknown update is ignored.
ReceiveChunk(u, seq, b) ==
  /\ u \in DOMAIN pending
  /\ pending' = [pending EXCEPT ![u].frags = Insert(@, seq, b)]
  /\ UNCHANGED <<multi_batches, installed, refused, last_commit>>

\* is_complete counts the chunks it holds.
Complete(buf) == Cardinality(DOMAIN buf.frags) = buf.total

\* try_apply on the complete buffer with the least id, which leaves pending
\* whatever happens next; done is the build it installed, 0 for an error.
TryApply(u, done) ==
  /\ u \in DOMAIN pending /\ Complete(pending[u])
  /\ \A v \in DOMAIN pending : Complete(pending[v]) => u <= v
  /\ pending' = Without1(pending, u)
  /\ \/ /\ Load(pending[u].frags) = {} /\ done = 0
        /\ UNCHANGED scripts
     \/ \E b \in Load(pending[u].frags) : \E r \in ReplaceResults(scripts, Target(u), b) :
          /\ done = IF r[2] THEN b ELSE 0
          /\ scripts' = r[1]
  /\ installed' = IF done = 0 THEN installed ELSE installed \cup {<<u, done>>}
  /\ refused' = IF done = 0 THEN refused \cup {u} ELSE refused
  /\ UNCHANGED <<multi_batches, last_commit>>

\* purge_timed_out: every buffer older than the limit, complete or not.
Expired(buf) == buf.age > OTA_TIMEOUT

Purge ==
  /\ \E u \in DOMAIN pending : Expired(pending[u])
  /\ pending' = [u \in {v \in DOMAIN pending : ~ Expired(pending[v])} |-> pending[u]]
  /\ UNCHANGED <<multi_batches, installed, refused, last_commit>>

-----------------------------------------------------------------------------
(* Multi-script batches *)

\* start_multi_script_update with the chunk totals it was told, 0 for unknown.
StartBatch(u, totals) ==
  /\ multi_batches' = Insert(multi_batches, u,
       [bufs |-> [id \in DOMAIN totals |->
                    [expected |-> totals[id], frags |-> [s \in {} |-> 0], staged |-> 0]],
        staged_count |-> 0, age |-> 0])
  /\ UNCHANGED <<pending, installed, refused, last_commit>>

\* Staging again on every duplicate of a chunk.
MayStage_Mut(buf) == Cardinality(DOMAIN buf.frags) = buf.expected

\* The script's chunks are all there and it has not been staged.
MayStage(buf) == Cardinality(DOMAIN buf.frags) = buf.expected /\ buf.staged = 0

\* receive_multi_script_fragment: the first chunk may tell the total; a staged
\* script ignores further data; a complete one is loaded and staged, and stays
\* as it is when it does not load.
ReceiveFragment(u, id, seq, b) ==
  /\ u \in DOMAIN multi_batches /\ id \in DOMAIN multi_batches[u].bufs
  /\ LET old    == multi_batches[u].bufs[id]
         buf    == [old EXCEPT !.expected = IF @ = 0 THEN Chunks(id) ELSE @,
                               !.frags = IF old.staged = 0 THEN Insert(@, seq, b) ELSE @]
         builds == IF MayStage(buf) THEN Load(buf.frags) ELSE {}
     IN  IF builds = {}
         THEN multi_batches' = [multi_batches EXCEPT ![u].bufs[id] = buf]
         ELSE multi_batches' = [multi_batches EXCEPT
                ![u].bufs[id] = [buf EXCEPT !.staged = CHOOSE x \in builds : TRUE],
                ![u].staged_count = @ + 1]
  /\ UNCHANGED <<pending, installed, refused, last_commit>>

AllStaged(batch) == batch.staged_count >= Cardinality(DOMAIN batch.bufs)

\* What commit may leave of the scripts, and the script its InitFailed names:
\* the ids are dealt with in their order, and the first error ends it.  What was
\* replaced before stays replaced.
CommitResults(batch) ==
  LET last == CHOOSE n \in Ids : \A m \in Ids : m <= n
      R[n \in 0 .. last + 1] ==
        IF n = 0 THEN {<<scripts, NoneFailed>>}
        ELSE UNION {IF r[2] = NoneFailed /\ n - 1 \in DOMAIN batch.bufs /\ batch.bufs[n - 1].staged # 0
                    THEN {<<t[1], IF t[2] THEN NoneFailed ELSE n - 1>> :
                            t \in ReplaceResults(r[1], n - 1, batch.bufs[n - 1].staged)}
                    ELSE {r} : r \in R[n - 1]}
  IN  R[last + 1]

\* The builds that the instances of a script run under f.
Runs(f, id) == {f[k].ast : k \in {j \in DOMAIN f : j[2] = id}}

\* try_commit_multi_script: the batch is gone in any case, also when it was
\* committed too early.
TryCommit(u) ==
  /\ u \in DOMAIN multi_batches
  /\ multi_batches' = Without1(multi_batches, u)
  /\ IF AllStaged(multi_batches[u])
     THEN \E r \in CommitResults(multi_batches[u]) :
            /\ scripts' = r[1]
            /\ LET D == DOMAIN multi_batches[u].bufs
               IN  last_commit' = [failed |-> r[2],
                                   builds |-> [id \in D |-> multi_batches[u].bufs[id].staged],
                                   before |-> [id \in D |-> Runs(scripts, id)],
                                   after  |-> [id \in D |-> Runs(r[1], id)]]
     ELSE UNCHANGED <<scripts, last_commit>>
  /\ UNCHANGED <<pending, installed, refused>>

\* purge_timed_out_multi
PurgeMulti ==
  /\ \E u \in DOMAIN multi_batches : Expired(multi_batches[u])
  /\ multi_batches' = [u \in {v \in DOMAIN multi_batches : ~ Expired(multi_batches[v])} |-> multi_batches[u]]
  /\ UNCHANGED <<pending, installed, refused, last_commit>>

Older(f) == [u \in DOMAIN f |-> [f[u] EXCEPT !.age = IF @ > OTA_TIMEOUT THEN @ ELSE @ + 1]]

\* Time passes (now_us_fn).
Elapse ==
  /\ pending' = Older(pending) /\ multi_batches' = Older(multi_batches)
  /\ UNCHANGED <<installed, refused, last_commit>>
=============================================================================
