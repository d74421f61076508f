-------------------------------- MODULE Ota ---------------------------------
(***************************************************************************)
(* Over-the-air updates from end to end.  One client is modelled inside    *)
(* (modules HotUpdate and Scripts), the other clients of a broadcast only  *)
(* by the answers they send; the network between them and the server's     *)
(* BroadcastManager loses, repeats and reorders chunks and answers:        *)
(* whatever was sent may arrive any number of times, or never.             *)
(*                                                                         *)
(* Single-script updates, multi-script batches and asset downloads are     *)
(* separate managers; part says which of them a behaviour shows.           *)
(***************************************************************************)
EXTENDS HotUpdate, OtaBroadcast, AssetOta

CONSTANTS
  Me,           \* the client that is modelled inside
  BuildsOf(_)   \* the builds that are ever broadcast under an update id

ASSUME MeAssumption == Me \in Clients

ASSUME FirstBuild == 0 \in Priorities /\ 1 \in Asts   \* of the scripts loaded at the start

VARIABLES
  part,
  wire,     \* <<update, build>> whose chunks have been sent
  acks      \* answers Me has sent

otaVars == <<scripts, frame, pending, multi_batches, installed, refused, last_commit, sessions,
             current_manifest, download_queue, in_progress_bytes, downloading, part, wire, acks>>

\* The scripts of the client that a part deals with.
Concerned(p) ==
  CASE p = "single" -> {Target(u) : u \in Updates} [] p = "multi" -> Ids [] p = "assets" -> {}

\* The client starts with some of its scripts loaded, on the build 1.
Init ==
  /\ part \in {"single", "multi", "assets"}
  /\ \E D \in SUBSET Concerned(part) : scripts = [k \in {0} \X D |-> Replaced(Fresh(1), 1)]
  /\ frame = Idle
  /\ UpdateInit /\ BroadcastInit /\ AssetInit
  /\ wire = {} /\ acks = {}
  /\ part # "assets" => current_manifest = [a \in {} |-> 0]

\* The server sends a build of an update to its clients.
Broadcast(u, b) ==
  /\ StartBroadcast(u)
  /\ wire' = wire \cup {<<u, b>>}
  /\ UNCHANGED <<scripts, updateVars, acks>>

\* The client is told of an update, or receives one of its chunks.
Announced(u) ==
  /\ \E b \in Asts : <<u, b>> \in wire
  /\ StartUpdate(u)
  /\ UNCHANGED <<scripts, sessions, wire, acks>>

ChunkArrives(u, b, seq) ==
  /\ <<u, b>> \in wire
  /\ ReceiveChunk(u, seq, b)
  /\ UNCHANGED <<scripts, sessions, wire, acks>>

\* The answer to try_apply: its UpdateAck, or the rollback its caller reports.
AckFor(u, done) == [update |-> u, status |-> IF done = 0 THEN "Rollback" ELSE "Ok", build |-> done]

Apply(u) ==
  /\ \E done \in {0} \cup Asts : TryApply(u, done) /\ acks' = acks \cup {AckFor(u, done)}
  /\ UNCHANGED <<sessions, wire>>

AckArrives(a) ==
  /\ OnAck(a.update, Me, a.status, a.build)
  /\ UNCHANGED <<scripts, updateVars, wire, acks>>

\* Which of the two answers the others give makes no difference to is_complete.
OthersAnswer(u, c) ==
  /\ OnAck(u, c, "Rollback", 0)
  /\ UNCHANGED <<scripts, updateVars, wire, acks>>

SessionEnds(u) == RemoveSession(u) /\ UNCHANGED <<scripts, updateVars, wire, acks>>
Cleanup        == CleanupCompleted /\ UNCHANGED <<scripts, updateVars, wire, acks>>

SingleStep ==
  /\ part = "single"
  /\ \/ \E u \in Updates : \E b \in BuildsOf(u) :
          Broadcast(u, b) \/ \E s \in 0 .. Chunks(u) - 1 : ChunkArrives(u, b, s)
     \/ \E u \in Updates : Announced(u) \/ Apply(u) \/ SessionEnds(u)
     \/ \E a \in acks : AckArrives(a)
     \/ \E u \in Updates, c \in Clients \ {Me} : OthersAnswer(u, c)
     \/ Cleanup
     \/ (Elapse \/ Purge) /\ UNCHANGED <<scripts, sessions, wire, acks>>
  /\ UNCHANGED <<part, frame, assetVars>>

MultiStep ==
  /\ part = "multi"
  /\ \/ \E u \in Batches : TryCommit(u)
     \/ /\ \/ \E u \in Batches, D \in SUBSET Ids \ {{}} :
                \E totals \in [D -> 0 .. 2] :
                  /\ \A id \in D : totals[id] \in {0, Chunks(id)}
                  /\ StartBatch(u, totals)
           \/ \E u \in Batches, id \in Ids, b \in Asts : \E s \in 0 .. Chunks(id) - 1 : ReceiveFragment(u, id, s, b)
           \/ Elapse \/ PurgeMulti
        /\ UNCHANGED scripts
  /\ UNCHANGED <<part, frame, sessions, wire, acks, assetVars>>

AssetStep ==
  /\ part = "assets" /\ AssetNext
  /\ UNCHANGED <<part, scripts, frame, updateVars, sessions, wire, acks>>

Next == SingleStep \/ MultiStep \/ AssetStep

Spec == Init /\ [][Next]_otaVars

-----------------------------------------------------------------------------
(* Properties *)

\* What the server believes of a client has happened there, although chunks and
\* answers are lost, repeated and reordered, updates are broadcast again with
\* another build and buffers time out: an Ok names a build of that update that
\* the client's on_init accepted, a Rollback an update the client did refuse.
AckIsTrue ==
  \A u \in DOMAIN sessions :
    LET s == sessions[u][Me]
    IN  /\ s.status = "Ok" => <<u, s.version_hash>> \in installed
        /\ s.status = "Rollback" => u \in refused

\* The latest commit has put exactly the scripts in front of the one that failed,
\* in the order of ids, on the batch's build, or all of them if none failed; the
\* one that failed and those behind it run what they ran before.  This is the
\* "partial atomicity" that hot_update.rs:543-547 decides for, and not what the
\* doc comments of the batch and of commit (hot_update.rs:375-376, 492-494) and
\* the warning of the failure itself (537) say, that one failed on_init rolls
\* the whole batch back.
CommitIsPrefix ==
  LET c == last_commit
  IN  /\ c.failed # NoneFailed => c.failed \in DOMAIN c.builds
      /\ \A id \in DOMAIN c.builds :
           c.after[id] = IF c.failed = NoneFailed \/ id < c.failed THEN {c.builds[id]} ELSE c.before[id]
=============================================================================
