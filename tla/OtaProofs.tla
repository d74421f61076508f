---------------------------- MODULE OtaProofs -------------------------------
(***************************************************************************)
(* Proofs about updates over the air, for every set of clients, ids,       *)
(* priorities, builds and updates and every limit: that what the server    *)
(* believes of a client is true, that the commit of a batch installs a     *)
(* prefix of it and keeps ids unique, and that downloads stay within the   *)
(* budget.                                                                 *)
(***************************************************************************)
EXTENDS Ota, ScriptsProofs, ListLemmas

(* Acknowledgements *)

Answers == [update : Updates, status : {"Ok", "Rollback"}, build : Asts \cup {0}]
Entries == [status : {"Unknown", "Ok", "Rollback"}, version_hash : Asts \cup {0}]

\* Nothing that happened at the client is forgotten, so that an answer stays
\* true however late and however often it arrives.
AnswersTrue ==
  \A a \in acks : /\ a.status = "Ok" => <<a.update, a.build>> \in installed
                  /\ a.status = "Rollback" => a.update \in refused

\* The inductive invariant: every answer under way is true of what happened, and
\* so is everything the server noted down.
AckInv ==
  /\ acks \subseteq Answers
  /\ \A u \in DOMAIN sessions : sessions[u] \in [Clients -> Entries]
  /\ AnswersTrue
  /\ AckIsTrue

\* No step of the client forgets an installation or a refusal.
LEMMA NothingForgotten == [Next]_otaVars => installed \subseteq installed' /\ refused \subseteq refused'
<1> SUFFICES ASSUME [Next]_otaVars PROVE installed \subseteq installed' /\ refused \subseteq refused'
  OBVIOUS
<1>1. ASSUME UNCHANGED <<installed, refused>> PROVE installed \subseteq installed' /\ refused \subseteq refused'
  BY <1>1
<1>2. CASE SingleStep
  <2>1. ASSUME NEW u \in Updates, Apply(u) PROVE installed \subseteq installed' /\ refused \subseteq refused'
    BY <2>1 DEF Apply, TryApply
  <2>2. ASSUME NEW u \in Updates, NEW b \in BuildsOf(u),
               Broadcast(u, b) \/ \E s \in 0 .. Chunks(u) - 1 : ChunkArrives(u, b, s)
        PROVE  UNCHANGED <<installed, refused>>
    BY <2>2 DEF Broadcast, ChunkArrives, ReceiveChunk, updateVars
  <2>3. ASSUME NEW u \in Updates, Announced(u) \/ SessionEnds(u) PROVE UNCHANGED <<installed, refused>>
    BY <2>3 DEF Announced, StartUpdate, SessionEnds, updateVars
  <2>4. ASSUME (\E a \in acks : AckArrives(a)) \/ (\E u \in Updates, c \in Clients \ {Me} : OthersAnswer(u, c)) \/ Cleanup
        PROVE  UNCHANGED <<installed, refused>>
    BY <2>4 DEF AckArrives, OthersAnswer, Cleanup, updateVars
  <2>5. ASSUME Elapse \/ Purge PROVE UNCHANGED <<installed, refused>>
    BY <2>5 DEF Elapse, Purge
  <2> QED BY <1>1, <1>2, <2>1, <2>2, <2>3, <2>4, <2>5 DEF SingleStep
<1>3. CASE MultiStep
  <2>1. ASSUME NEW u \in Batches, TryCommit(u) PROVE UNCHANGED <<installed, refused>>
    BY <2>1 DEF TryCommit
  <2>2. ASSUME NEW u, NEW totals, StartBatch(u, totals) PROVE UNCHANGED <<installed, refused>>
    BY <2>2 DEF StartBatch
  <2>3. ASSUME NEW u, NEW id, NEW s, NEW b, ReceiveFragment(u, id, s, b) PROVE UNCHANGED <<installed, refused>>
    BY <2>3 DEF ReceiveFragment
  <2>4. ASSUME Elapse \/ PurgeMulti PROVE UNCHANGED <<installed, refused>>
    BY <2>4 DEF Elapse, PurgeMulti
  <2> QED BY <1>1, <1>3, <2>1, <2>2, <2>3, <2>4 DEF MultiStep
<1>4. CASE AssetStep
  BY <1>1, <1>4 DEF AssetStep, updateVars
<1>5. CASE UNCHANGED otaVars
  BY <1>1, <1>5 DEF otaVars
<1> QED BY <1>2, <1>3, <1>4, <1>5 DEF Next

\* A state that believes and has answered the same, and forgot nothing, is as good.
LEMMA AckUnchanged ==
  ASSUME AckInv, UNCHANGED <<sessions, acks>>, installed \subseteq installed', refused \subseteq refused'
  PROVE  AckInv'
BY DEF AckInv, AnswersTrue, AckIsTrue

\* The server learns of one more answer, of which what it says of Me is true.
LEMMA AnsweredOK ==
  ASSUME AckInv, UNCHANGED <<acks, installed, refused>>, NEW u \in Updates, NEW c \in Clients,
         NEW status \in {"Ok", "Rollback"}, NEW build \in Asts \cup {0},
         OnAck(u, c, status, build),
         c = Me => /\ status = "Ok" => <<u, build>> \in installed
                   /\ status = "Rollback" => u \in refused
  PROVE  AckInv'
<1> DEFINE e == Answered(sessions[u][c], status, build)
<1>1. u \in DOMAIN sessions /\ sessions' = [sessions EXCEPT ![u][c] = e]
  BY DEF OnAck
<1>2. sessions[u] \in [Clients -> Entries]
  BY <1>1 DEF AckInv
<1>3. e \in Entries /\ e.status = status /\ (status = "Ok" => e.version_hash = build)
  <2>1. sessions[u][c].version_hash \in Asts \cup {0}
    BY <1>2 DEF Entries
  <2> QED BY <2>1 DEF Answered, Entries
<1> HIDE DEF e
<1>4. DOMAIN sessions' = DOMAIN sessions /\ sessions'[u] = [sessions[u] EXCEPT ![c] = e]
      /\ \A v \in DOMAIN sessions : v # u => sessions'[v] = sessions[v]
  BY <1>1
<1>5. sessions'[u] \in [Clients -> Entries] /\ sessions'[u][c] = e
      /\ (c # Me => sessions'[u][Me] = sessions[u][Me])
  BY <1>2, <1>3, <1>4, MeAssumption
<1>6. AckIsTrue'
  <2> SUFFICES ASSUME NEW v \in DOMAIN sessions
               PROVE  /\ sessions'[v][Me].status = "Ok" => <<v, sessions'[v][Me].version_hash>> \in installed
                      /\ sessions'[v][Me].status = "Rollback" => v \in refused
    BY <1>4 DEF AckIsTrue
  <2>1. CASE v = u /\ c = Me
    BY <1>3, <1>5, <2>1
  <2>2. CASE sessions'[v][Me] = sessions[v][Me]
    BY <2>2 DEF AckInv, AckIsTrue
  <2> QED BY <1>4, <1>5, <2>1, <2>2
<1> QED BY <1>4, <1>5, <1>6 DEF AckInv, AnswersTrue

\* Every step keeps the invariant of the answers.
LEMMA AckStep == AckInv /\ [Next]_otaVars => AckInv'
<1> SUFFICES ASSUME AckInv, [Next]_otaVars PROVE AckInv'
  OBVIOUS
<1>0. installed \subseteq installed' /\ refused \subseteq refused'
  BY NothingForgotten
<1>1. CASE UNCHANGED <<sessions, acks>>
  BY <1>0, <1>1, AckUnchanged
<1>2. CASE SingleStep
  <2>1. ASSUME NEW u \in Updates, NEW b \in BuildsOf(u), Broadcast(u, b) PROVE AckInv'
    <3>1. /\ acks' = acks
          /\ sessions' = [v \in DOMAIN sessions \cup {u} |->
                            IF v = u THEN [c \in Clients |-> Unknown] ELSE sessions[v]]
      BY <2>1 DEF Broadcast, StartBroadcast
    <3>2. Unknown \in Entries /\ Unknown.status = "Unknown"
      BY DEF Unknown, Entries
    <3>3. \A v \in DOMAIN sessions' : sessions'[v] \in [Clients -> Entries]
      BY <3>1, <3>2 DEF AckInv
    <3>4. sessions'[u][Me].status = "Unknown" /\ \A v \in DOMAIN sessions' : v # u => v \in DOMAIN sessions /\ sessions'[v] = sessions[v]
      BY <3>1, <3>2, MeAssumption
    <3>5. AckIsTrue'
      BY <1>0, <3>4 DEF AckInv, AckIsTrue
    <3>6. AnswersTrue'
      BY <1>0, <3>1 DEF AckInv, AnswersTrue
    <3> QED BY <3>1, <3>3, <3>5, <3>6 DEF AckInv
  <2>2. ASSUME NEW u \in Updates, Apply(u) PROVE AckInv'
    <3>1. PICK done \in {0} \cup Asts : TryApply(u, done) /\ acks' = acks \cup {AckFor(u, done)}
      BY <2>2 DEF Apply
    <3>2. /\ done = 0 => u \in refused'
          /\ done # 0 => <<u, done>> \in installed'
      BY <3>1 DEF TryApply
    <3>3. AckFor(u, done) \in Answers
      BY DEF AckFor, Answers
    <3>4. AnswersTrue'
      <4> SUFFICES ASSUME NEW a \in acks \cup {AckFor(u, done)}
                   PROVE  /\ a.status = "Ok" => <<a.update, a.build>> \in installed'
                          /\ a.status = "Rollback" => a.update \in refused'
        BY <3>1 DEF AnswersTrue
      <4>1. CASE a \in acks
        BY <1>0, <4>1 DEF AckInv, AnswersTrue
      <4>2. CASE a = AckFor(u, done)
        BY <3>2, <4>2 DEF AckFor
      <4> QED BY <4>1, <4>2
    <3>5. sessions' = sessions
      BY <2>2 DEF Apply
    <3>6. AckIsTrue'
      BY <1>0, <3>5 DEF AckInv, AckIsTrue
    <3> QED BY <3>1, <3>3, <3>4, <3>5, <3>6 DEF AckInv
  <2>3. ASSUME NEW a \in acks, AckArrives(a) PROVE AckInv'
    <3>1. a \in Answers
      BY DEF AckInv
    <3>2. a.update \in Updates /\ a.status \in {"Ok", "Rollback"} /\ a.build \in Asts \cup {0}
      BY <3>1 DEF Answers
    <3>3. UNCHANGED <<acks, installed, refused>> /\ OnAck(a.update, Me, a.status, a.build)
      BY <2>3 DEF AckArrives, updateVars
    <3>4. /\ a.status = "Ok" => <<a.update, a.build>> \in installed
          /\ a.status = "Rollback" => a.update \in refused
      BY DEF AckInv, AnswersTrue
    <3> QED BY <3>2, <3>3, <3>4, AnsweredOK, MeAssumption
  <2>4. ASSUME NEW u \in Updates, NEW c \in Clients \ {Me}, OthersAnswer(u, c) PROVE AckInv'
    <3>1. UNCHANGED <<acks, installed, refused>> /\ OnAck(u, c, "Rollback", 0)
      BY <2>4 DEF OthersAnswer, updateVars
    <3> QED BY <3>1, AnsweredOK
  <2>5. ASSUME NEW u \in Updates, SessionEnds(u) PROVE AckInv'
    <3>1. acks' = acks /\ sessions' = [v \in DOMAIN sessions \ {u} |-> sessions[v]]
      BY <2>5 DEF SessionEnds, RemoveSession
    <3> QED BY <1>0, <3>1 DEF AckInv, AnswersTrue, AckIsTrue
  <2>6. CASE Cleanup
    <3>1. acks' = acks /\ sessions' = [u \in {v \in DOMAIN sessions : ~ IsComplete(v)} |-> sessions[u]]
      BY <2>6 DEF Cleanup, CleanupCompleted
    <3> QED BY <1>0, <3>1 DEF AckInv, AnswersTrue, AckIsTrue
  <2>7. ASSUME NEW u \in Updates, Announced(u) PROVE AckInv'
    BY <1>1, <2>7 DEF Announced
  <2>8. ASSUME NEW u \in Updates, NEW b \in BuildsOf(u), NEW s \in 0 .. Chunks(u) - 1, ChunkArrives(u, b, s)
        PROVE  AckInv'
    BY <1>1, <2>8 DEF ChunkArrives
  <2> QED BY <1>1, <1>2, <2>1, <2>2, <2>3, <2>4, <2>5, <2>6, <2>7, <2>8 DEF SingleStep
<1>3. CASE MultiStep \/ AssetStep \/ UNCHANGED otaVars
  BY <1>1, <1>3 DEF MultiStep, AssetStep, otaVars
<1> QED BY <1>2, <1>3 DEF Next

\* BroadcastManager and HotUpdateManager with the network between them: for any
\* number of clients, updates and chunks, and however chunks and answers are
\* lost, repeated and reordered, the server never believes an installation or a
\* refusal that did not happen.
THEOREM ServerBelievesTruth == Spec => []AckIsTrue
<1>1. Init => AckInv
  BY DEF Init, BroadcastInit, AckInv, AnswersTrue, AckIsTrue
<1>2. AckInv => AckIsTrue
  BY DEF AckInv
<1> QED BY <1>1, <1>2, AckStep, PTL DEF Spec

-----------------------------------------------------------------------------
(* HotUpdate *)

\* The greatest id of a script.
LastId == CHOOSE n \in Ids : \A m \in Ids : m <= n

\* The ids of scripts are finitely many, and LastId is the greatest.
LEMMA LastIdFacts ==
  /\ LastId \in Ids /\ LastId \in Nat /\ \A m \in Ids : m <= LastId /\ m \in Nat
  /\ IsFiniteSet(Ids)
<1>1. Ids \subseteq Nat /\ \E n \in Ids : \A m \in Ids : m <= n
  BY ScriptsAssumption, HotUpdateAssumption
<1>2. LastId \in Ids /\ \A m \in Ids : m <= LastId
  BY <1>1 DEF LastId
<1>3. LastId \in Int /\ Ids \in SUBSET (0 .. LastId)
  BY <1>1, <1>2
<1>4. IsFiniteSet(0 .. LastId)
  BY <1>3, FS_Interval
<1>5. IsFiniteSet(Ids)
  BY <1>3, <1>4, FS_Subset
<1> QED BY <1>1, <1>2, <1>5

\* What replace_script does to the builds the scripts run: the id it is called
\* for runs the new one if it returns Ok, and nothing else changes.
SameBuild(f, g, k) == g[k].ast = f[k].ast

\* f is a function.
IsFcn(f) == f = [k \in DOMAIN f |-> f[k]]

\* replace_script swaps one script, or restores what was there when it fails.
LEMMA ReplaceRuns ==
  ASSUME NEW f, Sound(f), NEW id, NEW ast \in Asts, NEW r \in ReplaceResults(f, id, ast)
  PROVE  /\ DOMAIN r[1] = DOMAIN f /\ r[2] \in BOOLEAN /\ r = <<r[1], r[2]>>
         /\ IsFcn(f) => IsFcn(r[1])
         /\ r[2] => /\ \E k \in DOMAIN f : k[2] = id /\ r[1][k].ast = ast
                    /\ \A k \in DOMAIN f : k[2] # id => SameBuild(f, r[1], k)
         /\ ~ r[2] => \A k \in DOMAIN f : SameBuild(f, r[1], k)
<1> DEFINE ks == {k \in DOMAIN f : k[2] = id}
<1>1. CASE ks = {}
  <2>1. r = <<f, FALSE>>
    BY <1>1 DEF ReplaceResults
  <2> QED BY <2>1 DEF SameBuild
<1>2. CASE ks # {}
  <2> DEFINE k == CHOOSE j \in ks : TRUE
  <2>1. k \in DOMAIN f /\ k[2] = id /\ f[k] \in Managed
    BY <1>2 DEF Sound
  <2>2. PICK c \in CallResults(Fresh(ast), "on_init") :
          r \in IF c[1] = "ok" THEN {<<[f EXCEPT ![k] = Replaced(@, ast)], TRUE>>}
                ELSE {<<[f EXCEPT ![k] = RolledBack(@, a[1])], FALSE>> :
                        a \in CallResults(Fresh(f[k].ast), "on_init")}
    BY <1>2 DEF ReplaceResults
  <2> HIDE DEF k, ks
  <2>3. CASE c[1] = "ok"
    <3>1. r = <<[f EXCEPT ![k] = Replaced(f[k], ast)], TRUE>>
      BY <2>2, <2>3
    <3>2. Replaced(f[k], ast).ast = ast
      BY <2>1 DEF Replaced, Managed
    <3>3. r[2] = TRUE /\ r[1] = [f EXCEPT ![k] = Replaced(f[k], ast)]
      BY <3>1
    <3>4. r = <<r[1], r[2]>> /\ IsFcn(r[1]) /\ DOMAIN r[1] = DOMAIN f
      BY <3>1, <3>3 DEF IsFcn
    <3> QED BY <2>1, <3>2, <3>3, <3>4 DEF SameBuild
  <2>4. CASE c[1] # "ok"
    <3>1. PICK a \in CallResults(Fresh(f[k].ast), "on_init") : r = <<[f EXCEPT ![k] = RolledBack(f[k], a[1])], FALSE>>
      BY <2>2, <2>4
    <3>2. RolledBack(f[k], a[1]).ast = f[k].ast
      BY <2>1 DEF RolledBack, Managed
    <3>3. r[2] = FALSE /\ r[1] = [f EXCEPT ![k] = RolledBack(f[k], a[1])]
      BY <3>1
    <3>4. r = <<r[1], r[2]>> /\ IsFcn(r[1]) /\ DOMAIN r[1] = DOMAIN f
      BY <3>1, <3>3 DEF IsFcn
    <3> QED BY <2>1, <3>2, <3>3, <3>4 DEF SameBuild
  <2> QED BY <2>3, <2>4
<1> QED BY <1>1, <1>2

-----------------------------------------------------------------------------
(* Batches *)

\* The scripts of a batch that are ready.
Ready(batch) == {id \in DOMAIN batch.bufs : batch.bufs[id].staged # 0}

\* A batch as receive_fragment keeps it: staged_count counts the staged builds.
BatchOK(batch) ==
  /\ DOMAIN batch = {"bufs", "staged_count", "age"}
  /\ DOMAIN batch.bufs \subseteq Ids
  /\ \A id \in DOMAIN batch.bufs : batch.bufs[id].staged \in Asts \cup {0}
  /\ \A id \in DOMAIN batch.bufs : DOMAIN batch.bufs[id] = {"expected", "frags", "staged"}
  /\ batch.staged_count = Cardinality(Ready(batch))

\* A batch that is staged has a build for each of its scripts.
LEMMA AllStagedIsReady ==
  ASSUME NEW batch, BatchOK(batch), AllStaged(batch)
  PROVE  \A id \in DOMAIN batch.bufs : batch.bufs[id].staged \in Asts /\ batch.bufs[id].staged # 0
<1> DEFINE D == DOMAIN batch.bufs
           R == Ready(batch)
<1>1. D \in SUBSET Ids /\ R \in SUBSET D
  BY DEF BatchOK, Ready
<1>2. IsFiniteSet(D) /\ IsFiniteSet(R)
  <2> HIDE DEF D, R
  <2> QED BY <1>1, LastIdFacts, FS_Subset
<1>3. Cardinality(R) >= Cardinality(D)
  BY DEF BatchOK, AllStaged
<1>4. R = D
  <2> HIDE DEF D, R
  <2>1. Cardinality(R) \in Nat /\ Cardinality(D) \in Nat
    BY <1>2, FS_CardinalityType
  <2>2. Cardinality(R) <= Cardinality(D) /\ (Cardinality(D) = Cardinality(R) => D = R)
    BY <1>1, <1>2, FS_Subset
  <2> QED BY <1>3, <2>1, <2>2
<1> QED BY <1>4 DEF Ready, BatchOK

\* What commit has made of the scripts when it has dealt with the ids below n:
\* the ids in front of the one that failed are swapped, the others are not.
Reached(r, n, batch) ==
  /\ Sound(r[1]) /\ IsFcn(r[1]) /\ DOMAIN r[1] = DOMAIN scripts
  /\ r[2] # NoneFailed => r[2] \in DOMAIN batch.bufs /\ r[2] < n
  /\ \A id \in DOMAIN batch.bufs :
       Runs(r[1], id) = IF id < n /\ (r[2] = NoneFailed \/ id < r[2])
                        THEN {batch.bufs[id].staged} ELSE Runs(scripts, id)

\* What one more id makes of a result of the ids before it.
OneMore(r, n, batch) ==
  IF r[2] = NoneFailed /\ n \in DOMAIN batch.bufs /\ batch.bufs[n].staged # 0
  THEN {<<t[1], IF t[2] THEN NoneFailed ELSE n>> : t \in ReplaceResults(r[1], n, batch.bufs[n].staged)}
  ELSE {r}

\* One more script of the batch: exactly the scripts before a failure are swapped.
LEMMA ReachedNext ==
  ASSUME NEW batch, BatchOK(batch), AllStaged(batch), NEW n \in Nat, NEW r, Reached(r, n, batch),
         NEW t \in OneMore(r, n, batch)
  PROVE  Reached(t, n + 1, batch)
<1> DEFINE D == DOMAIN batch.bufs
           staged(id) == batch.bufs[id].staged
<1>0. \A id \in D : id \in Nat /\ staged(id) \in Asts /\ staged(id) # 0
  BY AllStagedIsReady, LastIdFacts DEF BatchOK
<1>1. CASE ~ (r[2] = NoneFailed /\ n \in D)
  <2>1. t = r
    BY <1>1 DEF OneMore
  <2>2. r[2] # NoneFailed => r[2] \in D /\ r[2] \in Nat /\ r[2] < n
    BY <1>0 DEF Reached
  <2>3. ASSUME NEW id \in D, r[2] = NoneFailed \/ id < r[2] PROVE id < n + 1 <=> id < n
    BY <1>0, <1>1, <2>2, <2>3
  <2>4. r[2] # NoneFailed => r[2] \in D /\ r[2] < n + 1
    BY <2>2
  <2> QED BY <2>1, <2>3, <2>4 DEF Reached
<1>2. CASE r[2] = NoneFailed /\ n \in D
  <2>1. PICK x \in ReplaceResults(r[1], n, staged(n)) : t = <<x[1], IF x[2] THEN NoneFailed ELSE n>>
    BY <1>0, <1>2 DEF OneMore
  <2>2. Sound(r[1]) /\ IsFcn(r[1]) /\ DOMAIN r[1] = DOMAIN scripts /\ staged(n) \in Asts
    BY <1>0, <1>2 DEF Reached
  <2> HIDE DEF staged
  <2>3. Sound(x[1])
    BY <2>1, <2>2, ReplaceSound
  <2>4. /\ DOMAIN x[1] = DOMAIN r[1] /\ x[2] \in BOOLEAN /\ IsFcn(x[1])
        /\ x[2] => /\ \E k \in DOMAIN r[1] : k[2] = n /\ x[1][k].ast = staged(n)
                   /\ \A k \in DOMAIN r[1] : k[2] # n => SameBuild(r[1], x[1], k)
        /\ ~ x[2] => \A k \in DOMAIN r[1] : SameBuild(r[1], x[1], k)
    BY <2>1, <2>2, ReplaceRuns
  <2>5. t[1] = x[1] /\ t[2] = IF x[2] THEN NoneFailed ELSE n
    BY <2>1
  <2>6. ASSUME NEW id, ~ x[2] \/ id # n PROVE Runs(x[1], id) = Runs(r[1], id)
    BY <2>4, <2>6 DEF Runs, SameBuild
  <2>7. x[2] => Runs(x[1], n) = {staged(n)}
    <3>1. \A j, k \in DOMAIN x[1] : j[2] = k[2] => j = k
      BY <2>3 DEF Sound
    <3> QED BY <2>4, <3>1 DEF Runs
  <2>8. ASSUME NEW id \in D
        PROVE  Runs(r[1], id) = IF id < n THEN {staged(id)} ELSE Runs(scripts, id)
    BY <1>2 DEF Reached, staged
  <2>9. n # NoneFailed /\ \A id \in D : id \in Nat /\ (id < n + 1 <=> id < n \/ id = n)
    BY <1>0 DEF NoneFailed
  <2>10. ASSUME NEW id \in D
         PROVE  Runs(t[1], id) = IF id < n + 1 /\ (t[2] = NoneFailed \/ id < t[2])
                                 THEN {staged(id)} ELSE Runs(scripts, id)
    <3>1. CASE ~ x[2]
      <4>1. t[2] = n /\ t[2] # NoneFailed /\ (id < n => id < n + 1)
        BY <2>5, <2>9, <3>1
      <4> QED BY <2>5, <2>6, <2>8, <3>1, <4>1
    <3>2. CASE x[2]
      <4>1. t[2] = NoneFailed
        BY <2>5, <3>2
      <4> QED BY <2>5, <2>6, <2>7, <2>8, <2>9, <3>2, <4>1
    <3> QED BY <2>4, <3>1, <3>2
  <2>11. t[2] # NoneFailed => t[2] \in D /\ t[2] < n + 1
    BY <1>2, <2>5
  <2> QED BY <2>2, <2>3, <2>4, <2>5, <2>10, <2>11 DEF Reached, staged
<1> QED BY <1>1, <1>2

\* The recursion of commit, and that there is a function that satisfies it.
CommitEquation(batch, h) ==
  h = [n \in 0 .. LastId + 1 |->
         IF n = 0 THEN {<<scripts, NoneFailed>>}
         ELSE UNION {IF r[2] = NoneFailed /\ n - 1 \in DOMAIN batch.bufs /\ batch.bufs[n - 1].staged # 0
                     THEN {<<t[1], IF t[2] THEN NoneFailed ELSE n - 1>> :
                             t \in ReplaceResults(r[1], n - 1, batch.bufs[n - 1].staged)}
                     ELSE {r} : r \in h[n - 1]}]

\* What a commit has reached: the scripts, and the one that failed.
CommitStates == {f \in [DOMAIN scripts -> Managed] : Sound(f)} \X (Ids \cup {NoneFailed})

\* One more script leads to a state of the commit.
LEMMA OneMoreType ==
  ASSUME NEW batch, BatchOK(batch), NEW n, NEW r \in CommitStates
  PROVE  OneMore(r, n, batch) \subseteq CommitStates
<1>1. CASE r[2] = NoneFailed /\ n \in DOMAIN batch.bufs /\ batch.bufs[n].staged # 0
  <2> SUFFICES ASSUME NEW t \in OneMore(r, n, batch) PROVE t \in CommitStates
    OBVIOUS
  <2>1. PICK x \in ReplaceResults(r[1], n, batch.bufs[n].staged) :
          t = <<x[1], IF x[2] THEN NoneFailed ELSE n>>
    BY <1>1 DEF OneMore
  <2>2. batch.bufs[n].staged \in Asts /\ n \in Ids
    BY <1>1 DEF BatchOK
  <2>3. Sound(r[1]) /\ DOMAIN r[1] = DOMAIN scripts /\ IsFcn(r[1])
    BY DEF CommitStates, IsFcn
  <2>4. Sound(x[1])
    BY <2>1, <2>2, <2>3, ReplaceSound
  <2>5. DOMAIN x[1] = DOMAIN scripts /\ IsFcn(x[1])
    BY <2>1, <2>2, <2>3, ReplaceRuns
  <2>6. x[1] \in [DOMAIN scripts -> Managed]
    BY <2>4, <2>5 DEF IsFcn, Sound
  <2> QED BY <2>1, <2>2, <2>4, <2>6 DEF CommitStates
<1>2. CASE ~ (r[2] = NoneFailed /\ n \in DOMAIN batch.bufs /\ batch.bufs[n].staged # 0)
  BY <1>2 DEF OneMore
<1> QED BY <1>1, <1>2

\* A commit ends with the scripts before the failed one swapped, or with all of them.
LEMMA CommitReached ==
  ASSUME Sound(scripts), IsFcn(scripts),
         NEW batch, BatchOK(batch), AllStaged(batch), NEW r \in CommitResults(batch)
  PROVE  Reached(r, LastId + 1, batch)
<1> DEFINE T == SUBSET CommitStates
           base == {<<scripts, NoneFailed>>}
           next == [n \in 1 .. LastId + 1 |-> [X \in T |-> UNION {OneMore(x, n - 1, batch) : x \in X}]]
           R == CHOOSE h : CommitEquation(batch, h)
<1>1. base \in T
  <2>1. scripts \in [DOMAIN scripts -> Managed]
    BY DEF IsFcn, Sound
  <2>2. <<scripts, NoneFailed>> \in CommitStates
    BY <2>1 DEF CommitStates
  <2> QED BY <2>2
<1>2. next \in Steps(LastId + 1, T)
  <2>1. ASSUME NEW n \in 1 .. LastId + 1, NEW X \in T PROVE UNION {OneMore(x, n - 1, batch) : x \in X} \in T
    BY OneMoreType
  <2> QED BY <2>1 DEF Steps
<1>3. PICK g : Stepwise(g, LastId + 1, T, base, next)
  <2> HIDE DEF T, base, next
  <2>1. LastId + 1 \in Nat
    BY LastIdFacts
  <2> QED BY <1>1, <1>2, <2>1, StepwiseExists
<1>4. CommitEquation(batch, g)
  <2>1. ASSUME NEW n \in 0 .. LastId + 1
        PROVE  g[n] = IF n = 0 THEN base ELSE UNION {OneMore(x, n - 1, batch) : x \in g[n - 1]}
    <3>1. CASE n = 0
      BY <1>3, <3>1 DEF Stepwise
    <3>2. CASE n # 0
      <4>1. n \in 1 .. LastId + 1 /\ n - 1 \in 0 .. LastId + 1
        BY <3>2, LastIdFacts
      <4>2. g[n - 1] \in T /\ g[n] = next[n][g[n - 1]]
        <5> HIDE DEF T, next, base
        <5> QED BY <1>3, <4>1 DEF Stepwise
      <4>3. next[n] = [X \in T |-> UNION {OneMore(x, n - 1, batch) : x \in X}]
        <5> HIDE DEF T
        <5> QED BY <4>1
      <4> HIDE DEF T, next
      <4>4. g[n] = UNION {OneMore(x, n - 1, batch) : x \in g[n - 1]}
        BY <4>2, <4>3
      <4> QED BY <3>2, <4>4
    <3> QED BY <3>1, <3>2
  <2>2. g = [n \in 0 .. LastId + 1 |-> g[n]]
    <3> HIDE DEF T, next, base
    <3> QED BY <1>3 DEF Stepwise
  <2>3. g = [n \in 0 .. LastId + 1 |-> IF n = 0 THEN base ELSE UNION {OneMore(x, n - 1, batch) : x \in g[n - 1]}]
    <3> HIDE DEF base
    <3> QED BY <2>1, <2>2
  <2> QED BY <2>3, Zenon DEF CommitEquation, OneMore
<1>5. CommitEquation(batch, R)
  BY <1>4, Zenon
<1>6. CommitResults(batch) = R[LastId + 1]
  BY Zenon DEF CommitResults, CommitEquation, LastId
<1> HIDE DEF R, T, next
<1>7. ASSUME NEW n \in 0 .. LastId + 1
      PROVE  R[n] = IF n = 0 THEN base ELSE UNION {OneMore(x, n - 1, batch) : x \in R[n - 1]}
  BY <1>5, Zenon DEF CommitEquation, OneMore
<1> DEFINE S == {n \in Nat : n <= LastId + 1 => \A x \in R[n] : Reached(x, n, batch)}
<1>8. S \in SUBSET Nat /\ 0 \in S
  <2>0. 0 \in 0 .. LastId + 1
    BY LastIdFacts
  <2>1. R[0] = base
    <3> HIDE DEF base, S
    <3> QED BY <1>7, <2>0
  <2>2. Reached(<<scripts, NoneFailed>>, 0, batch)
    <3>1. \A id \in DOMAIN batch.bufs : id \in Nat
      BY LastIdFacts DEF BatchOK
    <3> QED BY <3>1 DEF Reached
  <2> QED BY <2>1, <2>2
<1>9. ASSUME NEW n \in S PROVE n + 1 \in S
  <2> SUFFICES ASSUME n + 1 <= LastId + 1, NEW x \in R[n + 1] PROVE Reached(x, n + 1, batch)
    OBVIOUS
  <2>1. n \in Nat /\ n + 1 \in Nat \ {0} /\ n + 1 \in 0 .. LastId + 1 /\ n + 1 # 0 /\ (n + 1) - 1 = n /\ n <= LastId + 1
    BY LastIdFacts
  <2>2. R[n + 1] = UNION {OneMore(y, n, batch) : y \in R[n]}
    <3>1. R[n + 1] = IF n + 1 = 0 THEN base ELSE UNION {OneMore(z, (n + 1) - 1, batch) : z \in R[(n + 1) - 1]}
      <4> HIDE DEF base, S
      <4> QED BY <1>7, <2>1
    <3> QED BY <2>1, <3>1
  <2>3. PICK y \in R[n] : x \in OneMore(y, n, batch)
    BY <2>2
  <2>4. Reached(y, n, batch)
    BY <2>1, <2>3
  <2> HIDE DEF S
  <2> QED BY <2>1, <2>3, <2>4, ReachedNext
<1>10. S = Nat
  <2> HIDE DEF S
  <2> QED BY <1>8, <1>9, InductionOnSet
<1>11. LastId + 1 \in S /\ LastId + 1 \in Nat
  <2> HIDE DEF S
  <2> QED BY <1>10, LastIdFacts
<1> QED BY <1>6, <1>11, LastIdFacts

-----------------------------------------------------------------------------
(* The invariant *)

\* The inductive invariant: sound scripts, well-formed batches, and a last commit
\* that swapped a prefix.
CommitInv ==
  /\ Sound(scripts) /\ IsFcn(scripts)
  /\ \A u \in DOMAIN multi_batches : BatchOK(multi_batches[u])
  /\ CommitIsPrefix

\* Nothing has been committed at first.
LEMMA CommitInit == Init => CommitInv
<1> SUFFICES ASSUME Init PROVE CommitInv
  OBVIOUS
<1>1. PICK D \in SUBSET Concerned(part) : scripts = [k \in {0} \X D |-> Replaced(Fresh(1), 1)]
  BY DEF Init
<1>2. D \subseteq Ids
  <2>1. part \in {"single", "multi", "assets"} /\ \A u \in Updates : Target(u) \in Ids
    BY HotUpdateAssumption DEF Init
  <2> QED BY <2>1 DEF Concerned
<1>3. Replaced(Fresh(1), 1) \in Managed /\ CountSound(Replaced(Fresh(1), 1))
  BY FreshSound, ReplacedSound, FirstBuild
<1>4. DOMAIN scripts = {0} \X D /\ \A k \in DOMAIN scripts : scripts[k] = Replaced(Fresh(1), 1)
  BY <1>1
<1>5. {0} \X D \subseteq Keys
  BY <1>2, FirstBuild DEF Keys
<1>6. \A j, k \in {0} \X D : j[2] = k[2] => j = k
  OBVIOUS
<1>7. Sound(scripts)
  BY <1>3, <1>4, <1>5, <1>6 DEF Sound
<1>8. IsFcn(scripts)
  BY <1>1 DEF IsFcn
<1>9. multi_batches = [u \in {} |-> {}] /\ last_commit = NoCommit
  BY DEF Init, UpdateInit
<1> QED BY <1>7, <1>8, <1>9 DEF CommitInv, CommitIsPrefix, NoCommit

\* What leaves scripts and batches alone keeps the invariant.
LEMMA CommitIdle ==
  ASSUME CommitInv, UNCHANGED <<scripts, multi_batches, last_commit>>
  PROVE  CommitInv'
BY DEF CommitInv, CommitIsPrefix

\* What keeps every batch well formed keeps the invariant.
LEMMA BatchesChange ==
  ASSUME CommitInv, UNCHANGED <<scripts, last_commit>>, \A u \in DOMAIN multi_batches' : BatchOK(multi_batches'[u])
  PROVE  CommitInv'
BY DEF CommitInv, CommitIsPrefix

\* Batches that grow older stay well formed.
LEMMA ElapseOK ==
  ASSUME CommitInv, Elapse, UNCHANGED scripts
  PROVE  CommitInv'
<1>1. DOMAIN multi_batches' = DOMAIN multi_batches
  BY DEF Elapse, Older
<1>2. ASSUME NEW u \in DOMAIN multi_batches PROVE BatchOK(multi_batches'[u])
  <2> DEFINE b == multi_batches[u]
             c == multi_batches'[u]
  <2>1. BatchOK(b)
    BY DEF CommitInv
  <2>2. c = [b EXCEPT !.age = IF @ > OTA_TIMEOUT THEN @ ELSE @ + 1]
    BY DEF Elapse, Older
  <2>3. DOMAIN c = DOMAIN b /\ c.bufs = b.bufs /\ c.staged_count = b.staged_count
    BY <2>1, <2>2 DEF BatchOK
  <2> HIDE DEF b, c
  <2> QED BY <2>1, <2>3 DEF BatchOK, Ready, c
<1> QED BY <1>1, <1>2, BatchesChange DEF Elapse

\* A new batch has nothing staged.
LEMMA StartBatchOK ==
  ASSUME CommitInv, NEW u, NEW D \in SUBSET Ids, NEW totals, DOMAIN totals = D, StartBatch(u, totals), UNCHANGED scripts
  PROVE  CommitInv'
<1> DEFINE bufs == [id \in D |-> [expected |-> totals[id], frags |-> [s \in {} |-> 0], staged |-> 0]]
           b == [bufs |-> bufs, staged_count |-> 0, age |-> 0]
<1>1. multi_batches' = Insert(multi_batches, u, b)
  BY DEF StartBatch
<1>2. BatchOK(b)
  <2>1. DOMAIN bufs = D /\ \A id \in D : bufs[id].staged = 0 /\ DOMAIN bufs[id] = {"expected", "frags", "staged"}
    OBVIOUS
  <2> HIDE DEF bufs
  <2>2. b.bufs = bufs /\ b.staged_count = 0 /\ DOMAIN b = {"bufs", "staged_count", "age"}
    OBVIOUS
  <2> HIDE DEF b
  <2>3. Ready(b) = {}
    BY <2>1, <2>2 DEF Ready
  <2> QED BY <2>1, <2>2, <2>3, FS_EmptySet DEF BatchOK
<1> HIDE DEF b
<1>3. ASSUME NEW v \in DOMAIN multi_batches' PROVE BatchOK(multi_batches'[v])
  BY <1>1, <1>2 DEF Insert, CommitInv
<1> QED BY <1>3, BatchesChange DEF StartBatch

\* A fragment completes at most its own script of its own batch.
LEMMA ReceiveFragmentOK ==
  ASSUME CommitInv, NEW u, NEW id, NEW seq, NEW b, ReceiveFragment(u, id, seq, b), UNCHANGED scripts
  PROVE  CommitInv'
<1> DEFINE batch == multi_batches[u]
           old == batch.bufs[id]
           buf == [old EXCEPT !.expected = IF @ = 0 THEN Chunks(id) ELSE @,
                              !.frags = IF old.staged = 0 THEN Insert(@, seq, b) ELSE @]
           builds == IF MayStage(buf) THEN Load(buf.frags) ELSE {}
           x == CHOOSE y \in builds : TRUE
           new == multi_batches'[u]
<1>1. u \in DOMAIN multi_batches /\ id \in DOMAIN batch.bufs /\ BatchOK(batch)
  BY DEF ReceiveFragment, CommitInv
<1>2. old.staged \in Asts \cup {0} /\ DOMAIN old = {"expected", "frags", "staged"}
  BY <1>1 DEF BatchOK
<1>3. buf.staged = old.staged /\ DOMAIN buf = {"expected", "frags", "staged"}
  <2> HIDE DEF old
  <2> QED BY <1>2
<1>4. IF builds = {} THEN multi_batches' = [multi_batches EXCEPT ![u].bufs[id] = buf]
      ELSE multi_batches' = [multi_batches EXCEPT ![u].bufs[id] = [buf EXCEPT !.staged = x],
                                                  ![u].staged_count = @ + 1]
  BY DEF ReceiveFragment
<1>5. builds # {} => x \in Asts /\ x # 0 /\ old.staged = 0
  <2>1. builds # {} => MayStage(buf) /\ x \in Asts
    BY DEF Load
  <2> QED BY <1>3, <2>1, HotUpdateAssumption DEF MayStage
<1> HIDE DEF buf, builds, x, old
<1>6. \A v \in DOMAIN multi_batches : v # u => multi_batches'[v] = multi_batches[v]
  BY <1>1, <1>4
<1>7. DOMAIN multi_batches' = DOMAIN multi_batches
  BY <1>1, <1>4
<1>8. BatchOK(new)
  <2>1. CASE builds = {}
    <3>1. new = [batch EXCEPT !.bufs[id] = buf]
      BY <1>1, <1>4, <2>1
    <3> HIDE DEF new, batch
    <3>2. /\ DOMAIN new = DOMAIN batch /\ new.staged_count = batch.staged_count
          /\ new.bufs = [batch.bufs EXCEPT ![id] = buf]
      BY <1>1, <3>1 DEF BatchOK
    <3>3. DOMAIN new.bufs = DOMAIN batch.bufs /\ new.bufs[id] = buf /\ \A i \in DOMAIN batch.bufs : i # id => new.bufs[i] = batch.bufs[i]
      BY <1>1, <3>2
    <3>4. Ready(new) = Ready(batch)
      BY <1>3, <3>3 DEF Ready, old
    <3> QED BY <1>1, <1>2, <1>3, <3>2, <3>3, <3>4 DEF BatchOK
  <2>2. CASE builds # {}
    <3> DEFINE w == [buf EXCEPT !.staged = x]
    <3>1. new = [batch EXCEPT !.bufs[id] = w, !.staged_count = @ + 1]
      BY <1>1, <1>4, <2>2
    <3>0. w.staged = x /\ DOMAIN w = {"expected", "frags", "staged"}
      BY <1>3
    <3> HIDE DEF new, batch, w
    <3>2. /\ DOMAIN new = DOMAIN batch /\ new.staged_count = batch.staged_count + 1
          /\ new.bufs = [batch.bufs EXCEPT ![id] = w]
      BY <1>1, <3>1 DEF BatchOK
    <3>3. DOMAIN new.bufs = DOMAIN batch.bufs /\ new.bufs[id] = w /\ \A i \in DOMAIN batch.bufs : i # id => new.bufs[i] = batch.bufs[i]
      BY <1>1, <3>2
    <3>4. Ready(new) = Ready(batch) \cup {id} /\ id \notin Ready(batch)
      BY <1>1, <1>5, <2>2, <3>0, <3>3 DEF Ready, old
    <3>5. IsFiniteSet(Ready(batch))
      <4>1. Ready(batch) \in SUBSET Ids
        BY <1>1 DEF Ready, BatchOK
      <4> QED BY <4>1, LastIdFacts, FS_Subset
    <3>6. Cardinality(Ready(new)) = Cardinality(Ready(batch)) + 1
      BY <3>4, <3>5, FS_AddElement
    <3> QED BY <1>1, <1>5, <2>2, <3>0, <3>2, <3>3, <3>6 DEF BatchOK
  <2> QED BY <2>1, <2>2
<1>9. ASSUME NEW v \in DOMAIN multi_batches' PROVE BatchOK(multi_batches'[v])
  BY <1>6, <1>7, <1>8 DEF CommitInv
<1> QED BY <1>9, BatchesChange DEF ReceiveFragment

\* try_commit: all scripts staged, then swapped one by one in the order of ids.
LEMMA TryCommitOK ==
  ASSUME CommitInv, NEW u, TryCommit(u)
  PROVE  CommitInv'
<1> DEFINE batch == multi_batches[u]
           D == DOMAIN batch.bufs
<1>1. u \in DOMAIN multi_batches /\ BatchOK(batch)
  BY DEF TryCommit, CommitInv
<1>2. \A v \in DOMAIN multi_batches' : BatchOK(multi_batches'[v])
  BY DEF TryCommit, Without1, CommitInv
<1>3. CASE ~ AllStaged(batch)
  BY <1>2, <1>3, BatchesChange DEF TryCommit
<1>4. CASE AllStaged(batch)
  <2>1. PICK r \in CommitResults(batch) :
          /\ scripts' = r[1]
          /\ last_commit' = [failed |-> r[2], builds |-> [id \in D |-> batch.bufs[id].staged],
                             before |-> [id \in D |-> Runs(scripts, id)],
                             after  |-> [id \in D |-> Runs(r[1], id)]]
    BY <1>4 DEF TryCommit
  <2>2. Sound(scripts) /\ IsFcn(scripts)
    BY DEF CommitInv
  <2> HIDE DEF batch
  <2>3. Reached(r, LastId + 1, batch) /\ IsFcn(r[1])
    BY <1>1, <1>4, <2>2, CommitReached DEF Reached
  <2>4. \A id \in D : id < LastId + 1
    <3>1. \A id \in D : id \in Nat /\ id <= LastId
      BY <1>1, LastIdFacts DEF BatchOK
    <3> QED BY <3>1, LastIdFacts
  <2>5. /\ last_commit'.failed = r[2] /\ DOMAIN last_commit'.builds = D
        /\ \A id \in D : /\ last_commit'.builds[id] = batch.bufs[id].staged
                         /\ last_commit'.before[id] = Runs(scripts, id)
                         /\ last_commit'.after[id] = Runs(r[1], id)
    BY <2>1
  <2>6. r[2] # NoneFailed => r[2] \in D
    BY <2>3 DEF Reached
  <2>7. \A id \in D : Runs(r[1], id) = IF r[2] = NoneFailed \/ id < r[2]
                                       THEN {batch.bufs[id].staged} ELSE Runs(scripts, id)
    BY <2>3, <2>4 DEF Reached
  <2>8. CommitIsPrefix'
    BY <2>5, <2>6, <2>7 DEF CommitIsPrefix
  <2>9. Sound(scripts') /\ IsFcn(scripts')
    BY <2>1, <2>3 DEF Reached
  <2> QED BY <1>2, <2>8, <2>9 DEF CommitInv
<1> QED BY <1>3, <1>4

\* An update of a single script is no commit of a batch.
LEMMA ApplyOK ==
  ASSUME CommitInv, NEW u, Apply(u)
  PROVE  CommitInv'
<1>1. PICK done : TryApply(u, done)
  BY DEF Apply
<1>2. CASE UNCHANGED scripts
  BY <1>1, <1>2, CommitIdle DEF TryApply
<1>3. ASSUME NEW b \in Load(pending[u].frags), NEW r \in ReplaceResults(scripts, Target(u), b), scripts' = r[1]
      PROVE  CommitInv'
  <2>1. b \in Asts
    BY DEF Load
  <2>2. Sound(r[1]) /\ IsFcn(r[1])
    BY <2>1, ReplaceSound, ReplaceRuns DEF CommitInv
  <2> QED BY <1>1, <1>3, <2>2 DEF TryApply, CommitInv, CommitIsPrefix
<1> QED BY <1>1, <1>2, <1>3 DEF TryApply

\* Every step keeps the invariant of the commits.
LEMMA CommitStep == CommitInv /\ [Next]_otaVars => CommitInv'
<1> SUFFICES ASSUME CommitInv, [Next]_otaVars PROVE CommitInv'
  OBVIOUS
<1>1. CASE SingleStep
  <2>1. ASSUME NEW u \in Updates, NEW b \in BuildsOf(u),
               Broadcast(u, b) \/ \E s \in 0 .. Chunks(u) - 1 : ChunkArrives(u, b, s)
        PROVE  UNCHANGED <<scripts, multi_batches, last_commit>>
    BY <2>1 DEF Broadcast, ChunkArrives, ReceiveChunk, updateVars
  <2>2. ASSUME NEW u \in Updates, Announced(u) \/ SessionEnds(u) PROVE UNCHANGED <<scripts, multi_batches, last_commit>>
    BY <2>2 DEF Announced, StartUpdate, SessionEnds, updateVars
  <2>3. ASSUME (\E a \in acks : AckArrives(a)) \/ (\E u \in Updates, c \in Clients \ {Me} : OthersAnswer(u, c)) \/ Cleanup
        PROVE  UNCHANGED <<scripts, multi_batches, last_commit>>
    BY <2>3 DEF AckArrives, OthersAnswer, Cleanup, updateVars
  <2>4. ASSUME Purge, UNCHANGED scripts PROVE UNCHANGED <<scripts, multi_batches, last_commit>>
    BY <2>4 DEF Purge
  <2> QED BY <1>1, <2>1, <2>2, <2>3, <2>4, CommitIdle, ElapseOK, ApplyOK DEF SingleStep
<1>2. CASE MultiStep
  <2>1. ASSUME NEW u \in Batches, TryCommit(u) PROVE CommitInv'
    BY <2>1, TryCommitOK
  <2>2. ASSUME NEW u \in Batches, NEW D \in SUBSET Ids \ {{}}, NEW totals \in [D -> 0 .. 2], StartBatch(u, totals), UNCHANGED scripts
        PROVE  CommitInv'
    BY <2>2, StartBatchOK
  <2>3. ASSUME NEW u \in Batches, NEW id \in Ids, NEW b \in Asts, NEW s, ReceiveFragment(u, id, s, b), UNCHANGED scripts
        PROVE  CommitInv'
    BY <2>3, ReceiveFragmentOK
  <2>4. ASSUME PurgeMulti, UNCHANGED scripts PROVE CommitInv'
    <3>1. \A u \in DOMAIN multi_batches' : BatchOK(multi_batches'[u])
      BY <2>4 DEF PurgeMulti, CommitInv
    <3> QED BY <2>4, <3>1, BatchesChange DEF PurgeMulti
  <2> QED BY <1>2, <2>1, <2>2, <2>3, <2>4, ElapseOK DEF MultiStep
<1>3. CASE AssetStep
  BY <1>3, CommitIdle DEF AssetStep, updateVars
<1>4. CASE UNCHANGED otaVars
  BY <1>4, CommitIdle DEF otaVars
<1> QED BY <1>1, <1>2, <1>3, <1>4 DEF Next

\* HotUpdateManager::try_commit: for any set of scripts and batches, and whatever
\* fragments are lost, repeated and reordered, a commit that succeeds has put all
\* of its batch on the batch's builds, and one that fails exactly the scripts with
\* ids below the failed one's, while that one and those above run what they ran.
THEOREM CommitsArePrefixes == Spec => []CommitIsPrefix
<1>1. CommitInv => CommitIsPrefix
  BY DEF CommitInv
<1> QED BY <1>1, CommitInit, CommitStep, PTL DEF Spec

\* HotUpdateManager on the ScriptManager: updates and commits, the failed ones too,
\* never leave a script id with two instances.
THEOREM UpdatesKeepIdsUnique == Spec => []OneInstancePerId
<1>1. CommitInv => OneInstancePerId
  BY DEF CommitInv, Sound, OneInstancePerId
<1> QED BY <1>1, CommitInit, CommitStep, PTL DEF Spec

-----------------------------------------------------------------------------
(* AssetOta *)

\* The size of the downloads under way.
Total(d) == MapThenSumSet(LAMBDA i : d[i] * SizeOf(i), Items)

\* What each download under way takes of the budget.
Weights(d) == [i \in Items |-> d[i] * SizeOf(i)]

\* There are finitely many downloads.
LEMMA ItemsFinite == IsFiniteSet(Items)
<1>1. PICK n \in Assets : \A m \in Assets : m <= n
  BY AssetOtaConstants
<1>2. n \in Int /\ Assets \in SUBSET (1 .. n)
  BY <1>1, AssetOtaConstants
<1>3. IsFiniteSet(Assets) /\ IsFiniteSet(AssetVersions)
  <2>1. IsFiniteSet(1 .. n)
    BY <1>2, FS_Interval
  <2> QED BY <1>2, <2>1, FS_Subset, AssetOtaConstants
<1>4. IsFiniteSet(Assets \X AssetVersions)
  BY <1>3, FS_Product
<1> DEFINE f == [p \in Assets \X AssetVersions |-> [id |-> p[1], version |-> p[2]]]
<1>5. f \in Surjection(Assets \X AssetVersions, Items)
  <2>1. f \in [Assets \X AssetVersions -> Items]
    BY DEF Items
  <2>2. ASSUME NEW i \in Items PROVE \E p \in Assets \X AssetVersions : f[p] = i
    <3>1. i = [id |-> i.id, version |-> i.version] /\ <<i.id, i.version>> \in Assets \X AssetVersions
      BY DEF Items
    <3>2. f[<<i.id, i.version>>] = i
      BY <3>1
    <3> QED BY <3>1, <3>2
  <2> HIDE DEF f
  <2> QED BY <2>1, <2>2 DEF Surjection
<1> QED BY <1>4, <1>5, FS_Surjection

\* The size of the downloads under way is a sum over all items.
LEMMA TotalIsSum ==
  ASSUME NEW d \in [Items -> Nat]
  PROVE  Weights(d) \in [Items -> Nat] /\ \E h : SumEquation(Weights(d), Items, h) /\ Total(d) = h[Items]
<1> DEFINE E(h) == h = [s \in SUBSET Items |-> IF s = {} THEN 0 ELSE d[One(s)] * SizeOf(One(s)) + h[s \ {One(s)}]]
<1>1. Weights(d) \in [Items -> Nat]
  <2>1. \A i \in Items : d[i] \in Nat /\ SizeOf(i) \in Nat
    BY AssetOtaConstants
  <2> QED BY <2>1 DEF Weights
<1>2. \A s \in SUBSET Items : s # {} => Weights(d)[One(s)] = d[One(s)] * SizeOf(One(s))
  BY DEF Weights, One
<1>3. ASSUME NEW h PROVE E(h) <=> SumEquation(Weights(d), Items, h)
  <2> DEFINE a(s) == IF s = {} THEN 0 ELSE d[One(s)] * SizeOf(One(s)) + h[s \ {One(s)}]
             b(s) == IF s = {} THEN 0 ELSE Weights(d)[One(s)] + h[s \ {One(s)}]
  <2>1. \A s \in SUBSET Items : a(s) = b(s)
    BY <1>2
  <2>2. E(h) <=> h = [s \in SUBSET Items |-> a(s)]
    OBVIOUS
  <2>3. SumEquation(Weights(d), Items, h) <=> h = [s \in SUBSET Items |-> b(s)]
    BY Zenon DEF SumEquation
  <2> HIDE DEF E, a, b
  <2>4. [s \in SUBSET Items |-> a(s)] = [s \in SUBSET Items |-> b(s)]
    BY <2>1
  <2> QED BY <2>2, <2>3, <2>4
<1>4. Total(d) = (CHOOSE h : E(h))[Items]
  BY Zenon DEF Total, MapThenSumSet, MapThenFoldSet, One
<1>5. PICK g : SumEquation(Weights(d), Items, g)
  BY <1>1, ItemsFinite, SumExists
<1> HIDE DEF E
<1>6. E(CHOOSE h : E(h))
  BY <1>3, <1>5, Zenon
<1> QED BY <1>1, <1>3, <1>4, <1>6, Zenon

\* The sum is 0 when nothing is under way and grows with each download by its size.
LEMMA TotalFacts ==
  ASSUME NEW d \in [Items -> Nat]
  PROVE  /\ Total(d) \in Nat
         /\ (\A i \in Items : d[i] = 0) => Total(d) = 0
         /\ \A i \in Items : Total([d EXCEPT ![i] = @ + 1]) = Total(d) + SizeOf(i)
<1>1. PICK h : SumEquation(Weights(d), Items, h) /\ Total(d) = h[Items]
  BY TotalIsSum
<1>2. Weights(d) \in [Items -> Nat] /\ IsFiniteSet(Items)
  BY TotalIsSum, ItemsFinite
<1>3. Total(d) \in Nat
  BY <1>1, <1>2, SumIsNat
<1>4. ASSUME \A i \in Items : d[i] = 0 PROVE Total(d) = 0
  <2>1. \A i \in Items : Weights(d)[i] = 0
    BY <1>4, AssetOtaConstants DEF Weights
  <2> QED BY <1>1, <1>2, <2>1, SumOfZeros
<1>5. ASSUME NEW i \in Items PROVE Total([d EXCEPT ![i] = @ + 1]) = Total(d) + SizeOf(i)
  <2> DEFINE e == [d EXCEPT ![i] = @ + 1]
             w == Weights(d)
             v == Weights(e)
  <2>1. e \in [Items -> Nat] /\ e[i] = d[i] + 1 /\ \A x \in Items : x # i => e[x] = d[x]
    OBVIOUS
  <2> HIDE DEF e
  <2>2. PICK g : SumEquation(Weights(e), Items, g) /\ Total(e) = g[Items]
    BY <2>1, TotalIsSum
  <2>3. Weights(e) \in [Items -> Nat]
    BY <2>1, TotalIsSum
  <2>4. SizeOf(i) \in Nat /\ d[i] \in Nat
    BY AssetOtaConstants
  <2>5. v[i] = w[i] + SizeOf(i)
    <3>1. (d[i] + 1) * SizeOf(i) = d[i] * SizeOf(i) + SizeOf(i)
      BY <2>4
    <3> QED BY <2>1, <3>1 DEF Weights
  <2>6. \A x \in Items : x # i => v[x] = w[x]
    BY <2>1 DEF Weights
  <2>7. w \in [Items -> Nat] /\ v \in [Items -> Nat] /\ SumEquation(w, Items, h) /\ SumEquation(v, Items, g)
    BY <1>1, <1>2, <2>2, <2>3
  <2> HIDE DEF w, v
  <2>8. \A s \in SUBSET Items : g[s] = h[s] + (IF i \in s THEN SizeOf(i) ELSE 0)
    BY <1>2, <2>4, <2>5, <2>6, <2>7, SumMoves
  <2>9. g[Items] = h[Items] + SizeOf(i)
    BY <2>8
  <2> QED BY <1>1, <2>2, <2>9 DEF e
<1> QED BY <1>3, <1>4, <1>5

\* The entries of a manifest are downloads.
LEMMA ItemsOfType ==
  ASSUME NEW newer \in Manifests, NEW S \in SUBSET DOMAIN newer, NEW p
  PROVE  ItemsOf(newer, S, p) \in Seq(Items)
<1> DEFINE last == CHOOSE n \in Assets : \A m \in Assets : m <= n
           item(a) == [id |-> a, version |-> newer[a]]
           K == {a \in S : PriorityOf(item(a)) = p}
           row == [a \in 1 .. last |-> a]
           ids == Selected(row, K)
<1>1. last \in Assets /\ \A m \in Assets : m <= last
  BY AssetOtaConstants
<1>2. last \in Nat /\ Assets \subseteq 1 .. last
  <2> HIDE DEF last
  <2>1. Assets \subseteq Nat \ {0}
    BY AssetOtaConstants
  <2> QED BY <1>1, <2>1
<1>3. DOMAIN newer \subseteq Assets /\ \A a \in DOMAIN newer : newer[a] \in AssetVersions
  BY DEF Manifests
<1> HIDE DEF last
<1>4. row \in Seq(1 .. last) /\ DOMAIN row = 1 .. last /\ \A a \in 1 .. last : row[a] = a
  BY <1>2
<1>5. K \in SUBSET (1 .. last) /\ K \subseteq S
  BY <1>2, <1>3
<1>6. ItemsOf(newer, S, p) = [n \in 1 .. Len(ids) |-> item(ids[n])]
  BY DEF ItemsOf, last
<1> HIDE DEF row, K
<1>7. ids \in Seq(1 .. last) /\ \E at : ReadsOff(ids, row, K, at)
  BY <1>4, <1>5, SelectedFacts
<1> HIDE DEF ids
<1>8. PICK at : ReadsOff(ids, row, K, at)
  BY <1>7
<1>9. ASSUME NEW n \in 1 .. Len(ids) PROVE item(ids[n]) \in Items
  <2>1. n \in DOMAIN ids
    BY <1>7
  <2>2. at[n] \in K /\ ids[n] = row[at[n]]
    BY <1>8, <2>1 DEF ReadsOff
  <2>3. ids[n] \in S
    BY <1>4, <1>5, <2>2
  <2> QED BY <1>3, <2>3 DEF Items
<1>10. Len(ids) \in Nat
  BY <1>7
<1> QED BY <1>6, <1>9, <1>10

Queues == [1 .. 2 -> Seq(Items)]

\* The inductive invariant: the queue holds items, and the counter is the size
\* of the downloads under way.
DownloadInv ==
  /\ download_queue \in Queues
  /\ downloading \in [Items -> Nat]
  /\ in_progress_bytes = Total(downloading) /\ in_progress_bytes <= OTA_MEMORY_BUDGET

\* What next_batch has reached: the bytes, the batch and the downloads.
Stands == [bytes : Nat, batch : SUBSET Nat, downloading : [Items -> Nat]]

\* One item further on the walk of next_batch.
Onwards(w, item, n) ==
  IF Fits(w.bytes, item)
  THEN [bytes |-> w.bytes + SizeOf(item), batch |-> w.batch \cup {n},
        downloading |-> [w.downloading EXCEPT ![item] = @ + 1]]
  ELSE w

\* Where the walk may stand.
StandOK(w) == w \in Stands /\ w.bytes = Total(w.downloading) /\ w.bytes <= OTA_MEMORY_BUDGET

\* next_batch takes a download only if it fits what is left of the budget.
LEMMA OnwardsOK ==
  ASSUME NEW w \in Stands, NEW item \in Items, NEW n \in Nat
  PROVE  Onwards(w, item, n) \in Stands /\ (StandOK(w) => StandOK(Onwards(w, item, n)))
<1>1. CASE ~ Fits(w.bytes, item)
  BY <1>1 DEF Onwards
<1>2. CASE Fits(w.bytes, item)
  <2> DEFINE d == w.downloading
             e == [d EXCEPT ![item] = @ + 1]
             x == Onwards(w, item, n)
  <2>1. w.bytes \in Nat /\ w.batch \in SUBSET Nat /\ d \in [Items -> Nat] /\ SizeOf(item) \in Nat
    BY AssetOtaConstants DEF Stands
  <2>2. x = [bytes |-> w.bytes + SizeOf(item), batch |-> w.batch \cup {n}, downloading |-> e]
    BY <1>2 DEF Onwards
  <2> HIDE DEF d, x
  <2>3. e \in [Items -> Nat] /\ Total(e) = Total(d) + SizeOf(item)
    <3>1. e \in [Items -> Nat]
      BY <2>1
    <3>2. \A i \in Items : Total([d EXCEPT ![i] = @ + 1]) = Total(d) + SizeOf(i)
      BY <2>1, TotalFacts
    <3> QED BY <3>1, <3>2
  <2> HIDE DEF e
  <2>4. x \in Stands /\ x.bytes = w.bytes + SizeOf(item) /\ x.downloading = e
    BY <2>1, <2>2, <2>3 DEF Stands
  <2>5. w.bytes = Total(d) => x.bytes = Total(x.downloading)
    BY <2>3, <2>4
  <2>6. x.bytes <= OTA_MEMORY_BUDGET
    BY <1>2, <2>4 DEF Fits
  <2> QED BY <2>4, <2>5, <2>6 DEF StandOK, d, x
<1> QED BY <1>1, <1>2

\* The walk over the queued downloads, one by one.
WalkEquation(all, h) ==
  h = [n \in 0 .. Len(all) |->
         IF n = 0 THEN [bytes |-> in_progress_bytes, batch |-> {}, downloading |-> downloading]
         ELSE LET w == h[n - 1]
              IN  IF Fits(w.bytes, all[n])
                  THEN [bytes |-> w.bytes + SizeOf(all[n]), batch |-> w.batch \cup {n},
                        downloading |-> [w.downloading EXCEPT ![all[n]] = @ + 1]]
                  ELSE w]

\* next_batch keeps the downloads within the budget.
LEMMA NextBatchOK ==
  ASSUME DownloadInv, NextBatch
  PROVE  DownloadInv'
<1> DEFINE all == download_queue[1] \o download_queue[2]
           N == Len(all)
           base == [bytes |-> in_progress_bytes, batch |-> {}, downloading |-> downloading]
           next == [n \in 1 .. N |-> [w \in Stands |-> Onwards(w, all[n], n)]]
           walk == CHOOSE h : WalkEquation(all, h)
           end == walk[N]
           left(from, q) == Selected(q, {n \in DOMAIN q : from + n \notin end.batch})
<1>1. download_queue[1] \in Seq(Items) /\ download_queue[2] \in Seq(Items)
  BY DEF DownloadInv, Queues
<1>2. all \in Seq(Items) /\ N \in Nat /\ \A n \in 1 .. N : all[n] \in Items
  <2>1. all \in Seq(Items)
    BY <1>1
  <2> HIDE DEF all
  <2> QED BY <2>1
<1>3. StandOK(base)
  <2>1. in_progress_bytes \in Nat /\ downloading \in [Items -> Nat]
    BY TotalFacts DEF DownloadInv
  <2> QED BY <2>1 DEF StandOK, Stands, DownloadInv
<1>4. in_progress_bytes' = end.bytes /\ downloading' = end.downloading
      /\ download_queue' = [p \in 1 .. 2 |-> IF p = 1 THEN left(0, download_queue[1])
                                             ELSE left(Len(download_queue[1]), download_queue[2])]
  BY Zenon DEF NextBatch, WalkEquation
<1> HIDE DEF all, N, base, walk
<1>5. next \in Steps(N, Stands)
  <2>1. ASSUME NEW n \in 1 .. N, NEW w \in Stands PROVE Onwards(w, all[n], n) \in Stands
    BY <1>2, OnwardsOK
  <2> QED BY <2>1 DEF Steps
<1>6. PICK g : Stepwise(g, N, Stands, base, next)
  <2>1. base \in Stands
    BY <1>3 DEF StandOK
  <2> HIDE DEF next
  <2> QED BY <1>2, <1>5, <2>1, StepwiseExists
<1>7. WalkEquation(all, g)
  <2>1. ASSUME NEW n \in 0 .. N PROVE g[n] = IF n = 0 THEN base ELSE Onwards(g[n - 1], all[n], n)
    <3>1. CASE n = 0
      BY <1>6, <3>1 DEF Stepwise
    <3>2. CASE n # 0
      <4>1. n \in 1 .. N /\ n - 1 \in 0 .. N
        BY <1>2, <3>2
      <4>2. g[n - 1] \in Stands /\ g[n] = next[n][g[n - 1]]
        <5> HIDE DEF next
        <5> QED BY <1>6, <4>1 DEF Stepwise
      <4>3. next[n] = [w \in Stands |-> Onwards(w, all[n], n)]
        BY <4>1
      <4> HIDE DEF next
      <4>4. g[n] = Onwards(g[n - 1], all[n], n)
        BY <4>2, <4>3
      <4> QED BY <3>2, <4>4
    <3> QED BY <3>1, <3>2
  <2>2. g = [n \in 0 .. N |-> g[n]]
    <3> HIDE DEF next
    <3> QED BY <1>6 DEF Stepwise
  <2>3. g = [n \in 0 .. N |-> IF n = 0 THEN base ELSE Onwards(g[n - 1], all[n], n)]
    BY <2>1, <2>2
  <2> QED BY <2>3, Zenon DEF WalkEquation, Onwards, base, N
<1>8. WalkEquation(all, walk)
  BY <1>7, Zenon DEF walk
<1>9. ASSUME NEW n \in 0 .. N PROVE walk[n] = IF n = 0 THEN base ELSE Onwards(walk[n - 1], all[n], n)
  BY <1>8, Zenon DEF WalkEquation, Onwards, base, N
<1> DEFINE S == {n \in Nat : n <= N => StandOK(walk[n])}
<1>10. 0 \in S
  <2>1. 0 \in 0 .. N
    BY <1>2
  <2> QED BY <1>3, <1>9, <2>1
<1>11. ASSUME NEW n \in S PROVE n + 1 \in S
  <2> SUFFICES ASSUME n + 1 <= N PROVE StandOK(walk[n + 1])
    OBVIOUS
  <2>1. n + 1 \in 0 .. N /\ n + 1 \in 1 .. N /\ n + 1 # 0 /\ (n + 1) - 1 = n /\ n <= N /\ n + 1 \in Nat
    BY <1>2
  <2>2. StandOK(walk[n])
    BY <2>1
  <2>3. walk[n + 1] = IF n + 1 = 0 THEN base ELSE Onwards(walk[(n + 1) - 1], all[n + 1], n + 1)
    <3> HIDE DEF S
    <3> QED BY <1>9, <2>1
  <2>4. walk[n + 1] = Onwards(walk[n], all[n + 1], n + 1)
    BY <2>1, <2>3
  <2>5. walk[n] \in Stands /\ all[n + 1] \in Items
    BY <1>2, <2>1, <2>2 DEF StandOK
  <2> HIDE DEF S
  <2> QED BY <2>1, <2>2, <2>4, <2>5, OnwardsOK
<1>12. S = Nat
  <2>1. S \in SUBSET Nat
    OBVIOUS
  <2> HIDE DEF S
  <2> QED BY <1>10, <1>11, <2>1, InductionOnSet
<1>13. StandOK(end)
  <2>1. N \in S
    <3> HIDE DEF S
    <3> QED BY <1>2, <1>12
  <2> QED BY <1>2, <2>1
<1> HIDE DEF end
<1>14. \A from, q : q \in Seq(Items) => left(from, q) \in Seq(Items)
  <2> SUFFICES ASSUME NEW from, NEW q \in Seq(Items) PROVE left(from, q) \in Seq(Items)
    OBVIOUS
  <2>1. {n \in DOMAIN q : from + n \notin end.batch} \in SUBSET DOMAIN q
    OBVIOUS
  <2> QED BY <2>1, SelectedFacts
<1>15. download_queue' \in Queues
  <2> HIDE DEF left
  <2> QED BY <1>1, <1>4, <1>14 DEF Queues
<1> QED BY <1>4, <1>13, <1>15 DEF DownloadInv, StandOK, Stands

\* Every step keeps the invariant of the downloads.
LEMMA DownloadStep == DownloadInv /\ [Next]_otaVars => DownloadInv'
<1> SUFFICES ASSUME DownloadInv, [Next]_otaVars PROVE DownloadInv'
  OBVIOUS
<1>1. ASSUME UNCHANGED <<download_queue, in_progress_bytes, downloading>> PROVE DownloadInv'
  BY <1>1 DEF DownloadInv
<1>2. ASSUME NEW m \in Manifests, ScheduleUpdate(m) PROVE DownloadInv'
  <2> DEFINE more(p) == download_queue[p] \o ItemsOf(m, Added(m), p) \o ItemsOf(m, Changed(m), p)
  <2>1. download_queue' = [p \in 1 .. 2 |-> more(p)] /\ UNCHANGED <<in_progress_bytes, downloading>>
    BY <1>2 DEF ScheduleUpdate
  <2>2. Added(m) \in SUBSET DOMAIN m /\ Changed(m) \in SUBSET DOMAIN m
    BY DEF Added, Changed
  <2>3. ASSUME NEW p \in 1 .. 2 PROVE more(p) \in Seq(Items)
    <3>1. ItemsOf(m, Added(m), p) \in Seq(Items) /\ ItemsOf(m, Changed(m), p) \in Seq(Items)
      BY <2>2, ItemsOfType
    <3>2. download_queue[p] \in Seq(Items)
      BY DEF DownloadInv, Queues
    <3> QED BY <3>1, <3>2
  <2> HIDE DEF more
  <2>4. download_queue' \in Queues
    BY <2>1, <2>3 DEF Queues
  <2> QED BY <2>1, <2>4 DEF DownloadInv
<1>3. ASSUME NEW i \in Items, CompleteItem(i) PROVE DownloadInv'
  <2> DEFINE e == [downloading EXCEPT ![i] = @ - 1]
  <2>1. downloading[i] \in Nat /\ downloading[i] > 0 /\ SizeOf(i) \in Nat
    BY <1>3, AssetOtaConstants DEF CompleteItem, DownloadInv
  <2>2. e \in [Items -> Nat] /\ downloading = [e EXCEPT ![i] = @ + 1]
    <3>1. downloading \in [Items -> Nat]
      BY DEF DownloadInv
    <3>2. e \in [Items -> Nat] /\ e[i] = downloading[i] - 1 /\ \A x \in Items : x # i => e[x] = downloading[x]
      BY <2>1, <3>1
    <3> HIDE DEF e
    <3>3. \A x \in Items : downloading[x] = [e EXCEPT ![i] = @ + 1][x]
      BY <2>1, <3>2
    <3>4. [e EXCEPT ![i] = @ + 1] \in [Items -> Nat]
      BY <3>2
    <3> DEFINE f == [e EXCEPT ![i] = @ + 1]
    <3> HIDE DEF f
    <3>5. downloading = f
      BY <3>1, <3>3, <3>4 DEF f
    <3> QED BY <3>2, <3>5 DEF f
  <2>3. downloading' = e /\ download_queue' = download_queue
    BY <1>3 DEF CompleteItem
  <2> HIDE DEF e
  <2>4. Total(downloading) = Total(e) + SizeOf(i) /\ Total(e) \in Nat
    BY <2>2, TotalFacts
  <2>5. in_progress_bytes' = in_progress_bytes - SizeOf(i)
    BY <1>3, <2>1, <2>4 DEF CompleteItem, DownloadInv
  <2>6. in_progress_bytes' = Total(e) /\ in_progress_bytes' <= OTA_MEMORY_BUDGET
    BY <2>1, <2>4, <2>5, AssetOtaConstants DEF DownloadInv
  <2> QED BY <2>2, <2>3, <2>6 DEF DownloadInv
<1>4. CASE SingleStep \/ MultiStep \/ UNCHANGED otaVars
  BY <1>1, <1>4 DEF SingleStep, MultiStep, assetVars, otaVars
<1>5. CASE AssetStep
  <2>1. ASSUME NEW m, ApplyManifest(m) PROVE DownloadInv'
    BY <1>1, <2>1 DEF ApplyManifest
  <2> QED BY <1>2, <1>3, <1>5, <2>1, NextBatchOK DEF AssetStep, AssetNext
<1> QED BY <1>4, <1>5 DEF Next

\* OtaManager: for every budget, every set of assets and all their sizes, the
\* downloads under way fit the budget and in_progress_bytes is exactly their size,
\* however manifests, batches and completions interleave.
THEOREM BudgetIsKept == Spec => []DownloadsWithinBudget
<1>1. Init => DownloadInv
  <2> SUFFICES ASSUME Init PROVE DownloadInv
    OBVIOUS
  <2>1. /\ download_queue = [p \in 1 .. 2 |-> << >>] /\ in_progress_bytes = 0
        /\ downloading = [i \in Items |-> 0]
    BY DEF Init, AssetInit
  <2>2. downloading \in [Items -> Nat] /\ \A i \in Items : downloading[i] = 0
    BY <2>1
  <2>3. Total(downloading) = 0
    BY <2>2, TotalFacts
  <2>4. download_queue \in Queues
    BY <2>1 DEF Queues
  <2> QED BY <2>1, <2>2, <2>3, <2>4, AssetOtaConstants DEF DownloadInv
<1>2. DownloadInv => DownloadsWithinBudget
  BY Zenon DEF DownloadInv, DownloadsWithinBudget, Total
<1> QED BY <1>1, <1>2, DownloadStep, PTL DEF Spec
=============================================================================
