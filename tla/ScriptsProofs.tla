--------------------------- MODULE ScriptsProofs ----------------------------
(***************************************************************************)
(* Proofs about the script manager, for every set of ids, priorities and   *)
(* builds, whatever hooks they define, and every threshold and budget: the *)
(* types, that an id has one instance, and that a script disabled for      *)
(* timeouts has earned it.                                                 *)
(***************************************************************************)
EXTENDS Scripts, TLAPS

\* The counter never runs ahead of the streak it stands for and stays below
\* the threshold while the script runs; a script disabled for timeouts has a
\* full streak.
CountSound(m) ==
  /\ m.errs <= m.streak
  /\ m.state \notin Disabled => m.errs < AUTO_DISABLE_THRESHOLD
  /\ m.state = "Timeout" => m.streak >= AUTO_DISABLE_THRESHOLD

\* A map of scripts as every operation finds and leaves it.
Sound(f) ==
  /\ DOMAIN f \subseteq Keys
  /\ \A k \in DOMAIN f : f[k] \in Managed /\ CountSound(f[k])
  /\ \A j, k \in DOMAIN f : j[2] = k[2] => j = k

Hooks  == {"on_event", "on_input", "on_tick"}
Frames == [work : Seq(Hooks), todo : SUBSET Keys, budget : Int]

IInv == Sound(scripts) /\ frame \in Frames

-----------------------------------------------------------------------------
(* One script *)

\* What a lifecycle call can return.
LEMMA CallFacts ==
  ASSUME NEW m, NEW hook, NEW r \in CallResults(m, hook)
  PROVE  r[1] \in {"ok", "limit", "scope", "runtime"} /\ r[3] \in {0, 1}
<1>1. \/ r \in {"limit", "runtime"} \X {FALSE} \X {0}
      \/ r \in {"ok", "limit", "scope", "runtime"} \X {TRUE} \X {0, 1}
      \/ r = <<"ok", FALSE, 0>>
  BY Zenon DEF CallResults
<1>2. CASE r \in {"limit", "runtime"} \X {FALSE} \X {0}
  BY <1>2
<1>3. CASE r \in {"ok", "limit", "scope", "runtime"} \X {TRUE} \X {0, 1}
  BY <1>3
<1>4. CASE r = <<"ok", FALSE, 0>>
  BY <1>4
<1> QED BY <1>1, <1>2, <1>3, <1>4

\* A key is determined by its two parts.
LEMMA KeyFacts ==
  /\ \A k \in Keys : k[1] \in Priorities /\ k[2] \in Ids /\ k = <<k[1], k[2]>>
  /\ \A p \in Priorities, id \in Ids : <<p, id>> \in Keys /\ <<p, id>>[1] = p /\ <<p, id>>[2] = id
BY DEF Keys

\* The states and outcomes that the operations assign are of the right kind.
LEMMA Outcomes ==
  /\ \A res : LoadedState(res) \in {"Active", "InitFailed", "ScopeLimitExceeded"}
  /\ \A res : Ended(res) \in {"failed", "ok"}
BY DEF LoadedState, Ended

\* load_scripts installs sound scripts.
LEMMA FreshSound ==
  ASSUME NEW ast \in Asts
  PROVE  Fresh(ast) \in Managed /\ CountSound(Fresh(ast))
<1>1. Fresh(ast) \in Managed
  BY ScriptsAssumption DEF Fresh, Managed, Disabled
<1>2. CountSound(Fresh(ast))
  BY ScriptsAssumption DEF Fresh, CountSound, Disabled
<1> QED BY <1>1, <1>2

\* So does load_script, whatever its on_init does.
LEMMA LoadedSound ==
  ASSUME NEW ast \in Asts, NEW st \in {"Active", "InitFailed", "ScopeLimitExceeded"},
         NEW o \in {"failed", "ok"}
  PROVE  LET m == [Fresh(ast) EXCEPT !.state = st, !.initialized = TRUE, !.on_init = o]
         IN  m \in Managed /\ CountSound(m)
<1> DEFINE m == [Fresh(ast) EXCEPT !.state = st, !.initialized = TRUE, !.on_init = o]
<1>1. Fresh(ast) \in Managed /\ st \in {"Active"} \cup Disabled
  BY FreshSound DEF Disabled
<1>2. m \in Managed
  BY <1>1 DEF Managed
<1>3. m.errs = 0 /\ m.streak = 0 /\ m.state = st
  BY DEF Fresh
<1> HIDE DEF m
<1>4. CountSound(m)
  BY <1>3, ScriptsAssumption DEF CountSound
<1>5. m \in Managed /\ CountSound(m)
  BY <1>2, <1>4
<1> QED BY <1>5 DEF m

\* replace_script, when the new on_init passes, leaves a sound script.
LEMMA ReplacedSound ==
  ASSUME NEW m \in Managed, NEW ast \in Asts
  PROVE  Replaced(m, ast) \in Managed /\ CountSound(Replaced(m, ast))
<1>1. 0 \in 0 .. AUTO_DISABLE_THRESHOLD /\ 0 < AUTO_DISABLE_THRESHOLD
  BY ScriptsAssumption
<1>2. Replaced(m, ast) \in Managed
  BY <1>1 DEF Replaced, Managed
<1>3. /\ Replaced(m, ast).errs = 0 /\ Replaced(m, ast).streak = 0
      /\ Replaced(m, ast).state = "Active"
  BY DEF Replaced, Managed
<1>4. CountSound(Replaced(m, ast))
  BY <1>1, <1>3 DEF CountSound
<1> QED BY <1>2, <1>4

\* So does its rollback.
LEMMA RolledBackSound ==
  ASSUME NEW m \in Managed, CountSound(m), NEW res
  PROVE  RolledBack(m, res) \in Managed /\ CountSound(RolledBack(m, res))
<1>1. RolledBack(m, res) \in Managed
  BY Outcomes DEF RolledBack, Managed
<1>2. CountSound(RolledBack(m, res))
  BY DEF RolledBack, Managed, CountSound
<1> QED BY <1>1, <1>2

\* Booking a call changes the counters and the state, and nothing else.
LEMMA BookedSound ==
  ASSUME NEW m \in Managed, NEW e \in 0 .. AUTO_DISABLE_THRESHOLD,
         NEW s \in 0 .. AUTO_DISABLE_THRESHOLD, NEW st \in {"Active"} \cup Disabled,
         e <= s, st \notin Disabled => e < AUTO_DISABLE_THRESHOLD,
         st = "Timeout" => s >= AUTO_DISABLE_THRESHOLD, NEW n,
         n = [m EXCEPT !.errs = e, !.streak = s, !.state = st]
  PROVE  n \in Managed /\ CountSound(n)
<1>1. n \in Managed
  BY DEF Managed
<1>2. n.errs = e /\ n.streak = s /\ n.state = st
  BY DEF Managed
<1>3. CountSound(n)
  BY <1>2 DEF CountSound
<1> QED BY <1>1, <1>3

\* A callback error books at most one more limit error and disables at the threshold.
LEMMA ErrorSound ==
  ASSUME NEW m \in Managed, CountSound(m), m.state \notin Disabled,
         NEW res \in {"limit", "scope", "runtime"}
  PROVE  AfterError(m, res) \in Managed /\ CountSound(AfterError(m, res))
<1>0. /\ m.errs \in 0 .. AUTO_DISABLE_THRESHOLD /\ m.streak \in 0 .. AUTO_DISABLE_THRESHOLD
      /\ m.state \in {"Active"} \cup Disabled
      /\ m.errs <= m.streak /\ m.errs < AUTO_DISABLE_THRESHOLD
  BY DEF Managed, CountSound
<1>1. CASE res = "limit"
  <2> DEFINE e  == m.errs + 1
             s  == AtMost(m.streak + 1)
             st == IF m.errs + 1 >= AUTO_DISABLE_THRESHOLD THEN "Timeout" ELSE m.state
  <2>1. AfterError(m, res) = [m EXCEPT !.errs = e, !.streak = s, !.state = st]
    BY <1>1 DEF AfterError
  <2>2. /\ e \in 0 .. AUTO_DISABLE_THRESHOLD /\ s \in 0 .. AUTO_DISABLE_THRESHOLD /\ e <= s
        /\ e >= AUTO_DISABLE_THRESHOLD => s >= AUTO_DISABLE_THRESHOLD
    BY <1>0, ScriptsAssumption DEF AtMost
  <2>3. /\ st \in {"Active"} \cup Disabled
        /\ st \notin Disabled => e < AUTO_DISABLE_THRESHOLD
        /\ st = "Timeout" => s >= AUTO_DISABLE_THRESHOLD
    BY <1>0, <2>2, ScriptsAssumption DEF Disabled
  <2> HIDE DEF e, s, st
  <2> QED BY <2>1, <2>2, <2>3, BookedSound
<1>2. CASE res = "scope"
  <2> DEFINE st == "ScopeLimitExceeded"
  <2>1. AfterError(m, res) = [m EXCEPT !.errs = m.errs, !.streak = m.streak, !.state = st]
    BY <1>2 DEF AfterError, Managed
  <2>2. st \in Disabled /\ st \in {"Active"} \cup Disabled /\ st # "Timeout"
    BY DEF Disabled
  <2>3. m.errs <= m.streak /\ (st \notin Disabled => m.errs < AUTO_DISABLE_THRESHOLD)
        /\ (st = "Timeout" => m.streak >= AUTO_DISABLE_THRESHOLD)
    BY <1>0, <2>2
  <2>4. m.errs \in 0 .. AUTO_DISABLE_THRESHOLD /\ m.streak \in 0 .. AUTO_DISABLE_THRESHOLD
    BY <1>0
  <2> HIDE DEF st
  <2> QED BY <2>1, <2>2, <2>3, <2>4, BookedSound
<1>3. CASE res = "runtime"
  BY <1>3 DEF AfterError
<1> QED BY <1>1, <1>2, <1>3

\* A successful call resets the counter; the streak only if the hook ran.
LEMMA OkSound ==
  ASSUME NEW m \in Managed, CountSound(m), m.state \notin Disabled, NEW ran
  PROVE  LET n == [m EXCEPT !.errs = 0, !.streak = IF ran THEN 0 ELSE @]
         IN  n \in Managed /\ CountSound(n)
<1> DEFINE s == IF ran THEN 0 ELSE m.streak
           n == [m EXCEPT !.errs = 0, !.streak = s]
<1>1. s \in 0 .. AUTO_DISABLE_THRESHOLD /\ 0 <= s /\ m.state \in {"Active"} \cup Disabled
  BY ScriptsAssumption DEF Managed
<1>2. n = [m EXCEPT !.errs = 0, !.streak = s, !.state = m.state]
  BY DEF Managed
<1>3. m.state # "Timeout" /\ 0 < AUTO_DISABLE_THRESHOLD /\ 0 \in 0 .. AUTO_DISABLE_THRESHOLD
  BY ScriptsAssumption DEF Disabled
<1>4. n \in Managed /\ CountSound(n)
  <2> HIDE DEF n, s
  <2> QED BY <1>1, <1>2, <1>3, BookedSound
<1> QED BY <1>4

-----------------------------------------------------------------------------
(* The map *)

\* Changing one script of a sound map keeps it sound.
LEMMA ExceptSound ==
  ASSUME NEW f, Sound(f), NEW k \in DOMAIN f, NEW m \in Managed, CountSound(m)
  PROVE  Sound([f EXCEPT ![k] = m])
BY DEF Sound

\* replace_script on a sound map.
LEMMA ReplaceSound ==
  ASSUME NEW f, Sound(f), NEW id, NEW ast \in Asts, NEW r \in ReplaceResults(f, id, ast)
  PROVE  Sound(r[1])
<1> DEFINE ks == {k \in DOMAIN f : k[2] = id}
<1>1. CASE ks = {}
  <2>1. r = <<f, FALSE>>
    BY <1>1 DEF ReplaceResults
  <2> QED BY <2>1
<1>2. CASE ks # {}
  <2> DEFINE k == CHOOSE j \in ks : TRUE
  <2>1. k \in ks
    BY <1>2
  <2>2. f[k] \in Managed /\ CountSound(f[k])
    BY <2>1 DEF Sound
  <2>3. \/ r = <<[f EXCEPT ![k] = Replaced(@, ast)], TRUE>>
        \/ \E a \in CallResults(Fresh(f[k].ast), "on_init") :
             r = <<[f EXCEPT ![k] = RolledBack(@, a[1])], FALSE>>
    BY <1>2 DEF ReplaceResults
  <2>4. CASE r = <<[f EXCEPT ![k] = Replaced(@, ast)], TRUE>>
    <3>1. r[1] = [f EXCEPT ![k] = Replaced(f[k], ast)]
      BY <2>4
    <3>2. Replaced(f[k], ast) \in Managed /\ CountSound(Replaced(f[k], ast))
      BY <2>2, ReplacedSound
    <3> HIDE DEF k
    <3> QED BY <3>1, <3>2, <2>1, ExceptSound
  <2>5. ASSUME NEW a, r = <<[f EXCEPT ![k] = RolledBack(@, a[1])], FALSE>>
        PROVE  Sound(r[1])
    <3>1. r[1] = [f EXCEPT ![k] = RolledBack(f[k], a[1])]
      BY <2>5
    <3>2. RolledBack(f[k], a[1]) \in Managed /\ CountSound(RolledBack(f[k], a[1]))
      BY <2>2, RolledBackSound
    <3> HIDE DEF k
    <3> QED BY <3>1, <3>2, <2>1, ExceptSound
  <2> QED BY <2>3, <2>4, <2>5
<1> QED BY <1>1, <1>2

-----------------------------------------------------------------------------
(* The steps *)

\* ScriptManager::new
LEMMA ScriptsInitSound == ScriptsInit => IInv
<1> SUFFICES ASSUME ScriptsInit PROVE IInv
  OBVIOUS
<1>1. Sound(scripts)
  BY DEF ScriptsInit, Sound
<1>2. frame \in Frames
  BY DEF ScriptsInit, Idle, Frames
<1> QED BY <1>1, <1>2 DEF IInv

\* load_script
LEMMA LoadStep ==
  ASSUME IInv, NEW id \in Ids, NEW ast \in Asts, NEW p \in Priorities, LoadScript(id, ast, p)
  PROVE  IInv'
<1>1. PICK r \in CallResults(Fresh(ast), "on_init") :
        scripts' = Insert(WithoutId(id), <<p, id>>,
                          [Fresh(ast) EXCEPT !.state = LoadedState(r[1]), !.initialized = TRUE,
                                             !.on_init = Ended(r[1])])
  BY DEF LoadScript
<1> DEFINE m == [Fresh(ast) EXCEPT !.state = LoadedState(r[1]), !.initialized = TRUE,
                                   !.on_init = Ended(r[1])]
           k0 == <<p, id>>
<1>2. m \in Managed /\ CountSound(m)
  <2>1. /\ LoadedState(r[1]) \in {"Active", "InitFailed", "ScopeLimitExceeded"}
        /\ Ended(r[1]) \in {"failed", "ok"}
    BY Outcomes
  <2> QED BY <2>1, LoadedSound
<1>3. /\ DOMAIN scripts' = {j \in DOMAIN scripts : j[2] # id} \cup {k0}
      /\ \A j \in DOMAIN scripts' : scripts'[j] = IF j = k0 THEN m ELSE scripts[j]
  <2> HIDE DEF m
  <2> QED BY <1>1 DEF Insert, WithoutId, m
<1>4. k0 \in Keys /\ k0[2] = id
  BY KeyFacts
<1> HIDE DEF m, k0
<1>5. Sound(scripts')
  BY <1>2, <1>3, <1>4 DEF IInv, Sound
<1> QED BY <1>5 DEF IInv, LoadScript

\* load_scripts
LEMMA LoadAllStep ==
  ASSUME IInv, NEW D \in SUBSET Ids, NEW new \in [D -> Priorities \X Asts], LoadScripts(new)
  PROVE  IInv'
<1> DEFINE key(id) == <<new[id][1], id>>
<1>1. \A id \in D : /\ key(id) \in Keys /\ key(id)[2] = id
                    /\ new[id][2] \in Asts
  BY KeyFacts
<1>2. /\ DOMAIN scripts' = {j \in DOMAIN scripts : j[2] \notin D} \cup {key(id) : id \in D}
      /\ \A k \in DOMAIN scripts' :
           scripts'[k] = IF k[2] \in D THEN Fresh(new[k[2]][2]) ELSE scripts[k]
  BY DEF LoadScripts
<1> HIDE DEF key
<1>3. \A k \in DOMAIN scripts' : scripts'[k] \in Managed /\ CountSound(scripts'[k])
  BY <1>1, <1>2, FreshSound DEF IInv, Sound
<1>4. Sound(scripts')
  BY <1>1, <1>2, <1>3 DEF IInv, Sound
<1> QED BY <1>4 DEF IInv, LoadScripts

\* run_frame lines up hooks to dispatch.
LEMMA RunFrameStep ==
  ASSUME IInv, NEW e \in Nat, NEW i \in Nat, NEW b \in Nat, RunFrame(e, i, b)
  PROVE  IInv'
<1>1. /\ [n \in 1 .. e |-> "on_event"] \in Seq(Hooks)
      /\ [n \in 1 .. i |-> "on_input"] \in Seq(Hooks)
      /\ <<"on_tick">> \in Seq(Hooks)
  BY DEF Hooks
<1>2. [n \in 1 .. e |-> "on_event"] \o [n \in 1 .. i |-> "on_input"] \o <<"on_tick">> \in Seq(Hooks)
  BY <1>1
<1>3. DOMAIN scripts \in SUBSET Keys
  BY DEF IInv, Sound
<1> DEFINE w == [n \in 1 .. e |-> "on_event"] \o [n \in 1 .. i |-> "on_input"] \o <<"on_tick">>
<1>4. frame' = [work |-> w, todo |-> DOMAIN scripts, budget |-> b] /\ scripts' = scripts
  BY DEF RunFrame
<1> HIDE DEF w
<1>5. frame' \in Frames
  BY <1>2, <1>3, <1>4 DEF Frames, w
<1> QED BY <1>4, <1>5 DEF IInv

\* A script is called during a frame.
LEMMA CallStep ==
  ASSUME IInv, CallScript
  PROVE  IInv'
<1>0. PICK k \in DOMAIN scripts :
        /\ NextKey(k) /\ ~ Skipped(scripts[k])
        /\ \E r \in CallResults(scripts[k], Head(frame.work)) :
             LET m == [scripts[k] EXCEPT !.initialized = TRUE]
             IN  /\ scripts' = [scripts EXCEPT ![k] =
                      IF r[1] = "ok"
                      THEN [m EXCEPT !.errs = 0, !.streak = IF r[2] THEN 0 ELSE @]
                      ELSE AfterError(m, r[1])]
                 /\ frame' = [frame EXCEPT !.todo = @ \ {k}, !.budget = @ - r[3]]
  BY DEF CallScript
<1>1. PICK r \in CallResults(scripts[k], Head(frame.work)) :
        LET m == [scripts[k] EXCEPT !.initialized = TRUE]
        IN  /\ scripts' = [scripts EXCEPT ![k] =
                 IF r[1] = "ok"
                 THEN [m EXCEPT !.errs = 0, !.streak = IF r[2] THEN 0 ELSE @]
                 ELSE AfterError(m, r[1])]
            /\ frame' = [frame EXCEPT !.todo = @ \ {k}, !.budget = @ - r[3]]
  BY <1>0
<1> DEFINE m == [scripts[k] EXCEPT !.initialized = TRUE]
           n == IF r[1] = "ok" THEN [m EXCEPT !.errs = 0, !.streak = IF r[2] THEN 0 ELSE @]
                               ELSE AfterError(m, r[1])
<1>2. m \in Managed /\ CountSound(m) /\ m.state \notin Disabled
  BY <1>0 DEF IInv, Sound, Managed, CountSound, Skipped
<1>3. r[1] \in {"ok", "limit", "scope", "runtime"} /\ r[3] \in {0, 1}
  BY CallFacts
<1>4. n \in Managed /\ CountSound(n)
  <2> HIDE DEF m
  <2>1. CASE r[1] = "ok"
    BY <2>1, <1>2, <1>3, OkSound
  <2>2. CASE r[1] # "ok"
    BY <2>2, <1>2, <1>3, ErrorSound
  <2> QED BY <2>1, <2>2
<1>5. scripts' = [scripts EXCEPT ![k] = n]
  BY <1>1
<1> HIDE DEF n
<1>6. Sound(scripts')
  BY <1>4, <1>5, ExceptSound DEF IInv
<1>7. frame' \in Frames
  <2>1. frame' = [frame EXCEPT !.todo = @ \ {k}, !.budget = @ - r[3]]
    BY <1>1
  <2>2. /\ frame.todo \ {k} \in SUBSET Keys /\ frame.budget - r[3] \in Int
    BY <1>3 DEF IInv, Frames
  <2> QED BY <2>1, <2>2 DEF IInv, Frames
<1> QED BY <1>6, <1>7 DEF IInv

\* Every operation preserves the invariant.
LEMMA ScriptsStep == IInv /\ [ScriptsNext]_scriptVars => IInv'
<1> SUFFICES ASSUME IInv, [ScriptsNext]_scriptVars PROVE IInv'
  OBVIOUS
<1>1. ASSUME NEW id \in Ids, NEW ast \in Asts, NEW p \in Priorities, LoadScript(id, ast, p)
      PROVE  IInv'
  BY <1>1, LoadStep
<1>2. ASSUME NEW D \in SUBSET Ids, NEW new \in [D -> Priorities \X Asts], LoadScripts(new)
      PROVE  IInv'
  BY <1>2, LoadAllStep
<1>3. ASSUME NEW id \in Ids, UnloadScript(id) PROVE IInv'
  <2>1. Sound(scripts')
    BY <1>3 DEF UnloadScript, WithoutId, IInv, Sound
  <2> QED BY <1>3, <2>1 DEF UnloadScript, IInv
<1>4. ASSUME NEW id \in Ids, NEW ast \in Asts, ReplaceScript(id, ast) PROVE IInv'
  <2>1. Sound(scripts')
    BY <1>4, ReplaceSound DEF ReplaceScript, IInv
  <2> QED BY <1>4, <2>1 DEF ReplaceScript, IInv
<1>5. ASSUME NEW e \in 0 .. MaxDispatch, NEW i \in 0 .. MaxDispatch, NEW b \in 0 .. FRAME_BUDGET,
             RunFrame(e, i, b)
      PROVE  IInv'
  BY <1>5, RunFrameStep, ScriptsAssumption
<1>6. CASE SkipScript
  BY <1>6 DEF SkipScript, IInv, Frames
<1>7. CASE BudgetSpent
  BY <1>7 DEF BudgetSpent, IInv, Frames
<1>8. CASE CallScript
  BY <1>8, CallStep
<1>9. CASE NextDispatch
  <2>1. Idle \in Frames
    BY DEF Idle, Frames
  <2>2. Tail(frame.work) \in Seq(Hooks)
    BY <1>9 DEF NextDispatch, IInv, Frames
  <2>3. DOMAIN scripts \in SUBSET Keys
    BY DEF IInv, Sound
  <2>4. [frame EXCEPT !.work = Tail(@), !.todo = DOMAIN scripts] \in Frames
    BY <2>2, <2>3 DEF IInv, Frames
  <2> QED BY <1>9, <2>1, <2>4 DEF NextDispatch, IInv
<1>10. CASE UNCHANGED scriptVars
  BY <1>10 DEF scriptVars, IInv
<1> QED BY <1>1, <1>2, <1>3, <1>4, <1>5, <1>6, <1>7, <1>8, <1>9, <1>10 DEF ScriptsNext

-----------------------------------------------------------------------------
(* Theorems *)

\* The script map and the frame are well typed whatever the scripts do; in
\* particular the error counter of script_manager.rs never exceeds its threshold.
THEOREM ScriptsTypeCorrect == ScriptsSpec => []ScriptsTypeOK
<1>1. IInv => ScriptsTypeOK
  BY DEF IInv, Sound, ScriptsTypeOK, Frames, Hooks
<1> QED BY <1>1, ScriptsInitSound, ScriptsStep, PTL DEF ScriptsSpec

\* No sequence of loads, bulk loads, replacements and unloads leaves an id with
\* two instances, although the map is keyed by priority as well.
THEOREM IdsStayUnique == ScriptsSpec => []OneInstancePerId
<1>1. IInv => OneInstancePerId
  BY DEF IInv, Sound, OneInstancePerId
<1> QED BY <1>1, ScriptsInitSound, ScriptsStep, PTL DEF ScriptsSpec

\* A script that handle_callback_error_by_key has disabled for timeouts has hit
\* its limits AUTO_DISABLE_THRESHOLD times in a row.
THEOREM TimeoutsAreEarned == ScriptsSpec => []AutoDisableSound
<1>1. IInv => AutoDisableSound
  BY DEF IInv, Sound, CountSound, AutoDisableSound
<1> QED BY <1>1, ScriptsInitSound, ScriptsStep, PTL DEF ScriptsSpec
=============================================================================
