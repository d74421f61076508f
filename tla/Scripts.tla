------------------------------ MODULE Scripts -------------------------------
(***************************************************************************)
(* ScriptManager (engine/vm_runtime/src/script_manager.rs) and the         *)
(* lifecycle calls of its ScriptInstances (lifecycle.rs).  scripts is a    *)
(* BTreeMap from (priority, script id) to the managed script; a frame      *)
(* walks it once per event, once per input and once for on_tick, and the   *)
(* walk is one action per script.  Nothing else runs during a frame.       *)
(*                                                                         *)
(* Scripts are arbitrary, so the outcome of a hook that runs is a choice:  *)
(* "ok", "limit" (Timeout or OperationLimit), "scope" (ScopeLimitExceeded) *)
(* or "runtime".  Error values and the tick they are labelled with are     *)
(* only reported to the caller and are left out.                           *)
(***************************************************************************)
EXTENDS Integers, Sequences

CONSTANTS
  Ids,                     \* ScriptIds, numbered in their order
  Priorities,              \* u8; 0 runs first
  Asts,                    \* compiled scripts
  Defines(_),              \* the hooks a compiled script defines
  AUTO_DISABLE_THRESHOLD,  \* 10 in the code
  FRAME_BUDGET,            \* the frame budget, in units of what a hook may use up
  MaxDispatch              \* bound of the model: events, and inputs, per frame

ASSUME ScriptsAssumption ==
  /\ Ids \subseteq Nat /\ Priorities \subseteq Nat
  /\ AUTO_DISABLE_THRESHOLD \in Nat \ {0}
  /\ FRAME_BUDGET \in Nat /\ MaxDispatch \in Nat

VARIABLES
  scripts,   \* <<priority, id>> -> managed script
  frame      \* the dispatches left of the current frame, the keys left of the first, the budget

scriptVars == <<scripts, frame>>

Keys == Priorities \X Ids

\* ScriptState without Initializing, which nothing assigns.
Disabled == {"InitFailed", "ScopeLimitExceeded", "Timeout"}

\* initialized is the instance's flag; on_init (how the call for the installed
\* AST ended) and streak (limit errors since a hook last ran to its end) are
\* auxiliary.
Managed == [ast : Asts, state : {"Active"} \cup Disabled, errs : 0 .. AUTO_DISABLE_THRESHOLD,
            initialized : BOOLEAN, on_init : {"never", "failed", "ok"},
            streak : 0 .. AUTO_DISABLE_THRESHOLD]

ScriptsTypeOK ==
  /\ DOMAIN scripts \subseteq Keys
  /\ \A k \in DOMAIN scripts : scripts[k] \in Managed
  /\ frame.work \in Seq({"on_event", "on_input", "on_tick"})
  /\ frame.todo \subseteq Keys
  /\ frame.budget \in Int

Idle == [work |-> << >>, todo |-> {}, budget |-> 0]

ScriptsInit == scripts = [k \in {} |-> {}] /\ frame = Idle

-----------------------------------------------------------------------------
\* call_lifecycle_fn: what a call of hook on instance m may return, whether the
\* hook itself ran, and the time taken from the budget.  The top level of a
\* fresh AST is evaluated first and may fail on its own; a hook the script
\* does not define is Ok.
CallResults(m, hook) ==
  (IF m.initialized THEN {} ELSE {"limit", "runtime"} \X {FALSE} \X {0})
  \cup
  (IF hook \in Defines(m.ast) THEN {"ok", "limit", "scope", "runtime"} \X {TRUE} \X {0, 1}
                              ELSE {<<"ok", FALSE, 0>>})

Ended(res) == IF res = "ok" THEN "ok" ELSE "failed"

Fresh(ast) == [ast |-> ast, state |-> "Active", errs |-> 0,
               initialized |-> FALSE, on_init |-> "never", streak |-> 0]

\* Loading without removing the instance of the same id under another priority.
WithoutId_Mut(id) == scripts

\* retain(|(_, sid), _| sid != id)
WithoutId(id) == [k \in {j \in DOMAIN scripts : j[2] # id} |-> scripts[k]]

Insert(f, k, m) == [j \in DOMAIN f \cup {k} |-> IF j = k THEN m ELSE f[j]]

\* The state load_script gives a script after its on_init.
LoadedState(res) ==
  CASE res = "ok" -> "Active" [] res = "scope" -> "ScopeLimitExceeded" [] OTHER -> "InitFailed"

LoadScript(id, ast, priority) ==
  /\ frame = Idle
  /\ \E r \in CallResults(Fresh(ast), "on_init") :
       scripts' = Insert(WithoutId(id), <<priority, id>>,
                         [Fresh(ast) EXCEPT !.state = LoadedState(r[1]), !.initialized = TRUE,
                                            !.on_init = Ended(r[1])])
  /\ UNCHANGED frame

\* load_scripts: the decoded instances become Active without on_init.  new maps
\* the ids of the batch to <<priority, AST>>; of two entries for one id the
\* sort keeps the later one.  A bytecode that does not load aborts the batch.
LoadScripts(new) ==
  /\ frame = Idle
  /\ scripts' = [k \in {j \in DOMAIN scripts : j[2] \notin DOMAIN new}
                       \cup {<<new[id][1], id>> : id \in DOMAIN new} |->
                   IF k[2] \in DOMAIN new THEN Fresh(new[k[2]][2]) ELSE scripts[k]]
  /\ UNCHANGED frame

\* unload_script: errors of on_unload do not prevent it.
UnloadScript(id) ==
  /\ frame = Idle
  /\ \E k \in DOMAIN scripts : k[2] = id
  /\ scripts' = WithoutId(id)
  /\ UNCHANGED frame

\* replace_script once the new AST's on_init has passed.
Replaced(m, ast) ==
  [m EXCEPT !.ast = ast, !.state = "Active", !.errs = 0, !.initialized = TRUE,
            !.on_init = "ok", !.streak = 0]

\* replace_script after a failed on_init: the old AST in a fresh scope, its
\* on_init run again; neither the state nor the error counter is touched.
RolledBack(m, again) == [m EXCEPT !.initialized = TRUE, !.on_init = Ended(again)]

\* What replace_script(id, ast) may leave of f, and whether it returned Ok.
ReplaceResults(f, id, ast) ==
  LET ks == {k \in DOMAIN f : k[2] = id}
  IN  IF ks = {} THEN {<<f, FALSE>>}
      ELSE LET k == CHOOSE j \in ks : TRUE
           IN  UNION {IF r[1] = "ok" THEN {<<[f EXCEPT ![k] = Replaced(@, ast)], TRUE>>}
                      ELSE {<<[f EXCEPT ![k] = RolledBack(@, a[1])], FALSE>> :
                              a \in CallResults(Fresh(f[k].ast), "on_init")}
                      : r \in CallResults(Fresh(ast), "on_init")}

ReplaceScript(id, ast) ==
  /\ frame = Idle
  /\ \E r \in ReplaceResults(scripts, id, ast) : scripts' = r[1]
  /\ UNCHANGED frame

-----------------------------------------------------------------------------
\* run_frame with a caller's budget: the dispatches it will make, in order.
RunFrame(events, inputs, budget) ==
  /\ frame = Idle
  /\ frame' = [work   |-> [i \in 1 .. events |-> "on_event"] \o [i \in 1 .. inputs |-> "on_input"]
                          \o <<"on_tick">>,
               todo   |-> DOMAIN scripts,
               budget |-> budget]
  /\ UNCHANGED scripts

\* BTreeMap order
Before(j, k) == j[1] < k[1] \/ (j[1] = k[1] /\ j[2] < k[2])

NextKey(k) == k \in frame.todo /\ \A j \in frame.todo \ {k} : Before(k, j)

Skipped(m) == m.state \in Disabled

\* A disabled script is passed over before the budget is looked at.
SkipScript ==
  /\ \E k \in DOMAIN scripts : NextKey(k) /\ Skipped(scripts[k]) /\ frame' = [frame EXCEPT !.todo = @ \ {k}]
  /\ UNCHANGED scripts

\* An empty budget ends this dispatch.
BudgetSpent ==
  /\ frame.budget <= 0
  /\ \E k \in DOMAIN scripts : NextKey(k) /\ ~ Skipped(scripts[k])
  /\ frame' = [frame EXCEPT !.todo = {}]
  /\ UNCHANGED scripts

AtMost(n) == IF n < AUTO_DISABLE_THRESHOLD THEN n ELSE AUTO_DISABLE_THRESHOLD

\* A counter that any error advances.
AfterError_Mut(m, res) ==
  [m EXCEPT !.errs = @ + 1, !.streak = IF res = "limit" THEN AtMost(@ + 1) ELSE @,
            !.state = IF m.errs + 1 >= AUTO_DISABLE_THRESHOLD THEN "Timeout" ELSE @]

\* A threshold that is passed instead of reached.
AfterError_Late(m, res) ==
  IF res # "limit" THEN m
  ELSE [m EXCEPT !.errs = @ + 1, !.streak = AtMost(@ + 1),
                 !.state = IF m.errs + 1 > AUTO_DISABLE_THRESHOLD THEN "Timeout" ELSE @]

\* handle_callback_error_by_key; BudgetExhausted cannot occur here, the walk
\* has just found budget left.
AfterError(m, res) ==
  CASE res = "limit" ->
         [m EXCEPT !.errs = @ + 1, !.streak = AtMost(@ + 1),
                   !.state = IF m.errs + 1 >= AUTO_DISABLE_THRESHOLD THEN "Timeout" ELSE @]
    [] res = "scope" -> [m EXCEPT !.state = "ScopeLimitExceeded"]
    [] OTHER -> m

\* The next script's hook is called and its result is booked.
CallScript ==
  /\ frame.budget > 0
  /\ \E k \in DOMAIN scripts :
       /\ NextKey(k) /\ ~ Skipped(scripts[k])
       /\ \E r \in CallResults(scripts[k], Head(frame.work)) :
            LET m == [scripts[k] EXCEPT !.initialized = TRUE]
            IN  /\ scripts' = [scripts EXCEPT ![k] =
                     IF r[1] = "ok"
                     THEN [m EXCEPT !.errs = 0, !.streak = IF r[2] THEN 0 ELSE @]
                     ELSE AfterError(m, r[1])]
                /\ frame' = [frame EXCEPT !.todo = @ \ {k}, !.budget = @ - r[3]]

\* One walk is over: the next event, input or phase, or the end of the frame.
NextDispatch ==
  /\ frame.work # << >> /\ frame.todo = {}
  /\ frame' = IF Len(frame.work) = 1 THEN Idle
              ELSE [frame EXCEPT !.work = Tail(@), !.todo = DOMAIN scripts]
  /\ UNCHANGED scripts

ScriptsNext ==
  \/ \E id \in Ids, ast \in Asts, p \in Priorities : LoadScript(id, ast, p)
  \/ \E D \in SUBSET Ids \ {{}} : \E new \in [D -> Priorities \X Asts] : LoadScripts(new)
  \/ \E id \in Ids : UnloadScript(id) \/ \E ast \in Asts : ReplaceScript(id, ast)
  \/ \E e, i \in 0 .. MaxDispatch, b \in 0 .. FRAME_BUDGET : RunFrame(e, i, b)
  \/ SkipScript \/ BudgetSpent \/ CallScript \/ NextDispatch

ScriptsSpec == ScriptsInit /\ [][ScriptsNext]_scriptVars

-----------------------------------------------------------------------------
(* Properties *)

\* The map is keyed by priority too, yet an id never has two instances,
\* whatever loads, bulk loads and replacements it has been through.
OneInstancePerId == \A j, k \in DOMAIN scripts : j[2] = k[2] => j = k

\* Nobody is disabled for timeouts without having earned it: a script disabled
\* for "Timeout" has hit a limit AUTO_DISABLE_THRESHOLD times with no hook
\* running to its end in between, skipped frames and other errors not counted.
AutoDisableSound ==
  \A k \in DOMAIN scripts :
    scripts[k].state = "Timeout" => scripts[k].streak >= AUTO_DISABLE_THRESHOLD

\* What script_manager.rs:57-59 says of the counter (ten consecutive timeouts
\* disable a script, a successful run resets it): an active script has not
\* reached the threshold of limit errors without a hook running to its end.
AutoDisableFires ==
  \A k \in DOMAIN scripts :
    scripts[k].state = "Active" => scripts[k].streak < AUTO_DISABLE_THRESHOLD

\* What script_manager.rs:547-549 says of load_scripts (on_init runs at the
\* next run_frame): between frames, an active script whose first hook has been
\* called, so that its top level has been evaluated, has had its on_init too.
InitHasRun ==
  frame = Idle =>
    \A k \in DOMAIN scripts :
      (scripts[k].state = "Active" /\ scripts[k].initialized) => scripts[k].on_init # "never"
=============================================================================
