------------------------------ MODULE Verdicts -------------------------------
(***************************************************************************)
(* What the server makes of the hashes and shadow results it gets:         *)
(* HashChecker and ReplaySampler (server/validator/src) and CheatDetector  *)
(* (server/anti_cheat/src/rules.rs); and HashValidator, the client's view  *)
(* of the same comparisons (engine/netcode/src/hash_validation.rs).        *)
(***************************************************************************)
EXTENDS Integers, Sequences, FiniteSetsExt

CONSTANTS
  Thresholds,             \* values of suspicious_threshold, 0 switches upgrades off
  SUSPICIOUS_THRESHOLD,   \* the client's
  Accounts,               \* sessions of the cheat detector and the sampler
  Rates,                  \* values of sample_rate, 0 switches sampling off
  Roll(_),                \* n-th number of the sampler's RNG
  MaxLog, MaxMismatches, MaxRolls   \* bounds of the model

\* suspicious_threshold is a u32, SUSPICIOUS_THRESHOLD the u64 constant 3.
ASSUME ThresholdAssumption == Thresholds \subseteq Nat /\ SUSPICIOUS_THRESHOLD \in Nat

VARIABLES
  threshold,     \* suspicious_threshold
  mismatches,    \* mismatch_counts of the client, 0 if it has no entry
  suspicious,    \* is the client in suspicious_clients
  passes, fails, \* pass_count, fail_count
  consecutive,   \* HashValidator: consecutive_mismatches
  total,         \* HashValidator: mismatch_count
  answers,       \* auxiliary: the last results of check and validate
  log,           \* auxiliary: comparisons and resets so far
  records,       \* CheatDetector: session -> [count, status]
  action,        \* auxiliary: session -> last CheatAction
  rate, rolls, full, \* ReplaySampler: sample_rate, numbers drawn, full_validation_sessions
  decided        \* auxiliary: sequence of [session, sampled, full]

hashVars    == <<threshold, mismatches, suspicious, passes, fails, consecutive, total, answers, log>>
cheatVars   == <<records, action>>
samplerVars == <<rate, rolls, full, decided>>
verdictVars == <<hashVars, cheatVars, samplerVars>>

VerdictInit ==
  /\ threshold \in Thresholds
  /\ mismatches = 0 /\ suspicious = FALSE /\ passes = 0 /\ fails = 0
  /\ consecutive = 0 /\ total = 0
  /\ answers = [check |-> "none", validate |-> "none"]
  /\ log = <<>>
  /\ records = [s \in {} |-> 0]
  /\ action = [s \in Accounts |-> "None"]
  /\ rate \in Rates /\ rolls = 0 /\ full = {} /\ decided = <<>>

-----------------------------------------------------------------------------
(* Hash comparisons: one report of the client, seen by both sides. *)

\* A check that upgrades again with every mismatch past the threshold.
CheckResult_Mut(n) == IF n >= threshold THEN "SuspiciousUpgrade" ELSE "Mismatch"

\* check: the upgrade comes with the threshold-th mismatch only.
CheckResult(n) == IF n = threshold THEN "SuspiciousUpgrade" ELSE "Mismatch"

ValidateResult(n) == IF n >= SUSPICIOUS_THRESHOLD THEN "Suspicious" ELSE "Mismatch"

\* HashChecker::check and HashValidator::validate of equal hashes: only the
\* client forgets its mismatches.
Match ==
  /\ Len(log) < MaxLog
  /\ passes' = passes + 1
  /\ consecutive' = 0
  /\ answers' = [check |-> "Match", validate |-> "Match"]
  /\ log' = Append(log, "match")
  /\ UNCHANGED <<threshold, mismatches, suspicious, fails, total>>

\* The same two calls with different hashes.
Mismatch ==
  /\ Len(log) < MaxLog
  /\ fails' = fails + 1 /\ total' = total + 1
  /\ mismatches' = mismatches + 1
  /\ suspicious' = (suspicious \/ CheckResult(mismatches + 1) = "SuspiciousUpgrade")
  /\ consecutive' = consecutive + 1
  /\ answers' = [check |-> CheckResult(mismatches + 1), validate |-> ValidateResult(consecutive + 1)]
  /\ log' = Append(log, "miss")
  /\ UNCHANGED <<threshold, passes>>

\* reset_client, after a reconnect or a hard sync.
ResetClient ==
  /\ Len(log) < MaxLog
  /\ mismatches' = 0 /\ suspicious' = FALSE
  /\ log' = Append(log, "reset_client")
  /\ UNCHANGED <<threshold, passes, fails, consecutive, total, answers>>

ResetConsecutive ==
  /\ Len(log) < MaxLog
  /\ consecutive' = 0
  /\ log' = Append(log, "reset_consecutive")
  /\ UNCHANGED <<threshold, mismatches, suspicious, passes, fails, total, answers>>

HashNext == Match \/ Mismatch \/ ResetClient \/ ResetConsecutive

HashSpec == VerdictInit /\ [][HashNext]_hashVars

-----------------------------------------------------------------------------
(* CheatDetector. *)

\* The verdict for the n-th mismatch, and the status it leaves a record in.
Verdict(n) ==
  CASE n >= 6 -> [action |-> "Disconnect", status |-> "Disconnected"]
    [] n \in 3 .. 5 -> [action |-> "Flag", status |-> "Flagged"]
    [] n = 2 -> [action |-> "Resync", status |-> "Warned"]
    [] OTHER -> [action |-> "None", status |-> "Clean"]

\* A detector that takes a good result for a new start.
OnShadowOk_Mut(s) ==
  /\ action' = [action EXCEPT ![s] = "None"]
  /\ records' = [t \in DOMAIN records |-> IF t = s THEN [count |-> 1, status |-> "Clean"] ELSE records[t]]

\* on_shadow_result(AllMatch) and on_shadow_result(Error) change no record.
OnShadowOk(s) ==
  /\ action' = [action EXCEPT ![s] = "None"]
  /\ UNCHANGED records

\* on_shadow_result(Mismatch); the record is created if there is none, also
\* when the result comes after remove_session.
OnShadowMismatch(s) ==
  LET n == IF s \in DOMAIN records THEN records[s].count + 1 ELSE 1
  IN  /\ n <= MaxMismatches
      /\ records' = [t \in DOMAIN records \cup {s} |->
                       IF t = s THEN [count |-> n, status |-> Verdict(n).status] ELSE records[t]]
      /\ action' = [action EXCEPT ![s] = Verdict(n).action]

\* remove_session, when the player leaves.
ForgetAccount(s) ==
  /\ s \in DOMAIN records
  /\ records' = [t \in DOMAIN records \ {s} |-> records[t]]
  /\ action' = [action EXCEPT ![s] = "None"]

CheatNext == \E s \in Accounts : OnShadowOk(s) \/ OnShadowMismatch(s) \/ ForgetAccount(s)

CheatSpec == VerdictInit /\ [][CheatNext]_cheatVars

-----------------------------------------------------------------------------
(* ReplaySampler. *)

\* A sampler that draws no number for a session it validates anyway.
ShouldValidate_Mut(s) ==
  /\ Len(decided) < MaxRolls
  /\ rolls' = IF s \in full THEN rolls ELSE rolls + 1
  /\ decided' = Append(decided, [session |-> s, full |-> s \in full,
                                 sampled |-> s \in full \/ (rate # 0 /\ Roll(rolls) % rate = 0)])
  /\ UNCHANGED <<rate, full>>

\* should_validate: the number is drawn before anything is decided.
ShouldValidate(s) ==
  /\ Len(decided) < MaxRolls
  /\ rolls' = rolls + 1
  /\ decided' = Append(decided, [session |-> s, full |-> s \in full,
                                 sampled |-> s \in full \/ (rate # 0 /\ Roll(rolls) % rate = 0)])
  /\ UNCHANGED <<rate, full>>

UpgradeToFullValidation(s) == full' = full \cup {s} /\ UNCHANGED <<rate, rolls, decided>>

SamplerNext == \E s \in Accounts : ShouldValidate(s) \/ UpgradeToFullValidation(s)

SamplerSpec == VerdictInit /\ [][SamplerNext]_samplerVars

-----------------------------------------------------------------------------
\* The mismatches that no entry of resets follows, and how many they are.
MissesAfter(resets) ==
  {i \in DOMAIN log : log[i] = "miss" /\ \A j \in DOMAIN log : j > i => log[j] \notin resets}

Unforgiven == Cardinality(MissesAfter({"reset_client"}))

InARow == Cardinality(MissesAfter({"match", "reset_consecutive"}))

\* Whatever matches and resets came in between: the server marks the client
\* exactly when the mismatches since its last reset reached a threshold that is
\* not 0, a match clears nothing, and the upgrade is announced for one mismatch
\* only; the client calls itself suspicious exactly when that many comparisons
\* in a row failed since it last reset.
SuspicionMatchesHistory ==
  /\ suspicious = (threshold > 0 /\ Unforgiven >= threshold)
  /\ log # <<>> /\ log[Len(log)] = "miss" =>
       /\ (answers.check = "SuspiciousUpgrade") = (threshold > 0 /\ Unforgiven = threshold)
       /\ (answers.validate = "Suspicious") = (InARow >= SUSPICIOUS_THRESHOLD)

Rank(status) == CASE status = "Clean" -> 0 [] status = "Warned" -> 1
                  [] status = "Flagged" -> 2 [] status = "Disconnected" -> 3

Severity(a) == CASE a = "None" -> 0 [] a = "Resync" -> 1 [] a = "Flag" -> 2 [] a = "Disconnect" -> 3

\* Within the life of a record the detector never takes anything back: the
\* status only rises, no good or failed result hides a mismatch, and a further
\* mismatch is never answered more mildly than the status already reached.
EscalationOnlyRises ==
  [][\A s \in DOMAIN records \cap DOMAIN records' :
       /\ Rank(records'[s].status) >= Rank(records[s].status)
       /\ records'[s].count >= records[s].count
       /\ records'[s].count > records[s].count => Severity(action'[s]) >= Rank(records[s].status)]_cheatVars

\* The n-th question is decided by the n-th number of the RNG, whichever
\* sessions were upgraded in the meantime: an upgrade does not shift what is
\* sampled of the other sessions.
SamplingUndisturbed ==
  \A i \in DOMAIN decided :
    decided[i].sampled = (decided[i].full \/ (rate # 0 /\ Roll(i - 1) % rate = 0))
=============================================================================
