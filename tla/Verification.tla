---------------------------- MODULE Verification -----------------------------
(***************************************************************************)
(* The parts that decide whether what was computed is right: simulation,   *)
(* recording and playback, the verdicts over players, and the shadow VM of *)
(* the client.  No code connects them yet: part names the one whose steps  *)
(* a behaviour shows.                                                      *)
(***************************************************************************)
EXTENDS Replay, Verdicts, ShadowVm

VARIABLE part

verificationVars == <<part, replayVars, verdictVars, shadowVars>>

\* Only the part that takes steps chooses among the ways it can be created.
Init ==
  /\ part \in {"replay", "hashes", "cheats", "sampler", "shadow"}
  /\ ReplayInit /\ VerdictInit /\ ShadowInit
  /\ part = "hashes"  \/ threshold = 0
  /\ part = "sampler" \/ rate = 0
  /\ part = "replay"  \/ sim.rng = start.rng
  /\ part = "shadow"  \/ next_sample = MIN_INTERVAL

ReplayStep  == part = "replay" /\ ReplayNext /\ UNCHANGED <<part, verdictVars, shadowVars>>
HashStep    == part = "hashes" /\ HashNext /\ UNCHANGED <<part, replayVars, cheatVars, samplerVars, shadowVars>>
CheatStep   == part = "cheats" /\ CheatNext /\ UNCHANGED <<part, replayVars, hashVars, samplerVars, shadowVars>>
SamplerStep == part = "sampler" /\ SamplerNext /\ UNCHANGED <<part, replayVars, hashVars, cheatVars, shadowVars>>
OfShadow(A) == part = "shadow" /\ A /\ UNCHANGED <<part, replayVars, verdictVars>>
ShadowStep  == OfShadow(ShadowNext)

Next == ReplayStep \/ HashStep \/ CheatStep \/ SamplerStep \/ ShadowStep

\* The event loops of the browser's main thread and of the worker go on.
Fairness ==
  /\ WF_verificationVars(OfShadow(OnMessage)) /\ WF_verificationVars(OfShadow(OnError))
  /\ WF_verificationVars(OfShadow(StartRestart)) /\ WF_verificationVars(OfShadow(WorkerLoads))
  /\ WF_verificationVars(OfShadow(HandleInit)) /\ WF_verificationVars(OfShadow(HandleMessage))
  /\ WF_verificationVars(OfShadow(BrokenPanics))

Spec == Init /\ [][Next]_verificationVars /\ Fairness
=============================================================================
