------------------------ MODULE VerificationProofs --------------------------
(***************************************************************************)
(* Proofs about the parts that check results, for every value of their     *)
(* constants: the cheat detector, the hash mismatches, the replay sampler, *)
(* the players of the authoritative simulation, recording and playback,    *)
(* and what the shadow VM is sent and answers.                             *)
(***************************************************************************)
EXTENDS Replay, Verdicts, ShadowVm, ListLemmas

(* CheatDetector *)

CheatActions == {"None", "Resync", "Flag", "Disconnect"}

\* The inductive invariant: a record's status is the one of its count.
CheatInv ==
  /\ DOMAIN records \subseteq Accounts
  /\ \A s \in DOMAIN records :
       records[s].count \in Nat /\ records[s].status = Verdict(records[s].count).status
  /\ action \in [Accounts -> CheatActions]

\* More mismatches are never judged more mildly.
LEMMA VerdictRises ==
  ASSUME NEW n \in Nat
  PROVE  /\ Rank(Verdict(n + 1).status) >= Rank(Verdict(n).status)
         /\ Severity(Verdict(n + 1).action) >= Rank(Verdict(n).status)
<1>1. CASE n <= 1
  BY <1>1 DEF Verdict, Rank, Severity
<1>2. CASE n = 2
  BY <1>2 DEF Verdict, Rank, Severity
<1>3. CASE n \in 3 .. 5
  BY <1>3 DEF Verdict, Rank, Severity
<1>4. CASE n >= 6
  BY <1>4 DEF Verdict, Rank, Severity
<1> QED BY <1>1, <1>2, <1>3, <1>4

\* A verdict names one of the actions of the detector.
LEMMA VerdictActions ==
  ASSUME NEW n \in Nat
  PROVE  Verdict(n).action \in CheatActions
<1>1. CASE n <= 1
  BY <1>1 DEF Verdict, CheatActions
<1>2. CASE n = 2
  BY <1>2 DEF Verdict, CheatActions
<1>3. CASE n \in 3 .. 5
  BY <1>3 DEF Verdict, CheatActions
<1>4. CASE n >= 6
  BY <1>4 DEF Verdict, CheatActions
<1> QED BY <1>1, <1>2, <1>3, <1>4

\* Every status that a verdict leads to has a rank.
LEMMA RankIsNumber ==
  ASSUME NEW n \in Nat
  PROVE  Rank(Verdict(n).status) \in Nat
<1>1. CASE n <= 1
  BY <1>1 DEF Verdict, Rank
<1>2. CASE n = 2
  BY <1>2 DEF Verdict, Rank
<1>3. CASE n \in 3 .. 5
  BY <1>3 DEF Verdict, Rank
<1>4. CASE n >= 6
  BY <1>4 DEF Verdict, Rank
<1> QED BY <1>1, <1>2, <1>3, <1>4

\* What a step may do to the records both before and after it know.
Rises ==
  \A s \in DOMAIN records \cap DOMAIN records' :
    /\ Rank(records'[s].status) >= Rank(records[s].status)
    /\ records'[s].count >= records[s].count
    /\ records'[s].count > records[s].count => Severity(action'[s]) >= Rank(records[s].status)

\* A record that a step leaves alone has not fallen.
LEMMA UntouchedRises ==
  ASSUME CheatInv, NEW s \in DOMAIN records, records'[s] = records[s]
  PROVE  /\ Rank(records'[s].status) >= Rank(records[s].status)
         /\ records'[s].count >= records[s].count
         /\ ~ (records'[s].count > records[s].count)
<1>1. records[s].count \in Nat /\ Rank(records[s].status) \in Nat
  BY RankIsNumber DEF CheatInv
<1> QED BY <1>1

\* A mismatch never lowers a status.
LEMMA MismatchRises ==
  ASSUME CheatInv, NEW s \in Accounts, OnShadowMismatch(s)
  PROVE  CheatInv' /\ Rises
<1> DEFINE n == IF s \in DOMAIN records THEN records[s].count + 1 ELSE 1
<1>1. n \in Nat
  BY DEF CheatInv
<1>2. /\ records' = [t \in DOMAIN records \cup {s} |->
                       IF t = s THEN [count |-> n, status |-> Verdict(n).status] ELSE records[t]]
      /\ action' = [action EXCEPT ![s] = Verdict(n).action]
  BY DEF OnShadowMismatch
<1>3. Verdict(n).action \in CheatActions
  BY <1>1, VerdictActions
<1>4. action' \in [Accounts -> CheatActions] /\ action'[s] = Verdict(n).action
  BY <1>2, <1>3 DEF CheatInv
<1>5. /\ DOMAIN records' = DOMAIN records \cup {s}
      /\ records'[s].count = n /\ records'[s].status = Verdict(n).status
      /\ \A t \in DOMAIN records \ {s} : records'[t] = records[t]
  BY <1>2
<1>6. CheatInv'
  BY <1>1, <1>4, <1>5 DEF CheatInv
<1>7. ASSUME NEW t \in DOMAIN records
      PROVE  /\ Rank(records'[t].status) >= Rank(records[t].status)
             /\ records'[t].count >= records[t].count
             /\ records'[t].count > records[t].count => Severity(action'[t]) >= Rank(records[t].status)
  <2>1. CASE t # s
    BY <1>5, <2>1, UntouchedRises
  <2>2. CASE t = s
    <3>1. /\ n = records[s].count + 1 /\ records[s].count \in Nat
          /\ records[s].status = Verdict(records[s].count).status
      BY <2>2 DEF CheatInv
    <3>2. /\ Rank(Verdict(n).status) >= Rank(records[s].status)
          /\ Severity(Verdict(n).action) >= Rank(records[s].status)
      BY <3>1, VerdictRises
    <3> QED BY <1>4, <1>5, <2>2, <3>1, <3>2
  <2> QED BY <2>1, <2>2
<1> QED BY <1>6, <1>7 DEF Rises

\* Every step keeps the invariant and lowers no status.
LEMMA CheatNextOK == CheatInv /\ [CheatNext]_cheatVars => CheatInv' /\ (Rises \/ UNCHANGED cheatVars)
<1> SUFFICES ASSUME CheatInv, [CheatNext]_cheatVars PROVE CheatInv' /\ (Rises \/ UNCHANGED cheatVars)
  OBVIOUS
<1>1. ASSUME NEW s \in Accounts, OnShadowOk(s) PROVE CheatInv' /\ Rises
  <2>1. records' = records /\ action' = [action EXCEPT ![s] = "None"]
    BY <1>1 DEF OnShadowOk
  <2>2. CheatInv'
    BY <2>1 DEF CheatInv, CheatActions
  <2>3. Rises
    BY <2>1, UntouchedRises DEF Rises
  <2> QED BY <2>2, <2>3
<1>2. ASSUME NEW s \in Accounts, ForgetAccount(s) PROVE CheatInv' /\ Rises
  <2>1. /\ DOMAIN records' = DOMAIN records \ {s}
        /\ \A t \in DOMAIN records' : records'[t] = records[t]
        /\ action' = [action EXCEPT ![s] = "None"]
    BY <1>2 DEF ForgetAccount
  <2>2. CheatInv'
    BY <2>1 DEF CheatInv, CheatActions
  <2>3. Rises
    BY <2>1, UntouchedRises DEF Rises
  <2> QED BY <2>2, <2>3
<1>3. CASE UNCHANGED cheatVars
  BY <1>3 DEF cheatVars, CheatInv
<1> QED BY <1>1, <1>2, <1>3, MismatchRises DEF CheatNext

\* CheatDetector (rules.rs): for any number of mismatches and in any order of
\* results and departures, a record's status never falls, and a further
\* mismatch is never answered more mildly than the status already reached.
THEOREM DetectorNeverForgives == CheatSpec => EscalationOnlyRises
<1>1. VerdictInit => CheatInv
  BY DEF VerdictInit, CheatInv, CheatActions
<1> QED BY <1>1, CheatNextOK, PTL DEF CheatSpec, EscalationOnlyRises, Rises

-----------------------------------------------------------------------------
(* ReplaySampler *)

\* The inductive invariant: a number is drawn for every question.
SamplerInv ==
  /\ decided \in Seq([session : Accounts, full : BOOLEAN, sampled : BOOLEAN])
  /\ rolls = Len(decided)
  /\ SamplingUndisturbed

\* Every step asks the generator once, or not at all.
LEMMA SamplerNextOK == SamplerInv /\ [SamplerNext]_samplerVars => SamplerInv'
<1> SUFFICES ASSUME SamplerInv, [SamplerNext]_samplerVars PROVE SamplerInv'
  OBVIOUS
<1>1. ASSUME NEW s \in Accounts, ShouldValidate(s) PROVE SamplerInv'
  <2> DEFINE d == [session |-> s, full |-> s \in full,
                   sampled |-> s \in full \/ (rate # 0 /\ Roll(rolls) % rate = 0)]
  <2>1. decided' = Append(decided, d) /\ rolls' = rolls + 1 /\ rate' = rate
    BY <1>1 DEF ShouldValidate
  <2>2. d \in [session : Accounts, full : BOOLEAN, sampled : BOOLEAN]
    OBVIOUS
  <2>3. d.sampled = (d.full \/ (rate # 0 /\ Roll(rolls) % rate = 0))
    OBVIOUS
  <2> HIDE DEF d
  <2>4. /\ decided' \in Seq([session : Accounts, full : BOOLEAN, sampled : BOOLEAN])
        /\ Len(decided) \in Nat /\ Len(decided') = Len(decided) + 1
        /\ DOMAIN decided' = DOMAIN decided \cup {Len(decided) + 1}
        /\ decided'[Len(decided) + 1] = d
        /\ \A i \in DOMAIN decided : decided'[i] = decided[i]
    BY <2>1, <2>2 DEF SamplerInv
  <2>5. rolls = (Len(decided) + 1) - 1
    BY <2>4 DEF SamplerInv
  <2>6. SamplingUndisturbed'
    BY <2>1, <2>3, <2>4, <2>5 DEF SamplerInv, SamplingUndisturbed
  <2> QED BY <2>1, <2>4, <2>6 DEF SamplerInv
<1>2. ASSUME NEW s \in Accounts, UpgradeToFullValidation(s) PROVE SamplerInv'
  BY <1>2 DEF UpgradeToFullValidation, SamplerInv, SamplingUndisturbed
<1>3. CASE UNCHANGED samplerVars
  BY <1>3 DEF samplerVars, SamplerInv, SamplingUndisturbed
<1> QED BY <1>1, <1>2, <1>3 DEF SamplerNext

\* ReplaySampler: the n-th question is decided by the n-th number of the RNG,
\* for every generator and rate and whatever sessions were upgraded.
THEOREM UpgradesDoNotShift == SamplerSpec => []SamplingUndisturbed
<1>1. VerdictInit => SamplerInv
  BY DEF VerdictInit, SamplerInv, SamplingUndisturbed
<1>2. SamplerInv => SamplingUndisturbed
  BY DEF SamplerInv
<1> QED BY <1>1, <1>2, SamplerNextOK, PTL DEF SamplerSpec

-----------------------------------------------------------------------------
(* AuthoritativeSimulation *)

Games == [tick : Nat, frame : Nat, rng : Seeds]
Sims  == [tick : Nat, rng : Seeds, state : Games]

\* Players who joined at tick t or before.
JoinedBy(f, t) == \A p \in DOMAIN f : f[p] \in Nat /\ f[p] <= t

\* The inductive invariant: the GameSnapshot carries the simulation's own tick,
\* so that a snapshot and the players saved with it belong together.
PlayersInv ==
  /\ start \in Games
  /\ sim \in Sims /\ sim.state.tick = sim.tick
  /\ JoinedBy(members, sim.tick)
  /\ \A s \in saved : s.game \in Games /\ JoinedBy(s.members, s.game.tick)

\* AuthoritativeSimulation::new starts at the tick of its state.
LEMMA NewSimOK ==
  ASSUME NEW initial \in Games, NEW seed \in Seeds
  PROVE  NewSim(initial, seed) \in Sims /\ NewSim(initial, seed).state.tick = NewSim(initial, seed).tick
BY DEF NewSim, Games, Sims

\* Nobody has joined at first.
LEMMA PlayersInitOK == ReplayInit => PlayersInv
<1> SUFFICES ASSUME ReplayInit PROVE PlayersInv
  OBVIOUS
<1>1. start \in Games
  <2>1. start \in [tick : StartTicks, frame : {0}, rng : Seeds]
    BY DEF ReplayInit
  <2>2. /\ start = [tick |-> start.tick, frame |-> start.frame, rng |-> start.rng]
        /\ start.tick \in StartTicks /\ start.frame = 0 /\ start.rng \in Seeds
    BY <2>1
  <2>3. start.tick \in Nat
    BY <2>2, ReplayConstants
  <2> QED BY <2>2, <2>3 DEF Games
<1>2. sim \in Sims /\ sim.state.tick = sim.tick
  BY <1>1, NewSimOK DEF ReplayInit
<1> QED BY <1>1, <1>2 DEF ReplayInit, PlayersInv, JoinedBy

\* Every step keeps the invariant of the players.
LEMMA PlayersNextOK == PlayersInv /\ [ReplayNext]_replayVars => PlayersInv'
<1> SUFFICES ASSUME PlayersInv, [ReplayNext]_replayVars PROVE PlayersInv'
  OBVIOUS
<1> USE DEF PlayersInv
<1>1. ASSUME NEW inputs, ServerStep(inputs) PROVE PlayersInv'
  <2>1. start' = start /\ members' = members /\ saved' = saved /\ sim' = Stepped(sim)
    BY <1>1 DEF ServerStep, Recording
  <2>2. Stepped(sim) \in Sims /\ Stepped(sim).tick = sim.tick + 1 /\ Stepped(sim).state.tick = sim.tick + 1
    BY DEF Stepped, Sims, Games
  <2>3. JoinedBy(members, sim.tick + 1)
    BY DEF JoinedBy, Sims
  <2> QED BY <2>1, <2>2, <2>3
<1>2. ASSUME NEW p \in Members, AddPlayer(p) PROVE PlayersInv'
  <2>1. /\ start' = start /\ sim' = sim /\ saved' = saved
        /\ members' = [q \in DOMAIN members \cup {p} |-> IF q = p THEN sim.tick ELSE members[q]]
    BY <1>2 DEF AddPlayer, Recording
  <2>2. JoinedBy(members', sim.tick)
    BY <2>1 DEF JoinedBy, Sims
  <2> QED BY <2>1, <2>2
<1>3. ASSUME NEW p \in Members, RemovePlayer(p) PROVE PlayersInv'
  <2>1. /\ start' = start /\ sim' = sim /\ saved' = saved
        /\ members' = [q \in DOMAIN members \ {p} |-> members[q]]
    BY <1>3 DEF RemovePlayer, Recording
  <2>2. JoinedBy(members', sim.tick)
    BY <2>1 DEF JoinedBy
  <2> QED BY <2>1, <2>2
<1>4. CASE MakeSnapshot
  <2>1. /\ start' = start /\ sim' = sim /\ members' = members
        /\ saved' = saved \cup {[game |-> sim.state, members |-> members]}
    BY <1>4 DEF MakeSnapshot, Recording
  <2>2. sim.state \in Games
    BY DEF Sims
  <2> QED BY <2>1, <2>2
<1>5. ASSUME NEW s \in saved, RestoreSnapshot(s) PROVE PlayersInv'
  <2>1. /\ start' = start /\ saved' = saved /\ members' = s.members
        /\ sim' = [tick |-> s.game.tick, rng |-> s.game.rng, state |-> s.game]
    BY <1>5 DEF RestoreSnapshot, Recording
  <2>2. s.game \in Games
    OBVIOUS
  <2>3. sim' \in Sims /\ sim'.tick = s.game.tick /\ sim'.state.tick = s.game.tick
    BY <2>1, <2>2 DEF Sims, Games
  <2> QED BY <2>1, <2>3
<1>6. ASSUME UNCHANGED simVars PROVE PlayersInv'
  BY <1>6 DEF simVars
<1>7. CASE (\E seed \in Seeds : StartPlayback(seed)) \/ RunFull \/ StepFrame
  BY <1>6, <1>7 DEF StartPlayback, RunFull, StepFrame
<1>8. CASE UNCHANGED replayVars
  BY <1>6, <1>8 DEF replayVars, simVars
<1> QED BY <1>1, <1>2, <1>3, <1>4, <1>5, <1>7, <1>8 DEF ReplayNext

\* AuthoritativeSimulation: no player joined in the future of the simulation or
\* of a snapshot, however often snapshots are taken and restored.
THEOREM PlayersJoinedInThePast == ReplaySpec => []JoinedInThePast
<1>1. PlayersInv => JoinedInThePast
  BY DEF PlayersInv, JoinedBy, JoinedInThePast
<1> QED BY PlayersInitOK, PlayersNextOK, <1>1, PTL DEF ReplaySpec

-----------------------------------------------------------------------------
(* ShadowVm *)

\* The inductive invariant: the collector holds the last frames in a row, and
\* the last request ended before the first of them.
WindowInv ==
  /\ tick \in Nat
  /\ window \in Seq(Nat) /\ Len(window) <= WINDOW_SIZE
  /\ \A k \in 1 .. Len(window) : window[k] = tick - Len(window) + k
  /\ requests \in Seq(Seq(Nat))
  /\ requests # <<>> => requests[Len(requests)][WINDOW_SIZE] <= tick - Len(window)
  /\ RequestsFresh

\* A row of frames that ended with frame t, one longer.
LEMMA RowGrows ==
  ASSUME NEW t \in Nat, NEW q \in Seq(Nat), \A k \in 1 .. Len(q) : q[k] = t - Len(q) + k
  PROVE  /\ Append(q, t + 1) \in Seq(Nat) /\ Len(Append(q, t + 1)) = Len(q) + 1
         /\ \A k \in 1 .. Len(q) + 1 : Append(q, t + 1)[k] = t + 1 - (Len(q) + 1) + k
<1> DEFINE w == Append(q, t + 1)
<1>1. /\ w \in Seq(Nat) /\ Len(q) \in Nat /\ Len(w) = Len(q) + 1 /\ w[Len(q) + 1] = t + 1
      /\ \A k \in 1 .. Len(q) : w[k] = q[k]
  OBVIOUS
<1> HIDE DEF w
<1>2. ASSUME NEW k \in 1 .. Len(q) + 1 PROVE w[k] = t + 1 - (Len(q) + 1) + k
  <2>1. CASE k = Len(q) + 1
    BY <1>1, <2>1
  <2>2. CASE k # Len(q) + 1
    <3>1. k \in 1 .. Len(q)
      BY <1>1, <2>2
    <3>2. q[k] = t - Len(q) + k /\ w[k] = q[k]
      BY <1>1, <3>1
    <3> QED BY <1>1, <3>1, <3>2
  <2> QED BY <2>1, <2>2
<1> QED BY <1>1, <1>2 DEF w

\* The end of the last request is a frame.
LEMMA LastRequestEnds ==
  ASSUME WindowInv, requests # <<>>
  PROVE  /\ requests[Len(requests)][WINDOW_SIZE] \in Nat
         /\ requests[Len(requests)][WINDOW_SIZE] <= tick - Len(window)
<1>1. WINDOW_SIZE \in Nat \ {0}
  BY ShadowConstants
<1>2. requests \in Seq(Seq(Nat))
  BY DEF WindowInv
<1>3. Len(requests) \in DOMAIN requests /\ requests[Len(requests)] \in Seq(Nat)
  BY <1>2
<1>4. Len(requests[Len(requests)]) = WINDOW_SIZE
  BY <1>3 DEF WindowInv, RequestsFresh
<1>5. requests[Len(requests)][WINDOW_SIZE] \in Nat
  BY <1>1, <1>3, <1>4
<1> QED BY <1>5 DEF WindowInv

\* record keeps a row of frames a row, and no longer than the window.
LEMMA RecordedOK ==
  ASSUME WindowInv
  PROVE  LET w == Recorded(window, tick + 1)
         IN  /\ w \in Seq(Nat) /\ Len(w) <= WINDOW_SIZE
             /\ Len(w) <= Len(window) + 1
             /\ \A k \in 1 .. Len(w) : w[k] = tick + 1 - Len(w) + k
<1> DEFINE w == Recorded(window, tick + 1)
           kept == IF Len(window) >= WINDOW_SIZE THEN Tail(window) ELSE window
<1>1. WINDOW_SIZE \in Nat \ {0}
  BY ShadowConstants
<1>2. w = Append(kept, tick + 1)
  BY DEF Recorded
<1>3. window \in Seq(Nat) /\ Len(window) \in Nat /\ Len(window) <= WINDOW_SIZE /\ tick \in Nat
  BY DEF WindowInv
<1>t. CASE Len(window) >= WINDOW_SIZE
  <2>1. window # <<>> /\ Len(window) = WINDOW_SIZE /\ kept = Tail(window)
    BY <1>1, <1>3, <1>t
  <2>2. /\ Tail(window) \in Seq(Nat) /\ Len(Tail(window)) = Len(window) - 1
        /\ \A k \in 1 .. Len(Tail(window)) : Tail(window)[k] = window[k + 1]
    BY <1>3, <2>1
  <2> HIDE DEF kept, w
  <2>3. kept \in Seq(Nat) /\ Len(kept) = WINDOW_SIZE - 1
    BY <2>1, <2>2
  <2>4. ASSUME NEW k \in 1 .. Len(kept) PROVE kept[k] = tick - Len(kept) + k
    <3>1. kept[k] = window[k + 1] /\ k + 1 \in 1 .. Len(window)
      BY <1>1, <2>1, <2>2, <2>3
    <3>2. window[k + 1] = tick - Len(window) + (k + 1)
      BY <3>1 DEF WindowInv
    <3>3. Len(kept) = Len(window) - 1
      BY <2>1, <2>3
    <3>4. \A t, n \in Nat : t - n + (k + 1) = t - (n - 1) + k
      OBVIOUS
    <3>5. kept[k] = tick - (Len(window) - 1) + k
      BY <1>3, <3>1, <3>2, <3>4, Zenon
    <3> QED BY <3>3, <3>5, Zenon
  <2>5. /\ w \in Seq(Nat) /\ Len(w) = Len(kept) + 1
        /\ \A k \in 1 .. Len(kept) + 1 : w[k] = tick + 1 - (Len(kept) + 1) + k
    BY <1>2, <1>3, <2>3, <2>4, RowGrows
  <2>6. /\ w \in Seq(Nat) /\ Len(w) <= WINDOW_SIZE /\ Len(w) <= Len(window) + 1
        /\ \A k \in 1 .. Len(w) : w[k] = tick + 1 - Len(w) + k
    <3>1. Len(kept) \in Nat /\ Len(w) = WINDOW_SIZE /\ Len(kept) + 1 = WINDOW_SIZE
      BY <1>1, <2>3, <2>5
    <3>2. \A k \in 1 .. Len(w) : w[k] = tick + 1 - Len(w) + k
      BY <2>5, <3>1
    <3> QED BY <1>1, <1>3, <2>1, <2>5, <3>1, <3>2
  <2> QED BY <2>6 DEF w
<1>u. CASE Len(window) < WINDOW_SIZE
  <2>1. kept = window
    BY <1>1, <1>3, <1>u
  <2> HIDE DEF kept, w
  <2>2. \A k \in 1 .. Len(window) : window[k] = tick - Len(window) + k
    BY DEF WindowInv
  <2>3. /\ w \in Seq(Nat) /\ Len(w) = Len(window) + 1
        /\ \A k \in 1 .. Len(window) + 1 : w[k] = tick + 1 - (Len(window) + 1) + k
    BY <1>2, <1>3, <2>1, <2>2, RowGrows
  <2>4. /\ w \in Seq(Nat) /\ Len(w) <= WINDOW_SIZE /\ Len(w) <= Len(window) + 1
        /\ \A k \in 1 .. Len(w) : w[k] = tick + 1 - Len(w) + k
    BY <1>1, <1>3, <1>u, <2>3
  <2> QED BY <2>4 DEF w
<1> QED BY <1>1, <1>3, <1>t, <1>u

\* A frame of the main thread keeps the windows full and fresh.
LEMMA MainFrameOK ==
  ASSUME WindowInv, MainFrame
  PROVE  WindowInv'
<1> DEFINE w == Recorded(window, tick + 1)
<1>1. /\ tick' = tick + 1 /\ tick \in Nat /\ Len(window) \in Nat
      /\ WINDOW_SIZE \in Nat \ {0}
  BY ShadowConstants DEF MainFrame, WindowInv
<1>2. /\ w \in Seq(Nat) /\ Len(w) \in Nat /\ Len(w) <= WINDOW_SIZE /\ Len(w) <= Len(window) + 1
      /\ \A k \in 1 .. Len(w) : w[k] = tick + 1 - Len(w) + k
  BY RecordedOK
<1>3. \/ MaySend(tick + 1, w) /\ window' = <<>> /\ requests' = Append(requests, w)
      \/ window' \in {w, <<>>} /\ requests' = requests
  BY <1>1 DEF MainFrame, Sent, SendFails, AfterSend
<1> HIDE DEF w
<1>4. CASE window' = w /\ requests' = requests
  <2>1. requests # <<>> => requests[Len(requests)][WINDOW_SIZE] <= tick + 1 - Len(w)
    BY <1>1, <1>2, LastRequestEnds
  <2> QED BY <1>1, <1>2, <1>4, <2>1 DEF WindowInv, RequestsFresh
<1>6. CASE window' = <<>> /\ requests' = requests
  <2>1. window' \in Seq(Nat) /\ Len(window') = 0
    BY <1>6
  <2>2. requests # <<>> => requests[Len(requests)][WINDOW_SIZE] <= tick + 1 - 0
    BY <1>1, LastRequestEnds
  <2> QED BY <1>1, <1>6, <2>1, <2>2 DEF WindowInv, RequestsFresh
<1>5. CASE MaySend(tick + 1, w) /\ window' = <<>> /\ requests' = Append(requests, w)
  <2>1. Len(w) = WINDOW_SIZE
    BY <1>1, <1>2, <1>5 DEF MaySend
  <2>2. /\ requests' \in Seq(Seq(Nat)) /\ requests' # <<>>
        /\ Len(requests) \in Nat /\ Len(requests') = Len(requests) + 1
        /\ DOMAIN requests' = DOMAIN requests \cup {Len(requests) + 1}
        /\ requests'[Len(requests) + 1] = w
        /\ \A i \in DOMAIN requests : requests'[i] = requests[i]
        /\ DOMAIN requests = 1 .. Len(requests)
    <3>1. requests \in Seq(Seq(Nat)) /\ w \in Seq(Nat) /\ requests' = Append(requests, w)
      BY <1>2, <1>5 DEF WindowInv
    <3>2. /\ Append(requests, w) \in Seq(Seq(Nat)) /\ Len(requests) \in Nat
          /\ Len(Append(requests, w)) = Len(requests) + 1 /\ DOMAIN requests = 1 .. Len(requests)
          /\ DOMAIN Append(requests, w) = 1 .. Len(requests) + 1
      BY <3>1
    <3>3. /\ Append(requests, w)[Len(requests) + 1] = w
          /\ \A i \in 1 .. Len(requests) : Append(requests, w)[i] = requests[i]
      BY <3>1
    <3>4. 1 .. Len(requests) + 1 = (1 .. Len(requests)) \cup {Len(requests) + 1}
      BY <3>2
    <3>5. Append(requests, w) # <<>>
      BY <3>1
    <3> QED BY <3>1, <3>2, <3>3, <3>4, <3>5, Zenon
  <2>3. w[WINDOW_SIZE] = tick + 1 /\ w[1] = tick + 1 - WINDOW_SIZE + 1
    BY <1>1, <1>2, <2>1
  <2>4. \A k \in 2 .. WINDOW_SIZE : w[k] = w[k - 1] + 1
    BY <1>1, <1>2, <2>1
  <2>5. Len(requests) > 0 => w[1] > requests[Len(requests)][WINDOW_SIZE]
    <3> SUFFICES ASSUME Len(requests) > 0 PROVE w[1] > requests[Len(requests)][WINDOW_SIZE]
      OBVIOUS
    <3>1. /\ requests[Len(requests)][WINDOW_SIZE] \in Nat
          /\ requests[Len(requests)][WINDOW_SIZE] <= tick - Len(window)
      BY <2>2, LastRequestEnds
    <3> QED BY <1>1, <1>2, <2>1, <2>3, <3>1
  <2>6. RequestsFresh'
    <3> SUFFICES ASSUME NEW i \in DOMAIN requests'
                 PROVE  /\ Len(requests'[i]) = WINDOW_SIZE
                        /\ \A k \in 2 .. WINDOW_SIZE : requests'[i][k] = requests'[i][k - 1] + 1
                        /\ i > 1 => requests'[i][1] > requests'[i - 1][WINDOW_SIZE]
      BY DEF RequestsFresh
    <3>1. CASE i = Len(requests) + 1
      <4>1. i > 1 => requests'[i - 1] = requests[Len(requests)] /\ Len(requests) > 0
        <5>1. Len(requests) \in Nat /\ i - 1 = Len(requests)
          BY <2>2, <3>1
        <5>2. i > 1 => Len(requests) > 0 /\ Len(requests) \in 1 .. Len(requests)
          BY <3>1, <5>1
        <5> QED BY <2>2, <5>1, <5>2, Zenon
      <4> QED BY <2>1, <2>2, <2>4, <2>5, <3>1, <4>1
    <3>2. CASE i \in DOMAIN requests
      <4>1. i > 1 => i - 1 \in DOMAIN requests
        BY <2>2, <3>2
      <4> QED BY <2>2, <3>2, <4>1 DEF WindowInv, RequestsFresh
    <3> QED BY <2>2, <3>1, <3>2
  <2>7. /\ window' \in Seq(Nat) /\ Len(window') = 0
    BY <1>5
  <2>8. requests'[Len(requests')][WINDOW_SIZE] <= tick' - Len(window')
    BY <1>1, <2>2, <2>3, <2>7
  <2> QED BY <1>1, <2>2, <2>6, <2>7, <2>8 DEF WindowInv
<1> QED BY <1>3, <1>4, <1>5, <1>6

\* Every step keeps the invariant of the windows.
LEMMA WindowNextOK == WindowInv /\ [ShadowNext]_shadowVars => WindowInv'
<1> SUFFICES ASSUME WindowInv, [ShadowNext]_shadowVars PROVE WindowInv'
  OBVIOUS
<1>1. CASE MainFrame
  BY <1>1, MainFrameOK
<1>2. ASSUME UNCHANGED <<tick, window, requests>> PROVE WindowInv'
  BY <1>2 DEF WindowInv, RequestsFresh
<1>3. CASE OnMessage \/ OnError \/ StartRestart
  BY <1>2, <1>3 DEF OnMessage, OnError, StartRestart, auxShadow
<1>4. CASE WorkerLoads \/ HandleInit \/ HandleMessage
  BY <1>2, <1>4 DEF WorkerLoads, HandleInit, HandleMessage, Dispatched, mainVars, auxShadow
<1>6. CASE HandlerPanics \/ BrokenPanics \/ ScriptFails
  BY <1>2, <1>6 DEF HandlerPanics, BrokenPanics, ScriptFails, Thrown, mainVars
<1>5. CASE UNCHANGED shadowVars
  BY <1>2, <1>5 DEF shadowVars, mainVars, auxShadow
<1> QED BY <1>1, <1>3, <1>4, <1>5, <1>6 DEF ShadowNext

\* TraceCollector, SamplingScheduler and ShadowRequestQueue together: for every
\* window size and interval, also intervals shorter than the window, and
\* whatever the worker does and whichever sends fail, every request is a full row
\* of frames and no frame is in two requests.
THEOREM FramesSentOnce == ShadowSpec => []RequestsFresh
<1>1. ShadowInit => WindowInv
  BY ShadowConstants DEF ShadowInit, WindowInv, RequestsFresh
<1>2. WindowInv => RequestsFresh
  BY DEF WindowInv
<1> QED BY <1>1, <1>2, WindowNextOK, PTL DEF ShadowSpec

-----------------------------------------------------------------------------
(* Recording and playback *)

Frames == [tick : Nat, inputs : SUBSET Nat, rng : Seeds, hash : Seeds \X Nat]

\* What record_frame wrote at position i, and where the frame belongs.
FrameOK(i) ==
  /\ recorded[i].inputs \subseteq {recorded[i].tick}
  /\ recorded[i].hash = <<recorded[i].rng, recorded[i].tick + 1>>
  /\ rewound[i] = start.tick + (i - 1) - recorded[i].tick

\* What playing a recorded frame starts from: its generator, the tick of the simulation.
LEMMA PreparedOK ==
  ASSUME NEW s \in Sims, NEW f \in Frames
  PROVE  /\ Prepared(s, f) = [tick |-> s.tick, rng |-> f.rng,
                              state |-> [tick |-> s.state.tick, frame |-> s.state.frame, rng |-> f.rng]]
         /\ Prepared(s, f) \in Sims /\ Prepared(s, f).tick = s.tick /\ Prepared(s, f).rng = f.rng
<1>1. s.tick \in Nat /\ s.state.tick \in Nat /\ s.state.frame \in Nat /\ f.rng \in Seeds
  BY DEF Sims, Games, Frames
<1>2. Prepared(s, f) = [tick |-> s.tick, rng |-> f.rng,
                        state |-> [tick |-> s.state.tick, frame |-> s.state.frame, rng |-> f.rng]]
  <2> DEFINE g == s.state
             h == [g EXCEPT !.rng = f.rng]
  <2>1. g \in Games /\ s \in [tick : Nat, rng : Seeds, state : Games]
    BY DEF Sims
  <2>2. h = [tick |-> g.tick, frame |-> g.frame, rng |-> f.rng]
    BY <2>1 DEF Games
  <2>3. Prepared(s, f) = [s EXCEPT !.rng = f.rng, !.state = h]
    BY <2>1 DEF Prepared, RestoreRng
  <2> HIDE DEF h
  <2>4. Prepared(s, f) = [tick |-> s.tick, rng |-> f.rng, state |-> h]
    BY <2>1, <2>3
  <2> QED BY <2>2, <2>4
<1> QED BY <1>1, <1>2 DEF Sims, Games

\* One frame played is one tick.
LEMMA SteppedOK ==
  ASSUME NEW s \in Sims
  PROVE  Stepped(s) \in Sims /\ Stepped(s).tick = s.tick + 1 /\ Stepped(s).rng = s.rng
BY DEF Stepped, Sims, Games

\* The simulation before frame i, without the frames before it.
BeforeFrame(s, i) ==
  IF i = 1 THEN Prepared(s, recorded[1])
  ELSE [tick |-> s.tick + (i - 1), rng |-> recorded[i].rng,
        state |-> [tick |-> s.tick + (i - 1), frame |-> s.tick + (i - 1), rng |-> recorded[i].rng]]

\* The simulation before each recorded frame, one by one.
AtEquation(s, h) ==
  h = [i \in DOMAIN recorded |-> Prepared(IF i = 1 THEN s ELSE Stepped(h[i - 1]), recorded[i])]

\* The simulation before frame i stands i - 1 ticks behind the start.
LEMMA BeforeFrameOK ==
  ASSUME recorded \in Seq(Frames), NEW s \in Sims, NEW i \in DOMAIN recorded
  PROVE  /\ BeforeFrame(s, i) \in Sims
         /\ BeforeFrame(s, i).tick = s.tick + (i - 1) /\ BeforeFrame(s, i).rng = recorded[i].rng
<1>1. recorded[i] \in Frames /\ i \in Nat \ {0} /\ recorded[1] \in Frames
  OBVIOUS
<1>2. CASE i = 1
  <2>1. s.tick \in Nat
    BY DEF Sims
  <2> QED BY <1>1, <1>2, <2>1, PreparedOK DEF BeforeFrame
<1>3. CASE i # 1
  <2>1. s.tick \in Nat /\ s.tick + (i - 1) \in Nat /\ recorded[i].rng \in Seeds
    BY <1>1 DEF Sims, Frames
  <2> DEFINE n == s.tick + (i - 1)
  <2>2. BeforeFrame(s, i) = [tick |-> n, rng |-> recorded[i].rng,
                             state |-> [tick |-> n, frame |-> n, rng |-> recorded[i].rng]]
    BY <1>3 DEF BeforeFrame
  <2>3. n \in Nat
    BY <2>1
  <2> HIDE DEF n
  <2>4. BeforeFrame(s, i) \in Sims /\ BeforeFrame(s, i).tick = n /\ BeforeFrame(s, i).rng = recorded[i].rng
    BY <2>1, <2>2, <2>3 DEF Sims, Games
  <2> QED BY <2>4 DEF n
<1> QED BY <1>2, <1>3

\* Each frame is played on what the one before it left.
LEMMA BeforeNext ==
  ASSUME recorded \in Seq(Frames), NEW s \in Sims, NEW i \in DOMAIN recorded
  PROVE  BeforeFrame(s, i) = Prepared(IF i = 1 THEN s ELSE Stepped(BeforeFrame(s, i - 1)), recorded[i])
<1>1. CASE i = 1
  BY <1>1 DEF BeforeFrame
<1>2. CASE i # 1
  <2>1. recorded[i] \in Frames /\ i - 1 \in DOMAIN recorded /\ i \in Nat
    BY <1>2
  <2>2. BeforeFrame(s, i - 1) \in Sims /\ BeforeFrame(s, i - 1).tick = s.tick + ((i - 1) - 1)
    BY <2>1, BeforeFrameOK
  <2> DEFINE b == BeforeFrame(s, i - 1)
             n == s.tick + (i - 1)
  <2>3. s.tick \in Nat /\ b \in Sims /\ b.tick + 1 = n
    BY <2>1, <2>2 DEF Sims
  <2> HIDE DEF b, n
  <2>4. Stepped(b) = [tick |-> n, rng |-> b.rng, state |-> [tick |-> n, frame |-> n, rng |-> b.rng]]
    BY <2>3 DEF Stepped
  <2>5. Stepped(b) \in Sims
    BY <2>3, SteppedOK
  <2>6. Prepared(Stepped(b), recorded[i]) =
          [tick |-> n, rng |-> recorded[i].rng, state |-> [tick |-> n, frame |-> n, rng |-> recorded[i].rng]]
    <3> DEFINE t == Stepped(b)
    <3>1. t.tick = n /\ t.state.tick = n /\ t.state.frame = n
      BY <2>4
    <3>2. t \in Sims
      BY <2>5
    <3> HIDE DEF t
    <3>3. Prepared(t, recorded[i]) =
            [tick |-> t.tick, rng |-> recorded[i].rng,
             state |-> [tick |-> t.state.tick, frame |-> t.state.frame, rng |-> recorded[i].rng]]
      BY <2>1, <3>2, PreparedOK
    <3> QED BY <3>1, <3>3 DEF t
  <2> QED BY <1>2, <2>6 DEF BeforeFrame, b, n
<1> QED BY <1>1, <1>2

\* What the recursion of a playback computes.
LEMMA AtIsBeforeFrame ==
  ASSUME recorded \in Seq(Frames), NEW s \in Sims, NEW i \in DOMAIN recorded
  PROVE  At(s, i) = BeforeFrame(s, i)
<1> DEFINE g == [j \in DOMAIN recorded |-> BeforeFrame(s, j)]
           at == CHOOSE h : AtEquation(s, h)
<1>1. \A j \in DOMAIN recorded : j # 1 => j - 1 \in DOMAIN recorded
  OBVIOUS
<1>2. AtEquation(s, g)
  <2>1. ASSUME NEW j \in DOMAIN recorded
        PROVE  g[j] = Prepared(IF j = 1 THEN s ELSE Stepped(g[j - 1]), recorded[j])
    <3>1. g[j] = BeforeFrame(s, j) /\ (j # 1 => g[j - 1] = BeforeFrame(s, j - 1))
      BY <1>1
    <3> QED BY <3>1, BeforeNext
  <2> QED BY <2>1 DEF AtEquation
<1>3. AtEquation(s, at)
  BY <1>2, Zenon
<1>4. At(s, i) = at[i]
  BY Zenon DEF At, AtEquation
<1> HIDE DEF at, g
<1>5. ASSUME NEW j \in DOMAIN recorded
      PROVE  at[j] = Prepared(IF j = 1 THEN s ELSE Stepped(at[j - 1]), recorded[j])
  BY <1>3, Zenon DEF AtEquation
<1> DEFINE S == {n \in Nat : n + 1 \in DOMAIN recorded => at[n + 1] = BeforeFrame(s, n + 1)}
<1>6. 0 \in S
  <2> SUFFICES ASSUME 1 \in DOMAIN recorded PROVE at[1] = BeforeFrame(s, 1)
    OBVIOUS
  <2> QED BY <1>5 DEF BeforeFrame
<1>7. ASSUME NEW n \in S PROVE n + 1 \in S
  <2> SUFFICES ASSUME (n + 1) + 1 \in DOMAIN recorded PROVE at[(n + 1) + 1] = BeforeFrame(s, (n + 1) + 1)
    OBVIOUS
  <2> DEFINE j == (n + 1) + 1
  <2>1. j \in DOMAIN recorded /\ j # 1 /\ j - 1 = n + 1 /\ n + 1 \in DOMAIN recorded
    OBVIOUS
  <2>2. at[j - 1] = BeforeFrame(s, j - 1)
    BY <2>1
  <2> HIDE DEF j, S
  <2>3. at[j] = BeforeFrame(s, j)
    BY <1>5, <2>1, <2>2, BeforeNext
  <2> QED BY <2>3 DEF j
<1>8. S = Nat
  <2>1. S \in SUBSET Nat
    OBVIOUS
  <2> HIDE DEF S
  <2> QED BY <1>6, <1>7, <2>1, InductionOnSet
<1>9. i - 1 \in S /\ (i - 1) + 1 = i
  <2>1. i - 1 \in Nat /\ (i - 1) + 1 = i
    OBVIOUS
  <2> HIDE DEF S
  <2> QED BY <1>8, <2>1
<1>10. at[(i - 1) + 1] = BeforeFrame(s, (i - 1) + 1)
  BY <1>9
<1> QED BY <1>4, <1>9, <1>10

\* A playback from the tick the recording began at fails exactly at the frames
\* that were recorded out of place.
LEMMA FailsIffDisplaced ==
  ASSUME recorded \in Seq(Frames), NEW s \in Sims, s.tick = start.tick, start \in Games,
         NEW i \in DOMAIN recorded, FrameOK(i)
  PROVE  Fails(s, i) <=> i \in Displaced
<1> DEFINE f == recorded[i]
           a == At(s, i)
<1>1. a \in Sims /\ a.tick = start.tick + (i - 1) /\ a.rng = f.rng
  BY AtIsBeforeFrame, BeforeFrameOK
<1>2. f \in Frames /\ i \in Nat \ {0} /\ f.tick \in Nat /\ start.tick \in Nat
  <2>1. f \in Frames /\ i \in Nat \ {0}
    OBVIOUS
  <2> HIDE DEF f
  <2> QED BY <2>1 DEF Frames, Games
<1>3. f.inputs \subseteq {f.tick} /\ f.hash = <<f.rng, f.tick + 1>> /\ rewound[i] = start.tick + (i - 1) - f.tick
  BY DEF FrameOK
<1> HIDE DEF f, a
<1>4. i \in Displaced <=> a.tick # f.tick
  <2>1. i \in Displaced <=> rewound[i] # 0
    BY DEF Displaced
  <2> QED BY <1>1, <1>2, <1>3, <2>1
<1>5. Matches(a, f) <=> a.tick = f.tick
  <2>1. HashOf(Stepped(a)) = <<f.rng, a.tick + 1>>
    BY <1>1, SteppedOK DEF HashOf
  <2>2. a.tick \in Nat
    BY <1>1 DEF Sims
  <2> QED BY <1>2, <1>3, <2>1, <2>2 DEF Matches
<1>6. a.tick = f.tick => Accepts(a, f.inputs)
  BY <1>3 DEF Accepts
<1> QED BY <1>4, <1>5, <1>6 DEF Fails, a, f

\* The verdict on a recording.
VerdictOK ==
  verdict # NoVerdict =>
    IF Displaced = {}
    THEN verdict = [kind |-> "Ok", at |-> Len(recorded)]
    ELSE verdict.kind # "Ok" /\ verdict.at = recorded[Min(Displaced)].tick

\* What the frames shown so far said.
ShownOK ==
  \A i \in DOMAIN shown :
    /\ shown[i] = (i \notin Displaced)
    /\ i \in Displaced => recorded[i].inputs = {}

\* The inductive invariant: the recorder knows where each frame belongs, and the
\* player is at the tick of the next frame's position.
PlaybackInv ==
  /\ PlayersInv
  /\ recorded \in Seq(Frames) /\ rewound \in Seq(Int) /\ Len(rewound) = Len(recorded)
  /\ \A i \in DOMAIN recorded : FrameOK(i)
  /\ shown \in Seq(BOOLEAN) /\ Len(shown) <= Len(recorded)
  /\ ~playing => verdict = NoVerdict /\ shown = <<>>
  /\ (playing /\ verdict = NoVerdict) =>
       /\ player \in [sim : Sims, idx : Nat]
       /\ player.sim.tick = start.tick + player.idx /\ player.idx = Len(shown)
  /\ VerdictOK /\ ShownOK

\* Nothing is recorded or played back at first.
LEMMA PlaybackInit == ReplayInit => PlaybackInv
<1> SUFFICES ASSUME ReplayInit PROVE PlaybackInv
  OBVIOUS
<1>1. PlayersInv
  BY PlayersInitOK
<1>2. recorded = <<>> /\ rewound = <<>> /\ shown = <<>> /\ playing = FALSE /\ verdict = NoVerdict
  BY DEF ReplayInit
<1> QED BY <1>1, <1>2 DEF PlaybackInv, VerdictOK, ShownOK

\* Steps of the owner that record nothing.
LEMMA RecordingIdle ==
  ASSUME PlaybackInv, PlayersInv', Recording, UNCHANGED <<recorded, rewound>>
  PROVE  PlaybackInv'
<1>1. /\ start' = start /\ playing' = playing /\ player' = player /\ verdict' = verdict /\ shown' = shown
      /\ recorded' = recorded /\ rewound' = rewound
  BY DEF Recording
<1>2. ASSUME NEW i \in DOMAIN recorded PROVE FrameOK(i)'
  <2>1. FrameOK(i)
    BY DEF PlaybackInv
  <2> QED BY <1>1, <2>1 DEF FrameOK
<1>3. Displaced' = Displaced
  BY <1>1 DEF Displaced
<1>4. VerdictOK' /\ ShownOK'
  BY <1>1, <1>3 DEF PlaybackInv, VerdictOK, ShownOK
<1> QED BY <1>1, <1>2, <1>4 DEF PlaybackInv

\* A recorded step appends one frame; the playback is of what was recorded before.
LEMMA ServerStepOK ==
  ASSUME PlaybackInv, PlayersInv', NEW inputs \in SUBSET {sim.tick}, ServerStep(inputs)
  PROVE  PlaybackInv'
<1> DEFINE f == [tick |-> sim.tick, inputs |-> inputs, rng |-> sim.rng, hash |-> HashOf(Stepped(sim))]
           w == start.tick + Len(recorded) - sim.tick
<1>1. /\ start' = start /\ playing = FALSE /\ playing' = FALSE /\ verdict' = verdict /\ shown' = shown
      /\ recorded' = Append(recorded, f) /\ rewound' = Append(rewound, w)
  BY DEF ServerStep, Recording, PlaybackInv
<1>2. sim \in Sims /\ sim.tick \in Nat /\ sim.rng \in Seeds /\ start.tick \in Nat
  BY DEF PlaybackInv, PlayersInv, Sims, Games
<1>3. HashOf(Stepped(sim)) = <<sim.rng, sim.tick + 1>>
  BY <1>2, SteppedOK DEF HashOf
<1>4. /\ f \in Frames /\ w \in Int /\ f.tick = sim.tick /\ f.inputs \subseteq {f.tick}
      /\ f.hash = <<f.rng, f.tick + 1>> /\ w = start.tick + Len(recorded) - f.tick
  <2>1. inputs \in SUBSET Nat /\ HashOf(Stepped(sim)) \in Seeds \X Nat
    BY <1>2, <1>3
  <2>2. f \in Frames
    BY <1>2, <2>1 DEF Frames
  <2> QED BY <1>2, <1>3, <2>2 DEF PlaybackInv
<1> HIDE DEF f, w
<1>5. recorded \in Seq(Frames) /\ rewound \in Seq(Int) /\ Len(rewound) = Len(recorded)
  BY DEF PlaybackInv
<1>6. recorded' \in Seq(Frames) /\ rewound' \in Seq(Int) /\ Len(rewound') = Len(recorded') /\ Len(recorded') = Len(recorded) + 1
  BY <1>1, <1>4, <1>5
<1>7. ASSUME NEW i \in DOMAIN recorded' PROVE FrameOK(i)'
  <2>1. CASE i = Len(recorded) + 1
    <3>1. recorded'[i] = f /\ rewound'[i] = w /\ i - 1 = Len(recorded)
      BY <1>1, <1>4, <1>5, <2>1
    <3> QED BY <1>1, <1>4, <3>1 DEF FrameOK
  <2>2. CASE i # Len(recorded) + 1
    <3>1. i \in DOMAIN recorded /\ recorded'[i] = recorded[i] /\ rewound'[i] = rewound[i]
      BY <1>1, <1>4, <1>5, <2>2
    <3>2. FrameOK(i)
      BY <3>1 DEF PlaybackInv
    <3> QED BY <1>1, <3>1, <3>2 DEF FrameOK
  <2> QED BY <2>1, <2>2
<1>8. verdict = NoVerdict /\ shown = <<>>
  BY <1>1 DEF PlaybackInv
<1>9. VerdictOK' /\ ShownOK' /\ shown' \in Seq(BOOLEAN) /\ Len(shown') <= Len(recorded')
  BY <1>1, <1>6, <1>8 DEF VerdictOK, ShownOK, NoVerdict
<1> QED BY <1>1, <1>6, <1>7, <1>8, <1>9 DEF PlaybackInv

\* The facts that playback does not change.
LEMMA RecordingKept ==
  ASSUME PlaybackInv, UNCHANGED <<simVars, recorded, rewound>>
  PROVE  /\ PlayersInv' /\ Displaced' = Displaced
         /\ recorded' \in Seq(Frames) /\ rewound' \in Seq(Int) /\ Len(rewound') = Len(recorded')
         /\ \A i \in DOMAIN recorded' : FrameOK(i)'
<1>1. start' = start /\ sim' = sim /\ members' = members /\ saved' = saved /\ recorded' = recorded /\ rewound' = rewound
  BY DEF simVars
<1>2. PlayersInv'
  BY <1>1 DEF PlaybackInv, PlayersInv
<1>3. ASSUME NEW i \in DOMAIN recorded PROVE FrameOK(i)'
  <2>1. FrameOK(i)
    BY DEF PlaybackInv
  <2> QED BY <1>1, <2>1 DEF FrameOK
<1> QED BY <1>1, <1>2, <1>3 DEF PlaybackInv, Displaced

\* A new playback has shown nothing.
LEMMA StartPlaybackOK ==
  ASSUME PlaybackInv, NEW seed \in Seeds, StartPlayback(seed)
  PROVE  PlaybackInv'
<1>1. /\ verdict' = verdict /\ shown' = shown /\ recorded' = recorded
      /\ player' = [sim |-> NewSim(start, seed), idx |-> 0] /\ start' = start
  BY DEF StartPlayback, simVars
<1>2. verdict = NoVerdict /\ shown = <<>>
  BY DEF StartPlayback, PlaybackInv
<1>3. NewSim(start, seed) \in Sims /\ NewSim(start, seed).tick = start.tick /\ start.tick \in Nat
  BY NewSimOK DEF PlaybackInv, PlayersInv, NewSim, Games
<1>4. player' \in [sim : Sims, idx : Nat] /\ player'.sim.tick = start.tick + player'.idx /\ player'.idx = 0
  BY <1>1, <1>3
<1>5. verdict' = NoVerdict /\ shown' = <<>> /\ start' = start
  BY <1>2 DEF StartPlayback, simVars
<1>6. VerdictOK' /\ ShownOK'
  BY <1>5 DEF VerdictOK, ShownOK, NoVerdict
<1>7. UNCHANGED <<simVars, recorded, rewound>>
  BY DEF StartPlayback
<1>8. /\ PlayersInv' /\ recorded' \in Seq(Frames) /\ rewound' \in Seq(Int) /\ Len(rewound') = Len(recorded')
      /\ \A i \in DOMAIN recorded' : FrameOK(i)'
  BY <1>7, RecordingKept
<1> QED BY <1>4, <1>5, <1>6, <1>8 DEF PlaybackInv

\* run_full stops at the first frame that does not match.
LEMMA RunFullOK ==
  ASSUME PlaybackInv, RunFull
  PROVE  PlaybackInv'
<1> DEFINE bad == {i \in DOMAIN recorded : Fails(player.sim, i)}
<1>1. playing /\ playing' = playing /\ verdict = NoVerdict /\ player.idx = 0 /\ shown' = shown /\ recorded' = recorded
  BY DEF RunFull
<1>2. UNCHANGED <<simVars, recorded, rewound>>
  BY DEF RunFull
<1>3. /\ PlayersInv' /\ recorded' \in Seq(Frames) /\ rewound' \in Seq(Int) /\ Len(rewound') = Len(recorded')
      /\ \A i \in DOMAIN recorded' : FrameOK(i)'
      /\ Displaced' = Displaced
  BY <1>2, RecordingKept
<1>4. player.sim \in Sims /\ player.sim.tick = start.tick
  <2>1. player \in [sim : Sims, idx : Nat] /\ player.sim.tick = start.tick + player.idx /\ start.tick \in Nat
    BY <1>1 DEF PlaybackInv, PlayersInv, Games
  <2> QED BY <1>1, <2>1
<1>5. bad = Displaced
  <2>1. ASSUME NEW i \in DOMAIN recorded PROVE Fails(player.sim, i) <=> i \in Displaced
    <3>1. recorded \in Seq(Frames) /\ start \in Games /\ FrameOK(i)
      BY DEF PlaybackInv, PlayersInv
    <3> QED BY <1>4, <3>1, FailsIffDisplaced
  <2>2. Displaced \subseteq DOMAIN recorded
    BY DEF Displaced
  <2> QED BY <2>1, <2>2
<1>6. /\ bad = {} => verdict' = [kind |-> "Ok", at |-> Len(recorded)]
      /\ bad # {} => verdict' \in {[kind |-> "Desync", at |-> recorded[Min(bad)].tick],
                                   [kind |-> "SimulationError", at |-> recorded[Min(bad)].tick]}
  BY DEF RunFull
<1> HIDE DEF bad
<1>7. verdict' # NoVerdict /\ VerdictOK'
  BY <1>1, <1>3, <1>5, <1>6 DEF VerdictOK, NoVerdict
<1>8. ShownOK' /\ shown' \in Seq(BOOLEAN) /\ Len(shown') <= Len(recorded')
  BY <1>1, <1>3 DEF ShownOK, PlaybackInv
<1> QED BY <1>1, <1>3, <1>7, <1>8 DEF PlaybackInv

\* step_frame shows the next frame, or stays before one that is refused.
LEMMA StepFrameOK ==
  ASSUME PlaybackInv, StepFrame
  PROVE  PlaybackInv'
<1> DEFINE n == player.idx + 1
           f == recorded[n]
           s == Prepared(player.sim, f)
<1>1. playing /\ playing' = playing /\ verdict = NoVerdict /\ verdict' = verdict /\ player.idx < Len(recorded) /\ recorded' = recorded
  BY DEF StepFrame
<1>2. UNCHANGED <<simVars, recorded, rewound>>
  BY DEF StepFrame
<1>3. /\ PlayersInv' /\ recorded' \in Seq(Frames) /\ rewound' \in Seq(Int) /\ Len(rewound') = Len(recorded')
      /\ \A i \in DOMAIN recorded' : FrameOK(i)'
      /\ Displaced' = Displaced /\ start' = start
  BY <1>2, RecordingKept DEF simVars
<1>4. /\ player \in [sim : Sims, idx : Nat] /\ player.sim.tick = start.tick + player.idx
      /\ player.idx = Len(shown) /\ shown \in Seq(BOOLEAN) /\ start.tick \in Nat /\ recorded \in Seq(Frames)
  BY <1>1 DEF PlaybackInv, PlayersInv, Games
<1>5. n \in DOMAIN recorded /\ n = Len(shown) + 1 /\ player.idx \in Nat /\ player.sim \in Sims /\ f \in Frames /\ FrameOK(n)
  <2>1. n \in DOMAIN recorded /\ n = Len(shown) + 1 /\ player.idx \in Nat /\ player.sim \in Sims
    BY <1>1, <1>4
  <2> HIDE DEF n
  <2> QED BY <1>4, <2>1 DEF PlaybackInv
<1>6. s \in Sims /\ s.tick = start.tick + (n - 1) /\ s.rng = f.rng
  <2>1. s \in Sims /\ s.tick = player.sim.tick /\ s.rng = f.rng
    <3> HIDE DEF f
    <3> QED BY <1>5, PreparedOK
  <2>2. player.idx = n - 1
    BY <1>5
  <2> QED BY <1>4, <2>1, <2>2
<1>7. VerdictOK'
  BY <1>1 DEF VerdictOK
<1>8. CASE ~ Accepts(s, f.inputs)
  <2>1. player' = [player EXCEPT !.sim = s] /\ shown' = shown
    BY <1>8 DEF StepFrame
  <2> HIDE DEF s, f, n
  <2>2. player' \in [sim : Sims, idx : Nat] /\ player'.sim = s /\ player'.idx = player.idx
    BY <1>4, <1>6, <2>1
  <2>3. player'.sim.tick = start.tick + player'.idx
    BY <1>4, <1>6, <2>2 DEF n
  <2>4. ShownOK' /\ Len(shown') <= Len(recorded')
    BY <1>1, <1>3, <2>1 DEF ShownOK, PlaybackInv
  <2> QED BY <1>1, <1>3, <1>4, <1>7, <2>1, <2>2, <2>3, <2>4 DEF PlaybackInv
<1>9. CASE Accepts(s, f.inputs)
  <2>1. player' = [sim |-> Stepped(s), idx |-> player.idx + 1] /\ shown' = Append(shown, Matches(s, f))
    BY <1>9 DEF StepFrame
  <2>2. n = player.idx + 1
    OBVIOUS
  <2> DEFINE m == Matches(s, f)
  <2>3. m \in BOOLEAN /\ m = (n \notin Displaced)
    <3>1. /\ f.inputs \subseteq {f.tick} /\ f.hash = <<f.rng, f.tick + 1>>
          /\ rewound[n] = start.tick + (n - 1) - f.tick /\ f.tick \in Nat
      BY <1>5 DEF FrameOK, Frames
    <3>2. HashOf(Stepped(s)) = <<f.rng, s.tick + 1>> /\ s.tick \in Nat
      BY <1>6, SteppedOK DEF HashOf, Sims
    <3> HIDE DEF s, f, n
    <3>3. n \in Displaced <=> s.tick # f.tick
      BY <1>4, <1>5, <1>6, <3>1, <3>2 DEF Displaced
    <3>4. Matches(s, f) <=> s.tick = f.tick
      BY <3>1, <3>2 DEF Matches
    <3>5. m \in BOOLEAN
      BY DEF Matches
    <3>6. m <=> n \notin Displaced
      BY <3>3, <3>4
    <3> HIDE DEF m
    <3> QED BY <3>5, <3>6, Zenon
  <2>4. n \in Displaced => f.inputs = {}
    <3>1. /\ f.inputs \subseteq {f.tick}
          /\ rewound[n] = start.tick + (n - 1) - f.tick /\ f.tick \in Nat
      BY <1>5 DEF FrameOK, Frames
    <3>2. \A i \in f.inputs : i = s.tick
      BY <1>9 DEF Accepts
    <3> HIDE DEF s, f, n
    <3>3. n \in Displaced => s.tick # f.tick
      BY <1>4, <1>5, <1>6, <3>1 DEF Displaced
    <3> QED BY <3>1, <3>2, <3>3
  <2> HIDE DEF m, s, n
  <2>5. player' \in [sim : Sims, idx : Nat] /\ player'.sim.tick = start.tick + player'.idx /\ player'.idx = n
    <3>1. Stepped(s) \in Sims /\ Stepped(s).tick = s.tick + 1
      BY <1>6, SteppedOK
    <3>2. s.tick \in Nat /\ n \in Nat
      BY <1>5, <1>6, <2>2 DEF Sims
    <3> QED BY <1>4, <1>5, <1>6, <2>1, <2>2, <3>1, <3>2
  <2>6. shown' = Append(shown, m)
    BY <2>1 DEF m
  <2>7. shown' \in Seq(BOOLEAN) /\ Len(shown') = n /\ DOMAIN shown' = 1 .. n
    BY <1>4, <1>5, <2>3, <2>6
  <2>8. ShownOK'
    <3>1. ASSUME NEW i \in 1 .. n
          PROVE  shown'[i] = (i \notin Displaced) /\ (i \in Displaced => recorded[i].inputs = {})
      <4>1. CASE i = n
        <5>1. shown'[i] = m
          BY <1>4, <1>5, <2>3, <2>6, <4>1
        <5> QED BY <2>3, <2>4, <4>1, <5>1, Zenon
      <4>2. CASE i # n
        <5>1. i \in DOMAIN shown /\ shown'[i] = shown[i]
          BY <1>4, <1>5, <2>3, <2>6, <4>2
        <5> QED BY <5>1, Zenon DEF PlaybackInv, ShownOK
      <4> QED BY <4>1, <4>2
    <3> QED BY <1>1, <1>3, <2>7, <3>1, Zenon DEF ShownOK
  <2>9. Len(shown') <= Len(recorded')
    BY <1>1, <1>4, <1>5, <2>7
  <2> QED BY <1>1, <1>3, <1>7, <2>5, <2>7, <2>8, <2>9 DEF PlaybackInv
<1> QED BY <1>8, <1>9

\* Every step keeps the invariant of the playback.
LEMMA PlaybackNext == PlaybackInv /\ [ReplayNext]_replayVars => PlaybackInv'
<1> SUFFICES ASSUME PlaybackInv, [ReplayNext]_replayVars PROVE PlaybackInv'
  OBVIOUS
<1>1. PlayersInv'
  BY PlayersNextOK DEF PlaybackInv
<1>2. ASSUME NEW inputs \in SUBSET {sim.tick}, ServerStep(inputs) PROVE PlaybackInv'
  BY <1>1, <1>2, ServerStepOK
<1>3. ASSUME NEW p, AddPlayer(p) \/ RemovePlayer(p) PROVE PlaybackInv'
  BY <1>1, <1>3, RecordingIdle DEF AddPlayer, RemovePlayer
<1>4. ASSUME NEW s, MakeSnapshot \/ RestoreSnapshot(s) PROVE PlaybackInv'
  BY <1>1, <1>4, RecordingIdle DEF MakeSnapshot, RestoreSnapshot
<1>5. ASSUME NEW seed \in Seeds, StartPlayback(seed) PROVE PlaybackInv'
  BY <1>5, StartPlaybackOK
<1>6. CASE UNCHANGED replayVars
  <2>1. UNCHANGED <<simVars, recorded, rewound>> /\ UNCHANGED <<start, playing, player, verdict, shown>>
    BY <1>6 DEF replayVars, simVars
  <2>2. /\ PlayersInv' /\ recorded' \in Seq(Frames) /\ rewound' \in Seq(Int) /\ Len(rewound') = Len(recorded')
        /\ \A i \in DOMAIN recorded' : FrameOK(i)'
        /\ Displaced' = Displaced
    BY <2>1, RecordingKept
  <2>3. VerdictOK' /\ ShownOK'
    BY <2>1, <2>2 DEF PlaybackInv, VerdictOK, ShownOK
  <2> QED BY <2>1, <2>2, <2>3 DEF PlaybackInv
<1>7. CASE RunFull \/ StepFrame
  BY <1>7, RunFullOK, StepFrameOK
<1> QED BY <1>2, <1>3, <1>4, <1>5, <1>6, <1>7 DEF ReplayNext

\* ReplayPlayer: for recordings of any length and any seed of the checking
\* simulation, run_full clears exactly the recordings whose frames were all
\* recorded in place and otherwise names the first that was not, and step_frame
\* shows the same frame by frame.
THEOREM PlaybackVerdictIsExact == ReplaySpec => []VerdictExact
<1>1. PlaybackInv => VerdictExact
  BY DEF PlaybackInv, VerdictOK, ShownOK, VerdictExact
<1> QED BY <1>1, PlaybackInit, PlaybackNext, PTL DEF ReplaySpec

-----------------------------------------------------------------------------
(* HashMismatchHandler *)

Logged == {"match", "miss", "reset_client", "reset_consecutive"}

\* MissesAfter for any log.
RunOfMisses(s, resets) ==
  {i \in DOMAIN s : s[i] = "miss" /\ \A j \in DOMAIN s : j > i => s[j] \notin resets}

\* The misses of a log are finitely many.
LEMMA RunOfMissesType ==
  ASSUME NEW s \in Seq(Logged), NEW R
  PROVE  IsFiniteSet(RunOfMisses(s, R)) /\ Cardinality(RunOfMisses(s, R)) \in Nat
<1>1. IsFiniteSet(1 .. Len(s)) /\ DOMAIN s = 1 .. Len(s)
  BY FS_Interval
<1>2. RunOfMisses(s, R) \in SUBSET (1 .. Len(s))
  BY <1>1 DEF RunOfMisses
<1>3. IsFiniteSet(RunOfMisses(s, R))
  BY <1>1, <1>2, FS_Subset
<1> QED BY <1>3, FS_CardinalityType

\* An entry of the log ends the run of misses, lengthens it or leaves it.
LEMMA RunOfMissesAppend ==
  ASSUME NEW s \in Seq(Logged), NEW x \in Logged, NEW R, "miss" \notin R
  PROVE  Cardinality(RunOfMisses(Append(s, x), R)) =
           CASE x \in R -> 0
             [] x = "miss" -> Cardinality(RunOfMisses(s, R)) + 1
             [] OTHER -> Cardinality(RunOfMisses(s, R))
<1> DEFINE n == Len(s) + 1
           A == RunOfMisses(s, R)
           B == RunOfMisses(Append(s, x), R)
<1>1. /\ DOMAIN s = 1 .. Len(s) /\ Len(s) \in Nat
      /\ DOMAIN Append(s, x) = 1 .. n /\ Append(s, x)[n] = x
      /\ \A i \in 1 .. Len(s) : Append(s, x)[i] = s[i]
  OBVIOUS
<1>2. IsFiniteSet(A) /\ Cardinality(A) \in Nat
  BY RunOfMissesType
<1>3. n \notin A
  BY <1>1 DEF RunOfMisses
<1>4. CASE x \in R
  <2>1. B = {}
    BY <1>1, <1>4 DEF RunOfMisses
  <2> QED BY <2>1, <1>4, FS_EmptySet
<1>5. CASE x = "miss"
  <2>1. B = A \cup {n}
    BY <1>1, <1>5 DEF RunOfMisses
  <2> HIDE DEF A, B, n
  <2>2. Cardinality(A \cup {n}) = IF n \in A THEN Cardinality(A) ELSE Cardinality(A) + 1
    BY <1>2, FS_AddElement
  <2>3. Cardinality(B) = Cardinality(A) + 1
    BY <1>2, <1>3, <2>1, <2>2
  <2> QED BY <2>3, <1>5 DEF A, B
<1>6. CASE x \notin R /\ x # "miss"
  <2>1. B = A
    BY <1>1, <1>6 DEF RunOfMisses
  <2> QED BY <2>1, <1>6
<1> QED BY <1>4, <1>5, <1>6

\* mismatch_counts and consecutive_mismatches are those numbers, and the last
\* answers were given for them.
HashInv ==
  /\ threshold \in Nat
  /\ log \in Seq(Logged)
  /\ mismatches = Unforgiven
  /\ consecutive = InARow
  /\ suspicious = (threshold > 0 /\ mismatches >= threshold)
  /\ log # <<>> /\ log[Len(log)] = "miss" =>
       /\ mismatches > 0
       /\ answers = [check |-> CheckResult(mismatches), validate |-> ValidateResult(consecutive)]

\* The counts of the properties are lengths of such runs.
LEMMA CountsAreRuns ==
  /\ Unforgiven = Cardinality(RunOfMisses(log, {"reset_client"}))
  /\ InARow = Cardinality(RunOfMisses(log, {"match", "reset_consecutive"}))
  BY DEF Unforgiven, InARow, MissesAfter, RunOfMisses

\* Both counters start at 0.
LEMMA HashInit == VerdictInit => HashInv
<1> SUFFICES ASSUME VerdictInit PROVE HashInv
  OBVIOUS
<1>1. \A R : RunOfMisses(<<>>, R) = {}
  BY DEF RunOfMisses
<1>2. Unforgiven = 0 /\ InARow = 0
  BY <1>1, CountsAreRuns, FS_EmptySet DEF VerdictInit
<1>3. threshold \in Nat /\ log = <<>> /\ log \in Seq(Logged) /\ mismatches = 0 /\ consecutive = 0
  BY ThresholdAssumption DEF VerdictInit
<1>4. ~ (threshold > 0 /\ mismatches >= threshold)
  BY <1>3
<1>5. suspicious = (threshold > 0 /\ mismatches >= threshold)
  BY <1>4, Zenon DEF VerdictInit
<1> QED BY <1>2, <1>3, <1>5 DEF HashInv

\* Every step keeps both counters equal to the runs of the log.
LEMMA HashStep == HashInv /\ [HashNext]_hashVars => HashInv'
<1> SUFFICES ASSUME HashInv, [HashNext]_hashVars PROVE HashInv'
  OBVIOUS
<1> USE DEF HashInv
<1> DEFINE S == {"reset_client"}
           C == {"match", "reset_consecutive"}
<1>1. /\ Unforgiven = Cardinality(RunOfMisses(log, S)) /\ InARow = Cardinality(RunOfMisses(log, C))
      /\ Unforgiven' = Cardinality(RunOfMisses(log', S)) /\ InARow' = Cardinality(RunOfMisses(log', C))
  <2>1. /\ Unforgiven = Cardinality(RunOfMisses(log, S)) /\ InARow = Cardinality(RunOfMisses(log, C))
    BY CountsAreRuns
  <2>2. /\ Unforgiven' = Cardinality(RunOfMisses(log', S)) /\ InARow' = Cardinality(RunOfMisses(log', C))
    BY DEF Unforgiven, InARow, MissesAfter, RunOfMisses
  <2> QED BY <2>1, <2>2
<1>2. mismatches \in Nat /\ consecutive \in Nat
  BY <1>1, RunOfMissesType
<1>3. ASSUME NEW x \in Logged, log' = Append(log, x)
      PROVE  /\ log' \in Seq(Logged) /\ log' # <<>> /\ log'[Len(log')] = x
             /\ Unforgiven' = CASE x \in S -> 0
                                [] x = "miss" -> mismatches + 1 [] OTHER -> mismatches
             /\ InARow' = CASE x \in C -> 0
                            [] x = "miss" -> consecutive + 1 [] OTHER -> consecutive
  <2>1. log' \in Seq(Logged) /\ log' # <<>> /\ log'[Len(log')] = x
    BY <1>3
  <2>2. Unforgiven' = CASE x \in S -> 0
                        [] x = "miss" -> mismatches + 1 [] OTHER -> mismatches
    BY <1>1, <1>3, RunOfMissesAppend, "miss" \notin S
  <2>3. InARow' = CASE x \in C -> 0
                    [] x = "miss" -> consecutive + 1 [] OTHER -> consecutive
    BY <1>1, <1>3, RunOfMissesAppend, "miss" \notin C
  <2> QED BY <2>1, <2>2, <2>3
<1>4. CASE Match
  <2>1. log' = Append(log, "match") /\ "match" \in Logged
    BY <1>4 DEF Match, Logged
  <2>2. log' \in Seq(Logged) /\ log'[Len(log')] = "match" /\ Unforgiven' = mismatches /\ InARow' = 0
    BY <1>3, <2>1
  <2> QED BY <1>4, <2>2 DEF Match
<1>5. CASE Mismatch
  <2>1. log' = Append(log, "miss") /\ "miss" \in Logged
    BY <1>5 DEF Mismatch, Logged
  <2>2. /\ log' \in Seq(Logged) /\ log'[Len(log')] = "miss"
        /\ Unforgiven' = mismatches + 1 /\ InARow' = consecutive + 1
    BY <1>3, <2>1
  <2>3. mismatches' = Unforgiven' /\ consecutive' = InARow' /\ threshold' = threshold /\ mismatches' > 0
    BY <1>2, <1>5, <2>2 DEF Mismatch
  <2>4. suspicious' = (threshold' > 0 /\ mismatches' >= threshold')
    <3>1. (threshold' > 0 /\ mismatches' >= threshold')
            <=> (threshold > 0 /\ mismatches >= threshold) \/ mismatches + 1 = threshold
      BY <1>2, <1>5 DEF Mismatch
    <3>2. CheckResult(mismatches + 1) = "SuspiciousUpgrade" <=> mismatches + 1 = threshold
      BY DEF CheckResult
    <3>3. suspicious' = (suspicious \/ CheckResult(mismatches + 1) = "SuspiciousUpgrade")
      BY <1>5 DEF Mismatch
    <3>4. suspicious = (threshold > 0 /\ mismatches >= threshold)
      OBVIOUS
    <3> QED BY <3>1, <3>2, <3>3, <3>4, Zenon
  <2>5. answers' = [check |-> CheckResult(mismatches)', validate |-> ValidateResult(consecutive)']
    BY <1>2, <1>5 DEF Mismatch, CheckResult, ValidateResult
  <2> QED BY <2>2, <2>3, <2>4, <2>5
<1>6. CASE ResetClient
  <2>1. log' = Append(log, "reset_client") /\ "reset_client" \in Logged
    BY <1>6 DEF ResetClient, Logged
  <2>2. log' \in Seq(Logged) /\ log'[Len(log')] = "reset_client" /\ Unforgiven' = 0 /\ InARow' = consecutive
    BY <1>3, <2>1
  <2>3. threshold' \in Nat /\ mismatches' = 0 /\ consecutive' = consecutive
    BY <1>6 DEF ResetClient
  <2>4. ~ (threshold' > 0 /\ mismatches' >= threshold')
    BY <2>3
  <2>5. suspicious' = (threshold' > 0 /\ mismatches' >= threshold')
    BY <1>6, <2>4, Zenon DEF ResetClient
  <2> QED BY <2>2, <2>3, <2>5
<1>7. CASE ResetConsecutive
  <2>1. log' = Append(log, "reset_consecutive") /\ "reset_consecutive" \in Logged
    BY <1>7 DEF ResetConsecutive, Logged
  <2>2. /\ log' \in Seq(Logged) /\ log'[Len(log')] = "reset_consecutive"
        /\ Unforgiven' = mismatches /\ InARow' = 0
    BY <1>3, <2>1
  <2> QED BY <1>7, <2>2 DEF ResetConsecutive
<1>8. CASE UNCHANGED hashVars
  BY <1>1, <1>8 DEF hashVars, CheckResult, ValidateResult
<1> QED BY <1>4, <1>5, <1>6, <1>7, <1>8 DEF HashNext

\* HashChecker of the server and HashValidator of the client: for every threshold and any
\* history of matches, mismatches and resets, the counters mark a client exactly
\* when the mismatches since its last reset say so, and the upgrade is announced
\* once.
THEOREM SuspicionFollowsHistory == HashSpec => []SuspicionMatchesHistory
<1>1. HashInv => SuspicionMatchesHistory
  <2> SUFFICES ASSUME HashInv PROVE SuspicionMatchesHistory
    OBVIOUS
  <2>1. mismatches \in Nat /\ consecutive \in Nat
    BY CountsAreRuns, RunOfMissesType DEF HashInv
  <2> QED BY <2>1, ThresholdAssumption DEF HashInv, SuspicionMatchesHistory, CheckResult, ValidateResult
<1> QED BY <1>1, HashInit, HashStep, PTL DEF HashSpec

-----------------------------------------------------------------------------
(* The queue to the shadow worker *)

Messages == [kind : {"empty", "response", "error"}, request : BOOLEAN, worker : Nat]

\* Answers to requests that worker number n was sent.
AnswersOf(n) == {m \in Messages : m.request /\ m.worker = n}

\* The types of what the main thread and the worker hold.
QueueTypeOK ==
  /\ strays \in Nat /\ lost \in Nat /\ workers \in Nat
  /\ pending \in 0 .. MAX_PENDING_REQUESTS
  /\ worker \in {"loading", "first", "ready", "uninit", "broken", "stuck", "gone"}
  /\ to_worker \in Seq({"init", "validate"})
  /\ queued \in 0 .. Len(to_worker)
  /\ to_main \in Seq(Messages)

\* Only a worker that has not read its first message has ShadowInit before it.
InitComesFirst ==
  /\ worker \in {"loading", "first"} =>
       /\ to_worker # <<>> /\ to_worker[1] = "init"
       /\ \A i \in 2 .. Len(to_worker) : to_worker[i] = "validate"
  /\ worker \in {"ready", "uninit", "broken"} => \A i \in 1 .. Len(to_worker) : to_worker[i] = "validate"

\* What a message carries never comes from a worker that does not exist yet.
StampsInThePast == \A i \in DOMAIN to_main : to_main[i].worker <= workers

\* What the queue leaves out of its count: no more than there were stray answers.
CountedRight == Unanswered + lost - pending \in 0 .. strays

\* The inductive invariant: the count is right in every state of the lifecycle,
\* also while a worker that has thrown goes on, or while its restart is due.
QueueInv ==
  /\ QueueTypeOK
  /\ InitComesFirst
  /\ StampsInThePast
  /\ CountedRight

\* Unanswered, as a count of messages.
UnansweredIsCount ==
  /\ Unanswered = Count(to_worker, {"validate"}) + Count(to_main, AnswersOf(workers))
  /\ Count(to_worker, {"validate"}) \in Nat /\ Count(to_main, AnswersOf(workers)) \in Nat

\* The unanswered requests are those that wait and those whose answers do.
LEMMA UnansweredCounts == QueueTypeOK => UnansweredIsCount
<1> SUFFICES ASSUME QueueTypeOK PROVE UnansweredIsCount
  OBVIOUS
<1>1. {i \in DOMAIN to_worker : to_worker[i] = "validate"}
        = {i \in DOMAIN to_worker : to_worker[i] \in {"validate"}}
  OBVIOUS
<1>2. OnTheWay = {i \in DOMAIN to_main : to_main[i] \in AnswersOf(workers)}
  BY DEF OnTheWay, Answers, AnswersOf, QueueTypeOK
<1>3. Count(to_worker, {"validate"}) \in Nat /\ Count(to_main, AnswersOf(workers)) \in Nat
  BY CountType DEF QueueTypeOK
<1> QED BY <1>1, <1>2, <1>3 DEF Unanswered, Validates, Count, UnansweredIsCount

\* They are counted so before and after a step.
LEMMA CountsAcross ==
  ASSUME QueueTypeOK, QueueTypeOK'
  PROVE  /\ Unanswered = Count(to_worker, {"validate"}) + Count(to_main, AnswersOf(workers))
         /\ Unanswered' = Count(to_worker', {"validate"}) + Count(to_main', AnswersOf(workers'))
         /\ Count(to_worker, {"validate"}) \in Nat /\ Count(to_main, AnswersOf(workers)) \in Nat
         /\ Count(to_worker', {"validate"}) \in Nat /\ Count(to_main', AnswersOf(workers')) \in Nat
<1>1. QueueTypeOK' => UnansweredIsCount'
  BY UnansweredCounts, PTL
<1> QED BY <1>1, UnansweredCounts DEF UnansweredIsCount

\* A step that moves a request from the unanswered to the lost, or nothing.
LEMMA NothingForgotten ==
  ASSUME QueueTypeOK, QueueTypeOK', CountedRight, pending' = pending, strays' = strays,
         Unanswered' + lost' = Unanswered + lost
  PROVE  CountedRight'
<1>1. Unanswered \in Nat /\ Unanswered' \in Nat
  BY CountsAcross
<1>2. pending \in Int /\ strays \in Nat /\ lost \in Nat /\ lost' \in Nat
  BY ShadowConstants DEF QueueTypeOK
<1>3. Unanswered + lost - pending \in 0 .. strays
  BY DEF CountedRight
<1>4. ASSUME NEW u \in Nat, NEW l \in Nat, NEW v \in Nat, NEW k \in Nat, NEW p \in Int,
             v + k = u + l, u + l - p \in 0 .. strays
      PROVE  v + k - p \in 0 .. strays
  BY <1>2, <1>4
<1>5. Unanswered' + lost' - pending \in 0 .. strays
  BY <1>1, <1>2, <1>3, <1>4
<1> QED BY <1>5 DEF CountedRight

\* No request has been sent at first.
LEMMA QueueInitOK == ShadowInit => QueueInv
<1> SUFFICES ASSUME ShadowInit PROVE QueueInv
  OBVIOUS
<1>1. QueueTypeOK
  <2>1. 0 \in 0 .. MAX_PENDING_REQUESTS
    BY ShadowConstants
  <2>2. to_worker \in Seq({"init", "validate"}) /\ to_main \in Seq(Messages) /\ 0 \in 0 .. Len(to_worker)
    BY DEF ShadowInit
  <2> QED BY <2>1, <2>2 DEF ShadowInit, QueueTypeOK
<1>2. to_worker # <<>> /\ to_worker[1] = "init" /\ Len(to_worker) = 1
  BY DEF ShadowInit
<1>3. InitComesFirst /\ StampsInThePast
  BY <1>2 DEF ShadowInit, InitComesFirst, StampsInThePast
<1>4. Count(to_worker, {"validate"}) = 0 /\ Count(to_main, AnswersOf(workers)) = 0
  <2>1. /\ to_worker \in Seq({"init", "validate"}) /\ to_main \in Seq(Messages)
        /\ \A i \in DOMAIN to_worker : to_worker[i] \notin {"validate"}
        /\ \A i \in DOMAIN to_main : to_main[i] \notin AnswersOf(workers)
    BY <1>1 DEF ShadowInit, QueueTypeOK
  <2> QED BY <2>1, CountEmpty
<1>5. CountedRight
  BY <1>1, <1>4, UnansweredCounts DEF ShadowInit, CountedRight, UnansweredIsCount
<1> QED BY <1>1, <1>3, <1>5 DEF QueueInv

\* A frame counts a request only below the limit, and one that it fails to send
\* is lost.
LEMMA QueueFrameOK ==
  ASSUME QueueInv, MainFrame
  PROVE  QueueInv'
<1>1. /\ worker' = worker /\ queued' = queued /\ workers' = workers /\ to_main' = to_main /\ strays' = strays
  BY DEF MainFrame
<1>2. \/ /\ pending < MAX_PENDING_REQUESTS /\ pending' = pending + 1
         /\ to_worker' = Append(to_worker, "validate") /\ lost' = lost
      \/ /\ pending < MAX_PENDING_REQUESTS /\ pending' = pending + 1
         /\ to_worker' = to_worker /\ lost' = lost + 1
      \/ pending' = pending /\ to_worker' = to_worker /\ lost' = lost
  BY DEF MainFrame, MaySend, Sent, SendFails
<1>3. StampsInThePast'
  BY <1>1 DEF QueueInv, StampsInThePast
<1>4. CASE to_worker' = to_worker
  <2>1. Unanswered' = Unanswered
    BY <1>1, <1>4 DEF Unanswered, OnTheWay, Answers
  <2>2. QueueTypeOK'
    <3>1. QueueTypeOK
      BY DEF QueueInv
    <3>2. pending' \in 0 .. MAX_PENDING_REQUESTS /\ lost' \in Nat
      <4>1. pending \in 0 .. MAX_PENDING_REQUESTS /\ lost \in Nat /\ MAX_PENDING_REQUESTS \in Nat
        BY <3>1, ShadowConstants DEF QueueTypeOK
      <4> QED BY <1>2, <4>1
    <3>3. /\ strays' \in Nat /\ workers' \in Nat /\ to_main' \in Seq(Messages)
          /\ to_worker' \in Seq({"init", "validate"})
          /\ worker' \in {"loading", "first", "ready", "uninit", "broken", "stuck", "gone"}
      BY <1>1, <1>4, <3>1 DEF QueueTypeOK
    <3>4. queued' \in 0 .. Len(to_worker')
      BY <1>1, <1>4, <3>1 DEF QueueTypeOK
    <3> QED BY <3>2, <3>3, <3>4 DEF QueueTypeOK
  <2>3. InitComesFirst'
    BY <1>1, <1>4 DEF QueueInv, InitComesFirst
  <2>4. lost' - pending' = lost - pending
    BY <1>2, <1>4 DEF QueueInv, QueueTypeOK
  <2>5. Unanswered \in Nat
    BY <2>2, CountsAcross DEF QueueInv
  <2>6. CountedRight'
    BY <1>1, <2>1, <2>2, <2>4, <2>5 DEF QueueInv, QueueTypeOK, CountedRight
  <2> QED BY <1>3, <2>2, <2>3, <2>6 DEF QueueInv
<1>5. CASE /\ pending < MAX_PENDING_REQUESTS /\ pending' = pending + 1
           /\ to_worker' = Append(to_worker, "validate") /\ lost' = lost
  <2>1. /\ to_worker \in Seq({"init", "validate"}) /\ to_worker' \in Seq({"init", "validate"})
        /\ Len(to_worker) \in Nat /\ Len(to_worker') = Len(to_worker) + 1
        /\ to_worker' # <<>> /\ to_worker'[Len(to_worker) + 1] = "validate"
        /\ \A i \in 1 .. Len(to_worker) : to_worker'[i] = to_worker[i]
    BY <1>5 DEF QueueInv, QueueTypeOK
  <2>2. QueueTypeOK'
    <3>1. QueueTypeOK /\ MAX_PENDING_REQUESTS \in Nat
      BY ShadowConstants DEF QueueInv
    <3>2. pending' \in 0 .. MAX_PENDING_REQUESTS
      BY <1>5, <3>1 DEF QueueTypeOK
    <3>3. /\ strays' \in Nat /\ workers' \in Nat /\ lost' \in Nat /\ to_main' \in Seq(Messages)
          /\ worker' \in {"loading", "first", "ready", "uninit", "broken", "stuck", "gone"}
      BY <1>1, <1>5, <3>1 DEF QueueTypeOK
    <3>4. queued' \in 0 .. Len(to_worker')
      BY <1>1, <2>1, <3>1 DEF QueueTypeOK
    <3> QED BY <2>1, <3>2, <3>3, <3>4 DEF QueueTypeOK
  <2>3. InitComesFirst'
    <3>1. to_worker # <<>> => 1 \in 1 .. Len(to_worker)
      BY <2>1
    <3>2. \A i \in 1 .. Len(to_worker') : i = Len(to_worker) + 1 \/ i \in 1 .. Len(to_worker)
      BY <2>1
    <3>3. \A i \in 2 .. Len(to_worker') : i = Len(to_worker) + 1 \/ i \in 2 .. Len(to_worker)
      BY <2>1
    <3>4. \A i \in 2 .. Len(to_worker) : to_worker'[i] = to_worker[i]
      BY <2>1
    <3> QED BY <1>1, <2>1, <3>1, <3>2, <3>3, <3>4, Zenon DEF QueueInv, InitComesFirst
  <2>4. Count(to_worker', {"validate"}) = Count(to_worker, {"validate"}) + 1
    BY <1>5, <2>1, CountAppend
  <2>5. Unanswered' = Unanswered + 1 /\ Unanswered \in Nat
    BY <1>1, <2>2, <2>4, CountsAcross DEF QueueInv
  <2>6. CountedRight'
    BY <1>1, <1>5, <2>5 DEF QueueInv, QueueTypeOK, CountedRight
  <2> QED BY <1>3, <2>2, <2>3, <2>6 DEF QueueInv
<1> QED BY <1>2, <1>4, <1>5

\* An answer that arrives frees one place, unless it has no bytes.
LEMMA QueueMessageOK ==
  ASSUME QueueInv, OnMessage
  PROVE  QueueInv'
<1> DEFINE m == Head(to_main)
           A == AnswersOf(workers)
<1>1. /\ to_main # <<>> /\ to_main' = Tail(to_main) /\ to_main \in Seq(Messages)
      /\ worker' = worker /\ to_worker' = to_worker /\ queued' = queued /\ workers' = workers
  BY DEF OnMessage, workerVars, QueueInv, QueueTypeOK
<1>2. /\ to_main' \in Seq(Messages) /\ m \in Messages
      /\ \A i \in DOMAIN to_main' : i + 1 \in DOMAIN to_main /\ to_main'[i] = to_main[i + 1]
  BY <1>1
<1>3. Count(to_main, A) = Count(to_main', A) + (IF m \in A THEN 1 ELSE 0)
  BY <1>1, CountTail
<1>4. m \in A <=> Answers(m)
  BY <1>2 DEF Answers, AnswersOf
<1>5. InitComesFirst' /\ StampsInThePast'
  BY <1>1, <1>2 DEF QueueInv, InitComesFirst, StampsInThePast
<1>6. CASE m.kind = "empty"
  <2>1. /\ pending' = pending /\ strays' = strays
        /\ lost' = lost + (IF m \in A THEN 1 ELSE 0)
    BY <1>4, <1>6 DEF OnMessage, QueueInv, QueueTypeOK
  <2>2. QueueTypeOK'
    BY <1>1, <1>2, <2>1 DEF QueueInv, QueueTypeOK
  <2> HIDE DEF A, m
  <2>3. Unanswered' + lost' = Unanswered + lost
    <3>1. QueueTypeOK
      BY DEF QueueInv
    <3>2. lost \in Nat
      BY <3>1 DEF QueueTypeOK
    <3>3. /\ Unanswered = Count(to_worker, {"validate"}) + Count(to_main, A)
          /\ Unanswered' = Count(to_worker, {"validate"}) + Count(to_main', A)
          /\ Count(to_worker, {"validate"}) \in Nat /\ Count(to_main, A) \in Nat
          /\ Count(to_main', A) \in Nat
      BY <1>1, <2>2, <3>1, CountsAcross DEF A
    <3> QED BY <1>3, <2>1, <3>2, <3>3
  <2>4. CountedRight'
    BY <2>1, <2>2, <2>3, NothingForgotten DEF QueueInv
  <2> QED BY <1>5, <2>2, <2>4 DEF QueueInv
<1>7. CASE m.kind # "empty"
  <2>1. /\ pending' = (IF pending = 0 THEN 0 ELSE pending - 1) /\ lost' = lost
        /\ strays' = IF m \in A THEN strays ELSE strays + 1
    BY <1>4, <1>7 DEF OnMessage, AfterAnswer
  <2>2. /\ pending \in 0 .. MAX_PENDING_REQUESTS /\ MAX_PENDING_REQUESTS \in Nat /\ strays \in Nat
        /\ pending' \in 0 .. MAX_PENDING_REQUESTS /\ strays' \in Nat /\ lost \in Nat
    BY <2>1, ShadowConstants DEF QueueInv, QueueTypeOK
  <2>3. QueueTypeOK'
    BY <1>1, <1>2, <2>1, <2>2 DEF QueueInv, QueueTypeOK
  <2>4. /\ Unanswered' = Unanswered - (IF m \in A THEN 1 ELSE 0)
        /\ Unanswered' \in Nat /\ Unanswered \in Nat
    BY <1>1, <1>3, <2>3, CountsAcross DEF QueueInv
  <2>5. CountedRight'
    <3> HIDE DEF A, m
    <3>1. Unanswered + lost - pending \in 0 .. strays
      BY DEF QueueInv, CountedRight
    <3>2. CASE m \in A
      BY <2>1, <2>2, <2>4, <3>1, <3>2 DEF CountedRight
    <3>3. CASE m \notin A
      BY <2>1, <2>2, <2>4, <3>1, <3>3 DEF CountedRight
    <3> QED BY <3>2, <3>3
  <2> QED BY <1>5, <2>3, <2>5 DEF QueueInv
<1> QED BY <1>6, <1>7

\* What the queue's invariant is about, unchanged.
LEMMA QueueStays ==
  ASSUME QueueInv, UNCHANGED <<pending, workerVars, to_main, strays, lost>>
  PROVE  QueueInv'
<1>1. Unanswered' = Unanswered
  BY DEF workerVars, Unanswered, OnTheWay, Answers
<1> QED BY <1>1 DEF workerVars, QueueInv, QueueTypeOK, InitComesFirst, StampsInThePast, CountedRight

\* A restart empties the queue, and no answer under way is the new worker's.
LEMMA QueueRestartOK ==
  ASSUME QueueInv, StartRestart
  PROVE  QueueInv'
<1>1. \/ UNCHANGED <<pending, workerVars, to_main, strays, lost>>
      \/ Restart /\ to_main' = to_main
  BY DEF StartRestart
<1>2. CASE Restart /\ to_main' = to_main
  <2>1. /\ pending' = 0 /\ worker' = "loading" /\ to_worker' = <<"init">> /\ queued' = 0
        /\ workers' = workers + 1 /\ strays' = 0 /\ lost' = 0
    BY <1>2 DEF Restart, NewWorker
  <2>2. /\ to_worker' \in Seq({"init", "validate"}) /\ to_worker'[1] = "init"
        /\ Len(to_worker') = 1 /\ to_worker' # <<>>
        /\ \A i \in DOMAIN to_worker' : to_worker'[i] \notin {"validate"}
    BY <2>1
  <2>3. QueueTypeOK'
    BY <1>2, <2>1, <2>2, ShadowConstants DEF QueueInv, QueueTypeOK
  <2>4. InitComesFirst'
    BY <2>1, <2>2 DEF InitComesFirst
  <2>5. \A i \in DOMAIN to_main : /\ to_main[i].worker \in Nat /\ to_main[i].worker < workers + 1
    <3>1. \A a \in Messages : a.worker \in Nat
      BY DEF Messages
    <3>2. \A i \in DOMAIN to_main : to_main[i] \in Messages
      BY DEF QueueInv, QueueTypeOK
    <3>3. \A i \in DOMAIN to_main : to_main[i].worker \in Nat
      BY <3>1, <3>2, Zenon
    <3> QED BY <3>3 DEF QueueInv, StampsInThePast, QueueTypeOK
  <2>6. StampsInThePast'
    BY <1>2, <2>1, <2>5 DEF QueueInv, QueueTypeOK, StampsInThePast
  <2>7. Count(to_worker', {"validate"}) = 0
    BY <2>2, CountEmpty
  <2>8. \A i \in DOMAIN to_main : to_main[i] \notin AnswersOf(workers')
    BY <2>1, <2>5 DEF AnswersOf, QueueInv, QueueTypeOK
  <2>9. Count(to_main', AnswersOf(workers')) = 0
    BY <1>2, <2>8, CountEmpty DEF QueueInv, QueueTypeOK
  <2>10. Unanswered' = 0
    BY <2>3, <2>7, <2>9, CountsAcross DEF QueueInv
  <2>11. CountedRight'
    BY <2>1, <2>10 DEF CountedRight
  <2> QED BY <2>3, <2>4, <2>6, <2>11 DEF QueueInv
<1> QED BY <1>1, <1>2, QueueStays

\* A message dispatched by a handler that returns, and its answer.
LEMMA QueueHandlerOK ==
  ASSUME QueueInv, HandleInit \/ HandleMessage
  PROVE  QueueInv'
<1>1. /\ to_worker # <<>> /\ to_worker' = Tail(to_worker)
      /\ queued' = (IF queued = 0 THEN 0 ELSE queued - 1)
      /\ pending' = pending /\ workers' = workers /\ strays' = strays /\ lost' = lost
      /\ worker' \in {"ready", "uninit"}
  BY DEF HandleInit, HandleMessage, Dispatched, mainVars, auxShadow
<1>2. PICK m \in Messages : m.worker = workers /\ (m.request <=> HandleMessage) /\ to_main' = Append(to_main, m)
  <2>1. workers \in Nat
    BY DEF QueueInv, QueueTypeOK
  <2>2. \A k \in {"empty", "response", "error"}, b \in BOOLEAN :
          LET m == [kind |-> k, request |-> b, worker |-> workers]
          IN  m \in Messages /\ m.worker = workers /\ m.request = b
    BY <2>1 DEF Messages
  <2>3. CASE HandleInit
    <3>1. ~ HandleMessage
      BY <2>3 DEF HandleInit, HandleMessage
    <3>2. \E k \in {"empty", "response", "error"} : Post(k, FALSE)
      BY <2>3 DEF HandleInit
    <3>3. PICK k \in {"empty", "response", "error"} :
            to_main' = Append(to_main, [kind |-> k, request |-> FALSE, worker |-> workers])
      BY <3>2 DEF Post
    <3>4. [kind |-> k, request |-> FALSE, worker |-> workers] \in Messages
      BY <2>2
    <3> WITNESS [kind |-> k, request |-> FALSE, worker |-> workers] \in Messages
    <3> QED BY <3>1, <3>3
  <2>4. CASE HandleMessage
    <3>2. \E k \in {"empty", "response", "error"} : Post(k, TRUE)
      BY <2>4 DEF HandleMessage
    <3>3. PICK k \in {"empty", "response", "error"} :
            to_main' = Append(to_main, [kind |-> k, request |-> TRUE, worker |-> workers])
      BY <3>2 DEF Post
    <3>4. [kind |-> k, request |-> TRUE, worker |-> workers] \in Messages
      BY <2>2
    <3> WITNESS [kind |-> k, request |-> TRUE, worker |-> workers] \in Messages
    <3> QED BY <2>4, <3>3
  <2> QED BY <2>3, <2>4
<1>3. to_main \in Seq(Messages) /\ workers \in Nat /\ to_worker \in Seq({"init", "validate"})
  BY DEF QueueInv, QueueTypeOK
<1>4. /\ to_main' \in Seq(Messages)
      /\ \A i \in DOMAIN to_main' : (i \in DOMAIN to_main /\ to_main'[i] = to_main[i]) \/ to_main'[i] = m
  BY <1>2, <1>3
<1>5. StampsInThePast'
  BY <1>1, <1>2, <1>3, <1>4 DEF QueueInv, StampsInThePast
<1>6. /\ to_worker' \in Seq({"init", "validate"}) /\ Len(to_worker) \in Nat /\ Len(to_worker) > 0
      /\ Len(to_worker') = Len(to_worker) - 1 /\ Head(to_worker) = to_worker[1]
      /\ \A i \in 1 .. Len(to_worker') : to_worker'[i] = to_worker[i + 1]
  BY <1>1, <1>3
<1>7. QueueTypeOK'
  BY <1>1, <1>4, <1>6 DEF QueueInv, QueueTypeOK
<1>8. InitComesFirst' /\ (HandleInit => Head(to_worker) = "init") /\ (HandleMessage => Head(to_worker) = "validate")
  <2>1. \A i \in 1 .. Len(to_worker') : i + 1 \in 2 .. Len(to_worker) /\ i + 1 \in 1 .. Len(to_worker)
    BY <1>6
  <2>2. worker \in {"first", "ready", "uninit"} /\ (HandleInit => worker = "first")
        /\ (HandleMessage => worker \in {"ready", "uninit"})
    BY DEF HandleInit, HandleMessage
  <2>3. 1 \in 1 .. Len(to_worker)
    BY <1>6
  <2> QED BY <1>1, <1>6, <2>1, <2>2, <2>3 DEF QueueInv, InitComesFirst
<1>9. Count(to_worker, {"validate"}) = Count(to_worker', {"validate"}) + (IF HandleMessage THEN 1 ELSE 0)
  <2>1. HandleMessage <=> Head(to_worker) \in {"validate"}
    BY <1>8
  <2>2. Count(to_worker, {"validate"}) = Count(to_worker', {"validate"}) + (IF Head(to_worker) \in {"validate"} THEN 1 ELSE 0)
    BY <1>1, <1>3, CountTail
  <2> QED BY <2>1, <2>2, Zenon
<1>10. Count(to_main', AnswersOf(workers)) = Count(to_main, AnswersOf(workers)) + (IF HandleMessage THEN 1 ELSE 0)
  <2>1. m \in AnswersOf(workers) <=> HandleMessage
    BY <1>2 DEF AnswersOf
  <2>2. Count(to_main', AnswersOf(workers))
          = Count(to_main, AnswersOf(workers)) + (IF m \in AnswersOf(workers) THEN 1 ELSE 0)
    BY <1>2, <1>3, CountAppend
  <2> QED BY <2>1, <2>2, Zenon
<1>11. Unanswered' = Unanswered /\ Unanswered \in Nat
  <2>1. QueueTypeOK
    BY DEF QueueInv
  <2> QED BY <1>1, <1>7, <1>9, <1>10, <2>1, CountsAcross
<1>12. CountedRight'
  BY <1>1, <1>7, <1>11, NothingForgotten DEF QueueInv, QueueTypeOK
<1> QED BY <1>5, <1>7, <1>8, <1>12 DEF QueueInv

\* A throw loses the message it was thrown for, or the rest of pendingMessages.
LEMMA QueueThrownOK ==
  ASSUME QueueInv, Thrown, worker \in {"first", "ready", "uninit", "broken"},
         worker' \in {"ready", "uninit", "broken"}
  PROVE  QueueInv'
<1> DEFINE gone == IF queued = 0 THEN 1 ELSE queued
           n == Len(to_worker)
           left == SubSeq(to_worker, gone + 1, Len(to_worker))
           read == SubSeq(to_worker, 1, gone)
<1>1. /\ to_worker # <<>> /\ to_worker' = left /\ queued' = 0 /\ lost' = lost + Validates(read)
      /\ pending' = pending /\ workers' = workers /\ to_main' = to_main /\ strays' = strays
  BY DEF Thrown, mainVars
<1>2. /\ to_worker \in Seq({"init", "validate"}) /\ queued \in 0 .. n /\ lost \in Nat /\ n \in Nat
      /\ to_main \in Seq(Messages) /\ workers \in Nat
  BY DEF QueueInv, QueueTypeOK
<1>3. n > 0
  BY <1>1, <1>2
<1>4. gone \in 1 .. n
  BY <1>2, <1>3
<1> HIDE DEF gone
<1>5. /\ left \in Seq({"init", "validate"}) /\ Len(left) = n - gone
      /\ \A i \in 1 .. n - gone : left[i] = to_worker[gone + i]
  BY <1>2, <1>4
<1>6. read \in Seq({"init", "validate"})
  BY <1>2, <1>4
<1>7. Count(to_worker, {"validate"}) = Count(read, {"validate"}) + Count(left, {"validate"})
  <2>1. gone \in 0 .. Len(to_worker)
    BY <1>2, <1>4
  <2> QED BY <1>2, <2>1, CountSplit
<1> HIDE DEF left, read
<1>8. Validates(read) = Count(read, {"validate"}) /\ Count(read, {"validate"}) \in Nat
  <2>1. {i \in DOMAIN read : read[i] = "validate"} = {i \in DOMAIN read : read[i] \in {"validate"}}
    OBVIOUS
  <2>2. Count(read, {"validate"}) \in Nat
    BY <1>6, CountType
  <2> QED BY <2>1, <2>2 DEF Validates, Count
<1>9. QueueTypeOK'
  BY <1>1, <1>2, <1>4, <1>5, <1>8 DEF QueueInv, QueueTypeOK
<1>10. InitComesFirst'
  <2>1. \A i \in 1 .. n - gone : gone + i \in 2 .. n /\ gone + i \in 1 .. n
    BY <1>2, <1>4
  <2>2. \A i \in 1 .. n - gone : left[i] = "validate"
    BY <1>5, <2>1 DEF QueueInv, InitComesFirst
  <2> QED BY <1>1, <1>5, <2>2 DEF InitComesFirst
<1>11. StampsInThePast'
  BY <1>1 DEF QueueInv, StampsInThePast
<1>12. Unanswered' + lost' = Unanswered + lost
  <2>1. QueueTypeOK
    BY DEF QueueInv
  <2>2. /\ Unanswered = Count(to_worker, {"validate"}) + Count(to_main, AnswersOf(workers))
        /\ Unanswered' = Count(left, {"validate"}) + Count(to_main, AnswersOf(workers))
        /\ Count(left, {"validate"}) \in Nat /\ Count(to_main, AnswersOf(workers)) \in Nat
    BY <1>1, <1>9, <2>1, CountsAcross
  <2>3. lost' = lost + Count(read, {"validate"}) /\ lost \in Nat
    BY <1>1, <1>2, <1>8
  <2> QED BY <1>7, <1>8, <2>2, <2>3
<1>13. CountedRight'
  BY <1>1, <1>9, <1>12, NothingForgotten DEF QueueInv
<1> QED BY <1>9, <1>10, <1>11, <1>13 DEF QueueInv

\* Every step keeps the invariant of the queue.
LEMMA QueueNextOK == QueueInv /\ [ShadowNext]_shadowVars => QueueInv'
<1> SUFFICES ASSUME QueueInv, [ShadowNext]_shadowVars PROVE QueueInv'
  OBVIOUS
<1>1. CASE WorkerLoads \/ ScriptFails
  <2>1. /\ worker = "loading" /\ worker' \in {"first", "stuck", "gone"}
        /\ pending' = pending /\ to_worker' = to_worker /\ workers' = workers /\ to_main' = to_main
        /\ strays' = strays /\ lost' = lost /\ (queued' = queued \/ queued' \in 0 .. Len(to_worker))
    BY <1>1 DEF WorkerLoads, ScriptFails, mainVars, auxShadow
  <2>2. Unanswered' = Unanswered
    BY <2>1 DEF Unanswered, OnTheWay, Answers
  <2>3. QueueTypeOK'
    BY <2>1 DEF QueueInv, QueueTypeOK
  <2> QED BY <2>1, <2>2, <2>3 DEF QueueInv, InitComesFirst, StampsInThePast, CountedRight
<1>2. CASE HandlerPanics \/ BrokenPanics
  <2>1. /\ Thrown /\ worker \in {"first", "ready", "uninit", "broken"}
        /\ worker' \in {"ready", "uninit", "broken"}
    BY <1>2 DEF HandlerPanics, BrokenPanics
  <2> QED BY <2>1, QueueThrownOK
<1>3. CASE OnError
  BY <1>3, QueueStays DEF OnError, auxShadow
<1>4. CASE UNCHANGED shadowVars
  BY <1>4, QueueStays DEF shadowVars, mainVars, auxShadow
<1> QED BY <1>1, <1>2, <1>3, <1>4, QueueFrameOK, QueueMessageOK, QueueRestartOK, QueueHandlerOK DEF ShadowNext

\* ShadowRequestQueue with its worker: for every limit, every number of failures
\* and every delay of answers, the queue counts the requests that the current
\* worker has not answered and those that were lost since it was created, up to
\* one for each answer that belongs to none of them.
THEOREM QueueCountsRequests == ShadowSpec => []BackpressureExact
<1>1. QueueInv => BackpressureExact
  BY DEF QueueInv, QueueTypeOK, CountedRight, BackpressureExact
<1> QED BY QueueInitOK, QueueNextOK, <1>1, PTL DEF ShadowSpec
=============================================================================
