------------------------------- MODULE Replay --------------------------------
(***************************************************************************)
(* AuthoritativeSimulation (server/simulation/src/authoritative.rs), the   *)
(* recorder of its frames and the player that checks a recording against   *)
(* another simulation (server/replay_engine/src).  The game logic of       *)
(* step_full is still to be written: a step moves the tick and mirrors it  *)
(* and the RNG into the state, and leaves entities and RNG alone.  The     *)
(* owner of the simulation records every step it takes.                    *)
(***************************************************************************)
EXTENDS Integers, Sequences, FiniteSetsExt

CONSTANTS
  Members,       \* entity ids of players
  Seeds,         \* states of the RNG
  StartTicks,    \* tick of the initial state
  MaxRecorded,   \* bound of the model: frames recorded
  MaxSaved       \* bound of the model: snapshots taken

ASSUME ReplayConstants == StartTicks \subseteq Nat

VARIABLES
  sim,        \* [tick, rng, state]: current_tick, rng and the GameSnapshot
  members,    \* players: entity id -> joined_at_tick
  saved,      \* ServerSnapshots the owner holds
  start,      \* initial_state the simulation was created from
  recorded,   \* frames of the recorder
  playing,    \* is there a player yet
  player,     \* [sim, idx] of the playback: its simulation and current_frame_idx
  verdict,    \* what run_full returned: [kind, at], kind "none" before
  shown,      \* auxiliary: hash_match of the frames step_frame returned
  rewound     \* auxiliary: per frame, how far behind its position in the recording its tick was

simVars == <<sim, members, saved, start>>
replayVars == <<sim, members, saved, start, recorded, playing, player, verdict, shown, rewound>>

\* AuthoritativeSimulation::new: the seed wins over the state's own rng_state.
NewSim(initial, seed) ==
  [tick |-> initial.tick, rng |-> seed, state |-> [initial EXCEPT !.rng = seed]]

\* compute_state_hash: the entities never change, the hash is injective.
HashOf(s) == <<s.rng, s.tick>>

\* step_full's check of the ticks its inputs carry.
Accepts(s, inputs) == \A i \in inputs : i = s.tick

\* The rest of step_full.
Stepped(s) ==
  [tick |-> s.tick + 1, rng |-> s.rng,
   state |-> [tick |-> s.tick + 1, frame |-> s.tick + 1, rng |-> s.rng]]

RestoreRng(s, rng) == [s EXCEPT !.rng = rng, !.state.rng = rng]

NoVerdict == [kind |-> "none", at |-> 0]

ReplayInit ==
  /\ start \in [tick : StartTicks, frame : {0}, rng : Seeds]
  /\ \E seed \in Seeds : sim = NewSim(start, seed)
  /\ members = [p \in {} |-> 0]
  /\ saved = {}
  /\ recorded = <<>> /\ rewound = <<>>
  /\ playing = FALSE /\ player = [sim |-> sim, idx |-> 0]
  /\ verdict = NoVerdict /\ shown = <<>>

-----------------------------------------------------------------------------
(* The server. *)

Recording == ~playing /\ UNCHANGED <<start, playing, player, verdict, shown>>

\* step_full, then record_frame with the RNG before the step and the hash after
\* it.  An input of another tick is a TickMismatch, which changes nothing.
ServerStep(inputs) ==
  /\ Recording
  /\ Len(recorded) < MaxRecorded
  /\ Accepts(sim, inputs)
  /\ sim' = Stepped(sim)
  /\ recorded' = Append(recorded, [tick |-> sim.tick, inputs |-> inputs, rng |-> sim.rng,
                                   hash |-> HashOf(Stepped(sim))])
  /\ rewound' = Append(rewound, start.tick + Len(recorded) - sim.tick)
  /\ UNCHANGED <<members, saved>>

AddPlayer(p) ==
  /\ Recording
  /\ members' = [q \in DOMAIN members \cup {p} |-> IF q = p THEN sim.tick ELSE members[q]]
  /\ UNCHANGED <<sim, saved, recorded, rewound>>

RemovePlayer(p) ==
  /\ Recording
  /\ p \in DOMAIN members
  /\ members' = [q \in DOMAIN members \ {p} |-> members[q]]
  /\ UNCHANGED <<sim, saved, recorded, rewound>>

MakeSnapshot ==
  /\ Recording
  /\ Cardinality(saved) < MaxSaved
  /\ saved' = saved \cup {[game |-> sim.state, members |-> members]}
  /\ UNCHANGED <<sim, members, recorded, rewound>>

\* A restore that keeps the players of the present.
RestoreSnapshot_Mut(s) ==
  /\ Recording
  /\ sim' = [tick |-> s.game.tick, rng |-> s.game.rng, state |-> s.game]
  /\ UNCHANGED <<members, saved, recorded, rewound>>

\* restore_snapshot: the players go back with the game.  The recorder is not told.
RestoreSnapshot(s) ==
  /\ Recording
  /\ sim' = [tick |-> s.game.tick, rng |-> s.game.rng, state |-> s.game]
  /\ members' = s.members
  /\ UNCHANGED <<saved, recorded, rewound>>

-----------------------------------------------------------------------------
(* The validator, with a simulation of its own. *)

\* ReplayPlayer::new and a simulation from the same initial state; its seed is of no account.
StartPlayback(seed) ==
  /\ ~playing /\ playing' = TRUE
  /\ player' = [sim |-> NewSim(start, seed), idx |-> 0]
  /\ UNCHANGED <<simVars, recorded, rewound, verdict, shown>>

\* Playback that trusts the simulation's own RNG.
Prepared_Mut(s, f) == s

\* What both loops do with a frame before its step.
Prepared(s, f) == RestoreRng(s, f.rng)

Matches(s, f) == HashOf(Stepped(s)) = f.hash

\* The simulation before frame i of a playback that began at s and had no error.
At(s, k) ==
  LET at[i \in DOMAIN recorded] ==
        Prepared(IF i = 1 THEN s ELSE Stepped(at[i - 1]), recorded[i])
  IN  at[k]

Fails(s, i) == ~Accepts(At(s, i), recorded[i].inputs) \/ ~Matches(At(s, i), recorded[i])

\* run_full on a fresh simulation: it stops at the first frame that fails and
\* names its tick, or gives the number of frames.
RunFull ==
  /\ playing /\ verdict = NoVerdict /\ player.idx = 0
  /\ LET bad == {i \in DOMAIN recorded : Fails(player.sim, i)}
         s   == player.sim
     IN  IF bad = {}
         THEN /\ verdict' = [kind |-> "Ok", at |-> Len(recorded)]
              /\ player' = [sim |-> IF recorded = <<>> THEN s ELSE Stepped(At(s, Len(recorded))),
                            idx |-> Len(recorded)]
         ELSE LET k == Min(bad)
              IN  IF Accepts(At(s, k), recorded[k].inputs)
                  THEN /\ verdict' = [kind |-> "Desync", at |-> recorded[k].tick]
                       /\ player' = [sim |-> Stepped(At(s, k)), idx |-> 0]
                  ELSE /\ verdict' = [kind |-> "SimulationError", at |-> recorded[k].tick]
                       /\ player' = [sim |-> At(s, k), idx |-> 0]
  /\ UNCHANGED <<simVars, recorded, rewound, playing, shown>>

\* step_frame: a frame whose step fails is not passed, and only its RNG stays.
StepFrame ==
  /\ playing /\ verdict = NoVerdict /\ player.idx < Len(recorded)
  /\ LET f == recorded[player.idx + 1]
         s == Prepared(player.sim, f)
     IN  IF Accepts(s, f.inputs)
         THEN /\ player' = [sim |-> Stepped(s), idx |-> player.idx + 1]
              /\ shown' = Append(shown, Matches(s, f))
         ELSE player' = [player EXCEPT !.sim = s] /\ UNCHANGED shown
  /\ UNCHANGED <<simVars, recorded, rewound, playing, verdict>>

ReplayNext ==
  \/ \E inputs \in SUBSET {sim.tick} : ServerStep(inputs)
  \/ \E p \in Members : AddPlayer(p) \/ RemovePlayer(p)
  \/ MakeSnapshot \/ \E s \in saved : RestoreSnapshot(s)
  \/ \E seed \in Seeds : StartPlayback(seed)
  \/ RunFull \/ StepFrame

ReplaySpec == ReplayInit /\ [][ReplayNext]_replayVars

-----------------------------------------------------------------------------
\* However often snapshots were restored, no player of the simulation, and none
\* in a snapshot, joined after the tick it is shown at: joined_at_tick is there
\* for timeouts, which subtract it from the current tick.
JoinedInThePast ==
  /\ \A p \in DOMAIN members : members[p] <= sim.tick
  /\ \A s \in saved : \A p \in DOMAIN s.members : s.members[p] <= s.game.tick

\* The frames recorded after a restored snapshot moved the tick back.
Displaced == {i \in DOMAIN recorded : rewound[i] # 0}

\* run_full clears a recording exactly when every frame was recorded at the
\* tick its position stands for, whatever seed the checking simulation got;
\* otherwise it names the tick of the first frame that was not, which a restored
\* snapshot in the middle of a recording is enough for.  Stepping through the
\* recording shows the same: a frame matches exactly if it was recorded in
\* place, and a frame the simulation refuses is never passed.
VerdictExact ==
  /\ verdict # NoVerdict =>
       IF Displaced = {}
       THEN verdict = [kind |-> "Ok", at |-> Len(recorded)]
       ELSE verdict.kind # "Ok" /\ verdict.at = recorded[Min(Displaced)].tick
  /\ \A i \in DOMAIN shown :
       /\ shown[i] = (i \notin Displaced)
       /\ i \in Displaced => recorded[i].inputs = {}
=============================================================================
