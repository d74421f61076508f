-------------------------------- MODULE Input --------------------------------
(***************************************************************************)
(* The player's input (engine/bevy_runtime/src/input, fixed_update.rs,     *)
(* frame_orchestrator.rs): once per rendered frame the mouse is captured;  *)
(* none to three fixed ticks follow, of which the first hands the capture  *)
(* to scripts and netcode, and each lets the gesture recognizer look at    *)
(* it.  All of it runs only InGame; leaving resets the recognizer.         *)
(* Positions are points of a line, keys are left out, and one recognizer   *)
(* stands for the list of them.  PendingInputs, the copy for the scripts,  *)
(* is only ever appended to and is left out.                               *)
(***************************************************************************)
EXTENDS Integers, Sequences, FiniteSets

CONSTANTS
  CLICK_MAX_TICKS, CLICK_MAX_DISTANCE,
  DOUBLE_CLICK_MAX_TICKS, DOUBLE_CLICK_MAX_DISTANCE,
  LONG_PRESS_MIN_TICKS, DRAG_MIN_TICKS, DRAG_MIN_DISTANCE,
  MAX_CATCH_UP,     \* fixed ticks of a frame (50 ms of 16.67 ms)
  POSITIONS,        \* where the mouse may be
  MaxInputTicks, MaxInputFrames, MaxStateChanges  \* bounds of the model

ASSUME InputConstants ==
  /\ {CLICK_MAX_TICKS, CLICK_MAX_DISTANCE, DOUBLE_CLICK_MAX_TICKS, DOUBLE_CLICK_MAX_DISTANCE,
      LONG_PRESS_MIN_TICKS, DRAG_MIN_TICKS, DRAG_MIN_DISTANCE, MAX_CATCH_UP,
      MaxInputTicks, MaxInputFrames} \subseteq Nat \ {0}
  /\ POSITIONS \subseteq Int /\ 0 \in POSITIONS /\ MaxStateChanges \in Nat

VARIABLES
  raw_input,       \* RawPlayerInput: [frame, down, pos]
  ticks_done,      \* fixed ticks of this frame so far
  tick_count,      \* FixedTickCounter
  counted_first,   \* does increment_tick_counter run before the distribution
  in_game,         \* AppState::InGame
  player_known,    \* is there a LocalPlayerId
  last_frame,      \* the frame input_distribution_system has handed out
  net_inputs,      \* InputBufferRes: the frame captured for each tick
  recognizer,      \* GestureRecognizer
  gesture,         \* auxiliary: the event of the last tick
  wanted,          \* auxiliary: the event its reference definition gives
  hold,            \* auxiliary: ticks and positions seen since the button went down
  clicks,          \* auxiliary: clicks and double clicks since InGame was entered
  state_changes    \* auxiliary

gestureAux == <<gesture, wanted, hold, clicks>>
inputVars  == <<raw_input, ticks_done, tick_count, counted_first, in_game, player_known,
                last_frame, net_inputs, recognizer, gestureAux, state_changes>>

NoGesture == [kind |-> "none", pos |-> 0]
NoClick   == [tick |-> 0, pos |-> 0, some |-> FALSE]
Idle      == [state |-> "Idle", press_tick |-> 0, press_pos |-> 0, last_pos |-> 0, last_click |-> NoClick]

InputInit ==
  /\ raw_input = [frame |-> 0, down |-> FALSE, pos |-> 0]
  /\ ticks_done = 0 /\ tick_count = 0 /\ counted_first \in BOOLEAN
  /\ in_game = FALSE /\ player_known = FALSE
  /\ last_frame = 0 /\ net_inputs = <<>>
  /\ recognizer = Idle
  /\ gesture = NoGesture /\ wanted = NoGesture /\ hold = <<>> /\ clicks = <<>>
  /\ state_changes = 0

-----------------------------------------------------------------------------
(* GestureRecognizer *)

manhattan_distance(a, b) == IF a < b THEN b - a ELSE a - b

Event(kind, pos) == [kind |-> kind, pos |-> pos]
Stay(r)          == [next |-> r, event |-> NoGesture]

WhenIdle(r, t, down, pos) ==
  IF down THEN Stay([r EXCEPT !.state = "Pressed", !.press_tick = t, !.press_pos = pos, !.last_pos = pos])
  ELSE Stay(r)

IsDouble(r, t, pos) ==
  /\ r.last_click.some
  /\ t - r.last_click.tick < DOUBLE_CLICK_MAX_TICKS
  /\ manhattan_distance(pos, r.last_click.pos) < DOUBLE_CLICK_MAX_DISTANCE

\* The button is released in state Pressed.
Released(r, t, pos) ==
  LET idle == [r EXCEPT !.state = "Idle"]
  IN  IF ~ (/\ t - r.press_tick < CLICK_MAX_TICKS
            /\ manhattan_distance(pos, r.press_pos) < CLICK_MAX_DISTANCE) THEN Stay(idle)
      ELSE IF IsDouble(r, t, pos)
      THEN [next |-> [idle EXCEPT !.last_click = NoClick], event |-> Event("DoubleClick", pos)]
      ELSE [next |-> [idle EXCEPT !.last_click = [tick |-> t, pos |-> pos, some |-> TRUE]],
            event |-> Event("Click", pos)]

\* A recognizer that is idle again after a long press.
AfterLongPress_Mut(r) == [r EXCEPT !.state = "Idle"]

AfterLongPress(r) == [r EXCEPT !.state = "WaitForRelease"]

\* The button is still down in state Pressed.
StillPressed(r, t, pos) ==
  LET elapsed  == t - r.press_tick
      distance == manhattan_distance(pos, r.press_pos)
  IN  IF elapsed >= LONG_PRESS_MIN_TICKS /\ distance < DRAG_MIN_DISTANCE
      THEN [next |-> AfterLongPress(r), event |-> Event("LongPress", r.press_pos)]
      ELSE IF elapsed >= DRAG_MIN_TICKS /\ distance >= DRAG_MIN_DISTANCE
      THEN [next |-> [r EXCEPT !.state = "Dragging", !.last_pos = pos], event |-> Event("DragStart", r.press_pos)]
      ELSE Stay(r)

WhenDragging(r, down, pos) ==
  IF ~ down THEN [next |-> [r EXCEPT !.state = "Idle"], event |-> Event("DragEnd", pos)]
  ELSE IF pos # r.last_pos THEN [next |-> [r EXCEPT !.last_pos = pos], event |-> Event("Dragging", pos)]
  ELSE Stay(r)

\* GestureRecognizer::update
Update(r, t, down, pos) ==
  CASE r.state = "Idle"     -> WhenIdle(r, t, down, pos)
    [] r.state = "Pressed"  -> IF down THEN StillPressed(r, t, pos) ELSE Released(r, t, pos)
    [] r.state = "Dragging" -> WhenDragging(r, down, pos)
    [] OTHER -> Stay(IF down THEN r ELSE [r EXCEPT !.state = "Idle"])

-----------------------------------------------------------------------------
(* What a gesture is, said of all that was seen since the button went down. *)

\* The hold h is long, or drags, at its i-th tick.
LongAt(h, i) == /\ h[i].tick - h[1].tick >= LONG_PRESS_MIN_TICKS
                /\ manhattan_distance(h[i].pos, h[1].pos) < DRAG_MIN_DISTANCE
DragAt(h, i) == /\ h[i].tick - h[1].tick >= DRAG_MIN_TICKS
                /\ manhattan_distance(h[i].pos, h[1].pos) >= DRAG_MIN_DISTANCE

\* A hold is at most one gesture: the first its ticks make it.
Made(h, i)    == i > 1 /\ (LongAt(h, i) \/ DragAt(h, i))
MadeBefore(h, n) == {i \in 1 .. n : Made(h, i)}
Drags(h, n)   == \E i \in MadeBefore(h, n) : DragAt(h, i) /\ \A j \in MadeBefore(h, n) : i <= j

\* The event of a tick at which the button is down and the hold is h.
WhileDown(h) ==
  LET n == Len(h)
  IN  IF MadeBefore(h, n - 1) = {}
      THEN IF n = 1 \/ ~ Made(h, n) THEN NoGesture
           ELSE Event(IF LongAt(h, n) THEN "LongPress" ELSE "DragStart", h[1].pos)
      ELSE IF Drags(h, n - 1) /\ h[n].pos # h[n - 1].pos THEN Event("Dragging", h[n].pos)
      ELSE NoGesture

\* The event of the tick t at which the button is up again, after the hold h:
\* a click is a double click when the click before it is near and is not itself
\* the second of a pair.
OnRelease(h, t, pos) ==
  IF h = <<>> THEN NoGesture
  ELSE IF MadeBefore(h, Len(h)) # {} THEN IF Drags(h, Len(h)) THEN Event("DragEnd", pos) ELSE NoGesture
  ELSE IF \/ t - h[1].tick >= CLICK_MAX_TICKS
          \/ manhattan_distance(pos, h[1].pos) >= CLICK_MAX_DISTANCE THEN NoGesture
  ELSE LET before == clicks[Len(clicks)]
           pair   == /\ clicks # <<>> /\ before.kind = "Click"
                     /\ t - before.tick < DOUBLE_CLICK_MAX_TICKS
                     /\ manhattan_distance(pos, before.pos) < DOUBLE_CLICK_MAX_DISTANCE
       IN  Event(IF pair THEN "DoubleClick" ELSE "Click", pos)

-----------------------------------------------------------------------------
(* The frame *)

CaptureRest == UNCHANGED <<tick_count, counted_first, last_frame, net_inputs>>

\* input_capture_system, with which a frame begins: what the player does with the
\* mouse is free.
Captured(down, pos) ==
  /\ raw_input.frame < MaxInputFrames
  /\ raw_input' = [frame |-> raw_input.frame + 1, down |-> down, pos |-> pos]
  /\ ticks_done' = 0

\* A frame without a state transition.
Capture(down, pos) ==
  /\ Captured(down, pos)
  /\ UNCHANGED <<in_game, player_known, recognizer, gestureAux, state_changes>> /\ CaptureRest

\* A frame that enters or leaves InGame before its ticks: OnExit(InGame) runs
\* reset_gesture_recognizers; with the player's entry an id may come.
CaptureAndChangeState(down, pos) ==
  /\ Captured(down, pos)
  /\ state_changes < MaxStateChanges /\ state_changes' = state_changes + 1
  /\ in_game' = ~ in_game
  /\ player_known' \in {player_known, TRUE}
  /\ recognizer' = IF in_game THEN Idle ELSE recognizer
  /\ hold' = <<>> /\ clicks' = <<>> /\ gesture' = NoGesture /\ wanted' = NoGesture
  /\ CaptureRest

\* A distribution without last_frame.
should_distribute_Mut(frame, last) == TRUE

should_distribute(frame, last) == frame # last

\* input_distribution_system, which sees the tick count t
Distribute(t) ==
  IF in_game /\ should_distribute(raw_input.frame, last_frame)
  THEN /\ last_frame' = raw_input.frame
       /\ net_inputs' = IF player_known
                        THEN [u \in DOMAIN net_inputs \cup {t} |-> IF u = t THEN raw_input.frame ELSE net_inputs[u]]
                        ELSE net_inputs
  ELSE UNCHANGED <<last_frame, net_inputs>>

\* gesture_recognition_system at tick t, and its reference definition
Recognize(t) ==
  IF ~ in_game THEN UNCHANGED <<recognizer, gestureAux>>
  ELSE LET u == Update(recognizer, t, raw_input.down, raw_input.pos)
           h == Append(hold, [tick |-> t, pos |-> raw_input.pos])
       IN  /\ recognizer' = u.next /\ gesture' = u.event
           /\ wanted' = IF raw_input.down THEN WhileDown(h) ELSE OnRelease(hold, t, raw_input.pos)
           /\ hold' = IF raw_input.down THEN h ELSE <<>>
           /\ clicks' = IF wanted'.kind \in {"Click", "DoubleClick"}
                        THEN <<[kind |-> wanted'.kind, tick |-> t, pos |-> wanted'.pos]>> ELSE clicks

\* One FixedUpdate: ProcessInputs, then RecognizeGestures.
FixedTick ==
  /\ raw_input.frame > 0 /\ ticks_done < MAX_CATCH_UP /\ tick_count < MaxInputTicks
  /\ ticks_done' = ticks_done + 1
  /\ tick_count' = tick_count + 1
  /\ Distribute(IF counted_first THEN tick_count' ELSE tick_count)
  /\ Recognize(tick_count')
  /\ UNCHANGED <<raw_input, counted_first, in_game, player_known, state_changes>>

InputNext ==
  \/ \E down \in BOOLEAN, pos \in POSITIONS : Capture(down, pos) \/ CaptureAndChangeState(down, pos)
  \/ FixedTick

InputSpec == InputInit /\ [][InputNext]_inputVars

-----------------------------------------------------------------------------
\* The recognizer, which remembers one press, one position and one click, reports
\* exactly what the whole hold makes of it, at the same tick: one gesture per
\* hold, a drag that is reported from start to end, and pairs of clicks,
\* whatever ticks are skipped or caught up and whenever the game is left.
RecognizerExact == gesture = wanted

\* Netcode is given each captured frame at most once and never in place of
\* another one: later ticks hold later frames, also when a frame has three
\* ticks or none.
FramesDistributedOnce ==
  \A t, u \in DOMAIN net_inputs : t < u => net_inputs[t] < net_inputs[u]
=============================================================================
