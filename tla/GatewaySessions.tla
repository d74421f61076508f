-------------------------- MODULE GatewaySessions ---------------------------
(***************************************************************************)
(* SessionManager (server/gateway/src/session.rs) and the connection state *)
(* machine each session holds (engine/protocol/src/connection.rs).         *)
(***************************************************************************)
EXTENDS Integers

CONSTANT MaxSessions   \* bound of the model: sessions ever registered

VARIABLES
  sessions,     \* id -> State of its ConnectionState
  next_session,
  confirmed     \* auxiliary: sessions whose keys were confirmed after their latest ClientHello

sessVars == <<sessions, next_session, confirmed>>

States == {"Connecting", "Handshaking", "Ready", "Playing", "Reconnecting", "Disconnected"}
Events == {"HelloReceived", "KeyConfirmed", "JoinedRoom", "LeftRoom", "ConnectionLost", "Disconnected"}

SessInit == sessions = [id \in {} |-> "Connecting"] /\ next_session = 1 /\ confirmed = {}

\* A reconnect that resumes the game without a new key exchange.
Table_Mut == {<<"Connecting", "HelloReceived", "Handshaking">>,
              <<"Handshaking", "KeyConfirmed", "Ready">>,
              <<"Ready", "JoinedRoom", "Playing">>,
              <<"Playing", "LeftRoom", "Ready">>,
              <<"Playing", "ConnectionLost", "Reconnecting">>,
              <<"Reconnecting", "HelloReceived", "Playing">>}

\* The transitions of step 3 of ConnectionState::transition.
Table == {<<"Connecting", "HelloReceived", "Handshaking">>,
          <<"Handshaking", "KeyConfirmed", "Ready">>,
          <<"Ready", "JoinedRoom", "Playing">>,
          <<"Playing", "LeftRoom", "Ready">>,
          <<"Playing", "ConnectionLost", "Reconnecting">>,
          <<"Reconnecting", "HelloReceived", "Handshaking">>}

\* transition: nothing leaves Disconnected, a Disconnected event is accepted
\* anywhere else, other events by the table; the empty set is InvalidTransition.
Transition(s, e) ==
  IF s = "Disconnected" THEN {}
  ELSE IF e = "Disconnected" THEN {"Disconnected"}
  ELSE {t \in States : <<s, e, t>> \in Table}

\* is_message_allowed: the messages a state accepts.
Allowed(s) ==
  CASE s \in {"Connecting", "Reconnecting"} -> {"ClientHello"}
    [] s = "Handshaking"  -> {"KeyConfirm"}
    [] s = "Ready"        -> {"Ping", "Pong", "Disconnect"}
    [] s = "Playing"      -> {"GameInput", "HashCheck", "OtaAck", "Ping", "Pong", "Disconnect"}
    [] s = "Disconnected" -> {}

GameMessages == {"GameInput", "HashCheck", "OtaAck"}

\* SessionManager::register
RegisterSession ==
  /\ next_session <= MaxSessions
  /\ sessions' = [id \in DOMAIN sessions \cup {next_session} |->
                    IF id = next_session THEN "Connecting" ELSE sessions[id]]
  /\ next_session' = next_session + 1
  /\ UNCHANGED confirmed

\* get_mut(id).state.transition(e)
OnEvent(id, e) ==
  /\ id \in DOMAIN sessions
  /\ \E t \in Transition(sessions[id], e) : sessions' = [sessions EXCEPT ![id] = t]
  /\ confirmed' = CASE e = "KeyConfirmed"  -> confirmed \cup {id}
                    [] e = "HelloReceived" -> confirmed \ {id}
                    [] OTHER               -> confirmed
  /\ UNCHANGED next_session

RemoveSession(id) ==
  /\ id \in DOMAIN sessions
  /\ sessions' = [i \in DOMAIN sessions \ {id} |-> sessions[i]]
  /\ confirmed' = confirmed \ {id}
  /\ UNCHANGED next_session

SessNext ==
  \/ RegisterSession
  \/ \E id \in 1 .. MaxSessions : RemoveSession(id) \/ \E e \in Events : OnEvent(id, e)

SessSpec == SessInit /\ [][SessNext]_sessVars

-----------------------------------------------------------------------------
\* Whatever way a session came by its state, reconnects included, it accepts
\* game messages only if its keys were confirmed after its latest ClientHello.
GameNeedsFreshKeys ==
  \A id \in DOMAIN sessions :
    Allowed(sessions[id]) \cap GameMessages # {} => id \in confirmed
=============================================================================
