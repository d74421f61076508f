------------------------------ MODULE Gateway -------------------------------
(***************************************************************************)
(* The parts of server/gateway: the WebSocket listener, the room manager   *)
(* and the session manager.  The code does not connect them yet (the       *)
(* listener keeps its own registry), so they share no state; part names    *)
(* the one whose steps a behaviour shows, and the others stay as created.  *)
(***************************************************************************)
EXTENDS WsListener, GatewayRooms, GatewaySessions

VARIABLE part

gatewayVars == <<part, pc, registry, recv_seq, send_seq, outbound, out_task, wire, client_seq,
                 rooms, next_id, gone, sessions, next_session, confirmed>>

Init == part \in {"listener", "rooms", "sessions"} /\ WsInit /\ RoomInit /\ SessInit

ListenerStep == part = "listener" /\ WsNext /\ UNCHANGED <<part, rooms, next_id, gone, sessions, next_session, confirmed>>
RoomStep     == part = "rooms" /\ RoomNext /\ UNCHANGED <<part, wsVars, sessVars>>
SessionStep  == part = "sessions" /\ SessNext /\ UNCHANGED <<part, wsVars, roomVars>>

Next == ListenerStep \/ RoomStep \/ SessionStep

Spec == Init /\ [][Next]_gatewayVars /\ WsFairness
=============================================================================
