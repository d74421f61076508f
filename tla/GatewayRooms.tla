---------------------------- MODULE GatewayRooms ----------------------------
(***************************************************************************)
(* RoomManager of server/gateway/src/room.rs.  Rooms go Waiting, Running,  *)
(* Finished; players is a Vec, so a connection may be in it twice.         *)
(***************************************************************************)
EXTENDS Integers, Sequences, Selection

CONSTANTS Players, MaxPlayers, MaxRooms   \* MaxRooms bounds the rooms ever created

\* max_players is a usize.
ASSUME RoomConstants == MaxPlayers \in Nat

VARIABLES
  rooms,     \* id -> [state, players, max]
  next_id,
  gone       \* auxiliary: ids of removed rooms

roomVars == <<rooms, next_id, gone>>

RoomInit == rooms = [id \in {} |-> {}] /\ next_id = 1 /\ gone = {}

NewId == next_id

\* create_room; max_rooms is not checked.
CreateRoom(max) ==
  /\ next_id <= MaxRooms
  /\ rooms' = [id \in DOMAIN rooms \cup {NewId} |->
                 IF id = NewId THEN [state |-> "Waiting", players |-> << >>, max |-> max]
                               ELSE rooms[id]]
  /\ next_id' = next_id + 1
  /\ UNCHANGED gone

\* A capacity test that lets one too many in.
HasRoom_Mut(room) == Len(room.players) <= room.max

HasRoom(room) == Len(room.players) < room.max

\* join_room: Waiting only, below capacity; joining twice is not an error.
JoinRoom(id, p) ==
  /\ id \in DOMAIN rooms
  /\ rooms[id].state = "Waiting"
  /\ HasRoom(rooms[id])
  /\ rooms' = [rooms EXCEPT ![id].players = Append(@, p)]
  /\ UNCHANGED <<next_id, gone>>

Without(s, p) == Selected(s, {k \in DOMAIN s : s[k] # p})

\* leave_room, in any state: retain drops every copy.
LeaveRoom(id, p) ==
  /\ id \in DOMAIN rooms
  /\ \E k \in DOMAIN rooms[id].players : rooms[id].players[k] = p
  /\ rooms' = [rooms EXCEPT ![id].players = Without(@, p)]
  /\ UNCHANGED <<next_id, gone>>

Advance(id, from, to) ==
  /\ id \in DOMAIN rooms
  /\ rooms[id].state = from
  /\ rooms' = [rooms EXCEPT ![id].state = to]
  /\ UNCHANGED <<next_id, gone>>

StartRoom(id)  == Advance(id, "Waiting", "Running")
FinishRoom(id) == Advance(id, "Running", "Finished")

\* remove_room without its state check.
Removable_Mut(room) == TRUE

Removable(room) == room.state = "Finished"

RemoveRoom(id) ==
  /\ id \in DOMAIN rooms
  /\ Removable(rooms[id])
  /\ rooms' = [r \in DOMAIN rooms \ {id} |-> rooms[r]]
  /\ gone' = gone \cup {id}
  /\ UNCHANGED next_id

RoomNext ==
  \/ \E max \in 0 .. MaxPlayers : CreateRoom(max)
  \/ \E id \in 1 .. MaxRooms :
       \/ StartRoom(id) \/ FinishRoom(id) \/ RemoveRoom(id)
       \/ \E p \in Players : JoinRoom(id, p) \/ LeaveRoom(id, p)

RoomSpec == RoomInit /\ [][RoomNext]_roomVars

-----------------------------------------------------------------------------
\* No room ever holds more seats than it was created with, and an id that was
\* handed out and removed is never handed out again, so a stale RoomId cannot
\* name somebody else's room.
RoomsSound ==
  /\ \A id \in DOMAIN rooms : Len(rooms[id].players) <= rooms[id].max
  /\ DOMAIN rooms \cap gone = {}

\* Who is in a room.
Roster(room) == {room.players[k] : k \in DOMAIN room.players}

\* A game that has started keeps its roster: from Running on nobody joins,
\* and the room disappears only after it has finished.
RosterFrozen ==
  [][\A id \in DOMAIN rooms : rooms[id].state = "Running" =>
       /\ id \in DOMAIN rooms'
       /\ Len(rooms'[id].players) <= Len(rooms[id].players)
       /\ Roster(rooms'[id]) \subseteq Roster(rooms[id])]_roomVars
=============================================================================
