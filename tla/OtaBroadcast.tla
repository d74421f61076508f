---------------------------- MODULE OtaBroadcast ----------------------------
(***************************************************************************)
(* BroadcastManager of server/hot_update_cdn/src/broadcast.rs: for every   *)
(* update that is being broadcast, what each client has answered.          *)
(***************************************************************************)
EXTENDS Integers

CONSTANTS Clients, BroadcastIds, BroadcastBuilds

VARIABLE sessions    \* update id -> client -> [status, version_hash]

\* version_hash: the build a client reported, 0 for None
Unknown == [status |-> "Unknown", version_hash |-> 0]

BroadcastInit == sessions = [u \in {} |-> {}]

\* start_broadcast, also of an update that has a session: everybody is Unknown again.
StartBroadcast(u) ==
  sessions' = [v \in DOMAIN sessions \cup {u} |->
                 IF v = u THEN [c \in Clients |-> Unknown] ELSE sessions[v]]

\* Taking the reported hash whatever the answer was.
Answered_Mut(old, status, build) == [status |-> "Ok", version_hash |-> build]

\* The entry after an answer: only an Ok carries a version.
Answered(old, status, build) ==
  [status |-> status, version_hash |-> IF status = "Ok" THEN build ELSE old.version_hash]

\* on_ack; an answer for an unknown session is ignored.
OnAck(u, c, status, build) ==
  /\ u \in DOMAIN sessions
  /\ sessions' = [sessions EXCEPT ![u][c] = Answered(@, status, build)]

IsComplete(u) == \A c \in Clients : sessions[u][c].status # "Unknown"

\* remove_session, for which the caller need not wait for is_complete
RemoveSession(u) ==
  /\ u \in DOMAIN sessions
  /\ sessions' = [v \in DOMAIN sessions \ {u} |-> sessions[v]]

CleanupCompleted ==
  /\ \E u \in DOMAIN sessions : IsComplete(u)
  /\ sessions' = [u \in {v \in DOMAIN sessions : ~ IsComplete(v)} |-> sessions[u]]
=============================================================================
