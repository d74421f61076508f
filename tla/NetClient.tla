----------------------------- MODULE NetClient ------------------------------
(***************************************************************************)
(* The client's netcode as a whole: the prediction and rollback of module  *)
(* Rollback and the reconnect state machine of module Connection around    *)
(* the one snapshot buffer they share.  Frames are simulated while the     *)
(* client is connected; a server state may still be delivered late, in any *)
(* connection state; a full sync acts on both components at once.          *)
(***************************************************************************)
EXTENDS Rollback, Connection

allVars == <<vars, connVars>>

NetInit == Init /\ ConnInit

Predict ==
  /\ conn.st = "Connected"
  /\ \E i \in Inputs : Frame(i)
  /\ UNCHANGED connVars

ServerInput ==
  /\ \E t \in 0 .. MaxTick, i \in Inputs : ReviseInput(t, i)
  /\ UNCHANGED connVars

ServerState ==
  /\ \E st \in 0 .. MaxTick, sw \in World : HandleServerState(st, sw)
  /\ UNCHANGED connVars

Drop        == OnDisconnect /\ UNCHANGED vars
BadVersion  == OnVersionMismatch /\ UNCHANGED vars
OutageTick  == Tick /\ UNCHANGED vars
Reconnect   == OnReconnect /\ \E t \in 0 .. MaxTick, w \in World : FullSync(t, w)

NetNext ==
  \/ Predict \/ ServerInput \/ ServerState
  \/ Drop \/ BadVersion \/ OutageTick \/ Reconnect

\* The owner calls tick() every frame, so an outage's clock keeps running.
NetSpec == NetInit /\ [][NetNext]_allVars /\ WF_allVars(OutageTick)
=============================================================================
