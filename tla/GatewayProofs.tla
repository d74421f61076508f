-------------------------- MODULE GatewayProofs -----------------------------
(***************************************************************************)
(* Proofs about the gateway: the sessions' state machine, the rooms, and   *)
(* the tasks and channels of the listener, for any number of connections,  *)
(* rooms, players and frames and every capacity of the outbound channel.   *)
(***************************************************************************)
EXTENDS WsListener, GatewaySessions, GatewayRooms, ListLemmas

(* GatewaySessions *)

\* The inductive invariant: the keys are confirmed in Ready as well, and stay
\* so until the next ClientHello, which no state that may play accepts.
KeysInv ==
  /\ \A id \in DOMAIN sessions : sessions[id] \in States
  /\ \A id \in DOMAIN sessions : sessions[id] \in {"Ready", "Playing"} => id \in confirmed

\* Of all states only Playing allows a game message.
LEMMA OnlyPlayingAcceptsGame ==
  ASSUME NEW s \in States, Allowed(s) \cap GameMessages # {}
  PROVE  s = "Playing"
BY DEF States, Allowed, GameMessages

\* What a transition can lead to, by its event.
LEMMA TransitionTargets ==
  ASSUME NEW s \in States, NEW e \in Events, NEW t \in Transition(s, e)
  PROVE  /\ t \in States
         /\ t \in {"Ready", "Playing"} =>
              \/ e = "KeyConfirmed"
              \/ e # "HelloReceived" /\ s \in {"Ready", "Playing"}
<1>1. CASE s = "Disconnected"
  BY <1>1 DEF Transition
<1>2. CASE s # "Disconnected" /\ e = "Disconnected"
  BY <1>2 DEF Transition, States
<1>3. CASE s # "Disconnected" /\ e # "Disconnected"
  <2>1. t \in States /\ <<s, e, t>> \in Table
    BY <1>3 DEF Transition
  <2> QED BY <2>1 DEF Table
<1> QED BY <1>1, <1>2, <1>3

\* Every step keeps the invariant of the sessions.
LEMMA KeysNextOK == KeysInv /\ [SessNext]_sessVars => KeysInv'
<1> SUFFICES ASSUME KeysInv, [SessNext]_sessVars PROVE KeysInv'
  OBVIOUS
<1>1. CASE RegisterSession
  BY <1>1 DEF RegisterSession, KeysInv, States
<1>2. ASSUME NEW id, RemoveSession(id) PROVE KeysInv'
  BY <1>2 DEF RemoveSession, KeysInv
<1>3. ASSUME NEW id, NEW e \in Events, OnEvent(id, e) PROVE KeysInv'
  <2>1. PICK t \in Transition(sessions[id], e) : sessions' = [sessions EXCEPT ![id] = t]
    BY <1>3 DEF OnEvent
  <2>2. id \in DOMAIN sessions /\ sessions[id] \in States
    BY <1>3 DEF OnEvent, KeysInv
  <2>3. /\ t \in States
        /\ t \in {"Ready", "Playing"} =>
             e = "KeyConfirmed" \/ (e # "HelloReceived" /\ sessions[id] \in {"Ready", "Playing"})
    BY <2>2, TransitionTargets
  <2>4. /\ \A j \in confirmed : j # id => j \in confirmed'
        /\ e = "KeyConfirmed" => id \in confirmed'
        /\ e # "HelloReceived" => confirmed \subseteq confirmed'
    BY <1>3 DEF OnEvent, Events
  <2>5. /\ DOMAIN sessions' = DOMAIN sessions /\ sessions'[id] = t
        /\ \A j \in DOMAIN sessions : j # id => sessions'[j] = sessions[j]
    BY <2>1, <2>2
  <2> QED BY <2>2, <2>3, <2>4, <2>5 DEF KeysInv
<1>4. CASE UNCHANGED sessVars
  BY <1>4 DEF sessVars, KeysInv
<1> QED BY <1>1, <1>2, <1>3, <1>4 DEF SessNext

\* ConnectionState of every session: whatever reconnects, removals and repeated
\* handshakes came before, game messages are accepted only under keys that were
\* confirmed after the latest ClientHello.
THEOREM KeysBeforeGame == SessSpec => []GameNeedsFreshKeys
<1>1. SessInit => KeysInv
  BY DEF SessInit, KeysInv
<1>2. KeysInv => GameNeedsFreshKeys
  BY OnlyPlayingAcceptsGame DEF KeysInv, GameNeedsFreshKeys
<1> QED BY <1>1, <1>2, KeysNextOK, PTL DEF SessSpec

-----------------------------------------------------------------------------
(* The registry of the listener *)

Places == {"hello", "register", "serving", "sending", "leaving", "closed"}

\* The inductive invariant: every handler registers under the same id, so an
\* entry means that some handler is still to unregister it.
RegistryInv ==
  /\ pc \in [Conns -> Places]
  /\ DOMAIN registry \subseteq {1}
  /\ DOMAIN registry # {} => \E c \in Conns : pc[c] \in {"serving", "sending", "leaving"}

\* Every step keeps the invariant of the registry.
LEMMA RegistryNextOK == RegistryInv /\ [WsNext]_wsVars => RegistryInv'
<1> SUFFICES ASSUME RegistryInv, [WsNext]_wsVars PROVE RegistryInv'
  OBVIOUS
<1> USE DEF RegistryInv, Places
<1>1. ASSUME NEW c \in Conns, Register(c) PROVE RegistryInv'
  <2>1. pc' = [pc EXCEPT ![c] = "serving"] /\ DOMAIN registry' = DOMAIN registry \cup {1}
    BY <1>1 DEF Register, Goto, SessionId
  <2>2. pc'[c] = "serving" /\ pc' \in [Conns -> Places]
    BY <2>1
  <2> QED BY <2>1, <2>2
<1>2. ASSUME NEW c \in Conns, Unregister(c) PROVE RegistryInv'
  <2>1. pc' = [pc EXCEPT ![c] = "closed"] /\ DOMAIN registry' = DOMAIN registry \ {1}
    BY <1>2 DEF Unregister, Goto, SessionId
  <2> QED BY <2>1
<1>3. ASSUME NEW c \in Conns, UNCHANGED registry, NEW place \in Places, pc' = [pc EXCEPT ![c] = place],
             pc[c] \in {"hello"} \/ place \in {"serving", "sending", "leaving"}
      PROVE  RegistryInv'
  <2>1. pc' \in [Conns -> Places]
    BY <1>3
  <2>2. ASSUME NEW d \in Conns, pc[d] \in {"serving", "sending", "leaving"}
        PROVE  pc'[d] \in {"serving", "sending", "leaving"}
    <3>1. CASE d = c
      BY <1>3, <2>2, <3>1
    <3>2. CASE d # c
      BY <1>3, <2>2, <3>2
    <3> QED BY <3>1, <3>2
  <2> QED BY <1>3, <2>1, <2>2
<1>4. ASSUME NEW c \in Conns, Handshake(c) \/ HandshakeFails(c) \/ LoopEnds(c) \/ SendPong(c) PROVE RegistryInv'
  <2>1. CASE Handshake(c)
    BY <1>3, <2>1 DEF Handshake, Goto
  <2>2. CASE HandshakeFails(c)
    BY <1>3, <2>2 DEF HandshakeFails, Goto
  <2>3. CASE LoopEnds(c)
    BY <1>3, <2>3 DEF LoopEnds, AfterLoop, Goto
  <2>4. CASE SendPong(c)
    BY <1>3, <2>4 DEF SendPong, Goto
  <2> QED BY <1>4, <2>1, <2>2, <2>3, <2>4
<1>5. ASSUME UNCHANGED <<pc, registry>> PROVE RegistryInv'
  BY <1>5
<1>6. ASSUME NEW c \in Conns, Receive(c) PROVE RegistryInv'
  <2>1. UNCHANGED registry /\ (UNCHANGED pc \/ pc' = [pc EXCEPT ![c] = "sending"])
    BY <1>6 DEF Receive, Goto
  <2> QED BY <1>3, <1>5, <2>1
<1>7. ASSUME NEW c \in Conns, NEW ping \in BOOLEAN, ClientSends(c, ping) PROVE RegistryInv'
  BY <1>5, <1>7 DEF ClientSends
<1>8. ASSUME NEW c \in Conns, WriterSends(c) \/ WriterFails(c) \/ WriterEnds(c) PROVE RegistryInv'
  BY <1>5, <1>8 DEF WriterSends, WriterFails, WriterEnds
<1>9. CASE UNCHANGED wsVars
  BY <1>5, <1>9 DEF wsVars
<1> QED BY <1>1, <1>2, <1>4, <1>6, <1>7, <1>8, <1>9 DEF WsNext

\* ClientRegistry: for any number of connections, when no handler is past its
\* handshake no entry is left, although handlers remove each other's entries.
THEOREM RegistryIsDrained == WsSpec => []RegistryDrains
<1>1. WsInit => RegistryInv
  BY DEF WsInit, RegistryInv, Places
<1>2. RegistryInv => RegistryDrains
  BY DEF RegistryInv, RegistryDrains
<1> QED BY <1>1, <1>2, RegistryNextOK, PTL DEF WsSpec

-----------------------------------------------------------------------------
(* The outbound channel *)

\* The Pongs of c's handler that have left its hands.
Handed(c) == IF pc[c] = "sending" THEN send_seq[c] - 1 ELSE send_seq[c]

\* The types of the channels.
ChannelTypes ==
  /\ pc \in [Conns -> Places]
  /\ send_seq \in [Conns -> Nat] /\ client_seq \in [Conns -> Nat]
  /\ outbound \in [Conns -> Seq(Nat)]
  /\ out_task \in [Conns -> {"none", "running", "done"}]

\* What holds of a channel: before there is a writer nothing was sent; while it
\* runs, the channel holds the row of numbers from the one the client expects
\* up to the last one the handler has handed over.
Channel(c) ==
  /\ pc[c] \in {"hello", "register"} => out_task[c] = "none"
  /\ pc[c] = "sending" => send_seq[c] > 0
  /\ out_task[c] = "none" => /\ pc[c] \in {"hello", "register", "closed"}
                             /\ send_seq[c] = 0 /\ client_seq[c] = 0 /\ outbound[c] = << >>
  /\ out_task[c] = "running" => Len(outbound[c]) = Handed(c) - client_seq[c]
  /\ out_task[c] = "done" => outbound[c] = << >>
  /\ \A k \in 1 .. Len(outbound[c]) : outbound[c][k] = client_seq[c] + k - 1
  /\ Len(outbound[c]) <= OUTBOUND_CAPACITY

\* The inductive invariant.
ChannelInv == ChannelTypes /\ \A c \in Conns : Channel(c)

\* A channel is kept as it is by the steps of the others.
LEMMA ChannelUntouched ==
  ASSUME NEW d \in Conns, Channel(d), pc'[d] = pc[d], send_seq'[d] = send_seq[d],
         client_seq'[d] = client_seq[d], outbound'[d] = outbound[d], out_task'[d] = out_task[d]
  PROVE  Channel(d)'
BY DEF Channel, Handed

\* Steps that move the handler but neither send nor receive.
LEMMA ChannelMoves ==
  ASSUME ChannelInv, NEW c \in Conns, NEW place \in Places, pc' = [pc EXCEPT ![c] = place],
         \/ pc[c] = "hello" /\ place \in {"register", "closed"}
         \/ pc[c] \in {"serving", "leaving"} /\ place \in {"leaving", "closed"},
         UNCHANGED <<send_seq, client_seq, outbound, out_task>>
  PROVE  ChannelInv'
<1>1. ChannelTypes'
  BY DEF ChannelInv, ChannelTypes
<1>2. ASSUME NEW d \in Conns PROVE Channel(d)'
  <2>1. CASE d = c
    <3>1. pc'[c] = place /\ Channel(c)
      BY DEF ChannelInv, ChannelTypes
    <3>2. Handed(c)' = Handed(c)
      BY <3>1 DEF Handed
    <3> QED BY <2>1, <3>1, <3>2 DEF Channel
  <2>2. CASE d # c
    BY <2>2, ChannelUntouched DEF ChannelInv, ChannelTypes
  <2> QED BY <2>1, <2>2
<1> QED BY <1>1, <1>2 DEF ChannelInv

\* A new handler starts with an empty channel.
LEMMA RegisterChannelOK == ASSUME ChannelInv, NEW c \in Conns, Register(c) PROVE ChannelInv'
<1>1. /\ pc' = [pc EXCEPT ![c] = "serving"] /\ out_task' = [out_task EXCEPT ![c] = "running"]
      /\ UNCHANGED <<send_seq, client_seq, outbound>> /\ pc[c] = "register"
  BY DEF Register, Goto
<1>2. ChannelTypes'
  BY <1>1 DEF ChannelInv, ChannelTypes, Places
<1>3. ASSUME NEW d \in Conns PROVE Channel(d)'
  <2>1. CASE d = c
    <3>1. pc'[c] = "serving" /\ out_task'[c] = "running"
      BY <1>1 DEF ChannelInv, ChannelTypes
    <3>2. send_seq[c] = 0 /\ client_seq[c] = 0 /\ outbound[c] = << >>
      BY <1>1 DEF ChannelInv, Channel
    <3> QED BY <1>1, <2>1, <3>1, <3>2, ListenerAssumption DEF Channel, Handed
  <2>2. CASE d # c
    BY <1>1, <2>2, ChannelUntouched DEF ChannelInv, ChannelTypes
  <2> QED BY <2>1, <2>2
<1> QED BY <1>2, <1>3 DEF ChannelInv

\* A Ping takes the number of its Pong, which is not in the channel yet.
LEMMA ReceiveChannelOK == ASSUME ChannelInv, NEW c \in Conns, Receive(c) PROVE ChannelInv'
<1>1. UNCHANGED <<client_seq, outbound, out_task>> /\ pc[c] = "serving"
  BY DEF Receive
<1>2. \/ UNCHANGED <<pc, send_seq>>
      \/ pc' = [pc EXCEPT ![c] = "sending"] /\ send_seq' = [send_seq EXCEPT ![c] = @ + 1]
  BY DEF Receive, Goto
<1>3. CASE UNCHANGED <<pc, send_seq>>
  BY <1>1, <1>3 DEF ChannelInv, ChannelTypes, Channel, Handed
<1>4. CASE pc' = [pc EXCEPT ![c] = "sending"] /\ send_seq' = [send_seq EXCEPT ![c] = @ + 1]
  <2>1. ChannelTypes'
    BY <1>1, <1>4 DEF ChannelInv, ChannelTypes, Places
  <2>2. ASSUME NEW d \in Conns PROVE Channel(d)'
    <3>1. CASE d = c
      <4>1. pc'[c] = "sending" /\ send_seq'[c] = send_seq[c] + 1 /\ send_seq[c] \in Nat
        BY <1>4 DEF ChannelInv, ChannelTypes
      <4>2. Handed(c)' = Handed(c)
        BY <1>1, <4>1 DEF Handed
      <4>3. Channel(c) /\ out_task[c] # "none"
        BY <1>1 DEF ChannelInv, Channel
      <4> QED BY <1>1, <3>1, <4>1, <4>2, <4>3 DEF Channel
    <3>2. CASE d # c
      BY <1>1, <1>4, <3>2, ChannelUntouched DEF ChannelInv, ChannelTypes
    <3> QED BY <3>1, <3>2
  <2> QED BY <2>1, <2>2 DEF ChannelInv
<1> QED BY <1>2, <1>3, <1>4

\* A Pong takes the last place in the channel, or is lost with the writer.
LEMMA SendPongChannelOK == ASSUME ChannelInv, NEW c \in Conns, SendPong(c) PROVE ChannelInv'
<1>1. /\ pc' = [pc EXCEPT ![c] = "serving"] /\ pc[c] = "sending"
      /\ UNCHANGED <<send_seq, client_seq, out_task>>
  BY DEF SendPong, Goto
<1>2. \/ /\ out_task[c] = "running" /\ Len(outbound[c]) < OUTBOUND_CAPACITY
         /\ outbound' = [outbound EXCEPT ![c] = Append(@, send_seq[c] - 1)]
      \/ out_task[c] # "running" /\ outbound' = outbound
  BY DEF SendPong, Enqueue
<1>3. send_seq[c] \in Nat /\ send_seq[c] > 0 /\ send_seq[c] - 1 \in Nat /\ outbound[c] \in Seq(Nat)
  BY <1>1 DEF ChannelInv, ChannelTypes, Channel
<1>4. ChannelTypes'
  <2>1. outbound' \in [Conns -> Seq(Nat)]
    <3>1. Append(outbound[c], send_seq[c] - 1) \in Seq(Nat)
      BY <1>3
    <3> QED BY <1>2, <3>1 DEF ChannelInv, ChannelTypes
  <2> QED BY <1>1, <2>1 DEF ChannelInv, ChannelTypes, Places
<1>5. ASSUME NEW d \in Conns PROVE Channel(d)'
  <2>1. CASE d = c
    <3>1. pc'[c] = "serving" /\ Channel(c) /\ out_task[c] # "none" /\ Handed(c)' = Handed(c) + 1
          /\ Handed(c) = send_seq[c] - 1
      BY <1>1, <1>3 DEF ChannelInv, ChannelTypes, Channel, Handed
    <3>2. CASE out_task[c] = "running" /\ Len(outbound[c]) < OUTBOUND_CAPACITY
               /\ outbound' = [outbound EXCEPT ![c] = Append(@, send_seq[c] - 1)]
      <4>1. outbound'[c] = Append(outbound[c], send_seq[c] - 1)
        BY <3>2 DEF ChannelInv, ChannelTypes
      <4>2. /\ Len(outbound[c]) \in Nat /\ Len(outbound'[c]) = Len(outbound[c]) + 1
            /\ outbound'[c][Len(outbound[c]) + 1] = send_seq[c] - 1
            /\ \A k \in 1 .. Len(outbound[c]) : outbound'[c][k] = outbound[c][k]
        BY <1>3, <4>1
      <4>3. client_seq[c] \in Nat /\ Len(outbound[c]) = send_seq[c] - 1 - client_seq[c]
        BY <3>1, <3>2 DEF ChannelInv, ChannelTypes, Channel
      <4>4. ASSUME NEW k \in 1 .. Len(outbound'[c]) PROVE outbound'[c][k] = client_seq[c] + k - 1
        <5>1. CASE k = Len(outbound[c]) + 1
          BY <1>3, <4>2, <4>3, <5>1
        <5>2. CASE k # Len(outbound[c]) + 1
          <6>1. k \in 1 .. Len(outbound[c])
            BY <4>2, <5>2
          <6> QED BY <3>1, <4>2, <6>1 DEF Channel
        <5> QED BY <5>1, <5>2
      <4>5. Len(outbound'[c]) <= OUTBOUND_CAPACITY
        BY <3>2, <4>2, ListenerAssumption
      <4>6. Len(outbound'[c]) = Handed(c)' - client_seq'[c]
        BY <1>1, <1>3, <3>1, <4>2, <4>3
      <4>7. out_task'[c] = "running" /\ client_seq'[c] = client_seq[c]
        BY <1>1, <3>2
      <4> QED BY <2>1, <3>1, <4>4, <4>5, <4>6, <4>7 DEF Channel
    <3>3. CASE out_task[c] # "running" /\ outbound' = outbound
      BY <1>1, <1>3, <2>1, <3>1, <3>3 DEF Channel
    <3> QED BY <1>2, <3>2, <3>3
  <2>2. CASE d # c
    BY <1>1, <1>2, <2>2, ChannelUntouched DEF ChannelInv, ChannelTypes
  <2> QED BY <2>1, <2>2
<1> QED BY <1>4, <1>5 DEF ChannelInv

\* The writer task takes from the head of the channel, or ends it.
LEMMA WriterChannelOK ==
  ASSUME ChannelInv, NEW c \in Conns, WriterSends(c) \/ WriterFails(c) \/ WriterEnds(c)
  PROVE  ChannelInv'
<1>1. CASE WriterSends(c)
  <2>1. /\ out_task[c] = "running" /\ outbound[c] # << >>
        /\ outbound' = [outbound EXCEPT ![c] = Tail(@)]
        /\ client_seq' = [client_seq EXCEPT ![c] = @ + 1]
        /\ UNCHANGED <<pc, send_seq, out_task>>
    BY <1>1 DEF WriterSends
  <2>2. /\ outbound[c] \in Seq(Nat) /\ client_seq[c] \in Nat
    BY DEF ChannelInv, ChannelTypes
  <2>3. /\ Tail(outbound[c]) \in Seq(Nat) /\ Len(outbound[c]) \in Nat \ {0}
        /\ Len(Tail(outbound[c])) = Len(outbound[c]) - 1
        /\ \A k \in 1 .. Len(outbound[c]) - 1 : Tail(outbound[c])[k] = outbound[c][k + 1]
    BY <2>1, <2>2
  <2>4. ChannelTypes'
    BY <2>1, <2>2, <2>3 DEF ChannelInv, ChannelTypes
  <2>5. ASSUME NEW d \in Conns PROVE Channel(d)'
    <3>1. CASE d = c
      <4>1. outbound'[c] = Tail(outbound[c]) /\ client_seq'[c] = client_seq[c] + 1
        BY <2>1 DEF ChannelInv, ChannelTypes
      <4>2. Channel(c) /\ Handed(c)' = Handed(c) /\ Handed(c) \in Int
        BY <2>1 DEF ChannelInv, ChannelTypes, Handed
      <4>3. ASSUME NEW k \in 1 .. Len(outbound'[c]) PROVE outbound'[c][k] = client_seq'[c] + k - 1
        <5>1. k \in Nat /\ k + 1 \in 1 .. Len(outbound[c]) /\ outbound'[c][k] = outbound[c][k + 1]
          BY <2>3, <4>1
        <5>2. outbound[c][k + 1] = client_seq[c] + (k + 1) - 1
          BY <4>2, <5>1 DEF Channel
        <5>3. client_seq'[c] + k - 1 = client_seq[c] + (k + 1) - 1
          BY <2>2, <4>1, <5>1
        <5> QED BY <5>1, <5>2, <5>3, Zenon
      <4>4. Len(outbound'[c]) = Handed(c) - client_seq'[c] /\ Len(outbound'[c]) <= OUTBOUND_CAPACITY
        <5>1. Len(outbound[c]) = Handed(c) - client_seq[c] /\ Len(outbound[c]) <= OUTBOUND_CAPACITY
          BY <2>1, <4>2 DEF Channel
        <5> QED BY <2>2, <2>3, <4>1, <4>2, <5>1, ListenerAssumption
      <4> QED BY <2>1, <3>1, <4>2, <4>3, <4>4 DEF Channel
    <3>2. CASE d # c
      BY <2>1, <3>2, ChannelUntouched DEF ChannelInv, ChannelTypes
    <3> QED BY <3>1, <3>2
  <2> QED BY <2>4, <2>5 DEF ChannelInv
<1>2. CASE WriterFails(c) \/ WriterEnds(c)
  <2>1. /\ out_task[c] = "running" /\ out_task' = [out_task EXCEPT ![c] = "done"]
        /\ UNCHANGED <<pc, send_seq, client_seq>>
        /\ outbound' = [outbound EXCEPT ![c] = << >>]
    BY <1>2 DEF WriterFails, WriterEnds, ChannelInv, ChannelTypes
  <2>2. ChannelTypes'
    BY <2>1 DEF ChannelInv, ChannelTypes
  <2>3. ASSUME NEW d \in Conns PROVE Channel(d)'
    <3>1. CASE d = c
      <4>1. outbound'[c] = << >> /\ out_task'[c] = "done" /\ Channel(c)
        BY <2>1 DEF ChannelInv, ChannelTypes
      <4> QED BY <2>1, <3>1, <4>1, ListenerAssumption DEF Channel, Handed
    <3>2. CASE d # c
      BY <2>1, <3>2, ChannelUntouched DEF ChannelInv, ChannelTypes
    <3> QED BY <3>1, <3>2
  <2> QED BY <2>2, <2>3 DEF ChannelInv
<1> QED BY <1>1, <1>2

\* Every step keeps the invariant of the channels.
LEMMA ChannelNextOK == ChannelInv /\ [WsNext]_wsVars => ChannelInv'
<1> SUFFICES ASSUME ChannelInv, [WsNext]_wsVars PROVE ChannelInv'
  OBVIOUS
<1>1. ASSUME NEW c \in Conns, Handshake(c) \/ HandshakeFails(c) \/ LoopEnds(c) \/ Unregister(c) PROVE ChannelInv'
  <2>1. CASE Handshake(c)
    BY <2>1, ChannelMoves DEF Handshake, Goto, Places
  <2>2. CASE HandshakeFails(c)
    BY <2>2, ChannelMoves DEF HandshakeFails, Goto, Places
  <2>3. CASE LoopEnds(c)
    BY <2>3, ChannelMoves DEF LoopEnds, AfterLoop, Goto, Places
  <2>4. CASE Unregister(c)
    BY <2>4, ChannelMoves DEF Unregister, Goto, Places
  <2> QED BY <1>1, <2>1, <2>2, <2>3, <2>4
<1>2. ASSUME UNCHANGED <<pc, send_seq, client_seq, outbound, out_task>> PROVE ChannelInv'
  BY <1>2 DEF ChannelInv, ChannelTypes, Channel, Handed
<1>3. ASSUME NEW c \in Conns, NEW ping \in BOOLEAN, ClientSends(c, ping) PROVE ChannelInv'
  BY <1>2, <1>3 DEF ClientSends
<1>4. CASE UNCHANGED wsVars
  BY <1>2, <1>4 DEF wsVars
<1> QED BY <1>1, <1>3, <1>4, RegisterChannelOK, ReceiveChannelOK, SendPongChannelOK, WriterChannelOK DEF WsNext

\* handle_ws_connection, its mpsc channel and its writer task: for every
\* capacity and whatever the interleaving, the next frame written carries the
\* number the client expects, and the channel keeps its bound.
THEOREM PongsInOrder == WsSpec => []ClientAcceptsNext
<1>1. WsInit => ChannelInv
  BY ListenerAssumption DEF WsInit, ChannelInv, ChannelTypes, Channel, Places
<1>2. ASSUME ChannelInv, NEW c \in Conns
      PROVE  /\ Len(outbound[c]) <= OUTBOUND_CAPACITY
             /\ outbound[c] # << >> => Head(outbound[c]) = client_seq[c]
  <2>1. outbound[c] \in Seq(Nat) /\ client_seq[c] \in Nat /\ Channel(c)
    BY <1>2 DEF ChannelInv, ChannelTypes
  <2>2. outbound[c] # << >> => 1 \in 1 .. Len(outbound[c]) /\ Head(outbound[c]) = outbound[c][1]
    BY <2>1
  <2> QED BY <2>1, <2>2 DEF Channel
<1>3. ChannelInv => ClientAcceptsNext
  BY <1>2 DEF ClientAcceptsNext
<1> QED BY <1>1, <1>3, ChannelNextOK, PTL DEF WsSpec

-----------------------------------------------------------------------------
(* Frames and their answers *)

Frames == [seq : Nat, ping : BOOLEAN]

\* The Pings of c that its handler has counted.
Counted(c) == {f \in wire[c] : f.ping /\ f.seq < recv_seq[c]}

\* What holds of a connection: its client numbers its frames without a gap or
\* a repetition, and there is a Pong for each Ping that was counted.
Numbered(c) ==
  /\ wire[c] \subseteq Frames /\ IsFiniteSet(wire[c])
  /\ \A f \in wire[c] : f.seq < Cardinality(wire[c])
  /\ \A f, g \in wire[c] : f.seq = g.seq => f = g
  /\ recv_seq[c] <= Cardinality(wire[c])
  /\ send_seq[c] = Cardinality(Counted(c))

\* The inductive invariant.
FramesInv ==
  /\ recv_seq \in [Conns -> Nat] /\ send_seq \in [Conns -> Nat]
  /\ wire \in [Conns -> SUBSET Frames]
  /\ \A c \in Conns : Numbered(c)

\* A connection whose frames and numbers stay keeps its invariant.
LEMMA NumberedUntouched ==
  ASSUME NEW d \in Conns, Numbered(d), wire'[d] = wire[d], recv_seq'[d] = recv_seq[d], send_seq'[d] = send_seq[d]
  PROVE  Numbered(d)'
BY DEF Numbered, Counted

\* A client numbers its frames one after another.
LEMMA ClientSendsNumbered ==
  ASSUME FramesInv, NEW c \in Conns, NEW ping \in BOOLEAN, ClientSends(c, ping)
  PROVE  FramesInv'
<1> DEFINE n == Cardinality(wire[c])
           x == [seq |-> n, ping |-> ping]
<1>1. /\ wire' = [wire EXCEPT ![c] = @ \cup {x}] /\ UNCHANGED <<recv_seq, send_seq>>
  BY DEF ClientSends
<1>2. Numbered(c) /\ recv_seq[c] \in Nat
  BY DEF FramesInv
<1>3. n \in Nat
  BY <1>2, FS_CardinalityType DEF Numbered
<1>4. x \in Frames /\ x.seq = n
  BY <1>3 DEF Frames
<1> HIDE DEF x
<1>5. x \notin wire[c]
  BY <1>2, <1>3, <1>4 DEF Numbered
<1>6. wire'[c] = wire[c] \cup {x} /\ wire' \in [Conns -> SUBSET Frames]
  BY <1>1, <1>4 DEF FramesInv
<1>7. IsFiniteSet(wire'[c]) /\ Cardinality(wire'[c]) = n + 1
  <2>1. IsFiniteSet(wire[c])
    BY <1>2 DEF Numbered
  <2>2. /\ IsFiniteSet(wire[c] \cup {x})
        /\ Cardinality(wire[c] \cup {x}) = IF x \in wire[c] THEN Cardinality(wire[c]) ELSE Cardinality(wire[c]) + 1
    BY <2>1, FS_AddElement
  <2> QED BY <1>5, <1>6, <2>2, Zenon
<1> HIDE DEF n
<1>8. \A f \in wire[c] : f.seq \in Nat /\ f.seq < n
  BY <1>2 DEF Numbered, Frames, n
<1>9. recv_seq[c] <= n /\ send_seq[c] = Cardinality(Counted(c))
  BY <1>2 DEF Numbered, n
<1>10. Counted(c)' = Counted(c)
  BY <1>1, <1>2, <1>3, <1>4, <1>6, <1>9 DEF Counted
<1>11. /\ \A f \in wire'[c] : f.seq < n + 1
       /\ \A f, g \in wire'[c] : f.seq = g.seq => f = g
  BY <1>2, <1>3, <1>4, <1>6, <1>8 DEF Numbered
<1>12. Numbered(c)'
  <2>1. wire'[c] \subseteq Frames
    BY <1>6
  <2>2. recv_seq'[c] <= Cardinality(wire'[c])
    BY <1>1, <1>2, <1>3, <1>7, <1>9
  <2>3. send_seq'[c] = Cardinality(Counted(c)')
    BY <1>1, <1>9, <1>10
  <2> QED BY <1>7, <1>11, <2>1, <2>2, <2>3 DEF Numbered
<1>13. ASSUME NEW d \in Conns, d # c PROVE Numbered(d)'
  BY <1>1, <1>13, NumberedUntouched DEF FramesInv
<1> QED BY <1>1, <1>6, <1>12, <1>13 DEF FramesInv

\* A handler takes a frame only under the number it expects.
LEMMA ReceiveNumbered ==
  ASSUME FramesInv, NEW c \in Conns, Receive(c)
  PROVE  FramesInv'
<1>1. PICK f \in wire[c] :
        /\ f.seq = recv_seq[c] /\ recv_seq' = [recv_seq EXCEPT ![c] = @ + 1]
        /\ IF f.ping THEN send_seq' = [send_seq EXCEPT ![c] = @ + 1] ELSE UNCHANGED send_seq
  BY DEF Receive, Decrypts
<1>2. UNCHANGED wire
  BY DEF Receive
<1>3. Numbered(c) /\ recv_seq[c] \in Nat /\ send_seq[c] \in Nat /\ recv_seq'[c] = recv_seq[c] + 1
  BY <1>1 DEF FramesInv
<1>4. /\ recv_seq' \in [Conns -> Nat] /\ send_seq' \in [Conns -> Nat] /\ wire' \in [Conns -> SUBSET Frames]
  BY <1>1, <1>2 DEF FramesInv
<1>5. Cardinality(wire[c]) \in Nat /\ \A g \in wire[c] : g.seq \in Nat
  BY <1>3, FS_CardinalityType DEF Numbered, Frames
<1>6. recv_seq'[c] <= Cardinality(wire[c])
  BY <1>1, <1>3, <1>5 DEF Numbered
<1>7. \A g \in wire[c] : g.seq < recv_seq'[c] <=> g.seq < recv_seq[c] \/ g = f
  BY <1>1, <1>3, <1>5 DEF Numbered
<1>8. IsFiniteSet(Counted(c)) /\ f \notin Counted(c)
  <2>1. Counted(c) \subseteq wire[c] /\ IsFiniteSet(wire[c])
    BY <1>3 DEF Counted, Numbered
  <2>2. f \notin Counted(c)
    BY <1>1, <1>3 DEF Counted
  <2> QED BY <2>1, <2>2, FS_Subset
<1>9. send_seq'[c] = Cardinality(Counted(c)')
  <2>1. CASE f.ping
    <3>1. Counted(c)' = Counted(c) \cup {f}
      BY <1>1, <1>2, <1>7, <2>1 DEF Counted
    <3>2. send_seq'[c] = send_seq[c] + 1
      BY <1>1, <2>1 DEF FramesInv
    <3> QED BY <1>3, <1>8, <3>1, <3>2, FS_AddElement DEF Numbered
  <2>2. CASE ~ f.ping
    <3>1. Counted(c)' = Counted(c)
      BY <1>1, <1>2, <1>7, <2>2 DEF Counted
    <3> QED BY <1>1, <1>3, <2>2, <3>1 DEF Numbered
  <2> QED BY <2>1, <2>2
<1>10. Numbered(c)'
  BY <1>2, <1>3, <1>6, <1>9 DEF Numbered
<1>11. ASSUME NEW d \in Conns, d # c PROVE Numbered(d)'
  <2>1. recv_seq'[d] = recv_seq[d] /\ send_seq'[d] = send_seq[d]
    BY <1>1, <1>11 DEF FramesInv
  <2> QED BY <1>2, <2>1, NumberedUntouched DEF FramesInv
<1> QED BY <1>4, <1>10, <1>11 DEF FramesInv

\* Every step keeps the invariant of the frames.
LEMMA FramesNextOK == FramesInv /\ [WsNext]_wsVars => FramesInv'
<1> SUFFICES ASSUME FramesInv, [WsNext]_wsVars PROVE FramesInv'
  OBVIOUS
<1>1. ASSUME UNCHANGED <<wire, recv_seq, send_seq>> PROVE FramesInv'
  BY <1>1 DEF FramesInv, Numbered, Counted
<1>2. ASSUME NEW c \in Conns,
             \/ Handshake(c) \/ HandshakeFails(c) \/ Register(c) \/ LoopEnds(c)
             \/ SendPong(c) \/ Unregister(c)
      PROVE  FramesInv'
  BY <1>1, <1>2 DEF Handshake, HandshakeFails, Register, LoopEnds, SendPong, Unregister
<1>3. ASSUME NEW c \in Conns, WriterSends(c) \/ WriterFails(c) \/ WriterEnds(c) PROVE FramesInv'
  BY <1>1, <1>3 DEF WriterSends, WriterFails, WriterEnds
<1>4. CASE UNCHANGED wsVars
  BY <1>1, <1>4 DEF wsVars
<1> QED BY <1>2, <1>3, <1>4, ClientSendsNumbered, ReceiveNumbered DEF WsNext

\* The receive loop: however the frames of a client are replayed and reordered
\* on their way, a handler produces at most one Pong for each Ping.
THEOREM OnePongPerPing == WsSpec => []AnsweredOnce
<1>1. WsInit => FramesInv
  <2> SUFFICES ASSUME WsInit PROVE FramesInv
    OBVIOUS
  <2>1. ASSUME NEW c \in Conns PROVE Numbered(c)
    <3>1. wire[c] = {} /\ recv_seq[c] = 0 /\ send_seq[c] = 0
      BY DEF WsInit
    <3>2. Counted(c) = {}
      BY <3>1 DEF Counted
    <3> QED BY <3>1, <3>2, FS_EmptySet DEF Numbered
  <2> QED BY <2>1 DEF WsInit, FramesInv
<1>2. ASSUME FramesInv, NEW c \in Conns
      PROVE  send_seq[c] <= Cardinality({f \in wire[c] : f.ping})
  <2> DEFINE pings == {f \in wire[c] : f.ping}
  <2>1. Numbered(c)
    BY <1>2 DEF FramesInv
  <2>2. IsFiniteSet(pings)
    BY <2>1, FS_Subset DEF Numbered
  <2>3. Counted(c) \subseteq pings
    BY DEF Counted
  <2> HIDE DEF pings
  <2>4. Cardinality(Counted(c)) <= Cardinality(pings)
    BY <2>2, <2>3, FS_Subset
  <2> QED BY <2>1, <2>4 DEF Numbered, pings
<1>3. FramesInv => AnsweredOnce
  BY <1>2 DEF AnsweredOnce
<1> QED BY <1>1, <1>3, FramesNextOK, PTL DEF WsSpec

-----------------------------------------------------------------------------
(* GatewayRooms *)

RoomType == [state : {"Waiting", "Running", "Finished"}, players : Seq(Players), max : Nat]

\* The inductive invariant: every id in use or removed is below next_id.
RoomsInv ==
  /\ next_id \in Nat
  /\ gone \subseteq Nat /\ \A id \in gone : id < next_id
  /\ \A id \in DOMAIN rooms : /\ id \in Nat /\ id < next_id /\ id \notin gone
                              /\ rooms[id] \in RoomType
                              /\ Len(rooms[id].players) <= rooms[id].max

\* leave_room: what is left of the players is shorter and has nobody new.
LEMMA WithoutFacts ==
  ASSUME NEW s \in Seq(Players), NEW p
  PROVE  /\ Without(s, p) \in Seq(Players)
         /\ Len(Without(s, p)) \in Nat /\ Len(Without(s, p)) <= Len(s)
         /\ \A k \in DOMAIN Without(s, p) : \E j \in DOMAIN s : Without(s, p)[k] = s[j]
<1> DEFINE K == {k \in DOMAIN s : s[k] # p}
<1>0. K \in SUBSET DOMAIN s /\ Without(s, p) = Selected(s, K)
  BY DEF Without
<1> HIDE DEF K
<1>1. /\ Selected(s, K) \in Seq(Players)
      /\ Len(Selected(s, K)) \in 0 .. Len(s)
  BY <1>0, SelectedFacts
<1>2. PICK at : ReadsOff(Selected(s, K), s, K, at)
  BY <1>0, SelectedFacts
<1> QED BY <1>0, <1>1, <1>2 DEF ReadsOff

\* A step that changes the players of one room.
LEMMA ChangedRoomOK ==
  ASSUME RoomsInv, NEW id \in DOMAIN rooms, NEW room \in RoomType, Len(room.players) <= room.max,
         rooms' = [rooms EXCEPT ![id] = room], UNCHANGED <<next_id, gone>>
  PROVE  RoomsInv'
<1>1. DOMAIN rooms' = DOMAIN rooms /\ \A i \in DOMAIN rooms : rooms'[i] = IF i = id THEN room ELSE rooms[i]
  OBVIOUS
<1> QED BY <1>1 DEF RoomsInv

\* join_room takes a free seat.
LEMMA JoinRoomOK ==
  ASSUME RoomsInv, NEW id, NEW p \in Players, JoinRoom(id, p)
  PROVE  RoomsInv'
<1> DEFINE room == [rooms[id] EXCEPT !.players = Append(@, p)]
<1>1. id \in DOMAIN rooms /\ rooms[id] \in RoomType /\ Len(rooms[id].players) < rooms[id].max
  BY DEF JoinRoom, HasRoom, RoomsInv
<1>2. rooms[id].players \in Seq(Players) /\ rooms[id].max \in Nat
  BY <1>1 DEF RoomType
<1>3. /\ Append(rooms[id].players, p) \in Seq(Players)
      /\ Len(Append(rooms[id].players, p)) = Len(rooms[id].players) + 1 /\ Len(rooms[id].players) \in Nat
  BY <1>2
<1>4. room \in RoomType /\ room.max = rooms[id].max /\ room.players = Append(rooms[id].players, p)
  BY <1>1, <1>3 DEF RoomType
<1>5. rooms' = [rooms EXCEPT ![id] = room] /\ UNCHANGED <<next_id, gone>>
  BY <1>1 DEF JoinRoom
<1> HIDE DEF room
<1>6. Len(room.players) <= room.max
  BY <1>1, <1>2, <1>3, <1>4
<1> QED BY <1>1, <1>4, <1>5, <1>6, ChangedRoomOK

\* leave_room only frees seats.
LEMMA LeaveRoomOK ==
  ASSUME RoomsInv, NEW id, NEW p, LeaveRoom(id, p)
  PROVE  RoomsInv'
<1> DEFINE room == [rooms[id] EXCEPT !.players = Without(@, p)]
<1>1. id \in DOMAIN rooms /\ rooms[id] \in RoomType /\ Len(rooms[id].players) <= rooms[id].max
  BY DEF LeaveRoom, RoomsInv
<1>2. rooms[id].players \in Seq(Players) /\ rooms[id].max \in Nat /\ Len(rooms[id].players) \in Nat
  BY <1>1 DEF RoomType
<1>3. /\ Without(rooms[id].players, p) \in Seq(Players)
      /\ Len(Without(rooms[id].players, p)) \in Nat
      /\ Len(Without(rooms[id].players, p)) <= Len(rooms[id].players)
  BY <1>2, WithoutFacts
<1>4. room \in RoomType /\ room.max = rooms[id].max /\ room.players = Without(rooms[id].players, p)
  BY <1>1, <1>3 DEF RoomType
<1>5. rooms' = [rooms EXCEPT ![id] = room] /\ UNCHANGED <<next_id, gone>>
  BY <1>1 DEF LeaveRoom
<1> HIDE DEF room
<1>6. Len(room.players) <= room.max
  BY <1>1, <1>2, <1>3, <1>4
<1> QED BY <1>1, <1>4, <1>5, <1>6, ChangedRoomOK

\* A change of state leaves the seats alone.
LEMMA AdvanceOK ==
  ASSUME RoomsInv, NEW id, NEW from, NEW to \in {"Running", "Finished"}, Advance(id, from, to)
  PROVE  RoomsInv'
<1> DEFINE room == [rooms[id] EXCEPT !.state = to]
<1>1. id \in DOMAIN rooms /\ rooms[id] \in RoomType /\ Len(rooms[id].players) <= rooms[id].max
  BY DEF Advance, RoomsInv
<1>2. room \in RoomType /\ room.max = rooms[id].max /\ room.players = rooms[id].players
  BY <1>1 DEF RoomType
<1>3. rooms' = [rooms EXCEPT ![id] = room] /\ UNCHANGED <<next_id, gone>>
  BY <1>1 DEF Advance
<1> HIDE DEF room
<1> QED BY <1>1, <1>2, <1>3, ChangedRoomOK

\* Every step keeps the invariant of the rooms.
LEMMA RoomsNextOK == RoomsInv /\ [RoomNext]_roomVars => RoomsInv'
<1> SUFFICES ASSUME RoomsInv, [RoomNext]_roomVars PROVE RoomsInv'
  OBVIOUS
<1>1. ASSUME NEW max \in 0 .. MaxPlayers, CreateRoom(max) PROVE RoomsInv'
  <2>1. [state |-> "Waiting", players |-> << >>, max |-> max] \in RoomType
    BY RoomConstants DEF RoomType
  <2>2. /\ next_id' = next_id + 1 /\ gone' = gone
        /\ DOMAIN rooms' = DOMAIN rooms \cup {next_id}
        /\ \A id \in DOMAIN rooms' :
             rooms'[id] = IF id = next_id THEN [state |-> "Waiting", players |-> << >>, max |-> max] ELSE rooms[id]
    BY <1>1 DEF CreateRoom, NewId
  <2>3. next_id \in Nat /\ next_id \notin gone
    BY DEF RoomsInv
  <2>4. next_id' \in Nat /\ gone' \subseteq Nat /\ \A id \in gone' : id < next_id'
    BY <2>2, <2>3 DEF RoomsInv
  <2>5. \A id \in DOMAIN rooms' : id \in Nat /\ id < next_id' /\ id \notin gone'
    BY <2>2, <2>3 DEF RoomsInv
  <2>6. \A id \in DOMAIN rooms' : rooms'[id] \in RoomType /\ Len(rooms'[id].players) <= rooms'[id].max
    BY <2>1, <2>2 DEF RoomsInv
  <2> QED BY <2>4, <2>5, <2>6 DEF RoomsInv
<1>2. ASSUME NEW id, StartRoom(id) \/ FinishRoom(id) PROVE RoomsInv'
  BY <1>2, AdvanceOK DEF StartRoom, FinishRoom
<1>3. ASSUME NEW id, RemoveRoom(id) PROVE RoomsInv'
  <2>1. /\ id \in DOMAIN rooms /\ next_id' = next_id /\ gone' = gone \cup {id}
        /\ DOMAIN rooms' = DOMAIN rooms \ {id} /\ \A r \in DOMAIN rooms' : rooms'[r] = rooms[r]
    BY <1>3 DEF RemoveRoom
  <2> QED BY <2>1 DEF RoomsInv
<1>4. ASSUME NEW id, NEW p \in Players, JoinRoom(id, p) \/ LeaveRoom(id, p) PROVE RoomsInv'
  BY <1>4, JoinRoomOK, LeaveRoomOK
<1>5. CASE UNCHANGED roomVars
  BY <1>5 DEF roomVars, RoomsInv
<1> QED BY <1>1, <1>2, <1>3, <1>4, <1>5 DEF RoomNext

\* RoomManager::new has no rooms.
LEMMA RoomsInitOK == RoomInit => RoomsInv
  BY DEF RoomInit, RoomsInv

\* RoomManager: for any number of rooms, players and seats, and in whatever order
\* rooms are created, joined, left, started and cleaned up, no room is overfull
\* and no removed RoomId comes back.
THEOREM RoomsStaySound == RoomSpec => []RoomsSound
<1>1. RoomsInv => RoomsSound
  BY DEF RoomsInv, RoomsSound
<1> QED BY <1>1, RoomsInitOK, RoomsNextOK, PTL DEF RoomSpec

\* What a step does to a running game.
FrozenStep ==
  \A id \in DOMAIN rooms : rooms[id].state = "Running" =>
    /\ id \in DOMAIN rooms'
    /\ Len(rooms'[id].players) <= Len(rooms[id].players)
    /\ Roster(rooms'[id]) \subseteq Roster(rooms[id])

\* What each operation may do to a running room.
LEMMA FrozenStepOK == RoomsInv /\ [RoomNext]_roomVars => FrozenStep
<1> SUFFICES ASSUME RoomsInv, [RoomNext]_roomVars,
                    NEW id \in DOMAIN rooms, rooms[id].state = "Running"
             PROVE  /\ id \in DOMAIN rooms'
                    /\ Len(rooms'[id].players) <= Len(rooms[id].players)
                    /\ Roster(rooms'[id]) \subseteq Roster(rooms[id])
  BY DEF FrozenStep
<1>0. /\ rooms[id] \in RoomType /\ rooms[id].players \in Seq(Players) /\ Len(rooms[id].players) \in Nat
      /\ id # next_id
  BY DEF RoomsInv, RoomType
<1>1. ASSUME id \in DOMAIN rooms', rooms'[id].players = rooms[id].players
      PROVE  /\ id \in DOMAIN rooms'
             /\ Len(rooms'[id].players) <= Len(rooms[id].players)
             /\ Roster(rooms'[id]) \subseteq Roster(rooms[id])
  BY <1>0, <1>1 DEF Roster
<1>2. ASSUME NEW max, CreateRoom(max)
      PROVE  id \in DOMAIN rooms' /\ rooms'[id].players = rooms[id].players
  BY <1>0, <1>2 DEF CreateRoom, NewId
<1>3. ASSUME NEW r, StartRoom(r) \/ FinishRoom(r)
      PROVE  id \in DOMAIN rooms' /\ rooms'[id].players = rooms[id].players
  <2>1. PICK to : rooms' = [rooms EXCEPT ![r].state = to]
    BY <1>3 DEF StartRoom, FinishRoom, Advance
  <2> QED BY <2>1, <1>0 DEF RoomType
<1>4. ASSUME NEW r, RemoveRoom(r)
      PROVE  id \in DOMAIN rooms' /\ rooms'[id].players = rooms[id].players
  BY <1>4 DEF RemoveRoom, Removable
<1>5. ASSUME NEW r, NEW p, JoinRoom(r, p)
      PROVE  id \in DOMAIN rooms' /\ rooms'[id].players = rooms[id].players
  BY <1>5 DEF JoinRoom
<1>6. ASSUME NEW r, NEW p, LeaveRoom(r, p)
      PROVE  /\ id \in DOMAIN rooms'
             /\ Len(rooms'[id].players) <= Len(rooms[id].players)
             /\ Roster(rooms'[id]) \subseteq Roster(rooms[id])
  <2>1. CASE r # id
    <3>1. id \in DOMAIN rooms' /\ rooms'[id] = rooms[id]
      BY <1>6, <2>1 DEF LeaveRoom
    <3> QED BY <3>1, <1>1
  <2>2. CASE r = id
    <3>1. id \in DOMAIN rooms' /\ rooms'[id].players = Without(rooms[id].players, p)
      BY <1>0, <1>6, <2>2 DEF LeaveRoom, RoomType
    <3>2. /\ Len(Without(rooms[id].players, p)) <= Len(rooms[id].players)
          /\ \A k \in DOMAIN Without(rooms[id].players, p) :
               \E j \in DOMAIN rooms[id].players : Without(rooms[id].players, p)[k] = rooms[id].players[j]
      BY <1>0, WithoutFacts
    <3> QED BY <3>1, <3>2 DEF Roster
  <2> QED BY <2>1, <2>2
<1>7. CASE UNCHANGED roomVars
  BY <1>1, <1>7 DEF roomVars
<1> QED BY <1>1, <1>2, <1>3, <1>4, <1>5, <1>6, <1>7 DEF RoomNext

\* RoomManager: no operation lets anybody into a running game or removes its room,
\* whatever the other rooms go through.
THEOREM RunningGameKeepsRoster == RoomSpec => RosterFrozen
<1>1. RoomsInv /\ [RoomNext]_roomVars => [FrozenStep]_roomVars
  BY FrozenStepOK
<1> QED BY <1>1, RoomsInitOK, RoomsNextOK, PTL DEF RoomSpec, RosterFrozen, FrozenStep
=============================================================================
