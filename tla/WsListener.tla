----------------------------- MODULE WsListener -----------------------------
(***************************************************************************)
(* The WebSocket side of the gateway (server/gateway/src/listener.rs): one *)
(* task per connection runs handle_ws_connection, a second one drains its  *)
(* outbound channel, and all of them share the ClientRegistry behind a     *)
(* lock.  Every await of the handler ends an action.                       *)
(*                                                                         *)
(* Frames carry only what the handler's control depends on: the sequence   *)
(* number authenticated as AAD and whether the payload is a Ping.          *)
(* AES-GCM is taken to be perfect: a frame decrypts iff it was produced    *)
(* with this key and this sequence number.  wire[c] is everything the      *)
(* client has sent; the handler may be handed any of it, in any order and  *)
(* any number of times.                                                    *)
(***************************************************************************)
EXTENDS Integers, Sequences, FiniteSets

CONSTANTS
  Conns,             \* connections accepted by /ws
  OUTBOUND_CAPACITY, \* 64 in the code
  MaxFrames          \* bound of the model: frames a client sends

ASSUME ListenerAssumption == OUTBOUND_CAPACITY \in Nat \ {0} /\ MaxFrames \in Nat

VARIABLES
  pc,          \* where the handler of a connection is
  registry,    \* session_id -> the connection whose key and sender are stored
  recv_seq, send_seq,
  outbound,    \* the mpsc channel: sequence numbers of encrypted Pongs
  out_task,    \* the spawned writer: "none", "running", "done"
  wire,        \* frames the client has sent: [seq, ping]
  client_seq   \* sequence number the client expects next from the server

wsVars == <<pc, registry, recv_seq, send_seq, outbound, out_task, wire, client_seq>>

WsInit ==
  /\ pc = [c \in Conns |-> "hello"]
  /\ registry = [id \in {} |-> CHOOSE c \in Conns : TRUE]
  /\ recv_seq = [c \in Conns |-> 0]
  /\ send_seq = [c \in Conns |-> 0]
  /\ outbound = [c \in Conns |-> << >>]
  /\ out_task = [c \in Conns |-> "none"]
  /\ wire = [c \in Conns |-> {}]
  /\ client_seq = [c \in Conns |-> 0]

\* The id under which a handler registers and unregisters, the literal 1.
SessionId(c) == 1

Goto(c, place) == pc' = [pc EXCEPT ![c] = place]

-----------------------------------------------------------------------------
\* A valid ClientHello, a successful begin_handshake and the ServerHello on its way.
Handshake(c) ==
  /\ pc[c] = "hello"
  /\ Goto(c, "register")
  /\ UNCHANGED <<registry, recv_seq, send_seq, outbound, out_task, wire, client_seq>>

\* Anything else before the handshake is done returns from the handler.
HandshakeFails(c) ==
  /\ pc[c] = "hello"
  /\ Goto(c, "closed")
  /\ UNCHANGED <<registry, recv_seq, send_seq, outbound, out_task, wire, client_seq>>

\* register (insert under the lock, replacing an entry of the same id), then
\* split the socket and spawn the writer.
Register(c) ==
  /\ pc[c] = "register"
  /\ registry' = [id \in DOMAIN registry \cup {SessionId(c)} |->
                    IF id = SessionId(c) THEN c ELSE registry[id]]
  /\ out_task' = [out_task EXCEPT ![c] = "running"]
  /\ Goto(c, "serving")
  /\ UNCHANGED <<recv_seq, send_seq, outbound, wire, client_seq>>

\* The client encrypts its next message with its own counter.
ClientSends(c, ping) ==
  /\ pc[c] \in {"serving", "sending"}
  /\ Cardinality(wire[c]) < MaxFrames
  /\ wire' = [wire EXCEPT ![c] = @ \cup {[seq |-> Cardinality(@), ping |-> ping]}]
  /\ UNCHANGED <<pc, registry, recv_seq, send_seq, outbound, out_task, client_seq>>

\* Authentication that ignores the sequence number.
Decrypts_Mut(c, f) == recv_seq[c] < MaxFrames

\* decrypt_frame_aad with AAD = recv_seq
Decrypts(c, f) == f.seq = recv_seq[c]

\* Binary message: decrypt, count it, answer a Ping; payloads that do not
\* deserialize and other messages are skipped.
Receive(c) ==
  /\ pc[c] = "serving"
  /\ \E f \in wire[c] :
       /\ Decrypts(c, f)
       /\ recv_seq' = [recv_seq EXCEPT ![c] = @ + 1]
       /\ IF f.ping
          THEN send_seq' = [send_seq EXCEPT ![c] = @ + 1] /\ Goto(c, "sending")
          ELSE UNCHANGED <<pc, send_seq>>
  /\ UNCHANGED <<registry, outbound, out_task, wire, client_seq>>

\* A handler that returns at once instead of breaking out of its loop.
AfterLoop_Mut == "closed"

\* Where breaking out of the receive loop leads.
AfterLoop == "leaving"

\* A frame that does not authenticate, a Close, a read error or the end of
\* the stream ends the loop.
LoopEnds(c) ==
  /\ pc[c] = "serving"
  /\ Goto(c, AfterLoop)
  /\ UNCHANGED <<registry, recv_seq, send_seq, outbound, out_task, wire, client_seq>>

\* A sender that drops the frame when the channel is full (try_send).
Enqueue_Mut(c) ==
  outbound' = [outbound EXCEPT ![c] =
                 IF Len(@) < OUTBOUND_CAPACITY THEN Append(@, send_seq[c] - 1) ELSE @]

\* outbound_tx.send(..).await: waits for room.
Enqueue(c) ==
  /\ Len(outbound[c]) < OUTBOUND_CAPACITY
  /\ outbound' = [outbound EXCEPT ![c] = Append(@, send_seq[c] - 1)]

\* The Pong enters the channel; if the writer is gone the error is ignored.
SendPong(c) ==
  /\ pc[c] = "sending"
  /\ IF out_task[c] = "running" THEN Enqueue(c) ELSE UNCHANGED outbound
  /\ Goto(c, "serving")
  /\ UNCHANGED <<registry, recv_seq, send_seq, out_task, wire, client_seq>>

\* An unregister that finds nothing to remove.
Unregister_Mut(c) ==
  /\ pc[c] = "leaving"
  /\ Goto(c, "closed")
  /\ UNCHANGED <<registry, recv_seq, send_seq, outbound, out_task, wire, client_seq>>

\* unregister, by id, whoever owns the entry; then the handler returns and
\* drops its own sender.
Unregister(c) ==
  /\ pc[c] = "leaving"
  /\ registry' = [id \in DOMAIN registry \ {SessionId(c)} |-> registry[id]]
  /\ Goto(c, "closed")
  /\ UNCHANGED <<recv_seq, send_seq, outbound, out_task, wire, client_seq>>

\* The writer sends the next frame; the client accepts the number it expects.
WriterSends(c) ==
  /\ out_task[c] = "running" /\ outbound[c] # << >>
  /\ outbound' = [outbound EXCEPT ![c] = Tail(@)]
  /\ client_seq' = [client_seq EXCEPT ![c] = @ + 1]
  /\ UNCHANGED <<pc, registry, recv_seq, send_seq, out_task, wire>>

\* A write error ends the writer and closes the channel.
WriterFails(c) ==
  /\ out_task[c] = "running" /\ outbound[c] # << >>
  /\ out_task' = [out_task EXCEPT ![c] = "done"]
  /\ outbound' = [outbound EXCEPT ![c] = << >>]
  /\ UNCHANGED <<pc, registry, recv_seq, send_seq, wire, client_seq>>

\* A sender of c's channel is still alive: the handler's or the registry's.
HasSender(c) == pc[c] # "closed" \/ \E id \in DOMAIN registry : registry[id] = c

\* recv() returns None once the channel is empty and no sender is left.
WriterEnds(c) ==
  /\ out_task[c] = "running" /\ outbound[c] = << >> /\ ~ HasSender(c)
  /\ out_task' = [out_task EXCEPT ![c] = "done"]
  /\ UNCHANGED <<pc, registry, recv_seq, send_seq, outbound, wire, client_seq>>

Handler(c) == Register(c) \/ SendPong(c) \/ Unregister(c)
Writer(c)  == WriterSends(c) \/ WriterFails(c) \/ WriterEnds(c)

WsNext ==
  \E c \in Conns :
    \/ Handshake(c) \/ HandshakeFails(c) \/ Register(c)
    \/ \E ping \in BOOLEAN : ClientSends(c, ping)
    \/ Receive(c) \/ LoopEnds(c) \/ SendPong(c) \/ Unregister(c)
    \/ WriterSends(c) \/ WriterFails(c) \/ WriterEnds(c)

\* The runtime polls a task that can make progress; the peer reads or its
\* socket fails, so a pending write does not stay pending for ever.
WsFairness == \A c \in Conns : WF_wsVars(Handler(c)) /\ WF_wsVars(Writer(c))

WsSpec == WsInit /\ [][WsNext]_wsVars /\ WsFairness

-----------------------------------------------------------------------------
(* Properties *)

\* A replayed or reordered frame never earns a second Pong: the Pongs a
\* handler has produced are never more than the Pings its client sent.
AnsweredOnce ==
  \A c \in Conns : send_seq[c] <= Cardinality({f \in wire[c] : f.ping})

\* The frame the writer sends next carries the number the client will
\* authenticate it with: no Pong is lost or reordered between the counter,
\* the channel, which keeps its bound, and the socket.
ClientAcceptsNext ==
  \A c \in Conns :
    /\ Len(outbound[c]) <= OUTBOUND_CAPACITY
    /\ (out_task[c] = "running" /\ outbound[c] # << >>) => Head(outbound[c]) = client_seq[c]

\* No entry outlives its handler: once no handler is past its handshake the
\* registry is empty, although handlers remove each other's entries.
RegistryDrains ==
  (\A c \in Conns : pc[c] \in {"hello", "register", "closed"}) => DOMAIN registry = {}

\* When a handler has returned, the writer task it spawned ends too: no
\* forgotten clone of the sender keeps it waiting on recv().
WriterTaskEnds == \A c \in Conns : pc[c] = "closed" ~> out_task[c] # "running"
=============================================================================
