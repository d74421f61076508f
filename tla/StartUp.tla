------------------------------- MODULE StartUp -------------------------------
(***************************************************************************)
(* The start of the client (client/js/bootstrap.js, transport.js,          *)
(* client/wasm_loader/src/handshake.rs, lib.rs): a key pair is made, the   *)
(* socket opened, a timer set and a ClientHello sent; the ServerHello      *)
(* completes the key exchange, and from then on both sides number their    *)
(* encrypted frames.  The server side is handle_ws_connection with         *)
(* HandshakeManager::begin_handshake.  The socket delivers in order; either*)
(* side may find it closed.  Cryptography is perfect: a session key is the *)
(* client's key pair it was made with, a frame opens with its key and      *)
(* number only.                                                            *)
(***************************************************************************)
EXTENDS Integers, Sequences

CONSTANT MaxMessages  \* bound of the model: frames each side encrypts

ASSUME StartUpConstants == MaxMessages \in Nat

VARIABLES
  loader,     \* handshake::STATE: [pair, public, completed, retries, key, send, recv]; pairs are numbered
  timer,      \* the setTimeout of start(): unset, set, fired or cancelled
  screen,     \* what the player sees: loading, error or game
  client_socket, \* open, closed or none
  server,     \* handle_ws_connection: [pc, key, recv, send]
  to_server,  \* what the socket carries
  to_client,
  pairs       \* auxiliary: key pairs generated

startUpVars == <<loader, timer, screen, client_socket, server, to_server, to_client, pairs>>

None == 0  \* no key pair, no key

StartUpInit ==
  /\ loader = [pair |-> None, public |-> None, completed |-> FALSE, retries |-> 0,
               key |-> None, send |-> 0, recv |-> 0]
  /\ timer = "unset" /\ screen = "loading" /\ client_socket = "none"
  /\ server = [pc |-> "none", key |-> None, recv |-> 0, send |-> 0]
  /\ to_server = <<>> /\ to_client = <<>> /\ pairs = 0

Hello(k)      == [kind |-> "hello", key |-> k, seq |-> 0]
Frame(k, seq) == [kind |-> "frame", key |-> k, seq |-> seq]

-----------------------------------------------------------------------------
(* The client *)

\* begin(): the n-th key pair, and everything of an earlier attempt forgotten.
Begun(l, n) ==
  [l EXCEPT !.pair = n, !.public = n, !.completed = FALSE, !.key = None, !.send = 0, !.recv = 0]

\* transport.sendBinary: on a socket that is not open the data waits for an
\* onopen that has already been.
SendBinary(m) == to_server' = IF client_socket = "open" THEN Append(to_server, m) ELSE to_server

\* start(), as far as the open socket: the timer and the ClientHello.
Start ==
  /\ client_socket = "none" /\ client_socket' = "open"
  /\ loader' = Begun(loader, 1) /\ pairs' = 1
  /\ timer' = "set"
  /\ to_server' = <<Hello(1)>>
  /\ server' = [server EXCEPT !.pc = "hello"]
  /\ UNCHANGED <<screen, to_client>>

\* A complete() that does not open the encrypted payload of the ServerHello.
Opens_Mut(l, m) == TRUE

\* The payload of the ServerHello opens with the key this side has derived.
Opens(l, m) == l.pair = m.key

\* complete(): the key pair is used up also when the payload does not open.
Complete(m) ==
  IF m.kind # "hello" \/ loader.pair = None
  THEN screen' = "error" /\ UNCHANGED <<loader, timer>>
  ELSE IF ~ Opens(loader, m)
  THEN screen' = "error" /\ loader' = [loader EXCEPT !.pair = None] /\ UNCHANGED timer
  ELSE /\ loader' = [loader EXCEPT !.pair = None, !.key = loader.pair, !.completed = TRUE]
       /\ timer' = IF timer = "set" THEN "cancelled" ELSE timer
       /\ screen' = "game"

\* decrypt_incoming(): a frame that does not open is only logged.
DecryptIncoming(m) ==
  /\ loader' = IF m = Frame(loader.key, loader.recv) THEN [loader EXCEPT !.recv = @ + 1] ELSE loader
  /\ UNCHANGED <<timer, screen>>

\* wasm_on_websocket_message
OnWebSocketMessage ==
  /\ to_client # <<>> /\ client_socket = "open"
  /\ IF loader.completed THEN DecryptIncoming(Head(to_client)) ELSE Complete(Head(to_client))
  /\ to_client' = Tail(to_client)
  /\ UNCHANGED <<client_socket, server, to_server, pairs>>

\* wasm_on_handshake_timeout: on_timeout makes a key pair, js_retry_handshake
\* makes another one and sends it; nobody sets the timer again.
OnTimeout ==
  /\ timer = "set" /\ timer' = "fired"
  /\ IF loader.retries < 1
     THEN /\ loader' = [Begun(loader, pairs + 2) EXCEPT !.retries = @ + 1]
          /\ pairs' = pairs + 2
          /\ SendBinary(Hello(pairs + 2))
          /\ UNCHANGED screen
     ELSE /\ loader' = [loader EXCEPT !.retries = @ + 1]
          /\ screen' = "error"
          /\ UNCHANGED <<pairs, to_server>>
  /\ UNCHANGED <<client_socket, server, to_client>>

\* encrypt_outgoing() and js_send_websocket
SendMessage ==
  /\ loader.key # None /\ loader.send < MaxMessages
  /\ SendBinary(Frame(loader.key, loader.send))
  /\ loader' = [loader EXCEPT !.send = @ + 1]
  /\ UNCHANGED <<timer, screen, client_socket, server, to_client, pairs>>

\* ws.onclose only logs.
OnClose ==
  /\ client_socket = "open" /\ to_client = <<>> /\ server.pc = "closed"
  /\ client_socket' = "closed"
  /\ UNCHANGED <<loader, timer, screen, server, to_server, to_client, pairs>>

-----------------------------------------------------------------------------
(* The server: handle_ws_connection *)

ServerRest == UNCHANGED <<loader, timer, screen, client_socket, pairs>>

\* The first message; the ServerHello answers it.
ServerHandshake ==
  /\ server.pc = "hello" /\ to_server # <<>> /\ Head(to_server).kind = "hello"
  /\ server' = [server EXCEPT !.pc = "serving", !.key = Head(to_server).key]
  /\ to_server' = Tail(to_server)
  /\ to_client' = Append(to_client, Hello(Head(to_server).key))
  /\ ServerRest

\* A frame that does not open with the key and the next number closes the
\* connection; a Ping is answered with a numbered Pong.
ServerReceives(ping) ==
  /\ server.pc = "serving" /\ to_server # <<>>
  /\ IF Head(to_server) # Frame(server.key, server.recv)
     THEN server' = [server EXCEPT !.pc = "closed"] /\ UNCHANGED to_client
     ELSE IF ping
     THEN /\ server' = [server EXCEPT !.recv = @ + 1, !.send = @ + 1]
          /\ to_client' = Append(to_client, Frame(server.key, server.send))
     ELSE server' = [server EXCEPT !.recv = @ + 1] /\ UNCHANGED to_client
  /\ to_server' = Tail(to_server)
  /\ ServerRest

\* A refused handshake, a broken socket or a shutdown.
ServerCloses ==
  /\ server.pc \in {"hello", "serving"}
  /\ server' = [server EXCEPT !.pc = "closed"]
  /\ UNCHANGED <<to_server, to_client>> /\ ServerRest

StartUpNext ==
  \/ Start \/ OnWebSocketMessage \/ OnTimeout \/ SendMessage \/ OnClose
  \/ ServerHandshake \/ ServerCloses
  \/ \E ping \in BOOLEAN : ServerReceives(ping)

\* The browser's event loop and the server's task go on; nobody has to close.
StartUpSpec ==
  /\ StartUpInit /\ [][StartUpNext]_startUpVars
  /\ WF_startUpVars(Start) /\ WF_startUpVars(OnWebSocketMessage) /\ WF_startUpVars(OnTimeout)
  /\ WF_startUpVars(OnClose) /\ WF_startUpVars(ServerHandshake)

-----------------------------------------------------------------------------
\* Frames on their way are numbered without a gap from the receiver's next number
\* to the sender's: then the receiver can open all of them.
Aligned(way, key, recv, send) ==
  /\ Len(way) = send - recv
  /\ \A i \in DOMAIN way : way[i] = Frame(key, recv + i - 1)

\* When the client has completed the exchange, the server holds the very same
\* key, however late the ServerHello was and although a timeout has replaced
\* the key pair; and as long as the server listens, no frame on the way in
\* either direction will fail to open.
KeysAgree ==
  loader.completed => /\ server.key = loader.key
                      /\ server.pc = "serving" => Aligned(to_server, loader.key, server.recv, loader.send)
                      /\ client_socket = "open" => Aligned(to_client, loader.key, loader.recv, server.send)

\* "retry >= 1: show the error screen": a client that is not answered in time
\* gets into the game or tells the player.
TimeoutResolves == (timer = "fired") ~> (screen # "loading")
=============================================================================
