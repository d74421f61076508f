--------------------------- MODULE ClientProofs -----------------------------
(***************************************************************************)
(* Proofs about parts of the client: that the key exchange leaves both     *)
(* sides with one key and matching frame numbers, for any number of        *)
(* frames; that the input of each frame reaches netcode at most once and   *)
(* in order, for any number of ticks a frame may have; that batches of     *)
(* script updates are handed over all or nothing; that an asset comes out  *)
(* of decryption whole or not at all; that gestures are recognized as the  *)
(* whole hold has it; and that the bridge keeps its entity map exact and   *)
(* accounts for every event.                                               *)
(***************************************************************************)
EXTENDS StartUp, Input, AtomicUpdate, Assets, Bridge, ListLemmas

(* StartUp and Input *)

Messages == [kind : {"hello", "frame"}, key : Nat, seq : Nat]
Loaders  == [pair : Nat, public : Nat, completed : BOOLEAN, retries : Nat, key : Nat, send : Nat, recv : Nat]
Servers  == [pc : {"none", "hello", "serving", "closed"}, key : Nat, recv : Nat, send : Nat]

\* The types of both sides and of what is under way.
StartUpTypes ==
  /\ loader \in Loaders /\ server \in Servers /\ pairs \in Nat
  /\ timer \in {"unset", "set", "fired", "cancelled"}
  /\ client_socket \in {"none", "open", "closed"}
  /\ to_server \in Seq(Messages) /\ to_client \in Seq(Messages)

\* Before the socket is opened nothing has happened; it is closed after the server's.
SocketInv ==
  /\ client_socket = "none" => /\ server.pc = "none" /\ timer = "unset" /\ to_client = <<>>
                               /\ ~ loader.completed
                               /\ server.recv = 0 /\ server.send = 0
  /\ client_socket = "closed" => server.pc = "closed"

\* The first key pair is in use exactly until the timer fires or is cancelled.
TimerInv ==
  /\ timer \in {"unset", "set"} => loader.retries = 0
  /\ timer = "set" => pairs = 1 /\ ~ loader.completed
  /\ loader.pair = 1 => timer = "set"

\* A server that has read nothing will read the first ClientHello.
HelloInv ==
  server.pc = "hello" => /\ to_server # <<>> /\ Head(to_server) = Hello(1)
                         /\ to_client = <<>> /\ ~ loader.completed
                         /\ server.recv = 0 /\ server.send = 0
                         /\ timer = "set" => to_server = <<Hello(1)>>

\* Until the exchange is complete only hellos are on the way, and the one answer
\* is the answer to the first of them.
BeforeInv ==
  ~ loader.completed =>
    /\ loader.key = None /\ loader.send = 0 /\ loader.recv = 0
    /\ \A i \in DOMAIN to_server : to_server[i].kind = "hello"
    /\ to_client \in {<<>>, <<Hello(1)>>}
    /\ to_client # <<>> => server.key = 1 /\ server.recv = 0 /\ server.send = 0
    /\ server.pc = "serving" => server.recv = 0 /\ server.send = 0
    /\ (server.pc = "serving" /\ timer = "set") => to_server = <<>>

\* The inductive invariant of the key exchange.
SInv == StartUpTypes /\ SocketInv /\ TimerInv /\ HelloInv /\ BeforeInv /\ KeysAgree

-----------------------------------------------------------------------------
\* A frame with the sender's number keeps a way aligned.
LEMMA AlignedAppend ==
  ASSUME NEW way \in Seq(Messages), NEW k \in Nat, NEW r \in Nat, NEW s \in Nat, Aligned(way, k, r, s)
  PROVE  Aligned(Append(way, Frame(k, s)), k, r, s + 1)
<1> DEFINE longer == Append(way, Frame(k, s))
<1>1. Len(way) \in Nat /\ Len(way) = s - r
  BY DEF Aligned
<1>2. /\ Len(longer) = Len(way) + 1 /\ DOMAIN longer = 1 .. Len(way) + 1
      /\ \A i \in 1 .. Len(way) : longer[i] = way[i]
      /\ longer[Len(way) + 1] = Frame(k, s)
  BY <1>1
<1>3. \A i \in 1 .. Len(way) : way[i] = Frame(k, r + i - 1)
  BY <1>1 DEF Aligned
<1>4. Len(longer) = (s + 1) - r
  BY <1>1, <1>2
<1>5. r + (Len(way) + 1) - 1 = s
  BY <1>1
<1>6. \A i \in DOMAIN longer : longer[i] = Frame(k, r + i - 1)
  <2> TAKE i \in DOMAIN longer
  <2>1. CASE i \in 1 .. Len(way)
    BY <1>2, <1>3, <2>1
  <2>2. CASE i = Len(way) + 1
    BY <1>2, <1>5, <2>2
  <2> QED BY <1>1, <1>2, <2>1, <2>2
<1> QED BY <1>4, <1>6 DEF Aligned

\* What the receiver takes from an aligned way is the frame it expects.
LEMMA AlignedTail ==
  ASSUME NEW way \in Seq(Messages), NEW k \in Nat, NEW r \in Nat, NEW s \in Nat, Aligned(way, k, r, s),
         way # <<>>
  PROVE  Head(way) = Frame(k, r) /\ Aligned(Tail(way), k, r + 1, s)
<1>1. Len(way) \in Nat \ {0} /\ Head(way) = way[1]
  OBVIOUS
<1>2. Head(way) = Frame(k, r)
  BY <1>1 DEF Aligned
<1>3. Len(Tail(way)) = Len(way) - 1 /\ \A i \in 1 .. Len(way) - 1 : Tail(way)[i] = way[i + 1]
  BY <1>1
<1>4. \A i \in 1 .. Len(way) - 1 : way[i + 1] = Frame(k, r + (i + 1) - 1)
  BY <1>1 DEF Aligned
<1>5. \A i \in DOMAIN Tail(way) : Tail(way)[i] = Frame(k, (r + 1) + i - 1)
  BY <1>1, <1>3, <1>4
<1> QED BY <1>1, <1>2, <1>3, <1>5 DEF Aligned

\* Nothing is under way between equal numbers.
LEMMA AlignedEmpty == \A k, s \in Nat : Aligned(<<>>, k, s, s)
BY DEF Aligned

\* A ClientHello is a message.
LEMMA HelloType == \A k \in Nat : Hello(k) \in Messages
BY DEF Hello, Messages

\* A frame is a message, and no ClientHello.
LEMMA FrameType == \A k, s \in Nat : Frame(k, s) \in Messages /\ \A j \in Nat : Frame(k, s) # Hello(j)
BY DEF Frame, Hello, Messages

-----------------------------------------------------------------------------

\* Nothing has been sent at first.
LEMMA StartUpInitOK == StartUpInit => SInv
BY DEF StartUpInit, SInv, StartUpTypes, SocketInv, TimerInv, HelloInv, BeforeInv, KeysAgree, Loaders, Servers, None

\* start()
LEMMA StartOK == SInv /\ Start => SInv'
<1> SUFFICES ASSUME SInv, Start PROVE SInv'
  OBVIOUS
<1>1. /\ loader' = Begun(loader, 1) /\ loader \in Loaders /\ server' = [server EXCEPT !.pc = "hello"]
      /\ server \in Servers /\ to_server' = <<Hello(1)>> /\ to_client' = to_client /\ to_client = <<>>
      /\ timer' = "set" /\ client_socket' = "open" /\ pairs' = 1 /\ loader.retries = 0
      /\ server.recv = 0 /\ server.send = 0
  BY DEF Start, SInv, StartUpTypes, SocketInv, TimerInv
<1>2. /\ loader' \in Loaders /\ loader'.pair = 1 /\ ~ loader'.completed /\ loader'.key = None
      /\ loader'.send = 0 /\ loader'.recv = 0 /\ loader'.retries = 0
  BY <1>1 DEF Begun, Loaders, None
<1>3. server' \in Servers /\ server'.pc = "hello" /\ server'.recv = 0 /\ server'.send = 0
  BY <1>1 DEF Servers
<1>4. to_server' \in Seq(Messages) /\ to_server' # <<>> /\ Head(to_server') = Hello(1)
      /\ \A i \in DOMAIN to_server' : to_server'[i].kind = "hello"
  BY <1>1, HelloType DEF Hello
<1>5. StartUpTypes'
  BY <1>1, <1>2, <1>3, <1>4 DEF SInv, StartUpTypes
<1>6. SocketInv' /\ TimerInv' /\ HelloInv' /\ BeforeInv' /\ KeysAgree'
  BY <1>1, <1>2, <1>3, <1>4 DEF SocketInv, TimerInv, HelloInv, BeforeInv, KeysAgree
<1> QED BY <1>5, <1>6 DEF SInv

\* wasm_on_handshake_timeout: only an unanswered client is touched.
LEMMA TimeoutOK == SInv /\ OnTimeout => SInv'
<1> SUFFICES ASSUME SInv, OnTimeout PROVE SInv'
  OBVIOUS
<1>1. /\ timer = "set" /\ loader.retries = 0 /\ pairs = 1 /\ ~ loader.completed /\ loader \in Loaders
      /\ server' = server /\ to_client' = to_client /\ client_socket' = client_socket
      /\ timer' = "fired"
  BY DEF OnTimeout, SInv, StartUpTypes, TimerInv
<1>2. /\ loader' = [Begun(loader, 3) EXCEPT !.retries = @ + 1] /\ pairs' = 3
      /\ to_server' = IF client_socket = "open" THEN Append(to_server, Hello(3)) ELSE to_server
  BY <1>1 DEF OnTimeout, SendBinary
<1>3. /\ loader' \in Loaders /\ loader'.pair = 3 /\ ~ loader'.completed /\ loader'.key = None
      /\ loader'.send = 0 /\ loader'.recv = 0
  <2>1. /\ Begun(loader, 3) \in Loaders /\ Begun(loader, 3).pair = 3 /\ ~ Begun(loader, 3).completed
        /\ Begun(loader, 3).key = None /\ Begun(loader, 3).send = 0 /\ Begun(loader, 3).recv = 0
    BY <1>1 DEF Begun, Loaders, None
  <2> QED BY <1>2, <2>1 DEF Loaders
<1>4. to_server \in Seq(Messages) /\ Hello(3) \in Messages /\ Hello(3).kind = "hello"
  BY HelloType DEF SInv, StartUpTypes, Hello
<1>5. to_server' \in Seq(Messages)
  BY <1>2, <1>4
<1>6. to_server # <<>> => to_server' # <<>> /\ Head(to_server') = Head(to_server)
  BY <1>2, <1>4
<1>7. \A i \in DOMAIN to_server' : to_server'[i].kind = "hello"
  <2>1. \A i \in DOMAIN to_server : to_server[i].kind = "hello"
    BY <1>1 DEF SInv, BeforeInv
  <2> QED BY <1>2, <1>4, <2>1
<1>8. StartUpTypes'
  BY <1>1, <1>2, <1>3, <1>5 DEF SInv, StartUpTypes
<1>9. SocketInv'
  BY <1>1, <1>3 DEF SInv, SocketInv
<1>10. TimerInv' /\ KeysAgree'
  BY <1>1, <1>3 DEF TimerInv, KeysAgree
<1>11. HelloInv'
  BY <1>1, <1>3, <1>6 DEF SInv, HelloInv
<1>12. BeforeInv'
  BY <1>1, <1>3, <1>7 DEF SInv, BeforeInv
<1> QED BY <1>8, <1>9, <1>10, <1>11, <1>12 DEF SInv

\* wasm_on_websocket_message: the ServerHello, or a numbered frame.
LEMMA MessageOK == SInv /\ OnWebSocketMessage => SInv'
<1> SUFFICES ASSUME SInv, OnWebSocketMessage PROVE SInv'
  OBVIOUS
<1> DEFINE m == Head(to_client)
<1>1. /\ to_client # <<>> /\ client_socket = "open" /\ to_client' = Tail(to_client)
      /\ client_socket' = client_socket /\ server' = server /\ to_server' = to_server /\ pairs' = pairs
  BY DEF OnWebSocketMessage
<1>2. /\ loader \in Loaders /\ server \in Servers /\ to_client \in Seq(Messages) /\ to_client' \in Seq(Messages)
  BY <1>1 DEF SInv, StartUpTypes
<1>3. server.pc # "hello"
  BY <1>1 DEF SInv, HelloInv
<1>4. CASE loader.completed
  <2>1. /\ loader' = IF m = Frame(loader.key, loader.recv) THEN [loader EXCEPT !.recv = @ + 1] ELSE loader
        /\ timer' = timer
    BY <1>4 DEF OnWebSocketMessage, DecryptIncoming
  <2>2. Aligned(to_client, loader.key, loader.recv, server.send)
    BY <1>1, <1>4 DEF SInv, KeysAgree
  <2>3. m = Frame(loader.key, loader.recv) /\ Aligned(Tail(to_client), loader.key, loader.recv + 1, server.send)
    BY <1>1, <1>2, <2>2, AlignedTail DEF Loaders, Servers
  <2>4. /\ loader' \in Loaders /\ loader'.recv = loader.recv + 1 /\ loader'.completed
        /\ loader'.key = loader.key /\ loader'.send = loader.send /\ loader'.pair = loader.pair
        /\ loader'.retries = loader.retries
    <3>1. loader' = [loader EXCEPT !.recv = @ + 1]
      BY <2>1, <2>3, Zenon
    <3> QED BY <1>2, <1>4, <3>1 DEF Loaders
  <2>5. StartUpTypes'
    BY <1>1, <1>2, <2>1, <2>4 DEF SInv, StartUpTypes
  <2>6. SocketInv' /\ TimerInv' /\ HelloInv' /\ BeforeInv'
    BY <1>1, <1>3, <1>4, <2>1, <2>4 DEF SInv, SocketInv, TimerInv, HelloInv, BeforeInv
  <2>7. KeysAgree'
    BY <1>1, <1>4, <2>3, <2>4 DEF SInv, KeysAgree
  <2> QED BY <2>5, <2>6, <2>7 DEF SInv
<1>5. CASE ~ loader.completed
  <2>1. /\ to_client = <<Hello(1)>> /\ m = Hello(1) /\ to_client' = <<>>
        /\ server.key = 1 /\ server.recv = 0 /\ server.send = 0
        /\ loader.key = None /\ loader.send = 0 /\ loader.recv = 0
    <3>1. to_client = <<Hello(1)>>
      BY <1>1, <1>5 DEF SInv, BeforeInv
    <3>2. m = Hello(1) /\ Tail(to_client) = <<>>
      BY <3>1
    <3> QED BY <1>1, <1>5, <3>1, <3>2 DEF SInv, BeforeInv
  <2>2. Complete(m) /\ m.kind = "hello" /\ m.key = 1
    BY <1>5, <2>1 DEF OnWebSocketMessage, Hello
  <2>3. CASE loader.pair = 1
    <3>1. timer = "set"
      BY <2>3 DEF SInv, TimerInv
    <3>2. /\ loader' = [loader EXCEPT !.pair = None, !.key = loader.pair, !.completed = TRUE]
          /\ timer' = "cancelled"
      BY <2>2, <2>3, <3>1 DEF Complete, Opens, None
    <3>3. /\ loader' \in Loaders /\ loader'.completed /\ loader'.key = 1 /\ loader'.pair = 0
          /\ loader'.send = 0 /\ loader'.recv = 0
      BY <1>2, <2>1, <2>3, <3>2 DEF Loaders, None
    <3>4. server.pc = "serving" => to_server = <<>>
      BY <1>5, <3>1 DEF SInv, BeforeInv
    <3>5. Aligned(<<>>, 1, 0, 0)
      BY AlignedEmpty
    <3>6. StartUpTypes'
      BY <1>1, <1>2, <3>2, <3>3 DEF SInv, StartUpTypes
    <3>7. SocketInv' /\ TimerInv' /\ HelloInv' /\ BeforeInv'
      BY <1>1, <1>3, <3>2, <3>3 DEF SInv, SocketInv, TimerInv, HelloInv, BeforeInv
    <3>8. KeysAgree'
      BY <1>1, <2>1, <3>3, <3>4, <3>5 DEF KeysAgree
    <3> QED BY <3>6, <3>7, <3>8 DEF SInv
  <2>4. CASE loader.pair # 1
    <3>1. timer' = timer /\ loader' \in {loader, [loader EXCEPT !.pair = None]}
      BY <2>2, <2>4 DEF Complete, Opens
    <3>2. /\ loader' \in Loaders /\ ~ loader'.completed /\ loader'.key = loader.key
          /\ loader'.send = loader.send /\ loader'.recv = loader.recv /\ loader'.pair # 1
          /\ loader'.retries = loader.retries
      BY <1>2, <1>5, <2>4, <3>1 DEF Loaders, None
    <3>3. StartUpTypes'
      BY <1>1, <1>2, <3>1, <3>2 DEF SInv, StartUpTypes
    <3>4. SocketInv' /\ TimerInv' /\ HelloInv' /\ KeysAgree'
      BY <1>1, <1>3, <3>1, <3>2 DEF SInv, SocketInv, TimerInv, HelloInv, KeysAgree
    <3>5. BeforeInv'
      BY <1>1, <1>5, <2>1, <3>1, <3>2 DEF SInv, BeforeInv
    <3> QED BY <3>3, <3>4, <3>5 DEF SInv
  <2> QED BY <2>3, <2>4
<1> QED BY <1>4, <1>5

\* encrypt_outgoing(): a frame takes the next number, sent or not.
LEMMA SendOK == SInv /\ SendMessage => SInv'
<1> SUFFICES ASSUME SInv, SendMessage PROVE SInv'
  OBVIOUS
<1>1. /\ loader \in Loaders /\ server \in Servers /\ to_server \in Seq(Messages)
      /\ loader' = [loader EXCEPT !.send = @ + 1]
      /\ to_server' = IF client_socket = "open" THEN Append(to_server, Frame(loader.key, loader.send)) ELSE to_server
      /\ timer' = timer /\ client_socket' = client_socket /\ server' = server
      /\ to_client' = to_client /\ pairs' = pairs
  BY DEF SendMessage, SendBinary, SInv, StartUpTypes
<1>2. loader.completed
  BY DEF SendMessage, SInv, BeforeInv
<1>3. /\ loader' \in Loaders /\ loader'.completed /\ loader'.key = loader.key /\ loader'.pair = loader.pair
      /\ loader'.send = loader.send + 1 /\ loader'.recv = loader.recv /\ loader'.retries = loader.retries
  BY <1>1, <1>2 DEF Loaders
<1>4. to_server' \in Seq(Messages)
  BY <1>1, FrameType DEF Loaders
<1>5. server.pc # "hello"
  BY <1>2 DEF SInv, HelloInv
<1>6. StartUpTypes'
  BY <1>1, <1>3, <1>4 DEF SInv, StartUpTypes
<1>7. SocketInv' /\ TimerInv' /\ HelloInv' /\ BeforeInv'
  BY <1>1, <1>2, <1>3, <1>5 DEF SInv, SocketInv, TimerInv, HelloInv, BeforeInv
<1>8. server.pc = "serving" => Aligned(to_server', loader.key, server.recv, loader.send + 1)
  <2> SUFFICES ASSUME server.pc = "serving" PROVE Aligned(to_server', loader.key, server.recv, loader.send + 1)
    OBVIOUS
  <2>1. client_socket = "open"
    BY DEF SInv, SocketInv, StartUpTypes
  <2>2. Aligned(to_server, loader.key, server.recv, loader.send)
    BY <1>2 DEF SInv, KeysAgree
  <2> QED BY <1>1, <2>1, <2>2, AlignedAppend DEF Loaders, Servers
<1>9. KeysAgree'
  BY <1>1, <1>2, <1>3, <1>8 DEF SInv, KeysAgree
<1> QED BY <1>6, <1>7, <1>9 DEF SInv

\* ws.onclose
LEMMA CloseOK == SInv /\ OnClose => SInv'
BY DEF OnClose, SInv, StartUpTypes, SocketInv, TimerInv, HelloInv, BeforeInv, KeysAgree

\* The first ClientHello is answered.
LEMMA ServerHandshakeOK == SInv /\ ServerHandshake => SInv'
<1> SUFFICES ASSUME SInv, ServerHandshake PROVE SInv'
  OBVIOUS
<1>1. /\ server.pc = "hello" /\ to_server # <<>> /\ Head(to_server) = Hello(1) /\ to_client = <<>>
      /\ ~ loader.completed /\ server.recv = 0 /\ server.send = 0
  BY DEF ServerHandshake, SInv, HelloInv
<1>2. /\ server' = [server EXCEPT !.pc = "serving", !.key = 1] /\ to_server' = Tail(to_server)
      /\ to_client' = <<Hello(1)>>
      /\ loader' = loader /\ timer' = timer /\ client_socket' = client_socket /\ pairs' = pairs
  <2>1. Hello(1).key = 1 /\ Append(<<>>, Hello(1)) = <<Hello(1)>>
    BY DEF Hello
  <2> QED BY <1>1, <2>1 DEF ServerHandshake, ServerRest
<1>3. /\ server' \in Servers /\ server'.pc = "serving" /\ server'.key = 1
      /\ server'.recv = 0 /\ server'.send = 0
  BY <1>1, <1>2 DEF SInv, StartUpTypes, Servers
<1>4. to_server' \in Seq(Messages) /\ to_client' \in Seq(Messages)
  BY <1>1, <1>2, HelloType DEF SInv, StartUpTypes
<1>5. \A i \in DOMAIN to_server' : to_server'[i].kind = "hello"
  <2>1. to_server \in Seq(Messages) /\ \A i \in DOMAIN to_server : to_server[i].kind = "hello"
    BY <1>1 DEF SInv, StartUpTypes, BeforeInv
  <2> QED BY <1>1, <1>2, <2>1
<1>6. timer = "set" => to_server' = <<>>
  <2>1. timer = "set" => to_server = <<Hello(1)>>
    BY <1>1 DEF SInv, HelloInv
  <2> QED BY <1>2, <2>1
<1>7. StartUpTypes'
  BY <1>2, <1>3, <1>4 DEF SInv, StartUpTypes
<1>8. SocketInv' /\ TimerInv' /\ HelloInv' /\ KeysAgree'
  BY <1>1, <1>2, <1>3 DEF SInv, SocketInv, TimerInv, HelloInv, KeysAgree
<1>9. BeforeInv'
  BY <1>1, <1>2, <1>3, <1>5, <1>6 DEF SInv, BeforeInv
<1> QED BY <1>7, <1>8, <1>9 DEF SInv
\* A frame that was not sent, or sent with another key, ends the connection; the
\* others advance the numbers of both sides.
LEMMA ServerReceivesOK ==
  ASSUME SInv, NEW ping \in BOOLEAN, ServerReceives(ping)
  PROVE  SInv'
<1> DEFINE expected == Frame(server.key, server.recv)
<1>1. /\ server.pc = "serving" /\ to_server # <<>> /\ to_server' = Tail(to_server)
      /\ loader' = loader /\ timer' = timer /\ client_socket' = client_socket /\ pairs' = pairs
  BY DEF ServerReceives, ServerRest
<1>2. /\ loader \in Loaders /\ server \in Servers /\ to_server \in Seq(Messages) /\ to_client \in Seq(Messages)
      /\ to_server' \in Seq(Messages)
  BY <1>1 DEF SInv, StartUpTypes
<1>3. client_socket = "open"
  BY <1>1 DEF SInv, SocketInv, StartUpTypes
<1>4. CASE ~ loader.completed
  <2>1. Head(to_server).kind = "hello" /\ \A i \in DOMAIN Tail(to_server) : Tail(to_server)[i].kind = "hello"
    <3>1. \A i \in DOMAIN to_server : to_server[i].kind = "hello"
      BY <1>4 DEF SInv, BeforeInv
    <3> QED BY <1>1, <1>2, <3>1
  <2>2. Head(to_server) # expected
    BY <2>1 DEF Frame
  <2>3. server' = [server EXCEPT !.pc = "closed"] /\ to_client' = to_client
    BY <2>2 DEF ServerReceives
  <2>4. /\ server' \in Servers /\ server'.pc = "closed" /\ server'.key = server.key
        /\ server'.recv = server.recv /\ server'.send = server.send
    BY <1>2, <2>3 DEF Servers
  <2>5. StartUpTypes'
    BY <1>1, <1>2, <2>3, <2>4 DEF SInv, StartUpTypes
  <2>6. SocketInv' /\ TimerInv' /\ HelloInv' /\ KeysAgree'
    BY <1>1, <1>3, <1>4, <2>3, <2>4 DEF SInv, SocketInv, TimerInv, HelloInv, KeysAgree
  <2>7. BeforeInv'
    BY <1>1, <1>4, <2>1, <2>3, <2>4 DEF SInv, BeforeInv
  <2> QED BY <2>5, <2>6, <2>7 DEF SInv
<1>5. CASE loader.completed
  <2>1. /\ server.key = loader.key
        /\ Aligned(to_server, loader.key, server.recv, loader.send)
        /\ Aligned(to_client, loader.key, loader.recv, server.send)
    BY <1>1, <1>3, <1>5 DEF SInv, KeysAgree
  <2>2. /\ Head(to_server) = expected
        /\ Aligned(Tail(to_server), loader.key, server.recv + 1, loader.send)
    BY <1>1, <1>2, <2>1, AlignedTail DEF Loaders, Servers
  <2>3. CASE ping
    <3>1. /\ server' = [server EXCEPT !.recv = @ + 1, !.send = @ + 1]
          /\ to_client' = Append(to_client, Frame(server.key, server.send))
      BY <2>2, <2>3 DEF ServerReceives
    <3>2. /\ server' \in Servers /\ server'.pc = "serving" /\ server'.key = server.key
          /\ server'.recv = server.recv + 1 /\ server'.send = server.send + 1
      <4>1. server.recv + 1 \in Nat /\ server.send + 1 \in Nat
        BY <1>2 DEF Servers
      <4>2. server' \in Servers
        BY <1>2, <3>1, <4>1 DEF Servers
      <4> QED BY <1>1, <1>2, <3>1, <4>2 DEF Servers
    <3>3. Aligned(to_client', loader.key, loader.recv, server.send + 1)
      BY <1>2, <2>1, <3>1, AlignedAppend DEF Loaders, Servers
    <3>4. to_client' \in Seq(Messages)
      BY <1>2, <3>1, FrameType DEF Servers
    <3>5. StartUpTypes'
      BY <1>1, <1>2, <3>2, <3>4 DEF SInv, StartUpTypes
    <3>6. SocketInv' /\ TimerInv' /\ HelloInv' /\ BeforeInv'
      BY <1>1, <1>3, <1>5, <3>2 DEF SInv, SocketInv, TimerInv, HelloInv, BeforeInv
    <3>7. KeysAgree'
      BY <1>1, <2>1, <2>2, <3>2, <3>3 DEF KeysAgree
    <3> QED BY <3>5, <3>6, <3>7 DEF SInv
  <2>4. CASE ~ ping
    <3>1. server' = [server EXCEPT !.recv = @ + 1] /\ to_client' = to_client
      BY <2>2, <2>4 DEF ServerReceives
    <3>2. /\ server' \in Servers /\ server'.pc = "serving" /\ server'.key = server.key
          /\ server'.recv = server.recv + 1 /\ server'.send = server.send
      <4>1. server.recv + 1 \in Nat /\ server.send + 1 \in Nat
        BY <1>2 DEF Servers
      <4>2. server' \in Servers
        BY <1>2, <3>1, <4>1 DEF Servers
      <4> QED BY <1>1, <1>2, <3>1, <4>2 DEF Servers
    <3>3. StartUpTypes'
      BY <1>1, <1>2, <3>1, <3>2 DEF SInv, StartUpTypes
    <3>4. SocketInv' /\ TimerInv' /\ HelloInv' /\ BeforeInv'
      BY <1>1, <1>3, <1>5, <3>2 DEF SInv, SocketInv, TimerInv, HelloInv, BeforeInv
    <3>5. KeysAgree'
      BY <1>1, <2>1, <2>2, <3>1, <3>2 DEF KeysAgree
    <3> QED BY <3>3, <3>4, <3>5 DEF SInv
  <2> QED BY <2>3, <2>4
<1> QED BY <1>4, <1>5

\* A server that closes leaves what was agreed on.
LEMMA ServerClosesOK == SInv /\ ServerCloses => SInv'
<1> SUFFICES ASSUME SInv, ServerCloses PROVE SInv'
  OBVIOUS
<1>1. /\ server.pc \in {"hello", "serving"} /\ server' = [server EXCEPT !.pc = "closed"]
      /\ UNCHANGED <<to_server, to_client, loader, timer, client_socket, pairs>>
  BY DEF ServerCloses, ServerRest
<1>2. /\ server' \in Servers /\ server'.pc = "closed" /\ server'.key = server.key
      /\ server'.recv = server.recv /\ server'.send = server.send
  BY <1>1 DEF SInv, StartUpTypes, Servers
<1> QED BY <1>1, <1>2 DEF SInv, StartUpTypes, SocketInv, TimerInv, HelloInv, BeforeInv, KeysAgree

\* Every step keeps the invariant.
LEMMA StartUpNextOK == SInv /\ [StartUpNext]_startUpVars => SInv'
<1> SUFFICES ASSUME SInv, [StartUpNext]_startUpVars PROVE SInv'
  OBVIOUS
<1>1. CASE UNCHANGED startUpVars
  BY <1>1 DEF startUpVars, SInv, StartUpTypes, SocketInv, TimerInv, HelloInv, BeforeInv, KeysAgree
<1> QED BY <1>1, StartOK, TimeoutOK, MessageOK, SendOK, CloseOK, ServerHandshakeOK, ServerReceivesOK,
           ServerClosesOK DEF StartUpNext

\* The client's handshake (handshake.rs, bootstrap.js) against the gateway's
\* handler: once the client has completed the exchange both sides hold one key
\* and every frame on the way will open, whatever timeouts, retries and closed
\* sockets came before, for any number of frames.
THEOREM KeysStayAgreed == StartUpSpec => []KeysAgree
<1>1. SInv => KeysAgree
  BY DEF SInv
<1> QED BY StartUpInitOK, StartUpNextOK, <1>1, PTL DEF StartUpSpec

-----------------------------------------------------------------------------
\* The tick count that the next distribution will see.
NextTick == IF counted_first THEN tick_count + 1 ELSE tick_count

\* The inductive invariant of the distribution: all of it lies before the next
\* tick and holds frames that were handed out.
NInv ==
  /\ raw_input \in [frame : Nat, down : BOOLEAN, pos : POSITIONS]
  /\ tick_count \in Nat /\ counted_first \in BOOLEAN
  /\ last_frame \in Nat /\ last_frame <= raw_input.frame
  /\ \A t \in DOMAIN net_inputs : /\ t \in Nat /\ t < NextTick
                                  /\ net_inputs[t] \in Nat /\ net_inputs[t] <= last_frame
  /\ FramesDistributedOnce

\* No frame has been captured at first.
LEMMA InputInitOK == InputInit => NInv
<1> SUFFICES ASSUME InputInit PROVE NInv
  OBVIOUS
<1>1. DOMAIN net_inputs = {}
  BY DEF InputInit
<1>2. raw_input \in [frame : Nat, down : BOOLEAN, pos : POSITIONS] /\ raw_input.frame = 0
  BY InputConstants DEF InputInit
<1> QED BY <1>1, <1>2 DEF InputInit, NInv, FramesDistributedOnce

\* A new frame has a higher number.
LEMMA CapturedOK ==
  ASSUME NInv, NEW down \in BOOLEAN, NEW pos \in POSITIONS, Captured(down, pos), CaptureRest
  PROVE  NInv'
<1>1. raw_input' = [frame |-> raw_input.frame + 1, down |-> down, pos |-> pos]
  BY DEF Captured
<1>2. raw_input' \in [frame : Nat, down : BOOLEAN, pos : POSITIONS] /\ last_frame <= raw_input'.frame
  BY <1>1 DEF NInv
<1> QED BY <1>2 DEF NInv, CaptureRest, NextTick, FramesDistributedOnce

\* A tick hands the frame out, or has handed it out before.
LEMMA FixedTickOK == NInv /\ FixedTick => NInv'
<1> SUFFICES ASSUME NInv, FixedTick PROVE NInv'
  OBVIOUS
<1>1. /\ tick_count' = tick_count + 1 /\ raw_input' = raw_input /\ counted_first' = counted_first
      /\ Distribute(NextTick)
  BY DEF FixedTick, NextTick
<1>2. NextTick \in Nat /\ NextTick' = NextTick + 1
  BY <1>1 DEF NInv, NextTick
<1>3. raw_input.frame \in Nat
  BY DEF NInv
<1> HIDE DEF NextTick
<1>4. CASE UNCHANGED <<last_frame, net_inputs>>
  BY <1>1, <1>2, <1>4 DEF NInv, FramesDistributedOnce
<1>5. CASE /\ raw_input.frame # last_frame
           /\ last_frame' = raw_input.frame
           /\ net_inputs' = net_inputs
  BY <1>1, <1>2, <1>3, <1>5 DEF NInv, FramesDistributedOnce
<1>6. CASE /\ raw_input.frame # last_frame
           /\ last_frame' = raw_input.frame
           /\ net_inputs' = [u \in DOMAIN net_inputs \cup {NextTick} |->
                              IF u = NextTick THEN raw_input.frame ELSE net_inputs[u]]
  <2>1. last_frame < raw_input.frame
    BY <1>3, <1>6 DEF NInv
  <2>2. \A t \in DOMAIN net_inputs :
          /\ t \in Nat /\ t < NextTick
          /\ net_inputs[t] \in Nat /\ net_inputs[t] < raw_input.frame
    BY <1>3, <2>1 DEF NInv
  <2>3. /\ DOMAIN net_inputs' = DOMAIN net_inputs \cup {NextTick}
        /\ net_inputs'[NextTick] = raw_input.frame
        /\ \A t \in DOMAIN net_inputs : net_inputs'[t] = net_inputs[t]
    BY <1>6, <2>2
  <2>4. \A t \in DOMAIN net_inputs' : /\ t \in Nat /\ t < NextTick'
                                       /\ net_inputs'[t] \in Nat /\ net_inputs'[t] <= last_frame'
    BY <1>2, <1>3, <1>6, <2>2, <2>3
  <2>5. FramesDistributedOnce'
    BY <1>2, <1>3, <2>2, <2>3 DEF NInv, FramesDistributedOnce
  <2> QED BY <1>1, <1>3, <1>6, <2>4, <2>5 DEF NInv
<1> QED BY <1>1, <1>4, <1>5, <1>6 DEF Distribute, should_distribute

\* Every step keeps the order of the frames.
LEMMA InputNextOK == NInv /\ [InputNext]_inputVars => NInv'
<1> SUFFICES ASSUME NInv, [InputNext]_inputVars PROVE NInv'
  OBVIOUS
<1>1. ASSUME NEW down \in BOOLEAN, NEW pos \in POSITIONS,
             Capture(down, pos) \/ CaptureAndChangeState(down, pos)
      PROVE  NInv'
  BY <1>1, CapturedOK DEF Capture, CaptureAndChangeState
<1>2. CASE UNCHANGED inputVars
  BY <1>2 DEF inputVars, NInv, NextTick, FramesDistributedOnce
<1> QED BY <1>1, <1>2, FixedTickOK DEF InputNext

\* input_distribution_system: each captured frame is given to netcode under at
\* most one tick, and later ticks hold later frames, however many ticks a
\* frame has and whichever side of it the tick counter is advanced on.
THEOREM FramesInOrder == InputSpec => []FramesDistributedOnce
<1>1. NInv => FramesDistributedOnce
  BY DEF NInv
<1> QED BY InputInitOK, InputNextOK, <1>1, PTL DEF InputSpec

-----------------------------------------------------------------------------
(* AtomicUpdate *)

\* Bytecodes of some of the scripts.
Parts == UNION {[S -> Bytecodes] : S \in SUBSET ScriptNames}

Histories == [asked : SUBSET ScriptNames, arrived : Parts, open : BOOLEAN]
PendingBatches   == [expected_scripts : SUBSET ScriptNames, received : Parts, created_at_frame : Nat]

\* A batch b has received exactly what its history h says has come, of what it asked for.
Faithful(b, h) ==
  /\ h.open
  /\ b.expected_scripts = h.asked
  /\ DOMAIN b.received = h.asked \cap DOMAIN h.arrived
  /\ \A s \in DOMAIN b.received : b.received[s] = h.arrived[s]

\* The inductive invariant: what happened since the last registration explains
\* every batch that is still pending.
BatchInv ==
  /\ batch_frame \in Nat
  /\ since \in [BatchIds -> Histories]
  /\ DOMAIN pending_batches \subseteq BatchIds
  /\ pending_batches \in [DOMAIN pending_batches -> PendingBatches]
  /\ \A u \in DOMAIN pending_batches : Faithful(pending_batches[u], since[u])
  /\ BatchIsWhole

-----------------------------------------------------------------------------
\* A script that arrives makes parts of parts.
LEMMA SetParts ==
  ASSUME NEW f \in Parts, NEW s \in ScriptNames, NEW code \in Bytecodes
  PROVE  Put(f, s, code) \in Parts
<1>1. PICK S \in SUBSET ScriptNames : f \in [S -> Bytecodes]
  BY DEF Parts
<1>2. Put(f, s, code) \in [S \cup {s} -> Bytecodes]
  BY <1>1 DEF Put
<1>3. S \cup {s} \in SUBSET ScriptNames
  OBVIOUS
<1> QED BY <1>2, <1>3 DEF Parts

\* A batch starts with no parts.
LEMMA EmptyParts == Empty \in Parts /\ DOMAIN Empty = {}
<1>1. Empty \in [{} -> Bytecodes] /\ DOMAIN Empty = {}
  BY DEF Empty
<1> QED BY <1>1 DEF Parts

\* The batches are well founded when nothing has been registered.
LEMMA BatchInitOK == BatchInit => BatchInv
<1> SUFFICES ASSUME BatchInit PROVE BatchInv
  OBVIOUS
<1>1. since \in [BatchIds -> Histories]
  BY EmptyParts DEF BatchInit, Histories
<1>2. DOMAIN pending_batches = {} /\ pending_batches \in [{} -> PendingBatches]
  BY DEF BatchInit, Empty
<1> QED BY <1>1, <1>2 DEF BatchInit, BatchInv, BatchIsWhole, NotReady

-----------------------------------------------------------------------------
\* A registration starts a batch and its history together.
LEMMA RegisterBatchOK ==
  ASSUME BatchInv, NEW u \in BatchIds, NEW S \in SUBSET ScriptNames, RegisterBatch(u, S)
  PROVE  BatchInv'
<1> DEFINE b == Registered(u, S)
           h == [asked |-> S, arrived |-> Empty, open |-> TRUE]
<1>1. b \in PendingBatches /\ h \in Histories
  BY EmptyParts DEF Registered, PendingBatches, Histories, BatchInv
<1>2. since' = [since EXCEPT ![u] = h] /\ since' \in [BatchIds -> Histories]
  BY <1>1 DEF RegisterBatch, BatchInv
<1>3. pending_batches' = Put(pending_batches, u, b)
  BY DEF RegisterBatch
<1>4. /\ DOMAIN pending_batches' = DOMAIN pending_batches \cup {u}
      /\ pending_batches'[u] = b
      /\ \A v \in DOMAIN pending_batches \ {u} : pending_batches'[v] = pending_batches[v]
  BY <1>3 DEF Put
<1>5. pending_batches' \in [DOMAIN pending_batches' -> PendingBatches]
  BY <1>1, <1>3, <1>4 DEF BatchInv, Put
<1>6. Faithful(b, h)
  BY EmptyParts DEF Faithful, Registered
<1>7. \A v \in DOMAIN pending_batches' : Faithful(pending_batches'[v], since'[v])
  BY <1>2, <1>4, <1>6 DEF BatchInv
<1>8. batch_frame' = batch_frame /\ ready' = ready
  BY DEF RegisterBatch
<1> QED BY <1>2, <1>4, <1>5, <1>7, <1>8 DEF BatchInv, BatchIsWhole

\* A script that arrives is kept, completes its batch, or concerns none; a batch
\* it completes is what its history wants.
LEMMA ScriptReadyOK ==
  ASSUME BatchInv, NEW u \in BatchIds, NEW s \in ScriptNames, NEW code \in Bytecodes,
         OnScriptReady(u, s, code)
  PROVE  BatchInv'
<1> DEFINE h == [since[u] EXCEPT !.arrived = Put(@, s, code)]
<1>1. /\ since[u] \in Histories /\ h \in Histories
      /\ h.asked = since[u].asked /\ h.open = since[u].open
      /\ h.arrived = Put(since[u].arrived, s, code)
  <2>1. since[u] \in Histories
    BY DEF BatchInv
  <2>2. Put(since[u].arrived, s, code) \in Parts
    BY <2>1, SetParts DEF Histories
  <2> QED BY <2>1, <2>2 DEF Histories
<1>2. DOMAIN h.arrived = DOMAIN since[u].arrived \cup {s} /\ h.arrived[s] = code
      /\ \A t \in DOMAIN since[u].arrived \ {s} : h.arrived[t] = since[u].arrived[t]
  BY <1>1 DEF Put
<1>3. batch_frame' = batch_frame
  BY DEF OnScriptReady
<1>4. CASE u \notin DOMAIN pending_batches \/ s \notin pending_batches[u].expected_scripts
  <2>1. since' = [since EXCEPT ![u] = h] /\ pending_batches' = pending_batches /\ ready' = ready
    BY <1>4 DEF OnScriptReady
  <2>2. since' \in [BatchIds -> Histories]
    BY <1>1, <2>1 DEF BatchInv
  <2>3. ASSUME NEW v \in DOMAIN pending_batches PROVE Faithful(pending_batches[v], since'[v])
    <3>1. Faithful(pending_batches[v], since[v])
      BY DEF BatchInv
    <3>2. CASE v # u
      BY <2>1, <3>1, <3>2 DEF BatchInv
    <3>3. CASE v = u
      BY <1>1, <1>2, <1>4, <2>1, <3>1, <3>3 DEF Faithful, BatchInv
    <3> QED BY <3>2, <3>3
  <2> QED BY <1>3, <2>1, <2>2, <2>3 DEF BatchInv, BatchIsWhole
<1>5. CASE u \in DOMAIN pending_batches /\ s \in pending_batches[u].expected_scripts
  <2> DEFINE b == [pending_batches[u] EXCEPT !.received = Put(@, s, code)]
  <2>1. /\ pending_batches[u] \in PendingBatches /\ b \in PendingBatches
        /\ b.expected_scripts = pending_batches[u].expected_scripts
        /\ b.received = Put(pending_batches[u].received, s, code)
    <3>1. pending_batches[u] \in PendingBatches
      BY <1>5 DEF BatchInv
    <3>2. Put(pending_batches[u].received, s, code) \in Parts
      BY <3>1, SetParts DEF PendingBatches
    <3> QED BY <3>1, <3>2 DEF PendingBatches
  <2>2. /\ DOMAIN b.received = DOMAIN pending_batches[u].received \cup {s} /\ b.received[s] = code
        /\ \A t \in DOMAIN pending_batches[u].received \ {s} : b.received[t] = pending_batches[u].received[t]
    BY <2>1 DEF Put
  <2>3. Faithful(pending_batches[u], since[u])
    BY <1>5 DEF BatchInv
  <2>4. Faithful(b, h)
    BY <1>1, <1>2, <1>5, <2>1, <2>2, <2>3 DEF Faithful
  <2>5. CASE IsWhole(b)
    <3>1. /\ pending_batches' = Dropped(pending_batches, u)
          /\ ready' = [scripts |-> b.received, wanted |-> Wanted(h), open |-> h.open]
          /\ since' = [since EXCEPT ![u] = [h EXCEPT !.open = FALSE]]
      BY <1>5, <2>5 DEF OnScriptReady
    <3>2. DOMAIN b.received = h.asked /\ h.asked \subseteq DOMAIN h.arrived
      BY <2>4, <2>5 DEF Faithful, IsWhole
    <3>3. b.received = Wanted(h)
      <4>1. b.received = [t \in DOMAIN b.received |-> b.received[t]]
        BY <2>1 DEF Put
      <4> QED BY <2>4, <3>2, <4>1 DEF Faithful, Wanted
    <3>4. BatchIsWhole'
      BY <2>4, <3>1, <3>3 DEF BatchIsWhole, Faithful
    <3>5. since' \in [BatchIds -> Histories]
      <4>1. [h EXCEPT !.open = FALSE] \in Histories
        BY <1>1 DEF Histories
      <4> QED BY <3>1, <4>1 DEF BatchInv
    <3>6. /\ DOMAIN pending_batches' = DOMAIN pending_batches \ {u}
          /\ pending_batches' \in [DOMAIN pending_batches \ {u} -> PendingBatches]
          /\ \A v \in DOMAIN pending_batches' : pending_batches'[v] = pending_batches[v]
      BY <3>1 DEF Dropped, BatchInv
    <3>7. \A v \in DOMAIN pending_batches' : Faithful(pending_batches'[v], since'[v])
      BY <3>1, <3>6 DEF BatchInv
    <3> QED BY <1>3, <3>4, <3>5, <3>6, <3>7 DEF BatchInv
  <2>6. CASE ~ IsWhole(b)
    <3>1. /\ pending_batches' = [pending_batches EXCEPT ![u] = b]
          /\ since' = [since EXCEPT ![u] = h]
          /\ ready' = ready
      BY <1>5, <2>6 DEF OnScriptReady
    <3>2. /\ since' \in [BatchIds -> Histories]
          /\ DOMAIN pending_batches' = DOMAIN pending_batches
          /\ pending_batches' \in [DOMAIN pending_batches -> PendingBatches]
      BY <1>1, <2>1, <3>1 DEF BatchInv
    <3>3. \A v \in DOMAIN pending_batches' : Faithful(pending_batches'[v], since'[v])
      BY <1>5, <2>4, <3>1, <3>2 DEF BatchInv
    <3> QED BY <1>3, <3>1, <3>2, <3>3 DEF BatchInv, BatchIsWhole
  <2> QED BY <2>5, <2>6
<1> QED BY <1>4, <1>5

\* What expires leaves with its history closed.
LEMMA TimeoutsOK == BatchInv /\ CheckTimeouts => BatchInv'
<1> SUFFICES ASSUME BatchInv, CheckTimeouts PROVE BatchInv'
  OBVIOUS
<1>1. /\ DOMAIN pending_batches' = DOMAIN pending_batches \ Expired
      /\ pending_batches' \in [DOMAIN pending_batches \ Expired -> PendingBatches]
      /\ \A u \in DOMAIN pending_batches' : pending_batches'[u] = pending_batches[u]
  BY DEF CheckTimeouts, BatchInv
<1>2. since' \in [BatchIds -> Histories]
  <2>1. \A u \in BatchIds : since[u] \in Histories /\ [since[u] EXCEPT !.open = FALSE] \in Histories
    BY DEF BatchInv, Histories
  <2> QED BY <2>1 DEF CheckTimeouts
<1>3. \A u \in DOMAIN pending_batches' : since'[u] = since[u]
  BY <1>1 DEF CheckTimeouts, BatchInv
<1>4. batch_frame' = batch_frame /\ ready' = ready
  BY DEF CheckTimeouts
<1> QED BY <1>1, <1>2, <1>3, <1>4 DEF BatchInv, BatchIsWhole

\* Every step keeps the invariant.
LEMMA BatchNextOK == BatchInv /\ [BatchNext]_batchVars => BatchInv'
<1> SUFFICES ASSUME BatchInv, [BatchNext]_batchVars PROVE BatchInv'
  OBVIOUS
<1>1. CASE \E u \in BatchIds, S \in SUBSET ScriptNames : RegisterBatch(u, S)
  BY <1>1, RegisterBatchOK
<1>2. CASE \E u \in BatchIds, s \in ScriptNames, code \in Bytecodes : OnScriptReady(u, s, code)
  BY <1>2, ScriptReadyOK
<1>3. CASE CheckTimeouts
  BY <1>3, TimeoutsOK
<1>4. CASE NextFrame
  BY <1>4 DEF NextFrame, BatchInv, BatchIsWhole
<1>5. CASE UNCHANGED batchVars
  BY <1>5 DEF batchVars, BatchInv, BatchIsWhole
<1> QED BY <1>1, <1>2, <1>3, <1>4, <1>5 DEF BatchNext

\* AtomicUpdateManager hands a batch over all or nothing: on_script_ready returns
\* Ready only with every script of the newest registration in its newest
\* bytecode, and never for a batch that was handed over or has expired.
THEOREM BatchesAreWhole == BatchSpec => []BatchIsWhole
<1>1. BatchInv => BatchIsWhole
  BY DEF BatchInv
<1> QED BY BatchInitOK, BatchNextOK, <1>1, PTL DEF BatchSpec

-----------------------------------------------------------------------------
(* Assets *)

\* The ends of the chunks, one by one.
EndEquation(f, h) ==
  h = [n \in 0 .. Len(f.sizes) |->
         IF n = 0 THEN WORD ELSE h[n - 1] + WORD + f.sizes[n] + CIPHERTEXT_MIN_LEN]


\* The end of each chunk follows from the end of the one before.
LEMMA EndIsStepwise ==
  ASSUME NEW f, f.sizes \in Seq(Nat)
  PROVE  /\ EndOf(f, 0) = WORD
         /\ \A i \in 1 .. Len(f.sizes) : EndOf(f, i) = EndOf(f, i - 1) + WORD + f.sizes[i] + CIPHERTEXT_MIN_LEN
         /\ \A i \in 0 .. Len(f.sizes) : EndOf(f, i) \in Nat
<1> DEFINE N == Len(f.sizes)
           next == [n \in 1 .. N |-> [m \in Nat |-> m + WORD + f.sizes[n] + CIPHERTEXT_MIN_LEN]]
<1>1. N \in Nat /\ WORD \in Nat /\ CIPHERTEXT_MIN_LEN \in Nat /\ \A n \in 1 .. N : f.sizes[n] \in Nat
  BY AssetsConstants
<1>2. next \in Steps(N, Nat)
  BY <1>1 DEF Steps
<1>3. PICK g : Stepwise(g, N, Nat, WORD, next)
  <2> HIDE DEF next, N
  <2>1. N \in Nat /\ WORD \in Nat
    BY <1>1
  <2> QED BY <1>2, <2>1, StepwiseExists
<1>4. EndEquation(f, g)
  <2>1. ASSUME NEW n \in 0 .. N
        PROVE  g[n] = IF n = 0 THEN WORD ELSE g[n - 1] + WORD + f.sizes[n] + CIPHERTEXT_MIN_LEN
    <3>1. CASE n = 0
      BY <1>3, <3>1 DEF Stepwise
    <3>2. CASE n # 0
      <4>1. n \in 1 .. N /\ n - 1 \in 0 .. N
        BY <1>1, <3>2
      <4>2. g[n - 1] \in Nat /\ next[n] = [m \in Nat |-> m + WORD + f.sizes[n] + CIPHERTEXT_MIN_LEN]
        BY <1>3, <4>1 DEF Stepwise
      <4> QED BY <1>3, <3>2, <4>1, <4>2 DEF Stepwise
    <3> QED BY <3>1, <3>2
  <2> QED BY <1>3, <2>1 DEF EndEquation, Stepwise
<1> DEFINE end == CHOOSE h : EndEquation(f, h)
<1>5. EndEquation(f, end)
  BY <1>4, Zenon
<1>6. ASSUME NEW i PROVE EndOf(f, i) = end[i]
  BY Zenon DEF EndOf, EndEquation
<1> HIDE DEF end
<1>7. end[0] = WORD /\ \A i \in 1 .. N : end[i] = end[i - 1] + WORD + f.sizes[i] + CIPHERTEXT_MIN_LEN
  <2>1. end = [n \in 0 .. N |-> IF n = 0 THEN WORD ELSE end[n - 1] + WORD + f.sizes[n] + CIPHERTEXT_MIN_LEN]
    BY <1>5, Zenon DEF EndEquation
  <2>2. ASSUME NEW n \in 0 .. N
        PROVE  end[n] = IF n = 0 THEN WORD ELSE end[n - 1] + WORD + f.sizes[n] + CIPHERTEXT_MIN_LEN
    <3> HIDE DEF N
    <3> QED BY <2>1, Zenon
  <2>3. 0 \in 0 .. N /\ \A i \in 1 .. N : i \in 0 .. N /\ i # 0
    BY <1>1
  <2> QED BY <2>2, <2>3
<1>8. \A i \in 0 .. N : end[i] \in Nat
  <2> DEFINE S == {i \in Nat : i <= N => end[i] \in Nat}
  <2>1. S \in SUBSET Nat /\ 0 \in S
    BY <1>1, <1>7
  <2>2. ASSUME NEW i \in S PROVE i + 1 \in S
    <3> SUFFICES ASSUME i + 1 <= N PROVE end[i + 1] \in Nat
      OBVIOUS
    <3>1. i + 1 \in 1 .. N /\ (i + 1) - 1 = i /\ end[i] \in Nat /\ f.sizes[i + 1] \in Nat
      BY <1>1
    <3>2. end[i + 1] = end[i] + WORD + f.sizes[i + 1] + CIPHERTEXT_MIN_LEN
      BY <1>7, <3>1
    <3>3. \A a, b, c, d \in Nat : a + b + c + d \in Nat
      OBVIOUS
    <3>4. end[i] \in Nat /\ WORD \in Nat /\ f.sizes[i + 1] \in Nat /\ CIPHERTEXT_MIN_LEN \in Nat
      BY <1>1, <3>1
    <3>5. end[i] + WORD + f.sizes[i + 1] + CIPHERTEXT_MIN_LEN \in Nat
      BY <3>3, <3>4
    <3> QED BY <3>2, <3>5
  <2> HIDE DEF S
  <2>3. S = Nat
    BY <2>1, <2>2, InductionOnSet
  <2> QED BY <1>1, <2>3 DEF S
<1> QED BY <1>1, <1>6, <1>7, <1>8

\* No chunk ends after the file.
LEMMA EndsInFile ==
  ASSUME NEW f, f.sizes \in Seq(Nat)
  PROVE  \A i \in 0 .. Len(f.sizes) : EndOf(f, i) <= EndOf(f, Len(f.sizes))
<1> DEFINE N == Len(f.sizes)
           S == {d \in Nat : d <= N => EndOf(f, N - d) <= EndOf(f, N)}
<1>1. N \in Nat /\ WORD \in Nat /\ CIPHERTEXT_MIN_LEN \in Nat /\ \A n \in 1 .. N : f.sizes[n] \in Nat
  BY AssetsConstants
<1>2. /\ \A i \in 1 .. N : EndOf(f, i) = EndOf(f, i - 1) + WORD + f.sizes[i] + CIPHERTEXT_MIN_LEN
      /\ \A i \in 0 .. N : EndOf(f, i) \in Nat
  BY EndIsStepwise
<1> HIDE DEF N
<1>3. S \in SUBSET Nat /\ 0 \in S
  BY <1>1, <1>2
<1>4. ASSUME NEW d \in S PROVE d + 1 \in S
  <2> SUFFICES ASSUME d + 1 <= N PROVE EndOf(f, N - (d + 1)) <= EndOf(f, N)
    OBVIOUS
  <2>1. EndOf(f, N - d) <= EndOf(f, N) /\ N - d \in 1 .. N /\ N - (d + 1) \in 0 .. N /\ N \in 0 .. N /\ (N - d) - 1 = N - (d + 1)
    BY <1>1
  <2>2. EndOf(f, N - d) = EndOf(f, N - (d + 1)) + WORD + f.sizes[N - d] + CIPHERTEXT_MIN_LEN
    BY <1>2, <2>1
  <2>3. EndOf(f, N - (d + 1)) \in Nat /\ EndOf(f, N) \in Nat /\ f.sizes[N - d] \in Nat
    BY <1>1, <1>2, <2>1
  <2> DEFINE a == EndOf(f, N - (d + 1))
             b == EndOf(f, N - d)
             c == EndOf(f, N)
             z == f.sizes[N - d]
  <2>4. a \in Nat /\ c \in Nat /\ z \in Nat /\ b <= c /\ b = a + WORD + z + CIPHERTEXT_MIN_LEN
    BY <2>1, <2>2, <2>3
  <2> HIDE DEF a, b, c, z
  <2>5. a <= c
    BY <1>1, <2>4
  <2> QED BY <2>5 DEF a, c
<1>5. S = Nat
  <2> HIDE DEF S
  <2> QED BY <1>3, <1>4, InductionOnSet
<1>6. ASSUME NEW i \in 0 .. N PROVE EndOf(f, i) <= EndOf(f, N)
  <2>0. N - i \in Nat /\ N - i <= N /\ N - (N - i) = i
    BY <1>1
  <2>1. N - i \in S
    <3> HIDE DEF S
    <3> QED BY <1>5, <2>0
  <2>2. EndOf(f, N - (N - i)) <= EndOf(f, N)
    BY <2>0, <2>1
  <2> QED BY <2>0, <2>2
<1> QED BY <1>6 DEF N

AssetFiles == [key : Keys, format : {"one", "chunks"}, sizes : Seq(Nat) \ {<<>>}, lost : Nat]

\* What an encrypted file is.
LEMMA LengthFacts ==
  ASSUME NEW f \in AssetFiles
  PROVE  /\ Whole(f) \in Nat /\ f.lost \in Nat /\ Length(f) = Whole(f) - f.lost /\ f.sizes[1] \in Nat
         /\ 1 \in DOMAIN f.sizes /\ Len(f.sizes) \in DOMAIN f.sizes
         /\ f.sizes \in Seq(Nat) /\ f.format \in {"one", "chunks"}
<1>1. f.sizes \in Seq(Nat) /\ f.sizes # <<>> /\ f.lost \in Nat /\ f.format \in {"one", "chunks"}
  BY DEF AssetFiles
<1>2. Len(f.sizes) \in Nat \ {0} /\ DOMAIN f.sizes = 1 .. Len(f.sizes)
  BY <1>1
<1>3. f.sizes[1] \in Nat
  BY <1>1, <1>2
<1>4. EndOf(f, Len(f.sizes)) \in Nat
  BY <1>1, <1>2, EndIsStepwise
<1>5. Whole(f) \in Nat
  BY <1>3, <1>4, AssetsConstants DEF Whole
<1>6. 1 \in DOMAIN f.sizes /\ Len(f.sizes) \in DOMAIN f.sizes
  BY <1>2
<1> QED BY <1>1, <1>3, <1>5, <1>6 DEF Length

\* A whole file of the right format is decrypted under its own key.
LEMMA RightKeyDecrypts ==
  ASSUME NEW f \in AssetFiles, f.key # NoKey, WellFormed(f), f.lost = 0, NEW out \in DecryptAll(f.key, f)
  PROVE  out.result = "ok"
<1> USE LengthFacts
<1>0. L1_CACHE_SIZE \in Nat /\ CIPHERTEXT_MIN_LEN \in Nat
  BY AssetsConstants
<1>1. CASE f.format = "one"
  <2>1. Length(f) = f.sizes[1] + CIPHERTEXT_MIN_LEN /\ f.sizes[1] <= L1_CACHE_SIZE
    BY <1>0, <1>1 DEF Whole, WellFormed
  <2>2. SingleChunk(Length(f)) /\ ~ Length(f) < CIPHERTEXT_MIN_LEN
    BY <1>0, <2>1 DEF SingleChunk
  <2>3. out = DecryptWhole(f.key, f)
    BY <2>2 DEF DecryptAll
  <2> QED BY <1>1, <2>2, <2>3 DEF DecryptWhole
<1>2. CASE f.format # "one"
  <2>1. Length(f) = EndOf(f, Len(f.sizes)) /\ Length(f) > L1_CACHE_SIZE + CIPHERTEXT_MIN_LEN
    BY <1>0, <1>2 DEF Whole, WellFormed
  <2>2. ~ SingleChunk(Length(f))
    BY <1>0, <2>1 DEF SingleChunk
  <2>3. out = DecryptChunks(f.key, f)
    BY <1>2, <2>2 DEF DecryptAll
  <2>4. ASSUME NEW i \in DOMAIN f.sizes PROVE ~ Truncated(f, i) /\ ~ Oversized(f, i)
    <3>1. f.sizes[i] \in Nat /\ f.sizes[i] <= L1_CACHE_SIZE
      BY <1>2 DEF WellFormed
    <3>2. i \in 0 .. Len(f.sizes) /\ Len(f.sizes) \in 0 .. Len(f.sizes)
      OBVIOUS
    <3>3. EndOf(f, i) \in Nat /\ EndOf(f, i) <= EndOf(f, Len(f.sizes)) /\ EndOf(f, Len(f.sizes)) \in Nat
      BY <3>2, EndsInFile, EndIsStepwise
    <3> QED BY <1>0, <2>1, <3>1, <3>3 DEF Truncated, Oversized
  <2>5. BadChunks(f.key, f) = {}
    BY <2>4 DEF BadChunks
  <2> QED BY <2>3, <2>5 DEF DecryptChunks
<1> QED BY <1>1, <1>2

\* What decrypts without an error is the whole content of a whole file.
LEMMA OkIsWholeContent ==
  ASSUME NEW f \in AssetFiles, NEW k, WellFormed(f), NEW out \in DecryptAll(k, f), out.result = "ok"
  PROVE  out.text = Content(f) /\ f.lost = 0
<1>0. /\ L1_CACHE_SIZE \in Nat /\ CIPHERTEXT_MIN_LEN \in Nat
      /\ Whole(f) \in Nat /\ f.lost \in Nat /\ Length(f) = Whole(f) - f.lost /\ f.sizes[1] \in Nat
      /\ 1 \in DOMAIN f.sizes /\ Len(f.sizes) \in DOMAIN f.sizes
      /\ f.sizes \in Seq(Nat) /\ f.format \in {"one", "chunks"}
  BY AssetsConstants, LengthFacts
<1>1. k # NoKey
  BY DEF DecryptAll, Failed
<1>2. CASE SingleChunk(Length(f))
  <2>1. out = DecryptWhole(k, f)
    BY <1>1, <1>2 DEF DecryptAll
  <2> QED BY <2>1 DEF DecryptWhole, Failed
<1>3. CASE ~ SingleChunk(Length(f))
  <2>1. f.format # "one"
    <3> SUFFICES ASSUME f.format = "one" PROVE FALSE
      OBVIOUS
    <3>1. Length(f) = f.sizes[1] + CIPHERTEXT_MIN_LEN - f.lost /\ f.sizes[1] <= L1_CACHE_SIZE
      <4>1. Whole(f) = f.sizes[1] + CIPHERTEXT_MIN_LEN /\ f.sizes[1] <= L1_CACHE_SIZE
        BY DEF Whole, WellFormed
      <4> DEFINE w == Whole(f)
                 s == f.sizes[1]
                 l == f.lost
                 n == Length(f)
      <4>2. w = s + CIPHERTEXT_MIN_LEN /\ n = w - l /\ w \in Nat /\ s \in Nat /\ l \in Nat
        BY <1>0, <4>1
      <4> HIDE DEF w, s, l, n
      <4>3. n = s + CIPHERTEXT_MIN_LEN - l
        BY <1>0, <4>2
      <4> QED BY <4>1, <4>3 DEF s, l, n
    <3> QED BY <1>0, <1>3, <3>1 DEF SingleChunk
  <2>2. out = DecryptChunks(k, f)
    BY <1>1, <1>3, <2>1 DEF DecryptAll
  <2>3. BadChunks(k, f) = {} /\ out.text = Content(f)
    <3>1. CASE BadChunks(k, f) = {}
      BY <2>2, <3>1 DEF DecryptChunks
    <3>2. CASE BadChunks(k, f) # {}
      BY <2>2, <3>2 DEF DecryptChunks, Failed
    <3> QED BY <3>1, <3>2
  <2>4. ~ Truncated(f, Len(f.sizes))
    BY <1>0, <2>3 DEF BadChunks
  <2>5. Whole(f) <= Whole(f) - f.lost
    BY <1>0, <2>1, <2>4 DEF Truncated, Whole
  <2> QED BY <1>0, <2>3, <2>5
<1> QED BY <1>2, <1>3

\* What a finished reader has got.
ReaderFacts(r) ==
  LET t == reader[r]
  IN  /\ (t.result = "ok" /\ WellFormed(asset_file)) => (t.text = Content(asset_file) /\ asset_file.lost = 0)
      /\ (t.steady /\ Finished(t) /\ WellFormed(asset_file) /\ asset_file.lost = 0) => t.result = "ok"
      /\ (t.steady /\ t.pc = "reading") => (store = asset_file.key /\ asset_file.key # NoKey)

\* The inductive invariant: a reader whose key was right so far still has it, and
\* one that has finished got what it should.
AssetInv ==
  /\ asset_file \in AssetFiles
  /\ DOMAIN reader = Readers
  /\ \A r \in Readers : DOMAIN reader[r] = {"pc", "steady", "result", "text"}
  /\ \A r \in Readers : ReaderFacts(r)

\* Nobody has read anything at first.
LEMMA AssetInitially == AssetsInit => AssetInv
<1> SUFFICES ASSUME AssetsInit PROVE AssetInv
  OBVIOUS
<1>1. PICK k \in Keys, n \in 1 .. MaxChunks : \E sizes \in [1 .. n -> AssetSizes] :
         asset_file \in {EncryptedFile(k, sizes[1]), ChunkedFile(k, sizes)}
  BY DEF AssetsInit
<1>2. PICK sizes \in [1 .. n -> AssetSizes] : asset_file \in {EncryptedFile(k, sizes[1]), ChunkedFile(k, sizes)}
  BY <1>1
<1>3. n \in Nat \ {0} /\ sizes[1] \in Nat /\ sizes \in [1 .. n -> Nat]
  <2>1. AssetSizes \subseteq Nat /\ MaxChunks \in Nat
    BY AssetsConstants
  <2>2. n \in Nat \ {0} /\ 1 \in 1 .. n
    BY <2>1
  <2> QED BY <2>1, <2>2
<1>4. sizes \in Seq(Nat) /\ sizes # <<>> /\ <<sizes[1]>> \in Seq(Nat) /\ <<sizes[1]>> # <<>>
  BY <1>3
<1>5. asset_file \in AssetFiles
  <2> DEFINE some == Seq(Nat) \ {<<>>}
  <2>1. sizes \in some /\ <<sizes[1]>> \in some
    BY <1>4
  <2>2. AssetFiles = [key : Keys, format : {"one", "chunks"}, sizes : some, lost : Nat]
    BY DEF AssetFiles
  <2> HIDE DEF some
  <2>3. EncryptedFile(k, sizes[1]) \in AssetFiles
    BY <2>1, <2>2 DEF EncryptedFile
  <2>4. ChunkedFile(k, sizes) \in AssetFiles
    BY <2>1, <2>2 DEF ChunkedFile
  <2> QED BY <1>2, <2>3, <2>4
<1>6. \A r \in Readers : ReaderFacts(r)
  BY DEF AssetsInit, ReaderFacts, NotReading
<1> QED BY <1>5, <1>6 DEF AssetInv, AssetsInit, NotReading

\* Every step keeps the invariant of the readers.
LEMMA AssetStep == AssetInv /\ [AssetsNext]_assetFileVars => AssetInv'
<1> SUFFICES ASSUME AssetInv, [AssetsNext]_assetFileVars PROVE AssetInv'
  OBVIOUS
<1> USE DEF AssetInv
<1>1. ASSUME NEW r \in Readers, BeginRead(r) PROVE AssetInv'
  <2>1. \A s \in Readers : s # r => reader'[s] = reader[s]
    BY <1>1 DEF BeginRead
  <2>2. reader'[r] = IF store = NoKey THEN [NotReading EXCEPT !.result = "NoSessionKey"]
                     ELSE [NotReading EXCEPT !.pc = "reading", !.steady = store = asset_file.key]
    BY <1>1 DEF BeginRead
  <2>3. asset_file' = asset_file /\ store' = store /\ DOMAIN reader' = Readers
    BY <1>1 DEF BeginRead
  <2>4. ReaderFacts(r)' /\ DOMAIN reader'[r] = {"pc", "steady", "result", "text"}
    <3>1. CASE store = NoKey
      BY <2>2, <2>3, <3>1 DEF ReaderFacts, NotReading
    <3>2. CASE store # NoKey
      <4>1. /\ reader'[r].pc = "reading" /\ reader'[r].result = "none" /\ reader'[r].steady = (store = asset_file.key)
            /\ DOMAIN reader'[r] = {"pc", "steady", "result", "text"}
        BY <2>2, <3>2 DEF NotReading
      <4> QED BY <2>3, <3>2, <4>1 DEF ReaderFacts, Finished
    <3> QED BY <3>1, <3>2
  <2>5. ASSUME NEW s \in Readers, s # r PROVE ReaderFacts(s)'
    <3>1. ReaderFacts(s)
      OBVIOUS
    <3> QED BY <2>1, <2>3, <2>5, <3>1 DEF ReaderFacts
  <2> QED BY <2>1, <2>3, <2>4, <2>5
<1>2. ASSUME NEW r \in Readers, ReadFails(r) PROVE AssetInv'
  <2>1. \A s \in Readers : s # r => reader'[s] = reader[s]
    BY <1>2 DEF ReadFails
  <2>2. reader'[r] = [NotReading EXCEPT !.result = "IoError"]
    BY <1>2 DEF ReadFails
  <2>3. asset_file' = asset_file /\ store' = store /\ DOMAIN reader' = Readers
    BY <1>2 DEF ReadFails
  <2>4. ReaderFacts(r)' /\ DOMAIN reader'[r] = {"pc", "steady", "result", "text"}
    BY <2>2, <2>3 DEF ReaderFacts, NotReading
  <2>5. ASSUME NEW s \in Readers, s # r PROVE ReaderFacts(s)'
    <3>1. ReaderFacts(s)
      OBVIOUS
    <3> QED BY <2>1, <2>3, <2>5, <3>1 DEF ReaderFacts
  <2> QED BY <2>1, <2>3, <2>4, <2>5
<1>3. ASSUME NEW r \in Readers, FinishRead(r) PROVE AssetInv'
  <2>0. PICK out \in DecryptAll(store, asset_file) :
          reader' = [reader EXCEPT ![r] = [pc |-> IF out.result = "AuthTagMismatch" THEN "panicked" ELSE "idle",
                                        steady |-> reader[r].steady, result |-> out.result, text |-> out.text]]
    BY <1>3 DEF FinishRead
  <2>1. \A s \in Readers : s # r => reader'[s] = reader[s]
    BY <2>0
  <2>2. /\ reader'[r].pc \in {"panicked", "idle"} /\ reader'[r].steady = reader[r].steady
        /\ reader'[r].result = out.result /\ reader'[r].text = out.text
        /\ DOMAIN reader'[r] = {"pc", "steady", "result", "text"}
    BY <2>0
  <2>3. asset_file' = asset_file /\ store' = store /\ DOMAIN reader' = Readers
    BY <1>3, <2>0 DEF FinishRead
  <2>4. ReaderFacts(r)'
    <3>1. reader[r].pc = "reading" /\ ReaderFacts(r)
      BY <1>3 DEF FinishRead
    <3>2. ASSUME out.result = "ok", WellFormed(asset_file) PROVE out.text = Content(asset_file) /\ asset_file.lost = 0
      BY <3>2, OkIsWholeContent
    <3>3. ASSUME reader[r].steady, WellFormed(asset_file), asset_file.lost = 0 PROVE out.result = "ok"
      <4>1. store = asset_file.key /\ asset_file.key # NoKey
        BY <3>1, <3>3 DEF ReaderFacts
      <4> QED BY <3>3, <4>1, RightKeyDecrypts
    <3>4. reader'[r].pc # "reading"
      BY <2>2
    <3> QED BY <2>2, <2>3, <3>2, <3>3, <3>4 DEF ReaderFacts
  <2>5. ASSUME NEW s \in Readers, s # r PROVE ReaderFacts(s)'
    <3>1. ReaderFacts(s)
      OBVIOUS
    <3> QED BY <2>1, <2>3, <2>5, <3>1 DEF ReaderFacts
  <2> QED BY <2>1, <2>2, <2>3, <2>4, <2>5
<1>4. ASSUME NEW k, ChangeKey(k) PROVE AssetInv'
  <2>1. asset_file' = asset_file /\ store' = k /\ DOMAIN reader' = Readers
    BY <1>4 DEF ChangeKey
  <2>2. ASSUME NEW s \in Readers PROVE ReaderFacts(s)' /\ DOMAIN reader'[s] = {"pc", "steady", "result", "text"}
    <3>0. ReaderFacts(s) /\ DOMAIN reader[s] = {"pc", "steady", "result", "text"}
      OBVIOUS
    <3>1. CASE reader[s].pc = "reading" /\ k # asset_file.key
      <4>1. /\ reader'[s].pc = reader[s].pc /\ reader'[s].steady = FALSE /\ reader'[s].result = reader[s].result
            /\ reader'[s].text = reader[s].text /\ DOMAIN reader'[s] = {"pc", "steady", "result", "text"}
        BY <1>4, <3>0, <3>1 DEF ChangeKey
      <4> QED BY <2>1, <3>0, <4>1 DEF ReaderFacts
    <3>2. CASE ~ (reader[s].pc = "reading" /\ k # asset_file.key)
      <4>1. reader'[s] = reader[s]
        BY <1>4, <3>2 DEF ChangeKey
      <4> QED BY <2>1, <3>0, <3>2, <4>1 DEF ReaderFacts
    <3> QED BY <3>1, <3>2
  <2> QED BY <2>1, <2>2
<1>5. ASSUME NEW n \in {1, CIPHERTEXT_MIN_LEN}, LoseEnd(n) PROVE AssetInv'
  <2>1. n \in Nat \ {0}
    BY AssetsConstants
  <2>2. asset_file' \in AssetFiles
    BY <1>5, <2>1 DEF LoseEnd, AssetFiles
  <2>3. ASSUME NEW s \in Readers PROVE ReaderFacts(s)'
    <3>1. reader'[s] = NotReading
      BY <1>5 DEF LoseEnd
    <3> QED BY <3>1 DEF ReaderFacts, NotReading
  <2> QED BY <1>5, <2>2, <2>3 DEF LoseEnd
<1>6. CASE UNCHANGED assetFileVars
  <2>1. asset_file' = asset_file /\ store' = store /\ reader' = reader
    BY <1>6 DEF assetFileVars
  <2>2. ASSUME NEW s \in Readers PROVE ReaderFacts(s)'
    <3>1. ReaderFacts(s)
      OBVIOUS
    <3> QED BY <2>1, <3>1 DEF ReaderFacts
  <2> QED BY <2>1, <2>2
<1> QED BY <1>1, <1>2, <1>3, <1>4, <1>5, <1>6 DEF AssetsNext, StoreKey, ClearKey

\* EncryptedAssetReader and both file formats: for any number of readers, keys and
\* chunks of any size, however the session key changes while a file is awaited and
\* whatever its end has lost, a reader gets the whole content or an error, and the
\* content if its key was right all the time.
THEOREM AssetsDeliveredIntact == AssetsSpec => []DeliveredIntact
<1>1. AssetInv => DeliveredIntact
  BY DEF AssetInv, ReaderFacts, DeliveredIntact
<1> QED BY <1>1, AssetInitially, AssetStep, PTL DEF AssetsSpec

-----------------------------------------------------------------------------
(* Input: the gesture recognizer *)

Presses     == [tick : Nat, pos : Int]
Clicks      == [kind : {"Click", "DoubleClick"}, tick : Nat, pos : Int]
LastClicks  == [tick : Nat, pos : Int, some : BOOLEAN]
Recognizers == [state : {"Idle", "Pressed", "Dragging", "WaitForRelease"}, press_tick : Nat,
                press_pos : Int, last_pos : Int, last_click : LastClicks]

\* The recognizer r has of the hold h what it needs: its first tick, whether it
\* is a gesture already, and where a drag has come to.
Follows(r, h) ==
  IF h = <<>> THEN r.state = "Idle"
  ELSE /\ r.press_tick = h[1].tick /\ r.press_pos = h[1].pos
       /\ IF MadeBefore(h, Len(h)) = {} THEN r.state = "Pressed"
          ELSE IF Drags(h, Len(h)) THEN r.state = "Dragging" /\ r.last_pos = h[Len(h)].pos
          ELSE r.state = "WaitForRelease"

\* c is the last click, unless that was the second of a pair.
Remembers(c, all) ==
  /\ c.some <=> (all # <<>> /\ all[Len(all)].kind = "Click")
  /\ c.some => c.tick = all[Len(all)].tick /\ c.pos = all[Len(all)].pos

\* The inductive invariant: outside the game nothing is pending.
GestureInv ==
  /\ raw_input \in [frame : Nat, down : BOOLEAN, pos : Int] /\ tick_count \in Nat /\ in_game \in BOOLEAN
  /\ recognizer \in Recognizers /\ hold \in Seq(Presses) /\ clicks \in Seq(Clicks)
  /\ ~ in_game => recognizer = Idle /\ hold = <<>> /\ clicks = <<>>
  /\ Follows(recognizer, hold)
  /\ Remembers(recognizer.last_click, clicks)
  /\ RecognizerExact

\* What a tick adds to a hold.
LEMMA HoldGrows ==
  ASSUME NEW h \in Seq(Presses), h # <<>>, NEW x \in Presses
  PROVE  LET g == Append(h, x)
             n == Len(h)
         IN  /\ g \in Seq(Presses) /\ Len(g) = n + 1 /\ g[1] = h[1] /\ g[n] = h[n] /\ g[n + 1] = x
             /\ MadeBefore(g, n) = MadeBefore(h, n)
             /\ Drags(g, n) <=> Drags(h, n)
             /\ MadeBefore(h, n) = {} => /\ MadeBefore(g, n + 1) = {} <=> ~ Made(g, n + 1)
                                         /\ Drags(g, n + 1) <=> (Made(g, n + 1) /\ DragAt(g, n + 1))
             /\ MadeBefore(h, n) # {} => /\ MadeBefore(g, n + 1) # {}
                                         /\ Drags(g, n + 1) <=> Drags(h, n)
<1> DEFINE g == Append(h, x)
           n == Len(h)
<1>1. /\ n \in Nat \ {0} /\ g \in Seq(Presses) /\ Len(g) = n + 1
      /\ \A i \in 1 .. n : g[i] = h[i]
      /\ g[n + 1] = x
  OBVIOUS
<1> HIDE DEF g, n
<1>2. \A i \in 1 .. n : (Made(g, i) <=> Made(h, i)) /\ (DragAt(g, i) <=> DragAt(h, i))
  BY <1>1 DEF Made, LongAt, DragAt
<1>3. MadeBefore(g, n) = MadeBefore(h, n)
  BY <1>2 DEF MadeBefore
<1>4. Drags(g, n) <=> Drags(h, n)
  <2>1. \A i \in MadeBefore(h, n) : i \in 1 .. n
    BY DEF MadeBefore
  <2> QED BY <1>2, <1>3, <2>1 DEF Drags
<1>5. MadeBefore(g, n + 1) = MadeBefore(h, n) \cup {i \in {n + 1} : Made(g, i)}
  <2>1. 1 .. n + 1 = (1 .. n) \cup {n + 1}
    BY <1>1
  <2> QED BY <1>3, <2>1 DEF MadeBefore
<1>6. ASSUME MadeBefore(h, n) = {}
      PROVE  /\ MadeBefore(g, n + 1) = {} <=> ~ Made(g, n + 1)
             /\ Drags(g, n + 1) <=> (Made(g, n + 1) /\ DragAt(g, n + 1))
  <2>1. MadeBefore(g, n + 1) = {i \in {n + 1} : Made(g, i)}
    BY <1>5, <1>6
  <2> QED BY <1>1, <2>1 DEF Drags
<1>7. ASSUME MadeBefore(h, n) # {}
      PROVE  MadeBefore(g, n + 1) # {} /\ (Drags(g, n + 1) <=> Drags(h, n))
  <2>1. \A i \in MadeBefore(h, n) : i \in 1 .. n /\ i < n + 1
    BY <1>1 DEF MadeBefore
  <2>2. ASSUME Drags(h, n) PROVE Drags(g, n + 1)
    <3>1. PICK i \in MadeBefore(h, n) : DragAt(h, i) /\ \A j \in MadeBefore(h, n) : i <= j
      BY <2>2 DEF Drags
    <3>2. i \in MadeBefore(g, n + 1) /\ DragAt(g, i)
      BY <1>2, <1>5, <2>1, <3>1
    <3>3. \A j \in MadeBefore(g, n + 1) : i <= j
      BY <1>1, <1>5, <2>1, <3>1
    <3> QED BY <3>2, <3>3 DEF Drags
  <2>3. ASSUME Drags(g, n + 1) PROVE Drags(h, n)
    <3>1. PICK i \in MadeBefore(g, n + 1) : DragAt(g, i) /\ \A j \in MadeBefore(g, n + 1) : i <= j
      BY <2>3 DEF Drags
    <3>2. i \in MadeBefore(h, n)
      <4>1. PICK j \in MadeBefore(h, n) : TRUE
        BY <1>7
      <4>2. i <= j /\ j < n + 1
        BY <1>5, <2>1, <3>1, <4>1
      <4>3. i # n + 1
        BY <1>1, <2>1, <4>1, <4>2
      <4> QED BY <1>5, <3>1, <4>3
    <3>3. DragAt(h, i) /\ \A j \in MadeBefore(h, n) : i <= j
      BY <1>2, <1>5, <2>1, <3>1, <3>2
    <3> QED BY <3>2, <3>3 DEF Drags
  <2> QED BY <1>5, <1>7, <2>2, <2>3
<1>8. g[1] = h[1] /\ g[n] = h[n]
  BY <1>1
<1> QED BY <1>1, <1>3, <1>4, <1>6, <1>7, <1>8 DEF g, n

\* A tick with the button down.
LEMMA DownOK ==
  ASSUME NEW r \in Recognizers, NEW h \in Seq(Presses), Follows(r, h), NEW t \in Nat, NEW pos \in Int
  PROVE  LET g == Append(h, [tick |-> t, pos |-> pos])
             u == Update(r, t, TRUE, pos)
         IN  /\ g \in Seq(Presses)
             /\ u.next \in Recognizers /\ u.next.last_click = r.last_click
             /\ Follows(u.next, g)
             /\ u.event = WhileDown(g)
             /\ u.event.kind \notin {"Click", "DoubleClick"}
<1> DEFINE x == [tick |-> t, pos |-> pos]
           g == Append(h, x)
           u == Update(r, t, TRUE, pos)
           n == Len(h)
<1>1. x \in Presses
  BY DEF Presses
<1>c. {LONG_PRESS_MIN_TICKS, DRAG_MIN_TICKS, DRAG_MIN_DISTANCE} \subseteq Nat
  BY InputConstants
<1>2. CASE h = <<>>
  <2>1. /\ g \in Seq(Presses) /\ g # <<>> /\ Len(g) = 1 /\ g[1] = x
    BY <1>1, <1>2
  <2>2. u = Stay([r EXCEPT !.state = "Pressed", !.press_tick = t, !.press_pos = pos, !.last_pos = pos])
    BY <1>2 DEF Update, WhenIdle, Follows
  <2> HIDE DEF g, u
  <2>3. MadeBefore(g, 1) = {} /\ MadeBefore(g, 1 - 1) = {}
    BY DEF MadeBefore, Made
  <2>4. WhileDown(g) = NoGesture
    BY <2>1, <2>3 DEF WhileDown
  <2>5. u.event = NoGesture /\ u.next = [r EXCEPT !.state = "Pressed", !.press_tick = t, !.press_pos = pos, !.last_pos = pos]
    BY <2>2 DEF Stay
  <2>6. u.next \in Recognizers /\ u.next.last_click = r.last_click /\ u.next.state = "Pressed"
        /\ u.next.press_tick = t /\ u.next.press_pos = pos
    BY <2>5 DEF Recognizers
  <2>7. Follows(u.next, g)
    BY <2>1, <2>3, <2>6 DEF Follows
  <2>8. u.event = WhileDown(g) /\ u.event.kind \notin {"Click", "DoubleClick"}
    BY <2>4, <2>5 DEF NoGesture
  <2> QED BY <2>1, <2>6, <2>7, <2>8 DEF g, u
<1>3. CASE h # <<>>
  <2>0. /\ g \in Seq(Presses) /\ Len(g) = n + 1 /\ g[1] = h[1] /\ g[n] = h[n] /\ g[n + 1] = x
        /\ MadeBefore(g, n) = MadeBefore(h, n)
        /\ Drags(g, n) <=> Drags(h, n)
    BY <1>1, <1>3, HoldGrows
  <2>00. /\ MadeBefore(h, n) = {} => /\ MadeBefore(g, n + 1) = {} <=> ~ Made(g, n + 1)
                                     /\ Drags(g, n + 1) <=> (Made(g, n + 1) /\ DragAt(g, n + 1))
         /\ MadeBefore(h, n) # {} => /\ MadeBefore(g, n + 1) # {}
                                     /\ Drags(g, n + 1) <=> Drags(h, n)
    BY <1>1, <1>3, HoldGrows
  <2>1. /\ n \in Nat \ {0} /\ n + 1 - 1 = n /\ n + 1 # 1 /\ g # <<>>
        /\ h[1] \in Presses /\ r.press_tick = h[1].tick /\ r.press_pos = h[1].pos
    BY <1>3, <2>0 DEF Follows
  <2>2. h[1].tick \in Nat /\ h[1].pos \in Int
    BY <2>1 DEF Presses
  <2> HIDE DEF g, n
  <2>3. WhileDown(g) = IF MadeBefore(h, n) = {}
                       THEN IF ~ Made(g, n + 1) THEN NoGesture
                            ELSE Event(IF LongAt(g, n + 1) THEN "LongPress" ELSE "DragStart", h[1].pos)
                       ELSE IF Drags(h, n) /\ pos # h[n].pos THEN Event("Dragging", pos)
                       ELSE NoGesture
    <3>1. g[n + 1].pos = pos
      BY <2>0
    <3>2. WhileDown(g) = IF MadeBefore(g, n) = {}
                         THEN IF n + 1 = 1 \/ ~ Made(g, n + 1) THEN NoGesture
                              ELSE Event(IF LongAt(g, n + 1) THEN "LongPress" ELSE "DragStart", g[1].pos)
                         ELSE IF Drags(g, n) /\ g[n + 1].pos # g[n].pos THEN Event("Dragging", g[n + 1].pos)
                         ELSE NoGesture
      <4>1. WhileDown(g) = IF MadeBefore(g, Len(g) - 1) = {}
                           THEN IF Len(g) = 1 \/ ~ Made(g, Len(g)) THEN NoGesture
                                ELSE Event(IF LongAt(g, Len(g)) THEN "LongPress" ELSE "DragStart", g[1].pos)
                           ELSE IF Drags(g, Len(g) - 1) /\ g[Len(g)].pos # g[Len(g) - 1].pos
                                THEN Event("Dragging", g[Len(g)].pos)
                           ELSE NoGesture
        BY Zenon DEF WhileDown
      <4>2. Len(g) = n + 1 /\ Len(g) - 1 = n
        BY <2>0, <2>1
      <4> QED BY <4>1, <4>2, Zenon
    <3> QED BY <2>0, <2>1, <3>1, <3>2, Zenon
  <2>4. /\ LongAt(g, n + 1) <=> (/\ t - h[1].tick >= LONG_PRESS_MIN_TICKS
                                 /\ manhattan_distance(pos, h[1].pos) < DRAG_MIN_DISTANCE)
        /\ DragAt(g, n + 1) <=> (/\ t - h[1].tick >= DRAG_MIN_TICKS
                                 /\ manhattan_distance(pos, h[1].pos) >= DRAG_MIN_DISTANCE)
        /\ Made(g, n + 1) <=> (LongAt(g, n + 1) \/ DragAt(g, n + 1))
        /\ ~ (LongAt(g, n + 1) /\ DragAt(g, n + 1))
    <3>1. g[n + 1].pos = pos /\ g[n + 1].tick = t
      BY <2>0
    <3>2. manhattan_distance(pos, h[1].pos) \in Int
      BY <2>2 DEF manhattan_distance
    <3> QED BY <1>c, <2>0, <2>1, <3>1, <3>2 DEF Made, LongAt, DragAt
  <2>5. CASE MadeBefore(h, n) = {}
    <3>1. r.state = "Pressed"
      BY <1>3, <2>5 DEF Follows, n
    <3>2. u = StillPressed(r, t, pos)
      BY <3>1 DEF Update
    <3> HIDE DEF u
    <3>3. CASE LongAt(g, n + 1)
      <4>1. u = [next |-> [r EXCEPT !.state = "WaitForRelease"], event |-> Event("LongPress", h[1].pos)]
        BY <2>1, <2>4, <3>2, <3>3 DEF StillPressed, AfterLongPress
      <4>2. /\ u.next \in Recognizers /\ u.next.last_click = r.last_click /\ u.next.state = "WaitForRelease"
            /\ u.next.press_tick = r.press_tick /\ u.next.press_pos = r.press_pos
        BY <4>1 DEF Recognizers
      <4>3. Follows(u.next, g)
        BY <2>0, <2>00, <2>1, <2>4, <2>5, <3>3, <4>2 DEF Follows
      <4>4. u.event = WhileDown(g) /\ u.event.kind = "LongPress"
        BY <2>3, <2>4, <2>5, <3>3, <4>1 DEF Event
      <4> QED BY <2>0, <4>2, <4>3, <4>4 DEF g, u
    <3>4. CASE DragAt(g, n + 1)
      <4>0. ~ LongAt(g, n + 1)
        BY <2>4, <3>4
      <4>1. u = [next |-> [r EXCEPT !.state = "Dragging", !.last_pos = pos], event |-> Event("DragStart", h[1].pos)]
        BY <2>1, <2>4, <3>2, <3>4, <4>0 DEF StillPressed
      <4>2. /\ u.next \in Recognizers /\ u.next.last_click = r.last_click /\ u.next.state = "Dragging"
            /\ u.next.press_tick = r.press_tick /\ u.next.press_pos = r.press_pos /\ u.next.last_pos = pos
        BY <4>1 DEF Recognizers
      <4>3. Follows(u.next, g)
        <5>1. MadeBefore(g, Len(g)) # {} /\ Drags(g, Len(g)) /\ g[Len(g)].pos = pos
          BY <2>0, <2>00, <2>4, <2>5, <3>4
        <5> QED BY <2>0, <2>1, <4>2, <5>1 DEF Follows
      <4>4. u.event = WhileDown(g) /\ u.event.kind = "DragStart"
        BY <2>3, <2>4, <2>5, <3>4, <4>0, <4>1 DEF Event
      <4> QED BY <2>0, <4>2, <4>3, <4>4 DEF g, u
    <3>5. CASE ~ LongAt(g, n + 1) /\ ~ DragAt(g, n + 1)
      <4>1. u.next = r /\ u.event = NoGesture
        BY <2>1, <2>4, <3>2, <3>5 DEF StillPressed, Stay
      <4>2. Follows(r, g)
        <5>1. MadeBefore(g, Len(g)) = {}
          BY <2>0, <2>00, <2>4, <2>5, <3>5
        <5> QED BY <2>0, <2>1, <3>1, <5>1 DEF Follows
      <4>3. u.event = WhileDown(g) /\ u.event.kind = "none"
        BY <2>3, <2>4, <2>5, <3>5, <4>1 DEF NoGesture
      <4> QED BY <2>0, <4>1, <4>2, <4>3 DEF g, u
    <3> QED BY <3>3, <3>4, <3>5
  <2>6. CASE MadeBefore(h, n) # {} /\ Drags(h, n)
    <3>1. r.state = "Dragging" /\ r.last_pos = h[n].pos
      BY <1>3, <2>6 DEF Follows, n
    <3>2. u = WhenDragging(r, TRUE, pos)
      BY <3>1 DEF Update
    <3>3. MadeBefore(g, Len(g)) # {} /\ Drags(g, Len(g)) /\ g[Len(g)].pos = pos
      BY <2>0, <2>00, <2>6
    <3> HIDE DEF u
    <3>4. /\ u.next \in Recognizers /\ u.next.last_click = r.last_click /\ u.next.state = "Dragging"
          /\ u.next.press_tick = r.press_tick /\ u.next.press_pos = r.press_pos /\ u.next.last_pos = pos
      BY <3>1, <3>2 DEF WhenDragging, Stay, Recognizers
    <3>5. Follows(u.next, g)
      BY <2>0, <2>1, <3>3, <3>4 DEF Follows
    <3>6. u.event = IF pos # h[n].pos THEN Event("Dragging", pos) ELSE NoGesture
      BY <3>1, <3>2 DEF WhenDragging, Stay
    <3>7. u.event = WhileDown(g) /\ u.event.kind \in {"Dragging", "none"}
      BY <2>3, <2>6, <3>6 DEF Event, NoGesture
    <3> QED BY <2>0, <3>4, <3>5, <3>7 DEF g, u
  <2>7. CASE MadeBefore(h, n) # {} /\ ~ Drags(h, n)
    <3>1. r.state = "WaitForRelease"
      BY <1>3, <2>7 DEF Follows, n
    <3>2. u = Stay(r)
      BY <3>1 DEF Update
    <3> HIDE DEF u
    <3>3. u.next = r /\ u.event = NoGesture
      BY <3>2 DEF Stay
    <3>4. Follows(r, g)
      <4>1. MadeBefore(g, Len(g)) # {} /\ ~ Drags(g, Len(g))
        BY <2>0, <2>00, <2>7
      <4> QED BY <2>0, <2>1, <3>1, <4>1 DEF Follows
    <3>5. u.event = WhileDown(g) /\ u.event.kind = "none"
      BY <2>3, <2>7, <3>3 DEF NoGesture
    <3> QED BY <2>0, <3>3, <3>4, <3>5 DEF g, u
  <2> QED BY <2>5, <2>6, <2>7
<1> QED BY <1>2, <1>3

\* The clicks that matter after the event e at tick t.
ClicksAfter(e, t) ==
  IF e.kind \in {"Click", "DoubleClick"} THEN <<[kind |-> e.kind, tick |-> t, pos |-> e.pos]>> ELSE clicks

\* A tick with the button up.
LEMMA UpOK ==
  ASSUME NEW r \in Recognizers, NEW h \in Seq(Presses), Follows(r, h), clicks \in Seq(Clicks),
         Remembers(r.last_click, clicks), NEW t \in Nat, NEW pos \in Int
  PROVE  LET u == Update(r, t, FALSE, pos)
         IN  /\ u.next \in Recognizers /\ u.next.state = "Idle"
             /\ u.event = OnRelease(h, t, pos)
             /\ ClicksAfter(u.event, t) \in Seq(Clicks)
             /\ Remembers(u.next.last_click, ClicksAfter(u.event, t))
<1> DEFINE u == Update(r, t, FALSE, pos)
           n == Len(h)
           idle == [r EXCEPT !.state = "Idle"]
           made == MadeBefore(h, n)
<1>1. idle \in Recognizers /\ idle.state = "Idle" /\ idle.last_click = r.last_click
  BY DEF Recognizers
<1>c. {CLICK_MAX_TICKS, CLICK_MAX_DISTANCE} \subseteq Nat
  BY InputConstants
<1>k. /\ NoGesture.kind = "none" /\ \A k, p : Event(k, p).kind = k
      /\ \A e : e.kind \notin {"Click", "DoubleClick"} => ClicksAfter(e, t) = clicks
  BY DEF NoGesture, Event, ClicksAfter
<1>2. CASE h = <<>>
  <2>1. r.state = "Idle"
    BY <1>2 DEF Follows
  <2>2. u.next = r /\ u.event = NoGesture
    BY <2>1 DEF Update, WhenIdle, Stay
  <2>3. OnRelease(h, t, pos) = NoGesture
    BY <1>2 DEF OnRelease
  <2>4. ClicksAfter(u.event, t) = clicks
    BY <1>k, <2>2
  <2> QED BY <2>1, <2>2, <2>3, <2>4
<1>3. CASE h # <<>> /\ made # {} /\ Drags(h, n)
  <2>1. r.state = "Dragging"
    BY <1>3 DEF Follows
  <2>2. u.next = idle /\ u.event = Event("DragEnd", pos)
    BY <2>1 DEF Update, WhenDragging
  <2>3. OnRelease(h, t, pos) = Event("DragEnd", pos)
    BY <1>3 DEF OnRelease
  <2> HIDE DEF u
  <2>4. ClicksAfter(u.event, t) = clicks
    <3>1. u.event.kind = "DragEnd"
      BY <1>k, <2>2
    <3> QED BY <1>k, <3>1
  <2> QED BY <1>1, <2>2, <2>3, <2>4 DEF u
<1>4. CASE h # <<>> /\ made # {} /\ ~ Drags(h, n)
  <2>1. r.state = "WaitForRelease"
    BY <1>4 DEF Follows
  <2>2. u.next = idle /\ u.event = NoGesture
    BY <2>1 DEF Update, Stay
  <2>3. OnRelease(h, t, pos) = NoGesture
    BY <1>4 DEF OnRelease
  <2>4. ClicksAfter(u.event, t) = clicks
    BY <1>k, <2>2
  <2> QED BY <1>1, <2>2, <2>3, <2>4
<1>5. CASE h # <<>> /\ made = {}
  <2> DEFINE short == t - h[1].tick < CLICK_MAX_TICKS
             near  == manhattan_distance(pos, h[1].pos) < CLICK_MAX_DISTANCE
             before == clicks[Len(clicks)]
             pair  == /\ clicks # <<>> /\ before.kind = "Click"
                      /\ t - before.tick < DOUBLE_CLICK_MAX_TICKS
                      /\ manhattan_distance(pos, before.pos) < DOUBLE_CLICK_MAX_DISTANCE
  <2>1. r.state = "Pressed" /\ r.press_tick = h[1].tick /\ r.press_pos = h[1].pos
    BY <1>5 DEF Follows
  <2>2. u = Released(r, t, pos)
    BY <2>1 DEF Update
  <2>3. h[1].tick \in Nat /\ h[1].pos \in Int
    <3>1. h[1] \in Presses
      BY <1>5
    <3> QED BY <3>1 DEF Presses
  <2>4. ~ short <=> t - h[1].tick >= CLICK_MAX_TICKS
    BY <1>c, <2>3
  <2>5. ~ near <=> manhattan_distance(pos, h[1].pos) >= CLICK_MAX_DISTANCE
    <3>1. manhattan_distance(pos, h[1].pos) \in Int /\ CLICK_MAX_DISTANCE \in Int
      BY <1>c, <2>3 DEF manhattan_distance
    <3> QED BY <3>1
  <2>6. OnRelease(h, t, pos) = IF short /\ near THEN Event(IF pair THEN "DoubleClick" ELSE "Click", pos) ELSE NoGesture
    <3> HIDE DEF short, near
    <3> QED BY <1>5, <2>4, <2>5 DEF OnRelease
  <2>7. IsDouble(r, t, pos) <=> pair
    BY DEF IsDouble, Remembers
  <2>8. u = IF ~ (short /\ near) THEN Stay(idle)
            ELSE IF pair
            THEN [next |-> [idle EXCEPT !.last_click = NoClick], event |-> Event("DoubleClick", pos)]
            ELSE [next |-> [idle EXCEPT !.last_click = [tick |-> t, pos |-> pos, some |-> TRUE]],
                  event |-> Event("Click", pos)]
    <3> HIDE DEF pair
    <3> QED BY <2>1, <2>2, <2>7 DEF Released
  <2> HIDE DEF short, near, pair, u, idle
  <2>9. CASE ~ (short /\ near)
    <3>1. u.next = idle /\ u.event = NoGesture
      BY <2>8, <2>9 DEF Stay
    <3>2. ClicksAfter(u.event, t) = clicks
      BY <3>1 DEF ClicksAfter, NoGesture
    <3>3. OnRelease(h, t, pos) = NoGesture
      BY <2>6, <2>9
    <3> QED BY <1>1, <3>1, <3>2, <3>3 DEF u
  <2>10. CASE short /\ near /\ pair
    <3>1. u.next = [idle EXCEPT !.last_click = NoClick] /\ u.event = Event("DoubleClick", pos)
      BY <2>8, <2>10
    <3>2. ClicksAfter(u.event, t) = <<[kind |-> "DoubleClick", tick |-> t, pos |-> pos]>>
      BY <3>1 DEF ClicksAfter, Event
    <3>3. OnRelease(h, t, pos) = u.event
      BY <2>6, <2>10, <3>1
    <3>4. [kind |-> "DoubleClick", tick |-> t, pos |-> pos] \in Clicks /\ NoClick \in LastClicks /\ NoClick.some = FALSE
      BY DEF Clicks, NoClick, LastClicks
    <3>5. u.next \in Recognizers /\ u.next.state = "Idle" /\ u.next.last_click = NoClick
      BY <1>1, <3>1, <3>4 DEF Recognizers
    <3>6. ClicksAfter(u.event, t) \in Seq(Clicks) /\ Remembers(u.next.last_click, ClicksAfter(u.event, t))
      BY <3>2, <3>4, <3>5 DEF Remembers
    <3> QED BY <3>3, <3>5, <3>6 DEF u
  <2>11. CASE short /\ near /\ ~ pair
    <3> DEFINE c == [tick |-> t, pos |-> pos, some |-> TRUE]
               k == [kind |-> "Click", tick |-> t, pos |-> pos]
    <3>1. u.next = [idle EXCEPT !.last_click = c] /\ u.event = Event("Click", pos)
      BY <2>8, <2>11
    <3>2. ClicksAfter(u.event, t) = <<k>>
      BY <3>1 DEF ClicksAfter, Event
    <3>3. OnRelease(h, t, pos) = u.event
      BY <2>6, <2>11, <3>1
    <3>4. k \in Clicks /\ c \in LastClicks
      BY DEF Clicks, LastClicks
    <3>5. u.next \in Recognizers /\ u.next.state = "Idle" /\ u.next.last_click = c
      BY <1>1, <3>1, <3>4 DEF Recognizers
    <3>6. <<k>> \in Seq(Clicks) /\ <<k>> # <<>> /\ Len(<<k>>) = 1 /\ <<k>>[1] = k
      BY <3>4
    <3>7. ClicksAfter(u.event, t) \in Seq(Clicks) /\ Remembers(u.next.last_click, ClicksAfter(u.event, t))
      BY <3>2, <3>5, <3>6 DEF Remembers
    <3> QED BY <3>3, <3>5, <3>7 DEF u
  <2> QED BY <2>9, <2>10, <2>11
<1> QED BY <1>2, <1>3, <1>4, <1>5

\* The recognizer starts idle, with no hold behind it.
LEMMA GestureInit == InputInit => GestureInv
<1> SUFFICES ASSUME InputInit PROVE GestureInv
  OBVIOUS
<1>1. Idle \in Recognizers /\ Idle.state = "Idle" /\ Idle.last_click = NoClick /\ NoClick.some = FALSE
  BY DEF Idle, NoClick, Recognizers, LastClicks
<1>2. <<>> \in Seq(Presses) /\ <<>> \in Seq(Clicks)
  OBVIOUS
<1>3. Follows(Idle, <<>>) /\ Remembers(NoClick, <<>>)
  BY <1>1 DEF Follows, Remembers
<1>4. POSITIONS \subseteq Int /\ 0 \in Int
  BY InputConstants
<1>5. /\ raw_input \in [frame : Nat, down : BOOLEAN, pos : Int] /\ tick_count \in Nat /\ in_game \in BOOLEAN
      /\ recognizer = Idle /\ hold = <<>> /\ clicks = <<>> /\ gesture = wanted
  BY <1>4 DEF InputInit
<1> QED BY <1>1, <1>2, <1>3, <1>5 DEF GestureInv, RecognizerExact

\* Every step keeps the recognizer in line with the hold.
LEMMA GestureStep == GestureInv /\ [InputNext]_inputVars => GestureInv'
<1> SUFFICES ASSUME GestureInv, [InputNext]_inputVars PROVE GestureInv'
  OBVIOUS
<1>0. POSITIONS \subseteq Int
  BY InputConstants
<1>1. ASSUME NEW down \in BOOLEAN, NEW pos \in POSITIONS, Capture(down, pos) PROVE GestureInv'
  <2>1. raw_input' \in [frame : Nat, down : BOOLEAN, pos : Int]
    BY <1>0, <1>1 DEF Capture, Captured, GestureInv
  <2>2. UNCHANGED <<tick_count, in_game, recognizer, hold, clicks, gesture, wanted>>
    BY <1>1 DEF Capture, CaptureRest, gestureAux
  <2> QED BY <2>1, <2>2 DEF GestureInv, RecognizerExact
<1>2. ASSUME NEW down \in BOOLEAN, NEW pos \in POSITIONS, CaptureAndChangeState(down, pos) PROVE GestureInv'
  <2>1. raw_input' \in [frame : Nat, down : BOOLEAN, pos : Int]
    BY <1>0, <1>2 DEF CaptureAndChangeState, Captured, GestureInv
  <2>2. /\ tick_count' = tick_count /\ in_game' = ~ in_game /\ hold' = <<>> /\ clicks' = <<>>
        /\ gesture' = NoGesture /\ wanted' = NoGesture
    BY <1>2 DEF CaptureAndChangeState, CaptureRest
  <2>3. recognizer' = Idle
    BY <1>2 DEF CaptureAndChangeState, GestureInv
  <2>4. Idle \in Recognizers /\ Idle.state = "Idle" /\ Idle.last_click = NoClick /\ NoClick.some = FALSE
    BY DEF Idle, NoClick, Recognizers, LastClicks
  <2>5. Follows(Idle, <<>>) /\ Remembers(NoClick, <<>>) /\ <<>> \in Seq(Presses) /\ <<>> \in Seq(Clicks)
    BY <2>4 DEF Follows, Remembers
  <2>6. in_game' \in BOOLEAN
    BY <2>2 DEF GestureInv
  <2>7. GestureInv!1' /\ RecognizerExact' /\ recognizer' \in Recognizers /\ hold' \in Seq(Presses) /\ clicks' \in Seq(Clicks)
    BY <2>1, <2>2, <2>3, <2>4, <2>5, <2>6 DEF GestureInv, RecognizerExact
  <2>8. Follows(recognizer, hold)' /\ Remembers(recognizer.last_click, clicks)'
    BY <2>2, <2>3, <2>4, <2>5
  <2> QED BY <2>2, <2>3, <2>7, <2>8 DEF GestureInv
<1>3. CASE FixedTick
  <2> DEFINE t == tick_count + 1
             down == raw_input.down
             pos == raw_input.pos
             u == Update(recognizer, t, down, pos)
             g == Append(hold, [tick |-> t, pos |-> pos])
  <2>1. /\ tick_count' = t /\ raw_input' = raw_input /\ in_game' = in_game /\ Recognize(t)
        /\ t \in Nat /\ down \in BOOLEAN /\ pos \in Int
    BY <1>3 DEF FixedTick, GestureInv
  <2>2. CASE ~ in_game
    <3>1. UNCHANGED <<recognizer, gesture, wanted, hold, clicks>>
      BY <2>1, <2>2 DEF Recognize, gestureAux
    <3> QED BY <2>1, <3>1 DEF GestureInv, RecognizerExact
  <2>3. CASE in_game
    <3>1. /\ recognizer' = u.next /\ gesture' = u.event
          /\ wanted' = IF down THEN WhileDown(g) ELSE OnRelease(hold, t, pos)
          /\ hold' = IF down THEN g ELSE <<>>
          /\ clicks' = ClicksAfter(wanted', t)
      BY <2>1, <2>3 DEF Recognize, ClicksAfter
    <3>2. /\ recognizer \in Recognizers /\ hold \in Seq(Presses) /\ clicks \in Seq(Clicks)
          /\ Follows(recognizer, hold) /\ Remembers(recognizer.last_click, clicks)
      BY DEF GestureInv
    <3>3. CASE down
      <4>0. down = TRUE
        BY <2>1, <3>3
      <4>1. /\ g \in Seq(Presses)
            /\ u.next \in Recognizers /\ u.next.last_click = recognizer.last_click
            /\ Follows(u.next, g)
            /\ u.event = WhileDown(g)
            /\ u.event.kind \notin {"Click", "DoubleClick"}
        BY <2>1, <3>2, <4>0, DownOK
      <4>2. wanted' = u.event /\ clicks' = clicks /\ hold' = g
        BY <3>1, <3>3, <4>1 DEF ClicksAfter
      <4> HIDE DEF u, g
      <4>3. recognizer' \in Recognizers /\ hold' \in Seq(Presses) /\ clicks' \in Seq(Clicks)
            /\ Follows(recognizer, hold)' /\ Remembers(recognizer.last_click, clicks)' /\ RecognizerExact'
        BY <3>1, <3>2, <4>1, <4>2 DEF RecognizerExact
      <4> QED BY <2>1, <2>3, <4>3 DEF GestureInv
    <3>4. CASE ~ down
      <4>0. down = FALSE
        BY <2>1, <3>4
      <4>1. /\ u.next \in Recognizers /\ u.next.state = "Idle"
            /\ u.event = OnRelease(hold, t, pos)
            /\ ClicksAfter(u.event, t) \in Seq(Clicks)
            /\ Remembers(u.next.last_click, ClicksAfter(u.event, t))
        <5> DEFINE v == Update(recognizer, t, FALSE, pos)
        <5>1. /\ v.next \in Recognizers /\ v.next.state = "Idle"
              /\ v.event = OnRelease(hold, t, pos)
              /\ ClicksAfter(v.event, t) \in Seq(Clicks)
              /\ Remembers(v.next.last_click, ClicksAfter(v.event, t))
          <6> HIDE DEF t, pos
          <6> QED BY <2>1, <3>2, UpOK
        <5>2. u = v
          BY <4>0
        <5> HIDE DEF u, v
        <5> QED BY <5>1, <5>2
      <4>2. wanted' = u.event /\ clicks' = ClicksAfter(u.event, t) /\ hold' = <<>>
        BY <3>1, <3>4, <4>1
      <4> HIDE DEF u, g
      <4>3. Follows(u.next, <<>>) /\ <<>> \in Seq(Presses)
        BY <4>1 DEF Follows
      <4>4. recognizer' \in Recognizers /\ hold' \in Seq(Presses) /\ clicks' \in Seq(Clicks)
            /\ Follows(recognizer, hold)' /\ Remembers(recognizer.last_click, clicks)' /\ RecognizerExact'
        BY <3>1, <3>2, <4>1, <4>2, <4>3 DEF RecognizerExact
      <4> QED BY <2>1, <2>3, <4>4 DEF GestureInv
    <3> QED BY <3>3, <3>4
  <2> QED BY <2>2, <2>3
<1>4. CASE UNCHANGED inputVars
  BY <1>4 DEF inputVars, gestureAux, GestureInv, RecognizerExact, Follows, Remembers
<1> QED BY <1>1, <1>2, <1>3, <1>4 DEF InputNext

\* GestureRecognizer: for all thresholds and positions, and for holds of any
\* length, the four fields it keeps make it report at every tick exactly the
\* gesture that the whole hold and the clicks before it amount to.
THEOREM RecognizerFollowsHistory == InputSpec => []RecognizerExact
<1>1. GestureInv => RecognizerExact
  BY DEF GestureInv
<1> QED BY GestureInit, GestureStep, <1>1, PTL DEF InputSpec

-----------------------------------------------------------------------------
(* Bridge: the entity map and the event queues *)

\* Functions from some of S to T.
Partial(S, T) == UNION {[R -> T] : R \in SUBSET S}

EventOps == {"spawn", "vfx", "log"} \cup EntityOps
Events   == [op : EventOps, eid : Nat]
Queued   == [events : Seq(Events), dropped : Nat]
Entities == [kind : {"game", "vfx", "gone"}, transform : {"default", "position", "rotation", "scale", "server"},
             visibility : {"inherited", "visible", "hidden"}, anim : BOOLEAN, blended : BOOLEAN,
             anim_default : {Unset, "none", "some"}, server_position : BOOLEAN]
Flushes  == [counter : Nat, to_bevy : Partial(Nat, Nat), to_vm : Partial(Nat, Nat),
             world : Seq(Entities), born : SUBSET Nat]

\* The ids of a map lie below the allocator's counter, its two directions are
\* inverse, and the entities with an id are the living game entities.
MapOK(f) ==
  /\ f \in Flushes
  /\ \A id \in DOMAIN f.to_bevy :
       id < f.counter /\ f.to_bevy[id] \in DOMAIN f.to_vm /\ f.to_vm[f.to_bevy[id]] = id
  /\ \A e \in DOMAIN f.to_vm : f.to_vm[e] \in DOMAIN f.to_bevy /\ f.to_bevy[f.to_vm[e]] = e
  /\ DOMAIN f.to_vm = {e \in DOMAIN f.world : f.world[e].kind = "game"}

\* What a partial function is.
LEMMA PartialFacts ==
  ASSUME NEW S, NEW T, NEW f \in Partial(S, T)
  PROVE  /\ DOMAIN f \subseteq S
         /\ \A x \in DOMAIN f : f[x] \in T
  BY DEF Partial

\* h is f with x mapped to v.
MapsAlso(h, f, x, v) ==
  /\ h \in Partial(Nat, Nat) /\ DOMAIN h = DOMAIN f \cup {x} /\ h[x] = v
  /\ \A y \in DOMAIN f \ {x} : h[y] = f[y]

\* HashMap::insert
LEMMA WithFacts ==
  ASSUME NEW f \in Partial(Nat, Nat), NEW x \in Nat, NEW v \in Nat
  PROVE  MapsAlso(With(f, x, v), f, x, v)
<1>1. PICK R \in SUBSET Nat : f \in [R -> Nat]
  BY DEF Partial
<1>2. With(f, x, v) \in [R \cup {x} -> Nat]
  BY <1>1 DEF With
<1>3. With(f, x, v) \in Partial(Nat, Nat)
  BY <1>2 DEF Partial
<1> QED BY <1>3 DEF With, MapsAlso

\* HashMap::remove
LEMMA WithoutFacts ==
  ASSUME NEW f \in Partial(Nat, Nat), NEW x
  PROVE  /\ Without(f, x) \in Partial(Nat, Nat)
         /\ DOMAIN Without(f, x) = DOMAIN f \ {x}
         /\ \A y \in DOMAIN f \ {x} : Without(f, x)[y] = f[y]
<1>1. PICK R \in SUBSET Nat : f \in [R -> Nat]
  BY DEF Partial
<1>2. Without(f, x) \in [R \ {x} -> Nat]
  BY <1>1 DEF Without
<1>3. Without(f, x) \in Partial(Nat, Nat)
  BY <1>2 DEF Partial
<1> QED BY <1>3 DEF Without

\* The entities that the bridge makes.
LEMMA EntityFacts ==
  /\ GameEntity \in Entities /\ GameEntity.kind = "game"
  /\ VfxPlaceholder \in Entities /\ VfxPlaceholder.kind = "vfx"
  /\ Gone \in Entities /\ Gone.kind = "gone"
BY DEF GameEntity, VfxPlaceholder, Gone, Entities

\* No command but despawn changes what an entity is.
LEMMA ChangedKeepsKind ==
  ASSUME NEW c \in Entities, NEW op \in EntityOps \ {"despawn"}
  PROVE  Changed(c, op) \in Entities /\ Changed(c, op).kind = c.kind
<1>1. ASSUME NEW tr \in {"position", "rotation", "scale"}
      PROVE  [c EXCEPT !.transform = tr] \in Entities /\ [c EXCEPT !.transform = tr].kind = c.kind
  BY DEF Entities
<1>2. CASE op \in {"position", "rotation", "scale"}
  <2>1. Changed(c, op) = [c EXCEPT !.transform = op]
    BY <1>2 DEF Changed, AnimationOps
  <2> QED BY <1>1, <1>2, <2>1
<1>3. CASE op \in {"show", "hide"}
  <2>1. Changed(c, op) = [c EXCEPT !.visibility = "visible"] \/ Changed(c, op) = [c EXCEPT !.visibility = "hidden"]
    BY <1>3 DEF Changed, AnimationOps
  <2>2. ASSUME NEW v \in {"visible", "hidden"}
        PROVE  [c EXCEPT !.visibility = v] \in Entities /\ [c EXCEPT !.visibility = v].kind = c.kind
    BY DEF Entities
  <2> QED BY <2>1, <2>2
<1>4. CASE op = "bar"
  BY <1>4 DEF Changed, AnimationOps
<1>5. CASE op \in AnimationOps
  <2>1. Changed(c, op) = Animated(c, op)
    BY <1>5 DEF Changed, AnimationOps
  <2>2. Animated(c, op) \in Entities /\ Animated(c, op).kind = c.kind
    BY <1>5 DEF Animated, AnimationOps, Entities
  <2> QED BY <2>1, <2>2
<1> QED BY <1>2, <1>3, <1>4, <1>5 DEF EntityOps

\* process_bridge_event keeps the map exact.
LEMMA ProcessOK ==
  ASSUME NEW f, MapOK(f), NEW event \in Events
  PROVE  /\ MapOK(Process(f, event))
         /\ Len(Process(f, event).world) >= Len(f.world)
<1> DEFINE id  == event.eid
           new == Len(f.world) + 1
           w   == f.world
<1>1. /\ f.counter \in Nat /\ f.to_bevy \in Partial(Nat, Nat) /\ f.to_vm \in Partial(Nat, Nat)
      /\ f.world \in Seq(Entities) /\ f.born \in SUBSET Nat
  BY DEF MapOK, Flushes
<1>r. f = [counter |-> f.counter, to_bevy |-> f.to_bevy, to_vm |-> f.to_vm, world |-> f.world, born |-> f.born]
  BY DEF MapOK, Flushes
<1>2. Len(w) \in Nat /\ DOMAIN w = 1 .. Len(w) /\ \A e \in DOMAIN w : w[e] \in Entities
  BY <1>1
<1>3. event.op \in EventOps /\ id \in Nat
  BY DEF Events
<1>4. CASE event.op = "spawn"
  <2> DEFINE g == Process(f, event)
  <2>1. g = [counter |-> f.counter + 1, to_bevy |-> With(f.to_bevy, f.counter, new), to_vm |-> With(f.to_vm, new, f.counter),
             world |-> Append(w, GameEntity), born |-> f.born \cup {f.counter}]
    BY <1>r, <1>4 DEF Process, Insert, EntityOps, AnimationOps
  <2>2. /\ Append(w, GameEntity) \in Seq(Entities) /\ Len(Append(w, GameEntity)) = Len(w) + 1
        /\ DOMAIN Append(w, GameEntity) = DOMAIN w \cup {new} /\ Append(w, GameEntity)[new] = GameEntity
        /\ \A e \in DOMAIN w : Append(w, GameEntity)[e] = w[e]
    <3>1. /\ Append(w, GameEntity) \in Seq(Entities) /\ Len(Append(w, GameEntity)) = Len(w) + 1
          /\ DOMAIN Append(w, GameEntity) = 1 .. Len(w) + 1 /\ Append(w, GameEntity)[Len(w) + 1] = GameEntity
          /\ \A e \in 1 .. Len(w) : Append(w, GameEntity)[e] = w[e]
      BY <1>1, EntityFacts
    <3> QED BY <1>2, <3>1
  <2> HIDE DEF g
  <2>3. /\ new \in Nat /\ f.counter \notin DOMAIN f.to_bevy /\ new \notin DOMAIN f.to_vm /\ new \notin DOMAIN w
    BY <1>1, <1>2 DEF MapOK
  <2>4. /\ g.counter = f.counter + 1 /\ g.to_bevy = With(f.to_bevy, f.counter, new) /\ g.to_vm = With(f.to_vm, new, f.counter)
        /\ g.world = Append(w, GameEntity) /\ g.born = f.born \cup {f.counter}
    BY <2>1
  <2>5. /\ g.to_bevy \in Partial(Nat, Nat) /\ DOMAIN g.to_bevy = DOMAIN f.to_bevy \cup {f.counter}
        /\ g.to_bevy[f.counter] = new /\ \A y \in DOMAIN f.to_bevy : g.to_bevy[y] = f.to_bevy[y]
    <3>1. MapsAlso(With(f.to_bevy, f.counter, new), f.to_bevy, f.counter, new)
      <4> HIDE DEF new
      <4>1. f.to_bevy \in Partial(Nat, Nat) /\ f.to_vm \in Partial(Nat, Nat) /\ f.counter \in Nat /\ new \in Nat
        BY <1>1, <2>3
      <4> QED BY <4>1, WithFacts
    <3>2. DOMAIN f.to_bevy \ {f.counter} = DOMAIN f.to_bevy
      BY <2>3
    <3> HIDE DEF new
    <3> QED BY <2>4, <3>1, <3>2 DEF MapsAlso
  <2>6. /\ g.to_vm \in Partial(Nat, Nat) /\ DOMAIN g.to_vm = DOMAIN f.to_vm \cup {new}
        /\ g.to_vm[new] = f.counter /\ \A y \in DOMAIN f.to_vm : g.to_vm[y] = f.to_vm[y]
    <3>1. MapsAlso(With(f.to_vm, new, f.counter), f.to_vm, new, f.counter)
      <4> HIDE DEF new
      <4>1. f.to_bevy \in Partial(Nat, Nat) /\ f.to_vm \in Partial(Nat, Nat) /\ f.counter \in Nat /\ new \in Nat
        BY <1>1, <2>3
      <4> QED BY <4>1, WithFacts
    <3>2. DOMAIN f.to_vm \ {new} = DOMAIN f.to_vm
      BY <2>3
    <3> HIDE DEF new
    <3> QED BY <2>4, <3>1, <3>2 DEF MapsAlso
  <2>7. g \in Flushes
    BY <1>1, <2>1, <2>2, <2>4, <2>5, <2>6 DEF Flushes
  <2>8. ASSUME NEW k \in DOMAIN g.to_bevy
        PROVE  k < g.counter /\ g.to_bevy[k] \in DOMAIN g.to_vm /\ g.to_vm[g.to_bevy[k]] = k
    <3>1. CASE k = f.counter
      BY <1>1, <2>4, <2>5, <2>6, <3>1
    <3>2. CASE k \in DOMAIN f.to_bevy
      <4>1. k < f.counter /\ f.to_bevy[k] \in DOMAIN f.to_vm /\ f.to_vm[f.to_bevy[k]] = k /\ k \in Nat
        BY <1>1, <3>2, PartialFacts DEF MapOK
      <4> QED BY <1>1, <2>4, <2>5, <2>6, <3>2, <4>1
    <3> QED BY <2>5, <3>1, <3>2
  <2>9. ASSUME NEW e \in DOMAIN g.to_vm
        PROVE  g.to_vm[e] \in DOMAIN g.to_bevy /\ g.to_bevy[g.to_vm[e]] = e
    <3>1. CASE e = new
      BY <2>5, <2>6, <3>1
    <3>2. CASE e \in DOMAIN f.to_vm
      BY <2>5, <2>6, <3>2 DEF MapOK
    <3> QED BY <2>6, <3>1, <3>2
  <2>10. DOMAIN g.to_vm = {e \in DOMAIN g.world : g.world[e].kind = "game"}
    <3>1. DOMAIN f.to_vm = {e \in DOMAIN w : w[e].kind = "game"}
      BY DEF MapOK
    <3> QED BY <2>2, <2>3, <2>4, <2>6, <3>1, EntityFacts
  <2>11. Len(g.world) >= Len(w)
    BY <1>2, <2>2, <2>4
  <2> QED BY <2>7, <2>8, <2>9, <2>10, <2>11 DEF MapOK, g
<1>5. CASE event.op = "vfx"
  <2> DEFINE g == Process(f, event)
  <2>1. g = [f EXCEPT !.world = Append(w, VfxPlaceholder)]
    BY <1>5 DEF Process, EntityOps, AnimationOps
  <2>2. /\ Append(w, VfxPlaceholder) \in Seq(Entities) /\ Len(Append(w, VfxPlaceholder)) = Len(w) + 1
        /\ DOMAIN Append(w, VfxPlaceholder) = DOMAIN w \cup {new} /\ Append(w, VfxPlaceholder)[new] = VfxPlaceholder
        /\ \A e \in DOMAIN w : Append(w, VfxPlaceholder)[e] = w[e]
    <3>1. /\ Append(w, VfxPlaceholder) \in Seq(Entities) /\ Len(Append(w, VfxPlaceholder)) = Len(w) + 1
          /\ DOMAIN Append(w, VfxPlaceholder) = 1 .. Len(w) + 1 /\ Append(w, VfxPlaceholder)[Len(w) + 1] = VfxPlaceholder
          /\ \A e \in 1 .. Len(w) : Append(w, VfxPlaceholder)[e] = w[e]
      BY <1>1, EntityFacts
    <3> QED BY <1>2, <3>1
  <2> HIDE DEF g
  <2>3. /\ g.counter = f.counter /\ g.to_bevy = f.to_bevy /\ g.to_vm = f.to_vm
        /\ g.world = Append(w, VfxPlaceholder) /\ g.born = f.born /\ g \in Flushes
    BY <1>1, <1>r, <2>1, <2>2 DEF Flushes
  <2>4. DOMAIN g.to_vm = {e \in DOMAIN g.world : g.world[e].kind = "game"}
    <3>1. DOMAIN f.to_vm = {e \in DOMAIN w : w[e].kind = "game"}
      BY DEF MapOK
    <3> QED BY <2>2, <2>3, <3>1, EntityFacts
  <2>5. Len(g.world) >= Len(w)
    BY <1>2, <2>2, <2>3
  <2> QED BY <2>3, <2>4, <2>5 DEF MapOK, g
<1>6. CASE event.op \in EntityOps /\ id \in DOMAIN f.to_bevy /\ event.op = "despawn"
  <2> DEFINE g == Process(f, event)
             x == f.to_bevy[id]
             v == [w EXCEPT ![x] = Gone]
  <2>1. g = [counter |-> f.counter, to_bevy |-> Without(f.to_bevy, id), to_vm |-> Without(f.to_vm, x),
             world |-> v, born |-> f.born]
    BY <1>r, <1>6 DEF Process, RemoveByVm
  <2>2. x \in DOMAIN f.to_vm /\ f.to_vm[x] = id /\ x \in DOMAIN w
    BY <1>6 DEF MapOK
  <2>3. v \in Seq(Entities) /\ Len(v) = Len(w) /\ DOMAIN v = DOMAIN w /\ v[x] = Gone /\ \A e \in DOMAIN w \ {x} : v[e] = w[e]
    BY <1>1, <2>2, EntityFacts
  <2> HIDE DEF g, v, x
  <2>4. /\ g.counter = f.counter /\ g.to_bevy = Without(f.to_bevy, id) /\ g.to_vm = Without(f.to_vm, x)
        /\ g.world = v /\ g.born = f.born
    BY <2>1
  <2>5. /\ g.to_bevy \in Partial(Nat, Nat) /\ DOMAIN g.to_bevy = DOMAIN f.to_bevy \ {id}
        /\ \A y \in DOMAIN f.to_bevy \ {id} : g.to_bevy[y] = f.to_bevy[y]
    <3>1. LET h == Without(f.to_bevy, id)
          IN  /\ h \in Partial(Nat, Nat) /\ DOMAIN h = DOMAIN f.to_bevy \ {id}
              /\ \A y \in DOMAIN f.to_bevy \ {id} : h[y] = f.to_bevy[y]
      BY <1>1, WithoutFacts
    <3> QED BY <2>4, <3>1
  <2>6. /\ g.to_vm \in Partial(Nat, Nat) /\ DOMAIN g.to_vm = DOMAIN f.to_vm \ {x}
        /\ \A y \in DOMAIN f.to_vm \ {x} : g.to_vm[y] = f.to_vm[y]
    <3>1. LET h == Without(f.to_vm, x)
          IN  /\ h \in Partial(Nat, Nat) /\ DOMAIN h = DOMAIN f.to_vm \ {x}
              /\ \A y \in DOMAIN f.to_vm \ {x} : h[y] = f.to_vm[y]
      BY <1>1, WithoutFacts
    <3> QED BY <2>4, <3>1
  <2>7. g \in Flushes
    BY <1>1, <2>1, <2>3, <2>4, <2>5, <2>6 DEF Flushes
  <2>8. ASSUME NEW k \in DOMAIN g.to_bevy
        PROVE  k < g.counter /\ g.to_bevy[k] \in DOMAIN g.to_vm /\ g.to_vm[g.to_bevy[k]] = k
    <3>1. k \in DOMAIN f.to_bevy /\ k # id
      BY <2>5
    <3>2. k < f.counter /\ f.to_bevy[k] \in DOMAIN f.to_vm /\ f.to_vm[f.to_bevy[k]] = k
      BY <3>1 DEF MapOK
    <3>3. f.to_bevy[k] # x
      BY <2>2, <3>1, <3>2
    <3> QED BY <2>4, <2>5, <2>6, <3>1, <3>2, <3>3
  <2>9. ASSUME NEW e \in DOMAIN g.to_vm
        PROVE  g.to_vm[e] \in DOMAIN g.to_bevy /\ g.to_bevy[g.to_vm[e]] = e
    <3>1. e \in DOMAIN f.to_vm /\ e # x
      BY <2>6
    <3>2. f.to_vm[e] \in DOMAIN f.to_bevy /\ f.to_bevy[f.to_vm[e]] = e
      BY <3>1 DEF MapOK
    <3>3. f.to_vm[e] # id
      BY <3>1, <3>2 DEF x
    <3> QED BY <2>5, <2>6, <3>1, <3>2, <3>3
  <2>10. DOMAIN g.to_vm = {e \in DOMAIN g.world : g.world[e].kind = "game"}
    <3>1. DOMAIN f.to_vm = {e \in DOMAIN w : w[e].kind = "game"}
      BY DEF MapOK
    <3> QED BY <2>2, <2>3, <2>4, <2>6, <3>1, EntityFacts
  <2>11. Len(g.world) >= Len(w)
    BY <1>2, <2>3, <2>4
  <2> QED BY <2>7, <2>8, <2>9, <2>10, <2>11 DEF MapOK, g
<1>7. CASE event.op \in EntityOps /\ id \in DOMAIN f.to_bevy /\ event.op # "despawn"
  <2> DEFINE g == Process(f, event)
             x == f.to_bevy[id]
             v == [w EXCEPT ![x] = Changed(w[x], event.op)]
  <2>1. g = [f EXCEPT !.world = v]
    BY <1>r, <1>7 DEF Process, EntityOps, AnimationOps
  <2>2. x \in DOMAIN w
    BY <1>7 DEF MapOK
  <2>3. Changed(w[x], event.op) \in Entities /\ Changed(w[x], event.op).kind = w[x].kind
    BY <1>2, <1>7, <2>2, ChangedKeepsKind
  <2>4. v \in Seq(Entities) /\ Len(v) = Len(w) /\ DOMAIN v = DOMAIN w /\ \A e \in DOMAIN w : v[e].kind = w[e].kind
    <3> DEFINE y == Changed(w[x], event.op)
    <3> HIDE DEF y, x
    <3>1. v = [w EXCEPT ![x] = y]
      BY DEF y
    <3>2. y \in Entities /\ y.kind = w[x].kind
      BY <2>3 DEF y
    <3> HIDE DEF v
    <3>3. v \in Seq(Entities) /\ Len(v) = Len(w) /\ DOMAIN v = DOMAIN w /\ v[x] = y /\ \A e \in DOMAIN w \ {x} : v[e] = w[e]
      BY <1>1, <2>2, <3>1, <3>2
    <3> QED BY <3>2, <3>3
  <2> HIDE DEF g, v, x
  <2>5. /\ g.counter = f.counter /\ g.to_bevy = f.to_bevy /\ g.to_vm = f.to_vm
        /\ g.world = v /\ g.born = f.born /\ g \in Flushes
    BY <1>1, <1>r, <2>1, <2>4 DEF Flushes
  <2>6. DOMAIN g.to_vm = {e \in DOMAIN g.world : g.world[e].kind = "game"}
    <3>1. DOMAIN f.to_vm = {e \in DOMAIN w : w[e].kind = "game"}
      BY DEF MapOK
    <3> QED BY <2>4, <2>5, <3>1
  <2>7. Len(g.world) >= Len(w)
    BY <1>2, <2>4, <2>5
  <2> QED BY <2>5, <2>6, <2>7 DEF MapOK, g
<1>8. CASE event.op = "log" \/ (event.op \in EntityOps /\ id \notin DOMAIN f.to_bevy)
  <2>1. Process(f, event) = f
    BY <1>8 DEF Process, EntityOps, AnimationOps
  <2> QED BY <1>2, <2>1
<1> QED BY <1>3, <1>4, <1>5, <1>6, <1>7, <1>8 DEF EventOps

\* h takes the events one by one.
TransferEquation(q, events, h) ==
  h = [n \in 0 .. Len(events) |-> IF n = 0 THEN q ELSE Pushed(h[n - 1], events[n])]

\* The queues that transfer_from goes through after n events.
Taken(q, n) ==
  {p \in Queued : Len(p.events) <= MAX_QUEUE_CAPACITY /\ Len(p.events) + p.dropped = Len(q.events) + q.dropped + n}

\* A push keeps the event, or drops it and counts it.
LEMMA PushedTakes ==
  ASSUME NEW q \in Queued, NEW n \in Nat, NEW p \in Taken(q, n), NEW event \in Events
  PROVE  Pushed(p, event) \in Taken(q, n + 1)
<1> DEFINE es == p.events
<1>1. /\ es \in Seq(Events) /\ p.dropped \in Nat /\ Len(es) \in Nat /\ Len(es) <= MAX_QUEUE_CAPACITY
      /\ MAX_QUEUE_CAPACITY \in Nat /\ q.events \in Seq(Events) /\ Len(q.events) \in Nat /\ q.dropped \in Nat
      /\ Len(es) + p.dropped = Len(q.events) + q.dropped + n
  BY BridgeConstants DEF Taken, Queued
<1> DEFINE x == Len(q.events)
           y == q.dropped
           before == x + y + n
           long   == Len(es)
           drops  == p.dropped
<1>x. x \in Nat /\ y \in Nat /\ long \in Nat /\ drops \in Nat /\ long + drops = before
  BY <1>1
<1>a. long \in Nat /\ drops \in Nat /\ before = long + drops /\ before + 1 = x + y + (n + 1)
  <2> HIDE DEF x, y, long, drops
  <2> QED BY <1>x
<1>b. before + 1 = (long + 1) + drops /\ before + 1 = long + (drops + 1)
  <2> HIDE DEF before, long, drops
  <2> QED BY <1>a
<1>r. p = [events |-> p.events, dropped |-> p.dropped]
  BY DEF Taken, Queued
<1>2. CASE Len(es) >= MAX_QUEUE_CAPACITY
  <2>1. Pushed(p, event) = [events |-> es, dropped |-> p.dropped + 1]
    BY <1>r, <1>2 DEF Pushed
  <2> HIDE DEF es
  <2>2. Pushed(p, event) \in Queued /\ Pushed(p, event).events = es /\ Pushed(p, event).dropped = p.dropped + 1
    BY <1>1, <2>1 DEF Queued
  <2> DEFINE a == Pushed(p, event)
  <2>3. Len(es) + (p.dropped + 1) = Len(q.events) + q.dropped + (n + 1)
    BY <1>a, <1>b
  <2>4. Len(a.events) <= MAX_QUEUE_CAPACITY /\ Len(a.events) + a.dropped = Len(q.events) + q.dropped + (n + 1)
    BY <1>1, <2>2, <2>3
  <2> QED BY <2>2, <2>4 DEF Taken
<1>3. CASE ~ (Len(es) >= MAX_QUEUE_CAPACITY)
  <2>1. Pushed(p, event) = [events |-> Append(es, event), dropped |-> p.dropped]
    BY <1>r, <1>3 DEF Pushed
  <2>2. Append(es, event) \in Seq(Events) /\ Len(Append(es, event)) = Len(es) + 1
    BY <1>1
  <2> HIDE DEF es
  <2>3. Pushed(p, event) \in Queued /\ Pushed(p, event).events = Append(es, event) /\ Pushed(p, event).dropped = p.dropped
    BY <1>1, <2>1, <2>2 DEF Queued
  <2> DEFINE a == Pushed(p, event)
  <2>4. (Len(es) + 1) + p.dropped = Len(q.events) + q.dropped + (n + 1)
    BY <1>a, <1>b
  <2>c. Len(es) + 1 <= MAX_QUEUE_CAPACITY
    BY <1>1, <1>3
  <2>5. Len(a.events) <= MAX_QUEUE_CAPACITY /\ Len(a.events) + a.dropped = Len(q.events) + q.dropped + (n + 1)
    BY <2>2, <2>3, <2>4, <2>c
  <2> QED BY <2>3, <2>5 DEF Taken
<1> QED BY <1>2, <1>3

\* transfer_from counts what it cannot take.
LEMMA TransferredOK ==
  ASSUME NEW q \in Queued, Len(q.events) <= MAX_QUEUE_CAPACITY, NEW events \in Seq(Events)
  PROVE  Transferred(q, events) \in Taken(q, Len(events))
<1> DEFINE N == Len(events)
           T == {p \in Queued : Len(p.events) <= MAX_QUEUE_CAPACITY}
           next == [n \in 1 .. N |-> [p \in T |-> Pushed(p, events[n])]]
<1>1. N \in Nat /\ \A n \in 1 .. N : events[n] \in Events
  OBVIOUS
<1>2. q \in T /\ q \in Taken(q, 0)
  BY DEF Taken, Queued
<1>3. ASSUME NEW p \in T, NEW event \in Events PROVE Pushed(p, event) \in T
  <2>1. p \in Taken(p, 0) /\ p \in Queued
    BY DEF Taken, Queued
  <2>2. Pushed(p, event) \in Taken(p, 0 + 1)
    BY <2>1, PushedTakes
  <2> QED BY <2>2 DEF Taken
<1> HIDE DEF T, N
<1>4. next \in Steps(N, T)
  BY <1>1, <1>3 DEF Steps
<1>5. PICK g : Stepwise(g, N, T, q, next)
  <2> HIDE DEF next
  <2> QED BY <1>1, <1>2, <1>4, StepwiseExists
<1>6. TransferEquation(q, events, g)
  <2>1. ASSUME NEW n \in 0 .. N
        PROVE  g[n] = IF n = 0 THEN q ELSE Pushed(g[n - 1], events[n])
    <3>1. CASE n = 0
      BY <1>5, <3>1 DEF Stepwise
    <3>2. CASE n # 0
      <4>1. n \in 1 .. N /\ n - 1 \in 0 .. N
        BY <1>1, <3>2
      <4>2. g[n - 1] \in T /\ next[n] = [p \in T |-> Pushed(p, events[n])]
        BY <1>5, <4>1 DEF Stepwise
      <4> QED BY <1>5, <3>2, <4>1, <4>2 DEF Stepwise
    <3> QED BY <3>1, <3>2
  <2> QED BY <1>5, <2>1 DEF TransferEquation, Stepwise, N
<1> DEFINE into == CHOOSE h : TransferEquation(q, events, h)
<1>7. TransferEquation(q, events, into)
  BY <1>6, Zenon
<1>8. Transferred(q, events) = into[N]
  BY Zenon DEF Transferred, TransferEquation, N
<1> HIDE DEF into
<1>9. ASSUME NEW n \in 0 .. N PROVE into[n] = IF n = 0 THEN q ELSE Pushed(into[n - 1], events[n])
  <2>1. into = [i \in 0 .. N |-> IF i = 0 THEN q ELSE Pushed(into[i - 1], events[i])]
    BY <1>7, Zenon DEF TransferEquation, N
  <2> QED BY <2>1, Zenon
<1> DEFINE S == {n \in Nat : n <= N => into[n] \in Taken(q, n)}
<1>10. S \in SUBSET Nat /\ 0 \in S
  <2>1. 0 \in 0 .. N
    BY <1>1
  <2>2. into[0] = q
    BY <1>9, <2>1
  <2> QED BY <1>2, <2>2
<1>11. ASSUME NEW n \in S PROVE n + 1 \in S
  <2> SUFFICES ASSUME n + 1 <= N PROVE into[n + 1] \in Taken(q, n + 1)
    OBVIOUS
  <2>1. n \in Nat /\ n + 1 \in 0 .. N /\ n + 1 \in 1 .. N /\ n + 1 # 0 /\ (n + 1) - 1 = n /\ into[n] \in Taken(q, n)
    BY <1>1
  <2>2. into[n + 1] = Pushed(into[n], events[n + 1])
    BY <1>9, <2>1
  <2> QED BY <1>1, <2>1, <2>2, PushedTakes
<1> HIDE DEF S
<1>12. S = Nat
  BY <1>10, <1>11, InductionOnSet
<1>13. into[N] \in Taken(q, N)
  BY <1>1, <1>12 DEF S
<1> QED BY <1>8, <1>13 DEF N

\* The events of a flush, one by one.
FlushEquation(f, events, h) ==
  h = [n \in 0 .. Len(events) |-> IF n = 0 THEN f ELSE Process(h[n - 1], events[n])]

\* The states that flush_bridge_events goes through.
Flushed(f) == {g \in Flushes : MapOK(g) /\ Len(g.world) >= Len(f.world)}

\* The events of a flush keep the map exact, one by one.
LEMMA ProcessedOK ==
  ASSUME NEW f, MapOK(f), NEW events \in Seq(Events)
  PROVE  Processed(f, events) \in Flushed(f)
<1> DEFINE N == Len(events)
           T == Flushed(f)
           next == [n \in 1 .. N |-> [g \in T |-> Process(g, events[n])]]
<1>1. N \in Nat /\ \A n \in 1 .. N : events[n] \in Events
  OBVIOUS
<1>2. f \in T
  BY DEF MapOK, Flushed, Flushes
<1>3. ASSUME NEW g \in T, NEW event \in Events PROVE Process(g, event) \in T
  <2>1. MapOK(g) /\ Len(g.world) >= Len(f.world) /\ Len(g.world) \in Nat /\ Len(f.world) \in Nat
    BY DEF Flushed, MapOK, Flushes
  <2>2. MapOK(Process(g, event)) /\ Len(Process(g, event).world) >= Len(g.world)
    BY <2>1, ProcessOK
  <2>3. Process(g, event) \in Flushes /\ Len(Process(g, event).world) \in Nat
    BY <2>2 DEF MapOK, Flushes
  <2>4. Len(Process(g, event).world) >= Len(f.world)
    BY <2>1, <2>2, <2>3
  <2> QED BY <2>2, <2>3, <2>4 DEF Flushed
<1> HIDE DEF T, N
<1>4. next \in Steps(N, T)
  BY <1>1, <1>3 DEF Steps
<1>5. PICK g : Stepwise(g, N, T, f, next)
  <2> HIDE DEF next
  <2> QED BY <1>1, <1>2, <1>4, StepwiseExists
<1>6. FlushEquation(f, events, g)
  <2>1. ASSUME NEW n \in 0 .. N
        PROVE  g[n] = IF n = 0 THEN f ELSE Process(g[n - 1], events[n])
    <3>1. CASE n = 0
      BY <1>5, <3>1 DEF Stepwise
    <3>2. CASE n # 0
      <4>1. n \in 1 .. N /\ n - 1 \in 0 .. N
        BY <1>1, <3>2
      <4>2. g[n - 1] \in T /\ next[n] = [p \in T |-> Process(p, events[n])]
        BY <1>5, <4>1 DEF Stepwise
      <4> QED BY <1>5, <3>2, <4>1, <4>2 DEF Stepwise
    <3> QED BY <3>1, <3>2
  <2> QED BY <1>5, <2>1 DEF FlushEquation, Stepwise, N
<1> DEFINE after == CHOOSE h : FlushEquation(f, events, h)
<1>7. FlushEquation(f, events, after)
  BY <1>6, Zenon
<1>8. Processed(f, events) = after[N]
  BY Zenon DEF Processed, FlushEquation, N
<1> HIDE DEF after
<1>9. ASSUME NEW n \in 0 .. N PROVE after[n] = IF n = 0 THEN f ELSE Process(after[n - 1], events[n])
  <2>1. after = [i \in 0 .. N |-> IF i = 0 THEN f ELSE Process(after[i - 1], events[i])]
    BY <1>7, Zenon DEF FlushEquation, N
  <2> QED BY <2>1, Zenon
<1> DEFINE S == {n \in Nat : n <= N => after[n] \in T}
<1>10. S \in SUBSET Nat /\ 0 \in S
  <2>1. 0 \in 0 .. N
    BY <1>1
  <2>2. after[0] = f
    BY <1>9, <2>1
  <2> QED BY <1>2, <2>2
<1>11. ASSUME NEW n \in S PROVE n + 1 \in S
  <2> SUFFICES ASSUME n + 1 <= N PROVE after[n + 1] \in T
    OBVIOUS
  <2>1. n \in Nat /\ n + 1 \in 0 .. N /\ n + 1 \in 1 .. N /\ n + 1 # 0 /\ (n + 1) - 1 = n /\ after[n] \in T
    BY <1>1
  <2>2. after[n + 1] = Process(after[n], events[n + 1])
    BY <1>9, <2>1
  <2> QED BY <1>1, <1>3, <2>1, <2>2
<1> HIDE DEF S
<1>12. S = Nat
  BY <1>10, <1>11, InductionOnSet
<1>13. after[N] \in T
  BY <1>1, <1>12 DEF S
<1> QED BY <1>8, <1>13 DEF T

\* retain counts what it takes away.
LEMMA RetainedOK ==
  ASSUME NEW q \in Queued, Len(q.events) <= MAX_QUEUE_CAPACITY
  PROVE  Retained(q) \in Taken(q, 0)
<1> DEFINE es == q.events
           silenced == {bevy_to_vm[e] : e \in disabled \cap DOMAIN bevy_to_vm}
           K == {n \in DOMAIN es : es[n].op \notin EntityOps \/ es[n].eid \notin silenced}
           kept == Selected(es, K)
<1>1. es \in Seq(Events) /\ q.dropped \in Nat /\ Len(es) \in Nat /\ K \in SUBSET DOMAIN es /\ MAX_QUEUE_CAPACITY \in Nat
  BY BridgeConstants DEF Queued
<1>2. Retained(q) = [events |-> kept, dropped |-> q.dropped + Len(es) - Len(kept)]
  BY DEF Retained
<1> HIDE DEF K, es
<1>3. kept \in Seq(Events) /\ Len(kept) \in 0 .. Len(es)
  BY <1>1, SelectedFacts
<1> HIDE DEF kept
<1> DEFINE a == Len(kept)
           b == Len(es)
           d == q.dropped
<1>4. a \in Nat /\ b \in Nat /\ d \in Nat /\ a <= b
  BY <1>1, <1>3
<1>5. d + b - a \in Nat /\ a + (d + b - a) = b + d + 0
  <2> HIDE DEF a, b, d
  <2> QED BY <1>4
<1>6. Len(es) <= MAX_QUEUE_CAPACITY
  BY DEF es
<1>7. Retained(q) \in Queued /\ Retained(q).events = kept /\ Retained(q).dropped = d + b - a
  BY <1>2, <1>3, <1>5 DEF Queued
<1>8. Len(kept) <= MAX_QUEUE_CAPACITY
  BY <1>1, <1>4, <1>6
<1>9. Len(Retained(q).events) + Retained(q).dropped = Len(q.events) + q.dropped + 0
  BY <1>5, <1>7 DEF es
<1> QED BY <1>7, <1>8, <1>9 DEF Taken

\* What the diagnostics count.
Counters == [processed : Nat, dropped : Nat, total : Nat]

\* The inductive invariant: the map is exact also against the allocator, a
\* disabled entity exists, and no event is unaccounted for.
BridgeInv ==
  /\ vm_mirror \subseteq Nat
  /\ vm_queue \in Seq(Events) /\ queue \in Queued /\ diagnostics \in Counters
  /\ pushed \in Nat /\ flushed \in Nat
  /\ MapOK(Flushing)
  /\ disabled \subseteq DOMAIN world
  /\ EventsAccounted

\* What flush_bridge_events starts from.
LEMMA FlushingFields ==
  /\ Flushing.counter = counter /\ Flushing.to_bevy = vm_to_bevy /\ Flushing.to_vm = bevy_to_vm
  /\ Flushing.world = world /\ Flushing.born = born
BY DEF Flushing

\* The types of the map and of the world.
LEMMA BridgeTypes ==
  ASSUME MapOK(Flushing)
  PROVE  /\ counter \in Nat /\ vm_to_bevy \in Partial(Nat, Nat) /\ bevy_to_vm \in Partial(Nat, Nat)
         /\ world \in Seq(Entities) /\ born \in SUBSET Nat /\ DOMAIN vm_to_bevy \subseteq Nat
<1>1. /\ counter \in Nat /\ vm_to_bevy \in Partial(Nat, Nat) /\ bevy_to_vm \in Partial(Nat, Nat)
      /\ world \in Seq(Entities) /\ born \in SUBSET Nat
  BY FlushingFields DEF MapOK, Flushes
<1> QED BY <1>1, PartialFacts

\* The bridge starts with no entities and no events.
LEMMA BridgeInitOK == BridgeInit => BridgeInv
<1> SUFFICES ASSUME BridgeInit PROVE BridgeInv
  OBVIOUS
<1>1. /\ vm_mirror = {} /\ vm_queue = <<>> /\ queue = [events |-> <<>>, dropped |-> 0]
      /\ diagnostics = [processed |-> 0, dropped |-> 0, total |-> 0] /\ pushed = 0 /\ flushed = 0
      /\ counter = 1 /\ vm_to_bevy = <<>> /\ bevy_to_vm = <<>> /\ world = <<>> /\ born = {} /\ disabled = {}
  BY DEF BridgeInit
<1>2. <<>> \in Partial(Nat, Nat) /\ DOMAIN <<>> = {} /\ <<>> \in Seq(Entities) /\ <<>> \in Seq(Events)
  <2>1. <<>> \in [{} -> Nat] /\ DOMAIN <<>> = {}
    OBVIOUS
  <2> QED BY <2>1 DEF Partial
<1>3. MapOK(Flushing)
  <2>1. Flushing \in Flushes
    BY <1>1, <1>2 DEF Flushing, Flushes
  <2> QED BY <1>1, <1>2, <2>1, FlushingFields DEF MapOK
<1>4. queue \in Queued /\ diagnostics \in Counters /\ queue.events = <<>> /\ queue.dropped = 0 /\ diagnostics.total = 0
  BY <1>1, <1>2 DEF Queued, Counters
<1>5. EventsAccounted
  BY <1>1, <1>4, BridgeConstants DEF EventsAccounted
<1> QED BY <1>1, <1>2, <1>3, <1>4, <1>5 DEF BridgeInv

\* A call leaves the Bevy side alone and pushes one event at most.
LEMMA CallOK ==
  ASSUME BridgeInv, counter' \in {counter, counter + 1}, phase = "scripts", VmRest,
         \/ \E event \in Events : vm_queue' = Append(vm_queue, event) /\ pushed' = pushed + 1
         \/ vm_queue' = vm_queue /\ pushed' = pushed
  PROVE  BridgeInv'
<1>1. UNCHANGED <<phase, vm_mirror, queue, vm_to_bevy, bevy_to_vm, diagnostics, world, disabled, flushed, born>>
  BY DEF VmRest, bevyVars, mapVars
<1>2. MapOK(Flushing)'
  <2>0. counter' \in Nat /\ counter' >= counter /\ counter \in Nat
    BY BridgeTypes DEF BridgeInv
  <2>1. Flushing' \in Flushes
    BY <1>1, <2>0, BridgeTypes DEF BridgeInv, Flushing, Flushes
  <2>2. /\ Flushing'.counter = counter' /\ Flushing'.to_bevy = vm_to_bevy /\ Flushing'.to_vm = bevy_to_vm
        /\ Flushing'.world = world
    BY <1>1 DEF Flushing
  <2>3. \A id \in DOMAIN vm_to_bevy : id \in Nat /\ id < counter /\ id < counter'
    BY <2>0, BridgeTypes, FlushingFields DEF BridgeInv, MapOK
  <2> QED BY <2>1, <2>2, <2>3, FlushingFields DEF BridgeInv, MapOK
<1>3. vm_queue' \in Seq(Events) /\ pushed' \in Nat /\ pushed' - Len(vm_queue') = pushed - Len(vm_queue) /\ Len(vm_queue) \in Nat /\ Len(vm_queue') \in Nat /\ pushed \in Nat
  <2>1. vm_queue \in Seq(Events) /\ pushed \in Nat
    BY DEF BridgeInv
  <2> QED BY <2>1
<1>4. EventsAccounted'
  <2> DEFINE x == flushed + diagnostics.total + queue.dropped + Len(queue.events)
  <2>1. x \in Nat /\ pushed = x + Len(vm_queue) /\ Len(queue.events) <= MAX_QUEUE_CAPACITY
    BY DEF BridgeInv, EventsAccounted, Queued, Counters
  <2>2. x' = x
    BY <1>1
  <2> HIDE DEF x
  <2>3. pushed' = x' + Len(vm_queue')
    BY <1>3, <2>1, <2>2
  <2> QED BY <1>1, <2>1, <2>3 DEF EventsAccounted, x
<1> QED BY <1>1, <1>2, <1>3, <1>4 DEF BridgeInv

\* transfer_from moves every event or counts it.
LEMMA TransferStepOK == BridgeInv /\ Transfer => BridgeInv'
<1> SUFFICES ASSUME BridgeInv, Transfer PROVE BridgeInv'
  OBVIOUS
<1>1. /\ phase' = "flush" /\ queue' = Transferred(queue, vm_queue) /\ vm_queue' = <<>>
      /\ UNCHANGED <<counter, vm_mirror, vm_to_bevy, bevy_to_vm, diagnostics, world, disabled, pushed, flushed, born>>
  BY DEF Transfer, mapVars, auxVars
<1>2. queue \in Queued /\ vm_queue \in Seq(Events) /\ Len(queue.events) <= MAX_QUEUE_CAPACITY
  BY DEF BridgeInv, EventsAccounted
<1>3. queue' \in Taken(queue, Len(vm_queue))
  BY <1>1, <1>2, TransferredOK
<1>4. /\ queue' \in Queued /\ Len(queue'.events) <= MAX_QUEUE_CAPACITY
      /\ Len(queue'.events) + queue'.dropped = Len(queue.events) + queue.dropped + Len(vm_queue)
  BY <1>3 DEF Taken
<1>5. EventsAccounted'
  <2> DEFINE a == Len(queue.events)
             b == queue.dropped
             c == Len(vm_queue)
             x == flushed
             y == diagnostics.total
             a2 == Len(queue'.events)
             b2 == queue'.dropped
  <2>1. /\ a \in Nat /\ b \in Nat /\ c \in Nat /\ x \in Nat /\ y \in Nat /\ a2 \in Nat /\ b2 \in Nat
        /\ pushed = x + y + b + a + c
    BY <1>2, <1>4 DEF BridgeInv, EventsAccounted, Queued, Counters
  <2>2. a2 + b2 = a + b + c
    BY <1>4
  <2>3. pushed = x + y + b2 + a2 + 0
    <3> HIDE DEF a, b, c, x, y, a2, b2
    <3> QED BY <2>1, <2>2
  <2>4. Len(vm_queue') = 0
    BY <1>1
  <2> QED BY <1>1, <1>4, <2>3, <2>4 DEF EventsAccounted
<1>6. MapOK(Flushing)'
  <2>1. Flushing' = Flushing
    BY <1>1 DEF Flushing
  <2> QED BY <2>1 DEF BridgeInv, MapOK
<1> QED BY <1>1, <1>4, <1>5, <1>6 DEF BridgeInv

\* flush_bridge_events processes every event that waits.
LEMMA FlushStepOK == BridgeInv /\ Flush => BridgeInv'
<1> SUFFICES ASSUME BridgeInv, Flush PROVE BridgeInv'
  OBVIOUS
<1> DEFINE f == Processed(Flushing, queue.events)
<1>1. /\ phase' = "mirror" /\ counter' = f.counter /\ born' = f.born
      /\ vm_to_bevy' = f.to_bevy /\ bevy_to_vm' = f.to_vm /\ world' = f.world
      /\ disabled' = {e \in disabled : f.world[e] # Gone}
      /\ queue' = [events |-> <<>>, dropped |-> 0]
      /\ flushed' = flushed + Len(queue.events)
      /\ diagnostics' = [processed |-> Len(queue.events), dropped |-> queue.dropped, total |-> diagnostics.total + queue.dropped]
      /\ UNCHANGED <<vm_mirror, vm_queue, pushed>>
  BY DEF Flush, DroppedBefore
<1>2. queue \in Queued /\ queue.events \in Seq(Events) /\ queue.dropped \in Nat /\ Len(queue.events) \in Nat
  BY DEF BridgeInv, Queued
<1>3. f \in Flushed(Flushing)
  BY <1>2, ProcessedOK DEF BridgeInv
<1> HIDE DEF f
<1>4. MapOK(f) /\ f \in Flushes /\ Len(f.world) >= Len(world)
  BY <1>3, FlushingFields DEF Flushed
<1>5. MapOK(Flushing)'
  <2>1. Flushing' = f
    BY <1>1, <1>4 DEF Flushing, Flushes
  <2> QED BY <1>4, <2>1 DEF MapOK
<1>6. disabled' \subseteq DOMAIN world'
  <2>1. world \in Seq(Entities) /\ f.world \in Seq(Entities)
    BY <1>4, BridgeTypes DEF BridgeInv, Flushes
  <2>2. DOMAIN world \subseteq DOMAIN f.world
    BY <1>4, <2>1
  <2> QED BY <1>1, <2>2 DEF BridgeInv
<1>7. /\ queue' \in Queued /\ queue'.events = <<>> /\ queue'.dropped = 0
      /\ diagnostics' \in Counters /\ diagnostics'.total = diagnostics.total + queue.dropped /\ flushed' \in Nat
  BY <1>1, <1>2 DEF BridgeInv, Queued, Counters
<1>8. EventsAccounted'
  <2> DEFINE a == Len(queue.events)
             b == queue.dropped
             c == Len(vm_queue)
             x == flushed
             y == diagnostics.total
  <2>1. /\ a \in Nat /\ b \in Nat /\ c \in Nat /\ x \in Nat /\ y \in Nat
        /\ pushed = x + y + b + a + c
    BY <1>2 DEF BridgeInv, EventsAccounted, Counters
  <2>2. pushed = (x + a) + (y + b) + 0 + 0 + c
    <3> HIDE DEF a, b, c, x, y
    <3> QED BY <2>1
  <2>3. Len(queue'.events) = 0 /\ Len(queue'.events) <= MAX_QUEUE_CAPACITY
    BY <1>7, BridgeConstants
  <2>4. pushed' = flushed' + diagnostics'.total + queue'.dropped + Len(queue'.events) + Len(vm_queue')
    <3>1. pushed' = pushed /\ Len(vm_queue') = c /\ flushed' = x + a /\ diagnostics'.total = y + b
      BY <1>1, <1>7
    <3> HIDE DEF a, b, c, x, y
    <3> QED BY <1>7, <2>2, <2>3, <3>1
  <2> QED BY <2>3, <2>4 DEF EventsAccounted
<1> QED BY <1>1, <1>5, <1>6, <1>7, <1>8 DEF BridgeInv

\* A change of the world that keeps every entity's kind keeps the map exact.
LEMMA SameKindsOK ==
  ASSUME MapOK(Flushing), UNCHANGED <<counter, vm_to_bevy, bevy_to_vm, born>>,
         world' \in Seq(Entities), Len(world') = Len(world), \A e \in DOMAIN world : world'[e].kind = world[e].kind
  PROVE  MapOK(Flushing)' /\ DOMAIN world' = DOMAIN world
<1>1. world \in Seq(Entities)
  BY BridgeTypes
<1>2. DOMAIN world' = DOMAIN world
  BY <1>1
<1>3. Flushing' \in Flushes
  BY BridgeTypes DEF Flushing, Flushes
<1>4. /\ Flushing'.counter = counter /\ Flushing'.to_bevy = vm_to_bevy /\ Flushing'.to_vm = bevy_to_vm
      /\ Flushing'.world = world'
  BY DEF Flushing
<1>5. {e \in DOMAIN world' : world'[e].kind = "game"} = {e \in DOMAIN world : world[e].kind = "game"}
  BY <1>2
<1> QED BY <1>2, <1>3, <1>4, <1>5, FlushingFields DEF MapOK

\* The fallback systems leave an entity one of its kind.
LEMMA FallbackFacts ==
  ASSUME NEW c \in Entities
  PROVE  Fallback(c) \in Entities /\ Fallback(c).kind = c.kind
<1>1. FallbackAnimation(c) \in BOOLEAN
  BY DEF FallbackAnimation, Entities
<1>2. FallbackTransform(c) \in {"default", "position", "rotation", "scale", "server"}
  BY DEF FallbackTransform, Entities
<1> QED BY <1>1, <1>2 DEF Fallback, Entities

\* The end of the frame: the fallback changes no kind, and retain counts what it drops.
LEMMA MirrorStepOK == BridgeInv /\ UpdateMirror => BridgeInv'
<1> SUFFICES ASSUME BridgeInv, UpdateMirror PROVE BridgeInv'
  OBVIOUS
<1>1. /\ phase' = "driver" /\ queue' = Retained(queue)
      /\ world' = [e \in DOMAIN world |-> IF e \in disabled THEN Fallback(world[e]) ELSE world[e]]
      /\ UNCHANGED <<counter, vm_mirror, vm_queue, vm_to_bevy, bevy_to_vm, diagnostics, disabled, pushed, flushed, born>>
  BY DEF UpdateMirror, vmVars, mapVars, auxVars
<1>2. world \in Seq(Entities) /\ DOMAIN world = 1 .. Len(world) /\ Len(world) \in Nat /\ \A e \in DOMAIN world : world[e] \in Entities
  BY BridgeTypes DEF BridgeInv
<1>3. /\ \A e \in DOMAIN world : world'[e] \in Entities /\ world'[e].kind = world[e].kind
      /\ \A e \in disabled : world'[e] = Fallback(world[e]) /\ world[e] \in Entities
  BY <1>1, <1>2, FallbackFacts DEF BridgeInv
<1>4. world' \in Seq(Entities) /\ Len(world') = Len(world)
  <2>1. DOMAIN world' = 1 .. Len(world) /\ world' = [e \in 1 .. Len(world) |-> world'[e]]
    BY <1>1, <1>2
  <2> DEFINE w == world'
  <2> HIDE DEF w
  <2>2. \A e \in 1 .. Len(world) : w[e] \in Entities
    BY <1>2, <1>3 DEF w
  <2>3. w = [e \in 1 .. Len(world) |-> w[e]]
    BY <2>1 DEF w
  <2>4. w \in Seq(Entities) /\ Len(w) = Len(world)
    BY <1>2, <2>2, <2>3
  <2> QED BY <2>4 DEF w
<1>5. MapOK(Flushing)' /\ DOMAIN world' = DOMAIN world
  BY <1>1, <1>3, <1>4, SameKindsOK DEF BridgeInv
<1>6. queue' \in Taken(queue, 0)
  BY <1>1, RetainedOK DEF BridgeInv, EventsAccounted
<1>7. /\ queue' \in Queued /\ Len(queue'.events) <= MAX_QUEUE_CAPACITY
      /\ Len(queue'.events) + queue'.dropped = Len(queue.events) + queue.dropped + 0
  BY <1>6 DEF Taken
<1>8. EventsAccounted'
  <2> DEFINE a == Len(queue.events)
             b == queue.dropped
             c == Len(vm_queue)
             x == flushed
             y == diagnostics.total
             a2 == Len(queue'.events)
             b2 == queue'.dropped
  <2>1. /\ a \in Nat /\ b \in Nat /\ c \in Nat /\ x \in Nat /\ y \in Nat /\ a2 \in Nat /\ b2 \in Nat
        /\ pushed = x + y + b + a + c
    BY <1>7 DEF BridgeInv, EventsAccounted, Queued, Counters
  <2>2. a2 + b2 = a + b + 0
    BY <1>7
  <2>3. pushed = x + y + b2 + a2 + c
    <3> HIDE DEF a, b, c, x, y, a2, b2
    <3> QED BY <2>1, <2>2
  <2> QED BY <1>1, <1>7, <2>3 DEF EventsAccounted
<1> QED BY <1>1, <1>5, <1>7, <1>8 DEF BridgeInv

\* A script that is disabled leaves its entity to the end of the frame.
LEMMA DisableStepOK ==
  ASSUME BridgeInv, NEW e \in DOMAIN world, DisableScript(e)
  PROVE  BridgeInv'
<1>1. PICK default \in {Unset, "none", "some"}, placed \in BOOLEAN :
        world' = [world EXCEPT ![e].anim_default = default, ![e].server_position = placed]
  BY DEF DisableScript
<1>2. /\ phase' = phase /\ phase = "scripts" /\ disabled' = disabled \cup {e}
      /\ UNCHANGED <<counter, vm_mirror, vm_queue, queue, vm_to_bevy, bevy_to_vm, diagnostics, pushed, flushed, born>>
  BY DEF DisableScript, vmVars, mapVars, auxVars
<1>3. world \in Seq(Entities) /\ world[e] \in Entities
  <2>1. world \in Seq(Entities)
    BY BridgeTypes DEF BridgeInv
  <2> QED BY <2>1
<1> DEFINE c == [world[e] EXCEPT !.anim_default = default, !.server_position = placed]
<1>4. c \in Entities /\ c.kind = world[e].kind
  BY <1>3 DEF Entities
<1>5. world' = [world EXCEPT ![e] = c]
  BY <1>1
<1> HIDE DEF c
<1>6. world' \in Seq(Entities) /\ Len(world') = Len(world) /\ \A d \in DOMAIN world : world'[d].kind = world[d].kind
  BY <1>3, <1>4, <1>5
<1>7. MapOK(Flushing)' /\ DOMAIN world' = DOMAIN world
  BY <1>2, <1>6, SameKindsOK DEF BridgeInv
<1>8. EventsAccounted'
  BY <1>2 DEF BridgeInv, EventsAccounted
<1> QED BY <1>2, <1>7, <1>8 DEF BridgeInv

\* Every step of a frame keeps the invariant.
LEMMA BridgeStepOK == BridgeInv /\ [BridgeNext]_bridgeVars => BridgeInv'
<1> SUFFICES ASSUME BridgeInv, [BridgeNext]_bridgeVars PROVE BridgeInv'
  OBVIOUS
<1>0. counter \in Nat /\ DOMAIN vm_to_bevy \subseteq Nat /\ vm_mirror \subseteq Nat
  BY BridgeTypes DEF BridgeInv
<1>p. ASSUME NEW op \in EventOps, NEW eid \in Nat, Push(op, eid)
      PROVE  \E event \in Events : vm_queue' = Append(vm_queue, event) /\ pushed' = pushed + 1
  <2>1. [op |-> op, eid |-> eid] \in Events
    BY DEF Events
  <2> QED BY <1>p, <2>1 DEF Push
<1>1. CASE StartFrame
  <2>1. /\ phase' = "scripts" /\ vm_mirror' \subseteq Nat
        /\ UNCHANGED <<counter, vm_queue, queue, vm_to_bevy, bevy_to_vm, diagnostics, world, disabled, pushed, flushed, born>>
    BY <1>0, <1>1 DEF StartFrame, bevyVars, mapVars, auxVars
  <2>2. Flushing' = Flushing
    BY <2>1 DEF Flushing
  <2>3. EventsAccounted'
    BY <2>1 DEF BridgeInv, EventsAccounted
  <2>4. MapOK(Flushing)'
    BY <2>2 DEF BridgeInv, MapOK
  <2> QED BY <2>1, <2>3, <2>4 DEF BridgeInv
<1>2. CASE SpawnEntity
  <2>1. Push("spawn", 0) /\ "spawn" \in EventOps /\ phase = "scripts" /\ counter' = counter + 1 /\ VmRest
    BY <1>2 DEF SpawnEntity, Deduct, EventOps
  <2> QED BY <1>p, <2>1, CallOK
<1>3. CASE PlayVfx
  <2>1. Push("vfx", 0) /\ "vfx" \in EventOps /\ phase = "scripts" /\ counter' = counter /\ VmRest
    BY <1>3 DEF PlayVfx, Deduct, EventOps
  <2> QED BY <1>p, <2>1, CallOK
<1>4. CASE PlaySound
  <2>1. Push("log", 0) /\ "log" \in EventOps /\ phase = "scripts" /\ counter' = counter /\ VmRest
    BY <1>4 DEF PlaySound, Deduct, EventOps
  <2> QED BY <1>p, <2>1, CallOK
<1>5. ASSUME NEW op \in EntityOps, NEW eid \in 1 .. counter - 1, EntityCall(op, eid) PROVE BridgeInv'
  <2>1. op \in EventOps /\ eid \in Nat /\ phase = "scripts" /\ counter' = counter /\ VmRest
    BY <1>0, <1>5 DEF EntityCall, Deduct, EventOps
  <2>2. Push(op, eid) \/ (vm_queue' = vm_queue /\ pushed' = pushed)
    BY <1>5 DEF EntityCall
  <2> QED BY <1>p, <2>1, <2>2, CallOK
<1>6. ASSUME NEW op, NEW kind, NEW h, StopHandle(op, kind, h) PROVE BridgeInv'
  <2>1. "log" \in EventOps /\ phase = "scripts" /\ counter' = counter /\ VmRest
    BY <1>6 DEF StopHandle, Deduct, EventOps
  <2>2. Push("log", 0) \/ (vm_queue' = vm_queue /\ pushed' = pushed)
    BY <1>6 DEF StopHandle
  <2> QED BY <1>p, <2>1, <2>2, CallOK
<1>7. ASSUME NEW op \in PlainOps, PlainCall(op) PROVE BridgeInv'
  <2>1. Push("log", 0) /\ "log" \in EventOps /\ phase = "scripts" /\ counter' = counter /\ VmRest
    BY <1>7 DEF PlainCall, Deduct, EventOps
  <2> QED BY <1>p, <2>1, CallOK
<1>8. ASSUME NEW op \in DOMAIN Cost, NoEvent(op) PROVE BridgeInv'
  <2>1. phase = "scripts" /\ counter' = counter /\ VmRest /\ vm_queue' = vm_queue /\ pushed' = pushed
    BY <1>8 DEF NoEvent, Deduct
  <2> QED BY <2>1, CallOK
<1>9. CASE UNCHANGED bridgeVars
  <2>1. UNCHANGED <<phase, vm_mirror, counter, vm_queue, queue, vm_to_bevy, bevy_to_vm, diagnostics, world, disabled, pushed, flushed, born>>
    BY <1>9 DEF bridgeVars, vmVars, bevyVars, mapVars, auxVars
  <2>2. Flushing' = Flushing
    BY <2>1 DEF Flushing
  <2>3. EventsAccounted'
    BY <2>1 DEF BridgeInv, EventsAccounted
  <2>4. MapOK(Flushing)'
    BY <2>2 DEF BridgeInv, MapOK
  <2> QED BY <2>1, <2>3, <2>4 DEF BridgeInv
<1> QED BY <1>1, <1>2, <1>3, <1>4, <1>5, <1>6, <1>7, <1>8, <1>9,
           TransferStepOK, FlushStepOK, MirrorStepOK, DisableStepOK DEF BridgeNext

\* Inverse maps have as many entries.
LEMMA MapIsExact == BridgeInv => EntityMapExact
<1> SUFFICES ASSUME BridgeInv PROVE EntityMapExact
  OBVIOUS
<1>1. /\ \A id \in DOMAIN vm_to_bevy : vm_to_bevy[id] \in DOMAIN bevy_to_vm /\ bevy_to_vm[vm_to_bevy[id]] = id
      /\ \A e \in DOMAIN bevy_to_vm : bevy_to_vm[e] \in DOMAIN vm_to_bevy /\ vm_to_bevy[bevy_to_vm[e]] = e
      /\ DOMAIN bevy_to_vm = {e \in DOMAIN world : world[e].kind = "game"}
  BY FlushingFields DEF BridgeInv, MapOK
<1>2. DOMAIN bevy_to_vm = {e \in Live : world[e].kind = "game"}
  BY <1>1 DEF Live
<1>3. IsFiniteSet(DOMAIN bevy_to_vm)
  <2>1. world \in Seq(Entities)
    BY BridgeTypes DEF BridgeInv
  <2>2. DOMAIN world = 1 .. Len(world) /\ Len(world) \in Int
    BY <2>1
  <2>3. IsFiniteSet(DOMAIN world)
    BY <2>2, FS_Interval
  <2> QED BY <1>1, <2>3, FS_Subset
<1>4. ExistsBijection(DOMAIN bevy_to_vm, DOMAIN vm_to_bevy)
  <2> DEFINE A == DOMAIN bevy_to_vm
             B == DOMAIN vm_to_bevy
             g == [e \in A |-> bevy_to_vm[e]]
  <2>1. g \in [A -> B] /\ (\A i, j \in A : g[i] = g[j] => i = j) /\ \A id \in B : \E e \in A : g[e] = id
    BY <1>1
  <2> HIDE DEF g, A, B
  <2>2. g \in Bijection(A, B)
    BY <2>1, Fun_IsBij
  <2>3. ExistsBijection(A, B)
    BY <2>2 DEF ExistsBijection
  <2> QED BY <2>3 DEF A, B
<1>5. Cardinality(DOMAIN vm_to_bevy) = Cardinality(DOMAIN bevy_to_vm)
  <2> DEFINE A == DOMAIN bevy_to_vm
             B == DOMAIN vm_to_bevy
  <2> HIDE DEF A, B
  <2>1. IsFiniteSet(A) /\ ExistsBijection(A, B)
    BY <1>3, <1>4 DEF A, B
  <2>2. Cardinality(B) = Cardinality(A)
    BY <2>1, FS_Bijection
  <2> QED BY <2>2 DEF A, B
<1> QED BY <1>1, <1>2, <1>5 DEF EntityMapExact

\* BridgeEntityMap: for queues and worlds of any size, the two directions agree and
\* the mapped entities are exactly the living game entities, whatever stale and
\* repeated spawns, commands and despawns scripts have queued.
THEOREM EntityMapStaysExact == BridgeSpec => []EntityMapExact
BY BridgeInitOK, BridgeStepOK, MapIsExact, PTL DEF BridgeSpec

\* BridgeEventQueue and BridgeDiagnostics: for every capacity, every event that was
\* pushed is processed, waits, or is counted as dropped, and the queue keeps its
\* capacity, however many events one frame transfers.
THEOREM NoEventIsLost == BridgeSpec => []EventsAccounted
<1>1. BridgeInv => EventsAccounted
  BY DEF BridgeInv
<1> QED BY BridgeInitOK, BridgeStepOK, <1>1, PTL DEF BridgeSpec
=============================================================================
