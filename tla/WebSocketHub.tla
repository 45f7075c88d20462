---------------------------- MODULE WebSocketHub ----------------------------
(***************************************************************************)
(* The WebSocket hub (websockets/*.go), the event bus that feeds it        *)
(* (events/events.go) and the browser's end of a connection                *)
(* (WebSocketContext.tsx).                                                 *)
(*                                                                         *)
(* A connection is served by the goroutine of HandleWebSocket, which       *)
(* becomes its write pump, a read pump and an authentication timer.  One   *)
(* hub goroutine keeps the map of clients.  Each event for the browsers is *)
(* a goroutine of its own, which looks in the map and sends on the clients'*)
(* channels.  Sending on a closed channel, and reading a map while another *)
(* goroutine writes it, end the process.                                   *)
(***************************************************************************)
EXTENDS Naturals, Sequences, Functions

CONSTANTS
  Browser,     \* browser tabs
  Conn,        \* connections, each used once
  User,
  Event,       \* events published for the browsers, each once
  BrowserOf,   \* the browser that makes a connection; its user may have changed since
  TokenOf,     \* the user whose token it sends, NoUser if the server refuses it
  Admin,       \* the users with IsAdmin
  Addressee,   \* the user an event is for, or Admins
  Admins, NoUser, NoConn,
  Capacity,    \* SEND_CHANNEL_SIZE
  MaxUplink    \* bound: messages on their way from a browser

AuthReply == {"auth_success", "auth_failure", "auth_required"}

ASSUME HubAssumption ==
  /\ BrowserOf \in [Conn -> Browser] /\ TokenOf \in [Conn -> User \cup {NoUser}]
  /\ Admin \subseteq User
  /\ Addressee \in [Event -> User \cup {Admins}]
  /\ NoUser \notin User \cup {Admins} /\ Admins \notin User /\ NoConn \notin Conn
  /\ Event \cap AuthReply = {}
  /\ Capacity \in Nat \ {0} /\ MaxUplink \in Nat \ {0}

VARIABLES
  conn,      \* a connection is unused, open, "closing" while a goroutine waits to
             \* close it, left by the browser, or closed
  uplink,    \* messages on their way to the server
  socket,    \* a browser's wsInstance
  wsAuthenticated,
  got,       \* history: the events a browser has received on a connection
  status, user,  \* Client.Status and Client.UserID
  send, shut,    \* Client.send: its buffer, and whether it is closed
  handler,   \* where HandleWebSocket and writePump are
  reader,    \* where readPump is; named after the reply it is about to send
  timer,     \* where the goroutine of startAuthTimeout is
  clients,   \* hub.clients
  hub,       \* what hub.run is doing
  task,      \* where the goroutine of an event is
  target,    \* targetClient of sendToSpecificUser
  todo,      \* clients that sendToAdminUsers has still to look at
  crashed    \* the goroutine that ended the process

browsers == <<socket, wsAuthenticated, got>>
identity == <<status, user>>
channels == <<send, shut>>
events == <<task, target, todo>>
vars == <<conn, uplink, browsers, identity, channels, handler, reader, timer, clients, hub, events, crashed>>

Idle == [op |-> "idle", conn |-> NoConn]
Message == AuthReply \cup Event

-----------------------------------------------------------------------------
(* Channels and connections *)

\* Mutant: one message more.
HasRoomForOneMore(c) == ~shut[c] /\ Len(send[c]) <= Capacity

\* c.send <- m
HasRoom(c) == ~shut[c] /\ Len(send[c]) < Capacity
Push(c, m) == send' = [send EXCEPT ![c] = Append(@, m)] /\ UNCHANGED <<shut, crashed>>
Panic(who) == crashed' = who /\ UNCHANGED channels

\* select { case c.send <- m: default: }
TrySend(c, m, who) ==
  \/ shut[c] /\ Panic(who)
  \/ HasRoom(c) /\ Push(c, m)
  \/ ~shut[c] /\ ~HasRoom(c) /\ UNCHANGED <<channels, crashed>>

IsOpen(c) == conn[c] \in {"open", "closing"}
CloseConn(c) == conn' = [conn EXCEPT ![c] = "closed"]
CloseSoon(c) == conn' = [conn EXCEPT ![c] = IF @ = "open" THEN "closing" ELSE @]
LeaveConn(c) == conn' = [conn EXCEPT ![c] = IF @ = "closed" THEN @ ELSE "left"]

\* The rendezvous on hub.register and hub.unregister.
Ask(op, c) == hub = Idle /\ hub' = [op |-> op, conn |-> c]

-----------------------------------------------------------------------------
(* The browser *)

\* HandleWebSocket sends auth_request, and handleAuthRequest answers it if there is
\* a token; if the request cannot be sent the connection ends there.
Connect(c) ==
  /\ conn[c] = "unused" /\ socket[BrowserOf[c]] = NoConn
  /\ \/ /\ conn' = [conn EXCEPT ![c] = "open"]
        /\ socket' = [socket EXCEPT ![BrowserOf[c]] = c]
        /\ \E answer \in {<<"auth_response">>, <<>>} :
             uplink' = [uplink EXCEPT ![c] = answer]
        /\ handler' = [handler EXCEPT ![c] = "register"]
     \/ CloseConn(c) /\ UNCHANGED <<socket, uplink, handler>>
  /\ UNCHANGED <<wsAuthenticated, got, identity, channels, reader, timer, clients, hub, events, crashed>>

\* Mutant: the flag of the last connection stays.
LeaveAuthenticated(b) ==
  /\ socket[b] # NoConn
  /\ LeaveConn(socket[b])
  /\ socket' = [socket EXCEPT ![b] = NoConn]
  /\ UNCHANGED <<wsAuthenticated, uplink, got, identity, channels, handler, reader, timer,
                 clients, hub, events, crashed>>

\* A reload, a new token, reconnect(), or the close event of a lost connection.
Leave(b) ==
  /\ socket[b] # NoConn
  /\ LeaveConn(socket[b])
  /\ socket' = [socket EXCEPT ![b] = NoConn]
  /\ wsAuthenticated' = [wsAuthenticated EXCEPT ![b] = FALSE]
  /\ UNCHANGED <<uplink, got, identity, channels, handler, reader, timer, clients, hub, events, crashed>>

\* sendMessage, called with the answer to a request.
SendAnswer(b) ==
  /\ \E c \in Conn : BrowserOf[c] = b /\ got[c] # {}
  /\ socket[b] # NoConn /\ wsAuthenticated[b]
  /\ IsOpen(socket[b]) /\ Len(uplink[socket[b]]) < MaxUplink
  /\ uplink' = [uplink EXCEPT ![socket[b]] = Append(@, "api_response")]
  /\ UNCHANGED <<conn, browsers, identity, channels, handler, reader, timer, clients, hub, events, crashed>>

\* handleMessage
HandleMessage(c, m) ==
  /\ wsAuthenticated' = [wsAuthenticated EXCEPT ![BrowserOf[c]] =
       IF m \in AuthReply THEN m = "auth_success" ELSE @]
  /\ got' = [got EXCEPT ![c] = IF m \in Event THEN @ \cup {m} ELSE @]

-----------------------------------------------------------------------------
(* The hub *)

\* HandleWebSocket registers, starts the timer and the read pump.
Register(c) ==
  /\ handler[c] = "register"
  /\ Ask("insert", c)
  /\ handler' = [handler EXCEPT ![c] = "write"]
  /\ reader' = [reader EXCEPT ![c] = "read"]
  /\ timer' = [timer EXCEPT ![c] = "armed"]
  /\ UNCHANGED <<conn, uplink, browsers, identity, channels, clients, events, crashed>>

\* The map is locked for writing when nobody holds the lock for reading.
Unlocked == \A e \in Event : task[e] # "admins"

\* registerClient
Insert ==
  /\ hub.op = "insert" /\ Unlocked
  /\ clients' = clients \cup {hub.conn}
  /\ hub' = Idle
  /\ UNCHANGED <<conn, uplink, browsers, identity, channels, handler, reader, timer, events, crashed>>

\* Mutant: the channel stays open.
CloseNothing ==
  /\ hub.op = "close"
  /\ hub' = [hub EXCEPT !.op = "delete"]
  /\ UNCHANGED <<conn, uplink, browsers, identity, channels, handler, reader, timer, clients, events, crashed>>

\* close(client.send); closing it twice panics, and run recovers.
CloseSend ==
  /\ hub.op = "close"
  /\ shut' = [shut EXCEPT ![hub.conn] = TRUE]
  /\ hub' = [hub EXCEPT !.op = "delete"]
  /\ UNCHANGED <<conn, uplink, browsers, identity, send, handler, reader, timer, clients, events, crashed>>

\* unregisterClient
Delete ==
  /\ hub.op = "delete" /\ Unlocked
  /\ clients' = clients \ {hub.conn}
  /\ hub' = Idle
  /\ UNCHANGED <<conn, uplink, browsers, identity, channels, handler, reader, timer, events, crashed>>

-----------------------------------------------------------------------------
(* The write pump *)

\* A message goes out; on a connection that the browser has left it may get lost
\* before anybody notices.
Write(c) ==
  /\ handler[c] = "write" /\ send[c] # <<>>
  /\ send' = [send EXCEPT ![c] = Tail(@)]
  /\ \/ IsOpen(c) /\ HandleMessage(c, Head(send[c])) /\ UNCHANGED <<conn, handler>>
     \/ conn[c] = "left" /\ UNCHANGED <<conn, handler, wsAuthenticated, got>>
     \/ /\ conn[c] \in {"left", "closed"}
        /\ handler' = [handler EXCEPT ![c] = "unregister"] /\ CloseConn(c)
        /\ UNCHANGED <<wsAuthenticated, got>>
  /\ UNCHANGED <<uplink, socket, identity, shut, reader, timer, clients, hub, events,
                 crashed>>

\* It ends when the channel is closed and empty, or when a ping fails.
StopWriting(c) ==
  /\ handler[c] = "write"
  /\ (shut[c] /\ send[c] = <<>>) \/ ~IsOpen(c)
  /\ handler' = [handler EXCEPT ![c] = "unregister"]
  /\ CloseConn(c)
  /\ UNCHANGED <<uplink, browsers, identity, channels, reader, timer, clients, hub,
                 events, crashed>>

\* The connection it closes next is one that writePump has closed.
UnregisterHandler(c) ==
  /\ handler[c] = "unregister"
  /\ Ask("close", c)
  /\ handler' = [handler EXCEPT ![c] = "done"]
  /\ UNCHANGED <<conn, uplink, browsers, identity, channels, reader, timer, clients, events,
                 crashed>>

-----------------------------------------------------------------------------
(* The read pump *)

\* routeMessage; what handleAPIResponse does is CollectionSync's.
Read(c) ==
  /\ reader[c] = "read" /\ uplink[c] # <<>> /\ conn[c] # "closed"
  /\ uplink' = [uplink EXCEPT ![c] = Tail(@)]
  /\ reader' = [reader EXCEPT ![c] =
       IF Head(uplink[c]) = "auth_response"
         THEN IF status[c] = "unauthenticated" THEN "validate" ELSE "read"
         ELSE IF status[c] = "unauthenticated" THEN "auth_required" ELSE "read"]
  /\ UNCHANGED <<conn, browsers, identity, channels, handler, timer, clients, hub,
                 events, crashed>>

\* handleAuthResponse; a valid token may still be refused when a lookup fails.
Validate(c) ==
  /\ reader[c] = "validate"
  /\ \/ /\ TokenOf[c] # NoUser
        /\ status' = [status EXCEPT ![c] = "authenticated"]
        /\ reader' = [reader EXCEPT ![c] = "identify"]
     \/ reader' = [reader EXCEPT ![c] = "auth_failure"] /\ UNCHANGED status
  /\ UNCHANGED <<conn, uplink, browsers, user, channels, handler, timer, clients, hub,
                 events, crashed>>

\* c.UserID is set after c.Status, and no lock is held.
Identify(c) ==
  /\ reader[c] = "identify"
  /\ user' = [user EXCEPT ![c] = TokenOf[c]]
  /\ reader' = [reader EXCEPT ![c] = "auth_success"]
  /\ UNCHANGED <<conn, uplink, browsers, status, channels, handler, timer, clients, hub,
                 events, crashed>>

\* c.send <- reply; it blocks while the channel is full.
Reply(c) ==
  /\ reader[c] \in AuthReply
  /\ \/ shut[c] /\ Panic("reader") /\ UNCHANGED <<conn, reader>>
     \/ /\ HasRoom(c) /\ Push(c, reader[c])
        /\ reader' = [reader EXCEPT ![c] = "read"]
        /\ IF reader[c] = "auth_failure" THEN CloseSoon(c) ELSE UNCHANGED conn
  /\ UNCHANGED <<uplink, browsers, identity, handler, timer, clients, hub, events>>

\* The goroutine that sendAuthFailure or the timer leaves behind, after 100 ms.
CloseLater(c) ==
  /\ conn[c] = "closing"
  /\ CloseConn(c)
  /\ UNCHANGED <<uplink, browsers, identity, channels, handler, reader, timer, clients, hub,
                 events, crashed>>

ReadError(c) ==
  /\ reader[c] = "read" /\ ~IsOpen(c)
  /\ reader' = [reader EXCEPT ![c] = "unregister"]
  /\ UNCHANGED <<conn, uplink, browsers, identity, channels, handler, timer, clients,
                 hub, events, crashed>>

\* The read deadline passes: the network is down, or a handler took too long.
PongTimeout(c) ==
  /\ reader[c] = "read" /\ IsOpen(c)
  /\ reader' = [reader EXCEPT ![c] = "unregister"]
  /\ UNCHANGED <<conn, uplink, browsers, identity, channels, handler, timer, clients,
                 hub, events, crashed>>

\* The hub may be busy: until it takes the request the connection stays open.
UnregisterReader(c) ==
  /\ reader[c] = "unregister"
  /\ Ask("close", c)
  /\ reader' = [reader EXCEPT ![c] = "close"]
  /\ UNCHANGED <<conn, uplink, browsers, identity, channels, handler, timer, clients, events,
                 crashed>>

CloseReader(c) ==
  /\ reader[c] = "close"
  /\ CloseConn(c)
  /\ reader' = [reader EXCEPT ![c] = "done"]
  /\ UNCHANGED <<uplink, browsers, identity, channels, handler, timer, clients, hub, events,
                 crashed>>

-----------------------------------------------------------------------------
(* The authentication timer *)

TimerFires(c) ==
  /\ timer[c] = "armed"
  /\ timer' = [timer EXCEPT ![c] = IF status[c] = "unauthenticated" THEN "notify" ELSE "done"]
  /\ UNCHANGED <<conn, uplink, browsers, identity, channels, handler, reader, clients,
                 hub, events, crashed>>

\* Mutant: the browser is told, and its connection stays.
NotifyOnly(c) ==
  /\ timer[c] = "notify"
  /\ TrySend(c, "auth_failure", "timer")
  /\ timer' = [timer EXCEPT ![c] = "done"]
  /\ UNCHANGED <<conn, uplink, browsers, identity, handler, reader, clients, hub, events>>

\* The failure is sent if there is room, and the connection closed either way.
Notify(c) ==
  /\ timer[c] = "notify"
  /\ TrySend(c, "auth_failure", "timer")
  /\ CloseSoon(c)
  /\ timer' = [timer EXCEPT ![c] = "done"]
  /\ UNCHANGED <<uplink, browsers, identity, handler, reader, clients, hub, events>>

-----------------------------------------------------------------------------
(* Events *)

\* Publish, and notifyLocalHandlers on the way back: one goroutine per event.
Publish(e) ==
  /\ task[e] = "none"
  /\ task' = [task EXCEPT ![e] = IF Addressee[e] = Admins THEN "lock" ELSE "find"]
  /\ UNCHANGED <<conn, uplink, browsers, identity, channels, handler, reader, timer, clients, hub, target, todo, crashed>>

IsFor(c, e) == status[c] = "authenticated" /\ user[c] = Addressee[e]

\* Mutant: the user is not compared.
FindAnyone(e) ==
  /\ task[e] = "find"
  /\ \E c \in clients :
       /\ status[c] = "authenticated"
       /\ target' = [target EXCEPT ![e] = c]
       /\ task' = [task EXCEPT ![e] = "send"]
  /\ UNCHANGED <<conn, uplink, browsers, identity, channels, handler, reader, timer, clients, hub, todo, crashed>>

\* sendToSpecificUser ranges over the map without its lock, in any order; the
\* runtime stops the process if it notices that the hub writes meanwhile.
FindTarget(e) ==
  /\ task[e] = "find"
  /\ \/ \E c \in clients :
          /\ IsFor(c, e)
          /\ target' = [target EXCEPT ![e] = c]
          /\ task' = [task EXCEPT ![e] = "send"]
          /\ UNCHANGED crashed
     \/ /\ \A c \in clients : ~IsFor(c, e)
        /\ task' = [task EXCEPT ![e] = "done"]
        /\ UNCHANGED <<target, crashed>>
     \/ /\ hub.op \in {"insert", "delete"}
        /\ crashed' = "map"
        /\ UNCHANGED <<task, target>>
  /\ UNCHANGED <<conn, uplink, browsers, identity, channels, handler, reader, timer, clients, hub, todo>>

SendToTarget(e) ==
  /\ task[e] = "send"
  /\ TrySend(target[e], e, "event")
  /\ task' = [task EXCEPT ![e] = "done"]
  /\ UNCHANGED <<conn, uplink, browsers, identity, handler, reader, timer, clients, hub,
                 target, todo>>

\* sendToAdminUsers holds the lock for reading.
LockForAdmins(e) ==
  /\ task[e] = "lock"
  /\ task' = [task EXCEPT ![e] = "admins"]
  /\ todo' = [todo EXCEPT ![e] = clients]
  /\ UNCHANGED <<conn, uplink, browsers, identity, channels, handler, reader, timer, clients, hub, target, crashed>>

\* GetByID may fail, and the client is then skipped.
SendToAdmin(e) ==
  /\ task[e] = "admins"
  /\ \E c \in todo[e] :
       /\ todo' = [todo EXCEPT ![e] = @ \ {c}]
       /\ \/ status[c] = "authenticated" /\ user[c] \in Admin /\ TrySend(c, e, "event")
          \/ UNCHANGED <<channels, crashed>>
  /\ UNCHANGED <<conn, uplink, browsers, identity, handler, reader, timer, clients, hub,
                 task, target>>

Unlock(e) ==
  /\ task[e] = "admins" /\ todo[e] = {}
  /\ task' = [task EXCEPT ![e] = "done"]
  /\ UNCHANGED <<conn, uplink, browsers, identity, channels, handler, reader, timer, clients, hub, target, todo, crashed>>

-----------------------------------------------------------------------------
(* Specification *)

Init ==
  /\ conn = [c \in Conn |-> "unused"] /\ uplink = [c \in Conn |-> <<>>]
  /\ socket = [b \in Browser |-> NoConn]
  /\ wsAuthenticated = [b \in Browser |-> FALSE]
  /\ got = [c \in Conn |-> {}]
  /\ status = [c \in Conn |-> "unauthenticated"] /\ user = [c \in Conn |-> NoUser]
  /\ send = [c \in Conn |-> <<>>] /\ shut = [c \in Conn |-> FALSE]
  /\ handler = [c \in Conn |-> "none"] /\ reader = [c \in Conn |-> "none"]
  /\ timer = [c \in Conn |-> "none"]
  /\ clients = {} /\ hub = Idle
  /\ task = [e \in Event |-> "none"] /\ target = [e \in Event |-> NoConn]
  /\ todo = [e \in Event |-> {}]
  /\ crashed = "no"

WriterStep(c) == Register(c) \/ Write(c) \/ StopWriting(c) \/ UnregisterHandler(c)
ReaderStep(c) ==
  \/ Read(c) \/ Validate(c) \/ Identify(c) \/ Reply(c)
  \/ ReadError(c) \/ UnregisterReader(c) \/ CloseReader(c)
TimerStep(c) == TimerFires(c) \/ Notify(c)
HubStep == Insert \/ CloseSend \/ Delete
EventStep(e) ==
  FindTarget(e) \/ SendToTarget(e) \/ LockForAdmins(e) \/ SendToAdmin(e) \/ Unlock(e)

\* Nothing moves once the process has ended: all of this state is in memory.
Next ==
  /\ crashed = "no"
  /\ \/ \E c \in Conn : \/ Connect(c) \/ PongTimeout(c)
                       \/ WriterStep(c) \/ ReaderStep(c) \/ TimerStep(c) \/ CloseLater(c)
     \/ \E b \in Browser : Leave(b) \/ SendAnswer(b)
     \/ \E e \in Event : Publish(e) \/ EventStep(e)
     \/ HubStep

Spec == Init /\ [][Next]_vars

\* The goroutines are scheduled.  The hub serves those that wait for it in turn.
FairSpec ==
  /\ Spec
  /\ \A c \in Conn : /\ WF_vars(crashed = "no" /\ WriterStep(c))
                     /\ WF_vars(crashed = "no" /\ ReaderStep(c))
                     /\ WF_vars(crashed = "no" /\ TimerStep(c))
                     /\ WF_vars(crashed = "no" /\ CloseLater(c))
                     /\ SF_vars(crashed = "no" /\ (Register(c) \/ UnregisterHandler(c)))
                     /\ SF_vars(crashed = "no" /\ UnregisterReader(c))
  /\ \A e \in Event : WF_vars(crashed = "no" /\ EventStep(e))
  /\ WF_vars(crashed = "no" /\ HubStep)

-----------------------------------------------------------------------------
(* Properties *)

TypeOK ==
  /\ conn \in [Conn -> {"unused", "open", "closing", "left", "closed"}]
  /\ uplink \in [Conn -> Seq({"auth_response", "api_response"})]
  /\ socket \in [Browser -> Conn \cup {NoConn}]
  /\ wsAuthenticated \in [Browser -> BOOLEAN]
  /\ got \in [Conn -> SUBSET Event]
  /\ status \in [Conn -> {"unauthenticated", "authenticated"}]
  /\ user \in [Conn -> User \cup {NoUser}]
  /\ send \in [Conn -> Seq(Message)]
  /\ \A c \in Conn : Len(send[c]) <= Capacity
  /\ shut \in [Conn -> BOOLEAN]
  /\ handler \in [Conn -> {"none", "register", "write", "unregister", "done"}]
  /\ reader \in [Conn -> AuthReply \cup {"none", "read", "validate", "identify",
                                         "unregister", "close", "done"}]
  /\ timer \in [Conn -> {"none", "armed", "notify", "done"}]
  /\ clients \subseteq Conn
  /\ hub \in [op : {"idle", "insert", "close", "delete"}, conn : Conn \cup {NoConn}]
  /\ task \in [Event -> {"none", "find", "send", "lock", "admins", "done"}]
  /\ target \in [Event -> Conn \cup {NoConn}]
  /\ todo \in [Event -> SUBSET Conn]
  /\ crashed \in {"no", "timer", "reader", "event", "map"}

\* However often and in whatever order its goroutines unregister it, a client is
\* in the map exactly while its channel is open, but for the moment the hub takes
\* to put it in or to take it out.  So a goroutine that finds a client in the map
\* can only be surprised by a channel closed in that moment or since.
MapMatchesChannels ==
  \A c \in Conn :
    /\ c \in clients /\ shut[c] => hub = [op |-> "delete", conn |-> c]
    /\ c \notin clients /\ ~shut[c] /\ reader[c] # "none" =>
         hub = [op |-> "insert", conn |-> c]

\* A browser receives only the events of the user it connected as, and those for
\* the administrators only if that is one, whoever has used the browser before,
\* and although Status and UserID are set one after the other and read without a
\* lock (sendToSpecificUser, sendToAdminUsers).
PrivateDelivery ==
  \A c \in Conn : \A e \in got[c] :
    \/ Addressee[e] = TokenOf[c]
    \/ Addressee[e] = Admins /\ TokenOf[c] \in Admin

\* An answer a browser sends is not blocked by handleUnauthenticatedMessage: what
\* the browser believes of its connection (wsAuthenticated) is never ahead of what
\* the server does, over all its reconnections (sendMessage).
AnswersAreRouted ==
  \A c \in Conn : "api_response" \in Range(uplink[c]) => status[c] = "authenticated"

\* A connection that has ended leaves nothing behind: the hub forgets it and both
\* pumps return, a read pump blocked on a full channel included.
ConnectionsEnd ==
  \A c \in Conn :
    (handler[c] # "none" /\ ~IsOpen(c)) ~>
      \/ c \notin clients /\ handler[c] = "done" /\ reader[c] = "done"
      \/ crashed # "no"

\* A client that does not authenticate is disconnected.
UnauthenticatedEnd ==
  \A c \in Conn :
    (handler[c] = "write" /\ status[c] = "unauthenticated") ~>
      (status[c] = "authenticated" \/ ~IsOpen(c) \/ crashed # "no")

=============================================================================
