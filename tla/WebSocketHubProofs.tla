-------------------------- MODULE WebSocketHubProofs --------------------------
(***************************************************************************)
(* Type correctness of WebSocketHub and its three invariants, for any      *)
(* number of browsers, connections, users and events.                      *)
(***************************************************************************)
EXTENDS WebSocketHub, TLAPS

-----------------------------------------------------------------------------
(* Sequences *)

LEMMA RangeOfAppend ==
  ASSUME NEW S, NEW s \in Seq(S), NEW x \in S
  PROVE  /\ Append(s, x) \in Seq(S)
         /\ Range(Append(s, x)) = Range(s) \cup {x}
<1> DEFINE t == Append(s, x)
<1>1. /\ t \in Seq(S) /\ DOMAIN t = 1..(Len(s) + 1) /\ DOMAIN s = 1..Len(s)
      /\ \A i \in 1..Len(s) : t[i] = s[i]
      /\ t[Len(s) + 1] = x /\ Len(s) \in Nat
  OBVIOUS
<1> HIDE DEF t
<1>2. Range(t) \subseteq Range(s) \cup {x}
  <2>1. ASSUME NEW y \in Range(t)
        PROVE  y \in Range(s) \cup {x}
    <3>1. PICK i \in 1..(Len(s) + 1) : y = t[i]
      BY <1>1 DEF Range
    <3>2. i \in 1..Len(s) \/ i = Len(s) + 1
      BY <1>1
    <3> QED
      BY <1>1, <3>1, <3>2 DEF Range
  <2> QED
    BY <2>1
<1>3. Range(s) \cup {x} \subseteq Range(t)
  <2>1. \A i \in 1..Len(s) : i \in DOMAIN t /\ t[i] = s[i]
    BY <1>1
  <2>2. Len(s) + 1 \in DOMAIN t
    BY <1>1
  <2> QED
    BY <1>1, <2>1, <2>2 DEF Range
<1> QED
  BY <1>1, <1>2, <1>3 DEF t

LEMMA RangeOfTail ==
  ASSUME NEW S, NEW s \in Seq(S), s # <<>>
  PROVE  /\ Tail(s) \in Seq(S) /\ Len(Tail(s)) = Len(s) - 1
         /\ Head(s) \in Range(s) /\ Range(Tail(s)) \subseteq Range(s)
BY DEF Range

-----------------------------------------------------------------------------
(* Type correctness *)

\* What the hub works on is a connection.
HubBusy == hub = Idle \/ (hub.op # "idle" /\ hub.conn \in Conn)
TypeInv == TypeOK /\ HubBusy

ReaderPlaces ==
  AuthReply \cup {"none", "read", "validate", "identify", "unregister", "close",
                  "done"}

LEMMA InitType == Init => TypeInv
BY HubAssumption DEF Init, TypeInv, TypeOK, HubBusy, Idle, AuthReply, Message

\* What a send on a channel does to it.
LEMMA PushType ==
  ASSUME TypeInv, NEW c \in Conn \cup {NoConn}, NEW m \in Message, HasRoom(c), Push(c, m)
  PROVE  /\ send' \in [Conn -> Seq(Message)] /\ shut' = shut /\ crashed' = crashed
         /\ \A d \in Conn : Len(send'[d]) <= Capacity
<1>1. ASSUME NEW d \in Conn
      PROVE  send'[d] \in Seq(Message) /\ Len(send'[d]) <= Capacity
  <2>1. send[d] \in Seq(Message) /\ Len(send[d]) <= Capacity
    BY DEF TypeInv, TypeOK
  <2>2. CASE d = c
    <3>1. send'[d] = Append(send[d], m) /\ Len(send[d]) < Capacity
      BY <2>2 DEF Push, HasRoom, TypeInv, TypeOK
    <3> QED
      BY <2>1, <3>1, HubAssumption
  <2>3. CASE d # c
    BY <2>1, <2>3 DEF Push, TypeInv, TypeOK
  <2> QED
    BY <2>2, <2>3
<1> QED
  BY <1>1 DEF Push, TypeInv, TypeOK

LEMMA TrySendType ==
  ASSUME TypeInv, NEW c \in Conn \cup {NoConn}, NEW m \in Message,
         NEW who \in {"timer", "event"}, TrySend(c, m, who)
  PROVE  /\ send' \in [Conn -> Seq(Message)] /\ shut' = shut
         /\ \A d \in Conn : Len(send'[d]) <= Capacity
         /\ crashed' \in {"no", "timer", "reader", "event", "map"}
<1>1. CASE HasRoom(c) /\ Push(c, m)
  BY <1>1, PushType DEF TypeInv, TypeOK
<1>2. CASE send' = send /\ shut' = shut /\ (crashed' = who \/ crashed' = crashed)
  BY <1>2 DEF TypeInv, TypeOK
<1> QED
  BY <1>1, <1>2 DEF TrySend, Panic, channels

LEMMA ConnType ==
  ASSUME TypeInv, NEW c, CloseConn(c) \/ CloseSoon(c) \/ LeaveConn(c) \/ UNCHANGED conn
  PROVE  conn' \in [Conn -> {"unused", "open", "closing", "left", "closed"}]
<1>1. ASSUME NEW v \in {"closed", "closing", "left"} , conn' = [conn EXCEPT ![c] = v] \/ UNCHANGED conn
      PROVE  conn' \in [Conn -> {"unused", "open", "closing", "left", "closed"}]
  BY <1>1 DEF TypeInv, TypeOK
<1>2. CASE CloseConn(c) \/ UNCHANGED conn
  BY <1>1, <1>2 DEF CloseConn
<1>3. CASE CloseSoon(c)
  BY <1>3 DEF CloseSoon, TypeInv, TypeOK
<1>4. CASE LeaveConn(c)
  BY <1>4 DEF LeaveConn, TypeInv, TypeOK
<1> QED
  BY <1>2, <1>3, <1>4

LEMMA ConnectType ==
  ASSUME TypeInv, NEW c \in Conn, Connect(c)
  PROVE  TypeInv'
<1>1. /\ <<"auth_response">> \in Seq({"auth_response", "api_response"})
      /\ <<>> \in Seq({"auth_response", "api_response"})
  OBVIOUS
<1>2. uplink' \in [Conn -> Seq({"auth_response", "api_response"})]
  <2>1. CASE uplink' = [uplink EXCEPT ![c] = <<"auth_response">>]
    BY <1>1, <2>1 DEF TypeInv, TypeOK
  <2>2. CASE uplink' = [uplink EXCEPT ![c] = <<>>]
    BY <1>1, <2>2 DEF TypeInv, TypeOK
  <2>3. CASE UNCHANGED uplink
    BY <2>3 DEF TypeInv, TypeOK
  <2> QED
    BY <2>1, <2>2, <2>3 DEF Connect
<1>3. socket' \in [Browser -> Conn \cup {NoConn}]
  <2>1. CASE socket' = [socket EXCEPT ![BrowserOf[c]] = c]
    BY <2>1 DEF TypeInv, TypeOK
  <2>2. CASE UNCHANGED socket
    BY <2>2 DEF TypeInv, TypeOK
  <2> QED
    BY <2>1, <2>2 DEF Connect
<1>4. conn' \in [Conn -> {"unused", "open", "closing", "left", "closed"}]
  <2>1. CASE conn' = [conn EXCEPT ![c] = "open"]
    BY <2>1 DEF TypeInv, TypeOK
  <2>2. CASE CloseConn(c)
    BY <2>2, ConnType
  <2> QED
    BY <2>1, <2>2 DEF Connect
<1>5. handler' \in [Conn -> {"none", "register", "write", "unregister", "done"}]
  BY DEF TypeInv, TypeOK, Connect
<1> QED
  BY <1>2, <1>3, <1>4, <1>5
     DEF TypeInv, TypeOK, HubBusy, Connect, identity, channels, events

LEMMA LeaveType ==
  ASSUME TypeInv, NEW b \in Browser, Leave(b)
  PROVE  TypeInv'
BY ConnType
   DEF TypeInv, TypeOK, HubBusy, Leave, identity, channels, events

LEMMA SendAnswerType ==
  ASSUME TypeInv, NEW b \in Browser, SendAnswer(b)
  PROVE  TypeInv'
BY DEF TypeInv, TypeOK, HubBusy, SendAnswer, browsers, identity, channels, events

LEMMA RegisterType ==
  ASSUME TypeInv, NEW c \in Conn, Register(c)
  PROVE  TypeInv'
BY DEF TypeInv, TypeOK, HubBusy, Register, browsers, identity, channels, events, Ask,
       Idle

LEMMA InsertType ==
  ASSUME TypeInv, Insert
  PROVE  TypeInv'
BY DEF TypeInv, TypeOK, HubBusy, Insert, browsers, identity, channels, events, Idle

LEMMA CloseSendType ==
  ASSUME TypeInv, CloseSend
  PROVE  TypeInv'
<1>1. hub \in [op : {"idle", "insert", "close", "delete"}, conn : Conn \cup {NoConn}]
  BY DEF TypeInv, TypeOK
<1>2. hub.conn \in Conn
  BY DEF TypeInv, HubBusy, CloseSend, Idle
<1>3. hub' = [op |-> "delete", conn |-> hub.conn]
  BY <1>1 DEF CloseSend
<1>4. shut' \in [Conn -> BOOLEAN]
  BY DEF TypeInv, TypeOK, CloseSend
<1> QED
  BY <1>2, <1>3, <1>4
     DEF TypeInv, TypeOK, HubBusy, CloseSend, browsers, identity, events

LEMMA DeleteType ==
  ASSUME TypeInv, Delete
  PROVE  TypeInv'
BY DEF TypeInv, TypeOK, HubBusy, Delete, browsers, identity, channels, events, Idle

LEMMA WriteType ==
  ASSUME TypeInv, NEW c \in Conn, Write(c)
  PROVE  TypeInv'
<1>1. /\ Head(send[c]) \in Message
      /\ send' \in [Conn -> Seq(Message)] /\ \A d \in Conn : Len(send'[d]) <= Capacity
  <2>1. send[c] \in Seq(Message) /\ Len(send[c]) <= Capacity /\ send[c] # <<>>
    BY DEF Write, TypeInv, TypeOK
  <2>2. Head(send[c]) \in Message /\ Tail(send[c]) \in Seq(Message) /\ Len(Tail(send[c])) <= Capacity
    BY <2>1, HubAssumption
  <2> QED
    BY <2>2 DEF Write, TypeInv, TypeOK
<1>2. /\ wsAuthenticated' \in [Browser -> BOOLEAN]
      /\ got' \in [Conn -> SUBSET Event]
  <2>1. CASE HandleMessage(c, Head(send[c]))
    <3>1. wsAuthenticated' \in [Browser -> BOOLEAN]
      BY <2>1 DEF HandleMessage, TypeInv, TypeOK
    <3>2. got' \in [Conn -> SUBSET Event]
      BY <2>1 DEF HandleMessage, TypeInv, TypeOK
    <3> QED
      BY <3>1, <3>2
  <2>2. CASE UNCHANGED <<wsAuthenticated, got>>
    BY <2>2 DEF TypeInv, TypeOK
  <2> QED
    BY <2>1, <2>2 DEF Write
<1> QED
  BY <1>1, <1>2, ConnType
     DEF TypeInv, TypeOK, HubBusy, Write, identity, events

LEMMA StopWritingType ==
  ASSUME TypeInv, NEW c \in Conn, StopWriting(c)
  PROVE  TypeInv'
BY ConnType
   DEF TypeInv, TypeOK, HubBusy, StopWriting, browsers, identity, channels, events

LEMMA UnregisterHandlerType ==
  ASSUME TypeInv, NEW c \in Conn, UnregisterHandler(c)
  PROVE  TypeInv'
BY DEF TypeInv, TypeOK, HubBusy, UnregisterHandler, browsers, identity, channels,
       events, Ask, Idle

LEMMA ReadType ==
  ASSUME TypeInv, NEW c \in Conn, Read(c)
  PROVE  TypeInv'
<1>1. uplink' \in [Conn -> Seq({"auth_response", "api_response"})]
  BY RangeOfTail DEF TypeInv, TypeOK, Read
<1>2. reader' \in [Conn -> ReaderPlaces]
  BY DEF TypeInv, TypeOK, Read, AuthReply, ReaderPlaces
<1> QED
  BY <1>1, <1>2
     DEF TypeInv, TypeOK, HubBusy, Read, browsers, identity, channels, events,
         ReaderPlaces

LEMMA ValidateType ==
  ASSUME TypeInv, NEW c \in Conn, Validate(c)
  PROVE  TypeInv'
<1>1. reader' \in [Conn -> ReaderPlaces]
  BY DEF TypeInv, TypeOK, Validate, AuthReply, ReaderPlaces
<1>2. status' \in [Conn -> {"unauthenticated", "authenticated"}]
  BY DEF TypeInv, TypeOK, Validate
<1> QED
  BY <1>1, <1>2
     DEF TypeInv, TypeOK, HubBusy, Validate, browsers, channels, events, ReaderPlaces

LEMMA IdentifyType ==
  ASSUME TypeInv, NEW c \in Conn, Identify(c)
  PROVE  TypeInv'
<1>1. reader' \in [Conn -> ReaderPlaces]
  BY DEF TypeInv, TypeOK, Identify, AuthReply, ReaderPlaces
<1>2. user' \in [Conn -> User \cup {NoUser}]
  BY HubAssumption DEF TypeInv, TypeOK, Identify
<1> QED
  BY <1>1, <1>2
     DEF TypeInv, TypeOK, HubBusy, Identify, browsers, channels, events, ReaderPlaces

LEMMA ReplyType ==
  ASSUME TypeInv, NEW c \in Conn, Reply(c)
  PROVE  TypeInv'
<1>1. reader[c] \in Message
  BY DEF Reply, Message
<1>2. reader' \in [Conn -> ReaderPlaces]
  BY DEF TypeInv, TypeOK, Reply, ReaderPlaces
<1>3. /\ send' \in [Conn -> Seq(Message)] /\ \A d \in Conn : Len(send'[d]) <= Capacity
      /\ shut' = shut /\ crashed' \in {"no", "timer", "reader", "event", "map"}
  BY <1>1, PushType DEF TypeInv, TypeOK, Reply, Panic, channels
<1>4. conn' \in [Conn -> {"unused", "open", "closing", "left", "closed"}]
  BY ConnType DEF Reply
<1> QED
  BY <1>2, <1>3, <1>4
     DEF TypeInv, TypeOK, HubBusy, Reply, ReaderPlaces, browsers, identity, events

LEMMA CloseLaterType ==
  ASSUME TypeInv, NEW c \in Conn, CloseLater(c)
  PROVE  TypeInv'
BY ConnType
   DEF TypeInv, TypeOK, HubBusy, CloseLater, browsers, identity, channels, events

LEMMA ReadErrorType ==
  ASSUME TypeInv, NEW c \in Conn, ReadError(c)
  PROVE  TypeInv'
BY DEF TypeInv, TypeOK, HubBusy, ReadError, browsers, identity, channels, events

LEMMA PongTimeoutType ==
  ASSUME TypeInv, NEW c \in Conn, PongTimeout(c)
  PROVE  TypeInv'
BY DEF TypeInv, TypeOK, HubBusy, PongTimeout, browsers, identity, channels, events

LEMMA UnregisterReaderType ==
  ASSUME TypeInv, NEW c \in Conn, UnregisterReader(c)
  PROVE  TypeInv'
BY DEF TypeInv, TypeOK, HubBusy, UnregisterReader, browsers, identity, channels,
       events, Ask, Idle

LEMMA CloseReaderType ==
  ASSUME TypeInv, NEW c \in Conn, CloseReader(c)
  PROVE  TypeInv'
BY ConnType
   DEF TypeInv, TypeOK, HubBusy, CloseReader, browsers, identity, channels, events

LEMMA TimerFiresType ==
  ASSUME TypeInv, NEW c \in Conn, TimerFires(c)
  PROVE  TypeInv'
BY DEF TypeInv, TypeOK, HubBusy, TimerFires, browsers, identity, channels, events

LEMMA NotifyType ==
  ASSUME TypeInv, NEW c \in Conn, Notify(c)
  PROVE  TypeInv'
<1>1. "auth_failure" \in Message
  BY DEF Message, AuthReply
<1>2. /\ send' \in [Conn -> Seq(Message)] /\ \A d \in Conn : Len(send'[d]) <= Capacity
      /\ shut' = shut /\ crashed' \in {"no", "timer", "reader", "event", "map"}
  BY <1>1, TrySendType DEF Notify
<1>3. conn' \in [Conn -> {"unused", "open", "closing", "left", "closed"}]
  BY ConnType DEF Notify
<1> QED
  BY <1>2, <1>3 DEF TypeInv, TypeOK, HubBusy, Notify, browsers, identity, events

LEMMA PublishType ==
  ASSUME TypeInv, NEW e \in Event, Publish(e)
  PROVE  TypeInv'
BY DEF TypeInv, TypeOK, HubBusy, Publish, browsers, identity, channels

LEMMA FindTargetType ==
  ASSUME TypeInv, NEW e \in Event, FindTarget(e)
  PROVE  TypeInv'
<1>1. /\ task' \in [Event -> {"none", "find", "send", "lock", "admins", "done"}]
      /\ target' \in [Event -> Conn \cup {NoConn}]
      /\ crashed' \in {"no", "timer", "reader", "event", "map"}
  <2>1. CASE \E c \in clients : /\ target' = [target EXCEPT ![e] = c]
                                /\ task' = [task EXCEPT ![e] = "send"]
                                /\ UNCHANGED crashed
    BY <2>1 DEF TypeInv, TypeOK
  <2>2. CASE task' = [task EXCEPT ![e] = "done"] /\ UNCHANGED <<target, crashed>>
    BY <2>2 DEF TypeInv, TypeOK
  <2>3. CASE crashed' = "map" /\ UNCHANGED <<task, target>>
    BY <2>3 DEF TypeInv, TypeOK
  <2> QED
    BY <2>1, <2>2, <2>3 DEF FindTarget
<1> QED
  BY <1>1 DEF TypeInv, TypeOK, HubBusy, FindTarget, browsers, identity, channels

LEMMA SendToTargetType ==
  ASSUME TypeInv, NEW e \in Event, SendToTarget(e)
  PROVE  TypeInv'
BY TrySendType
   DEF TypeInv, TypeOK, HubBusy, SendToTarget, browsers, identity, Message

LEMMA LockForAdminsType ==
  ASSUME TypeInv, NEW e \in Event, LockForAdmins(e)
  PROVE  TypeInv'
BY DEF TypeInv, TypeOK, HubBusy, LockForAdmins, browsers, identity, channels

LEMMA SendToAdminType ==
  ASSUME TypeInv, NEW e \in Event, SendToAdmin(e)
  PROVE  TypeInv'
BY TrySendType
   DEF TypeInv, TypeOK, HubBusy, SendToAdmin, browsers, identity, channels, Message

LEMMA UnlockType ==
  ASSUME TypeInv, NEW e \in Event, Unlock(e)
  PROVE  TypeInv'
BY DEF TypeInv, TypeOK, HubBusy, Unlock, browsers, identity, channels

LEMMA StepType ==
  ASSUME TypeInv, Next
  PROVE  TypeInv'
BY ConnectType, LeaveType, SendAnswerType, RegisterType, InsertType, CloseSendType,
   DeleteType, WriteType, StopWritingType, UnregisterHandlerType, ReadType, ValidateType,
   IdentifyType, ReplyType, CloseLaterType, ReadErrorType, PongTimeoutType,
   UnregisterReaderType, CloseReaderType,
   TimerFiresType, NotifyType, PublishType, FindTargetType, SendToTargetType, LockForAdminsType,
   SendToAdminType, UnlockType
   DEF Next, WriterStep, ReaderStep, TimerStep, HubStep, EventStep

LEMMA TypeInvInductive == TypeInv /\ [Next]_vars => TypeInv'
<1> SUFFICES ASSUME TypeInv, [Next]_vars PROVE TypeInv'
  OBVIOUS
<1>1. CASE UNCHANGED vars
  BY <1>1 DEF TypeInv, TypeOK, HubBusy, vars, browsers, identity, channels, events
<1> QED
  BY <1>1, StepType

LEMMA TypeInvHolds == Spec => []TypeInv
BY InitType, TypeInvInductive, PTL DEF Spec

\* Types of the clients, their channels (never above SEND_CHANNEL_SIZE) and the
\* places their goroutines can be in.
THEOREM HubTypeCorrect == Spec => []TypeOK
<1>1. TypeInv => TypeOK
  BY DEF TypeInv
<1> QED
  BY <1>1, TypeInvHolds, PTL

-----------------------------------------------------------------------------
(* The map of clients and their channels *)

Early == {"none", "register"}

\* The invariant: MapMatchesChannels, with what is true before a client is
\* registered and what the hub's work in progress says of its client.
HubHonest ==
  /\ hub.op = "insert" => ~shut[hub.conn]
  /\ hub.op = "delete" => shut[hub.conn]
  /\ hub # Idle => reader[hub.conn] # "none"
StartsInOrder ==
  \A c \in Conn :
    /\ reader[c] = "none" => ~shut[c] /\ c \notin clients
    /\ reader[c] = "none" <=> handler[c] \in Early
    /\ conn[c] = "unused" => handler[c] = "none"
MapInv == MapMatchesChannels /\ HubHonest /\ StartsInOrder

LEMMA InitMap == Init => MapInv
BY DEF Init, MapInv, MapMatchesChannels, HubHonest, StartsInOrder, Early, Idle

\* A step that leaves the hub alone, and starts no read pump.
LEMMA MapFrame ==
  ASSUME TypeInv, MapInv, UNCHANGED <<shut, clients, hub>>,
         \A c \in Conn :
           /\ reader'[c] = "none" <=> reader[c] = "none"
           /\ handler'[c] \in Early <=> handler[c] \in Early
           /\ conn'[c] = "unused" => conn[c] = "unused" /\ handler'[c] = handler[c]
  PROVE  MapInv'
<1>1. MapMatchesChannels'
  BY DEF MapInv, MapMatchesChannels
<1>2. HubHonest'
  BY DEF MapInv, HubHonest, TypeInv, HubBusy
<1>3. StartsInOrder'
  BY DEF MapInv, StartsInOrder
<1> QED
  BY <1>1, <1>2, <1>3 DEF MapInv

\* Closing a connection, now or later, uses it up.
LEMMA ConnUsed ==
  ASSUME TypeInv, NEW c, CloseConn(c) \/ CloseSoon(c) \/ LeaveConn(c) \/ UNCHANGED conn,
         NEW d \in Conn, conn'[d] = "unused"
  PROVE  conn[d] = "unused"
BY DEF CloseConn, CloseSoon, LeaveConn, TypeInv, TypeOK

\* TrySend closes no channel.
LEMMA TrySendShut ==
  ASSUME NEW c, NEW m, NEW who, TrySend(c, m, who)
  PROVE  shut' = shut
BY DEF TrySend, Push, Panic, channels

\* What a pump does as it ends: it takes the hub, to close its client's channel.
LEMMA MapAsk ==
  ASSUME TypeInv, MapInv, NEW c \in Conn, Ask("close", c), reader[c] # "none",
         UNCHANGED <<shut, clients>>,
         \A d \in Conn :
           /\ reader'[d] = "none" <=> reader[d] = "none"
           /\ handler'[d] \in Early <=> handler[d] \in Early
           /\ conn'[d] = "unused" => conn[d] = "unused" /\ handler'[d] = handler[d]
  PROVE  MapInv'
<1>1. hub = Idle /\ hub'.op = "close" /\ hub'.conn = c
  BY DEF Ask
<1>2. MapMatchesChannels'
  BY <1>1 DEF MapInv, MapMatchesChannels, Idle
<1>3. HubHonest'
  BY <1>1 DEF HubHonest
<1>4. StartsInOrder'
  BY DEF MapInv, StartsInOrder
<1> QED
  BY <1>2, <1>3, <1>4 DEF MapInv

LEMMA HubMap ==
  ASSUME TypeInv, MapInv, HubStep
  PROVE  MapInv'
<1> DEFINE c == hub.conn
<1>1. hub # Idle /\ c \in Conn
  BY DEF HubStep, Insert, CloseSend, Delete, Idle, TypeInv, HubBusy
<1>2. hub = [op |-> hub.op, conn |-> c]
  BY DEF TypeInv, TypeOK
<1>3. CASE Insert
  <2>1. /\ hub = [op |-> "insert", conn |-> c] /\ hub' = Idle
        /\ clients' = clients \cup {c}
        /\ UNCHANGED <<shut, reader, handler, conn>>
    BY <1>2, <1>3 DEF Insert, channels
  <2>2. ~shut[c] /\ reader[c] # "none"
    BY <1>1, <2>1 DEF MapInv, HubHonest
  <2>3. MapMatchesChannels'
    BY <1>1, <2>1, <2>2 DEF MapInv, MapMatchesChannels
  <2>4. HubHonest'
    BY <2>1 DEF HubHonest, Idle
  <2>5. StartsInOrder'
    BY <2>1, <2>2 DEF MapInv, StartsInOrder
  <2> QED
    BY <2>3, <2>4, <2>5 DEF MapInv
<1>4. CASE CloseSend
  <2>1. /\ hub = [op |-> "close", conn |-> c] /\ hub' = [op |-> "delete", conn |-> c]
        /\ shut' = [shut EXCEPT ![c] = TRUE]
        /\ UNCHANGED <<clients, reader, handler, conn>>
    BY <1>2, <1>4 DEF CloseSend
  <2>2. shut'[c] /\ \A d \in Conn : d # c => shut'[d] = shut[d]
    BY <1>1, <2>1 DEF TypeInv, TypeOK
  <2>3. reader[c] # "none"
    BY <1>1 DEF MapInv, HubHonest
  <2>4. MapMatchesChannels'
    BY <1>1, <2>1, <2>2 DEF MapInv, MapMatchesChannels
  <2>5. HubHonest'
    BY <1>1, <2>1, <2>2, <2>3 DEF HubHonest
  <2>6. StartsInOrder'
    BY <2>1, <2>2, <2>3 DEF MapInv, StartsInOrder
  <2> QED
    BY <2>4, <2>5, <2>6 DEF MapInv
<1>5. CASE Delete
  <2>1. /\ hub = [op |-> "delete", conn |-> c] /\ hub' = Idle
        /\ clients' = clients \ {c}
        /\ UNCHANGED <<shut, reader, handler, conn>>
    BY <1>2, <1>5 DEF Delete, channels
  <2>2. shut[c]
    BY <1>1, <2>1 DEF MapInv, HubHonest
  <2>3. MapMatchesChannels'
    BY <1>1, <2>1, <2>2 DEF MapInv, MapMatchesChannels
  <2>4. HubHonest'
    BY <2>1 DEF HubHonest, Idle
  <2>5. StartsInOrder'
    BY <2>1 DEF MapInv, StartsInOrder
  <2> QED
    BY <2>3, <2>4, <2>5 DEF MapInv
<1> QED
  BY <1>3, <1>4, <1>5 DEF HubStep

LEMMA WriterMap ==
  ASSUME TypeInv, MapInv, NEW c \in Conn, WriterStep(c)
  PROVE  MapInv'
<1>1. CASE Register(c)
  <2>1. /\ hub = Idle /\ hub' = [op |-> "insert", conn |-> c]
        /\ UNCHANGED <<shut, clients, conn>>
    BY <1>1 DEF Register, Ask, channels
  <2>2. /\ reader'[c] = "read" /\ handler'[c] = "write"
        /\ \A d \in Conn : d # c => reader'[d] = reader[d] /\ handler'[d] = handler[d]
    BY <1>1 DEF Register, TypeInv, TypeOK
  <2>3. reader[c] = "none" /\ ~shut[c] /\ c \notin clients /\ conn[c] # "unused"
    BY <1>1 DEF Register, MapInv, StartsInOrder, Early
  <2>4. MapMatchesChannels'
    BY <2>1, <2>2, <2>3 DEF MapInv, MapMatchesChannels, Idle
  <2>5. HubHonest'
    BY <2>1, <2>2, <2>3 DEF HubHonest
  <2>6. StartsInOrder'
    BY <2>1, <2>2, <2>3 DEF MapInv, StartsInOrder, Early
  <2> QED
    BY <2>4, <2>5, <2>6 DEF MapInv
<1>2. CASE Write(c)
  <2>1. UNCHANGED <<shut, clients, hub, reader>> /\ handler[c] = "write"
    BY <1>2 DEF Write
  <2>2. /\ handler'[c] \in {"write", "unregister"}
        /\ \A d \in Conn : d # c => handler'[d] = handler[d]
    BY <1>2 DEF Write, TypeInv, TypeOK
  <2>3. conn[c] # "unused"
    BY <2>1 DEF MapInv, StartsInOrder
  <2>4. CloseConn(c) \/ UNCHANGED conn
    BY <1>2 DEF Write
  <2> QED
    BY <2>1, <2>2, <2>3, <2>4, ConnUsed, MapFrame DEF Early
<1>3. CASE StopWriting(c)
  <2>1. UNCHANGED <<shut, clients, hub, reader>> /\ handler[c] = "write" /\ CloseConn(c)
    BY <1>3 DEF StopWriting, channels
  <2>2. /\ handler'[c] = "unregister"
        /\ \A d \in Conn : d # c => handler'[d] = handler[d]
    BY <1>3 DEF StopWriting, TypeInv, TypeOK
  <2>3. conn[c] # "unused"
    BY <2>1 DEF MapInv, StartsInOrder
  <2> QED
    BY <2>1, <2>2, <2>3, ConnUsed, MapFrame DEF Early
<1>4. CASE UnregisterHandler(c)
  <2>1. /\ UNCHANGED <<shut, clients, reader>> /\ handler[c] = "unregister"
        /\ UNCHANGED conn /\ Ask("close", c)
    BY <1>4 DEF UnregisterHandler, channels
  <2>2. /\ handler'[c] = "done"
        /\ \A d \in Conn : d # c => handler'[d] = handler[d]
    BY <1>4 DEF UnregisterHandler, TypeInv, TypeOK
  <2>3. conn[c] # "unused" /\ reader[c] # "none"
    BY <2>1 DEF MapInv, StartsInOrder, Early
  <2> QED
    BY <2>1, <2>2, <2>3, ConnUsed, MapAsk DEF Early
<1> QED
  BY <1>1, <1>2, <1>3, <1>4 DEF WriterStep

\* A read pump that is running goes on, or has ended.
LEMMA ReaderGoesOn ==
  ASSUME TypeInv, NEW c \in Conn, ReaderStep(c) \/ PongTimeout(c)
  PROVE  /\ reader[c] # "none"
         /\ \A d \in Conn : reader'[d] = "none" <=> reader[d] = "none"
<1>1. CASE Read(c)
  BY <1>1 DEF Read, TypeInv, TypeOK
<1>2. CASE Validate(c)
  BY <1>2 DEF Validate, TypeInv, TypeOK
<1>3. CASE Identify(c)
  BY <1>3 DEF Identify, TypeInv, TypeOK
<1>4. CASE Reply(c)
  BY <1>4 DEF Reply, AuthReply, TypeInv, TypeOK
<1>5. CASE ReadError(c)
  BY <1>5 DEF ReadError, TypeInv, TypeOK
<1>6. CASE UnregisterReader(c)
  BY <1>6 DEF UnregisterReader, TypeInv, TypeOK
<1>7. CASE PongTimeout(c)
  BY <1>7 DEF PongTimeout, TypeInv, TypeOK
<1>8. CASE CloseReader(c)
  BY <1>8 DEF CloseReader, TypeInv, TypeOK
<1> QED
  BY <1>1, <1>2, <1>3, <1>4, <1>5, <1>6, <1>7, <1>8 DEF ReaderStep

LEMMA ReaderMap ==
  ASSUME TypeInv, MapInv, NEW c \in Conn, ReaderStep(c) \/ PongTimeout(c)
  PROVE  MapInv'
<1>1. UNCHANGED <<clients, handler>>
  BY DEF ReaderStep, Read, Validate, Identify, Reply, ReadError, UnregisterReader, CloseReader,
     PongTimeout
<1>2. CASE UnregisterReader(c)
  <2>1. UNCHANGED <<shut, conn>> /\ Ask("close", c)
    BY <1>2 DEF UnregisterReader, channels
  <2> QED
    BY <1>1, <2>1, ReaderGoesOn, ConnUsed, MapAsk DEF ReaderStep
<1>3. CASE ~UnregisterReader(c)
  <2>1. /\ UNCHANGED <<shut, hub>>
        /\ CloseConn(c) \/ CloseSoon(c) \/ UNCHANGED conn
    BY <1>3 DEF ReaderStep, Read, Validate, Identify, Reply, ReadError, CloseReader,
       PongTimeout, channels,
           Push, Panic
  <2> QED
    BY <1>1, <2>1, ReaderGoesOn, ConnUsed, MapFrame
<1> QED
  BY <1>2, <1>3

LEMMA StepMap ==
  ASSUME TypeInv, MapInv, Next
  PROVE  MapInv'
<1>1. ASSUME NEW c \in Conn, Connect(c)
      PROVE  MapInv'
  <2>1. UNCHANGED <<shut, clients, hub, reader>> /\ conn[c] = "unused"
    BY <1>1 DEF Connect, channels
  <2>2. handler[c] = "none"
    BY <2>1 DEF MapInv, StartsInOrder
  <2>3. /\ conn'[c] # "unused"
        /\ \A d \in Conn : d # c => conn'[d] = conn[d]
    BY <1>1 DEF Connect, CloseConn, TypeInv, TypeOK
  <2>4. /\ handler'[c] \in Early
        /\ \A d \in Conn : d # c => handler'[d] = handler[d]
    BY <1>1, <2>2 DEF Connect, Early, TypeInv, TypeOK
  <2> QED
    BY <2>1, <2>2, <2>3, <2>4, MapFrame DEF Early
<1>2. ASSUME NEW c \in Conn, CloseLater(c) \/ TimerStep(c)
      PROVE  MapInv'
  <2>1. /\ UNCHANGED <<shut, clients, hub, reader, handler>>
        /\ CloseConn(c) \/ CloseSoon(c) \/ UNCHANGED conn
    BY <1>2, TrySendShut DEF CloseLater, TimerStep, TimerFires, Notify, channels
  <2> QED
    BY <2>1, ConnUsed, MapFrame
<1>3. ASSUME NEW b \in Browser, Leave(b) \/ SendAnswer(b)
      PROVE  MapInv'
  <2>1. /\ UNCHANGED <<shut, clients, hub, reader, handler>>
        /\ LeaveConn(socket[b]) \/ UNCHANGED conn
    BY <1>3 DEF Leave, SendAnswer, channels
  <2> QED
    BY <2>1, ConnUsed, MapFrame
<1>4. ASSUME NEW e \in Event, Publish(e) \/ EventStep(e)
      PROVE  MapInv'
  <2>1. UNCHANGED <<shut, clients, hub, reader, handler, conn>>
    BY <1>4, TrySendShut
       DEF Publish, EventStep, FindTarget, SendToTarget, LockForAdmins, SendToAdmin, Unlock,
           channels
  <2> QED
    BY <2>1, MapFrame
<1> QED
  BY <1>1, <1>2, <1>3, <1>4, HubMap, WriterMap, ReaderMap DEF Next

LEMMA MapInvInductive == TypeInv /\ MapInv /\ [Next]_vars => MapInv'
<1> SUFFICES ASSUME TypeInv, MapInv, [Next]_vars PROVE MapInv'
  OBVIOUS
<1>1. CASE UNCHANGED vars
  BY <1>1, MapFrame DEF vars, channels
<1> QED
  BY <1>1, StepMap

\* A client's channel is closed exactly when it is out of the map, but for the
\* hub's one step in between (registerClient, unregisterClient).
THEOREM HubMapMatchesChannels == Spec => []MapMatchesChannels
<1>1. Init => TypeInv /\ MapInv
  BY InitType, InitMap
<1>2. (TypeInv /\ MapInv) /\ [Next]_vars => (TypeInv /\ MapInv)'
  BY TypeInvInductive, MapInvInductive
<1>3. TypeInv /\ MapInv => MapMatchesChannels
  BY DEF MapInv
<1> QED
  BY <1>1, <1>2, <1>3, PTL DEF Spec

-----------------------------------------------------------------------------
(* What the channels carry *)

\* A send adds its message to one channel, or nothing.
SentBy(m, c) ==
  \A d \in Conn : Range(send'[d]) \subseteq Range(send[d]) \cup (IF d = c THEN {m} ELSE {})

LEMMA PushSends ==
  ASSUME TypeInv, NEW c \in Conn \cup {NoConn}, NEW m \in Message, Push(c, m)
  PROVE  SentBy(m, c)
<1>1. ASSUME NEW d \in Conn
      PROVE  Range(send'[d]) \subseteq Range(send[d]) \cup (IF d = c THEN {m} ELSE {})
  <2>1. CASE d = c
    <3>1. send'[d] = Append(send[d], m) /\ send[d] \in Seq(Message)
      BY <2>1 DEF Push, TypeInv, TypeOK
    <3> QED
      BY <2>1, <3>1, RangeOfAppend
  <2>2. CASE d # c
    BY <2>2 DEF Push, TypeInv, TypeOK
  <2> QED
    BY <2>1, <2>2
<1> QED
  BY <1>1 DEF SentBy

LEMMA TrySendSends ==
  ASSUME TypeInv, NEW c \in Conn \cup {NoConn}, NEW m \in Message, NEW who, TrySend(c, m, who)
  PROVE  SentBy(m, c)
<1>1. CASE UNCHANGED send
  BY <1>1 DEF SentBy
<1> QED
  BY <1>1, PushSends DEF TrySend, Panic, channels

\* The write pump takes the first message of its channel.
LEMMA WriteTakes ==
  ASSUME TypeInv, NEW c \in Conn, Write(c)
  PROVE  /\ Head(send[c]) \in Range(send[c])
         /\ \A d \in Conn : Range(send'[d]) \subseteq Range(send[d])
<1>1. send[c] \in Seq(Message) /\ send[c] # <<>>
  BY DEF Write, TypeInv, TypeOK
<1>2. /\ send'[c] = Tail(send[c])
      /\ \A d \in Conn : d # c => send'[d] = send[d]
  BY DEF Write, TypeInv, TypeOK
<1>3. Head(send[c]) \in Range(send[c]) /\ Range(Tail(send[c])) \subseteq Range(send[c])
  BY <1>1, RangeOfTail
<1> QED
  BY <1>2, <1>3

-----------------------------------------------------------------------------
(* Answers *)

Sure(c) == status[c] = "authenticated"

\* The invariant: what reaches the browser of an authentication is true, a
\* browser's flag is about the connection it uses, and a connection on which
\* something can arrive is the one its browser uses.
SuccessIsTrue ==
  \A c \in Conn :
    "auth_success" \in Range(send[c]) \/ reader[c] \in {"identify", "auth_success"} => Sure(c)
OpenIsCurrent == \A c \in Conn : IsOpen(c) => socket[BrowserOf[c]] = c
BelievesRight == \A b \in Browser : wsAuthenticated[b] => socket[b] \in Conn /\ Sure(socket[b])
AnswerInv == AnswersAreRouted /\ SuccessIsTrue /\ OpenIsCurrent /\ BelievesRight

LEMMA InitAnswer == Init => AnswerInv
BY HubAssumption
   DEF Init, AnswerInv, AnswersAreRouted, SuccessIsTrue, OpenIsCurrent, BelievesRight, IsOpen,
       Range

\* No step takes an authentication back.
LEMMA StaysSure ==
  ASSUME TypeInv, Next, NEW c \in Conn, Sure(c)
  PROVE  Sure(c)'
<1>1. UNCHANGED status \/ \E d \in Conn : Validate(d)
  BY DEF Next, Connect, PongTimeout, WriterStep, ReaderStep, TimerStep, CloseLater, Leave,
         SendAnswer, Publish, EventStep, HubStep, Register, Write, StopWriting,
         UnregisterHandler, Read, Identify, Reply, ReadError, UnregisterReader, CloseReader,
         TimerFires, Notify, FindTarget, SendToTarget, LockForAdmins, SendToAdmin, Unlock,
         Insert, CloseSend, Delete, identity
<1> QED
  BY <1>1 DEF Sure, Validate, TypeInv, TypeOK

LEMMA StepRouted ==
  ASSUME TypeInv, AnswerInv, Next
  PROVE  AnswersAreRouted'
<1> SUFFICES ASSUME NEW d \in Conn, "api_response" \in Range(uplink'[d])
             PROVE  "api_response" \in Range(uplink[d]) \/ Sure(d)
  BY StaysSure DEF AnswerInv, AnswersAreRouted, Sure
<1>1. ASSUME NEW c \in Conn, Connect(c)
      PROVE  "api_response" \in Range(uplink[d])
  <2>1. uplink'[d] \in {uplink[d], <<"auth_response">>, <<>>}
    BY <1>1 DEF Connect, TypeInv, TypeOK
  <2>2. "api_response" \notin Range(<<"auth_response">>) \cup Range(<<>>)
    BY DEF Range
  <2> QED
    BY <2>1, <2>2
<1>2. ASSUME NEW b \in Browser, SendAnswer(b)
      PROVE  "api_response" \in Range(uplink[d]) \/ Sure(d)
  <2>1. CASE d = socket[b]
    BY <1>2, <2>1 DEF SendAnswer, AnswerInv, BelievesRight
  <2>2. CASE d # socket[b]
    BY <1>2, <2>2 DEF SendAnswer, TypeInv, TypeOK
  <2> QED
    BY <2>1, <2>2
<1>3. ASSUME NEW c \in Conn, Read(c)
      PROVE  "api_response" \in Range(uplink[d])
  <2>1. CASE d = c
    <3>1. /\ uplink[d] \in Seq({"auth_response", "api_response"}) /\ uplink[d] # <<>>
          /\ uplink'[d] = Tail(uplink[d])
      BY <1>3, <2>1 DEF Read, TypeInv, TypeOK
    <3> QED
      BY <3>1, RangeOfTail
  <2>2. CASE d # c
    BY <1>3, <2>2 DEF Read, TypeInv, TypeOK
  <2> QED
    BY <2>1, <2>2
<1>4. CASE UNCHANGED uplink
  BY <1>4
<1>5. \/ UNCHANGED uplink
      \/ \E c \in Conn : Connect(c) \/ Read(c)
      \/ \E b \in Browser : SendAnswer(b)
  BY DEF Next, PongTimeout, WriterStep, ReaderStep, TimerStep, CloseLater, Leave,
         Publish, EventStep, HubStep, Register, Write, StopWriting,
         UnregisterHandler, Validate, Identify, Reply, ReadError, UnregisterReader, CloseReader,
         TimerFires, Notify, FindTarget, SendToTarget, LockForAdmins, SendToAdmin, Unlock,
         Insert, CloseSend, Delete
<1> QED
  BY <1>1, <1>2, <1>3, <1>4, <1>5

LEMMA StepSuccess ==
  ASSUME TypeInv, AnswerInv, Next
  PROVE  SuccessIsTrue'
<1> DEFINE Told(d) == "auth_success" \in Range(send[d]) \/ reader[d] \in {"identify", "auth_success"}
<1> SUFFICES ASSUME NEW d \in Conn, Told(d)'
             PROVE  Told(d) \/ Sure(d)'
  BY StaysSure DEF AnswerInv, SuccessIsTrue
<1>1. ASSUME NEW c \in Conn, WriterStep(c)
      PROVE  Told(d)
  <2>1. CASE Register(c)
    BY <1>1, <2>1 DEF Register, channels, TypeInv, TypeOK
  <2>2. CASE Write(c)
    BY <2>2, WriteTakes DEF Write
  <2>3. CASE StopWriting(c) \/ UnregisterHandler(c)
    BY <2>3 DEF StopWriting, UnregisterHandler, channels
  <2> QED
    BY <1>1, <2>1, <2>2, <2>3 DEF WriterStep
<1>2. ASSUME NEW c \in Conn, ReaderStep(c) \/ PongTimeout(c)
      PROVE  Told(d) \/ Sure(d)'
  <2>1. CASE Read(c)
    BY <2>1 DEF Read, channels, TypeInv, TypeOK
  <2>2. CASE Validate(c)
    BY <2>2 DEF Validate, channels, TypeInv, TypeOK, Sure
  <2>3. CASE Identify(c)
    BY <2>3 DEF Identify, channels, TypeInv, TypeOK
  <2>4. CASE Reply(c)
    <3>1. CASE UNCHANGED <<send, reader>>
      BY <3>1
    <3>2. CASE Push(c, reader[c])
      <4>1. SentBy(reader[c], c)
        BY <2>4, <3>2, PushSends DEF Reply, Message
      <4>2. reader'[d] \in {"identify", "auth_success"} => reader[d] \in {"identify", "auth_success"}
        BY <2>4 DEF Reply, TypeInv, TypeOK
      <4> QED
        BY <4>1, <4>2 DEF SentBy
    <3> QED
      BY <2>4, <3>1, <3>2 DEF Reply, Panic, channels
  <2>5. CASE ReadError(c) \/ PongTimeout(c) \/ UnregisterReader(c) \/ CloseReader(c)
    BY <2>5 DEF ReadError, PongTimeout, UnregisterReader, CloseReader, channels, TypeInv, TypeOK
  <2> QED
    BY <1>2, <2>1, <2>2, <2>3, <2>4, <2>5 DEF ReaderStep
<1>3. ASSUME NEW c \in Conn, TimerStep(c)
      PROVE  Told(d)
  <2>1. CASE TimerFires(c)
    BY <2>1 DEF TimerFires, channels
  <2>2. CASE Notify(c)
    <3>1. SentBy("auth_failure", c) /\ UNCHANGED reader
      BY <2>2, TrySendSends DEF Notify, Message, AuthReply
    <3> QED
      BY <3>1 DEF SentBy
  <2> QED
    BY <1>3, <2>1, <2>2 DEF TimerStep
<1>4. ASSUME NEW e \in Event, Publish(e) \/ EventStep(e)
      PROVE  Told(d)
  <2>1. e # "auth_success" /\ e \in Message
    BY HubAssumption DEF AuthReply, Message
  <2>2. UNCHANGED send \/ \E c \in Conn \cup {NoConn} : SentBy(e, c)
    <3>1. CASE SendToTarget(e)
      BY <2>1, <3>1, TrySendSends DEF SendToTarget, TypeInv, TypeOK
    <3>2. CASE SendToAdmin(e)
      BY <2>1, <3>2, TrySendSends DEF SendToAdmin, TypeInv, TypeOK, channels
    <3> QED
      BY <1>4, <3>1, <3>2 DEF Publish, EventStep, FindTarget, LockForAdmins, Unlock, channels
  <2>3. UNCHANGED reader
    BY <1>4 DEF Publish, EventStep, FindTarget, SendToTarget, LockForAdmins, SendToAdmin, Unlock
  <2> QED
    BY <2>1, <2>2, <2>3 DEF SentBy
<1>5. CASE UNCHANGED <<send, reader>>
  BY <1>5
<1>6. \/ UNCHANGED <<send, reader>>
      \/ \E c \in Conn : WriterStep(c) \/ ReaderStep(c) \/ PongTimeout(c) \/ TimerStep(c)
      \/ \E e \in Event : Publish(e) \/ EventStep(e)
  BY DEF Next, Connect, CloseLater, Leave, SendAnswer, HubStep, Insert, CloseSend, Delete,
         channels
<1> QED
  BY <1>1, <1>2, <1>3, <1>4, <1>5, <1>6

LEMMA StepOpen ==
  ASSUME TypeInv, AnswerInv, Next
  PROVE  OpenIsCurrent'
<1> SUFFICES ASSUME NEW d \in Conn, IsOpen(d)'
             PROVE  socket'[BrowserOf[d]] = d
  BY DEF OpenIsCurrent
<1>1. BrowserOf[d] \in Browser
  BY HubAssumption
<1>2. ASSUME NEW c \in Conn, Connect(c)
      PROVE  socket'[BrowserOf[d]] = d
  <2>1. CASE CloseConn(c) /\ UNCHANGED socket
    BY <2>1 DEF CloseConn, IsOpen, TypeInv, TypeOK, AnswerInv, OpenIsCurrent
  <2>2. CASE conn' = [conn EXCEPT ![c] = "open"] /\ socket' = [socket EXCEPT ![BrowserOf[c]] = c]
    <3>1. CASE d = c
      BY <1>1, <2>2, <3>1 DEF TypeInv, TypeOK
    <3>2. CASE d # c
      <4>1. socket[BrowserOf[d]] = d
        BY <2>2, <3>2 DEF IsOpen, TypeInv, TypeOK, AnswerInv, OpenIsCurrent
      <4>2. BrowserOf[c] # BrowserOf[d]
        BY <1>2, <4>1, HubAssumption DEF Connect
      <4> QED
        BY <1>1, <2>2, <4>1, <4>2 DEF TypeInv, TypeOK
    <3> QED
      BY <3>1, <3>2
  <2> QED
    BY <1>2, <2>1, <2>2 DEF Connect
<1>3. ASSUME NEW b \in Browser, Leave(b)
      PROVE  socket'[BrowserOf[d]] = d
  <2>1. d # socket[b]
    BY <1>3 DEF Leave, LeaveConn, IsOpen, TypeInv, TypeOK
  <2>2. IsOpen(d)
    BY <1>3, <2>1 DEF Leave, LeaveConn, IsOpen, TypeInv, TypeOK
  <2>3. socket[BrowserOf[d]] = d /\ BrowserOf[d] # b
    BY <2>1, <2>2 DEF AnswerInv, OpenIsCurrent
  <2> QED
    BY <1>1, <1>3, <2>3 DEF Leave, TypeInv, TypeOK
<1>4. CASE /\ UNCHANGED socket
           /\ UNCHANGED conn \/ \E c \in Conn : CloseConn(c) \/ CloseSoon(c)
  <2>1. IsOpen(d)
    BY <1>4 DEF CloseConn, CloseSoon, IsOpen, TypeInv, TypeOK
  <2> QED
    BY <1>4, <2>1 DEF AnswerInv, OpenIsCurrent
<1>5. \/ \E c \in Conn : Connect(c)
      \/ \E b \in Browser : Leave(b)
      \/ /\ UNCHANGED socket
         /\ UNCHANGED conn \/ \E c \in Conn : CloseConn(c) \/ CloseSoon(c)
  BY DEF Next, PongTimeout, WriterStep, ReaderStep, TimerStep, CloseLater, SendAnswer,
         Publish, EventStep, HubStep, Register, Write, StopWriting,
         UnregisterHandler, Read, Validate, Identify, Reply, ReadError, UnregisterReader,
         CloseReader,
         TimerFires, Notify, FindTarget, SendToTarget, LockForAdmins, SendToAdmin, Unlock,
         Insert, CloseSend, Delete, browsers
<1> QED
  BY <1>2, <1>3, <1>4, <1>5

LEMMA StepBelieves ==
  ASSUME TypeInv, AnswerInv, Next
  PROVE  BelievesRight'
<1> SUFFICES ASSUME NEW b \in Browser, wsAuthenticated'[b]
             PROVE  socket'[b] \in Conn /\ Sure(socket'[b])
  BY StaysSure DEF BelievesRight, Sure
<1>1. wsAuthenticated[b] => socket[b] \in Conn /\ Sure(socket[b])
  BY DEF AnswerInv, BelievesRight
<1>2. ASSUME NEW c \in Conn, Connect(c)
      PROVE  socket'[b] \in Conn /\ Sure(socket'[b])
  <2>1. wsAuthenticated[b] /\ socket[b] # NoConn
    BY <1>1, <1>2, HubAssumption DEF Connect
  <2>2. socket'[b] = socket[b]
    BY <1>2, <2>1 DEF Connect, TypeInv, TypeOK
  <2> QED
    BY <1>1, <2>1, <2>2
<1>3. ASSUME NEW a \in Browser, Leave(a)
      PROVE  socket'[b] \in Conn /\ Sure(socket'[b])
  BY <1>1, <1>3 DEF Leave, TypeInv, TypeOK
<1>4. ASSUME NEW c \in Conn, Write(c)
      PROVE  socket'[b] \in Conn /\ Sure(socket'[b])
  <2>1. UNCHANGED socket
    BY <1>4 DEF Write
  <2>2. CASE wsAuthenticated[b]
    BY <1>1, <2>1, <2>2
  <2>3. CASE ~wsAuthenticated[b]
    <3>1. IsOpen(c) /\ HandleMessage(c, Head(send[c]))
      BY <1>4, <2>3 DEF Write
    <3>2. b = BrowserOf[c] /\ Head(send[c]) = "auth_success"
      BY <2>3, <3>1 DEF HandleMessage, TypeInv, TypeOK
    <3>3. Sure(c)
      BY <1>4, <3>2, WriteTakes DEF AnswerInv, SuccessIsTrue
    <3>4. socket[b] = c
      BY <3>1, <3>2 DEF AnswerInv, OpenIsCurrent
    <3> QED
      BY <2>1, <3>3, <3>4
  <2> QED
    BY <2>2, <2>3
<1>5. CASE UNCHANGED <<socket, wsAuthenticated>>
  BY <1>1, <1>5
<1>6. \/ \E c \in Conn : Connect(c) \/ Write(c)
      \/ \E a \in Browser : Leave(a)
      \/ UNCHANGED <<socket, wsAuthenticated>>
  BY DEF Next, PongTimeout, WriterStep, ReaderStep, TimerStep, CloseLater, SendAnswer,
         Publish, EventStep, HubStep, Register, StopWriting,
         UnregisterHandler, Read, Validate, Identify, Reply, ReadError, UnregisterReader,
         CloseReader,
         TimerFires, Notify, FindTarget, SendToTarget, LockForAdmins, SendToAdmin, Unlock,
         Insert, CloseSend, Delete, browsers
<1> QED
  BY <1>2, <1>3, <1>4, <1>5, <1>6

LEMMA AnswerInvInductive == TypeInv /\ AnswerInv /\ [Next]_vars => AnswerInv'
<1> SUFFICES ASSUME TypeInv, AnswerInv, [Next]_vars PROVE AnswerInv'
  OBVIOUS
<1>1. CASE UNCHANGED vars
  BY <1>1
     DEF vars, browsers, identity, channels, AnswerInv, AnswersAreRouted, SuccessIsTrue,
         OpenIsCurrent, BelievesRight, Sure, IsOpen
<1> QED
  BY <1>1, StepRouted, StepSuccess, StepOpen, StepBelieves DEF AnswerInv

\* What a browser takes for an authenticated connection is one to the server too
\* (sendMessage, handleUnauthenticatedMessage).
THEOREM HubAnswersAreRouted == Spec => []AnswersAreRouted
<1>1. Init => TypeInv /\ AnswerInv
  BY InitType, InitAnswer
<1>2. (TypeInv /\ AnswerInv) /\ [Next]_vars => (TypeInv /\ AnswerInv)'
  BY TypeInvInductive, AnswerInvInductive
<1>3. TypeInv /\ AnswerInv => AnswersAreRouted
  BY DEF AnswerInv
<1> QED
  BY <1>1, <1>2, <1>3, PTL DEF Spec

-----------------------------------------------------------------------------
(* Events *)

Suits(e, c) == Addressee[e] = TokenOf[c] \/ (Addressee[e] = Admins /\ TokenOf[c] \in Admin)

\* The invariant: an event on its way to a connection suits it too, and so does
\* the connection that an event's goroutine has found.
KnowsUser == \A c \in Conn : user[c] \in {NoUser, TokenOf[c]}
CarriesSuited ==
  \A c \in Conn : \A e \in Event : e \in Range(send[c]) \cup got[c] => Suits(e, c)
TargetsSuited ==
  \A e \in Event :
    /\ task[e] = "send" => target[e] \in Conn /\ Suits(e, target[e])
    /\ task[e] \in {"lock", "admins"} => Addressee[e] = Admins
DeliveryInv == KnowsUser /\ CarriesSuited /\ TargetsSuited

LEMMA InitDelivery == Init => DeliveryInv
BY DEF Init, DeliveryInv, KnowsUser, CarriesSuited, TargetsSuited, Range

LEMMA StepUser ==
  ASSUME TypeInv, DeliveryInv, Next
  PROVE  KnowsUser'
<1>1. UNCHANGED user \/ \E c \in Conn : Identify(c)
  BY DEF Next, Connect, PongTimeout, WriterStep, ReaderStep, TimerStep, CloseLater, Leave,
         SendAnswer, Publish, EventStep, HubStep, Register, Write, StopWriting,
         UnregisterHandler, Read, Validate, Reply, ReadError, UnregisterReader, CloseReader,
         TimerFires, Notify, FindTarget, SendToTarget, LockForAdmins, SendToAdmin, Unlock,
         Insert, CloseSend, Delete, identity
<1> QED
  BY <1>1 DEF Identify, TypeInv, TypeOK, DeliveryInv, KnowsUser

LEMMA StepCarries ==
  ASSUME TypeInv, DeliveryInv, Next
  PROVE  CarriesSuited'
<1> DEFINE Carries(d, f) == f \in Range(send[d]) \cup got[d]
<1> SUFFICES ASSUME NEW d \in Conn, NEW f \in Event, Carries(d, f)'
             PROVE  Carries(d, f) \/ Suits(f, d)
  BY DEF DeliveryInv, CarriesSuited, Suits
<1>1. ASSUME NEW c \in Conn, Write(c)
      PROVE  Carries(d, f)
  <2>1. got'[d] \subseteq got[d] \cup (IF d = c THEN {Head(send[c])} ELSE {})
    BY <1>1 DEF Write, HandleMessage, TypeInv, TypeOK
  <2> QED
    BY <1>1, <2>1, WriteTakes
<1>2. ASSUME NEW c \in Conn, Reply(c) \/ Notify(c)
      PROVE  Carries(d, f)
  <2>1. UNCHANGED got
    BY <1>2 DEF Reply, Notify, browsers
  <2>2. UNCHANGED send \/ \E m \in AuthReply : SentBy(m, c)
    <3>1. CASE Reply(c)
      BY <3>1, PushSends DEF Reply, Panic, channels, Message
    <3>2. CASE Notify(c)
      BY <3>2, TrySendSends DEF Notify, Message, AuthReply
    <3> QED
      BY <1>2, <3>1, <3>2
  <2>3. f \notin AuthReply
    BY HubAssumption
  <2> QED
    BY <2>1, <2>2, <2>3 DEF SentBy
<1>3. ASSUME NEW e \in Event, SendToTarget(e)
      PROVE  Carries(d, f) \/ Suits(f, d)
  <2>1. UNCHANGED got
    BY <1>3 DEF SendToTarget, browsers
  <2>2. SentBy(e, target[e]) /\ target[e] \in Conn /\ Suits(e, target[e])
    BY <1>3, TrySendSends DEF SendToTarget, DeliveryInv, TargetsSuited, Message
  <2> QED
    BY <2>1, <2>2 DEF SentBy
<1>4. ASSUME NEW e \in Event, SendToAdmin(e)
      PROVE  Carries(d, f) \/ Suits(f, d)
  <2>1. UNCHANGED got
    BY <1>4 DEF SendToAdmin, browsers
  <2>2. CASE UNCHANGED send
    BY <2>1, <2>2
  <2>3. CASE ~UNCHANGED send
    <3>1. PICK c \in todo[e] : user[c] \in Admin /\ TrySend(c, e, "event")
      BY <1>4, <2>3 DEF SendToAdmin, channels
    <3>2. c \in Conn
      BY <3>1 DEF TypeInv, TypeOK
    <3>3. SentBy(e, c)
      BY <3>1, <3>2, TrySendSends DEF Message
    <3>4. user[c] = TokenOf[c]
      BY <3>1, <3>2, HubAssumption DEF DeliveryInv, KnowsUser
    <3>5. Addressee[e] = Admins
      BY <1>4 DEF SendToAdmin, DeliveryInv, TargetsSuited
    <3> QED
      BY <2>1, <3>1, <3>3, <3>4, <3>5 DEF SentBy, Suits
  <2> QED
    BY <2>2, <2>3
<1>5. CASE UNCHANGED <<send, got>>
  BY <1>5
<1>6. \/ UNCHANGED <<send, got>>
      \/ \E c \in Conn : Write(c) \/ Reply(c) \/ Notify(c)
      \/ \E e \in Event : SendToTarget(e) \/ SendToAdmin(e)
  BY DEF Next, Connect, PongTimeout, WriterStep, ReaderStep, TimerStep, CloseLater, Leave,
         SendAnswer, Publish, EventStep, HubStep, Register, StopWriting,
         UnregisterHandler, Read, Validate, Identify, ReadError, UnregisterReader, CloseReader,
         TimerFires, FindTarget, LockForAdmins, Unlock,
         Insert, CloseSend, Delete, browsers, channels
<1> QED
  BY <1>1, <1>2, <1>3, <1>4, <1>5, <1>6

LEMMA StepTargets ==
  ASSUME TypeInv, DeliveryInv, Next
  PROVE  TargetsSuited'
<1> SUFFICES ASSUME NEW f \in Event
             PROVE  /\ task'[f] = "send" => target'[f] \in Conn /\ Suits(f, target'[f])
                    /\ task'[f] \in {"lock", "admins"} => Addressee[f] = Admins
  BY DEF TargetsSuited, Suits
<1>1. /\ task[f] = "send" => target[f] \in Conn /\ Suits(f, target[f])
      /\ task[f] \in {"lock", "admins"} => Addressee[f] = Admins
  BY DEF DeliveryInv, TargetsSuited
<1>2. ASSUME NEW e \in Event, Publish(e)
      PROVE  /\ task'[f] = "send" => target'[f] \in Conn /\ Suits(f, target'[f])
             /\ task'[f] \in {"lock", "admins"} => Addressee[f] = Admins
  BY <1>1, <1>2 DEF Publish, TypeInv, TypeOK
<1>3. ASSUME NEW e \in Event, FindTarget(e)
      PROVE  /\ task'[f] = "send" => target'[f] \in Conn /\ Suits(f, target'[f])
             /\ task'[f] \in {"lock", "admins"} => Addressee[f] = Admins
  <2>1. CASE f # e
    BY <1>1, <1>3, <2>1 DEF FindTarget, TypeInv, TypeOK
  <2>2. CASE f = e
    <3>1. CASE UNCHANGED <<task, target>>
      BY <1>1, <3>1
    <3>2. CASE task' = [task EXCEPT ![e] = "done"]
      BY <2>2, <3>2 DEF TypeInv, TypeOK
    <3>3. ASSUME NEW c \in clients, IsFor(c, e), target' = [target EXCEPT ![e] = c],
                 task' = [task EXCEPT ![e] = "send"]
          PROVE  /\ task'[f] = "send" => target'[f] \in Conn /\ Suits(f, target'[f])
                 /\ task'[f] \in {"lock", "admins"} => Addressee[f] = Admins
      <4>1. target'[f] = c /\ task'[f] = "send" /\ c \in Conn
        BY <2>2, <3>3 DEF TypeInv, TypeOK
      <4>2. Addressee[f] = TokenOf[c]
        BY <2>2, <3>3, <4>1, HubAssumption DEF IsFor, DeliveryInv, KnowsUser
      <4> QED
        BY <4>1, <4>2 DEF Suits
    <3> QED
      BY <1>3, <3>1, <3>2, <3>3 DEF FindTarget
  <2> QED
    BY <2>1, <2>2
<1>4. ASSUME NEW e \in Event, SendToTarget(e) \/ LockForAdmins(e) \/ SendToAdmin(e) \/ Unlock(e)
      PROVE  /\ task'[f] = "send" => target'[f] \in Conn /\ Suits(f, target'[f])
             /\ task'[f] \in {"lock", "admins"} => Addressee[f] = Admins
  BY <1>1, <1>4 DEF SendToTarget, LockForAdmins, SendToAdmin, Unlock, TypeInv, TypeOK
<1>5. CASE UNCHANGED <<task, target>>
  BY <1>1, <1>5
<1>6. UNCHANGED <<task, target>> \/ \E e \in Event : Publish(e) \/ EventStep(e)
  BY DEF Next, Connect, PongTimeout, WriterStep, ReaderStep, TimerStep, CloseLater, Leave,
         SendAnswer, HubStep, Register, Write, StopWriting,
         UnregisterHandler, Read, Validate, Identify, Reply, ReadError, UnregisterReader,
         CloseReader,
         TimerFires, Notify, Insert, CloseSend, Delete, events
<1> QED
  BY <1>2, <1>3, <1>4, <1>5, <1>6 DEF EventStep

LEMMA DeliveryInvInductive == TypeInv /\ DeliveryInv /\ [Next]_vars => DeliveryInv'
<1> SUFFICES ASSUME TypeInv, DeliveryInv, [Next]_vars PROVE DeliveryInv'
  OBVIOUS
<1>1. CASE UNCHANGED vars
  BY <1>1
     DEF vars, browsers, identity, channels, events, DeliveryInv, KnowsUser, CarriesSuited,
         TargetsSuited, Suits
<1> QED
  BY <1>1, StepUser, StepCarries, StepTargets DEF DeliveryInv

\* A browser receives only the events of the user it connected as, or those for
\* the administrators if that is one (sendToSpecificUser, sendToAdminUsers).
THEOREM HubPrivateDelivery == Spec => []PrivateDelivery
<1>1. Init => TypeInv /\ DeliveryInv
  BY InitType, InitDelivery
<1>2. (TypeInv /\ DeliveryInv) /\ [Next]_vars => (TypeInv /\ DeliveryInv)'
  BY TypeInvInductive, DeliveryInvInductive
<1>3. TypeInv /\ DeliveryInv => PrivateDelivery
  BY DEF TypeInv, TypeOK, DeliveryInv, CarriesSuited, PrivateDelivery, Suits
<1> QED
  BY <1>1, <1>2, <1>3, PTL DEF Spec

=============================================================================
