---------------------------- MODULE ServerProofs ----------------------------
(***************************************************************************)
(* Proofs about the server, for any number of connections, requests, rooms *)
(* and descriptors.                                                        *)
(***************************************************************************)
EXTENDS ServerProperties, SequenceTheorems, WellFoundedInduction, TLAPS

----------------------------------------------------------------------------
(* Chat.                                                                   *)

\* A non-empty set of naturals has a least element.
LEMMA LeastNat ==
    ASSUME NEW T, T \subseteq Nat, T # {}
    PROVE  \E x \in T : \A y \in T : x <= y
<1> DEFINE R == OpToRel(<, Nat)
<1>1. \E x \in T : \A y \in T : ~ (<<y, x>> \in R)
    BY NatLessThanWellFounded, WFMin, Zenon
<1>2. \A x, y \in Nat : x < y => <<x, y>> \in R
    BY DEF OpToRel
<1>3. PICK x \in T : \A y \in T : ~ (<<y, x>> \in R)
    BY <1>1
<1>4. \A y \in T : ~ (y < x)
    BY <1>2, <1>3, Zenon
<1> QED BY <1>4

\* What CString (Database.cpp's conversion from a C string) returns: a string
\* of bytes that is no longer than the blob and a prefix of it.
LEMMA CStringPrefix ==
    ASSUME NEW blob \in Seq(Byte)
    PROVE  /\ CString(blob) \in Seq(Byte)
           /\ Len(CString(blob)) <= Len(blob)
           /\ \A k \in 1..Len(CString(blob)) : CString(blob)[k] = blob[k]
<1> DEFINE P(n) == /\ \A k \in 1..n : blob[k] # 0
                   /\ n < Len(blob) => blob[n + 1] = 0
           n0 == CHOOSE n \in 0..Len(blob) : P(n)
           T == {n \in 0..Len(blob) : n < Len(blob) => blob[n + 1] = 0}
<1>1. T \subseteq Nat /\ Len(blob) \in T
    OBVIOUS
<1>2. PICK n \in T : \A m \in T : n <= m
    BY <1>1, LeastNat
<1>3. ASSUME NEW k \in 1..n PROVE blob[k] # 0
    <2>1. k - 1 \in 0..Len(blob) /\ k - 1 < n /\ k - 1 < Len(blob)
        BY <1>2
    <2>2. k - 1 \notin T
        BY <2>1, <1>2
    <2> QED BY <2>1, <2>2
<1>4. n \in 0..Len(blob) /\ P(n)
    BY <1>2, <1>3
<1>5. n0 \in 0..Len(blob)
    <2> HIDE DEF P
    <2> QED BY <1>4
<1>6. CString(blob) = SubSeq(blob, 1, n0)
    BY DEF CString
<1> HIDE DEF n0
<1> QED BY <1>5, <1>6, SubSeqProperties

\* A digest is a string of DigestLen bytes.
LEMMA DigestIsString ==
    ASSUME NEW d \in Digest
    PROVE  d \in Seq(Byte) /\ Len(d) = DigestLen
<1>1. d \in [1..DigestLen -> Byte] /\ DigestLen \in Nat
    BY ChatAssumption DEF Digest
<1>2. d = [i \in 1..DigestLen |-> d[i]]
    BY <1>1
<1> QED BY <1>1, <1>2

\* Database::loadRooms gives a registry of the right type, however early the
\* SELECT ends.
LEMMA LoadedRoomsType ==
    ASSUME NEW rooms \in LoadedRooms
    PROVE  IsChatRooms(rooms)
<1> DEFINE Row == [id : RoomID, name : Name,
                   password_hash : Digest \cup {NULL}]
<1>1. ChatRoomsTable \in Seq(Row)
    BY ChatAssumption DEF LegalTable
<1>2. PICK n \in 0..Len(ChatRoomsTable) :
            rooms = LoadRooms(SubSeq(ChatRoomsTable, 1, n))
    BY DEF LoadedRooms
<1> DEFINE rows == SubSeq(ChatRoomsTable, 1, n)
<1>3. rows \in Seq(Row)
    <2> HIDE DEF Row
    <2> QED BY <1>1, SubSeqProperties
<1>4. DOMAIN rooms = {rows[i].id : i \in 1..Len(rows)}
    BY <1>2 DEF LoadRooms
<1>5. \A i \in 1..Len(rows) : rows[i] \in Row
    <2> HIDE DEF rows
    <2> QED BY <1>3, ElementOfSeq
<1>6. ASSUME NEW r \in DOMAIN rooms PROVE rooms[r] \in ChatRoom
    <2> DEFINE i0 == CHOOSE i \in 1..Len(rows) : rows[i].id = r
    <2>1. i0 \in 1..Len(rows)
        <3> HIDE DEF rows
        <3> QED BY <1>4
    <2>2. rows[i0] \in Row
        BY <1>5, <2>1
    <2>3. rows[i0].password_hash \in Seq(Byte)
        <3>1. \A d \in Digest : d \in Seq(Byte)
            BY DigestIsString
        <3>2. NULL \in Seq(Byte)
            BY EmptySeq DEF NULL
        <3> HIDE DEF i0, rows
        <3> QED BY <2>2, <3>1, <3>2
    <2>4. rooms[r] = [name |-> rows[i0].name,
                      passwordHash |-> CString(rows[i0].password_hash)]
        BY <1>2, <1>4 DEF LoadRooms
    <2> HIDE DEF i0, rows
    <2> QED BY <2>2, <2>3, <2>4, CStringPrefix DEF ChatRoom
<1> HIDE DEF rows
<1> QED BY <1>4, <1>5, <1>6 DEF IsChatRooms

\* operator[] keeps the type of m_ChatRooms and the rooms that are there; a room
\* it inserts has no password.
LEMMA SubscriptedRooms ==
    ASSUME NEW rooms, IsChatRooms(rooms), NEW r \in RoomID
    PROVE  /\ IsChatRooms(Subscripted(rooms, r))
           /\ \A q \in DOMAIN rooms : /\ q \in DOMAIN Subscripted(rooms, r)
                                      /\ Subscripted(rooms, r)[q] = rooms[q]
           /\ DOMAIN Subscripted(rooms, r) = DOMAIN rooms \cup {r}
           /\ r \notin DOMAIN rooms =>
                    Subscripted(rooms, r)[r].passwordHash = << >>
<1>1. << >> \in Seq(Byte)
    BY EmptySeq
<1>2. [name |-> "", passwordHash |-> << >>] \in ChatRoom
    BY <1>1, ChatAssumption DEF ChatRoom
<1> QED BY <1>2 DEF IsChatRooms, Subscripted

----------------------------------------------------------------------------
(* Types.                                                                  *)

\* Delivered appends packets, so it keeps the type of the packets received.
LEMMA DeliveredType ==
    ASSUME outq \in [Conn -> Seq(Packet)],
           NEW c, NEW direct \in Seq(Packet), NEW fan \in Seq(Packet), NEW to
    PROVE  Delivered(c, direct, fan, to) \in [Conn -> Seq(Packet)]
<1> SUFFICES ASSUME NEW d \in Conn
             PROVE  Delivered(c, direct, fan, to)[d] \in Seq(Packet)
    BY DEF Delivered
<1>1. outq[d] \in Seq(Packet) /\ << >> \in Seq(Packet)
    BY EmptySeq
<1>2. \A s, t \in Seq(Packet) : s \o t \in Seq(Packet)
    BY ConcatProperties
<1> HIDE DEF Packet
<1> QED BY <1>1, <1>2, Zenon DEF Delivered

\* A write changes the state of the other end, if at all, from "fin" to "rst".
LEMMA PeerAfterWritesType ==
    ASSUME peer \in [Conn -> PeerState], NEW to, NEW p \in PeerAfterWrites(to)
    PROVE  /\ p \in [Conn -> PeerState]
           /\ \A c \in Conn : p[c] = "none" <=> peer[c] = "none"
    BY DEF PeerAfterWrites, PeerState

\* What the writes of a handler leave behind.
SendEffect ==
    /\ outq' \in [Conn -> Seq(Packet)]
    /\ peer' \in [Conn -> PeerState]
    /\ \A c \in Conn : peer'[c] = "none" <=> peer[c] = "none"
    /\ it' \in {it, it + 1}
    /\ pc' \in {pc, "killed", "aborted"}

\* HandlerSends, whether it survives its writes or is killed by one.
LEMMA HandlerSendsEffect ==
    ASSUME NetTypeOK,
           NEW c, NEW direct \in Seq(Packet), NEW fan \in Seq(Packet), NEW to,
           HandlerSends(c, direct, fan, to)
    PROVE  SendEffect
<1> USE DEF NetTypeOK
<1>1. \A e : Delivered(c, direct, fan, e) \in [Conn -> Seq(Packet)]
    BY DeliveredType
<1>2. \A e : \A p \in PeerAfterWrites(e) :
            /\ p \in [Conn -> PeerState]
            /\ \A d \in Conn : p[d] = "none" <=> peer[d] = "none"
    BY PeerAfterWritesType
<1> DEFINE targets == to \cup (IF direct = << >> THEN {} ELSE {c})
<1>3. CASE /\ outq' = Delivered(c, direct, fan, to)
           /\ peer' \in PeerAfterWrites(targets)
           /\ it' = it + 1
           /\ pc' = pc
    BY <1>1, <1>2, <1>3, Zenon DEF SendEffect
<1>4. CASE Killed /\ UNCHANGED <<outq, peer>>
    BY <1>4, Zenon DEF SendEffect, Killed
<1>5. CASE /\ \E d \in to : outq' = Delivered(c, direct, fan, Earlier(to, d))
           /\ Killed
           /\ UNCHANGED peer
    BY <1>1, <1>5, Zenon DEF SendEffect, Killed
<1> QED BY <1>3, <1>4, <1>5, Zenon DEF HandlerSends

\* Every packet a handler builds is a Packet.
LEMMA PacketKinds ==
    /\ \A op \in {"SMSG_MOTD", "SMSG_PONG", "SMSG_UPTIME", "SMSG_SAY_OK",
                  "Invalid packet."} : [op |-> op] \in Packet
    /\ \A tag \in Tag :
        /\ \A op \in {"SMSG_ECHO_REQUEST", "SMSG_ADDITION_REQUEST",
                      "SMSG_BROADCAST"} : [op |-> op, msg |-> tag] \in Packet
        /\ \A room \in RoomID :
                [op |-> "SMSG_SAY", msg |-> tag, room |-> room] \in Packet
        /\ \A id \in Nat : [op |-> "SMSG_PRIVATE_MESSAGE", from |-> id,
                            msg |-> tag] \in Packet
    /\ \A error \in eChatErr :
        /\ \A op \in {"SMSG_PRIVATE_MSG_ERR", "SMSG_JOIN_CHAT_ROOM_ERR",
                      "SMSG_SAY_ERR"} : [op |-> op, error |-> error] \in Packet
        /\ \A list \in Seq([clientID : Nat, you : BOOLEAN]) :
                [op |-> "SMSG_CLIENT_LIST", error |-> error, list |-> list]
                    \in Packet
    /\ \A value \in Nat : [op |-> "SMSG_COUNTER", value |-> value] \in Packet
    /\ \A room \in RoomID :
            [op |-> "SMSG_JOIN_CHAT_ROOM_OK", room |-> room] \in Packet
    /\ \A text \in {"Unknown or unhandled opcode.", "No joined room",
                    "Invalid room"} :
            [op |-> "SMSG_MESSAGE", text |-> text] \in Packet
    /\ \A name \in Name : [op |-> "SMSG_MESSAGE", joined |-> name] \in Packet
    /\ \A rooms \in SUBSET [id : RoomID, name : Name, open : BOOLEAN] :
            [op |-> "SMSG_MESSAGE", rooms |-> rooms] \in Packet
    BY DEF Packet

\* One packet to the client being served.
LEMMA ReplyEffect ==
    ASSUME NetTypeOK, NEW c, NEW packet \in Packet, Reply(c, packet)
    PROVE  SendEffect
<1> HIDE DEF Packet
<1>1. <<packet>> \in Seq(Packet) /\ << >> \in Seq(Packet)
    OBVIOUS
<1>2. HandlerSends(c, <<packet>>, << >>, {})
    BY DEF Reply
<1> QED BY <1>1, <1>2, HandlerSendsEffect

\* What a handler leaves behind: types hold, and the vector keeps its clients,
\* each with its descriptor, session and ID.
HandlerEffect ==
    /\ SendEffect
    /\ m_ClientSocket' \in Seq(ClientSocket)
    /\ Len(m_ClientSocket') = Len(m_ClientSocket)
    /\ \A j \in 1..Len(m_ClientSocket) :
            /\ m_ClientSocket'[j].socket = m_ClientSocket[j].socket
            /\ m_ClientSocket'[j].ssl = m_ClientSocket[j].ssl
            /\ m_ClientSocket'[j].clientID = m_ClientSocket[j].clientID
    /\ IsChatRooms(m_ChatRooms')
    /\ m_Counter' \in 0..(CounterMod - 1)

\* Every handler of CallHandler, and the answer to a record without opcode.
LEMMA HandlersHaveEffect ==
    ASSUME NetTypeOK, HandlerTypeOK, it <= Len(m_ClientSocket),
           NEW r \in Request, NEW tag \in Tag,
           CallHandler(it, r, tag) \/ InvalidPacket(it)
    PROVE  HandlerEffect
<1> DEFINE quiet == UNCHANGED <<m_ClientSocket, m_ChatRooms, m_Counter>>
           c == client(it).ssl
<1>1. it \in 1..Len(m_ClientSocket) /\ client(it) \in ClientSocket
    BY ElementOfSeq DEF HandlerTypeOK, client
<1>2. ASSUME SendEffect, quiet PROVE HandlerEffect
    BY <1>2 DEF HandlerEffect, HandlerTypeOK
<1>3. ASSUME NEW d, NEW packet \in Packet, Reply(d, packet), quiet
      PROVE  HandlerEffect
    BY <1>2, <1>3, ReplyEffect, Zenon
<1>4. ASSUME NoReply PROVE SendEffect
    BY <1>4 DEF NoReply, SendEffect, NetTypeOK
<1>5. /\ client(it).clientID \in Nat
      /\ client(it).joinedChatRoomID \in RoomID
    BY <1>1 DEF ClientSocket
<1>s. \A p \in Packet : <<p>> \in Seq(Packet) /\ << >> \in Seq(Packet)
    <2> HIDE DEF Packet
    <2> QED OBVIOUS
<1>e. {"ERR_OK", "ERR_INVALID_ROOM", "ERR_INVALID_ROOM_PASSWORD",
       "ERR_NO_ROOM_JOINED", "ERR_NO_CLIENT_FOUND", "ERR_MSG_TO_SELF",
       "ERR_TOO_MUCH_CLIENTS"} \subseteq eChatErr
    BY DEF eChatErr
<1>10. CASE CallHandlerEcho(it, tag)
    BY <1>3, <1>10, PacketKinds DEF CallHandlerEcho
<1>11. CASE CallHandlerAdd(it, tag)
    BY <1>3, <1>11, PacketKinds DEF CallHandlerAdd
<1>12. CASE CallHandlerAddThrows
    BY <1>2, <1>12 DEF CallHandlerAddThrows, SendEffect, NetTypeOK
<1>13. CASE CallHandlerBroadcast(it, tag)
    <2>1. [op |-> "SMSG_BROADCAST", msg |-> tag] \in Packet
        BY PacketKinds
    <2>2. SendEffect
        BY <1>13, <1>s, <2>1, HandlerSendsEffect DEF CallHandlerBroadcast
    <2> QED BY <1>2, <1>13, <2>2 DEF CallHandlerBroadcast
<1>14. CASE CallHandlerGetClientList(it)
    <2>1. ClientList(it) \in Seq([clientID : Nat, you : BOOLEAN])
        <3>1. \A j \in 1..Len(m_ClientSocket) : client(j).clientID \in Nat
            <4>1. \A j \in 1..Len(m_ClientSocket) : client(j) \in ClientSocket
                BY ElementOfSeq DEF HandlerTypeOK, client
            <4> QED BY <4>1 DEF ClientSocket
        <3>2. Len(m_ClientSocket) \in Nat
            BY LenProperties DEF HandlerTypeOK
        <3> DEFINE Entry == [clientID : Nat, you : BOOLEAN]
        <3>3. \A j \in 1..Len(m_ClientSocket) :
                [clientID |-> client(j).clientID,
                 you |-> client(j).clientID = client(it).clientID] \in Entry
            BY <3>1
        <3> HIDE DEF Entry
        <3>4. ClientList(it) \in Seq(Entry)
            BY <3>2, <3>3 DEF ClientList
        <3> QED BY <3>4 DEF Entry
    <2>2. << >> \in Seq([clientID : Nat, you : BOOLEAN])
        BY EmptySeq
    <2>3. \A b \in BOOLEAN :
            [op |-> "SMSG_CLIENT_LIST",
             error |-> IF b THEN "ERR_OK" ELSE "ERR_TOO_MUCH_CLIENTS",
             list |-> IF b THEN ClientList(it) ELSE << >>] \in Packet
        BY <1>e, <2>1, <2>2, PacketKinds
    <2> QED BY <1>3, <1>14, <2>3 DEF CallHandlerGetClientList
<1>15. ASSUME NEW id, CallHandlerMsgToClient(it, tag, id)
       PROVE  HandlerEffect
    <2>1. \A error \in eChatErr :
            [op |-> "SMSG_PRIVATE_MSG_ERR", error |-> error] \in Packet
        BY PacketKinds
    <2>2. [op |-> "SMSG_PRIVATE_MESSAGE", from |-> client(it).clientID,
           msg |-> tag] \in Packet
        BY <1>5, PacketKinds
    <2>3. SendEffect
        BY <1>15, <1>s, <1>e, <2>1, <2>2, HandlerSendsEffect
        DEF CallHandlerMsgToClient
    <2> QED BY <1>2, <1>15, <2>3 DEF CallHandlerMsgToClient
<1>16. CASE CallHandlerPong(it)
    BY <1>3, <1>16, PacketKinds DEF CallHandlerPong
<1>17. CASE CallHandlerUptime(it)
    BY <1>3, <1>17, PacketKinds DEF CallHandlerUptime
<1>18. CASE incrementCounter
    <2>1. m_Counter' \in 0..(CounterMod - 1)
        BY <1>18, HandlersAssumption DEF incrementCounter, HandlerTypeOK
    <2> QED BY <1>4, <1>18, <2>1
            DEF incrementCounter, HandlerEffect, HandlerTypeOK
<1>19. CASE CallHandlerGetCounter(it)
    <2>1. m_Counter \in Nat
        BY HandlersAssumption DEF HandlerTypeOK
    <2> QED BY <1>3, <1>19, <2>1, PacketKinds DEF CallHandlerGetCounter
<1>20. CASE CallHandlerGetChatRooms(it)
    <2>1. getChatRoomsStr(m_ChatRooms)
            \in SUBSET [id : RoomID, name : Name, open : BOOLEAN]
        <3>1. \A q \in DOMAIN m_ChatRooms :
                q \in RoomID /\ m_ChatRooms[q].name \in Name
            BY DEF HandlerTypeOK, IsChatRooms, ChatRoom
        <3> DEFINE Entry == [id : RoomID, name : Name, open : BOOLEAN]
        <3>2. \A q \in DOMAIN m_ChatRooms :
                [id |-> q, name |-> m_ChatRooms[q].name,
                 open |-> m_ChatRooms[q].passwordHash = << >>] \in Entry
            BY <3>1
        <3> HIDE DEF Entry
        <3>3. getChatRoomsStr(m_ChatRooms) \in SUBSET Entry
            BY <3>2, Zenon DEF getChatRoomsStr
        <3> QED BY <3>3 DEF Entry
    <2> QED BY <1>3, <1>20, <2>1, PacketKinds DEF CallHandlerGetChatRooms
<1>21. CASE CallHandlerGetRoominfo(it)
    <2> DEFINE roomID == client(it).joinedChatRoomID
    <2>1. checkRoomID(m_ChatRooms, roomID) =>
            getRoomName(m_ChatRooms, roomID) \in Name
        BY DEF checkRoomID, getRoomName, HandlerTypeOK, IsChatRooms, ChatRoom
    <2>2. PICK packet \in Packet : Reply(c, packet)
        BY <1>21, <2>1, PacketKinds DEF CallHandlerGetRoominfo
    <2> QED BY <1>3, <1>21, <2>2 DEF CallHandlerGetRoominfo
<1>22. CASE CallHandlerJoinRoom(it, r) /\ r.room \in RoomID
    <2>1. IsChatRooms(m_ChatRooms') /\ m_Counter' = m_Counter
        BY <1>22, SubscriptedRooms DEF CallHandlerJoinRoom, HandlerTypeOK
    <2>2. PICK error \in JoinErrors(r) :
            \/ /\ error = "ERR_OK"
               /\ m_ClientSocket' = [m_ClientSocket EXCEPT
                    ![it].joinedChatRoomID = r.room,
                    ![it].chatRoomJoined = TRUE]
               /\ Reply(c, [op |-> "SMSG_JOIN_CHAT_ROOM_OK", room |-> r.room])
            \/ /\ error # "ERR_OK"
               /\ UNCHANGED m_ClientSocket
               /\ Reply(c, [op |-> "SMSG_JOIN_CHAT_ROOM_ERR", error |-> error])
        BY <1>22 DEF CallHandlerJoinRoom
    <2>3. error \in eChatErr
        BY <1>e DEF JoinErrors
    <2>4. PICK packet \in Packet : Reply(c, packet)
        BY <1>22, <2>2, <2>3, PacketKinds
    <2>5. SendEffect
        BY <2>4, ReplyEffect
    <2>6. /\ m_ClientSocket' \in Seq(ClientSocket)
          /\ Len(m_ClientSocket') = Len(m_ClientSocket)
          /\ \A j \in 1..Len(m_ClientSocket) :
            /\ m_ClientSocket'[j].socket = m_ClientSocket[j].socket
            /\ m_ClientSocket'[j].ssl = m_ClientSocket[j].ssl
            /\ m_ClientSocket'[j].clientID = m_ClientSocket[j].clientID
        <3>1. CASE UNCHANGED m_ClientSocket
            BY <3>1 DEF HandlerTypeOK
        <3>2. CASE m_ClientSocket' = [m_ClientSocket EXCEPT
                    ![it].joinedChatRoomID = r.room,
                    ![it].chatRoomJoined = TRUE]
            <4> DEFINE e == [m_ClientSocket[it] EXCEPT
                        !.joinedChatRoomID = r.room, !.chatRoomJoined = TRUE]
            <4>1. m_ClientSocket[it] \in ClientSocket
                BY <1>1 DEF client
            <4>2. /\ e \in ClientSocket
                  /\ e.socket = m_ClientSocket[it].socket
                  /\ e.ssl = m_ClientSocket[it].ssl
                  /\ e.clientID = m_ClientSocket[it].clientID
                BY <1>22, <4>1 DEF ClientSocket
            <4>3. m_ClientSocket' = [m_ClientSocket EXCEPT ![it] = e]
                BY <1>1, <3>2 DEF HandlerTypeOK
            <4> HIDE DEF e
            <4> QED BY <1>1, <4>2, <4>3, ExceptSeq DEF HandlerTypeOK
        <3> QED BY <2>2, <3>1, <3>2
    <2> QED BY <2>1, <2>5, <2>6 DEF HandlerEffect, HandlerTypeOK
<1>23. CASE CallHandlerSay(it, tag)
    <2> DEFINE roomID == client(it).joinedChatRoomID
    <2>1. /\ [op |-> "SMSG_SAY_OK"] \in Packet
          /\ [op |-> "SMSG_SAY", msg |-> tag, room |-> roomID] \in Packet
          /\ \A error \in eChatErr :
                [op |-> "SMSG_SAY_ERR", error |-> error] \in Packet
        BY <1>5, PacketKinds
    <2>2. SendEffect
        BY <1>23, <1>s, <1>e, <2>1, HandlerSendsEffect, ReplyEffect
        DEF CallHandlerSay
    <2> QED BY <1>2, <1>23, <2>2 DEF CallHandlerSay
<1>24. CASE UnknownOpcode(it)
    BY <1>3, <1>24, PacketKinds DEF UnknownOpcode
<1>25. CASE LengthRefused
    BY <1>2, <1>4, <1>25 DEF LengthRefused
<1>26. CASE InvalidPacket(it)
    BY <1>3, <1>26, PacketKinds DEF InvalidPacket
<1>27. r.op = "CMSG_JOIN_ROOM" => r.room \in RoomID
    BY RequestAssumption DEF PlainRequest, JoinRequest, PrivateRequest
<1> QED
    BY <1>10, <1>11, <1>12, <1>13, <1>14, <1>15, <1>16, <1>17, <1>18, <1>19,
       <1>20, <1>21, <1>22, <1>23, <1>24, <1>25, <1>26, <1>27, Zenon
    DEF CallHandler

\* A step of clients or the network.
LEMMA NetStepType ==
    ASSUME NetTypeOK, NEW c \in Conn,
           Connect(c) \/ SendHead(c) \/ (\E r \in Request : Send(c, r))
             \/ Stall(c) \/ Close(c)
    PROVE  NetTypeOK'
<1> USE DEF NetTypeOK
<1> HIDE DEF Packet
<1>1. CASE Connect(c)
    BY <1>1, AppendProperties DEF Connect, PeerState
<1>2. CASE SendHead(c)
    BY <1>2 DEF SendHead
<1>3. ASSUME NEW r \in Request, Send(c, r) PROVE NetTypeOK'
    <2>1. /\ Append(sent[c], r) \in Seq(Request)
          /\ Len(Append(sent[c], r)) = Len(sent[c]) + 1
        BY AppendProperties
    <2>2. /\ sent' = [sent EXCEPT ![c] = Append(sent[c], r)]
          /\ partial' = [partial EXCEPT ![c] = FALSE]
          /\ UNCHANGED <<backlog, peer, read, outq>>
        BY <1>3 DEF Send
    <2>3. \A d \in Conn : Len(sent[d]) \in Nat
        BY LenProperties
    <2> QED BY <2>1, <2>2, <2>3
<1>4. CASE Stall(c)
    BY <1>4 DEF Stall, PeerState
<1>5. CASE Close(c)
    BY <1>5 DEF Close, PeerState
<1> QED BY <1>1, <1>2, <1>3, <1>4, <1>5

\* Erased removes one element of the vector and shifts the later ones.
LEMMA ErasedProperties ==
    ASSUME m_ClientSocket \in Seq(ClientSocket),
           NEW i \in 1..Len(m_ClientSocket)
    PROVE  /\ Erased(i) \in Seq(ClientSocket)
           /\ Len(Erased(i)) = Len(m_ClientSocket) - 1
           /\ \A k \in 1..Len(Erased(i)) :
                Erased(i)[k] = m_ClientSocket[IF k < i THEN k ELSE k + 1]
<1> DEFINE n == Len(m_ClientSocket)
           a == SubSeq(m_ClientSocket, 1, i - 1)
           b == SubSeq(m_ClientSocket, i + 1, n)
<1>0. n \in Nat /\ i \in Int
    BY LenProperties
<1>1. /\ a \in Seq(ClientSocket) /\ Len(a) = i - 1
      /\ \A k \in 1..(i - 1) : a[k] = m_ClientSocket[k]
    BY <1>0
<1>2. /\ b \in Seq(ClientSocket) /\ Len(b) = n - i
      /\ \A k \in 1..(n - i) : b[k] = m_ClientSocket[i + k]
    BY <1>0
<1>3. Erased(i) = a \o b
    BY DEF Erased
<1> HIDE DEF a, b
<1>4. /\ a \o b \in Seq(ClientSocket)
      /\ Len(a \o b) = n - 1
      /\ \A k \in 1..(n - 1) :
            (a \o b)[k] = IF k <= Len(a) THEN a[k] ELSE b[k - Len(a)]
    <2>1. /\ a \o b \in Seq(ClientSocket)
          /\ Len(a \o b) = Len(a) + Len(b)
          /\ \A k \in 1..(Len(a) + Len(b)) :
                (a \o b)[k] = IF k <= Len(a) THEN a[k] ELSE b[k - Len(a)]
        BY <1>1, <1>2, ConcatProperties
    <2>2. Len(a) + Len(b) = n - 1
        BY <1>0, <1>1, <1>2
    <2> QED BY <2>1, <2>2
<1>5. ASSUME NEW k \in 1..(n - 1)
      PROVE  (a \o b)[k] = m_ClientSocket[IF k < i THEN k ELSE k + 1]
    <2>1. CASE k < i
        BY <1>0, <1>1, <1>4, <2>1
    <2>2. CASE ~(k < i)
        <3>1. k - (i - 1) \in 1..(n - i) /\ i + (k - (i - 1)) = k + 1
            BY <1>0, <2>2
        <3> QED BY <1>0, <1>1, <1>2, <1>4, <2>2, <3>1
    <2> QED BY <2>1, <2>2
<1> QED BY <1>3, <1>4, <1>5

\* The initial state is well typed.
LEMMA TypeInit == Init => TypeOK
<1> SUFFICES ASSUME Init PROVE TypeOK
    OBVIOUS
<1> USE DEF Init, NetInit
<1>1. NetTypeOK
    <2>1. \A S : << >> \in Seq(S) /\ Len(<< >>) = 0
        BY EmptySeq
    <2> HIDE DEF Packet
    <2> QED BY <2>1 DEF NetTypeOK, PeerState
<1>2. HandlerTypeOK
    <2>1. << >> \in Seq(ClientSocket) /\ Len(<< >>) = 0
        BY EmptySeq
    <2>2. IsChatRooms(m_ChatRooms)
        BY LoadedRoomsType
    <2>3. m_Counter \in 0..(CounterMod - 1)
        BY HandlersAssumption
    <2> QED BY <2>1, <2>2, <2>3 DEF HandlerTypeOK
<1>3. LoopTypeOK
    <2>1. newClient \in Seq(ClientSocket) /\ Len(newClient) = 0
        BY EmptySeq
    <2>2. DOMAIN sock = {} /\ DOMAIN idOf = {}
        OBVIOUS
    <2>3. /\ m_Readfds = {} /\ pc = "pool" /\ m_UniqueCLientCounter = 0
          /\ closingRequested = FALSE /\ m_ServerState = "STARTED"
        OBVIOUS
    <2> HIDE DEF Init
    <2> QED BY <2>1, <2>2, <2>3 DEF LoopTypeOK
<1> QED BY <1>1, <1>2, <1>3 DEF TypeOK

\* Every step keeps the types.
LEMMA TypeNext == TypeOK /\ [Next]_vars => TypeOK'
<1> SUFFICES ASSUME TypeOK, [Next]_vars PROVE TypeOK'
    OBVIOUS
<1> USE DEF TypeOK
<1> HIDE DEF Packet, ClientSocket
<1>n. UNCHANGED netVars => NetTypeOK'
    BY DEF netVars, NetTypeOK
<1>l. Len(m_ClientSocket) \in Nat /\ it \in Nat
    BY LenProperties DEF HandlerTypeOK
<1>1. CASE PoolActivity
    <2>1. Ready \subseteq Fd \cup {m_MasterSocket}
        <3>1. \A i \in 1..Len(m_ClientSocket) : m_ClientSocket[i].socket \in Fd
            <4>1. \A i \in 1..Len(m_ClientSocket) :
                        m_ClientSocket[i] \in ClientSocket
                BY ElementOfSeq DEF HandlerTypeOK
            <4> QED BY <4>1 DEF ClientSocket
        <3> QED BY <3>1 DEF Ready, Selected, Watched
    <2> QED BY <1>1, <1>n, <2>1 DEF PoolActivity, HandlerTypeOK, LoopTypeOK
<1>2. CASE PoolInterrupted
    <2>1. Watched \subseteq Fd \cup {m_MasterSocket}
        <3>1. \A i \in 1..Len(m_ClientSocket) : m_ClientSocket[i].socket \in Fd
            <4>1. \A i \in 1..Len(m_ClientSocket) :
                        m_ClientSocket[i] \in ClientSocket
                BY ElementOfSeq DEF HandlerTypeOK
            <4> QED BY <4>1 DEF ClientSocket
        <3> QED BY <3>1 DEF Watched
    <2> QED BY <1>2, <1>n, <2>1 DEF PoolInterrupted, HandlerTypeOK, LoopTypeOK
<1>3. CASE NothingToAccept
    BY <1>3, <1>n, <1>l DEF NothingToAccept, BeginProcess, HandlerTypeOK,
        LoopTypeOK, loopVars
<1>4. CASE AcceptFails
    BY <1>4, <1>n, <1>l DEF AcceptFails, BeginProcess, HandlerTypeOK,
        LoopTypeOK, loopVars
<1>5. CASE Accept
    <2>1. Head(backlog) \in Conn /\ Tail(backlog) \in Seq(Conn)
        BY <1>5, HeadTailProperties DEF Accept, NetTypeOK
    <2>2. NetTypeOK'
        BY <1>5, <2>1 DEF Accept, NetTypeOK
    <2>3. HandlerTypeOK'
        BY <1>5 DEF Accept, HandlerTypeOK
    <2>4. PICK fd \in Fd \ DOMAIN sock :
            /\ sock' = [g \in DOMAIN sock \cup {fd} |->
                            IF g = fd THEN Head(backlog) ELSE sock[g]]
            /\ newClient' = <<[socket |-> fd, ssl |-> Head(backlog),
                     sslEnabled |-> FALSE, chatRoomJoined |-> FALSE,
                     joinedChatRoomID |-> 0, clientID |-> NextClientID]>>
        BY <1>5 DEF Accept
    <2>5. newClient' \in Seq(ClientSocket) /\ Len(newClient') = 1
        <3>1. [socket |-> fd, ssl |-> Head(backlog),
               sslEnabled |-> FALSE, chatRoomJoined |-> FALSE,
               joinedChatRoomID |-> 0, clientID |-> NextClientID]
                    \in ClientSocket
            BY <2>1, ChatAssumption DEF ClientSocket, NextClientID, LoopTypeOK
        <3> QED BY <2>4, <3>1
    <2>6. /\ DOMAIN sock' \subseteq Fd
          /\ \A g \in DOMAIN sock' : sock'[g] \in Conn
        BY <2>1, <2>4 DEF LoopTypeOK
    <2>7. /\ DOMAIN idOf' \subseteq Conn
          /\ \A c \in DOMAIN idOf' : idOf'[c] \in Nat
        BY <1>5, <2>1 DEF Accept, LoopTypeOK, NextClientID
    <2>8. LoopTypeOK'
        <3>1. /\ pc' = "handshake"
              /\ m_UniqueCLientCounter' = m_UniqueCLientCounter + 1
              /\ UNCHANGED <<m_Readfds, closingRequested, m_ServerState>>
            BY <1>5 DEF Accept
        <3> QED BY <2>5, <2>6, <2>7, <3>1 DEF LoopTypeOK
    <2> QED BY <2>2, <2>3, <2>8
<1>6. CASE InitSSLFails
    BY <1>6, <1>n, <1>l, EmptySeq DEF InitSSLFails, BeginProcess,
        HandlerTypeOK, LoopTypeOK
<1>7. CASE InitSSLSucceeds
    <2> DEFINE e == [newClient[1] EXCEPT !.sslEnabled = TRUE]
               c == newClient[1].ssl
    <2>1. e \in ClientSocket
        <3>1. newClient[1] \in ClientSocket
            <4>1. Len(newClient) = 1 /\ newClient \in Seq(ClientSocket)
                BY <1>7 DEF InitSSLSucceeds, LoopTypeOK
            <4> QED BY <4>1
        <3> QED BY <3>1 DEF ClientSocket
    <2>2. /\ m_ClientSocket' \in Seq(ClientSocket)
          /\ Len(m_ClientSocket') = Len(m_ClientSocket) + 1
        <3> HIDE DEF e
        <3>1. m_ClientSocket' = Append(m_ClientSocket, e)
            BY <1>7 DEF InitSSLSucceeds, e
        <3> QED BY <2>1, <3>1, AppendProperties DEF HandlerTypeOK
    <2>3. <<[op |-> "SMSG_MOTD"]>> \in Seq(Packet) /\ << >> \in Seq(Packet)
        <3>1. [op |-> "SMSG_MOTD"] \in Packet
            BY PacketKinds
        <3> QED BY <3>1
    <2>4. outq' \in [Conn -> Seq(Packet)] /\ peer' \in [Conn -> PeerState]
        <3>1. Delivered(c, <<[op |-> "SMSG_MOTD"]>>, << >>, {})
                \in [Conn -> Seq(Packet)]
            BY <2>3, DeliveredType DEF NetTypeOK
        <3>2. \A p \in PeerAfterWrites({c}) : p \in [Conn -> PeerState]
            BY PeerAfterWritesType DEF NetTypeOK
        <3>3. \/ /\ outq' = Delivered(c, <<[op |-> "SMSG_MOTD"]>>, << >>, {})
                 /\ peer' \in PeerAfterWrites({c})
              \/ UNCHANGED <<outq, peer>>
            BY <1>7 DEF InitSSLSucceeds, SendMOTD
        <3> QED BY <3>1, <3>2, <3>3, Zenon DEF NetTypeOK
    <2>5. NetTypeOK'
        BY <1>7, <2>4 DEF InitSSLSucceeds, NetTypeOK
    <2>6. pc' \in {"process", "killed"} /\ it' \in {1, it}
        BY <1>7 DEF InitSSLSucceeds, SendMOTD, BeginProcess, Killed
    <2>7. HandlerTypeOK'
        BY <1>7, <1>l, <2>2, <2>6 DEF InitSSLSucceeds, HandlerTypeOK
    <2>8. LoopTypeOK'
        BY <1>7, <2>6, EmptySeq DEF InitSSLSucceeds, LoopTypeOK
    <2> QED BY <2>5, <2>7, <2>8
<1>8. CASE NotReadable
    BY <1>8, <1>n, <1>l DEF NotReadable, AtClient, HandlerTypeOK, LoopTypeOK,
        loopVars
<1>9. CASE HandleRequest
    <2> DEFINE c == m_ClientSocket[it].ssl
               n == read[c] + 1
    <2>1. c \in Conn /\ it <= Len(m_ClientSocket)
        <3>1. m_ClientSocket[it] \in ClientSocket
            BY <1>9, <1>l, ElementOfSeq DEF HandleRequest, AtClient, HandlerTypeOK
        <3> QED BY <1>9, <3>1 DEF HandleRequest, AtClient, ClientSocket
    <2>2. /\ n \in 1..Len(sent[c])
          /\ sent[c][n] \in Request
          /\ <<c, n>> \in Tag
        BY <1>9, <2>1 DEF HandleRequest, Waiting, NetTypeOK, Tag
    <2>3. HandlerEffect
        <3>1. CallHandler(it, sent[c][n], <<c, n>>) \/ InvalidPacket(it)
            BY <1>9 DEF HandleRequest
        <3> QED BY <2>1, <2>2, <3>1, HandlersHaveEffect
    <2>4. NetTypeOK'
        <3>1. read' = [read EXCEPT ![c] = n]
            BY <1>9 DEF HandleRequest
        <3>2. read' \in [Conn -> Nat] /\ \A d \in Conn : read'[d] <= Len(sent[d])
            BY <2>1, <2>2, <3>1 DEF NetTypeOK
        <3> QED BY <1>9, <2>3, <3>2
                DEF HandleRequest, HandlerEffect, SendEffect, NetTypeOK
    <2>5. pc = "process" /\ pc' \in {"process", "killed", "aborted"}
        BY <1>9, <2>3 DEF HandleRequest, AtClient, HandlerEffect, SendEffect
    <2>6. HandlerTypeOK'
        <3>1. it' \in Nat \ {0} /\ it' <= Len(m_ClientSocket') + 1
            BY <1>l, <2>1, <2>3 DEF HandlerEffect, SendEffect, HandlerTypeOK
        <3> QED BY <2>3, <2>5, <3>1 DEF HandlerEffect, HandlerTypeOK
    <2>7. LoopTypeOK'
        BY <1>9, <2>5 DEF HandleRequest, LoopTypeOK, loopVars
    <2> QED BY <2>4, <2>6, <2>7
<1>10. CASE Disconnect
    <2>1. it \in 1..Len(m_ClientSocket) /\ pc = "process"
        BY <1>10, <1>l DEF Disconnect, AtClient, HandlerTypeOK
    <2>2. /\ m_ClientSocket' \in Seq(ClientSocket)
          /\ Len(m_ClientSocket') = Len(m_ClientSocket) - 1
        BY <1>10, <2>1, ErasedProperties DEF Disconnect, HandlerTypeOK
    <2>3. HandlerTypeOK'
        BY <1>10, <1>l, <2>1, <2>2
        DEF Disconnect, IteratorAfterErase, HandlerTypeOK
    <2>4. LoopTypeOK'
        BY <1>10, <2>1 DEF Disconnect, LoopTypeOK
    <2> QED BY <1>10, <1>n, <2>3, <2>4 DEF Disconnect
<1>11. CASE EndProcess
    BY <1>11, <1>n DEF EndProcess, HandlerTypeOK, LoopTypeOK, loopVars
<1>12. CASE NextIteration
    BY <1>12, <1>n DEF NextIteration, HandlerTypeOK, LoopTypeOK, loopVars
<1>13. CASE ClosingRequested
    BY <1>13, <1>n DEF ClosingRequested, HandlerTypeOK, LoopTypeOK
<1>14. CASE CloseServer
    BY <1>14, <1>n DEF CloseServer, HandlerTypeOK, LoopTypeOK
<1>15. CASE Environment
    <2>1. UNCHANGED handlerVars /\ HandlerTypeOK'
        BY <1>15 DEF Environment, Signal, handlerVars, HandlerTypeOK
    <2>2. CASE Signal
        BY <1>n, <2>1, <2>2 DEF Signal, handlerVars, LoopTypeOK
    <2>3. CASE /\ \E c \in Conn :
                    \/ Connect(c) \/ SendHead(c) \/ Stall(c) \/ Close(c)
                    \/ \E r \in Request : Send(c, r)
               /\ UNCHANGED loopVars
        <3>1. NetTypeOK'
            BY <2>3, NetStepType
        <3>2. LoopTypeOK'
            BY <2>1, <2>3 DEF handlerVars, loopVars, LoopTypeOK
        <3> QED BY <2>1, <3>1, <3>2
    <2> QED BY <1>15, <2>2, <2>3 DEF Environment
<1>16. CASE UNCHANGED vars
    BY <1>16, <1>n DEF vars, handlerVars, loopVars, HandlerTypeOK, LoopTypeOK
<1> QED
    BY <1>1, <1>2, <1>3, <1>4, <1>5, <1>6, <1>7, <1>8, <1>9, <1>10, <1>11,
       <1>12, <1>13, <1>14, <1>15, <1>16 DEF Next, ServerStep

\* The variables always have their types; in particular ProcessRequests'
\* iterator stays within the vector it erases from.
THEOREM TypeCorrect == Spec => []TypeOK
<1> QED BY TypeInit, TypeNext, PTL DEF Spec

----------------------------------------------------------------------------
(* Descriptors and client IDs.  A step leaves the clients held alone, adds *)
(* one at the end, or removes one.                                         *)

\* The clients held, position by position.
LEMMA HeldPositions ==
    ASSUME NEW v \in Seq(ClientSocket), NEW w \in Seq(ClientSocket)
    PROVE  /\ Len(v) \in Nat /\ Len(w) \in Nat
           /\ Len(v \o w) = Len(v) + Len(w)
           /\ \A i \in 1..Len(v) : (v \o w)[i] = v[i]
           /\ \A i \in 1..Len(w) : (v \o w)[Len(v) + i] = w[i]
           /\ \A i \in 1..(Len(v) + Len(w)) :
                \/ i \in 1..Len(v)
                \/ i - Len(v) \in 1..Len(w) /\ i = Len(v) + (i - Len(v))
<1> HIDE DEF ClientSocket
<1> QED BY ConcatProperties

\* The same when the second part is one client.
LEMMA HeldOne ==
    ASSUME NEW v \in Seq(ClientSocket), NEW w \in Seq(ClientSocket), Len(w) = 1
    PROVE  /\ Len(v) \in Nat
           /\ Len(v \o w) = Len(v) + 1
           /\ \A i \in 1..Len(v) : (v \o w)[i] = v[i]
           /\ (v \o w)[Len(v) + 1] = w[1]
<1> HIDE DEF ClientSocket
<1>1. Len(v) \in Nat /\ Len(v \o w) = Len(v) + 1
    BY HeldPositions
<1>2. \A i \in 1..Len(v) : (v \o w)[i] = v[i]
    BY HeldPositions
<1>3. 1 \in 1..Len(w)
    OBVIOUS
<1>4. (v \o w)[Len(v) + 1] = w[1]
    BY <1>3, HeldPositions
<1> QED BY <1>1, <1>2, <1>4

\* The step keeps every client held with its descriptor, session and ID.
HeldSame ==
    /\ Len(Held') = Len(Held)
    /\ \A i \in 1..Len(Held) : /\ Held'[i].socket = Held[i].socket
                              /\ Held'[i].ssl = Held[i].ssl
                              /\ Held'[i].clientID = Held[i].clientID

\* ProcessRequests' call of a handler has the effects of a handler.
LEMMA RequestEffect ==
    ASSUME TypeOK, HandleRequest
    PROVE  HandlerEffect
<1> HIDE DEF Packet, ClientSocket
<1> DEFINE c == m_ClientSocket[it].ssl
           n == read[c] + 1
<1>t. m_ClientSocket \in Seq(ClientSocket)
    BY DEF TypeOK, HandlerTypeOK
<1>1. c \in Conn /\ it <= Len(m_ClientSocket)
    <2>1. it \in 1..Len(m_ClientSocket)
        BY LenProperties DEF HandleRequest, AtClient, TypeOK, HandlerTypeOK
    <2>2. m_ClientSocket[it] \in ClientSocket
        BY <1>t, <2>1
    <2> QED BY <2>1, <2>2 DEF ClientSocket
<1>2. sent[c][n] \in Request /\ <<c, n>> \in Tag
    BY <1>1 DEF HandleRequest, Waiting, TypeOK, NetTypeOK, Tag
<1>3. CallHandler(it, sent[c][n], <<c, n>>) \/ InvalidPacket(it)
    BY DEF HandleRequest
<1> QED BY <1>1, <1>2, <1>3, HandlersHaveEffect DEF TypeOK

\* Handlers and the completion of a handshake keep the clients held.
LEMMA HeldKept ==
    ASSUME TypeOK, TypeOK', HandleRequest \/ InitSSLSucceeds
    PROVE  HeldSame
<1> HIDE DEF Packet, ClientSocket
<1>t. /\ m_ClientSocket \in Seq(ClientSocket) /\ newClient \in Seq(ClientSocket)
      /\ m_ClientSocket' \in Seq(ClientSocket) /\ newClient' \in Seq(ClientSocket)
    BY DEF TypeOK, HandlerTypeOK, LoopTypeOK
<1>1. CASE HandleRequest
    <2>3. HandlerEffect
        BY <1>1, RequestEffect
    <2>4. newClient' = newClient
        BY <1>1 DEF HandleRequest, loopVars
    <2>5. Held' = m_ClientSocket' \o newClient /\ Held = m_ClientSocket \o newClient
        BY <2>4 DEF Held
    <2>6. /\ Len(m_ClientSocket') = Len(m_ClientSocket)
          /\ \A i \in 1..Len(m_ClientSocket) :
                /\ m_ClientSocket'[i].socket = m_ClientSocket[i].socket
                /\ m_ClientSocket'[i].ssl = m_ClientSocket[i].ssl
                /\ m_ClientSocket'[i].clientID = m_ClientSocket[i].clientID
        BY <2>3 DEF HandlerEffect
    <2>7. Len(Held') = Len(Held)
        BY <1>t, <2>5, <2>6, HeldPositions
    <2>8. ASSUME NEW i \in 1..Len(Held)
          PROVE  /\ Held'[i].socket = Held[i].socket
                 /\ Held'[i].ssl = Held[i].ssl
                 /\ Held'[i].clientID = Held[i].clientID
        <3>1. CASE i \in 1..Len(m_ClientSocket)
            <4>1. Held[i] = m_ClientSocket[i] /\ Held'[i] = m_ClientSocket'[i]
                BY <1>t, <2>5, <2>6, <3>1, HeldPositions
            <4> QED BY <2>6, <3>1, <4>1
        <3>2. CASE i - Len(m_ClientSocket) \in 1..Len(newClient)
            <4> DEFINE j == i - Len(m_ClientSocket)
            <4>1. i = Len(m_ClientSocket) + j
                BY <1>t, <2>5, <2>8, HeldPositions
            <4>2. Held[Len(m_ClientSocket) + j] = newClient[j]
                BY <1>t, <2>5, <3>2, HeldPositions
            <4>3. Held'[Len(m_ClientSocket') + j] = newClient[j]
                BY <1>t, <2>5, <3>2, HeldPositions
            <4> QED BY <2>6, <4>1, <4>2, <4>3
        <3> QED BY <1>t, <2>5, <2>8, <3>1, <3>2, HeldPositions
    <2> QED BY <2>7, <2>8 DEF HeldSame
<1>2. CASE InitSSLSucceeds
    <2> DEFINE e == [newClient[1] EXCEPT !.sslEnabled = TRUE]
    <2>1. Len(newClient) = 1
        BY <1>2 DEF InitSSLSucceeds, TypeOK, LoopTypeOK
    <2>2. newClient[1] \in ClientSocket
        BY <1>t, <2>1
    <2>3. /\ e \in ClientSocket /\ e.socket = newClient[1].socket
          /\ e.ssl = newClient[1].ssl /\ e.clientID = newClient[1].clientID
        BY <2>2 DEF ClientSocket
    <2> HIDE DEF e
    <2>4. m_ClientSocket' = Append(m_ClientSocket, e) /\ newClient' = << >>
        BY <1>2 DEF InitSSLSucceeds, e
    <2>5. Held' = Append(m_ClientSocket, e)
        BY <1>t, <2>4, ConcatEmptySeq DEF Held
    <2>6. /\ Len(Held') = Len(m_ClientSocket) + 1
          /\ \A i \in 1..Len(m_ClientSocket) : Held'[i] = m_ClientSocket[i]
          /\ Held'[Len(m_ClientSocket) + 1] = e
        BY <1>t, <2>3, <2>5, AppendProperties
    <2>7. /\ Len(Held) = Len(m_ClientSocket) + 1
          /\ \A i \in 1..Len(m_ClientSocket) : Held[i] = m_ClientSocket[i]
          /\ Held[Len(m_ClientSocket) + 1] = newClient[1]
        BY <1>t, <2>1, HeldOne DEF Held
    <2>8. \A i \in 1..(Len(m_ClientSocket) + 1) :
            i \in 1..Len(m_ClientSocket) \/ i = Len(m_ClientSocket) + 1
        BY <1>t, HeldPositions
    <2> QED BY <2>3, <2>6, <2>7, <2>8 DEF HeldSame
<1> QED BY <1>1, <1>2

\* Accept adds the new client at the end.
LEMMA HeldAdded ==
    ASSUME TypeOK, TypeOK', Accept
    PROVE  /\ Len(Held) \in Nat
           /\ Len(Held') = Len(Held) + 1
           /\ \A i \in 1..Len(Held) : Held'[i] = Held[i]
           /\ Held'[Len(Held) + 1] = newClient'[1]
<1> HIDE DEF Packet, ClientSocket
<1>1. /\ m_ClientSocket \in Seq(ClientSocket) /\ newClient \in Seq(ClientSocket)
      /\ newClient' \in Seq(ClientSocket)
      /\ Len(newClient) = 0 /\ Len(newClient') = 1
      /\ m_ClientSocket' = m_ClientSocket
    BY DEF TypeOK, HandlerTypeOK, LoopTypeOK, Accept
<1>2. Held = m_ClientSocket \o newClient /\ Held' = m_ClientSocket \o newClient'
    BY <1>1 DEF Held
<1>3. newClient = << >>
    BY <1>1
<1>4. Held = m_ClientSocket
    BY <1>1, <1>2, <1>3, ConcatEmptySeq
<1> QED BY <1>1, <1>2, <1>4, HeldOne

\* A failed handshake and a disconnect remove the client at one position.
LEMMA HeldRemoved ==
    ASSUME TypeOK, TypeOK', InitSSLFails \/ Disconnect
    PROVE  \E p \in 1..Len(Held) :
            /\ Len(Held) \in Nat
            /\ Len(Held') = Len(Held) - 1
            /\ \A k \in 1..Len(Held') : Held'[k] = Held[IF k < p THEN k ELSE k + 1]
            /\ sock' = [fd \in DOMAIN sock \ {Held[p].socket} |-> sock[fd]]
<1> HIDE DEF Packet, ClientSocket
<1>t. /\ m_ClientSocket \in Seq(ClientSocket) /\ newClient \in Seq(ClientSocket)
      /\ m_ClientSocket' \in Seq(ClientSocket) /\ newClient' \in Seq(ClientSocket)
      /\ Len(m_ClientSocket) \in Nat
    BY LenProperties DEF TypeOK, HandlerTypeOK, LoopTypeOK
<1>1. CASE InitSSLFails
    <2>1. Len(newClient) = 1 /\ newClient' = << >> /\ m_ClientSocket' = m_ClientSocket
        BY <1>1 DEF InitSSLFails, TypeOK, LoopTypeOK
    <2>2. Held' = m_ClientSocket
        BY <1>t, <2>1, ConcatEmptySeq DEF Held
    <2> DEFINE p == Len(m_ClientSocket) + 1
    <2>3. /\ Len(Held) = p
          /\ \A i \in 1..Len(m_ClientSocket) : Held[i] = m_ClientSocket[i]
          /\ Held[p] = newClient[1]
        BY <1>t, <2>1, HeldOne DEF Held
    <2>4. sock' = [fd \in DOMAIN sock \ {Held[p].socket} |-> sock[fd]]
        BY <1>1, <2>3 DEF InitSSLFails
    <2>5. \A k \in 1..Len(Held') : Held'[k] = Held[IF k < p THEN k ELSE k + 1]
        BY <1>t, <2>2, <2>3
    <2>6. p \in 1..Len(Held) /\ Len(Held) \in Nat /\ Len(Held') = Len(Held) - 1
        BY <1>t, <2>2, <2>3
    <2> HIDE DEF p
    <2> QED BY <2>4, <2>5, <2>6
<1>2. CASE Disconnect
    <2>1. it \in 1..Len(m_ClientSocket) /\ Len(newClient) = 0
        BY <1>2 DEF Disconnect, AtClient, TypeOK, HandlerTypeOK, LoopTypeOK
    <2>2. /\ newClient = << >> /\ newClient' = newClient
          /\ m_ClientSocket' = Erased(it)
          /\ sock' = [fd \in DOMAIN sock \ {m_ClientSocket[it].socket} |-> sock[fd]]
        BY <1>2, <1>t, <2>1 DEF Disconnect, ClosedByErase
    <2>3. Held = m_ClientSocket /\ Held' = Erased(it)
        BY <1>t, <2>2, ConcatEmptySeq DEF Held
    <2>4. /\ Len(Held') = Len(Held) - 1
          /\ \A k \in 1..Len(Held') : Held'[k] = Held[IF k < it THEN k ELSE k + 1]
        BY <1>t, <2>1, <2>3, ErasedProperties
    <2>5. sock' = [fd \in DOMAIN sock \ {Held[it].socket} |-> sock[fd]]
        BY <2>2, <2>3
    <2>6. it \in 1..Len(Held) /\ Len(Held) \in Nat
        BY <1>t, <2>1, <2>3
    <2> QED BY <2>4, <2>5, <2>6
<1> QED BY <1>1, <1>2

\* The steps by what they do to the clients held.
LEMMA StepKinds ==
    ASSUME [Next]_vars
    PROVE  \/ HandleRequest \/ InitSSLSucceeds
           \/ Accept
           \/ InitSSLFails \/ Disconnect
           \/ ClosingRequested \/ CloseServer
           \/ /\ UNCHANGED <<m_ClientSocket, newClient, sock, idOf,
                            m_UniqueCLientCounter, m_ServerState>>
              /\ \/ UNCHANGED <<backlog, peer>>
                 \/ \E c \in Conn :
                        \/ Connect(c) \/ SendHead(c) \/ Stall(c) \/ Close(c)
                        \/ \E r \in Request : Send(c, r)
<1> USE DEF loopVars, handlerVars, netVars
<1>1. CASE ServerStep
    BY <1>1 DEF ServerStep, PoolActivity, PoolInterrupted, NothingToAccept,
                AcceptFails, NotReadable, EndProcess, NextIteration
<1>2. CASE Environment
    BY <1>2 DEF Environment, Signal
<1>3. CASE UNCHANGED vars
    BY <1>3 DEF vars
<1> QED BY <1>1, <1>2, <1>3 DEF Next

\* No client is held at first, and no client descriptor is open.
LEMMA SocketTableInit == Init => SocketTable
<1> SUFFICES ASSUME Init PROVE SocketTable
    OBVIOUS
<1>1. Held = << >>
    BY DEF Held, Init
<1>2. Len(Held) = 0 /\ 1..Len(Held) = {}
    BY <1>1
<1>3. DOMAIN sock = {}
    BY DEF Init
<1> QED BY <1>2, <1>3 DEF SocketTable

\* Every step keeps descriptors and clients held in correspondence.
LEMMA SocketTableNext ==
    ASSUME TypeOK, TypeOK', SocketTable, [Next]_vars
    PROVE  SocketTable'
<1> HIDE DEF Packet, ClientSocket
<1>1. CASE UNCHANGED <<m_ClientSocket, newClient, sock, m_ServerState>>
    <2>1. Held' = Held /\ sock' = sock /\ m_ServerState' = m_ServerState
        BY <1>1 DEF Held
    <2> HIDE DEF Held
    <2>2. CASE m_ServerState # "STARTED"
        BY <2>1, <2>2 DEF SocketTable
    <2>3. CASE m_ServerState = "STARTED"
        <3>1. \A i \in 1..Len(Held') : /\ Held'[i].socket \in DOMAIN sock'
                                       /\ sock'[Held'[i].socket] = Held'[i].ssl
            BY <2>1, <2>3 DEF SocketTable
        <3>2. \A i, j \in 1..Len(Held') : Held'[i].socket = Held'[j].socket => i = j
            BY <2>1, <2>3 DEF SocketTable
        <3>3. DOMAIN sock' = {Held'[i].socket : i \in 1..Len(Held')}
            BY <2>1, <2>3 DEF SocketTable
        <3> QED BY <3>1, <3>2, <3>3 DEF SocketTable
    <2> QED BY <2>2, <2>3
<1>2. CASE ClosingRequested \/ CloseServer
    <2>1. m_ServerState' # "STARTED"
        BY <1>2 DEF ClosingRequested, CloseServer
    <2> QED BY <2>1 DEF SocketTable
<1>3. CASE HandleRequest \/ InitSSLSucceeds
    <2>1. HeldSame
        BY <1>3, HeldKept
    <2>2. sock' = sock /\ m_ServerState' = m_ServerState
        BY <1>3 DEF HandleRequest, InitSSLSucceeds, loopVars
    <2> HIDE DEF Held
    <2>3. {Held'[i].socket : i \in 1..Len(Held')}
            = {Held[i].socket : i \in 1..Len(Held)}
        BY <2>1 DEF HeldSame
    <2>4. SUFFICES ASSUME m_ServerState = "STARTED" PROVE SocketTable'
        BY <2>2 DEF SocketTable
    <2>5. \A i \in 1..Len(Held') : /\ Held'[i].socket \in DOMAIN sock'
                                   /\ sock'[Held'[i].socket] = Held'[i].ssl
        BY <2>1, <2>2, <2>4 DEF SocketTable, HeldSame
    <2>6. \A i, j \in 1..Len(Held') : Held'[i].socket = Held'[j].socket => i = j
        BY <2>1, <2>4 DEF SocketTable, HeldSame
    <2>7. DOMAIN sock' = {Held'[i].socket : i \in 1..Len(Held')}
        BY <2>2, <2>3, <2>4 DEF SocketTable
    <2> QED BY <2>5, <2>6, <2>7 DEF SocketTable
<1>4. CASE Accept
    <2> SUFFICES ASSUME m_ServerState = "STARTED" PROVE SocketTable'
        BY <1>4 DEF Accept, SocketTable
    <2>1. PICK fd \in Fd \ DOMAIN sock :
            /\ sock' = [g \in DOMAIN sock \cup {fd} |->
                            IF g = fd THEN Head(backlog) ELSE sock[g]]
            /\ newClient'[1].socket = fd
            /\ newClient'[1].ssl = Head(backlog)
        BY <1>4 DEF Accept
    <2>2. /\ Len(Held) \in Nat
          /\ Len(Held') = Len(Held) + 1
          /\ \A i \in 1..Len(Held) : Held'[i] = Held[i]
          /\ Held'[Len(Held) + 1] = newClient'[1]
        BY <1>4, HeldAdded
    <2> DEFINE n == Len(Held)
    <2>3. \A i \in 1..n : /\ Held[i].socket \in DOMAIN sock
                          /\ sock[Held[i].socket] = Held[i].ssl
                          /\ \A j \in 1..n : Held[i].socket = Held[j].socket => i = j
        BY DEF SocketTable
    <2>4. DOMAIN sock = {Held[i].socket : i \in 1..n}
        BY DEF SocketTable
    <2>5. \A i \in 1..(n + 1) : i \in 1..n \/ i = n + 1
        BY <2>2
    <2>6. /\ Held'[n + 1].socket = fd /\ fd \notin DOMAIN sock
          /\ fd \in DOMAIN sock' /\ sock'[fd] = Held'[n + 1].ssl
          /\ \A g \in DOMAIN sock : g \in DOMAIN sock' /\ sock'[g] = sock[g]
          /\ DOMAIN sock' = DOMAIN sock \cup {fd}
        BY <2>1, <2>2
    <2> HIDE DEF Held
    <2>7. \A i \in 1..(n + 1) : /\ Held'[i].socket \in DOMAIN sock'
                                /\ sock'[Held'[i].socket] = Held'[i].ssl
        BY <2>2, <2>3, <2>5, <2>6
    <2>8. \A i, j \in 1..(n + 1) : Held'[i].socket = Held'[j].socket => i = j
        BY <2>2, <2>3, <2>5, <2>6
    <2>9. DOMAIN sock' = {Held'[i].socket : i \in 1..(n + 1)}
        <3>1. \A i \in 1..n : i \in 1..(n + 1)
            BY <2>2
        <3>2. n + 1 \in 1..(n + 1)
            BY <2>2
        <3>3. \A g \in DOMAIN sock : \E i \in 1..(n + 1) : g = Held'[i].socket
            BY <2>2, <2>4, <3>1
        <3> QED BY <2>6, <2>7, <3>2, <3>3
    <2> QED BY <2>2, <2>7, <2>8, <2>9 DEF SocketTable
<1>5. CASE InitSSLFails \/ Disconnect
    <2> SUFFICES ASSUME m_ServerState = "STARTED" PROVE SocketTable'
        BY <1>5 DEF InitSSLFails, Disconnect, SocketTable
    <2>1. PICK p \in 1..Len(Held) :
            /\ Len(Held) \in Nat
            /\ Len(Held') = Len(Held) - 1
            /\ \A k \in 1..Len(Held') : Held'[k] = Held[IF k < p THEN k ELSE k + 1]
            /\ sock' = [fd \in DOMAIN sock \ {Held[p].socket} |-> sock[fd]]
        BY <1>5, HeldRemoved
    <2> DEFINE n == Len(Held)
               from(k) == IF k < p THEN k ELSE k + 1
    <2>2. \A i \in 1..n : /\ Held[i].socket \in DOMAIN sock
                          /\ sock[Held[i].socket] = Held[i].ssl
                          /\ \A j \in 1..n : Held[i].socket = Held[j].socket => i = j
        BY DEF SocketTable
    <2>3. DOMAIN sock = {Held[i].socket : i \in 1..n}
        BY DEF SocketTable
    <2>4. /\ \A k \in 1..(n - 1) : from(k) \in 1..n /\ from(k) # p
          /\ \A k, m \in 1..(n - 1) : from(k) = from(m) => k = m
          /\ \A i \in 1..n : i # p => \E k \in 1..(n - 1) : i = from(k)
        <3>1. \A i \in 1..n : i < p => i \in 1..(n - 1) /\ i = from(i)
            BY <2>1
        <3>2. \A i \in 1..n : i > p => i - 1 \in 1..(n - 1) /\ i = from(i - 1)
            BY <2>1
        <3>3. \A i \in 1..n : i # p => i < p \/ i > p
            BY <2>1
        <3>4. /\ \A k \in 1..(n - 1) : from(k) \in 1..n /\ from(k) # p
              /\ \A k, m \in 1..(n - 1) : from(k) = from(m) => k = m
            BY <2>1
        <3> QED BY <3>1, <3>2, <3>3, <3>4
    <2>5. \A k \in 1..(n - 1) : Held'[k] = Held[from(k)]
        BY <2>1
    <2>6. /\ DOMAIN sock' = DOMAIN sock \ {Held[p].socket}
          /\ \A g \in DOMAIN sock' : sock'[g] = sock[g]
        BY <2>1
    <2>0. /\ Len(Held') = n - 1
          /\ p \in 1..n
        BY <2>1
    <2> HIDE DEF Held, from, n
    <2>7. \A k \in 1..(n - 1) : /\ Held'[k].socket \in DOMAIN sock'
                                /\ sock'[Held'[k].socket] = Held'[k].ssl
        BY <2>0, <2>2, <2>4, <2>5, <2>6
    <2>8. \A k, m \in 1..(n - 1) : Held'[k].socket = Held'[m].socket => k = m
        BY <2>2, <2>4, <2>5
    <2>9. DOMAIN sock' = {Held'[k].socket : k \in 1..(n - 1)}
        <3>1. \A g \in DOMAIN sock' : \E k \in 1..(n - 1) : g = Held'[k].socket
            BY <2>3, <2>4, <2>5, <2>6
        <3> QED BY <2>7, <3>1
    <2> QED BY <2>0, <2>7, <2>8, <2>9 DEF SocketTable
<1> QED BY <1>1, <1>2, <1>3, <1>4, <1>5, StepKinds

\* Every client held has an open descriptor of its own and no other client
\* descriptor is open, for any number of clients, descriptors and requests:
\* accept, failed handshakes and vector::erase neither share nor leak one.
THEOREM DescriptorsCorrect == Spec => []SocketTable
<1> QED BY SocketTableInit, SocketTableNext, TypeCorrect, PTL DEF Spec

\* ClientIDs is inductive together with ConnectionsOnce.
IDInv == ClientIDs /\ ConnectionsOnce

\* No connection is queued or has an ID at first.
LEMMA IDInit == Init => IDInv
<1> SUFFICES ASSUME Init PROVE IDInv
    OBVIOUS
<1>1. Held = << >> /\ backlog = << >>
    BY DEF Held, Init, NetInit
<1>2. 1..Len(Held) = {} /\ 1..Len(backlog) = {}
    BY <1>1
<1>3. DOMAIN idOf = {}
    BY DEF Init
<1> QED BY <1>2, <1>3 DEF IDInv, ClientIDs, ConnectionsOnce, Queued

\* ConnectionsOnce survives a step that gives no ID, leaves the queue alone and
\* makes no connection unconnected.
LEMMA ConnectionsKept ==
    ASSUME TypeOK, ConnectionsOnce,
           UNCHANGED <<backlog, idOf, m_UniqueCLientCounter>>,
           \A c \in Conn : peer[c] # "none" => peer'[c] # "none"
    PROVE  ConnectionsOnce'
<1>1. DOMAIN idOf \subseteq Conn /\ Queued \subseteq Conn
    BY DEF TypeOK, LoopTypeOK, NetTypeOK, Queued
<1>2. Queued' = Queued
    BY DEF Queued
<1> HIDE DEF Queued
<1> QED BY <1>1, <1>2 DEF ConnectionsOnce

\* Every step keeps IDs unique and with their clients.
LEMMA IDNext ==
    ASSUME TypeOK, TypeOK', IDInv, [Next]_vars
    PROVE  IDInv'
<1> HIDE DEF Packet, ClientSocket
<1> USE DEF IDInv
<1>t. /\ backlog \in Seq(Conn) /\ peer \in [Conn -> PeerState]
      /\ DOMAIN idOf \subseteq Conn /\ m_UniqueCLientCounter \in Nat
      /\ \A c \in DOMAIN idOf : idOf[c] \in Nat
    BY DEF TypeOK, NetTypeOK, LoopTypeOK
<1>1. CASE /\ UNCHANGED <<m_ClientSocket, newClient, idOf, m_UniqueCLientCounter>>
           /\ \/ UNCHANGED <<backlog, peer>>
              \/ \E c \in Conn :
                    \/ Connect(c) \/ SendHead(c) \/ Stall(c) \/ Close(c)
                    \/ \E r \in Request : Send(c, r)
    <2>1. Held' = Held /\ idOf' = idOf
        BY <1>1 DEF Held
    <2>2. ClientIDs'
        <3> HIDE DEF Held
        <3> QED BY <2>1 DEF ClientIDs
    <2>3. CASE UNCHANGED <<backlog, peer>>
        BY <1>1, <2>2, <2>3, ConnectionsKept
    <2>4. ASSUME NEW c \in Conn,
                 \/ SendHead(c) \/ Stall(c) \/ Close(c)
                 \/ \E r \in Request : Send(c, r)
          PROVE  IDInv'
        <3>1. backlog' = backlog /\ \A d \in Conn : peer[d] # "none" => peer'[d] # "none"
            BY <1>t, <2>4 DEF SendHead, Stall, Close, Send, Connected
        <3> QED BY <1>1, <2>2, <3>1, ConnectionsKept
    <2>5. ASSUME NEW c \in Conn, Connect(c) PROVE IDInv'
        <3>1. /\ c \notin Queued /\ c \notin DOMAIN idOf
              /\ peer' = [peer EXCEPT ![c] = "up"] /\ backlog' = Append(backlog, c)
            BY <2>5 DEF Connect, ConnectionsOnce
        <3>2. /\ Len(backlog) \in Nat /\ Len(backlog') = Len(backlog) + 1
              /\ \A i \in 1..Len(backlog) : backlog'[i] = backlog[i] /\ backlog[i] \in Queued
              /\ backlog'[Len(backlog) + 1] = c
            BY <1>t, <3>1, AppendProperties DEF Queued
        <3>3. \A i \in 1..Len(backlog') : i \in 1..Len(backlog) \/ i = Len(backlog) + 1
            BY <3>2
        <3>4. Queued' \subseteq Queued \cup {c}
            BY <3>2, <3>3 DEF Queued
        <3>5. Queued \subseteq Conn
            BY <1>t DEF Queued
        <3>6. \A i, j \in 1..Len(backlog') : backlog'[i] = backlog'[j] => i = j
            BY <3>1, <3>2, <3>3 DEF ConnectionsOnce
        <3>7. \A d \in DOMAIN idOf \cup Queued' : peer'[d] # "none"
            BY <1>t, <3>1, <3>4, <3>5 DEF ConnectionsOnce
        <3> HIDE DEF Queued
        <3> QED BY <1>1, <2>2, <3>1, <3>4, <3>6, <3>7 DEF ConnectionsOnce
    <2> QED BY <1>1, <2>3, <2>4, <2>5
<1>2. CASE ClosingRequested \/ CloseServer
    <2>1. Held' = Held /\ UNCHANGED <<backlog, idOf, m_UniqueCLientCounter, peer>>
        BY <1>2 DEF ClosingRequested, CloseServer, Held, netVars
    <2>2. ClientIDs'
        <3> HIDE DEF Held
        <3> QED BY <2>1 DEF ClientIDs
    <2> QED BY <2>1, <2>2, ConnectionsKept
<1>3. CASE HandleRequest \/ InitSSLSucceeds
    <2>1. HeldSame
        BY <1>3, HeldKept
    <2>2. UNCHANGED <<backlog, idOf, m_UniqueCLientCounter>>
        BY <1>3 DEF HandleRequest, InitSSLSucceeds, loopVars
    <2>3. \A c \in Conn : peer[c] # "none" => peer'[c] # "none"
        <3>1. CASE HandleRequest
            BY <3>1, RequestEffect DEF HandlerEffect, SendEffect
        <3>2. CASE InitSSLSucceeds
            <4>1. peer' = peer \/ \E c : peer' \in PeerAfterWrites(c)
                BY <3>2 DEF InitSSLSucceeds, SendMOTD
            <4> QED BY <1>t, <4>1, PeerAfterWritesType
        <3> QED BY <1>3, <3>1, <3>2
    <2>4. ClientIDs'
        <3> HIDE DEF Held
        <3> QED BY <2>1, <2>2 DEF ClientIDs, HeldSame
    <2> QED BY <2>2, <2>3, <2>4, ConnectionsKept
<1>4. CASE Accept
    <2> DEFINE c == Head(backlog)
               id == m_UniqueCLientCounter
    <2>1. /\ idOf' = [d \in DOMAIN idOf \cup {c} |-> IF d = c THEN id ELSE idOf[d]]
          /\ m_UniqueCLientCounter' = id + 1
          /\ backlog' = Tail(backlog) /\ backlog # << >> /\ peer' = peer
          /\ newClient'[1].ssl = c /\ newClient'[1].clientID = id
        BY <1>4 DEF Accept, NextClientID
    <2>2. /\ Len(backlog) \in Nat \ {0} /\ c = backlog[1]
          /\ Len(backlog') = Len(backlog) - 1
          /\ \A i \in 1..Len(backlog') : backlog'[i] = backlog[i + 1]
        BY <1>t, <2>1, HeadTailProperties, EmptySeq
    <2>3. /\ c \in Queued /\ c \notin Queued' /\ Queued' \subseteq Queued
          /\ \A i, j \in 1..Len(backlog') : backlog'[i] = backlog'[j] => i = j
        <3>1. \A i \in 1..Len(backlog') : i + 1 \in 1..Len(backlog) /\ i + 1 # 1
            BY <2>2
        <3>2. 1 \in 1..Len(backlog)
            BY <2>2
        <3>3. \A i, j \in 1..Len(backlog) : backlog[i] = backlog[j] => i = j
            BY DEF ConnectionsOnce
        <3>4. \A i, j \in 1..Len(backlog') : i + 1 = j + 1 => i = j
            BY <2>2
        <3>5. c \in Queued /\ Queued' \subseteq Queued
            BY <2>2, <3>1, <3>2 DEF Queued
        <3>6. c \notin Queued'
            BY <2>2, <3>1, <3>2, <3>3 DEF Queued
        <3>7. \A i, j \in 1..Len(backlog') : backlog'[i] = backlog'[j] => i = j
            BY <2>2, <3>1, <3>3, <3>4
        <3> QED BY <3>5, <3>6, <3>7
    <2> HIDE DEF Queued, c
    <2>4. c \notin DOMAIN idOf
        BY <2>3 DEF ConnectionsOnce
    <2>5. ConnectionsOnce'
        <3>1. \A d \in DOMAIN idOf' : idOf'[d] < m_UniqueCLientCounter'
            BY <1>t, <2>1 DEF ConnectionsOnce
        <3>2. \A d \in DOMAIN idOf' \cup Queued' : peer'[d] # "none"
            BY <2>1, <2>3 DEF ConnectionsOnce
        <3>3. \A d \in Queued' : d \notin DOMAIN idOf'
            BY <2>1, <2>3 DEF ConnectionsOnce
        <3> QED BY <2>3, <3>1, <3>2, <3>3 DEF ConnectionsOnce
    <2>6. \A d, e \in DOMAIN idOf' : idOf'[d] = idOf'[e] => d = e
        <3>1. \A d \in DOMAIN idOf : idOf[d] # id
            BY <1>t DEF ConnectionsOnce
        <3> QED BY <2>1, <3>1 DEF ClientIDs
    <2>7. \A i \in 1..Len(Held') : /\ Held'[i].ssl \in DOMAIN idOf'
                                   /\ Held'[i].clientID = idOf'[Held'[i].ssl]
        <3>1. /\ Len(Held) \in Nat
              /\ Len(Held') = Len(Held) + 1
              /\ \A i \in 1..Len(Held) : Held'[i] = Held[i]
              /\ Held'[Len(Held) + 1] = newClient'[1]
            BY <1>4, HeldAdded
        <3>2. \A i \in 1..Len(Held') : i \in 1..Len(Held) \/ i = Len(Held) + 1
            BY <3>1
        <3> HIDE DEF Held
        <3> QED BY <2>1, <2>4, <3>1, <3>2 DEF ClientIDs
    <2> HIDE DEF Held
    <2> QED BY <2>5, <2>6, <2>7 DEF ClientIDs
<1>5. CASE InitSSLFails \/ Disconnect
    <2>1. UNCHANGED <<backlog, idOf, m_UniqueCLientCounter, peer>>
        BY <1>5 DEF InitSSLFails, Disconnect, netVars
    <2>2. ASSUME NEW k \in 1..Len(Held') PROVE \E i \in 1..Len(Held) : Held'[k] = Held[i]
        <3>1. PICK p \in 1..Len(Held) :
                /\ Len(Held) \in Nat
                /\ Len(Held') = Len(Held) - 1
                /\ Held'[k] = Held[IF k < p THEN k ELSE k + 1]
            BY <1>5, HeldRemoved
        <3>2. (IF k < p THEN k ELSE k + 1) \in 1..Len(Held)
            BY <3>1
        <3> QED BY <3>1, <3>2
    <2>3. ClientIDs'
        <3> HIDE DEF Held
        <3> QED BY <2>1, <2>2 DEF ClientIDs
    <2> QED BY <2>1, <2>3, ConnectionsKept
<1> QED BY <1>1, <1>2, <1>3, <1>4, <1>5, StepKinds

\* No client ID is ever given twice and every client keeps its own (Server.h:
\* "Used to give each connected client an unique ID"), whatever handshakes fail
\* and clients leave, until the 64-bit counter has given 2^64 IDs.
THEOREM UniqueClientIDs == Spec => []ClientIDs
<1>1. IDInv => ClientIDs
    BY DEF IDInv
<1> QED BY IDInit, IDNext, TypeCorrect, <1>1, PTL DEF Spec

=============================================================================
