----------------------------- MODULE LoopProofs -----------------------------
(***************************************************************************)
(* What a handler writes, why ProcessRequests drops a client and how the   *)
(* process may end, for any number of connections, requests and rooms.     *)
(***************************************************************************)
EXTENDS ServerProofs, ClientDisplay

----------------------------------------------------------------------------
(* What a handler writes.                                                  *)

\* p answers request r, tagged tag, of the client at position i.
AnswerTo(i, r, tag, p) ==
    /\ p.op \in Answers(r)
    /\ "msg" \in DOMAIN p => p.msg = tag
    /\ p.op = "SMSG_CLIENT_LIST" /\ p.error = "ERR_OK" => p.list = ClientList(i)
    /\ p.op = "SMSG_COUNTER" => p.value = m_Counter
    /\ p.op \in DOMAIN Explained => p.error \in Explained[p.op]

\* p passes the text of r on to the connections of to, all of them clients.
PostTo(i, r, tag, p, to) ==
    /\ p.msg = tag
    /\ \/ /\ r.op = "CMSG_BROADCAST_MESSAGE" /\ p.op = "SMSG_BROADCAST"
          /\ to = {client(j).ssl : j \in Enabled}
       \/ /\ r.op = "CMSG_SAY" /\ p.op = "SMSG_SAY"
          /\ client(i).chatRoomJoined
          /\ to = RoomMembers(client(i).joinedChatRoomID)
       \/ /\ r.op = "CMSG_SEND_MSG_TO_CLIENT" /\ p.op = "SMSG_PRIVATE_MESSAGE"
          /\ p.from = client(i).clientID
          /\ r.clientID # client(i).clientID
          /\ to = {client(j).ssl : j \in Found(r.clientID)}

\* r of the client at position i is no message for others: it is no broadcast,
\* and if it is for a room, then that of a client without one.
NoPost(i, r) ==
    /\ r.op # "CMSG_BROADCAST_MESSAGE"
    /\ r.op = "CMSG_SAY" =>
        ~ (/\ client(i).chatRoomJoined
           /\ checkRoomID(m_ChatRooms, client(i).joinedChatRoomID))

\* At most one answer, and at most one message for others.
Script(i, r, tag, direct, fan, to) ==
    /\ \/ direct = << >> /\ Answers(r) = {}
       \/ \E p \in Packet : direct = <<p>> /\ AnswerTo(i, r, tag, p)
    /\ \/ fan = << >> /\ to = {} /\ NoPost(i, r)
       \/ \E p \in Packet : fan = <<p>> /\ PostTo(i, r, tag, p, to)

\* The handler throws, returns in silence, or writes what its script says.
Writes(i, r, tag) ==
    \/ r.op = "badtype" /\ CallHandlerAddThrows
    \/ NoReply /\ Answers(r) = {} /\ NoPost(i, r)
    \/ \E direct, fan, to : /\ Script(i, r, tag, direct, fan, to)
                            /\ HandlerSends(client(i).ssl, direct, fan, to)

\* The answers to a request, opcode by opcode.
LEMMA AnswersByOpcode ==
    ASSUME NEW r
    PROVE  /\ r.op = "CMSG_ECHO_REQUEST" => Answers(r) = {"SMSG_ECHO_REQUEST"}
           /\ r.op = "CMSG_ADDITION_REQUEST" => Answers(r) = {"SMSG_ADDITION_REQUEST"}
           /\ r.op = "CMSG_GET_CLIENT_LIST" => Answers(r) = {"SMSG_CLIENT_LIST"}
           /\ r.op = "CMSG_SEND_MSG_TO_CLIENT" => Answers(r) = {"SMSG_PRIVATE_MSG_ERR"}
           /\ r.op = "CMSG_PING" => Answers(r) = {"SMSG_PONG"}
           /\ r.op = "CMSG_UPTIME" => Answers(r) = {"SMSG_UPTIME"}
           /\ r.op = "CMSG_GET_COUNTER" => Answers(r) = {"SMSG_COUNTER"}
           /\ r.op \in {"CMSG_GET_CHAT_ROOMS", "CMSG_GET_ROOM_INFO", "unknown"}
                => Answers(r) = {"SMSG_MESSAGE"}
           /\ r.op = "CMSG_JOIN_ROOM" =>
                Answers(r) = {"SMSG_JOIN_CHAT_ROOM_OK", "SMSG_JOIN_CHAT_ROOM_ERR"}
           /\ r.op = "CMSG_SAY" => Answers(r) = {"SMSG_SAY_OK", "SMSG_SAY_ERR"}
           /\ r.op = "runt" => Answers(r) = {"Invalid packet."}
           /\ r.op \in {"CMSG_BROADCAST_MESSAGE", "CMSG_INCREMENT_COUNTER", "short",
                        "badtype"} => Answers(r) = {}
    BY DEF Answers

\* Every handler of CallHandler, and the answer to a record without opcode,
\* writes what the request calls for.
LEMMA HandlerWrites ==
    ASSUME NetTypeOK, HandlerTypeOK, it \in 1..Len(m_ClientSocket),
           NEW r \in Request, NEW tag \in Tag,
           CallHandler(it, r, tag) \/ (r.op = "runt" /\ InvalidPacket(it))
    PROVE  Writes(it, r, tag)
<1> DEFINE c == client(it).ssl
<1>1. client(it) \in ClientSocket
    BY ElementOfSeq DEF HandlerTypeOK, client
<1>2. ASSUME NEW p \in Packet, AnswerTo(it, r, tag, p), Reply(c, p),
             NoPost(it, r)
      PROVE  Writes(it, r, tag)
    <2>1. HandlerSends(c, <<p>>, << >>, {})
        BY <1>2 DEF Reply
    <2>2. Script(it, r, tag, <<p>>, << >>, {})
        BY <1>2, Zenon DEF Script
    <2> HIDE DEF Packet
    <2> QED BY <2>1, <2>2, Zenon DEF Writes
<1>3. {"ERR_OK", "ERR_INVALID_ROOM", "ERR_INVALID_ROOM_PASSWORD",
       "ERR_NO_ROOM_JOINED", "ERR_NO_CLIENT_FOUND", "ERR_MSG_TO_SELF",
       "ERR_TOO_MUCH_CLIENTS"} \subseteq eChatErr
    BY DEF eChatErr
<1>4. r.op \notin {"CMSG_BROADCAST_MESSAGE", "CMSG_SAY"} => NoPost(it, r)
    BY DEF NoPost
<1>10. CASE r.op = "CMSG_ECHO_REQUEST" /\ CallHandlerEcho(it, tag)
    <2> DEFINE p == [op |-> "SMSG_ECHO_REQUEST", msg |-> tag]
    <2>1. p \in Packet
        BY PacketKinds
    <2>2. AnswerTo(it, r, tag, p)
        BY <1>10, AnswersByOpcode DEF AnswerTo, Explained
    <2> QED BY <1>2, <1>4, <1>10, <2>1, <2>2 DEF CallHandlerEcho
<1>11. CASE r.op = "CMSG_ADDITION_REQUEST" /\ CallHandlerAdd(it, tag)
    <2> DEFINE p == [op |-> "SMSG_ADDITION_REQUEST", msg |-> tag]
    <2>1. p \in Packet
        BY PacketKinds
    <2>2. AnswerTo(it, r, tag, p)
        BY <1>11, AnswersByOpcode DEF AnswerTo, Explained
    <2> QED BY <1>2, <1>4, <1>11, <2>1, <2>2 DEF CallHandlerAdd
<1>12. CASE r.op = "badtype" /\ CallHandlerAddThrows
    BY <1>12, Zenon DEF Writes
<1>13. CASE r.op = "CMSG_BROADCAST_MESSAGE" /\ CallHandlerBroadcast(it, tag)
    <2> DEFINE p == [op |-> "SMSG_BROADCAST", msg |-> tag]
               to == {client(j).ssl : j \in Enabled}
    <2>1. p \in Packet
        BY PacketKinds
    <2>2. PostTo(it, r, tag, p, to)
        BY <1>13 DEF PostTo
    <2>3. HandlerSends(c, << >>, <<p>>, to)
        BY <1>13 DEF CallHandlerBroadcast
    <2>4. Answers(r) = {}
        BY <1>13, AnswersByOpcode
    <2> HIDE DEF p, to, Packet
    <2>5. Script(it, r, tag, << >>, <<p>>, to)
        BY <2>1, <2>2, <2>4, Zenon DEF Script
    <2> QED BY <2>3, <2>5, Zenon DEF Writes
<1>14. CASE r.op = "CMSG_GET_CLIENT_LIST" /\ CallHandlerGetClientList(it)
    <2> DEFINE fits == Len(m_ClientSocket) <= MaxListed
               p == [op |-> "SMSG_CLIENT_LIST",
                     error |-> IF fits THEN "ERR_OK" ELSE "ERR_TOO_MUCH_CLIENTS",
                     list |-> IF fits THEN ClientList(it) ELSE << >>]
    <2>1. p \in Packet
        <3> DEFINE Entry == [clientID : Nat, you : BOOLEAN]
        <3>1. \A j \in 1..Len(m_ClientSocket) : client(j).clientID \in Nat
            <4>1. \A j \in 1..Len(m_ClientSocket) : client(j) \in ClientSocket
                BY ElementOfSeq DEF HandlerTypeOK, client
            <4> QED BY <4>1 DEF ClientSocket
        <3>2. Len(m_ClientSocket) \in Nat
            BY LenProperties DEF HandlerTypeOK
        <3>3. \A j \in 1..Len(m_ClientSocket) :
                [clientID |-> client(j).clientID,
                 you |-> client(j).clientID = client(it).clientID] \in Entry
            BY <3>1
        <3>4. ClientList(it) \in Seq(Entry)
            <4> HIDE DEF Entry
            <4> QED BY <3>2, <3>3 DEF ClientList
        <3>5. << >> \in Seq(Entry)
            BY EmptySeq
        <3> QED BY <1>3, <3>4, <3>5, PacketKinds
    <2>2. AnswerTo(it, r, tag, p)
        BY <1>14, AnswersByOpcode DEF AnswerTo, Explained
    <2> QED BY <1>2, <1>4, <1>14, <2>1, <2>2 DEF CallHandlerGetClientList
<1>15. CASE /\ r.op = "CMSG_SEND_MSG_TO_CLIENT"
            /\ CallHandlerMsgToClient(it, tag, r.clientID)
    <2> DEFINE m == [op |-> "SMSG_PRIVATE_MESSAGE", from |-> client(it).clientID,
                     msg |-> tag]
               status(error) == [op |-> "SMSG_PRIVATE_MSG_ERR", error |-> error]
               to == {client(j).ssl : j \in Found(r.clientID)}
    <2>1. m \in Packet
        <3>1. client(it).clientID \in Nat
            BY <1>1 DEF ClientSocket
        <3> QED BY <3>1, PacketKinds
    <2>2. \A error \in {"ERR_OK", "ERR_NO_CLIENT_FOUND", "ERR_MSG_TO_SELF"} :
            status(error) \in Packet /\ AnswerTo(it, r, tag, status(error))
        <3>1. \A error \in {"ERR_OK", "ERR_NO_CLIENT_FOUND", "ERR_MSG_TO_SELF"} :
                status(error) \in Packet
            BY <1>3, PacketKinds
        <3>2. \A error \in {"ERR_OK", "ERR_NO_CLIENT_FOUND", "ERR_MSG_TO_SELF"} :
                AnswerTo(it, r, tag, status(error))
            BY <1>15, AnswersByOpcode DEF AnswerTo, Explained
        <3> QED BY <3>1, <3>2
    <2>3. r.clientID # client(it).clientID => PostTo(it, r, tag, m, to)
        BY <1>15 DEF PostTo
    <2>4. \/ Reply(c, status("ERR_MSG_TO_SELF"))
          \/ Reply(c, status("ERR_NO_CLIENT_FOUND"))
          \/ /\ r.clientID # client(it).clientID
             /\ HandlerSends(c, <<status("ERR_OK")>>, <<m>>, to)
        BY <1>15 DEF CallHandlerMsgToClient, Reply
    <2> HIDE DEF m, to, status, Packet
    <2>5. CASE /\ r.clientID # client(it).clientID
               /\ HandlerSends(c, <<status("ERR_OK")>>, <<m>>, to)
        <3>1. Script(it, r, tag, <<status("ERR_OK")>>, <<m>>, to)
            BY <2>1, <2>2, <2>3, <2>5, Zenon DEF Script
        <3> QED BY <2>5, <3>1, Zenon DEF Writes
    <2> QED BY <1>2, <1>4, <1>15, <2>2, <2>4, <2>5
<1>16. CASE r.op = "CMSG_PING" /\ CallHandlerPong(it)
    <2> DEFINE p == [op |-> "SMSG_PONG"]
    <2>1. p \in Packet
        BY PacketKinds
    <2>2. AnswerTo(it, r, tag, p)
        BY <1>16, AnswersByOpcode DEF AnswerTo, Explained
    <2> QED BY <1>2, <1>4, <1>16, <2>1, <2>2 DEF CallHandlerPong
<1>17. CASE r.op = "CMSG_UPTIME" /\ CallHandlerUptime(it)
    <2> DEFINE p == [op |-> "SMSG_UPTIME"]
    <2>1. p \in Packet
        BY PacketKinds
    <2>2. AnswerTo(it, r, tag, p)
        BY <1>17, AnswersByOpcode DEF AnswerTo, Explained
    <2> QED BY <1>2, <1>4, <1>17, <2>1, <2>2 DEF CallHandlerUptime
<1>18. CASE r.op = "CMSG_INCREMENT_COUNTER" /\ incrementCounter
    <2>1. NoReply /\ Answers(r) = {}
        BY <1>18, AnswersByOpcode DEF incrementCounter
    <2> QED BY <1>4, <1>18, <2>1 DEF Writes
<1>19. CASE r.op = "CMSG_GET_COUNTER" /\ CallHandlerGetCounter(it)
    <2> DEFINE p == [op |-> "SMSG_COUNTER", value |-> m_Counter]
    <2>1. p \in Packet
        <3>1. m_Counter \in Nat
            BY HandlersAssumption DEF HandlerTypeOK
        <3> QED BY <3>1, PacketKinds
    <2>2. AnswerTo(it, r, tag, p)
        BY <1>19, AnswersByOpcode DEF AnswerTo, Explained
    <2> QED BY <1>2, <1>4, <1>19, <2>1, <2>2 DEF CallHandlerGetCounter
<1>20. CASE r.op = "CMSG_GET_CHAT_ROOMS" /\ CallHandlerGetChatRooms(it)
    <2> DEFINE Entry == [id : RoomID, name : Name, open : BOOLEAN]
               rooms == getChatRoomsStr(m_ChatRooms)
               p == [op |-> "SMSG_MESSAGE", rooms |-> rooms]
    <2>1. rooms \in SUBSET Entry
        <3>1. \A q \in DOMAIN m_ChatRooms :
                q \in RoomID /\ m_ChatRooms[q].name \in Name
            BY DEF HandlerTypeOK, IsChatRooms, ChatRoom
        <3>2. \A q \in DOMAIN m_ChatRooms :
                [id |-> q, name |-> m_ChatRooms[q].name,
                 open |-> m_ChatRooms[q].passwordHash = << >>] \in Entry
            BY <3>1
        <3> HIDE DEF Entry
        <3> QED BY <3>2, Zenon DEF getChatRoomsStr
    <2>2. p \in Packet
        BY <2>1, PacketKinds
    <2>3. AnswerTo(it, r, tag, p)
        <3> HIDE DEF rooms
        <3> QED BY <1>20, AnswersByOpcode DEF AnswerTo, Explained
    <2> QED BY <1>2, <1>4, <1>20, <2>2, <2>3 DEF CallHandlerGetChatRooms
<1>21. CASE r.op = "CMSG_GET_ROOM_INFO" /\ CallHandlerGetRoominfo(it)
    <2> DEFINE id == client(it).joinedChatRoomID
               m1 == [op |-> "SMSG_MESSAGE", text |-> "No joined room"]
               m2 == [op |-> "SMSG_MESSAGE", text |-> "Invalid room"]
               m3 == [op |-> "SMSG_MESSAGE", joined |-> getRoomName(m_ChatRooms, id)]
    <2>1. m1 \in Packet /\ m2 \in Packet
        BY PacketKinds
    <2>2. checkRoomID(m_ChatRooms, id) => m3 \in Packet
        <3>1. checkRoomID(m_ChatRooms, id) => getRoomName(m_ChatRooms, id) \in Name
            BY DEF checkRoomID, getRoomName, HandlerTypeOK, IsChatRooms, ChatRoom
        <3> QED BY <3>1, PacketKinds
    <2>3. /\ AnswerTo(it, r, tag, m1) /\ AnswerTo(it, r, tag, m2)
          /\ AnswerTo(it, r, tag, m3)
        BY <1>21, AnswersByOpcode DEF AnswerTo, Explained
    <2>4. Reply(c, IF ~client(it).chatRoomJoined THEN m1
                   ELSE IF ~checkRoomID(m_ChatRooms, id) THEN m2 ELSE m3)
        BY <1>21 DEF CallHandlerGetRoominfo
    <2> HIDE DEF m1, m2, m3, id, Packet
    <2> QED BY <1>2, <1>4, <1>21, <2>1, <2>2, <2>3, <2>4
<1>22. CASE r.op = "CMSG_JOIN_ROOM" /\ CallHandlerJoinRoom(it, r)
    <2> DEFINE ok == [op |-> "SMSG_JOIN_CHAT_ROOM_OK", room |-> r.room]
               refusal(error) == [op |-> "SMSG_JOIN_CHAT_ROOM_ERR", error |-> error]
    <2>1. r.room \in RoomID
        BY <1>22, RequestAssumption DEF PlainRequest, JoinRequest, PrivateRequest
    <2>2. PICK error \in JoinErrors(r) :
            \/ error = "ERR_OK" /\ Reply(c, ok)
            \/ error # "ERR_OK" /\ Reply(c, refusal(error))
        BY <1>22 DEF CallHandlerJoinRoom
    <2>3. error \in {"ERR_OK", "ERR_INVALID_ROOM", "ERR_INVALID_ROOM_PASSWORD"}
        BY DEF JoinErrors
    <2>4. ok \in Packet /\ AnswerTo(it, r, tag, ok)
        <3>1. ok \in Packet
            BY <2>1, PacketKinds
        <3>2. AnswerTo(it, r, tag, ok)
            BY <1>22, AnswersByOpcode DEF AnswerTo, Explained
        <3> QED BY <3>1, <3>2
    <2>5. error # "ERR_OK" =>
            refusal(error) \in Packet /\ AnswerTo(it, r, tag, refusal(error))
        <3>1. refusal(error) \in Packet
            BY <1>3, <2>3, PacketKinds
        <3>2. error # "ERR_OK" => AnswerTo(it, r, tag, refusal(error))
            BY <1>22, <2>3, AnswersByOpcode DEF AnswerTo, Explained
        <3> QED BY <3>1, <3>2
    <2> HIDE DEF ok, refusal, Packet
    <2> QED BY <1>2, <1>4, <1>22, <2>2, <2>4, <2>5
<1>23. CASE r.op = "CMSG_SAY" /\ CallHandlerSay(it, tag)
    <2> DEFINE room == client(it).joinedChatRoomID
               m == [op |-> "SMSG_SAY", msg |-> tag, room |-> room]
               ok == [op |-> "SMSG_SAY_OK"]
               refusal(error) == [op |-> "SMSG_SAY_ERR", error |-> error]
    <2>1. m \in Packet /\ ok \in Packet
        <3>1. room \in RoomID
            BY <1>1 DEF ClientSocket
        <3> QED BY <3>1, PacketKinds
    <2>2. AnswerTo(it, r, tag, ok)
        BY <1>23, AnswersByOpcode DEF AnswerTo, Explained
    <2>3. \A error \in {"ERR_INVALID_ROOM", "ERR_NO_ROOM_JOINED"} :
            refusal(error) \in Packet /\ AnswerTo(it, r, tag, refusal(error))
        <3>1. \A error \in {"ERR_INVALID_ROOM", "ERR_NO_ROOM_JOINED"} :
                refusal(error) \in Packet
            BY <1>3, PacketKinds
        <3>2. \A error \in {"ERR_INVALID_ROOM", "ERR_NO_ROOM_JOINED"} :
                AnswerTo(it, r, tag, refusal(error))
            BY <1>23, AnswersByOpcode DEF AnswerTo, Explained
        <3> QED BY <3>1, <3>2
    <2>4. client(it).chatRoomJoined => PostTo(it, r, tag, m, RoomMembers(room))
        BY <1>23 DEF PostTo
    <2>5. \/ /\ client(it).chatRoomJoined
             /\ HandlerSends(c, <<ok>>, <<m>>, RoomMembers(room))
          \/ /\ NoPost(it, r)
             /\ \E error \in {"ERR_INVALID_ROOM", "ERR_NO_ROOM_JOINED"} :
                    Reply(c, refusal(error))
        BY <1>23 DEF CallHandlerSay, NoPost
    <2> HIDE DEF m, ok, refusal, room, Packet
    <2>6. CASE /\ client(it).chatRoomJoined
               /\ HandlerSends(c, <<ok>>, <<m>>, RoomMembers(room))
        <3>1. Script(it, r, tag, <<ok>>, <<m>>, RoomMembers(room))
            BY <2>1, <2>2, <2>4, <2>6, Zenon DEF Script
        <3> QED BY <2>6, <3>1, Zenon DEF Writes
    <2> QED BY <1>2, <1>23, <2>3, <2>5, <2>6
<1>24. CASE r.op = "unknown" /\ UnknownOpcode(it)
    <2> DEFINE p == [op |-> "SMSG_MESSAGE", text |-> "Unknown or unhandled opcode."]
    <2>1. p \in Packet
        BY PacketKinds
    <2>2. AnswerTo(it, r, tag, p)
        BY <1>24, AnswersByOpcode DEF AnswerTo, Explained
    <2> QED BY <1>2, <1>4, <1>24, <2>1, <2>2 DEF UnknownOpcode
<1>25. CASE r.op = "short" /\ LengthRefused
    <2>1. NoReply /\ Answers(r) = {}
        BY <1>25, AnswersByOpcode DEF LengthRefused
    <2> QED BY <1>4, <1>25, <2>1 DEF Writes
<1>26. CASE r.op = "runt" /\ InvalidPacket(it)
    <2> DEFINE p == [op |-> "Invalid packet."]
    <2>1. p \in Packet
        BY PacketKinds
    <2>2. AnswerTo(it, r, tag, p)
        BY <1>26, AnswersByOpcode DEF AnswerTo, Explained
    <2> QED BY <1>2, <1>4, <1>26, <2>1, <2>2 DEF InvalidPacket
<1> QED
    BY <1>10, <1>11, <1>12, <1>13, <1>14, <1>15, <1>16, <1>17, <1>18, <1>19,
       <1>20, <1>21, <1>22, <1>23, <1>24, <1>25, <1>26, Zenon
    DEF CallHandler

\* Those a script is addressed to are clients.
LEMMA ScriptReceivers ==
    ASSUME HandlerTypeOK, it \in 1..Len(m_ClientSocket), NEW r, NEW tag,
           NEW direct, NEW fan, NEW to, Script(it, r, tag, direct, fan, to)
    PROVE  /\ client(it).ssl \in Conn
           /\ to \subseteq Registered /\ Registered \subseteq Conn
<1>1. \A j \in 1..Len(m_ClientSocket) :
            client(j).ssl \in Conn /\ client(j).ssl \in Registered
    <2>1. \A j \in 1..Len(m_ClientSocket) : client(j) \in ClientSocket
        BY ElementOfSeq DEF HandlerTypeOK, client
    <2> QED BY <2>1 DEF ClientSocket, Registered, client
<1>2. Registered \subseteq Conn
    BY <1>1 DEF Registered, client
<1>3. to \subseteq {client(j).ssl : j \in 1..Len(m_ClientSocket)}
    BY DEF Script, PostTo, Enabled, RoomMembers, Found
<1> QED BY <1>1, <1>2, <1>3

\* The other end of a connection changes, if at all, from "fin" to "rst".
PeersKept ==
    \A d \in Conn : peer'[d] = peer[d] \/ (peer[d] = "fin" /\ peer'[d] = "rst")

\* PeerAfterWrites does no more than that.
LEMMA WritesKeepPeers ==
    ASSUME peer \in [Conn -> PeerState], NEW to, peer' \in PeerAfterWrites(to)
    PROVE  PeersKept
    BY DEF PeerAfterWrites, PeersKept

\* A handler goes on to the next client, or it is killed by a write to somebody
\* who has left, or it was given a type it does not know.
LEMMA WritesEnd ==
    ASSUME NetTypeOK, HandlerTypeOK, it \in 1..Len(m_ClientSocket),
           pc = "process", NEW r, NEW tag, Writes(it, r, tag)
    PROVE  /\ PeersKept
           /\ pc' \in {"process", "killed", "aborted"}
           /\ pc' = "process" => it' = it + 1
           /\ pc' = "killed" => \E d \in Conn : peer'[d] \in {"fin", "rst"}
           /\ pc' = "aborted" => r.op = "badtype"
<1>t. peer \in [Conn -> PeerState]
    BY DEF NetTypeOK
<1>1. CASE r.op = "badtype" /\ CallHandlerAddThrows
    BY <1>1 DEF CallHandlerAddThrows, PeersKept
<1>2. CASE NoReply
    BY <1>2 DEF NoReply, PeersKept
<1>3. ASSUME NEW direct, NEW fan, NEW to, Script(it, r, tag, direct, fan, to),
             HandlerSends(client(it).ssl, direct, fan, to)
      PROVE  /\ PeersKept
             /\ pc' \in {"process", "killed", "aborted"}
             /\ pc' = "process" => it' = it + 1
             /\ pc' = "killed" => \E d \in Conn : peer'[d] \in {"fin", "rst"}
             /\ pc' # "aborted"
    <2> DEFINE c == client(it).ssl
               targets == to \cup (IF direct = << >> THEN {} ELSE {c})
    <2>1. c \in Conn /\ to \subseteq Conn
        BY <1>3, ScriptReceivers
    <2>2. CASE peer' \in PeerAfterWrites(targets) /\ it' = it + 1 /\ pc' = pc
        BY <1>t, <2>2, WritesKeepPeers
    <2>3. CASE peer[c] = "rst" /\ Killed /\ UNCHANGED peer
        BY <2>1, <2>3 DEF Killed, PeersKept
    <2>4. CASE /\ \E d \in to : peer[d] = "rst" \/ (d = c /\ peer[c] = "fin")
               /\ Killed
               /\ UNCHANGED peer
        BY <2>1, <2>4 DEF Killed, PeersKept
    <2>5. \/ peer' \in PeerAfterWrites(targets) /\ it' = it + 1 /\ pc' = pc
          \/ peer[c] = "rst" /\ Killed /\ UNCHANGED peer
          \/ /\ \E d \in to : peer[d] = "rst" \/ (d = c /\ peer[c] = "fin")
             /\ Killed
             /\ UNCHANGED peer
        BY <1>3, Zenon DEF HandlerSends
    <2> QED BY <2>2, <2>3, <2>4, <2>5
<1> QED BY <1>1, <1>2, <1>3 DEF Writes

\* ProcessRequests' call of a handler: the request is the next one of the client
\* at the iterator, and the handler writes what it calls for.
LEMMA RequestWrites ==
    ASSUME TypeOK, HandleRequest
    PROVE  /\ it \in 1..Len(m_ClientSocket)
           /\ m_ClientSocket[it] \in ClientSocket
           /\ \E c \in Conn, n \in Nat \ {0} :
                /\ c = m_ClientSocket[it].ssl
                /\ n = read[c] + 1 /\ n <= Len(sent[c])
                /\ sent[c][n] \in Request
                /\ read' = [read EXCEPT ![c] = n]
                /\ Writes(it, sent[c][n], <<c, n>>)
<1> DEFINE c == m_ClientSocket[it].ssl
           n == read[c] + 1
<1>1. it \in 1..Len(m_ClientSocket)
    BY LenProperties DEF HandleRequest, AtClient, TypeOK, HandlerTypeOK
<1>2. m_ClientSocket[it] \in ClientSocket
    BY <1>1, ElementOfSeq DEF TypeOK, HandlerTypeOK
<1>3. c \in Conn
    BY <1>2 DEF ClientSocket
<1>4. /\ n \in Nat \ {0} /\ n <= Len(sent[c])
      /\ sent[c][n] \in Request /\ <<c, n>> \in Tag
    BY <1>3 DEF HandleRequest, Waiting, TypeOK, NetTypeOK, Tag
<1>5. read' = [read EXCEPT ![c] = n]
    BY DEF HandleRequest
<1>6. \/ CallHandler(it, sent[c][n], <<c, n>>)
      \/ sent[c][n].op = "runt" /\ InvalidPacket(it)
    BY DEF HandleRequest
<1>7. Writes(it, sent[c][n], <<c, n>>)
    BY <1>1, <1>4, <1>6, HandlerWrites DEF TypeOK
<1> HIDE DEF c, n
<1> QED BY <1>1, <1>2, <1>3, <1>4, <1>5, <1>7 DEF c, n

----------------------------------------------------------------------------
(* The clients held and what select said of them.                          *)

\* No connection is held twice.
HeldOnce == \A i, j \in 1..Len(Held) : Held[i].ssl = Held[j].ssl => i = j

\* No client is held at first.
LEMMA HeldOnceInit == Init => HeldOnce
<1> SUFFICES ASSUME Init PROVE HeldOnce
    OBVIOUS
<1>1. Held = << >>
    BY DEF Held, Init
<1> QED BY <1>1 DEF HeldOnce

\* accept takes a connection that was never held before.
LEMMA HeldOnceNext ==
    ASSUME TypeOK, TypeOK', IDInv, HeldOnce, [Next]_vars
    PROVE  HeldOnce'
<1> HIDE DEF Packet, ClientSocket
<1>1. CASE UNCHANGED <<m_ClientSocket, newClient>>
    <2>1. Held' = Held
        BY <1>1 DEF Held
    <2> HIDE DEF Held
    <2> QED BY <2>1 DEF HeldOnce
<1>2. CASE ClosingRequested \/ CloseServer
    BY <1>1, <1>2 DEF ClosingRequested, CloseServer
<1>3. CASE HandleRequest \/ InitSSLSucceeds
    <2>1. HeldSame
        BY <1>3, HeldKept
    <2> HIDE DEF Held
    <2> QED BY <2>1 DEF HeldOnce, HeldSame
<1>4. CASE Accept
    <2>1. /\ Len(Held) \in Nat
          /\ Len(Held') = Len(Held) + 1
          /\ \A i \in 1..Len(Held) : Held'[i] = Held[i]
          /\ Held'[Len(Held) + 1] = newClient'[1]
        BY <1>4, HeldAdded
    <2>2. \A i \in 1..Len(Held') : i \in 1..Len(Held) \/ i = Len(Held) + 1
        BY <2>1
    <2>3. newClient'[1].ssl \in Queued
        <3>1. backlog \in Seq(Conn) /\ backlog # << >>
            BY <1>4 DEF Accept, TypeOK, NetTypeOK
        <3>2. Head(backlog) = backlog[1] /\ 1 \in 1..Len(backlog)
            BY <3>1
        <3>3. newClient'[1].ssl = Head(backlog)
            BY <1>4 DEF Accept
        <3> QED BY <3>2, <3>3 DEF Queued
    <2> HIDE DEF Held, Queued
    <2>4. \A i \in 1..Len(Held) : Held[i].ssl # newClient'[1].ssl
        BY <2>3 DEF IDInv, ClientIDs, ConnectionsOnce
    <2> QED BY <2>1, <2>2, <2>4 DEF HeldOnce
<1>5. CASE InitSSLFails \/ Disconnect
    <2>1. PICK p \in 1..Len(Held) :
            /\ Len(Held) \in Nat
            /\ Len(Held') = Len(Held) - 1
            /\ \A k \in 1..Len(Held') : Held'[k] = Held[IF k < p THEN k ELSE k + 1]
        BY <1>5, HeldRemoved
    <2> DEFINE from(k) == IF k < p THEN k ELSE k + 1
    <2>2. /\ \A k \in 1..Len(Held') : from(k) \in 1..Len(Held)
          /\ \A k, m \in 1..Len(Held') : from(k) = from(m) => k = m
        BY <2>1
    <2>3. \A k \in 1..Len(Held') : Held'[k] = Held[from(k)]
        BY <2>1
    <2> HIDE DEF Held, from
    <2> QED BY <2>2, <2>3 DEF HeldOnce
<1> QED BY <1>1, <1>2, <1>3, <1>4, <1>5, StepKinds

\* The server is in state STARTED until the loop ends, which needs a request.
LoopState ==
    /\ pc \in {"pool", "accept", "handshake", "process", "main"}
        => m_ServerState = "STARTED"
    /\ pc \in {"closing", "exit"} => closingRequested

\* Between select and the end of ProcessRequests no bit of m_Readfds is that of
\* a descriptor opened since, and a client still to be looked at whose bit is set
\* has something to be read, unless the bits are those of an interrupted select.
BitsExplained ==
    /\ pc = "accept" => m_Readfds \subseteq DOMAIN sock \cup {m_MasterSocket}
    /\ pc \in {"accept", "handshake", "process"} /\ ~closingRequested =>
        \A i \in 1..Len(Held) :
            (pc = "process" => it <= i) /\ Held[i].socket \in m_Readfds
                => Readable(Held[i].ssl)

\* BitsExplained and EndsExplained are inductive together with LoopState.
LoopInv == LoopState /\ BitsExplained /\ EndsExplained

\* Outside a handshake the clients held are those of the vector.
LEMMA HeldIsVector ==
    ASSUME TypeOK, pc # "handshake"
    PROVE  newClient = << >> /\ Held = m_ClientSocket
<1> HIDE DEF ClientSocket
<1>1. /\ m_ClientSocket \in Seq(ClientSocket)
      /\ newClient \in Seq(ClientSocket) /\ Len(newClient) = 0
    BY DEF TypeOK, HandlerTypeOK, LoopTypeOK
<1>2. newClient = << >>
    BY <1>1
<1> QED BY <1>1, <1>2, ConcatEmptySeq DEF Held

\* The clients held have the type of a client.
LEMMA HeldType ==
    ASSUME TypeOK
    PROVE  /\ Len(Held) \in Nat
           /\ \A i \in 1..Len(Held) : /\ Held[i].socket \in Fd
                                      /\ Held[i].ssl \in Conn
                                      /\ Held[i].socket # m_MasterSocket
<1>1. Held \in Seq(ClientSocket)
    <2>1. /\ m_ClientSocket \in Seq(ClientSocket)
          /\ newClient \in Seq(ClientSocket)
        BY DEF TypeOK, HandlerTypeOK, LoopTypeOK
    <2> HIDE DEF ClientSocket
    <2> QED BY <2>1, ConcatProperties DEF Held
<1>2. Len(Held) \in Nat /\ \A i \in 1..Len(Held) : Held[i] \in ClientSocket
    <2> HIDE DEF Held, ClientSocket
    <2> QED BY <1>1, ElementOfSeq, LenProperties
<1>3. \A i \in 1..Len(Held) : Held[i].socket \in Fd /\ Held[i].ssl \in Conn
    <2> HIDE DEF Held
    <2> QED BY <1>2 DEF ClientSocket
<1>4. \A fd \in Fd : fd # m_MasterSocket
    BY HandlersAssumption DEF m_MasterSocket
<1> QED BY <1>2, <1>3, <1>4

\* What there is to read from c stays there until c is read from.
LEMMA ReadableKept ==
    ASSUME NetTypeOK, NEW c \in Conn, Readable(c), PeersKept,
           UNCHANGED <<partial, sent>>, read'[c] = read[c]
    PROVE  Readable(c)'
    BY DEF NetTypeOK, Readable, Waiting, Connected, PeersKept

\* Neither clients nor the network take it back.
LEMMA ReadableStays ==
    ASSUME NetTypeOK, NEW c \in Conn, Readable(c), peer[c] # "none",
           NEW d \in Conn,
           Connect(d) \/ SendHead(d) \/ Stall(d) \/ Close(d)
             \/ (\E r \in Request : Send(d, r))
    PROVE  Readable(c)'
<1> USE DEF NetTypeOK, Readable, Waiting
<1> HIDE DEF Packet
<1>1. CASE Connect(d)
    BY <1>1 DEF Connect, Connected
<1>2. CASE SendHead(d)
    BY <1>2 DEF SendHead, Connected
<1>3. CASE Stall(d)
    BY <1>3 DEF Stall, Connected
<1>4. CASE Close(d)
    BY <1>4 DEF Close, Connected
<1>5. ASSUME NEW r \in Request, Send(d, r) PROVE Readable(c)'
    <2>1. /\ sent' = [sent EXCEPT ![d] = Append(sent[d], r)]
          /\ partial' = [partial EXCEPT ![d] = FALSE]
          /\ UNCHANGED <<peer, read>>
        BY <1>5 DEF Send
    <2>2. Len(Append(sent[d], r)) = Len(sent[d]) + 1
        BY AppendProperties
    <2>3. read[d] \in Nat /\ Len(sent[d]) \in Nat /\ read[d] <= Len(sent[d])
        BY LenProperties
    <2>4. CASE c = d
        BY <2>1, <2>2, <2>3, <2>4
    <2>5. CASE c # d
        BY <2>1, <2>5 DEF Connected
    <2> QED BY <2>4, <2>5
<1> QED BY <1>1, <1>2, <1>3, <1>4, <1>5

\* select has said nothing, and the process has not ended, at first.
LEMMA LoopInit == Init => LoopInv
    BY DEF Init, LoopInv, LoopState, BitsExplained, EndsExplained

\* A step that does not end the process has nothing to explain.
LEMMA StillRunning ==
    ASSUME pc' \notin {"exit", "killed", "aborted", "crashed"}
    PROVE  EndsExplained'
    BY DEF EndsExplained

\* A disconnect has its reason: what select said, or an interrupted select.
LEMMA DisconnectReason ==
    ASSUME TypeOK, BitsExplained, Disconnect
    PROVE  /\ it \in 1..Len(m_ClientSocket)
           /\ m_ClientSocket[it].ssl \in Conn
           /\ LET c == m_ClientSocket[it].ssl
              IN  ~Connected(c) \/ partial[c] \/ closingRequested
<1> DEFINE c == m_ClientSocket[it].ssl
<1>1. pc = "process" /\ it \in 1..Len(m_ClientSocket)
    BY LenProperties DEF Disconnect, AtClient, TypeOK, HandlerTypeOK
<1>2. Held = m_ClientSocket
    BY <1>1, HeldIsVector
<1>3. c \in Conn
    BY <1>1, <1>2, HeldType
<1>4. m_ClientSocket[it].socket \in m_Readfds /\ ~Waiting(c)
    BY DEF Disconnect
<1>5. ~closingRequested => Readable(c)
    BY <1>1, <1>2, <1>4 DEF BitsExplained, TypeOK, HandlerTypeOK
<1> QED BY <1>1, <1>3, <1>4, <1>5 DEF Readable

\* Every step keeps what select said explained, and ends with its culprit.
LEMMA LoopNext ==
    ASSUME TypeOK, TypeOK', SocketTable, IDInv, HeldOnce, LoopInv, [Next]_vars
    PROVE  LoopInv'
<1> HIDE DEF Packet, ClientSocket
<1> USE DEF LoopInv
<1>n. NetTypeOK /\ peer \in [Conn -> PeerState] /\ closingRequested \in BOOLEAN
    BY DEF TypeOK, NetTypeOK, LoopTypeOK
<1>h. /\ Len(Held) \in Nat
      /\ \A i \in 1..Len(Held) : /\ Held[i].socket \in Fd
                                 /\ Held[i].ssl \in Conn
                                 /\ Held[i].socket # m_MasterSocket
    BY HeldType
<1>p. \A i \in 1..Len(Held) : peer[Held[i].ssl] # "none"
    <2> HIDE DEF Held
    <2> QED BY DEF IDInv, ClientIDs, ConnectionsOnce
<1>w. ASSUME pc = "pool"
      PROVE  /\ Watched \subseteq DOMAIN sock \cup {m_MasterSocket}
             /\ \A i \in 1..Len(Held) : /\ Held[i].socket \in DOMAIN sock
                                        /\ sock[Held[i].socket] = Held[i].ssl
    <2>1. Held = m_ClientSocket /\ m_ServerState = "STARTED"
        BY <1>w, HeldIsVector DEF LoopState
    <2>2. \A i \in 1..Len(Held) : /\ Held[i].socket \in DOMAIN sock
                                  /\ sock[Held[i].socket] = Held[i].ssl
        <3> HIDE DEF Held
        <3> QED BY <2>1 DEF SocketTable
    <2>3. Watched = {m_MasterSocket} \cup {Held[i].socket : i \in 1..Len(Held)}
        BY <2>1 DEF Watched
    <2> HIDE DEF Held
    <2> QED BY <2>2, <2>3
<1>r. UNCHANGED netVars => \A c : Readable(c) => Readable(c)'
    BY DEF netVars, Readable, Waiting, Connected
<1>1. CASE PoolActivity
    <2>1. /\ pc = "pool" /\ pc' = "accept" /\ m_Readfds' = Ready
          /\ UNCHANGED <<netVars, sock, m_ServerState, closingRequested>>
          /\ Held' = Held
        BY <1>1 DEF PoolActivity, Held
    <2>2. Ready \subseteq Watched
        BY DEF Ready, Selected
    <2>3. \A i \in 1..Len(Held) : Held[i].socket \in Ready => Readable(Held[i].ssl)
        <3> HIDE DEF Held
        <3> QED BY <1>h, <1>w, <2>1 DEF Ready, Selected
    <2> HIDE DEF Held
    <2>4. BitsExplained'
        BY <1>r, <1>w, <2>1, <2>2, <2>3 DEF BitsExplained
    <2> QED BY <2>1, <2>4, StillRunning DEF LoopState
<1>2. CASE PoolInterrupted
    <2>1. /\ pc = "pool" /\ pc' = "accept" /\ m_Readfds' = Watched
          /\ closingRequested' = TRUE /\ UNCHANGED <<sock, m_ServerState>>
        BY <1>2 DEF PoolInterrupted
    <2>2. BitsExplained'
        BY <1>w, <2>1 DEF BitsExplained
    <2> QED BY <2>1, <2>2, StillRunning DEF LoopState
<1>3. CASE NothingToAccept \/ AcceptFails
    <2>1. /\ pc = "accept" /\ pc' = "process" /\ it' = 1
          /\ UNCHANGED <<netVars, m_Readfds, closingRequested, m_ServerState>>
          /\ Held' = Held
        BY <1>3 DEF NothingToAccept, AcceptFails, BeginProcess, loopVars, Held
    <2> HIDE DEF Held
    <2>2. BitsExplained'
        BY <1>r, <2>1 DEF BitsExplained
    <2> QED BY <2>1, <2>2, StillRunning DEF LoopState
<1>4. CASE Accept
    <2>1. /\ pc = "accept" /\ pc' = "handshake"
          /\ UNCHANGED <<peer, partial, sent, read, m_Readfds, closingRequested,
                         m_ServerState>>
        BY <1>4 DEF Accept
    <2>2. newClient'[1].socket \in Fd \ DOMAIN sock
        BY <1>4 DEF Accept
    <2>3. newClient'[1].socket \notin m_Readfds
        BY <2>1, <2>2, HandlersAssumption DEF BitsExplained, m_MasterSocket
    <2>4. /\ Len(Held') = Len(Held) + 1
          /\ \A i \in 1..Len(Held) : Held'[i] = Held[i]
          /\ Held'[Len(Held) + 1] = newClient'[1]
        BY <1>4, HeldAdded
    <2>5. \A i \in 1..Len(Held') : i \in 1..Len(Held) \/ i = Len(Held) + 1
        BY <1>h, <2>4
    <2>6. \A c : Readable(c) => Readable(c)'
        BY <2>1 DEF Readable, Waiting, Connected
    <2> HIDE DEF Held
    <2>7. BitsExplained'
        BY <2>1, <2>3, <2>4, <2>5, <2>6 DEF BitsExplained
    <2> QED BY <2>1, <2>7, StillRunning DEF LoopState
<1>5. CASE InitSSLFails
    <2>1. /\ pc = "handshake" /\ pc' = "process" /\ it' = 1
          /\ UNCHANGED <<netVars, m_Readfds, closingRequested, m_ServerState>>
        BY <1>5 DEF InitSSLFails, BeginProcess
    <2>2. \A k \in 1..Len(Held') : \E i \in 1..Len(Held) : Held'[k] = Held[i]
        <3>1. PICK p \in 1..Len(Held) :
                /\ Len(Held') = Len(Held) - 1
                /\ \A k \in 1..Len(Held') : Held'[k] = Held[IF k < p THEN k ELSE k + 1]
            BY <1>5, HeldRemoved
        <3>2. \A k \in 1..Len(Held') : (IF k < p THEN k ELSE k + 1) \in 1..Len(Held)
            BY <1>h, <3>1
        <3> QED BY <3>1, <3>2
    <2> HIDE DEF Held
    <2>3. BitsExplained'
        BY <1>r, <2>1, <2>2 DEF BitsExplained
    <2> QED BY <2>1, <2>3, StillRunning DEF LoopState
<1>6. CASE InitSSLSucceeds
    <2> DEFINE c == newClient[1].ssl
    <2>1. /\ pc = "handshake"
          /\ UNCHANGED <<partial, sent, read, m_Readfds, closingRequested,
                         m_ServerState>>
          /\ SendMOTD(c)
        BY <1>6 DEF InitSSLSucceeds
    <2>2. c \in Conn
        <3>1. newClient \in Seq(ClientSocket) /\ Len(newClient) = 1
            BY <2>1 DEF TypeOK, LoopTypeOK
        <3>2. newClient[1] \in ClientSocket
            BY <3>1
        <3> QED BY <3>2 DEF ClientSocket
    <2>3. HeldSame
        BY <1>6, HeldKept
    <2>4. CASE peer' \in PeerAfterWrites({c}) /\ BeginProcess
        <3>1. PeersKept
            BY <1>n, <2>4, WritesKeepPeers
        <3>2. \A d \in Conn : Readable(d) => Readable(d)'
            BY <1>n, <2>1, <3>1, ReadableKept
        <3>3. pc' = "process" /\ it' = 1
            BY <2>4 DEF BeginProcess
        <3> HIDE DEF Held
        <3>4. BitsExplained'
            BY <1>h, <2>1, <2>3, <3>2, <3>3 DEF BitsExplained, HeldSame
        <3> QED BY <2>1, <3>3, <3>4, StillRunning DEF LoopState
    <2>5. CASE peer[c] = "fin" /\ Killed /\ UNCHANGED peer
        BY <2>2, <2>5 DEF Killed, LoopState, BitsExplained, EndsExplained
    <2> QED BY <2>1, <2>4, <2>5 DEF SendMOTD
<1>7. CASE NotReadable
    <2>1. /\ pc = "process" /\ pc' = pc /\ it' = it + 1
          /\ UNCHANGED <<netVars, m_Readfds, closingRequested, m_ServerState>>
          /\ Held' = Held
        BY <1>7 DEF NotReadable, AtClient, loopVars, Held
    <2>2. it \in Nat
        BY DEF TypeOK, HandlerTypeOK
    <2> HIDE DEF Held
    <2>3. BitsExplained'
        BY <1>h, <1>r, <2>1, <2>2 DEF BitsExplained
    <2> QED BY <2>1, <2>3, StillRunning DEF LoopState
<1>8. CASE HandleRequest
    <2>1. /\ pc = "process" /\ UNCHANGED <<partial, sent, m_Readfds,
                                closingRequested, m_ServerState>>
        BY <1>8 DEF HandleRequest, AtClient, loopVars
    <2>2. PICK c \in Conn, n \in Nat \ {0} :
            /\ c = m_ClientSocket[it].ssl
            /\ n = read[c] + 1
            /\ read' = [read EXCEPT ![c] = n]
            /\ Writes(it, sent[c][n], <<c, n>>)
        BY <1>8, RequestWrites
    <2>3. it \in 1..Len(m_ClientSocket)
        BY <1>8, RequestWrites
    <2>4. /\ PeersKept
          /\ pc' \in {"process", "killed", "aborted"}
          /\ pc' = "process" => it' = it + 1
          /\ pc' = "killed" => \E d \in Conn : peer'[d] \in {"fin", "rst"}
          /\ pc' = "aborted" => sent[c][n].op = "badtype"
        BY <2>1, <2>2, <2>3, WritesEnd DEF TypeOK
    <2>5. HeldSame
        BY <1>8, HeldKept
    <2>6. read'[c] = n /\ \A d \in Conn : d # c => read'[d] = read[d]
        BY <1>n, <2>2 DEF NetTypeOK
    <2>7. \A d \in Conn : d # c /\ Readable(d) => Readable(d)'
        BY <1>n, <2>1, <2>4, <2>6, ReadableKept
    <2>8. Held = m_ClientSocket
        BY <2>1, HeldIsVector
    <2>9. \A i \in 1..Len(Held) : it + 1 <= i => it <= i /\ Held[i].ssl # c
        BY <2>2, <2>3, <2>8 DEF HeldOnce
    <2> HIDE DEF Held
    <2>10. BitsExplained'
        BY <1>h, <2>1, <2>4, <2>5, <2>7, <2>9 DEF BitsExplained, HeldSame
    <2>11. EndsExplained'
        BY <2>1, <2>2, <2>4, <2>6 DEF EndsExplained
    <2> QED BY <2>1, <2>4, <2>10, <2>11 DEF LoopState
<1>9. CASE Disconnect
    <2>1. /\ pc = "process" /\ pc' \in {"process", "crashed"} /\ it' = it
          /\ UNCHANGED <<netVars, m_Readfds, closingRequested, m_ServerState>>
          /\ m_ClientSocket' = Erased(it)
        BY <1>9 DEF Disconnect, AtClient, IteratorAfterErase
    <2> DEFINE c == m_ClientSocket[it].ssl
    <2>2. /\ it \in 1..Len(m_ClientSocket) /\ c \in Conn
          /\ ~Connected(c) \/ partial[c] \/ closingRequested
        BY <1>9, DisconnectReason
    <2>3. Held = m_ClientSocket /\ Held' = Erased(it)
        <3>1. Held = m_ClientSocket
            BY <2>1, HeldIsVector
        <3>2. newClient' = << >>
            BY <1>9, <2>1, HeldIsVector DEF Disconnect
        <3>3. m_ClientSocket' \in Seq(ClientSocket)
            BY DEF TypeOK, HandlerTypeOK
        <3> QED BY <2>1, <3>1, <3>2, <3>3, ConcatEmptySeq DEF Held
    <2>4. /\ Len(Held') = Len(Held) - 1
          /\ \A k \in 1..Len(Held') : Held'[k] = Held[IF k < it THEN k ELSE k + 1]
        BY <2>2, <2>3, ErasedProperties DEF TypeOK, HandlerTypeOK
    <2>5. peer[c] # "none"
        BY <1>p, <2>2, <2>3
    <2>6. \A k \in 1..Len(Held') : it <= k =>
            /\ k + 1 \in 1..Len(Held) /\ it <= k + 1
            /\ Held'[k] = Held[k + 1]
        <3>1. it \in Nat
            BY <2>2
        <3> HIDE DEF Held
        <3> QED BY <1>h, <2>4, <3>1
    <2>7. BitsExplained'
        <3> HIDE DEF Held
        <3> QED BY <1>r, <2>1, <2>6 DEF BitsExplained
    <2>8. EndsExplained'
        <3>1. ~Connected(c) => peer[c] \in {"fin", "rst"}
            BY <1>n, <2>2, <2>5 DEF Connected, PeerState
        <3>2. peer' = peer /\ partial' = partial
            BY <2>1 DEF netVars
        <3> HIDE DEF c
        <3> QED BY <2>1, <2>2, <3>1, <3>2 DEF EndsExplained
    <2> QED BY <2>1, <2>7, <2>8 DEF LoopState
<1>10. CASE EndProcess \/ NextIteration
    <2>1. /\ pc \in {"process", "main"} /\ pc' \in {"main", "pool"}
          /\ UNCHANGED m_ServerState
        BY <1>10 DEF EndProcess, NextIteration, loopVars
    <2> QED BY <2>1, StillRunning DEF LoopState, BitsExplained
<1>11. CASE ClosingRequested
    <2>1. pc' = "closing" /\ closingRequested' = TRUE
        BY <1>11, <1>n DEF ClosingRequested
    <2> QED BY <2>1, StillRunning DEF LoopState, BitsExplained
<1>12. CASE CloseServer
    <2>1. pc = "closing" /\ pc' \in {"exit", "crashed"}
          /\ closingRequested' = closingRequested
        BY <1>12 DEF CloseServer
    <2> QED BY <2>1 DEF LoopState, BitsExplained, EndsExplained
<1>13. CASE Environment
    <2>1. /\ pc \notin {"exit", "killed", "aborted", "crashed"}
          /\ UNCHANGED <<pc, it, m_Readfds, sock, m_ServerState>> /\ Held' = Held
        BY <1>13 DEF Environment, Running, Signal, handlerVars, loopVars, Held
    <2> HIDE DEF Held
    <2>2. CASE Signal
        <3>1. closingRequested' = TRUE
            BY <2>2 DEF Signal
        <3> QED BY <2>1, <3>1, StillRunning DEF LoopState, BitsExplained
    <2>3. CASE /\ \E d \in Conn :
                    \/ Connect(d) \/ SendHead(d) \/ Stall(d) \/ Close(d)
                    \/ \E r \in Request : Send(d, r)
               /\ UNCHANGED closingRequested
        <3>1. \A i \in 1..Len(Held) : Readable(Held[i].ssl) => Readable(Held[i].ssl)'
            <4>1. \A c \in Conn : Readable(c) /\ peer[c] # "none" => Readable(c)'
                BY <1>n, <2>3, ReadableStays
            <4> QED BY <1>h, <1>p, <2>1, <4>1
        <3>2. BitsExplained'
            BY <2>1, <2>3, <3>1 DEF BitsExplained
        <3> QED BY <2>1, <2>3, <3>2, StillRunning DEF LoopState
    <2>4. Signal \/ (/\ \E d \in Conn :
                          \/ Connect(d) \/ SendHead(d) \/ Stall(d) \/ Close(d)
                          \/ \E r \in Request : Send(d, r)
                     /\ UNCHANGED closingRequested)
        BY <1>13 DEF Environment, loopVars
    <2> QED BY <2>2, <2>3, <2>4
<1>14. CASE UNCHANGED vars
    <2>1. /\ UNCHANGED <<pc, it, m_Readfds, sock, m_ServerState, closingRequested,
                         netVars>>
          /\ Held' = Held
        BY <1>14 DEF vars, handlerVars, loopVars, Held
    <2> HIDE DEF Held
    <2> QED BY <1>r, <2>1 DEF LoopState, BitsExplained, EndsExplained, netVars
<1> QED
    BY <1>1, <1>2, <1>3, <1>4, <1>5, <1>6, <1>7, <1>8, <1>9, <1>10, <1>11,
       <1>12, <1>13, <1>14 DEF Next, ServerStep

\* All that the proofs about the loop rest on, together.
ServerInv == TypeOK /\ SocketTable /\ IDInv /\ HeldOnce /\ LoopInv

\* It holds at first and every step keeps it.
LEMMA ServerInvHolds == Spec => []ServerInv
<1>1. Init => ServerInv
    BY TypeInit, SocketTableInit, IDInit, HeldOnceInit, LoopInit DEF ServerInv
<1>2. ServerInv /\ [Next]_vars => ServerInv'
    <2> SUFFICES ASSUME ServerInv, [Next]_vars PROVE ServerInv'
        OBVIOUS
    <2>1. TypeOK'
        BY TypeNext, Zenon DEF ServerInv
    <2>2. SocketTable' /\ IDInv' /\ HeldOnce'
        BY <2>1, SocketTableNext, IDNext, HeldOnceNext, Zenon DEF ServerInv
    <2>3. LoopInv'
        BY <2>1, LoopNext, Zenon DEF ServerInv
    <2> QED BY <2>1, <2>2, <2>3, Zenon DEF ServerInv
<1> QED BY <1>1, <1>2, PTL DEF Spec

\* The process ends only by a requested shutdown or with its culprit: a client
\* that has gone away (SIGPIPE, ~ClientSocket), one that has sent an unknown type
\* (read_number), or an incomplete record, for any number of clients.
THEOREM EndsAreExplained == Spec => []EndsExplained
<1>1. ServerInv => EndsExplained
    BY DEF ServerInv, LoopInv
<1> QED BY <1>1, ServerInvHolds, PTL

\* ProcessRequests drops no client because of a bit of m_Readfds left from or
\* meant for another: only one whose other end has closed, whose record is
\* incomplete, or after a signal, for any number of clients and descriptors.
THEOREM DropsAreExplained == Spec => DropsExplained
<1> DEFINE A == \A c \in Conn :
            pc = "process" /\ c \in Registered /\ c \notin Registered' =>
                ~Connected(c) \/ partial[c] \/ closingRequested
<1>1. ServerInv /\ ServerInv' /\ [Next]_vars => [A]_vars
    <2> SUFFICES ASSUME ServerInv, ServerInv', [Next]_vars,
                        NEW c \in Conn, pc = "process",
                        c \in Registered, c \notin Registered'
                 PROVE  ~Connected(c) \/ partial[c] \/ closingRequested
        BY Zenon
    <2> USE DEF ServerInv
    <2> HIDE DEF Packet, ClientSocket
    <2>1. CASE UNCHANGED m_ClientSocket
        BY <2>1 DEF Registered
    <2>2. CASE HandleRequest
        <3>1. HandlerEffect
            BY <2>2, RequestEffect
        <3> QED BY <3>1 DEF HandlerEffect, Registered
    <2>3. CASE Disconnect
        <3>1. /\ it \in 1..Len(m_ClientSocket)
              /\ LET d == m_ClientSocket[it].ssl
                 IN  ~Connected(d) \/ partial[d] \/ closingRequested
            BY <2>3, DisconnectReason DEF LoopInv
        <3>2. /\ Len(m_ClientSocket') = Len(m_ClientSocket) - 1
              /\ \A k \in 1..Len(m_ClientSocket') :
                    m_ClientSocket'[k] = m_ClientSocket[IF k < it THEN k ELSE k + 1]
            BY <2>3, <3>1, ErasedProperties DEF Disconnect, TypeOK, HandlerTypeOK
        <3>3. PICK j \in 1..Len(m_ClientSocket) : c = m_ClientSocket[j].ssl
            BY DEF Registered
        <3>4. Len(m_ClientSocket) \in Nat
            BY LenProperties DEF TypeOK, HandlerTypeOK
        <3>5. CASE j < it
            <4>1. j \in 1..Len(m_ClientSocket') /\ m_ClientSocket'[j] = m_ClientSocket[j]
                BY <3>1, <3>2, <3>4, <3>5
            <4> QED BY <3>3, <4>1 DEF Registered
        <3>6. CASE j > it
            <4>1. /\ j - 1 \in 1..Len(m_ClientSocket')
                  /\ m_ClientSocket'[j - 1] = m_ClientSocket[j]
                <5>1. j - 1 \in 1..Len(m_ClientSocket') /\ ~(j - 1 < it) /\ (j - 1) + 1 = j
                    BY <3>1, <3>2, <3>4, <3>6
                <5> QED BY <3>2, <5>1
            <4> QED BY <3>3, <4>1 DEF Registered
        <3>7. CASE j = it
            BY <3>1, <3>3, <3>7
        <3> QED BY <3>1, <3>5, <3>6, <3>7
    <2>4. CASE InitSSLSucceeds
        BY <2>4 DEF InitSSLSucceeds
    <2>5. CASE Accept \/ InitSSLFails \/ ClosingRequested \/ CloseServer
        BY <2>1, <2>5 DEF Accept, InitSSLFails, ClosingRequested, CloseServer
    <2> QED BY <2>1, <2>2, <2>3, <2>4, <2>5, StepKinds
<1> QED BY <1>1, ServerInvHolds, PTL DEF Spec, DropsExplained

=============================================================================
