----------------------------- MODULE ChatProofs -----------------------------
(***************************************************************************)
(* What clients say to each other, for any number of connections, requests *)
(* and rooms.  What is said in a protected room stays among those who gave *)
(* its password; and the server implements the chat service, so that what  *)
(* is proved of the order of messages there is proved of the server.       *)
(***************************************************************************)
EXTENDS DeliveryProofs, ServerRefinement

----------------------------------------------------------------------------
(* What clients have shown is not forgotten.                               *)

\* A step leaves no room protected that was not so before with the same hash.
RoomsKept ==
    \A r : Guarded(r)' => /\ Guarded(r)
                          /\ m_ChatRooms'[r].passwordHash
                                = m_ChatRooms[r].passwordHash

\* A password shown stays shown.
LEMMA ShownKept ==
    ASSUME TypeOK, SentGrows, NEW c \in Conn, NEW r,
           m_ChatRooms'[r].passwordHash = m_ChatRooms[r].passwordHash,
           HasShown(c, r)
    PROVE  HasShown(c, r)'
<1>1. PICK n \in 1..Len(sent[c]) :
            /\ sent[c][n].op = "CMSG_JOIN_ROOM" /\ sent[c][n].room = r
            /\ sent[c][n].hash = m_ChatRooms[r].passwordHash
    BY DEF HasShown
<1>2. sent[c] \in Seq(Request)
    BY DEF TypeOK, NetTypeOK
<1>3. Len(sent[c]) \in Nat
    BY <1>2, LenProperties
<1>4. sent'[c][n] = sent[c][n] /\ n \in 1..Len(sent'[c])
    BY <1>3 DEF SentGrows
<1> QED BY <1>1, <1>4 DEF HasShown

\* operator[] protects no room and changes no hash.
LEMMA SubscriptedKept ==
    ASSUME IsChatRooms(m_ChatRooms), NEW q \in RoomID,
           m_ChatRooms' = Subscripted(m_ChatRooms, q)
    PROVE  RoomsKept
<1> SUFFICES ASSUME NEW r, Guarded(r)'
             PROVE  /\ Guarded(r)
                    /\ m_ChatRooms'[r].passwordHash = m_ChatRooms[r].passwordHash
    BY DEF RoomsKept
<1>1. r \in DOMAIN m_ChatRooms' /\ Len(m_ChatRooms'[r].passwordHash) = DigestLen
    BY DEF Guarded
<1>2. CASE r \in DOMAIN m_ChatRooms
    <2>1. m_ChatRooms'[r] = m_ChatRooms[r]
        BY <1>2, SubscriptedRooms
    <2> QED BY <1>1, <1>2, <2>1 DEF Guarded
<1>3. CASE r \notin DOMAIN m_ChatRooms
    <2>1. r = q /\ m_ChatRooms'[r].passwordHash = << >>
        <3>1. DOMAIN m_ChatRooms' = DOMAIN m_ChatRooms \cup {q}
            BY SubscriptedRooms
        <3>2. r = q
            BY <1>1, <1>3, <3>1
        <3> QED BY <1>3, <3>2, SubscriptedRooms
    <2>2. DigestLen = 0
        BY <1>1, <2>1
    <2> QED BY <2>2, ChatAssumption
<1> QED BY <1>2, <1>3

\* A hash that was loaded whole leaves checkPasswordHash no freedom: a join of
\* its room that succeeds has shown it.
LEMMA WholeHashDecides ==
    ASSUME IsChatRooms(m_ChatRooms), NEW r \in JoinRequest, Guarded(r.room),
           "ERR_OK" \in JoinErrors(r)
    PROVE  r.hash = m_ChatRooms[r.room].passwordHash
<1> DEFINE rooms == Subscripted(m_ChatRooms, r.room)
           stored == m_ChatRooms[r.room].passwordHash
<1>1. r.room \in RoomID /\ r.hash \in Digest
    BY DEF JoinRequest
<1>2. rooms[r.room] = m_ChatRooms[r.room] /\ r.room \in DOMAIN m_ChatRooms
    BY <1>1, SubscriptedRooms DEF Guarded
<1>3. stored \in Seq(Byte) /\ Len(stored) = DigestLen
    BY <1>2 DEF IsChatRooms, ChatRoom, Guarded
<1>4. stored # << >>
    BY <1>3, ChatAssumption
<1>5. isRoomProtected(m_ChatRooms, r.room)
    BY <1>2, <1>4 DEF isRoomProtected
<1>6. TRUE \in checkPasswordHash(rooms, r.room, r.hash)
    BY <1>5 DEF JoinErrors, checkPasswordHash
<1>7. PICK w \in Digest :
            /\ \A k \in 1..DigestLen : k <= Len(stored) => w[k] = stored[k]
            /\ w = r.hash
    BY <1>2, <1>6 DEF checkPasswordHash
<1>8. DigestLen \in Nat
    BY ChatAssumption
<1>9. \A k \in 1..DigestLen : w[k] = stored[k]
    BY <1>3, <1>7, <1>8
<1>10. stored = [k \in 1..DigestLen |-> stored[k]]
    BY <1>3
<1>11. w = [k \in 1..DigestLen |-> w[k]]
    BY <1>7 DEF Digest
<1> QED BY <1>7, <1>9, <1>10, <1>11

----------------------------------------------------------------------------
(* Handlers.                                                               *)

NoNewSay ==
    \A c \in Conn : \A p :
        Among(p, outq'[c]) => Among(p, outq[c]) \/ p.op # "SMSG_SAY"

\* New SMSG_SAY packets, if any, are said in room and come to its members.
SaysIn(room) ==
    \A c \in Conn : \A p :
        Among(p, outq'[c]) =>
            \/ Among(p, outq[c])
            \/ p.op # "SMSG_SAY"
            \/ p.room = room /\ c \in RoomMembers(room)

\* What a handler called for request r of connection c does about rooms.
ChatEffect(c, r) ==
    /\ RoomsKept
    /\ NoNewSay \/ \E room : SaysIn(room)
    /\ \A j \in 1..Len(m_ClientSocket) :
        \/ /\ m_ClientSocket'[j].chatRoomJoined = m_ClientSocket[j].chatRoomJoined
           /\ m_ClientSocket'[j].joinedChatRoomID = m_ClientSocket[j].joinedChatRoomID
        \/ /\ m_ClientSocket[j].ssl = c
           /\ r \in JoinRequest /\ "ERR_OK" \in JoinErrors(r)
           /\ m_ClientSocket'[j].joinedChatRoomID = r.room

\* Sequences of packets are sequences over any larger set.
LEMMA LargerSeq ==
    ASSUME NetTypeOK, NEW S, Packet \subseteq S
    PROVE  outq \in [Conn -> Seq(S)]
<1>1. \A q \in Seq(Packet) : q \in Seq(S)
    <2> HIDE DEF Packet
    <2> QED OBVIOUS
<1>2. outq \in [Conn -> Seq(Packet)]
    BY DEF NetTypeOK
<1> HIDE DEF Packet
<1> QED BY <1>1, <1>2

\* A reply that is not an SMSG_SAY brings none.
LEMMA ReplyNoSay ==
    ASSUME NetTypeOK, NEW c, NEW packet, packet.op # "SMSG_SAY",
           Reply(c, packet)
    PROVE  NoNewSay
<1> DEFINE S == Packet \cup {packet}
<1>1. outq \in [Conn -> Seq(S)]
    BY LargerSeq
<1>2. packet \in S
    OBVIOUS
<1> HIDE DEF S
<1>3. <<packet>> \in Seq(S) /\ << >> \in Seq(S)
    BY <1>2
<1>4. HandlerSends(c, <<packet>>, << >>, {})
    BY DEF Reply
<1>5. \A d \in Conn : \A p :
        Among(p, outq'[d]) => Origin(p, c, d, <<packet>>, << >>, {})
    BY <1>1, <1>3, <1>4, SentPackets
<1> QED BY <1>5, AmongShort DEF NoNewSay, Origin

\* Every handler.
LEMMA HandlersChatEffect ==
    ASSUME NetTypeOK, HandlerTypeOK, it \in 1..Len(m_ClientSocket),
           NEW r \in Request, NEW tag \in Tag,
           CallHandler(it, r, tag) \/ InvalidPacket(it)
    PROVE  ChatEffect(m_ClientSocket[it].ssl, r)
<1> DEFINE quiet == UNCHANGED <<m_ClientSocket, m_ChatRooms, m_Counter>>
           c == m_ClientSocket[it].ssl
<1>1. ASSUME NoNewSay, quiet PROVE ChatEffect(c, r)
    <2>1. RoomsKept
        BY <1>1 DEF RoomsKept, Guarded
    <2> QED BY <1>1, <2>1 DEF ChatEffect
<1>2. ASSUME NEW d, NEW packet, packet.op # "SMSG_SAY", Reply(d, packet), quiet
      PROVE  ChatEffect(c, r)
    BY <1>1, <1>2, ReplyNoSay
<1>3. ASSUME outq' = outq PROVE NoNewSay
    BY <1>3 DEF NoNewSay
<1>c. client(it) = m_ClientSocket[it] /\ client(it) \in ClientSocket
    BY ElementOfSeq DEF HandlerTypeOK, client
<1>s. \A p \in Packet : <<p>> \in Seq(Packet) /\ << >> \in Seq(Packet)
    <2> HIDE DEF Packet
    <2> QED OBVIOUS
<1>o. outq \in [Conn -> Seq(Packet)]
    BY DEF NetTypeOK
<1>10. CASE CallHandlerEcho(it, tag)
    BY <1>2, <1>10 DEF CallHandlerEcho
<1>11. CASE CallHandlerAdd(it, tag)
    BY <1>2, <1>11 DEF CallHandlerAdd
<1>12. CASE CallHandlerAddThrows
    BY <1>1, <1>3, <1>12 DEF CallHandlerAddThrows
<1>13. CASE CallHandlerBroadcast(it, tag)
    <2> DEFINE m == [op |-> "SMSG_BROADCAST", msg |-> tag]
               to == {client(j).ssl : j \in Enabled}
    <2>1. m \in Packet /\ m.op # "SMSG_SAY"
        BY PacketKinds
    <2>2. HandlerSends(client(it).ssl, << >>, <<m>>, to)
        BY <1>13 DEF CallHandlerBroadcast
    <2> HIDE DEF m, to, Packet
    <2>3. \A d \in Conn : \A p :
            Among(p, outq'[d]) => Origin(p, client(it).ssl, d, << >>, <<m>>, to)
        BY <1>o, <1>s, <2>1, <2>2, SentPackets
    <2>4. NoNewSay
        BY <2>1, <2>3, AmongShort DEF NoNewSay, Origin
    <2> QED BY <1>1, <1>13, <2>4 DEF CallHandlerBroadcast
<1>14. CASE CallHandlerGetClientList(it)
    BY <1>2, <1>14 DEF CallHandlerGetClientList
<1>15. CASE \E id : CallHandlerMsgToClient(it, tag, id)
    <2>1. PICK id : CallHandlerMsgToClient(it, tag, id)
        BY <1>15
    <2> DEFINE m == [op |-> "SMSG_PRIVATE_MESSAGE", from |-> client(it).clientID,
                     msg |-> tag]
               status(error) == [op |-> "SMSG_PRIVATE_MSG_ERR", error |-> error]
               to == {client(j).ssl : j \in Found(id)}
    <2>2. m \in Packet /\ m.op # "SMSG_SAY"
        <3>1. client(it).clientID \in Nat
            BY <1>c DEF ClientSocket
        <3> QED BY <3>1, PacketKinds
    <2>3. \A error \in eChatErr : status(error) \in Packet
        BY PacketKinds
    <2>4. \A error : status(error).op # "SMSG_SAY"
        OBVIOUS
    <2>5. \/ Reply(client(it).ssl, status("ERR_MSG_TO_SELF"))
          \/ Reply(client(it).ssl, status("ERR_NO_CLIENT_FOUND"))
          \/ HandlerSends(client(it).ssl, <<status("ERR_OK")>>, <<m>>, to)
        BY <2>1 DEF CallHandlerMsgToClient, Reply
    <2>6. status("ERR_OK") \in Packet
        BY <2>3 DEF eChatErr
    <2>q. quiet
        BY <2>1 DEF CallHandlerMsgToClient
    <2> HIDE DEF m, to, Packet, status
    <2>7. CASE HandlerSends(client(it).ssl, <<status("ERR_OK")>>, <<m>>, to)
        <3>1. \A d \in Conn : \A p :
                Among(p, outq'[d]) =>
                    Origin(p, client(it).ssl, d, <<status("ERR_OK")>>, <<m>>, to)
            BY <1>o, <1>s, <2>2, <2>6, <2>7, SentPackets
        <3>2. NoNewSay
            BY <2>2, <2>4, <3>1, AmongShort DEF NoNewSay, Origin
        <3> QED BY <1>1, <2>q, <3>2
    <2> QED BY <1>2, <2>4, <2>5, <2>7, <2>q
<1>16. CASE CallHandlerPong(it)
    BY <1>2, <1>16 DEF CallHandlerPong
<1>17. CASE CallHandlerUptime(it)
    BY <1>2, <1>17 DEF CallHandlerUptime
<1>18. CASE incrementCounter
    <2>1. outq' = outq /\ UNCHANGED <<m_ClientSocket, m_ChatRooms>>
        BY <1>18 DEF incrementCounter, NoReply
    <2>2. RoomsKept
        BY <2>1 DEF RoomsKept, Guarded
    <2> QED BY <1>3, <2>1, <2>2 DEF ChatEffect
<1>19. CASE CallHandlerGetCounter(it)
    BY <1>2, <1>19 DEF CallHandlerGetCounter
<1>20. CASE CallHandlerGetChatRooms(it)
    BY <1>2, <1>20 DEF CallHandlerGetChatRooms
<1>21. CASE CallHandlerGetRoominfo(it)
    <2>1. quiet
        BY <1>21 DEF CallHandlerGetRoominfo
    <2> DEFINE id == client(it).joinedChatRoomID
               m1 == [op |-> "SMSG_MESSAGE", text |-> "No joined room"]
               m2 == [op |-> "SMSG_MESSAGE", text |-> "Invalid room"]
               m3 == [op |-> "SMSG_MESSAGE", joined |-> getRoomName(m_ChatRooms, id)]
    <2>2. m1.op # "SMSG_SAY" /\ m2.op # "SMSG_SAY" /\ m3.op # "SMSG_SAY"
        OBVIOUS
    <2>3. Reply(client(it).ssl, IF ~client(it).chatRoomJoined THEN m1
                                ELSE IF ~checkRoomID(m_ChatRooms, id) THEN m2 ELSE m3)
        BY <1>21 DEF CallHandlerGetRoominfo
    <2> HIDE DEF m1, m2, m3, id
    <2>4. \/ Reply(client(it).ssl, m1) \/ Reply(client(it).ssl, m2)
          \/ Reply(client(it).ssl, m3)
        BY <2>3
    <2> QED BY <1>2, <2>1, <2>2, <2>4
<1>22. CASE r \in JoinRequest /\ CallHandlerJoinRoom(it, r)
    <2>1. RoomsKept
        <3>1. r.room \in RoomID
            BY <1>22 DEF JoinRequest
        <3> QED BY <1>22, <3>1, SubscriptedKept DEF CallHandlerJoinRoom, HandlerTypeOK
    <2>2. PICK error \in JoinErrors(r) :
            \/ /\ error = "ERR_OK"
               /\ m_ClientSocket' = [m_ClientSocket EXCEPT
                    ![it].joinedChatRoomID = r.room, ![it].chatRoomJoined = TRUE]
               /\ Reply(client(it).ssl, [op |-> "SMSG_JOIN_CHAT_ROOM_OK",
                                         room |-> r.room])
            \/ /\ error # "ERR_OK"
               /\ UNCHANGED m_ClientSocket
               /\ Reply(client(it).ssl, [op |-> "SMSG_JOIN_CHAT_ROOM_ERR",
                                         error |-> error])
        BY <1>22 DEF CallHandlerJoinRoom
    <2>3. NoNewSay
        BY <2>2, ReplyNoSay
    <2>4. m_ClientSocket \in Seq(ClientSocket)
        BY DEF HandlerTypeOK
    <2>5. CASE UNCHANGED m_ClientSocket
        BY <2>1, <2>3, <2>5 DEF ChatEffect
    <2>6. CASE /\ "ERR_OK" \in JoinErrors(r)
               /\ m_ClientSocket' = [m_ClientSocket EXCEPT
                    ![it].joinedChatRoomID = r.room, ![it].chatRoomJoined = TRUE]
        <3>1. \A j \in 1..Len(m_ClientSocket) : j # it =>
                    m_ClientSocket'[j] = m_ClientSocket[j]
            BY <2>4, <2>6
        <3>2. m_ClientSocket'[it].joinedChatRoomID = r.room
            <4>1. m_ClientSocket[it] \in ClientSocket
                <5> HIDE DEF ClientSocket
                <5> QED BY <2>4
            <4> QED BY <2>4, <2>6, <4>1 DEF ClientSocket
        <3> QED BY <1>22, <2>1, <2>3, <2>6, <3>1, <3>2 DEF ChatEffect
    <2> QED BY <2>2, <2>5, <2>6
<1>23. CASE CallHandlerSay(it, tag)
    <2> DEFINE room == client(it).joinedChatRoomID
               m == [op |-> "SMSG_SAY", msg |-> tag, room |-> room]
               ok == [op |-> "SMSG_SAY_OK"]
    <2>1. m \in Packet /\ m.room = room
        <3>1. room \in RoomID
            BY <1>c DEF ClientSocket
        <3> QED BY <3>1, PacketKinds
    <2>2. ok \in Packet /\ ok.op # "SMSG_SAY"
        BY PacketKinds
    <2>q. quiet
        BY <1>23 DEF CallHandlerSay
    <2>3. CASE HandlerSends(client(it).ssl, <<ok>>, <<m>>, RoomMembers(room))
        <3> HIDE DEF m, ok, room, Packet
        <3>1. \A d \in Conn : \A p :
                Among(p, outq'[d]) =>
                    Origin(p, client(it).ssl, d, <<ok>>, <<m>>, RoomMembers(room))
            BY <1>o, <1>s, <2>1, <2>2, <2>3, SentPackets
        <3>2. SaysIn(room)
            BY <2>1, <2>2, <3>1, AmongShort DEF SaysIn, Origin
        <3>3. RoomsKept
            BY <2>q DEF RoomsKept, Guarded
        <3> QED BY <2>q, <3>2, <3>3 DEF ChatEffect
    <2>4. CASE ~HandlerSends(client(it).ssl, <<ok>>, <<m>>, RoomMembers(room))
        <3>1. \E packet : packet.op # "SMSG_SAY" /\ Reply(client(it).ssl, packet)
            BY <1>23, <2>4 DEF CallHandlerSay
        <3> QED BY <1>2, <2>q, <3>1
    <2> QED BY <2>3, <2>4
<1>24. CASE UnknownOpcode(it)
    <2> DEFINE m == [op |-> "SMSG_MESSAGE", text |-> "Unknown or unhandled opcode."]
    <2>1. m.op # "SMSG_SAY" /\ Reply(client(it).ssl, m) /\ quiet
        BY <1>24 DEF UnknownOpcode
    <2> HIDE DEF m
    <2> QED BY <1>2, <2>1
<1>25. CASE LengthRefused
    BY <1>1, <1>3, <1>25 DEF LengthRefused, NoReply
<1>26. CASE InvalidPacket(it)
    <2> DEFINE m == [op |-> "Invalid packet."]
    <2>1. m.op # "SMSG_SAY" /\ Reply(client(it).ssl, m) /\ quiet
        BY <1>26 DEF InvalidPacket
    <2> HIDE DEF m
    <2> QED BY <1>2, <2>1
<1>27. r.op = "CMSG_JOIN_ROOM" => r \in JoinRequest
    BY RequestAssumption DEF PlainRequest, PrivateRequest
<1> QED
    BY <1>10, <1>11, <1>12, <1>13, <1>14, <1>15, <1>16, <1>17, <1>18, <1>19,
       <1>20, <1>21, <1>22, <1>23, <1>24, <1>25, <1>26, <1>27
    DEF CallHandler

----------------------------------------------------------------------------
(* Steps.                                                                  *)

RoomInv == RoomPrivacy /\ MembersShown

\* What is new of SMSG_SAY packets comes to members of its room.
SaysToMembers ==
    \A c \in Conn : \A p :
        Among(p, outq'[c]) =>
            Among(p, outq[c]) \/ p.op # "SMSG_SAY" \/ c \in RoomMembers(p.room)

\* A client in a room, after the step, had shown its password before the step.
EntriesShown ==
    \A j \in 1..Len(m_ClientSocket') :
        LET s == m_ClientSocket'[j]
        IN  s.chatRoomJoined /\ Guarded(s.joinedChatRoomID)
                => HasShown(s.ssl, s.joinedChatRoomID)

Outsiders == \A i \in 1..Len(newClient) : ~newClient[i].chatRoomJoined

\* A step with these four effects keeps the invariant.
LEMMA RoomInvKept ==
    ASSUME TypeOK, TypeOK', RoomInv, SentGrows, RoomsKept, SaysToMembers,
           EntriesShown, Outsiders'
    PROVE  RoomInv'
<1> HIDE DEF Packet, ClientSocket
<1>1. ASSUME NEW c \in Conn, NEW room, HasShown(c, room), Guarded(room)'
      PROVE  HasShown(c, room)'
    BY <1>1, ShownKept DEF RoomsKept
<1>2. RoomPrivacy'
    <2>1. ASSUME NEW c \in Conn, NEW p, Among(p, outq'[c]), p.op = "SMSG_SAY",
                 Guarded(p.room)'
          PROVE  HasShown(c, p.room)'
        <3>1. Guarded(p.room)
            BY <2>1 DEF RoomsKept
        <3>2. ASSUME Among(p, outq[c]) PROVE HasShown(c, p.room)
            <4>1. PICK j \in 1..Len(outq[c]) : p = outq[c][j]
                BY <3>2 DEF Among
            <4> QED BY <2>1, <3>1, <4>1 DEF RoomInv, RoomPrivacy
        <3>3. ASSUME c \in RoomMembers(p.room) PROVE HasShown(c, p.room)
            <4>1. PICK j \in 1..Len(m_ClientSocket) :
                    /\ m_ClientSocket[j].ssl = c
                    /\ m_ClientSocket[j].chatRoomJoined
                    /\ m_ClientSocket[j].joinedChatRoomID = p.room
                BY <3>3 DEF RoomMembers, Enabled, client
            <4> QED BY <3>1, <4>1 DEF RoomInv, MembersShown
        <3>4. HasShown(c, p.room)
            BY <2>1, <3>2, <3>3 DEF SaysToMembers
        <3> QED BY <1>1, <2>1, <3>4
    <2>2. \A c \in Conn : \A k \in 1..Len(outq'[c]) : Among(outq'[c][k], outq'[c])
        BY DEF Among
    <2> QED BY <2>1, <2>2 DEF RoomPrivacy, Guarded, HasShown
<1>3. MembersShown'
    <2>1. ASSUME NEW j \in 1..Len(m_ClientSocket'), NEW c, NEW room,
                 m_ClientSocket'[j].ssl = c,
                 m_ClientSocket'[j].joinedChatRoomID = room,
                 m_ClientSocket'[j].chatRoomJoined, Guarded(room)'
          PROVE  HasShown(c, room)'
        <3>1. Guarded(room)
            BY <2>1 DEF RoomsKept
        <3>2. HasShown(c, room)
            BY <2>1, <3>1 DEF EntriesShown
        <3>3. c \in Conn
            <4>1. m_ClientSocket'[j] \in ClientSocket
                BY ElementOfSeq DEF TypeOK, HandlerTypeOK
            <4> QED BY <2>1, <4>1 DEF ClientSocket
        <3> QED BY <1>1, <2>1, <3>2, <3>3
    <2> QED BY <2>1 DEF MembersShown, Outsiders, Guarded, HasShown
<1> QED BY <1>2, <1>3 DEF RoomInv

\* No packet and no client at first.
LEMMA RoomInit == Init => RoomInv
<1> SUFFICES ASSUME Init PROVE RoomInv
    OBVIOUS
<1>1. \A c \in Conn : outq[c] = << >>
    BY DEF Init, NetInit
<1>2. m_ClientSocket = << >> /\ newClient = << >>
    BY DEF Init
<1>3. \A k : k \notin 1..Len(<< >>)
    OBVIOUS
<1> QED BY <1>1, <1>2, <1>3 DEF RoomInv, RoomPrivacy, MembersShown

\* Every step keeps what is said in a room among those who have shown its
\* password.
LEMMA RoomNext ==
    ASSUME TypeOK, TypeOK', RoomInv, [Next]_vars
    PROVE  RoomInv'
<1> HIDE DEF Packet, ClientSocket
<1>g. SentGrows
    BY StepSent
<1>o. Outsiders
    BY DEF RoomInv, MembersShown, Outsiders
<1>t. m_ClientSocket \in Seq(ClientSocket) /\ newClient \in Seq(ClientSocket)
    BY DEF TypeOK, HandlerTypeOK, LoopTypeOK
<1>l. Len(m_ClientSocket) \in Nat
    BY <1>t, LenProperties
<1>s. \A i \in 1..Len(m_ClientSocket) :
        /\ m_ClientSocket[i].chatRoomJoined
        /\ Guarded(m_ClientSocket[i].joinedChatRoomID)
        => HasShown(m_ClientSocket[i].ssl, m_ClientSocket[i].joinedChatRoomID)
    BY DEF RoomInv, MembersShown
<1>1. CASE HandleRequest
    <2> DEFINE c == m_ClientSocket[it].ssl
               n == read[c] + 1
               r == sent[c][n]
    <2>1. it \in 1..Len(m_ClientSocket)
        BY <1>1, <1>l DEF HandleRequest, AtClient, TypeOK, HandlerTypeOK
    <2>2. c \in Conn
        <3>1. m_ClientSocket[it] \in ClientSocket
            BY <1>t, <2>1
        <3> QED BY <3>1 DEF ClientSocket
    <2>3. n \in 1..Len(sent[c]) /\ r \in Request /\ <<c, n>> \in Tag
        BY <1>1, <2>2 DEF HandleRequest, Waiting, TypeOK, NetTypeOK, Tag
    <2>4. CallHandler(it, r, <<c, n>>) \/ InvalidPacket(it)
        BY <1>1 DEF HandleRequest
    <2>5. ChatEffect(c, r)
        BY <2>1, <2>3, <2>4, HandlersChatEffect DEF TypeOK
    <2>6. HandlerEffect
        BY <1>1, RequestEffect
    <2>7. Outsiders'
        BY <1>1, <1>o DEF HandleRequest, loopVars, Outsiders
    <2>8. SaysToMembers
        BY <2>5 DEF ChatEffect, NoNewSay, SaysIn, SaysToMembers
    <2>9. EntriesShown
        <3> SUFFICES ASSUME NEW j \in 1..Len(m_ClientSocket'),
                            m_ClientSocket'[j].chatRoomJoined,
                            Guarded(m_ClientSocket'[j].joinedChatRoomID)
                     PROVE  HasShown(m_ClientSocket'[j].ssl,
                                     m_ClientSocket'[j].joinedChatRoomID)
            BY DEF EntriesShown
        <3>1. /\ j \in 1..Len(m_ClientSocket)
              /\ m_ClientSocket'[j].ssl = m_ClientSocket[j].ssl
            BY <2>6 DEF HandlerEffect
        <3>2. CASE /\ m_ClientSocket'[j].chatRoomJoined = m_ClientSocket[j].chatRoomJoined
                   /\ m_ClientSocket'[j].joinedChatRoomID
                        = m_ClientSocket[j].joinedChatRoomID
            BY <1>s, <3>1, <3>2
        <3>3. CASE /\ m_ClientSocket[j].ssl = c
                   /\ r \in JoinRequest /\ "ERR_OK" \in JoinErrors(r)
                   /\ m_ClientSocket'[j].joinedChatRoomID = r.room
            <4>1. r.hash = m_ChatRooms[r.room].passwordHash
                <5>1. IsChatRooms(m_ChatRooms) /\ Guarded(r.room)
                    BY <3>3 DEF TypeOK, HandlerTypeOK
                <5> HIDE DEF r
                <5> QED BY <3>3, <5>1, WholeHashDecides
            <4>2. r.op = "CMSG_JOIN_ROOM"
                BY <3>3 DEF JoinRequest
            <4>3. HasShown(c, r.room)
                BY <2>3, <4>1, <4>2 DEF HasShown
            <4> QED BY <3>1, <3>3, <4>3
        <3> HIDE DEF c, r
        <3> QED BY <2>5, <3>1, <3>2, <3>3 DEF ChatEffect
    <2>10. RoomsKept
        BY <2>5 DEF ChatEffect
    <2> QED BY <1>g, <2>7, <2>8, <2>9, <2>10, RoomInvKept
<1>2. CASE InitSSLSucceeds
    <2> DEFINE e == [newClient[1] EXCEPT !.sslEnabled = TRUE]
               c == newClient[1].ssl
               motd == [op |-> "SMSG_MOTD"]
    <2>1. Len(newClient) = 1
        BY <1>2 DEF InitSSLSucceeds, TypeOK, LoopTypeOK
    <2>2. newClient[1] \in ClientSocket
        BY <1>t, <2>1
    <2>3. e \in ClientSocket /\ ~e.chatRoomJoined
        <3>1. ~newClient[1].chatRoomJoined
            BY <1>o, <2>1 DEF Outsiders
        <3> QED BY <2>2, <3>1 DEF ClientSocket
    <2>4. m_ClientSocket' = Append(m_ClientSocket, e) /\ newClient' = << >>
        BY <1>2 DEF InitSSLSucceeds
    <2>5. Outsiders'
        BY <2>4 DEF Outsiders
    <2>6. RoomsKept
        BY <1>2 DEF InitSSLSucceeds, RoomsKept, Guarded
    <2>7. motd \in Packet /\ motd.op # "SMSG_SAY"
        BY PacketKinds
    <2>8. outq' = outq \/ outq' = Delivered(c, <<motd>>, << >>, {})
        BY <1>2 DEF InitSSLSucceeds, SendMOTD
    <2> HIDE DEF e, c, motd
    <2>9. EntriesShown
        <3>1. /\ Len(m_ClientSocket') = Len(m_ClientSocket) + 1
              /\ \A i \in 1..Len(m_ClientSocket) : m_ClientSocket'[i] = m_ClientSocket[i]
              /\ m_ClientSocket'[Len(m_ClientSocket) + 1] = e
            BY <1>t, <2>3, <2>4, AppendProperties
        <3>2. \A j \in 1..Len(m_ClientSocket') :
                j \in 1..Len(m_ClientSocket) \/ j = Len(m_ClientSocket) + 1
            BY <1>l, <3>1
        <3> QED BY <1>s, <2>3, <3>1, <3>2 DEF EntriesShown
    <2>10. SaysToMembers
        <3>1. CASE outq' = outq
            BY <3>1 DEF SaysToMembers
        <3>2. CASE outq' = Delivered(c, <<motd>>, << >>, {})
            <4>1. outq \in [Conn -> Seq(Packet)]
                BY DEF TypeOK, NetTypeOK
            <4>2. <<motd>> \in Seq(Packet) /\ << >> \in Seq(Packet)
                BY <2>7
            <4>3. \A d \in Conn : \A p :
                    Among(p, outq'[d]) => Origin(p, c, d, <<motd>>, << >>, {})
                BY <3>2, <4>1, <4>2, DeliveredPackets
            <4> QED BY <2>7, <4>3, AmongShort DEF SaysToMembers, Origin
        <3> QED BY <2>8, <3>1, <3>2
    <2> QED BY <1>g, <2>5, <2>6, <2>9, <2>10, RoomInvKept
<1>3. CASE UNCHANGED <<m_ChatRooms, outq>>
    <2>1. RoomsKept
        BY <1>3 DEF RoomsKept, Guarded
    <2>2. SaysToMembers
        BY <1>3 DEF SaysToMembers
    <2>3. ASSUME EntriesShown, Outsiders' PROVE RoomInv'
        BY <1>g, <2>1, <2>2, <2>3, RoomInvKept
    <2>4. ASSUME UNCHANGED m_ClientSocket PROVE EntriesShown
        BY <1>s, <2>4 DEF EntriesShown
    <2>5. CASE UNCHANGED <<m_ClientSocket, newClient>>
        BY <1>o, <2>3, <2>4, <2>5 DEF Outsiders
    <2>6. CASE Accept
        <3>1. UNCHANGED m_ClientSocket
            BY <2>6 DEF Accept
        <3>2. PICK s : newClient' = <<s>> /\ ~s.chatRoomJoined
            BY <2>6 DEF Accept
        <3>3. Outsiders'
            BY <3>2 DEF Outsiders
        <3> QED BY <2>3, <2>4, <3>1, <3>3
    <2>7. CASE InitSSLFails
        <3>1. UNCHANGED m_ClientSocket /\ newClient' = << >>
            BY <2>7 DEF InitSSLFails
        <3>2. Outsiders'
            BY <3>1 DEF Outsiders
        <3> QED BY <2>3, <2>4, <3>1, <3>2
    <2>8. CASE Disconnect
        <3>1. it \in 1..Len(m_ClientSocket) /\ m_ClientSocket' = Erased(it)
            BY <1>l, <2>8 DEF Disconnect, AtClient, TypeOK, HandlerTypeOK
        <3>2. /\ Len(m_ClientSocket') = Len(m_ClientSocket) - 1
              /\ \A k \in 1..Len(m_ClientSocket') :
                    m_ClientSocket'[k] = m_ClientSocket[IF k < it THEN k ELSE k + 1]
            BY <1>t, <3>1, ErasedProperties
        <3>3. \A k \in 1..Len(m_ClientSocket') :
                (IF k < it THEN k ELSE k + 1) \in 1..Len(m_ClientSocket)
            BY <1>l, <3>1, <3>2
        <3>4. EntriesShown
            BY <1>s, <3>2, <3>3 DEF EntriesShown
        <3>5. Outsiders'
            BY <1>o, <2>8 DEF Disconnect, Outsiders
        <3> QED BY <2>3, <3>4, <3>5
    <2> QED BY <1>1, <1>2, <2>5, <2>6, <2>7, <2>8, RoomStepKinds
<1> QED BY <1>1, <1>2, <1>3, RoomStepKinds

\* What CallHandlerSay sends in a room whose password hash was loaded whole
\* reaches only clients that have sent that hash on the same connection: for
\* any number of clients, rooms and requests, across joins of other rooms,
\* refused joins and clients that come and go.
THEOREM ProtectedRoomsPrivate == Spec => []RoomPrivacy
<1>1. RoomInv => RoomPrivacy
    BY DEF RoomInv
<1> QED BY RoomInit, RoomNext, TypeCorrect, <1>1, PTL DEF Spec

----------------------------------------------------------------------------
(* The chat service.                                                       *)

\* What the refinement needs of the clients: all have TLS, those in a room are in
\* one the server knows, and one being accepted is in none.
VectorInv ==
    /\ \A i \in 1..Len(m_ClientSocket) :
        /\ m_ClientSocket[i].sslEnabled
        /\ m_ClientSocket[i].chatRoomJoined =>
                m_ClientSocket[i].joinedChatRoomID \in DOMAIN m_ChatRooms
    /\ Outsiders

\* Nobody is there at first.
LEMMA VectorInit == Init => VectorInv
    BY DEF Init, VectorInv, Outsiders

\* A handler leaves the clients alone, or it is that of a join.
LEMMA RequestVector ==
    ASSUME HandleRequest
    PROVE  LET c == m_ClientSocket[it].ssl
               r == sent[c][read[c] + 1]
           IN  \/ UNCHANGED <<m_ClientSocket, m_ChatRooms>>
               \/ r.op = "CMSG_JOIN_ROOM" /\ CallHandlerJoinRoom(it, r)
<1> DEFINE c == m_ClientSocket[it].ssl
           r == sent[c][read[c] + 1]
           tag == <<c, read[c] + 1>>
<1>1. CallHandler(it, r, tag) \/ InvalidPacket(it)
    BY DEF HandleRequest
<1> HIDE DEF r, tag
<1>2. \/ UNCHANGED <<m_ClientSocket, m_ChatRooms>>
      \/ r.op = "CMSG_JOIN_ROOM" /\ CallHandlerJoinRoom(it, r)
    BY <1>1 DEF CallHandler, InvalidPacket, CallHandlerEcho, CallHandlerAdd,
        CallHandlerAddThrows, CallHandlerBroadcast, CallHandlerGetClientList,
        CallHandlerMsgToClient, CallHandlerPong, CallHandlerUptime,
        incrementCounter, CallHandlerGetCounter, CallHandlerGetChatRooms,
        CallHandlerGetRoominfo, CallHandlerSay, UnknownOpcode, LengthRefused
<1> QED BY <1>2 DEF r

\* A join puts the client at the iterator into the room, or changes no client.
LEMMA JoinVector ==
    ASSUME HandlerTypeOK, it \in 1..Len(m_ClientSocket), NEW r,
           CallHandlerJoinRoom(it, r)
    PROVE  /\ DOMAIN m_ChatRooms' = DOMAIN m_ChatRooms \cup {r.room}
           /\ \/ UNCHANGED m_ClientSocket
              \/ /\ Len(m_ClientSocket') = Len(m_ClientSocket)
                 /\ \A i \in 1..Len(m_ClientSocket) :
                        IF i # it THEN m_ClientSocket'[i] = m_ClientSocket[i]
                        ELSE /\ m_ClientSocket'[i].chatRoomJoined
                             /\ m_ClientSocket'[i].joinedChatRoomID = r.room
                             /\ m_ClientSocket'[i].ssl = m_ClientSocket[i].ssl
                             /\ m_ClientSocket'[i].sslEnabled
                                    = m_ClientSocket[i].sslEnabled
<1> HIDE DEF Packet
<1>1. m_ClientSocket \in Seq(ClientSocket) /\ m_ClientSocket[it] \in ClientSocket
    BY ElementOfSeq DEF HandlerTypeOK
<1>2. m_ChatRooms' = Subscripted(m_ChatRooms, r.room)
    BY DEF CallHandlerJoinRoom
<1>3. DOMAIN m_ChatRooms' = DOMAIN m_ChatRooms \cup {r.room}
    BY <1>2 DEF Subscripted
<1>4. \/ UNCHANGED m_ClientSocket
      \/ m_ClientSocket' = [m_ClientSocket EXCEPT
                ![it].joinedChatRoomID = r.room, ![it].chatRoomJoined = TRUE]
    BY DEF CallHandlerJoinRoom
<1> DEFINE e == [m_ClientSocket[it] EXCEPT !.joinedChatRoomID = r.room,
                                           !.chatRoomJoined = TRUE]
<1>5. /\ e.chatRoomJoined /\ e.joinedChatRoomID = r.room
      /\ e.ssl = m_ClientSocket[it].ssl
      /\ e.sslEnabled = m_ClientSocket[it].sslEnabled
    BY <1>1 DEF ClientSocket
<1>6. ASSUME m_ClientSocket' = [m_ClientSocket EXCEPT
                ![it].joinedChatRoomID = r.room, ![it].chatRoomJoined = TRUE]
      PROVE  /\ Len(m_ClientSocket') = Len(m_ClientSocket)
             /\ m_ClientSocket'[it] = e
             /\ \A i \in 1..Len(m_ClientSocket) :
                    i # it => m_ClientSocket'[i] = m_ClientSocket[i]
    <2>1. m_ClientSocket' = [m_ClientSocket EXCEPT ![it] = e]
        BY <1>6
    <2> HIDE DEF e, ClientSocket
    <2> QED BY <1>1, <2>1
<1> HIDE DEF e
<1> QED BY <1>3, <1>4, <1>5, <1>6

\* Every step keeps what the refinement needs.
LEMMA VectorNext ==
    ASSUME TypeOK, TypeOK', VectorInv, [Next]_vars
    PROVE  VectorInv'
<1> HIDE DEF Packet, ClientSocket
<1>t. /\ m_ClientSocket \in Seq(ClientSocket) /\ newClient \in Seq(ClientSocket)
      /\ Len(m_ClientSocket) \in Nat
    BY LenProperties DEF TypeOK, HandlerTypeOK, LoopTypeOK
<1>1. CASE UNCHANGED <<m_ClientSocket, newClient, m_ChatRooms>>
    BY <1>1 DEF VectorInv, Outsiders
<1>2. CASE HandleRequest
    <2>1. it \in 1..Len(m_ClientSocket)
        BY <1>2, RequestWrites
    <2>2. newClient' = newClient
        BY <1>2 DEF HandleRequest, loopVars
    <2>3. ASSUME NEW r, CallHandlerJoinRoom(it, r) PROVE VectorInv'
        BY <2>1, <2>2, <2>3, JoinVector DEF VectorInv, Outsiders, TypeOK
    <2> QED BY <1>1, <1>2, <2>2, <2>3, RequestVector
<1>3. CASE InitSSLSucceeds
    <2> DEFINE e == [newClient[1] EXCEPT !.sslEnabled = TRUE]
    <2>1. Len(newClient) = 1 /\ newClient[1] \in ClientSocket
        <3>1. Len(newClient) = 1
            BY <1>3 DEF InitSSLSucceeds, TypeOK, LoopTypeOK
        <3> QED BY <1>t, <3>1
    <2>2. /\ e \in ClientSocket /\ e.sslEnabled
          /\ e.chatRoomJoined = newClient[1].chatRoomJoined
        BY <2>1 DEF ClientSocket
    <2>3. ~newClient[1].chatRoomJoined
        BY <2>1 DEF VectorInv, Outsiders
    <2> HIDE DEF e
    <2>4. /\ m_ClientSocket' = Append(m_ClientSocket, e)
          /\ newClient' = << >> /\ m_ChatRooms' = m_ChatRooms
        BY <1>3 DEF InitSSLSucceeds, e
    <2>5. /\ Len(m_ClientSocket') = Len(m_ClientSocket) + 1
          /\ m_ClientSocket'[Len(m_ClientSocket) + 1] = e
          /\ \A i \in 1..Len(m_ClientSocket) : m_ClientSocket'[i] = m_ClientSocket[i]
        BY <1>t, <2>2, <2>4, AppendProperties
    <2>6. \A i \in 1..Len(m_ClientSocket') :
            i \in 1..Len(m_ClientSocket) \/ i = Len(m_ClientSocket) + 1
        BY <1>t, <2>5
    <2>7. \A i \in 1..Len(m_ClientSocket') :
            /\ m_ClientSocket'[i].sslEnabled
            /\ m_ClientSocket'[i].chatRoomJoined =>
                m_ClientSocket'[i].joinedChatRoomID \in DOMAIN m_ChatRooms'
        BY <2>2, <2>3, <2>4, <2>5, <2>6 DEF VectorInv
    <2>8. Outsiders'
        BY <2>4 DEF Outsiders
    <2> QED BY <2>7, <2>8 DEF VectorInv
<1>4. CASE Accept
    <2>1. newClient'[1].chatRoomJoined = FALSE /\ Len(newClient') = 1
        BY <1>4 DEF Accept
    <2>2. UNCHANGED <<m_ClientSocket, m_ChatRooms>>
        BY <1>4 DEF Accept
    <2>3. \A i \in 1..Len(newClient') : i = 1
        BY <2>1
    <2> QED BY <2>1, <2>2, <2>3 DEF VectorInv, Outsiders
<1>5. CASE InitSSLFails
    BY <1>5 DEF InitSSLFails, VectorInv, Outsiders
<1>6. CASE Disconnect
    <2>1. it \in 1..Len(m_ClientSocket)
        BY <1>6, <1>t DEF Disconnect, AtClient, TypeOK, HandlerTypeOK
    <2>2. /\ m_ClientSocket' = Erased(it)
          /\ UNCHANGED <<newClient, m_ChatRooms>>
        BY <1>6 DEF Disconnect
    <2>3. /\ Len(m_ClientSocket') = Len(m_ClientSocket) - 1
          /\ \A k \in 1..Len(m_ClientSocket') :
                m_ClientSocket'[k] = m_ClientSocket[IF k < it THEN k ELSE k + 1]
        BY <1>t, <2>1, <2>2, ErasedProperties
    <2>4. \A k \in 1..Len(m_ClientSocket') :
            (IF k < it THEN k ELSE k + 1) \in 1..Len(m_ClientSocket)
        BY <1>t, <2>1, <2>3
    <2> QED BY <2>2, <2>3, <2>4 DEF VectorInv, Outsiders
<1> QED BY <1>1, <1>2, <1>3, <1>4, <1>5, <1>6, RoomStepKinds

\* The room of client s.
InRoom(s) == IF s.chatRoomJoined THEN {s.joinedChatRoomID} ELSE {}

Sessions(v) == {v[i].ssl : i \in 1..Len(v)}

\* MemberRooms of a vector v.
Rooms(v) ==
    [c \in Sessions(v) |-> InRoom(v[CHOOSE i \in 1..Len(v) : v[i].ssl = c])]

Once(v) == \A i, j \in 1..Len(v) : v[i].ssl = v[j].ssl => i = j

\* The rooms of a vector that has every connection once, position by position.
LEMMA RoomsAt ==
    ASSUME NEW v, Once(v)
    PROVE  /\ DOMAIN Rooms(v) = Sessions(v)
           /\ \A i \in 1..Len(v) : /\ v[i].ssl \in Sessions(v)
                                   /\ Rooms(v)[v[i].ssl] = InRoom(v[i])
<1>1. ASSUME NEW i \in 1..Len(v)
      PROVE  (CHOOSE j \in 1..Len(v) : v[j].ssl = v[i].ssl) = i
    <2> DEFINE k == CHOOSE j \in 1..Len(v) : v[j].ssl = v[i].ssl
    <2>1. k \in 1..Len(v) /\ v[k].ssl = v[i].ssl
        OBVIOUS
    <2> HIDE DEF k
    <2>2. k = i
        BY <2>1 DEF Once
    <2> QED BY <2>2 DEF k
<1>2. \A i \in 1..Len(v) : v[i].ssl \in Sessions(v)
    BY DEF Sessions
<1>3. DOMAIN Rooms(v) = Sessions(v)
    BY DEF Rooms
<1>4. ASSUME NEW i \in 1..Len(v)
      PROVE  Rooms(v)[v[i].ssl] = InRoom(v[i])
    <2>1. Rooms(v)[v[i].ssl] = InRoom(v[CHOOSE j \in 1..Len(v) : v[j].ssl = v[i].ssl])
        BY <1>2 DEF Rooms
    <2> QED BY <1>1, <2>1
<1> QED BY <1>2, <1>3, <1>4

\* Two vectors have the same rooms if each is a rearrangement of the other's.
LEMMA RoomsEqual ==
    ASSUME NEW v, Once(v), NEW S, NEW f, f = [c \in S |-> f[c]], S = Sessions(v),
           \A i \in 1..Len(v) : f[v[i].ssl] = InRoom(v[i])
    PROVE  f = Rooms(v)
<1>1. ASSUME NEW c \in S PROVE f[c] = Rooms(v)[c]
    <2>1. PICK i \in 1..Len(v) : c = v[i].ssl
        BY DEF Sessions
    <2> QED BY <2>1, RoomsAt
<1>2. Rooms(v) = [c \in S |-> Rooms(v)[c]]
    BY DEF Rooms
<1> QED BY <1>1, <1>2

\* The mapped variables in these terms.
LEMMA MemberRoomsIs ==
    /\ MemberRooms = Rooms(m_ClientSocket)
    /\ MemberRooms' = Rooms(m_ClientSocket')
    /\ Registered = Sessions(m_ClientSocket)
    /\ Registered' = Sessions(m_ClientSocket')
    BY DEF MemberRooms, RoomOf, Rooms, InRoom, Registered, Sessions

\* The vector has every connection once, too.
LEMMA HeldOnceVector ==
    ASSUME NEW v \in Seq(ClientSocket), NEW w \in Seq(ClientSocket), Once(v \o w)
    PROVE  Once(v)
<1>1. /\ Len(v) \in Nat /\ Len(w) \in Nat
      /\ Len(v \o w) = Len(v) + Len(w)
      /\ \A i \in 1..Len(v) : (v \o w)[i] = v[i]
    BY HeldPositions
<1>2. \A i \in 1..Len(v) : i \in 1..Len(v \o w)
    BY <1>1
<1> QED BY <1>1, <1>2 DEF Once

\* The messages among packets, without what is not a message's.
Strip(posts) == [k \in 1..Len(posts) |-> [op |-> posts[k].op, msg |-> posts[k].msg]]

Posting == {p \in Packet : p.op \in Posts}

\* One more message.
LEMMA StripAppend ==
    ASSUME NEW S, NEW posts \in Seq(S), NEW p \in S
    PROVE  Strip(Append(posts, p)) = Append(Strip(posts), [op |-> p.op, msg |-> p.msg])
<1> DEFINE n == Len(posts)
           e(q) == [op |-> q.op, msg |-> q.msg]
           a == Append(posts, p)
<1>1. /\ n \in Nat /\ Len(a) = n + 1 /\ a[n + 1] = p
      /\ \A k \in 1..n : a[k] = posts[k]
    BY LenProperties, AppendProperties
<1> HIDE DEF a, n
<1>2. Strip(a) = [k \in 1..(n + 1) |-> e(a[k])] /\ Strip(posts) = [k \in 1..n |-> e(posts[k])]
    BY <1>1 DEF Strip, n
<1> HIDE DEF e
<1>3. Append([k \in 1..n |-> e(posts[k])], e(p))
        = [k \in 1..(n + 1) |-> IF k \in 1..n THEN e(posts[k]) ELSE e(p)]
    BY <1>1
<1>4. \A k \in 1..(n + 1) : e(a[k]) = IF k \in 1..n THEN e(posts[k]) ELSE e(p)
    BY <1>1
<1>5. Strip(a) = Append(Strip(posts), e(p))
    BY <1>2, <1>3, <1>4
<1> QED BY <1>5 DEF a, e

\* The inbox of the mapping as a selection by packets.
LEMMA InboxIs ==
    ASSUME NEW q \in Seq(Packet)
    PROVE  /\ ElementsAt(q, {k \in 1..Len(q) : q[k].op \in Posts}) = Chosen(q, Posting)
           /\ Chosen(q, Posting) \in Seq(Packet)
<1>1. \A k \in 1..Len(q) : q[k] \in Packet
    BY ElementOfSeq
<1> HIDE DEF Packet, Posts
<1>2. {k \in 1..Len(q) : q[k].op \in Posts} = {k \in 1..Len(q) : q[k] \in Posting}
    BY <1>1 DEF Posting
<1> QED BY <1>2, ElementsAtType DEF Chosen

\* The mapped variables of the service that are not variables of the server.
Reading == {c \in Conn : peer[c] = "up"}
Asked == [c \in Conn |-> [k \in 1..Len(sent[c]) |-> AskOf(sent[c][k])]]
Inboxes == [c \in Conn |-> Inbox(c)]

\* What depends on one variable only.
LEMMA MappedKept ==
    /\ UNCHANGED m_ClientSocket => UNCHANGED MemberRooms
    /\ UNCHANGED peer => UNCHANGED Reading
    /\ PeersKept => UNCHANGED Reading
    /\ UNCHANGED sent => UNCHANGED Asked
    /\ UNCHANGED outq => UNCHANGED Inboxes
<1>1. UNCHANGED m_ClientSocket => UNCHANGED MemberRooms
    BY MemberRoomsIs
<1>2. UNCHANGED peer => UNCHANGED Reading
    BY DEF Reading
<1>3. PeersKept => UNCHANGED Reading
    BY DEF Reading, PeersKept
<1>4. UNCHANGED sent => UNCHANGED Asked
    BY DEF Asked
<1>5. UNCHANGED outq => UNCHANGED Inboxes
    BY DEF Inboxes, Inbox
<1> QED BY <1>1, <1>2, <1>3, <1>4, <1>5

\* A step of the process that changes nothing the service knows of, but perhaps
\* ends the process.
LEMMA SilentStep ==
    ASSUME Running, UNCHANGED <<MemberRooms, Reading, Asked, read, Inboxes>>
    PROVE  ChatServiceOf!ServiceNext
<1>1. Running' \in BOOLEAN
    BY DEF Running
<1>2. ChatServiceOf!Stop
    BY DEF ChatServiceOf!Stop, Reading, Asked, Inboxes
<1> QED BY <1>1, <1>2 DEF ChatServiceOf!ServiceNext

\* The clients' ends.
LEMMA PeerStep ==
    ASSUME Running, NEW c \in Conn, UNCHANGED <<handlerVars, loopVars>>,
           Connect(c) \/ Stall(c) \/ Close(c)
    PROVE  ChatServiceOf!ServiceNext
<1>1. UNCHANGED <<MemberRooms, Asked, read, Inboxes, Running>>
    <2>1. UNCHANGED <<m_ClientSocket, sent, read, outq, pc>>
        BY DEF Connect, Stall, Close, handlerVars
    <2> QED BY <2>1, MappedKept DEF Running
<1>2. Reading' \in SUBSET Conn
    BY DEF Reading
<1>3. ChatServiceOf!PeersChange
    BY <1>1, <1>2 DEF ChatServiceOf!PeersChange, Reading, Asked, Inboxes
<1> QED BY <1>3 DEF ChatServiceOf!ServiceNext

\* A request comes in.
LEMMA AskStep ==
    ASSUME TypeOK, Running, NEW c \in Conn, UNCHANGED <<handlerVars, loopVars>>,
           NEW r \in Request, Send(c, r)
    PROVE  ChatServiceOf!ServiceNext
<1>1. UNCHANGED <<MemberRooms, Reading, read, Inboxes, Running>>
    <2>1. UNCHANGED <<m_ClientSocket, peer, read, outq, pc>>
        BY DEF Send, handlerVars
    <2> QED BY <2>1, MappedKept DEF Running
<1>2. AskOf(r) \in ChatServiceOf!Ask
    BY DEF AskOf, ChatServiceOf!Ask, ChatServiceOf!Kind
<1>3. sent \in [Conn -> Seq(Request)] /\ sent' = [sent EXCEPT ![c] = Append(@, r)]
    BY DEF Send, TypeOK, NetTypeOK
<1> DEFINE asks(s) == [k \in 1..Len(s) |-> AskOf(s[k])]
<1>4. asks(Append(sent[c], r)) = Append(asks(sent[c]), AskOf(r))
    <2> DEFINE s == sent[c]
               t == Append(s, r)
    <2>1. s \in Seq(Request)
        BY <1>3
    <2>2. /\ Len(s) \in Nat /\ Len(t) = Len(s) + 1 /\ t[Len(s) + 1] = r
          /\ \A k \in 1..Len(s) : t[k] = s[k]
        BY <2>1, LenProperties, AppendProperties
    <2> HIDE DEF s, t
    <2>3. Append(asks(s), AskOf(r))
            = [k \in 1..(Len(s) + 1) |-> IF k \in 1..Len(s) THEN AskOf(s[k]) ELSE AskOf(r)]
        BY <2>2
    <2>4. \A k \in 1..(Len(s) + 1) :
            AskOf(t[k]) = IF k \in 1..Len(s) THEN AskOf(s[k]) ELSE AskOf(r)
        BY <2>2
    <2>5. asks(t) = Append(asks(s), AskOf(r))
        BY <2>2, <2>3, <2>4
    <2> QED BY <2>5 DEF s, t
<1>5. Asked = [d \in Conn |-> asks(sent[d])] /\ Asked' = [d \in Conn |-> asks(sent'[d])]
    BY DEF Asked
<1> HIDE DEF asks
<1>6. Asked' = [Asked EXCEPT ![c] = Append(@, AskOf(r))]
    BY <1>3, <1>4, <1>5
<1>7. ChatServiceOf!AskFor(c, AskOf(r))
    BY <1>1, <1>6 DEF ChatServiceOf!AskFor, Reading, Asked, Inboxes
<1> QED BY <1>2, <1>7 DEF ChatServiceOf!ServiceNext

\* The inbox of a connection as a selection.
LEMMA InboxChosen ==
    ASSUME TypeOK, TypeOK', NEW d \in Conn
    PROVE  /\ Inbox(d) = Strip(Chosen(outq[d], Posting))
           /\ Inbox(d)' = Strip(Chosen(outq'[d], Posting))
           /\ Chosen(outq[d], Posting) \in Seq(Packet)
<1>1. outq[d] \in Seq(Packet) /\ outq'[d] \in Seq(Packet)
    BY DEF TypeOK, NetTypeOK
<1> HIDE DEF Packet, Posting
<1> QED BY <1>1, InboxIs DEF Inbox, Strip

\* What is no post reaches no inbox.
LEMMA NoNewPost ==
    ASSUME TypeOK, TypeOK', NEW c, NEW packet \in Packet, packet \notin Posting,
           outq' = Delivered(c, <<packet>>, << >>, {})
    PROVE  UNCHANGED Inboxes
<1> HIDE DEF Packet
<1>1. /\ AtMostOne(<<packet>>, Packet) /\ AtMostOne(<< >>, Packet)
      /\ ~Adds(<<packet>>, Posting) /\ ~Adds(<< >>, Posting)
    BY DEF AtMostOne, Adds
<1> HIDE DEF Posting
<1>2. outq \in [Conn -> Seq(Packet)]
    BY DEF TypeOK, NetTypeOK
<1>3. ASSUME NEW d \in Conn PROVE Inbox(d)' = Inbox(d)
    <2>1. Chosen(outq'[d], Posting) = Chosen(outq[d], Posting)
        BY <1>1, <1>2, ChosenDelivered, Zenon
    <2> QED BY <2>1, InboxChosen
<1> QED BY <1>3 DEF Inboxes

\* The vector has every connection once, before a step and after it.
LEMMA OnceBoth ==
    ASSUME TypeOK, TypeOK', HeldOnce, HeldOnce'
    PROVE  Once(m_ClientSocket) /\ Once(m_ClientSocket')
<1>1. /\ m_ClientSocket \in Seq(ClientSocket) /\ newClient \in Seq(ClientSocket)
      /\ m_ClientSocket' \in Seq(ClientSocket) /\ newClient' \in Seq(ClientSocket)
    BY DEF TypeOK, HandlerTypeOK, LoopTypeOK
<1>2. Once(m_ClientSocket \o newClient) /\ Once(m_ClientSocket' \o newClient')
    BY DEF HeldOnce, Held, Once
<1> HIDE DEF ClientSocket
<1> QED BY <1>1, <1>2, HeldOnceVector

\* A client comes in.
LEMMA EnterStep ==
    ASSUME TypeOK, TypeOK', HeldOnce, HeldOnce', VectorInv, InitSSLSucceeds
    PROVE  ChatServiceOf!ServiceNext
<1> HIDE DEF Packet, ClientSocket
<1> DEFINE e == [newClient[1] EXCEPT !.sslEnabled = TRUE]
           c == newClient[1].ssl
           v == m_ClientSocket
           w == m_ClientSocket'
<1>0. v \in Seq(ClientSocket) /\ newClient \in Seq(ClientSocket) /\ Len(v) \in Nat
    BY LenProperties DEF TypeOK, HandlerTypeOK, LoopTypeOK
<1>1. Len(newClient) = 1 /\ newClient[1] \in ClientSocket
    <2>1. Len(newClient) = 1
        BY DEF InitSSLSucceeds, TypeOK, LoopTypeOK
    <2> QED BY <1>0, <2>1
<1>2. /\ e \in ClientSocket /\ e.ssl = c /\ c \in Conn
      /\ e.chatRoomJoined = newClient[1].chatRoomJoined
    BY <1>1 DEF ClientSocket
<1>3. ~e.chatRoomJoined
    BY <1>1, <1>2 DEF VectorInv, Outsiders
<1>4. w = Append(v, e)
    BY DEF InitSSLSucceeds
<1> HIDE DEF e
<1>5. /\ Len(w) = Len(v) + 1 /\ w[Len(v) + 1] = e
      /\ \A i \in 1..Len(v) : w[i] = v[i]
    BY <1>0, <1>2, <1>4, AppendProperties
<1>6. Once(v) /\ Once(w)
    BY OnceBoth
<1>7. \A i \in 1..Len(w) : i \in 1..Len(v) \/ i = Len(v) + 1
    BY <1>0, <1>5
<1>8. \A i \in 1..Len(v) : i \in 1..Len(w)
    BY <1>0, <1>5
<1>9. Len(v) + 1 \in 1..Len(w) /\ Len(v) + 1 \notin 1..Len(v)
    BY <1>0, <1>5
<1> HIDE DEF v, w, c
<1>10. c \notin Sessions(v)
    BY <1>2, <1>5, <1>6, <1>8, <1>9 DEF Sessions, Once
<1>11. Sessions(w) = Sessions(v) \cup {c}
    <2>1. \A x \in Sessions(w) : x \in Sessions(v) \cup {c}
        BY <1>2, <1>5, <1>7 DEF Sessions
    <2>2. c \in Sessions(w)
        BY <1>2, <1>5, <1>9 DEF Sessions
    <2>3. \A x \in Sessions(v) : x \in Sessions(w)
        BY <1>5, <1>8 DEF Sessions
    <2> QED BY <2>1, <2>2, <2>3
<1> DEFINE f == [d \in Sessions(v) \cup {c} |-> IF d = c THEN {} ELSE Rooms(v)[d]]
<1>12. \A i \in 1..Len(w) : f[w[i].ssl] = InRoom(w[i])
    <2> TAKE i \in 1..Len(w)
    <2>1. CASE i \in 1..Len(v)
        BY <1>5, <1>6, <1>10, <2>1, RoomsAt
    <2>2. CASE i = Len(v) + 1
        <3>1. w[i] = e
            BY <1>5, <2>2
        <3> QED BY <1>2, <1>3, <3>1 DEF InRoom
    <2> QED BY <1>7, <2>1, <2>2
<1>13. f = Rooms(w)
    <2>1. f = [d \in Sessions(w) |-> f[d]]
        BY <1>11
    <2> HIDE DEF f
    <2> QED BY <1>6, <1>12, <2>1, RoomsEqual
<1>14. /\ MemberRooms = Rooms(v) /\ MemberRooms' = Rooms(w)
    BY MemberRoomsIs DEF v, w
<1>15. DOMAIN MemberRooms = Sessions(v)
    BY <1>6, <1>14, RoomsAt
<1>16. MemberRooms' = [d \in DOMAIN MemberRooms \cup {c} |->
                        IF d = c THEN {} ELSE MemberRooms[d]]
    BY <1>13, <1>14, <1>15
<1>17. UNCHANGED <<Reading, Asked, read, Inboxes>>
    <2>1. UNCHANGED <<sent, read>>
        BY DEF InitSSLSucceeds
    <2>2. PeersKept \/ UNCHANGED peer
        <3>1. peer \in [Conn -> PeerState]
            BY DEF TypeOK, NetTypeOK
        <3> QED BY <3>1, WritesKeepPeers DEF InitSSLSucceeds, SendMOTD
    <2>3. UNCHANGED Inboxes
        <3>1. UNCHANGED outq \/ \E a : outq' = Delivered(a, <<[op |-> "SMSG_MOTD"]>>, << >>, {})
            BY DEF InitSSLSucceeds, SendMOTD
        <3>2. [op |-> "SMSG_MOTD"] \in Packet /\ [op |-> "SMSG_MOTD"] \notin Posting
            BY PacketKinds DEF Posting, Posts
        <3> HIDE DEF Posting
        <3> QED BY <3>1, <3>2, NoNewPost, MappedKept
    <2> QED BY <2>1, <2>2, <2>3, MappedKept
<1>18. ChatServiceOf!Enter(c)
    <2>1. c \notin DOMAIN MemberRooms
        BY <1>10, <1>15
    <2> QED BY <1>16, <1>17, <2>1 DEF ChatServiceOf!Enter, ChatServiceOf!Present,
            Reading, Asked, Inboxes
<1>19. Running /\ Running' \in BOOLEAN
    BY DEF InitSSLSucceeds, Running
<1> QED BY <1>2, <1>18, <1>19 DEF ChatServiceOf!ServiceNext

\* A client is dropped.
LEMMA LeaveStep ==
    ASSUME TypeOK, TypeOK', HeldOnce, HeldOnce', Disconnect
    PROVE  ChatServiceOf!ServiceNext
<1> HIDE DEF ClientSocket
<1> DEFINE v == m_ClientSocket
           w == m_ClientSocket'
           c == v[it].ssl
           at(k) == IF k < it THEN k ELSE k + 1
           back(i) == IF i < it THEN i ELSE i - 1
<1>0. v \in Seq(ClientSocket) /\ Len(v) \in Nat
    BY LenProperties DEF TypeOK, HandlerTypeOK
<1>1. it \in 1..Len(v)
    BY <1>0 DEF Disconnect, AtClient, TypeOK, HandlerTypeOK
<1>2. c \in Conn
    <2>1. v[it] \in ClientSocket
        BY <1>0, <1>1, ElementOfSeq
    <2> QED BY <2>1 DEF ClientSocket
<1>3. /\ Len(w) = Len(v) - 1
      /\ \A k \in 1..Len(w) : w[k] = v[at(k)]
    BY <1>0, <1>1, ErasedProperties DEF Disconnect
<1>4. \A k \in 1..Len(w) : at(k) \in 1..Len(v) /\ at(k) # it
    BY <1>0, <1>1, <1>3
<1>5. \A i \in 1..Len(v) : i # it => back(i) \in 1..Len(w) /\ at(back(i)) = i
    BY <1>0, <1>1, <1>3
<1>6. Once(v) /\ Once(w)
    BY OnceBoth
<1>14. /\ MemberRooms = Rooms(v) /\ MemberRooms' = Rooms(w)
    BY MemberRoomsIs
<1> HIDE DEF v, w, at, back
<1>7. \A i \in 1..Len(v) : v[i].ssl = c => i = it
    BY <1>1, <1>6 DEF Once
<1> HIDE DEF c
<1>8. c \in Sessions(v)
    BY <1>1 DEF Sessions, c
<1>9. Sessions(w) = Sessions(v) \ {c}
    <2>1. ASSUME NEW x \in Sessions(w) PROVE x \in Sessions(v) \ {c}
        <3>1. PICK k \in 1..Len(w) : x = w[k].ssl
            BY DEF Sessions
        <3> QED BY <1>3, <1>4, <1>7, <3>1 DEF Sessions
    <2>2. ASSUME NEW x \in Sessions(v), x # c PROVE x \in Sessions(w)
        <3>1. PICK i \in 1..Len(v) : x = v[i].ssl
            BY DEF Sessions
        <3>2. i # it
            BY <2>2, <3>1 DEF c
        <3>3. back(i) \in 1..Len(w) /\ w[back(i)] = v[i]
            BY <1>3, <1>5, <3>2
        <3> QED BY <3>1, <3>3 DEF Sessions
    <2> QED BY <2>1, <2>2
<1> DEFINE f == [d \in Sessions(v) \ {c} |-> Rooms(v)[d]]
<1>10. \A k \in 1..Len(w) : f[w[k].ssl] = InRoom(w[k])
    <2> TAKE k \in 1..Len(w)
    <2>1. w[k] = v[at(k)] /\ at(k) \in 1..Len(v) /\ v[at(k)].ssl # c
        BY <1>3, <1>4, <1>7
    <2> QED BY <1>6, <2>1, RoomsAt
<1>13. f = Rooms(w)
    <2>1. f = [d \in Sessions(w) |-> f[d]]
        BY <1>9
    <2> HIDE DEF f
    <2> QED BY <1>6, <1>9, <1>10, <2>1, RoomsEqual
<1>15. DOMAIN MemberRooms = Sessions(v)
    BY <1>6, <1>14, RoomsAt
<1>16. MemberRooms' = [d \in DOMAIN MemberRooms \ {c} |-> MemberRooms[d]]
    BY <1>13, <1>14, <1>15
<1>17. UNCHANGED <<Reading, Asked, read, Inboxes>>
    BY MappedKept DEF Disconnect, netVars
<1>18. ChatServiceOf!Leave(c)
    BY <1>8, <1>15, <1>16, <1>17 DEF ChatServiceOf!Leave, ChatServiceOf!Present,
            Reading, Asked, Inboxes
<1>19. Running /\ Running' \in BOOLEAN
    BY DEF Disconnect, AtClient, Running
<1> QED BY <1>2, <1>18, <1>19 DEF ChatServiceOf!ServiceNext

\* Who gets message post, in the service's terms.
Get(post, to) ==
    [d \in Conn |-> IF d \in to THEN Append(Inboxes[d], post) ELSE Inboxes[d]]

\* What a handler has written when it returns or dies, as the service sees it:
\* nothing, or its message in the inboxes of its receivers that read.
LEMMA DeliveryInbox ==
    ASSUME TypeOK, TypeOK', NEW c \in Conn, NEW r, NEW tag, Delivery(c, r, tag)
    PROVE  \/ UNCHANGED Inboxes /\ (~Running' \/ NoPost(it, r))
           \/ \E p, to, got : /\ PostTo(it, r, tag, p, to)
                              /\ got \subseteq to /\ (Running' => got = to)
                              /\ Inboxes' = Get([op |-> p.op, msg |-> p.msg],
                                                got \cap Reading)
<1> HIDE DEF Packet
<1>1. CASE outq' = outq /\ (~Running' \/ NoPost(it, r))
    BY <1>1, MappedKept
<1>2. ASSUME NEW direct, NEW fan, NEW to, NEW got,
             Script(it, r, tag, direct, fan, to),
             got \subseteq to, Running' => got = to,
             outq' = Delivered(c, direct, fan, got)
      PROVE  \/ UNCHANGED Inboxes /\ (~Running' \/ NoPost(it, r))
             \/ /\ PostTo(it, r, tag, fan[1], to)
                /\ Inboxes' = Get([op |-> fan[1].op, msg |-> fan[1].msg],
                                  got \cap Reading)
    <2>1. /\ AtMostOne(direct, Packet) /\ AtMostOne(fan, Packet)
          /\ direct # << >> => AnswerTo(it, r, tag, direct[1])
          /\ fan = << >> => NoPost(it, r)
          /\ fan # << >> => PostTo(it, r, tag, fan[1], to)
        BY <1>2, ScriptParts
    <2>2. ~Adds(direct, Posting)
        <3>1. \A p : AnswerTo(it, r, tag, p) => p.op \notin Posts
            BY DEF AnswerTo, Answers, Posts
        <3> QED BY <2>1, <3>1 DEF Adds, Posting
    <2>3. Adds(fan, Posting) <=> fan # << >>
        <3>1. \A p : PostTo(it, r, tag, p, to) => p.op \in Posts
            BY DEF PostTo, Posts
        <3>2. fan # << >> => fan[1] \in Packet
            BY <2>1 DEF AtMostOne
        <3> QED BY <2>1, <3>1, <3>2 DEF Adds, Posting
    <2>4. outq \in [Conn -> Seq(Packet)]
        BY DEF TypeOK, NetTypeOK
    <2> HIDE DEF Posting
    <2>5. ASSUME NEW d \in Conn
          PROVE  Inbox(d)' = IF fan # << >> /\ d \in got \cap Reading
                             THEN Append(Inbox(d), [op |-> fan[1].op, msg |-> fan[1].msg])
                             ELSE Inbox(d)
        <3> DEFINE old == Chosen(outq[d], Posting)
        <3>1. Chosen(outq'[d], Posting) =
                IF peer[d] # "up" THEN old
                ELSE IF d \in got /\ Adds(fan, Posting) THEN Append(old, fan[1]) ELSE old
            BY <1>2, <2>1, <2>2, <2>4, ChosenDelivered, Zenon
        <3>2. d \in Reading <=> peer[d] = "up"
            BY DEF Reading
        <3>3. Inbox(d) = Strip(old) /\ Inbox(d)' = Strip(Chosen(outq'[d], Posting))
              /\ old \in Seq(Packet)
            BY InboxChosen
        <3> HIDE DEF old
        <3>4. fan # << >> => Strip(Append(old, fan[1]))
                    = Append(Strip(old), [op |-> fan[1].op, msg |-> fan[1].msg])
            <4>1. fan # << >> => fan[1] \in Packet
                BY <2>1 DEF AtMostOne
            <4> QED BY <3>3, <4>1, StripAppend
        <3> QED BY <2>3, <3>1, <3>2, <3>3, <3>4
    <2>6. CASE fan = << >>
        BY <2>1, <2>5, <2>6 DEF Inboxes
    <2>7. CASE fan # << >>
        <3>1. Inboxes' = Get([op |-> fan[1].op, msg |-> fan[1].msg], got \cap Reading)
            BY <2>5, <2>7 DEF Inboxes, Get
        <3> QED BY <2>1, <2>7, <3>1
    <2> QED BY <2>6, <2>7
<1>3. CASE \E direct, fan, to, got :
            /\ Script(it, r, tag, direct, fan, to)
            /\ got \subseteq to /\ (Running' => got = to)
            /\ outq' = Delivered(c, direct, fan, got)
    <2>1. PICK direct, fan, to, got :
            /\ Script(it, r, tag, direct, fan, to)
            /\ got \subseteq to /\ (Running' => got = to)
            /\ outq' = Delivered(c, direct, fan, got)
        BY <1>3, Zenon
    <2>2. \/ UNCHANGED Inboxes /\ (~Running' \/ NoPost(it, r))
          \/ /\ PostTo(it, r, tag, fan[1], to)
             /\ Inboxes' = Get([op |-> fan[1].op, msg |-> fan[1].msg],
                               got \cap Reading)
        BY <1>2, <2>1, Zenon
    <2> QED BY <2>1, <2>2, Zenon
<1> QED BY <1>1, <1>3, Zenon DEF Delivery

\* A request handled is a step of the service.
LEMMA RequestStep ==
    ASSUME TypeOK, TypeOK', IDInv, HeldOnce, HeldOnce', VectorInv, HandleRequest
    PROVE  ChatServiceOf!ServiceNext
<1> HIDE DEF Packet, ClientSocket
<1>1. PICK c \in Conn, n \in Nat \ {0} :
        /\ c = m_ClientSocket[it].ssl
        /\ n = read[c] + 1 /\ n <= Len(sent[c]) /\ sent[c][n] \in Request
        /\ read' = [read EXCEPT ![c] = n]
        /\ Delivery(c, sent[c][n], <<c, n>>)
    BY RequestDelivers
<1> DEFINE r == sent[c][n]
           tag == <<c, n>>
           v == m_ClientSocket
<1>2. it \in 1..Len(v) /\ pc = "process"
    BY RequestWrites DEF HandleRequest, AtClient
<1>3. \/ UNCHANGED <<m_ClientSocket, m_ChatRooms>>
      \/ r.op = "CMSG_JOIN_ROOM" /\ CallHandlerJoinRoom(it, r)
    BY <1>1, RequestVector
<1>4. \/ UNCHANGED Inboxes /\ (~Running' \/ NoPost(it, r))
      \/ \E p, to, got : /\ PostTo(it, r, tag, p, to)
                         /\ got \subseteq to /\ (Running' => got = to)
                         /\ Inboxes' = Get([op |-> p.op, msg |-> p.msg], got \cap Reading)
    <2>1. Delivery(c, r, tag)
        BY <1>1
    <2> HIDE DEF r, tag
    <2> QED BY <2>1, DeliveryInbox, Zenon
<1>5. UNCHANGED <<Reading, Asked>>
    <2>1. PeersKept
        BY <1>2, RequestWrites, WritesEnd DEF TypeOK
    <2>2. UNCHANGED sent
        BY DEF HandleRequest
    <2> QED BY <2>1, <2>2, MappedKept
<1>6. Once(v) /\ Once(m_ClientSocket')
    BY OnceBoth
<1>7. /\ MemberRooms = Rooms(v) /\ MemberRooms' = Rooms(m_ClientSocket')
      /\ DOMAIN MemberRooms = Sessions(v)
      /\ \A i \in 1..Len(v) : /\ v[i].ssl \in Sessions(v)
                              /\ MemberRooms[v[i].ssl] = InRoom(v[i])
    BY <1>6, MemberRoomsIs, RoomsAt
<1>8. c \in DOMAIN MemberRooms /\ MemberRooms[c] = InRoom(v[it])
    BY <1>1, <1>2, <1>7
<1>9. ChatServiceOf!Handled(c)
    <2>1. Len(Asked[c]) = Len(sent[c]) /\ read[c] < Len(Asked[c])
        BY <1>1 DEF Asked, TypeOK, NetTypeOK
    <2>2. read' = [read EXCEPT ![c] = @ + 1]
        BY <1>1
    <2> QED BY <1>5, <1>8, <2>1, <2>2 DEF ChatServiceOf!Handled, ChatServiceOf!Present,
            Reading, Asked
<1>10. ChatServiceOf!AskedNow(c) = AskOf(r)
    <2>1. n \in 1..Len(sent[c])
        BY <1>1 DEF TypeOK, NetTypeOK
    <2> QED BY <1>1, <2>1 DEF ChatServiceOf!AskedNow
<1>11. Running /\ Running' \in BOOLEAN
    BY <1>2 DEF Running
<1>12. read'[c] = n
    BY <1>1 DEF TypeOK, NetTypeOK
<1> HIDE DEF r, tag, v
<1>13. ASSUME UNCHANGED MemberRooms, UNCHANGED Inboxes,
              \/ AskOf(r) \in {"join", "other", "SMSG_PRIVATE_MESSAGE"}
              \/ AskOf(r) = "SMSG_SAY" /\ MemberRooms[c] = {}
       PROVE  ChatServiceOf!ServiceNext
    <2>1. ChatServiceOf!Other(c)
        BY <1>9, <1>10, <1>13 DEF ChatServiceOf!Other, Inboxes
    <2> QED BY <1>11, <2>1 DEF ChatServiceOf!ServiceNext
<1>14. ASSUME NEW kind \in ChatServiceOf!Kind, AskOf(r) = kind,
              NEW to, to \in ChatServiceOf!Audiences(c, kind), UNCHANGED MemberRooms,
              NEW got, got \subseteq to, Running' => got = to,
              Inboxes' = Get([op |-> kind, msg |-> tag], got \cap Reading)
       PROVE  ChatServiceOf!ServiceNext
    <2>1. ChatServiceOf!Post(c, kind, to)
        <3> DEFINE g == got \cap Reading
                   post == [op |-> kind, msg |-> <<c, read'[c]>>]
        <3>1. g \in SUBSET (to \cap Reading) /\ (Running' => g = to \cap Reading)
            BY <1>14
        <3>2. Inboxes' = Get(post, g)
            BY <1>12, <1>14 DEF tag
        <3> HIDE DEF g
        <3>3. Inboxes' = ChatServiceOf!Received(post, g)
            BY <3>2 DEF ChatServiceOf!Received, Get, Inboxes
        <3> QED BY <1>9, <1>10, <1>14, <3>1, <3>3 DEF ChatServiceOf!Post, Inboxes, Reading
    <2> QED BY <1>8, <1>11, <1>14, <2>1 DEF ChatServiceOf!ServiceNext, ChatServiceOf!Present
<1>15. ASSUME NEW kind \in ChatServiceOf!Kind, AskOf(r) = kind,
              NEW to, to \in ChatServiceOf!Audiences(c, kind), UNCHANGED MemberRooms,
              UNCHANGED Inboxes, ~Running'
       PROVE  ChatServiceOf!ServiceNext
    <2>1. Inboxes' = Get([op |-> kind, msg |-> tag], {} \cap Reading)
        BY <1>15 DEF Get, Inboxes
    <2> QED BY <1>14, <1>15, <2>1
<1>16. CASE r.op = "CMSG_BROADCAST_MESSAGE"
    <2>1. UNCHANGED MemberRooms
        BY <1>3, <1>16, MappedKept
    <2>2. AskOf(r) = "SMSG_BROADCAST" /\ "SMSG_BROADCAST" \in ChatServiceOf!Kind
        BY <1>16 DEF AskOf, ChatServiceOf!Kind
    <2>3. ChatServiceOf!Audiences(c, "SMSG_BROADCAST") = {Sessions(v)}
        BY <1>7 DEF ChatServiceOf!Audiences, ChatServiceOf!Present
    <2>4. CASE UNCHANGED Inboxes /\ (~Running' \/ NoPost(it, r))
        BY <1>15, <1>16, <2>1, <2>2, <2>3, <2>4 DEF NoPost
    <2>5. ASSUME NEW p, NEW to, NEW got, PostTo(it, r, tag, p, to),
                 got \subseteq to, Running' => got = to,
                 Inboxes' = Get([op |-> p.op, msg |-> p.msg], got \cap Reading)
          PROVE  ChatServiceOf!ServiceNext
        <3>1. p.op = "SMSG_BROADCAST" /\ p.msg = tag /\ to = {client(j).ssl : j \in Enabled}
            BY <1>16, <2>5 DEF PostTo
        <3>2. Enabled = 1..Len(v)
            BY DEF Enabled, VectorInv, client, v
        <3>3. to = Sessions(v)
            BY <3>1, <3>2 DEF Sessions, client, v
        <3> QED BY <1>14, <2>1, <2>2, <2>3, <2>5, <3>1, <3>3
    <2> QED BY <1>4, <2>4, <2>5
<1>17. CASE r.op = "CMSG_SAY"
    <2>1. UNCHANGED MemberRooms
        BY <1>3, <1>17, MappedKept
    <2>2. AskOf(r) = "SMSG_SAY" /\ "SMSG_SAY" \in ChatServiceOf!Kind
        BY <1>17 DEF AskOf, ChatServiceOf!Kind
    <2> DEFINE room == v[it].joinedChatRoomID
               audience == {d \in Sessions(v) : MemberRooms[d] = {room}}
    <2>3. ASSUME v[it].chatRoomJoined
          PROVE  /\ ChatServiceOf!Audiences(c, "SMSG_SAY") = {audience}
                 /\ checkRoomID(m_ChatRooms, room)
                 /\ RoomMembers(room) = audience
        <3>1. MemberRooms[c] = {room}
            BY <1>8, <2>3 DEF InRoom
        <3>2. ChatServiceOf!Audiences(c, "SMSG_SAY") = {audience}
            BY <1>7, <3>1 DEF ChatServiceOf!Audiences, ChatServiceOf!Present
        <3>3. checkRoomID(m_ChatRooms, room)
            BY <1>2, <2>3 DEF checkRoomID, VectorInv, v
        <3> HIDE DEF room
        <3>4. ASSUME NEW d \in RoomMembers(room) PROVE d \in audience
            <4>1. PICK j \in Enabled : /\ d = client(j).ssl /\ client(j).chatRoomJoined
                                       /\ client(j).joinedChatRoomID = room
                BY DEF RoomMembers
            <4>2. j \in 1..Len(v) /\ client(j) = v[j]
                BY DEF Enabled, client, v
            <4>3. InRoom(v[j]) = {room}
                BY <4>1, <4>2 DEF InRoom
            <4> QED BY <1>7, <4>1, <4>2, <4>3
        <3>5. ASSUME NEW d \in audience PROVE d \in RoomMembers(room)
            <4>1. PICK j \in 1..Len(v) : d = v[j].ssl
                BY DEF Sessions
            <4>2. InRoom(v[j]) = {room}
                BY <1>7, <4>1
            <4>3. v[j].chatRoomJoined /\ v[j].joinedChatRoomID = room
                BY <4>2 DEF InRoom
            <4>4. j \in Enabled /\ client(j) = v[j]
                BY DEF Enabled, client, VectorInv, v
            <4> QED BY <4>1, <4>3, <4>4 DEF RoomMembers
        <3> QED BY <3>2, <3>3, <3>4, <3>5
    <2>c. client(it) = v[it]
        BY DEF client, v
    <2> HIDE DEF room, audience
    <2>4. CASE UNCHANGED Inboxes /\ (~Running' \/ NoPost(it, r))
        <3>1. CASE v[it].chatRoomJoined
            <4>1. ~Running'
                BY <1>17, <2>3, <2>4, <2>c, <3>1 DEF NoPost, room
            <4> QED BY <1>15, <2>1, <2>2, <2>3, <2>4, <3>1, <4>1
        <3>2. CASE ~v[it].chatRoomJoined
            <4>1. MemberRooms[c] = {}
                BY <1>8, <3>2 DEF InRoom
            <4> QED BY <1>13, <2>1, <2>2, <2>4, <4>1
        <3> QED BY <3>1, <3>2
    <2>5. ASSUME NEW p, NEW to, NEW got, PostTo(it, r, tag, p, to),
                 got \subseteq to, Running' => got = to,
                 Inboxes' = Get([op |-> p.op, msg |-> p.msg], got \cap Reading)
          PROVE  ChatServiceOf!ServiceNext
        <3>1. /\ p.op = "SMSG_SAY" /\ p.msg = tag /\ v[it].chatRoomJoined
              /\ to = RoomMembers(room)
            BY <1>17, <2>5, <2>c DEF PostTo, room
        <3>2. to = audience
            BY <2>3, <3>1
        <3> QED BY <1>14, <2>1, <2>2, <2>3, <2>5, <3>1, <3>2
    <2> QED BY <1>4, <2>4, <2>5
<1>18. CASE r.op = "CMSG_SEND_MSG_TO_CLIENT"
    <2>1. UNCHANGED MemberRooms
        BY <1>3, <1>18, MappedKept
    <2>2. AskOf(r) = "SMSG_PRIVATE_MESSAGE" /\ "SMSG_PRIVATE_MESSAGE" \in ChatServiceOf!Kind
        BY <1>18 DEF AskOf, ChatServiceOf!Kind
    <2>3. CASE UNCHANGED Inboxes
        BY <1>13, <2>1, <2>2, <2>3
    <2>4. ASSUME NEW p, NEW to, NEW got, PostTo(it, r, tag, p, to),
                 got \subseteq to, Running' => got = to,
                 Inboxes' = Get([op |-> p.op, msg |-> p.msg], got \cap Reading)
          PROVE  ChatServiceOf!ServiceNext
        <3>1. /\ p.op = "SMSG_PRIVATE_MESSAGE" /\ p.msg = tag
              /\ r.clientID # client(it).clientID
              /\ to = {client(j).ssl : j \in Found(r.clientID)}
            BY <1>18, <2>4 DEF PostTo
        <3>2. CASE Found(r.clientID) = {}
            <4>1. got \cap Reading = {}
                BY <2>4, <3>1, <3>2
            <4>2. UNCHANGED Inboxes
                BY <2>4, <4>1 DEF Get, Inboxes
            <4> QED BY <2>3, <4>2
        <3>3. ASSUME NEW j \in Found(r.clientID) PROVE ChatServiceOf!ServiceNext
            <4>1. \A k \in Found(r.clientID) :
                    k \in 1..Len(v) /\ client(k).clientID = r.clientID
                BY DEF Found, v
            <4>2. \A i, k \in 1..Len(v) : client(i).clientID = client(k).clientID => i = k
                BY <1>2, VectorIDs DEF v
            <4>3. Found(r.clientID) = {j}
                BY <3>3, <4>1, <4>2
            <4>4. to = {client(j).ssl}
                BY <3>1, <4>3
            <4>5. client(j).ssl \in Sessions(v) \ {c}
                <5>1. j \in 1..Len(v) /\ j # it
                    BY <3>1, <4>1
                <5>2. client(j) = v[j] /\ client(it) = v[it]
                    BY DEF client, v
                <5>3. c = v[it].ssl
                    BY <1>1 DEF v
                <5> QED BY <1>2, <1>6, <5>1, <5>2, <5>3 DEF Sessions, Once
            <4>6. to \in ChatServiceOf!Audiences(c, "SMSG_PRIVATE_MESSAGE")
                BY <1>7, <4>4, <4>5 DEF ChatServiceOf!Audiences, ChatServiceOf!Present
            <4> QED BY <1>14, <2>1, <2>2, <2>4, <3>1, <4>6
        <3> QED BY <3>2, <3>3
    <2> QED BY <1>4, <2>3, <2>4
<1>19. ASSUME r.op \notin {"CMSG_BROADCAST_MESSAGE", "CMSG_SAY", "CMSG_SEND_MSG_TO_CLIENT"}
       PROVE  UNCHANGED Inboxes /\ AskOf(r) \in {"join", "other"}
    BY <1>4, <1>19 DEF PostTo, AskOf
<1>20. CASE r.op = "CMSG_JOIN_ROOM"
    <2>1. UNCHANGED Inboxes /\ AskOf(r) = "join"
        BY <1>19, <1>20 DEF AskOf
    <2>2. CASE UNCHANGED m_ClientSocket
        BY <1>13, <2>1, <2>2, MappedKept
    <2>3. CASE CallHandlerJoinRoom(it, r) /\ m_ClientSocket' # m_ClientSocket
        <3> DEFINE w == m_ClientSocket'
        <3>1. /\ Len(w) = Len(v)
              /\ \A i \in 1..Len(v) :
                    IF i # it THEN w[i] = v[i]
                    ELSE /\ w[i].chatRoomJoined
                         /\ w[i].joinedChatRoomID = r.room
                         /\ w[i].ssl = v[i].ssl
            BY <1>2, <2>3, JoinVector DEF TypeOK, v
        <3>2. r.room \in RoomID
            BY <1>1, <1>20, RequestAssumption DEF r, PlainRequest, JoinRequest, PrivateRequest
        <3>3. c = v[it].ssl
            BY <1>1 DEF v
        <3>w. MemberRooms' = Rooms(w) /\ Once(w)
            BY <1>6, <1>7
        <3> HIDE DEF w
        <3>4. Sessions(w) = Sessions(v)
            <4>1. \A i \in 1..Len(v) : w[i].ssl = v[i].ssl
                BY <3>1
            <4> QED BY <3>1, <4>1 DEF Sessions
        <3> DEFINE f == [MemberRooms EXCEPT ![c] = {r.room}]
        <3>5. \A i \in 1..Len(w) : f[w[i].ssl] = InRoom(w[i])
            <4> TAKE i \in 1..Len(w)
            <4>1. i \in 1..Len(v)
                BY <3>1
            <4>2. CASE i # it
                <5>1. v[i].ssl # c /\ w[i] = v[i]
                    BY <1>2, <1>6, <3>1, <3>3, <4>1, <4>2 DEF Once
                <5> QED BY <1>7, <4>1, <5>1
            <4>3. CASE i = it
                <5>1. w[i].ssl = c /\ InRoom(w[i]) = {r.room}
                    BY <3>1, <3>3, <4>1, <4>3 DEF InRoom
                <5> QED BY <1>8, <5>1
            <4> QED BY <4>2, <4>3
        <3>6. f = Rooms(w)
            <4>1. f = [d \in Sessions(w) |-> f[d]]
                BY <1>7, <3>4
            <4> HIDE DEF f
            <4> QED BY <3>w, <3>5, <4>1, RoomsEqual
        <3>7. ChatServiceOf!JoinRoom(c, r.room)
            BY <1>9, <1>10, <2>1, <3>w, <3>6 DEF ChatServiceOf!JoinRoom, Inboxes
        <3> QED BY <1>11, <3>2, <3>7 DEF ChatServiceOf!ServiceNext
    <2> QED BY <1>3, <2>2, <2>3
<1>21. CASE r.op \notin {"CMSG_BROADCAST_MESSAGE", "CMSG_SAY", "CMSG_SEND_MSG_TO_CLIENT",
                         "CMSG_JOIN_ROOM"}
    BY <1>3, <1>13, <1>19, <1>21, MappedKept
<1> QED BY <1>16, <1>17, <1>18, <1>20, <1>21

\* Every step of the server is a step of the service or none.
LEMMA ServiceStep ==
    ASSUME TypeOK, TypeOK', IDInv, HeldOnce, HeldOnce', VectorInv, [Next]_vars
    PROVE  \/ ChatServiceOf!ServiceNext
           \/ UNCHANGED <<MemberRooms, Reading, Asked, read, Inboxes, Running>>
<1>1. CASE UNCHANGED vars
    <2>1. UNCHANGED <<m_ClientSocket, peer, sent, read, outq, pc>>
        BY <1>1 DEF vars, netVars, handlerVars
    <2> QED BY <2>1, MappedKept DEF Running
<1>2. ASSUME Running, UNCHANGED <<m_ClientSocket, peer, sent, read, outq>>
      PROVE  ChatServiceOf!ServiceNext
    BY <1>2, MappedKept, SilentStep
<1>3. CASE ServerStep
    <2>1. CASE HandleRequest
        BY <2>1, RequestStep
    <2>2. CASE InitSSLSucceeds
        BY <2>2, EnterStep
    <2>3. CASE Disconnect
        BY <2>3, LeaveStep
    <2>4. CASE PoolActivity \/ PoolInterrupted \/ NothingToAccept \/ AcceptFails
        BY <1>2, <2>4 DEF PoolActivity, PoolInterrupted, NothingToAccept, AcceptFails,
            netVars, Running
    <2>5. CASE Accept \/ InitSSLFails \/ NotReadable \/ EndProcess
        BY <1>2, <2>5 DEF Accept, InitSSLFails, NotReadable, EndProcess, AtClient,
            netVars, Running
    <2>6. CASE NextIteration \/ ClosingRequested \/ CloseServer
        BY <1>2, <2>6 DEF NextIteration, ClosingRequested, CloseServer, netVars, Running
    <2> QED BY <1>3, <2>1, <2>2, <2>3, <2>4, <2>5, <2>6 DEF ServerStep
<1>4. CASE Environment
    <2>1. Running
        BY <1>4 DEF Environment
    <2>2. CASE Signal
        BY <1>2, <2>1, <2>2 DEF Signal, netVars, handlerVars
    <2>3. ASSUME NEW c \in Conn, UNCHANGED <<handlerVars, loopVars>>, SendHead(c)
          PROVE  ChatServiceOf!ServiceNext
        BY <1>2, <2>1, <2>3 DEF SendHead, handlerVars
    <2>4. ASSUME NEW c \in Conn, UNCHANGED <<handlerVars, loopVars>>,
                 Connect(c) \/ Stall(c) \/ Close(c)
          PROVE  ChatServiceOf!ServiceNext
        BY <2>1, <2>4, PeerStep
    <2>5. ASSUME NEW c \in Conn, UNCHANGED <<handlerVars, loopVars>>,
                 NEW r \in Request, Send(c, r)
          PROVE  ChatServiceOf!ServiceNext
        BY <2>1, <2>5, AskStep
    <2> QED BY <1>4, <2>2, <2>3, <2>4, <2>5 DEF Environment
<1> QED BY <1>1, <1>3, <1>4 DEF Next

\* The mapped initial state is one of the service.
LEMMA ServiceStart == Init => ChatServiceOf!ServiceInit
<1> SUFFICES ASSUME Init PROVE ChatServiceOf!ServiceInit
    OBVIOUS
<1>1. MemberRooms = << >>
    <2>1. Registered = {}
        BY DEF Init, Registered
    <2> QED BY <2>1 DEF MemberRooms
<1>2. Reading \in SUBSET Conn
    BY DEF Reading
<1>3. Asked = [c \in Conn |-> << >>]
    <2>1. \A c \in Conn : sent[c] = << >>
        BY DEF Init, NetInit
    <2>2. [k \in 1..Len(<< >>) |-> AskOf(<< >>[k])] = << >>
        OBVIOUS
    <2> QED BY <2>1, <2>2 DEF Asked
<1>4. Inboxes = [c \in Conn |-> << >>]
    <2>1. ASSUME NEW c \in Conn PROVE Inbox(c) = << >>
        <3>1. outq[c] = << >>
            BY DEF Init, NetInit
        <3> DEFINE posts == ElementsAt(outq[c], {k \in 1..Len(outq[c]) : outq[c][k].op \in Posts})
        <3>2. posts = << >>
            BY <3>1, ElementsAtEmpty
        <3>3. Inbox(c) = Strip(posts)
            BY DEF Inbox, Strip
        <3> HIDE DEF posts
        <3>4. Strip(<< >>) = << >>
            BY DEF Strip
        <3> QED BY <3>2, <3>3, <3>4
    <2> QED BY <2>1 DEF Inboxes
<1>5. Running = TRUE /\ read = [c \in Conn |-> 0]
    BY DEF Init, NetInit, Running
<1> QED BY <1>1, <1>2, <1>3, <1>4, <1>5 DEF ChatServiceOf!ServiceInit, Reading, Asked, Inboxes

\* The server implements the chat service, whatever the connections, the requests
\* and the rooms: a message of a handler reaches all it is meant for who read, in
\* one step, and nobody else, unless the process dies while writing.
THEOREM ServerImplementsService == Spec => ImplementsChatService
<1> DEFINE Inv == ServerInv /\ VectorInv
<1>1. Init /\ [][Next]_vars /\ []ServerInv => []Inv
    <2>1. ServerInv /\ ServerInv' /\ VectorInv /\ [Next]_vars => VectorInv'
        BY VectorNext DEF ServerInv
    <2> QED BY <2>1, VectorInit, PTL
<1>2. Inv /\ Inv' /\ [Next]_vars
        => [ChatServiceOf!ServiceNext]_(ChatServiceOf!serviceVars)
    <2> SUFFICES ASSUME Inv, Inv', [Next]_vars
                 PROVE  [ChatServiceOf!ServiceNext]_(ChatServiceOf!serviceVars)
        OBVIOUS
    <2>1. \/ ChatServiceOf!ServiceNext
          \/ UNCHANGED <<MemberRooms, Reading, Asked, read, Inboxes, Running>>
        BY ServiceStep DEF ServerInv
    <2> QED BY <2>1 DEF ChatServiceOf!serviceVars, Reading, Asked, Inboxes
<1> HIDE DEF Inv
<1> QED BY <1>1, <1>2, ServiceStart, ServerInvHolds, PTL
        DEF Spec, ImplementsChatService, ChatServiceOf!Service

----------------------------------------------------------------------------
(* What the service promises, of the server.                               *)

\* The service's theorems, under the same mapping.
Promised == INSTANCE ChatServiceProofs WITH
    member  <- MemberRooms,
    reading <- {c \in Conn : peer[c] = "up"},
    asked   <- [c \in Conn |-> [k \in 1..Len(sent[c]) |-> AskOf(sent[c][k])]],
    latest  <- read,
    inbox   <- [c \in Conn |-> Inbox(c)],
    up      <- Running

\* Whatever its handlers write to whom and however connections come, stall, close
\* and are reset, the server sends every client the messages of one author in the
\* order of the author's requests and none twice, and any two clients the messages
\* both get in the same order.
THEOREM MessagesInOrder == Spec => [](ChatServiceOf!AuthorOrder /\ ChatServiceOf!SameOrder)
<1>1. Promised!Service => []Promised!AuthorOrder
    BY Promised!AuthorOrderHolds
<1>2. Promised!Service => []Promised!SameOrder
    BY Promised!SameOrderHolds
<1>3. Promised!AuthorOrder <=> ChatServiceOf!AuthorOrder
    BY DEF Promised!AuthorOrder, ChatServiceOf!AuthorOrder
<1>4. Promised!SameOrder <=> ChatServiceOf!SameOrder
    BY DEF Promised!SameOrder, ChatServiceOf!SameOrder
<1>5. ChatServiceOf!ServiceInit => Promised!ServiceInit
    BY DEF ChatServiceOf!ServiceInit, Promised!ServiceInit
<1>6. [ChatServiceOf!ServiceNext]_(ChatServiceOf!serviceVars)
        => [Promised!ServiceNext]_(Promised!serviceVars)
    BY Zenon
       DEF ChatServiceOf!ServiceNext, Promised!ServiceNext,
           ChatServiceOf!PeersChange, Promised!PeersChange,
           ChatServiceOf!AskFor, Promised!AskFor,
           ChatServiceOf!Enter, Promised!Enter, ChatServiceOf!Leave, Promised!Leave,
           ChatServiceOf!Other, Promised!Other,
           ChatServiceOf!JoinRoom, Promised!JoinRoom,
           ChatServiceOf!Post, Promised!Post, ChatServiceOf!Stop, Promised!Stop,
           ChatServiceOf!Handled, Promised!Handled,
           ChatServiceOf!AskedNow, Promised!AskedNow,
           ChatServiceOf!Audiences, Promised!Audiences,
           ChatServiceOf!Received, Promised!Received,
           ChatServiceOf!Present, Promised!Present,
           ChatServiceOf!Kind, Promised!Kind, ChatServiceOf!Ask, Promised!Ask,
           ChatServiceOf!serviceVars, Promised!serviceVars
<1>7. Spec => ChatServiceOf!Service
    BY ServerImplementsService DEF ImplementsChatService
<1>8. ChatServiceOf!Service => Promised!Service
    BY <1>5, <1>6, PTL DEF ChatServiceOf!Service, Promised!Service
<1> QED BY <1>1, <1>2, <1>3, <1>4, <1>7, <1>8, PTL

=============================================================================
