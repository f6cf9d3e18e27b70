------------------------------ MODULE Handlers ------------------------------
(***************************************************************************)
(* The request handlers of class Server: CallHandler and the CallHandler*  *)
(* methods of Server.cpp, with the list of clients and the data they work  *)
(* on.  Every handler is an action; all of them end in HandlerSends, which *)
(* performs the handler's SSL_writes and advances ProcessRequests' loop.   *)
(***************************************************************************)
EXTENDS Integers, Chat, Network

CONSTANTS
    Fd,          \* descriptors the process may still open
    MaxListed,   \* most clients whose SMSG_CLIENT_LIST fits in 4096 bytes
    CounterMod   \* 2^64, the range of Universe::m_Counter

ASSUME HandlersAssumption ==
    /\ Fd \subseteq Nat \ {0}
    /\ MaxListed \in Nat
    /\ CounterMod \in Nat \ {0}

VARIABLES
    pc,              \* where main's loop is; see Server
    it,              \* index of ProcessRequests' iterator
    m_ClientSocket,  \* vector of the clients being served
    m_ChatRooms,     \* Chat::m_ChatRooms
    m_Counter        \* Universe::m_Counter

handlerVars == <<pc, it, m_ClientSocket, m_ChatRooms, m_Counter>>

\* struct ClientSocket; ssl is the TLS session, named by its connection.
ClientSocket ==
    [socket : Fd, ssl : Conn, sslEnabled : BOOLEAN, chatRoomJoined : BOOLEAN,
     joinedChatRoomID : RoomID, clientID : Nat]

\* Requests by opcode, and by what the handler's length checks tell apart:
\* "short" is an ADDITION, MSG_TO_CLIENT or JOIN packet of a length they refuse,
\* "badtype" an ADDITION with a type byte read_number does not know, "runt" a
\* record of one byte and "unknown" any other opcode.
PlainRequest ==
    [op : {"CMSG_ECHO_REQUEST", "CMSG_ADDITION_REQUEST", "badtype",
           "CMSG_BROADCAST_MESSAGE", "CMSG_GET_CLIENT_LIST", "CMSG_UPTIME",
           "CMSG_PING", "CMSG_INCREMENT_COUNTER", "CMSG_GET_COUNTER",
           "CMSG_GET_CHAT_ROOMS", "CMSG_GET_ROOM_INFO", "CMSG_SAY",
           "short", "runt", "unknown"}]

JoinRequest == [op : {"CMSG_JOIN_ROOM"}, room : RoomID, hash : Digest]

PrivateRequest == [op : {"CMSG_SEND_MSG_TO_CLIENT"}, clientID : Nat]

ASSUME RequestAssumption ==
    Request \subseteq PlainRequest \cup JoinRequest \cup PrivateRequest

eChatErr == {"ERR_OK", "ERR_INVALID_ROOM", "ERR_INVALID_ROOM_PASSWORD",
             "ERR_NO_ROOM_JOINED", "ERR_NO_CLIENT_FOUND", "ERR_MSG_TO_SELF",
             "ERR_TOO_MUCH_CLIENTS"}

\* Packets to clients.  An SMSG_SAY also records the room it was said in, which
\* is not on the wire; an SMSG_ADDITION_REQUEST names the request whose numbers
\* it sums; an uptime is left out.
Packet ==
    [op : {"SMSG_MOTD", "SMSG_PONG", "SMSG_UPTIME", "SMSG_SAY_OK",
           "Invalid packet."}]
    \cup [op : {"SMSG_ECHO_REQUEST", "SMSG_ADDITION_REQUEST",
                "SMSG_BROADCAST"}, msg : Tag]
    \cup [op : {"SMSG_SAY"}, msg : Tag, room : RoomID]
    \cup [op : {"SMSG_CLIENT_LIST"}, error : eChatErr,
          list : Seq([clientID : Nat, you : BOOLEAN])]
    \cup [op : {"SMSG_PRIVATE_MSG_ERR", "SMSG_JOIN_CHAT_ROOM_ERR",
                "SMSG_SAY_ERR"}, error : eChatErr]
    \cup [op : {"SMSG_PRIVATE_MESSAGE"}, from : Nat, msg : Tag]
    \cup [op : {"SMSG_COUNTER"}, value : Nat]
    \cup [op : {"SMSG_JOIN_CHAT_ROOM_OK"}, room : RoomID]
    \cup [op : {"SMSG_MESSAGE"}, text : {"Unknown or unhandled opcode.",
                                         "No joined room", "Invalid room"}]
    \cup [op : {"SMSG_MESSAGE"}, joined : Name]
    \cup [op : {"SMSG_MESSAGE"},
          rooms : SUBSET [id : RoomID, name : Name, open : BOOLEAN]]

----------------------------------------------------------------------------
(* Sending.                                                                *)

\* The process ends inside an SSL_write: SIGPIPE keeps its default action.
Killed == pc' = "killed" /\ it' = it

Earlier(to, d) ==
    {e \in to : \E i, j \in 1..Len(m_ClientSocket) :
        i < j /\ m_ClientSocket[i].ssl = e /\ m_ClientSocket[j].ssl = d}

\* The SSL_writes of a handler called for connection c: first the packets of
\* direct to c, then fan to every connection of to, in the order of the vector.
\* What SSL_write returns is logged and otherwise ignored.
HandlerSends(c, direct, fan, to) ==
    LET targets == to \cup (IF direct = << >> THEN {} ELSE {c})
    IN  \/ /\ \A d \in targets : peer[d] # "rst"
           /\ outq' = Delivered(c, direct, fan, to)
           /\ peer' \in PeerAfterWrites(targets)
           /\ it' = it + 1
           /\ pc' = pc
        \/ /\ direct # << >> /\ peer[c] = "rst"
           /\ Killed
           /\ UNCHANGED <<outq, peer>>
        \/ /\ direct # << >> => peer[c] # "rst"
           /\ \E d \in to :
                /\ \/ peer[d] = "rst"
                   \/ direct # << >> /\ d = c /\ peer[c] = "fin"
                /\ \A e \in Earlier(to, d) : peer[e] # "rst"
                /\ outq' = Delivered(c, direct, fan, Earlier(to, d))
           /\ Killed
           /\ UNCHANGED peer

Reply(c, packet) == HandlerSends(c, <<packet>>, << >>, {})

\* The handler returns without sending anything.
NoReply == it' = it + 1 /\ UNCHANGED <<pc, peer, outq>>

----------------------------------------------------------------------------
(* Handlers.  i is the position of the client whose request r, tagged tag, *)
(* SSL_read has just returned.                                             *)

client(i) == m_ClientSocket[i]

CallHandlerEcho(i, tag) ==
    /\ Reply(client(i).ssl, [op |-> "SMSG_ECHO_REQUEST", msg |-> tag])
    /\ UNCHANGED <<m_ClientSocket, m_ChatRooms, m_Counter>>

CallHandlerAdd(i, tag) ==
    /\ Reply(client(i).ssl, [op |-> "SMSG_ADDITION_REQUEST", msg |-> tag])
    /\ UNCHANGED <<m_ClientSocket, m_ChatRooms, m_Counter>>

\* read_number throws std::runtime_error, which main does not catch.
CallHandlerAddThrows ==
    /\ pc' = "aborted"
    /\ UNCHANGED <<it, peer, outq, m_ClientSocket, m_ChatRooms, m_Counter>>

Enabled == {j \in 1..Len(m_ClientSocket) : client(j).sslEnabled}

CallHandlerBroadcast(i, tag) ==
    /\ HandlerSends(client(i).ssl, << >>,
                    <<[op |-> "SMSG_BROADCAST", msg |-> tag]>>,
                    {client(j).ssl : j \in Enabled})
    /\ UNCHANGED <<m_ClientSocket, m_ChatRooms, m_Counter>>

ClientList(i) ==
    [j \in 1..Len(m_ClientSocket) |->
        [clientID |-> client(j).clientID,
         you |-> client(j).clientID = client(i).clientID]]

CallHandlerGetClientList(i) ==
    LET fits == Len(m_ClientSocket) <= MaxListed
    IN  /\ Reply(client(i).ssl,
                 [op |-> "SMSG_CLIENT_LIST",
                  error |-> IF fits THEN "ERR_OK" ELSE "ERR_TOO_MUCH_CLIENTS",
                  list |-> IF fits THEN ClientList(i) ELSE << >>])
        /\ UNCHANGED <<m_ClientSocket, m_ChatRooms, m_Counter>>

\* Mutated form: the ID is taken for an index of the vector.
FoundByIndex(id) == {j \in 1..Len(m_ClientSocket) : j = id + 1}

\* The first client of the vector that has the ID.
Found(id) ==
    {j \in 1..Len(m_ClientSocket) :
        /\ client(j).clientID = id
        /\ \A k \in 1..(j - 1) : client(k).clientID # id}

CallHandlerMsgToClient(i, tag, id) ==
    LET c == client(i).ssl
        status(error) == <<[op |-> "SMSG_PRIVATE_MSG_ERR", error |-> error]>>
        message == [op |-> "SMSG_PRIVATE_MESSAGE",
                    from |-> client(i).clientID, msg |-> tag]
    IN  /\ \/ /\ id = client(i).clientID
              /\ HandlerSends(c, status("ERR_MSG_TO_SELF"), << >>, {})
           \/ /\ id # client(i).clientID /\ Found(id) = {}
              /\ HandlerSends(c, status("ERR_NO_CLIENT_FOUND"), << >>, {})
           \/ /\ id # client(i).clientID /\ Found(id) # {}
              /\ HandlerSends(c, status("ERR_OK"), <<message>>,
                              {client(j).ssl : j \in Found(id)})
        /\ UNCHANGED <<m_ClientSocket, m_ChatRooms, m_Counter>>

CallHandlerPong(i) ==
    /\ Reply(client(i).ssl, [op |-> "SMSG_PONG"])
    /\ UNCHANGED <<m_ClientSocket, m_ChatRooms, m_Counter>>

CallHandlerUptime(i) ==
    /\ Reply(client(i).ssl, [op |-> "SMSG_UPTIME"])
    /\ UNCHANGED <<m_ClientSocket, m_ChatRooms, m_Counter>>

\* Mutated form: a one-bit counter.
incrementCounterNarrow ==
    /\ m_Counter' = (m_Counter + 1) % 2
    /\ NoReply
    /\ UNCHANGED <<m_ClientSocket, m_ChatRooms>>

\* Mutated form: no break, so the case of CMSG_GET_COUNTER runs too.
incrementCounterNoBreak ==
    /\ m_Counter' = (m_Counter + 1) % CounterMod
    /\ Reply(client(it).ssl, [op |-> "SMSG_COUNTER", value |-> m_Counter'])
    /\ UNCHANGED <<m_ClientSocket, m_ChatRooms>>

\* Universe::incrementCounter, the whole of the CMSG_INCREMENT_COUNTER case.
incrementCounter ==
    /\ m_Counter' = (m_Counter + 1) % CounterMod
    /\ NoReply
    /\ UNCHANGED <<m_ClientSocket, m_ChatRooms>>

CallHandlerGetCounter(i) ==
    /\ Reply(client(i).ssl, [op |-> "SMSG_COUNTER", value |-> m_Counter])
    /\ UNCHANGED <<m_ClientSocket, m_ChatRooms, m_Counter>>

CallHandlerGetChatRooms(i) ==
    /\ Reply(client(i).ssl, [op |-> "SMSG_MESSAGE",
                             rooms |-> getChatRoomsStr(m_ChatRooms)])
    /\ UNCHANGED <<m_ClientSocket, m_ChatRooms, m_Counter>>

CallHandlerGetRoominfo(i) ==
    LET roomID == client(i).joinedChatRoomID
    IN  /\ Reply(client(i).ssl,
                 IF ~client(i).chatRoomJoined
                 THEN [op |-> "SMSG_MESSAGE", text |-> "No joined room"]
                 ELSE IF ~checkRoomID(m_ChatRooms, roomID)
                 THEN [op |-> "SMSG_MESSAGE", text |-> "Invalid room"]
                 ELSE [op |-> "SMSG_MESSAGE",
                       joined |-> getRoomName(m_ChatRooms, roomID)])
        /\ UNCHANGED <<m_ClientSocket, m_ChatRooms, m_Counter>>

\* Mutated form: the room is checked, the password is not.
JoinErrorsNoPassword(r) ==
    {IF checkRoomID(m_ChatRooms, r.room) THEN "ERR_OK" ELSE "ERR_INVALID_ROOM"}

\* isRoomProtected is called, and may insert the room, whatever checkRoomID says.
JoinErrors(r) ==
    LET unknown == ~checkRoomID(m_ChatRooms, r.room)
    IN  {IF isRoomProtected(m_ChatRooms, r.room) /\ ~valid
         THEN "ERR_INVALID_ROOM_PASSWORD"
         ELSE IF unknown THEN "ERR_INVALID_ROOM" ELSE "ERR_OK" :
            valid \in checkPasswordHash(Subscripted(m_ChatRooms, r.room),
                                        r.room, r.hash)}

CallHandlerJoinRoom(i, r) ==
    /\ m_ChatRooms' = Subscripted(m_ChatRooms, r.room)
    /\ \E error \in JoinErrors(r) :
        \/ /\ error = "ERR_OK"
           /\ m_ClientSocket' = [m_ClientSocket EXCEPT
                ![i].joinedChatRoomID = r.room, ![i].chatRoomJoined = TRUE]
           /\ Reply(client(i).ssl, [op |-> "SMSG_JOIN_CHAT_ROOM_OK",
                                    room |-> r.room])
        \/ /\ error # "ERR_OK"
           /\ UNCHANGED m_ClientSocket
           /\ Reply(client(i).ssl, [op |-> "SMSG_JOIN_CHAT_ROOM_ERR",
                                    error |-> error])
    /\ UNCHANGED m_Counter

\* Mutated form: the loop does not look at the rooms of the clients.
RoomMembersAll(room) == {client(j).ssl : j \in Enabled}

\* Those a room message goes to: clients with TLS that are in the room.
RoomMembers(room) ==
    {client(j).ssl : j \in {k \in Enabled : /\ client(k).chatRoomJoined
                                            /\ client(k).joinedChatRoomID = room}}

CallHandlerSay(i, tag) ==
    LET c == client(i).ssl
        roomID == client(i).joinedChatRoomID
        joined == client(i).chatRoomJoined
        valid == checkRoomID(m_ChatRooms, roomID) /\ joined
    IN  /\ \/ /\ valid
              /\ HandlerSends(c, <<[op |-> "SMSG_SAY_OK"]>>,
                   <<[op |-> "SMSG_SAY", msg |-> tag, room |-> roomID]>>,
                   RoomMembers(roomID))
           \/ /\ ~valid
              /\ Reply(c, [op |-> "SMSG_SAY_ERR",
                           error |-> IF joined THEN "ERR_INVALID_ROOM"
                                     ELSE "ERR_NO_ROOM_JOINED"])
        /\ UNCHANGED <<m_ClientSocket, m_ChatRooms, m_Counter>>

\* A packet whose length a case of CallHandler refuses: it is only logged.
LengthRefused == NoReply /\ UNCHANGED <<m_ClientSocket, m_ChatRooms, m_Counter>>

\* Mutated forms: an unknown opcode is only logged, or raises an exception.
UnknownOpcodeSilent(i) == LengthRefused
UnknownOpcodeThrows(i) == CallHandlerAddThrows

\* The default case of CallHandler.
UnknownOpcode(i) ==
    /\ Reply(client(i).ssl, [op |-> "SMSG_MESSAGE",
                             text |-> "Unknown or unhandled opcode."])
    /\ UNCHANGED <<m_ClientSocket, m_ChatRooms, m_Counter>>

\* ProcessRequests' answer to a record too short for an opcode.
InvalidPacket(i) ==
    /\ Reply(client(i).ssl, [op |-> "Invalid packet."])
    /\ UNCHANGED <<m_ClientSocket, m_ChatRooms, m_Counter>>

CallHandler(i, r, tag) ==
    \/ r.op = "CMSG_ECHO_REQUEST"      /\ CallHandlerEcho(i, tag)
    \/ r.op = "CMSG_ADDITION_REQUEST"  /\ CallHandlerAdd(i, tag)
    \/ r.op = "badtype"                /\ CallHandlerAddThrows
    \/ r.op = "CMSG_BROADCAST_MESSAGE" /\ CallHandlerBroadcast(i, tag)
    \/ r.op = "CMSG_GET_CLIENT_LIST"   /\ CallHandlerGetClientList(i)
    \/ /\ r.op = "CMSG_SEND_MSG_TO_CLIENT"
       /\ CallHandlerMsgToClient(i, tag, r.clientID)
    \/ r.op = "CMSG_PING"              /\ CallHandlerPong(i)
    \/ r.op = "CMSG_UPTIME"            /\ CallHandlerUptime(i)
    \/ r.op = "CMSG_INCREMENT_COUNTER" /\ incrementCounter
    \/ r.op = "CMSG_GET_COUNTER"       /\ CallHandlerGetCounter(i)
    \/ r.op = "CMSG_GET_CHAT_ROOMS"    /\ CallHandlerGetChatRooms(i)
    \/ r.op = "CMSG_GET_ROOM_INFO"     /\ CallHandlerGetRoominfo(i)
    \/ r.op = "CMSG_JOIN_ROOM"         /\ CallHandlerJoinRoom(i, r)
    \/ r.op = "CMSG_SAY"               /\ CallHandlerSay(i, tag)
    \/ r.op = "unknown"                /\ UnknownOpcode(i)
    \/ r.op = "short"                  /\ LengthRefused

=============================================================================
