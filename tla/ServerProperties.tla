-------------------------- MODULE ServerProperties --------------------------
(***************************************************************************)
(* What is claimed of the server.                                          *)
(***************************************************************************)
EXTENDS Server, Subsequence, FiniteSets

NetTypeOK ==
    /\ backlog \in Seq(Conn)
    /\ peer \in [Conn -> PeerState]
    /\ partial \in [Conn -> BOOLEAN]
    /\ sent \in [Conn -> Seq(Request)]
    /\ read \in [Conn -> Nat]
    /\ \A c \in Conn : read[c] <= Len(sent[c])
    /\ outq \in [Conn -> Seq(Packet)]

HandlerTypeOK ==
    /\ pc \in {"pool", "accept", "handshake", "process", "main", "closing",
               "exit", "killed", "aborted", "crashed"}
    /\ it \in Nat \ {0}
    /\ it <= Len(m_ClientSocket) + 1
    /\ m_ClientSocket \in Seq(ClientSocket)
    /\ IsChatRooms(m_ChatRooms)
    /\ m_Counter \in 0..(CounterMod - 1)

LoopTypeOK ==
    /\ m_Readfds \subseteq Fd \cup {m_MasterSocket}
    /\ DOMAIN sock \subseteq Fd /\ \A fd \in DOMAIN sock : sock[fd] \in Conn
    /\ newClient \in Seq(ClientSocket)
    /\ Len(newClient) = IF pc = "handshake" THEN 1 ELSE 0
    /\ m_UniqueCLientCounter \in Nat
    /\ DOMAIN idOf \subseteq Conn /\ \A c \in DOMAIN idOf : idOf[c] \in Nat
    /\ closingRequested \in BOOLEAN
    /\ m_ServerState \in {"STARTED", "CLOSING", "CLOSED"}

\* The variables have their types; the iterator of ProcessRequests never runs
\* past the end of the vector, even when erase shortens it under the loop, and
\* SSL_read has never returned more records than came in.
TypeOK == NetTypeOK /\ HandlerTypeOK /\ LoopTypeOK

----------------------------------------------------------------------------
(* Descriptors and client IDs.                                             *)

\* The clients the process holds: the vector, then the one being accepted.
Held == m_ClientSocket \o newClient

\* Until the server closes its sockets, every client it holds has an open
\* descriptor of its own that leads to that client's connection, and no other
\* client descriptor is open: accept, the failed handshake, close and the moves
\* of vector::erase neither share, leak nor close a live descriptor.
SocketTable ==
    m_ServerState = "STARTED" =>
        /\ \A i \in 1..Len(Held) :
            /\ Held[i].socket \in DOMAIN sock
            /\ sock[Held[i].socket] = Held[i].ssl
        /\ \A i, j \in 1..Len(Held) : Held[i].socket = Held[j].socket => i = j
        /\ DOMAIN sock = {Held[i].socket : i \in 1..Len(Held)}

\* Client IDs are never given twice (Server.h: "Used to give each connected
\* client an unique ID"), whatever connections failed or left in between, and a
\* client keeps the ID it was given while erase moves it about the vector.
ClientIDs ==
    /\ \A c, d \in DOMAIN idOf : idOf[c] = idOf[d] => c = d
    /\ \A i \in 1..Len(Held) : /\ Held[i].ssl \in DOMAIN idOf
                               /\ Held[i].clientID = idOf[Held[i].ssl]

\* What ClientIDs rests on: IDs given are below the counter, and a connection is
\* queued once, before it is given an ID.
ConnectionsOnce ==
    /\ \A c \in DOMAIN idOf : idOf[c] < m_UniqueCLientCounter
    /\ \A c \in DOMAIN idOf \cup Queued : peer[c] # "none"
    /\ \A c \in Queued : c \notin DOMAIN idOf
    /\ \A i, j \in 1..Len(backlog) : backlog[i] = backlog[j] => i = j

\* A private message comes to a connection only if its author addressed it to
\* the ID this connection was given, and it carries its author's own ID; an ID
\* that outlives its client never leads to somebody else.
PrivateDelivery ==
    \A d \in Conn : \A k \in 1..Len(outq[d]) :
        LET p == outq[d][k]
        IN  p.op = "SMSG_PRIVATE_MESSAGE" =>
                LET c == p.msg[1]
                    request == sent[c][p.msg[2]]
                IN  /\ p.from = idOf[c]
                    /\ request.op = "CMSG_SEND_MSG_TO_CLIENT"
                    /\ request.clientID = idOf[d]

\* A client list that CallHandlerGetClientList reports as complete has every ID
\* once and marks as "(you)" the receiver, and only the receiver.
ListsNameReceiver ==
    \A c \in Conn : \A k \in 1..Len(outq[c]) :
        LET p == outq[c][k]
        IN  p.op = "SMSG_CLIENT_LIST" /\ p.error = "ERR_OK" =>
                /\ \A i, j \in 1..Len(p.list) :
                        p.list[i].clientID = p.list[j].clientID => i = j
                /\ \E i \in 1..Len(p.list) : p.list[i].you
                /\ \A i \in 1..Len(p.list) :
                        p.list[i].you => p.list[i].clientID = idOf[c]

----------------------------------------------------------------------------
(* Chat rooms.                                                             *)

\* A password hash was loaded whole, so that only it can match.
Guarded(r) == /\ r \in DOMAIN m_ChatRooms
              /\ Len(m_ChatRooms[r].passwordHash) = DigestLen

\* The client of c has sent the password hash of room r.
HasShown(c, r) ==
    \E n \in 1..Len(sent[c]) : /\ sent[c][n].op = "CMSG_JOIN_ROOM"
                               /\ sent[c][n].room = r
                               /\ sent[c][n].hash = m_ChatRooms[r].passwordHash

\* What is said in a room with a password (CallHandlerSay) reaches only clients
\* that have sent that password's hash on the same connection, across joins of
\* other rooms, refused joins and clients that come and go.
RoomPrivacy ==
    \A c \in Conn : \A k \in 1..Len(outq[c]) :
        LET p == outq[c][k]
        IN  p.op = "SMSG_SAY" /\ Guarded(p.room) => HasShown(c, p.room)

\* What RoomPrivacy rests on: a client in a room with a password has sent its
\* hash, and a client being accepted is in no room.
MembersShown ==
    /\ \A i \in 1..Len(m_ClientSocket) :
        LET s == m_ClientSocket[i]
        IN  s.chatRoomJoined /\ Guarded(s.joinedChatRoomID)
                => HasShown(s.ssl, s.joinedChatRoomID)
    /\ \A i \in 1..Len(newClient) : ~newClient[i].chatRoomJoined

----------------------------------------------------------------------------
(* Requests and replies.                                                   *)

\* The packets CallHandler may answer a request with.
Answers(r) ==
    CASE r.op = "CMSG_ECHO_REQUEST" -> {"SMSG_ECHO_REQUEST"}
      [] r.op = "CMSG_ADDITION_REQUEST" -> {"SMSG_ADDITION_REQUEST"}
      [] r.op = "CMSG_GET_CLIENT_LIST" -> {"SMSG_CLIENT_LIST"}
      [] r.op = "CMSG_SEND_MSG_TO_CLIENT" -> {"SMSG_PRIVATE_MSG_ERR"}
      [] r.op = "CMSG_PING" -> {"SMSG_PONG"}
      [] r.op = "CMSG_UPTIME" -> {"SMSG_UPTIME"}
      [] r.op = "CMSG_GET_COUNTER" -> {"SMSG_COUNTER"}
      [] r.op \in {"CMSG_GET_CHAT_ROOMS", "CMSG_GET_ROOM_INFO", "unknown"} ->
            {"SMSG_MESSAGE"}
      [] r.op = "CMSG_JOIN_ROOM" ->
            {"SMSG_JOIN_CHAT_ROOM_OK", "SMSG_JOIN_CHAT_ROOM_ERR"}
      [] r.op = "CMSG_SAY" -> {"SMSG_SAY_OK", "SMSG_SAY_ERR"}
      [] r.op = "runt" -> {"Invalid packet."}
      [] OTHER -> {}

\* Positions of the requests of c that were read and are owed an answer.
Answerable(c) == ElementsAt([n \in 1..read[c] |-> n],
                            {n \in 1..read[c] : Answers(sent[c][n]) # {}})

\* The packets c got in answer to its own requests.
Unasked == {"SMSG_MOTD", "SMSG_BROADCAST", "SMSG_SAY", "SMSG_PRIVATE_MESSAGE"}
AnswersTo(c) ==
    ElementsAt(outq[c], {k \in 1..Len(outq[c]) : outq[c][k].op \notin Unasked})

\* A client that keeps its connection and reads gets exactly one answer to each
\* request the server has read, of the right kind, with its own text, in the
\* order of its requests, whatever other clients' messages come in between.
InOrderAnswers ==
    \A c \in Conn : Running /\ peer[c] = "up" =>
        LET got == AnswersTo(c)
            owed == Answerable(c)
        IN  /\ Len(got) = Len(owed)
            /\ \A k \in 1..Len(got) :
                /\ got[k].op \in Answers(sent[c][owed[k]])
                /\ "msg" \in DOMAIN got[k] => got[k].msg = <<c, owed[k]>>

\* The requests to count among the first n of c, and among all that were read.
Increments(c, n) ==
    {m \in {c} \X (1..n) : sent[c][m[2]].op = "CMSG_INCREMENT_COUNTER"}
AllIncrements == UNION {Increments(d, read[d]) : d \in Conn}

\* A counter value a client reads counts every increment it had sent before the
\* reading and none that nobody sent, up to the wrap of m_Counter.
CounterReads ==
    \A c \in Conn : Running /\ peer[c] = "up" =>
        LET got == AnswersTo(c)
            owed == Answerable(c)
        IN  \A k \in 1..Len(got) : got[k].op = "SMSG_COUNTER" =>
                \E n \in Cardinality(Increments(c, owed[k]))
                            ..Cardinality(AllIncrements) :
                    got[k].value = n % CounterMod

\* ProcessRequests drops a client only when its other end has closed, when the
\* record at hand is still incomplete, or after a signal interrupted select;
\* never because of a descriptor bit left from, or meant for, somebody else.
DropsExplained ==
    [][\A c \in Conn :
        pc = "process" /\ c \in Registered /\ c \notin Registered' =>
            ~Connected(c) \/ partial[c] \/ closingRequested]_vars

\* The process ends by a shutdown somebody asked for, or by one of the ways the
\* code leaves open, each with its culprit: SIGPIPE when a client has gone away,
\* read_number's exception when a client has sent an unknown type, ~ClientSocket's
\* use of a freed session when a client is taken for gone or is there at the end.
\* Nothing else that clients send, and no client that merely stops reading, ends
\* it for the others.
EndsExplained ==
    LET left(c) == peer[c] \in {"fin", "rst"}
    IN  /\ pc = "exit" => closingRequested
        /\ pc = "killed" => \E c \in Conn : left(c)
        /\ pc = "aborted" =>
                \E c \in Conn : read[c] > 0 /\ sent[c][read[c]].op = "badtype"
        /\ pc = "crashed" =>
                closingRequested \/ \E c \in Conn : left(c) \/ partial[c]

----------------------------------------------------------------------------
(* Liveness.                                                               *)

\* Every request that comes in completely from a client being served is read
\* and handled, however the other clients behave, unless shutdown is requested
\* or the process dies.
RequestsServed ==
    \A c \in Conn : \A n \in 1..MaxReq :
        (c \in Registered /\ Len(sent[c]) >= n)
            ~> (read[c] >= n \/ closingRequested \/ ~Running)

\* Every connection the kernel has queued is accepted and given an ID, unless
\* descriptors run out, shutdown is requested or the process dies.
QueuedAccepted ==
    \A c \in Conn :
        c \in Queued ~> (c \in DOMAIN idOf \/ Fd \subseteq DOMAIN sock
                            \/ closingRequested \/ ~Running)

\* After SIGINT or SIGTERM the process ends, or it stays for good in the blocking
\* accept that an interrupted select led it into.
ShutdownCompletes == closingRequested ~> (~Running \/ [](pc = "accept"))

----------------------------------------------------------------------------
(* What the repository says of the program and the program does not do.    *)

\* CallHandlerSay's comment "the room is valid", on a client in a room: the room
\* is one of the database's.
JoinedRoomsExist ==
    \A i \in 1..Len(m_ClientSocket) : m_ClientSocket[i].chatRoomJoined =>
        \E k \in 1..Len(ChatRoomsTable) :
            ChatRoomsTable[k].id = m_ClientSocket[i].joinedChatRoomID

\* The table's CHECK on password_hash: a hash that is not NULL is a password's,
\* and its room asks for it once loaded.
HashesProtect ==
    \A k \in 1..Len(ChatRoomsTable) :
        LET row == ChatRoomsTable[k]
        IN  row.password_hash # NULL /\ m_ChatRooms = LoadRooms(ChatRoomsTable)
                => isRoomProtected(m_ChatRooms, row.id)

=============================================================================
