--------------------------- MODULE DeliveryProofs ---------------------------
(***************************************************************************)
(* What the packets a client has received say is true, and they answer its *)
(* requests one by one, for any number of connections, requests and rooms. *)
(***************************************************************************)
EXTENDS LoopProofs, FiniteSetTheorems

----------------------------------------------------------------------------
(* What a step writes.                                                     *)

\* A step takes back nothing that was sent.
SentGrows ==
    \A c \in Conn : /\ Len(sent[c]) <= Len(sent'[c])
                    /\ \A n \in 1..Len(sent[c]) : sent'[c][n] = sent[c][n]

Among(p, s) == \E j \in 1..Len(s) : p = s[j]

\* The elements of a concatenation.
LEMMA ConcatElements ==
    \A S : \A s, t \in Seq(S) : \A p : Among(p, s \o t) => Among(p, s) \/ Among(p, t)
<1> TAKE S
<1> TAKE s, t \in Seq(S)
<1> TAKE p
<1> HAVE Among(p, s \o t)
<1>1. PICK k \in 1..Len(s \o t) : p = (s \o t)[k]
    BY DEF Among
<1>2. Len(s) \in Nat /\ Len(t) \in Nat /\ Len(s \o t) = Len(s) + Len(t)
    BY ConcatProperties, LenProperties
<1>3. CASE k <= Len(s)
    BY <1>1, <1>2, <1>3, ConcatProperties DEF Among
<1>4. CASE k > Len(s)
    <2>1. k - Len(s) \in 1..Len(t) /\ (s \o t)[k] = t[k - Len(s)]
        BY <1>2, <1>4, ConcatProperties
    <2> QED BY <1>1, <2>1 DEF Among
<1> QED BY <1>2, <1>3, <1>4

\* An old packet of d, a direct one if d is c, or one of the fan if d is meant.
Origin(p, c, d, direct, fan, to) ==
    \/ Among(p, outq[d])
    \/ d = c /\ Among(p, direct)
    \/ d \in to /\ Among(p, fan)

\* Where the packets come from that someone has after Delivered.
LEMMA DeliveredPackets ==
    ASSUME NEW S, outq \in [Conn -> Seq(S)],
           NEW c, NEW direct \in Seq(S), NEW fan \in Seq(S)
    PROVE  \A to : \A d \in Conn : \A p :
                Among(p, Delivered(c, direct, fan, to)[d])
                    => Origin(p, c, d, direct, fan, to)
<1> TAKE to
<1> TAKE d \in Conn
<1> TAKE p
<1> HAVE Among(p, Delivered(c, direct, fan, to)[d])
<1> DEFINE a == IF d = c THEN direct ELSE << >>
           b == IF d \in to THEN fan ELSE << >>
<1>1. outq[d] \in Seq(S) /\ a \in Seq(S) /\ b \in Seq(S)
    BY EmptySeq
<1>2. Delivered(c, direct, fan, to)[d]
        = IF peer[d] # "up" THEN outq[d] ELSE (outq[d] \o a) \o b
    BY DEF Delivered
<1>3. outq[d] \o a \in Seq(S)
    BY <1>1, ConcatProperties
<1>4. ~Among(p, << >>)
    BY EmptySeq DEF Among
<1>5. Among(p, a) => d = c /\ Among(p, direct)
    BY <1>4
<1>6. Among(p, b) => d \in to /\ Among(p, fan)
    BY <1>4
<1> HIDE DEF a, b
<1>7. CASE peer[d] # "up"
    BY <1>2, <1>7 DEF Origin
<1>8. CASE peer[d] = "up"
    <2>1. Among(p, (outq[d] \o a) \o b)
        BY <1>2, <1>8
    <2>2. Among(p, outq[d] \o a) \/ Among(p, b)
        BY <1>1, <1>3, <2>1, ConcatElements
    <2>3. Among(p, outq[d] \o a) => Among(p, outq[d]) \/ Among(p, a)
        BY <1>1, ConcatElements
    <2> QED BY <1>5, <1>6, <2>2, <2>3 DEF Origin
<1> QED BY <1>7, <1>8

\* The same of all the writes of a handler, also when one of them kills it.
LEMMA SentPackets ==
    ASSUME NEW S, outq \in [Conn -> Seq(S)],
           NEW c, NEW direct \in Seq(S), NEW fan \in Seq(S), NEW to,
           HandlerSends(c, direct, fan, to)
    PROVE  \A d \in Conn : \A p :
                Among(p, outq'[d]) => Origin(p, c, d, direct, fan, to)
<1> TAKE d \in Conn
<1> TAKE p
<1> HAVE Among(p, outq'[d])
<1>1. CASE outq' = outq
    BY <1>1 DEF Origin
<1>2. ASSUME NEW e, e \subseteq to, outq' = Delivered(c, direct, fan, e)
      PROVE  Origin(p, c, d, direct, fan, to)
    <2>1. Among(p, Delivered(c, direct, fan, e)[d])
        BY <1>2
    <2>2. Origin(p, c, d, direct, fan, e)
        BY <2>1, DeliveredPackets
    <2> QED BY <1>2, <2>2 DEF Origin
<1>3. \A e : Earlier(to, e) \subseteq to
    BY DEF Earlier
<1>4. \/ outq' = outq
      \/ \E e : e \subseteq to /\ outq' = Delivered(c, direct, fan, e)
    BY <1>3 DEF HandlerSends
<1> QED BY <1>1, <1>2, <1>4

\* Among of short sequences.
LEMMA AmongShort ==
    /\ \A p : ~Among(p, << >>)
    /\ \A p, q : Among(p, <<q>>) => p = q
    BY DEF Among

\* Nothing new is sent, or one request is.
LEMMA StepSent ==
    ASSUME TypeOK, [Next]_vars
    PROVE  SentGrows
<1>0. \A c \in Conn : sent[c] \in Seq(Request)
    BY DEF TypeOK, NetTypeOK
<1>1. CASE sent' = sent
    <2>1. \A c \in Conn : Len(sent[c]) \in Nat
        BY <1>0, LenProperties
    <2> QED BY <1>1, <2>1 DEF SentGrows
<1>2. ASSUME NEW c \in Conn, NEW r \in Request, Send(c, r) PROVE SentGrows
    <2>1. sent' = [sent EXCEPT ![c] = Append(sent[c], r)]
        BY <1>2 DEF Send
    <2>2. \A d \in Conn : sent'[d] = sent[d] \/ sent'[d] = Append(sent[d], r)
        BY <2>1 DEF TypeOK, NetTypeOK
    <2>3. \A d \in Conn : /\ Len(sent[d]) \in Nat
                          /\ Len(Append(sent[d], r)) = Len(sent[d]) + 1
                          /\ \A n \in 1..Len(sent[d]) : Append(sent[d], r)[n] = sent[d][n]
        BY <1>0, LenProperties, AppendProperties
    <2> QED BY <2>2, <2>3 DEF SentGrows
<1> USE DEF loopVars, handlerVars, netVars
<1>3. CASE ServerStep
    <2>1. sent' = sent
        BY <1>3 DEF ServerStep, PoolActivity, PoolInterrupted, NothingToAccept,
            AcceptFails, Accept, InitSSLFails, InitSSLSucceeds, NotReadable,
            HandleRequest, Disconnect, EndProcess, NextIteration,
            ClosingRequested, CloseServer
    <2> QED BY <1>1, <2>1
<1>4. CASE Environment
    <2>1. sent' = sent \/ \E c \in Conn : \E r \in Request : Send(c, r)
        BY <1>4 DEF Environment, Signal, Connect, SendHead, Stall, Close
    <2> QED BY <1>1, <1>2, <2>1
<1>5. CASE UNCHANGED vars
    BY <1>1, <1>5 DEF vars
<1> QED BY <1>3, <1>4, <1>5 DEF Next

\* The steps that touch packets, rooms or clients.
LEMMA RoomStepKinds ==
    ASSUME [Next]_vars
    PROVE  \/ HandleRequest \/ InitSSLSucceeds
           \/ /\ UNCHANGED <<m_ChatRooms, outq>>
              /\ \/ Accept \/ InitSSLFails \/ Disconnect
                 \/ UNCHANGED <<m_ClientSocket, newClient>>
<1> USE DEF loopVars, handlerVars, netVars
<1>1. CASE ServerStep
    BY <1>1 DEF ServerStep, PoolActivity, PoolInterrupted, NothingToAccept,
        AcceptFails, Accept, InitSSLFails, NotReadable, Disconnect, EndProcess,
        NextIteration, ClosingRequested, CloseServer
<1>2. CASE Environment
    BY <1>2 DEF Environment, Signal, Connect, Send, SendHead, Stall, Close
<1>3. CASE UNCHANGED vars
    BY <1>3 DEF vars
<1> QED BY <1>1, <1>2, <1>3 DEF Next

----------------------------------------------------------------------------
(* Where new packets come from.                                            *)

\* A packet d has after the handler of request r of c has run: it had it before,
\* it is the answer to c, or it was posted to d among others.
FromRequest(c, r, tag, d, p) ==
    \/ Among(p, outq[d])
    \/ d = c /\ p \in Packet /\ AnswerTo(it, r, tag, p)
    \/ \E to : d \in to /\ p \in Packet /\ PostTo(it, r, tag, p, to)

\* All packets a handler leaves behind are of these kinds.
LEMMA RequestPackets ==
    ASSUME TypeOK, HandleRequest
    PROVE  \E c \in Conn, n \in Nat \ {0} :
            /\ c = m_ClientSocket[it].ssl
            /\ n = read[c] + 1 /\ n <= Len(sent[c])
            /\ \A d \in Conn : \A p :
                Among(p, outq'[d]) => FromRequest(c, sent[c][n], <<c, n>>, d, p)
<1> HIDE DEF Packet, ClientSocket
<1>1. PICK c \in Conn, n \in Nat \ {0} :
        /\ c = m_ClientSocket[it].ssl
        /\ n = read[c] + 1 /\ n <= Len(sent[c])
        /\ Writes(it, sent[c][n], <<c, n>>)
    BY RequestWrites
<1> DEFINE r == sent[c][n]
           tag == <<c, n>>
<1> SUFFICES ASSUME NEW d \in Conn, NEW p, Among(p, outq'[d])
             PROVE  FromRequest(c, r, tag, d, p)
    BY <1>1
<1> HIDE DEF r, tag
<1>2. Writes(it, r, tag)
    BY <1>1 DEF r, tag
<1>o. outq \in [Conn -> Seq(Packet)]
    BY DEF TypeOK, NetTypeOK
<1>3. CASE outq' = outq
    BY <1>3 DEF FromRequest
<1>4. ASSUME NEW direct, NEW fan, NEW to, Script(it, r, tag, direct, fan, to),
             HandlerSends(client(it).ssl, direct, fan, to)
      PROVE  FromRequest(c, r, tag, d, p)
    <2>1. /\ direct = << >> \/ \E q \in Packet : direct = <<q>> /\ AnswerTo(it, r, tag, q)
          /\ fan = << >> \/ \E q \in Packet : fan = <<q>> /\ PostTo(it, r, tag, q, to)
        BY <1>4, Zenon DEF Script
    <2>2. direct \in Seq(Packet) /\ fan \in Seq(Packet)
        <3>1. \A q \in Packet : <<q>> \in Seq(Packet)
            OBVIOUS
        <3> QED BY <2>1, <3>1, EmptySeq
    <2>3. Origin(p, client(it).ssl, d, direct, fan, to)
        BY <1>o, <1>4, <2>2, SentPackets
    <2>4. client(it).ssl = c
        BY <1>1 DEF client
    <2>5. CASE Among(p, outq[d])
        BY <2>5 DEF FromRequest
    <2>6. CASE d = c /\ Among(p, direct)
        <3>1. p \in Packet /\ AnswerTo(it, r, tag, p)
            BY <2>1, <2>6, AmongShort
        <3> QED BY <2>6, <3>1, Zenon DEF FromRequest
    <2>7. CASE d \in to /\ Among(p, fan)
        <3>1. p \in Packet /\ PostTo(it, r, tag, p, to)
            BY <2>1, <2>7, AmongShort
        <3> QED BY <2>7, <3>1, Zenon DEF FromRequest
    <2> QED BY <2>3, <2>4, <2>5, <2>6, <2>7 DEF Origin
<1> QED BY <1>2, <1>3, <1>4 DEF Writes, CallHandlerAddThrows, NoReply

----------------------------------------------------------------------------
(* What packets say.                                                       *)

\* Private message p of d: its author wrote it to d.
WrittenTo(d, p) ==
    LET c == p.msg[1]
        n == p.msg[2]
    IN  /\ c \in DOMAIN idOf /\ c \in Conn /\ n \in 1..Len(sent[c])
        /\ p.from = idOf[c]
        /\ sent[c][n].op = "CMSG_SEND_MSG_TO_CLIENT"
        /\ sent[c][n].clientID = idOf[d]

\* The list names everybody once and d as its reader.
Names(d, list) ==
    /\ \A i, j \in 1..Len(list) : list[i].clientID = list[j].clientID => i = j
    /\ \E i \in 1..Len(list) : list[i].you
    /\ \A i \in 1..Len(list) : list[i].you => list[i].clientID = idOf[d]

\* Packet p of d says the truth; only those with an ID have packets.
Truthful(d, p) ==
    /\ d \in DOMAIN idOf
    /\ p.op = "SMSG_PRIVATE_MESSAGE" => WrittenTo(d, p)
    /\ p.op = "SMSG_CLIENT_LIST" /\ p.error = "ERR_OK" => Names(d, p.list)
    /\ p.op \in DOMAIN Explained => p.error \in Explained[p.op]

PacketInv == \A d \in Conn : \A p : Among(p, outq[d]) => Truthful(d, p)

\* IDs once given stay, whatever happens.
LEMMA IDsKept ==
    ASSUME TypeOK, IDInv, [Next]_vars
    PROVE  \A c \in DOMAIN idOf : c \in DOMAIN idOf' /\ idOf'[c] = idOf[c]
<1>1. CASE Accept
    <2>1. Head(backlog) \in Queued
        <3>1. backlog \in Seq(Conn) /\ backlog # << >>
            BY <1>1 DEF Accept, TypeOK, NetTypeOK
        <3>2. Head(backlog) = backlog[1] /\ 1 \in 1..Len(backlog)
            BY <3>1
        <3> QED BY <3>2 DEF Queued
    <2>2. Head(backlog) \notin DOMAIN idOf
        BY <2>1 DEF IDInv, ConnectionsOnce
    <2>3. idOf' = [c \in DOMAIN idOf \cup {Head(backlog)} |->
                        IF c = Head(backlog) THEN NextClientID ELSE idOf[c]]
        BY <1>1 DEF Accept
    <2> QED BY <2>2, <2>3
<1>2. CASE idOf' = idOf
    BY <1>2
<1>3. idOf' = idOf \/ Accept
    BY StepKinds DEF HandleRequest, InitSSLSucceeds, InitSSLFails, Disconnect,
        ClosingRequested, CloseServer, loopVars
<1> QED BY <1>1, <1>2, <1>3

\* What was true of a packet stays true.
LEMMA TruthKept ==
    ASSUME TypeOK, IDInv, [Next]_vars, NEW d, NEW p, Truthful(d, p)
    PROVE  Truthful(d, p)'
<1>1. \A c \in DOMAIN idOf : c \in DOMAIN idOf' /\ idOf'[c] = idOf[c]
    BY IDsKept
<1>2. SentGrows
    BY StepSent
<1>3. WrittenTo(d, p) => WrittenTo(d, p)'
    <2> SUFFICES ASSUME WrittenTo(d, p) PROVE WrittenTo(d, p)'
        OBVIOUS
    <2> DEFINE c == p.msg[1]
               n == p.msg[2]
    <2>1. /\ c \in DOMAIN idOf /\ c \in Conn /\ n \in 1..Len(sent[c])
          /\ p.from = idOf[c]
          /\ sent[c][n].op = "CMSG_SEND_MSG_TO_CLIENT"
          /\ sent[c][n].clientID = idOf[d]
        BY DEF WrittenTo
    <2>2. d \in DOMAIN idOf
        BY DEF Truthful
    <2>3. n \in 1..Len(sent'[c]) /\ sent'[c][n] = sent[c][n]
        BY <1>2, <2>1 DEF SentGrows
    <2> HIDE DEF c, n
    <2>4. /\ c \in DOMAIN idOf' /\ c \in Conn /\ n \in 1..Len(sent'[c])
          /\ p.from = idOf'[c]
          /\ sent'[c][n].op = "CMSG_SEND_MSG_TO_CLIENT"
          /\ sent'[c][n].clientID = idOf'[d]
        BY <1>1, <2>1, <2>2, <2>3
    <2> QED BY <2>4 DEF WrittenTo, c, n
<1>4. Names(d, p.list) => Names(d, p.list)'
    BY <1>1 DEF Names, Truthful
<1> QED BY <1>1, <1>3, <1>4 DEF Truthful

\* Clients of the vector have IDs, each its own.
LEMMA VectorIDs ==
    ASSUME TypeOK, pc # "handshake", IDInv, HeldOnce
    PROVE  /\ \A j \in 1..Len(m_ClientSocket) :
                /\ client(j).ssl \in DOMAIN idOf
                /\ client(j).clientID = idOf[client(j).ssl]
           /\ \A i, j \in 1..Len(m_ClientSocket) :
                client(i).clientID = client(j).clientID => i = j
<1>1. Held = m_ClientSocket
    BY HeldIsVector
<1>2. \A j \in 1..Len(m_ClientSocket) :
        /\ client(j).ssl \in DOMAIN idOf
        /\ client(j).clientID = idOf[client(j).ssl]
    BY <1>1 DEF IDInv, ClientIDs, client
<1>3. \A i, j \in 1..Len(m_ClientSocket) : client(i).ssl = client(j).ssl => i = j
    BY <1>1 DEF HeldOnce, client
<1>4. \A c, d \in DOMAIN idOf : idOf[c] = idOf[d] => c = d
    BY DEF IDInv, ClientIDs
<1> QED BY <1>2, <1>3, <1>4

\* What a handler writes is true.
LEMMA NewTruth ==
    ASSUME TypeOK, pc # "handshake", IDInv, HeldOnce,
           it \in 1..Len(m_ClientSocket),
           NEW c \in Conn, NEW n \in Nat \ {0}, c = m_ClientSocket[it].ssl,
           n <= Len(sent[c]), NEW d, NEW p,
           \/ d = c /\ AnswerTo(it, sent[c][n], <<c, n>>, p)
           \/ \E to : d \in to /\ PostTo(it, sent[c][n], <<c, n>>, p, to)
    PROVE  Truthful(d, p)
<1> DEFINE r == sent[c][n]
           tag == <<c, n>>
<1>1. client(it).ssl = c
    BY DEF client
<1>2. Len(m_ClientSocket) \in Nat
    BY LenProperties DEF TypeOK, HandlerTypeOK
<1>v. /\ \A j \in 1..Len(m_ClientSocket) :
            /\ client(j).ssl \in DOMAIN idOf
            /\ client(j).clientID = idOf[client(j).ssl]
      /\ \A i, j \in 1..Len(m_ClientSocket) :
            client(i).clientID = client(j).clientID => i = j
    BY VectorIDs
<1>3. CASE d = c /\ AnswerTo(it, r, tag, p)
    <2>1. d \in DOMAIN idOf
        BY <1>1, <1>3, <1>v
    <2>2. p.op # "SMSG_PRIVATE_MESSAGE"
        BY <1>3 DEF AnswerTo, Answers
    <2>3. p.op = "SMSG_CLIENT_LIST" /\ p.error = "ERR_OK" => p.list = ClientList(it)
        BY <1>3 DEF AnswerTo
    <2>4. Names(d, ClientList(it))
        <3>1. Len(ClientList(it)) = Len(m_ClientSocket)
            BY <1>2 DEF ClientList
        <3>3. ASSUME NEW j \in 1..Len(m_ClientSocket)
              PROVE  /\ ClientList(it)[j].clientID = client(j).clientID
                     /\ ClientList(it)[j].you
                            = (client(j).clientID = client(it).clientID)
            BY Zenon DEF ClientList
        <3>2. client(it).clientID = idOf[d]
            BY <1>1, <1>3, <1>v
        <3>4. ClientList(it)[it].you
            BY <3>3
        <3>5. \A j \in 1..Len(m_ClientSocket) :
                ClientList(it)[j].you => ClientList(it)[j].clientID = idOf[d]
            BY <3>2, <3>3
        <3>6. \A i, j \in 1..Len(m_ClientSocket) :
                ClientList(it)[i].clientID = ClientList(it)[j].clientID => i = j
            BY <1>v, <3>3
        <3> QED BY <3>1, <3>4, <3>5, <3>6 DEF Names
    <2>5. p.op \in DOMAIN Explained => p.error \in Explained[p.op]
        BY <1>3 DEF AnswerTo
    <2> QED BY <2>1, <2>2, <2>3, <2>4, <2>5 DEF Truthful
<1>4. CASE \E to : d \in to /\ PostTo(it, r, tag, p, to)
    <2>1. PICK to : d \in to /\ PostTo(it, r, tag, p, to)
        BY <1>4
    <2>2. PICK j \in 1..Len(m_ClientSocket) : d = client(j).ssl
        BY <2>1 DEF PostTo, Enabled, RoomMembers, Found
    <2>3. d \in DOMAIN idOf
        BY <1>v, <2>2
    <2>4. p.op \in {"SMSG_BROADCAST", "SMSG_SAY", "SMSG_PRIVATE_MESSAGE"}
        BY <2>1 DEF PostTo
    <2>5. ASSUME p.op = "SMSG_PRIVATE_MESSAGE" PROVE WrittenTo(d, p)
        <3>1. /\ r.op = "CMSG_SEND_MSG_TO_CLIENT" /\ p.msg = tag
              /\ p.from = client(it).clientID
              /\ to = {client(k).ssl : k \in Found(r.clientID)}
            BY <2>1, <2>5 DEF PostTo
        <3>2. PICK k \in Found(r.clientID) : d = client(k).ssl
            BY <2>1, <3>1
        <3>3. k \in 1..Len(m_ClientSocket) /\ client(k).clientID = r.clientID
            BY <3>2 DEF Found
        <3>4. r.clientID = idOf[d] /\ p.from = idOf[c] /\ c \in DOMAIN idOf
            BY <1>1, <1>v, <3>1, <3>2, <3>3
        <3>5. p.msg[1] = c /\ p.msg[2] = n
            BY <3>1
        <3>6. n \in 1..Len(sent[c])
            BY LenProperties DEF TypeOK, NetTypeOK
        <3> QED BY <3>1, <3>4, <3>5, <3>6 DEF WrittenTo
    <2> QED BY <2>3, <2>4, <2>5 DEF Truthful, Explained
<1> QED BY <1>3, <1>4

\* Nobody has a packet at first.
LEMMA PacketInit == Init => PacketInv
<1> SUFFICES ASSUME Init, NEW d \in Conn PROVE outq[d] = << >>
    BY AmongShort DEF PacketInv
<1> QED BY DEF Init, NetInit

\* Every step adds only true packets.
LEMMA PacketNext ==
    ASSUME ServerInv, PacketInv, [Next]_vars
    PROVE  PacketInv'
<1> USE DEF ServerInv
<1> HIDE DEF Packet, ClientSocket
<1> SUFFICES ASSUME NEW d \in Conn, NEW p, Among(p, outq'[d])
             PROVE  Truthful(d, p)'
    BY DEF PacketInv, Among
<1>1. ASSUME Truthful(d, p) PROVE Truthful(d, p)'
    BY <1>1, TruthKept
<1>2. CASE outq' = outq
    BY <1>1, <1>2 DEF PacketInv
<1>3. CASE HandleRequest
    <2>1. PICK c \in Conn, n \in Nat \ {0} :
            /\ c = m_ClientSocket[it].ssl /\ n <= Len(sent[c])
            /\ FromRequest(c, sent[c][n], <<c, n>>, d, p)
        BY <1>3, RequestPackets
    <2>2. it \in 1..Len(m_ClientSocket) /\ pc # "handshake"
        BY <1>3, RequestWrites DEF HandleRequest, AtClient
    <2>3. Truthful(d, p)
        BY <2>1, <2>2, NewTruth DEF FromRequest, PacketInv
    <2> QED BY <1>1, <2>3
<1>4. CASE InitSSLSucceeds
    <2> DEFINE c == newClient[1].ssl
               motd == [op |-> "SMSG_MOTD"]
    <2>1. outq' = outq \/ outq' = Delivered(c, <<motd>>, << >>, {})
        BY <1>4 DEF InitSSLSucceeds, SendMOTD
    <2>2. motd \in Packet
        BY PacketKinds
    <2>3. CASE outq' = Delivered(c, <<motd>>, << >>, {})
        <3>1. outq \in [Conn -> Seq(Packet)]
            BY DEF TypeOK, NetTypeOK
        <3>2. <<motd>> \in Seq(Packet) /\ << >> \in Seq(Packet)
            <4> HIDE DEF motd
            <4> QED BY <2>2
        <3>3. Origin(p, c, d, <<motd>>, << >>, {})
            <4> HIDE DEF motd
            <4> QED BY <2>3, <3>1, <3>2, DeliveredPackets
        <3>4. Among(p, outq[d]) \/ (d = c /\ p = motd)
            <4> HIDE DEF motd
            <4> QED BY <3>3, AmongShort DEF Origin
        <3>5. c \in DOMAIN idOf
            <4>1. /\ m_ClientSocket \in Seq(ClientSocket)
                  /\ newClient \in Seq(ClientSocket) /\ Len(newClient) = 1
                BY <1>4 DEF InitSSLSucceeds, TypeOK, HandlerTypeOK, LoopTypeOK
            <4>2. /\ Len(m_ClientSocket) \in Nat
                  /\ Len(Held) = Len(m_ClientSocket) + 1
                  /\ Held[Len(m_ClientSocket) + 1] = newClient[1]
                BY <4>1, HeldOne DEF Held
            <4>3. Len(m_ClientSocket) + 1 \in 1..Len(Held)
                BY <4>2
            <4> HIDE DEF Held
            <4> QED BY <4>2, <4>3 DEF IDInv, ClientIDs
        <3>6. Truthful(c, motd)
            BY <3>5 DEF Truthful, Explained
        <3> QED BY <1>1, <3>4, <3>6 DEF PacketInv
    <2> QED BY <1>2, <2>1, <2>3
<1> QED BY <1>2, <1>3, <1>4, RoomStepKinds

\* Packets are true in every reachable state.
LEMMA PacketInvHolds == Spec => []PacketInv
<1> QED BY PacketInit, PacketNext, ServerInvHolds, PTL DEF Spec

\* The packets of a connection, by position.
LEMMA PacketAt ==
    ASSUME PacketInv, NEW d \in Conn, NEW k \in 1..Len(outq[d])
    PROVE  Truthful(d, outq[d][k])
    BY DEF PacketInv, Among

\* A private message (CallHandlerMsgToClient) comes only to the connection whose
\* ID its author addressed and names its author, for any number of clients, also
\* after the client that had an ID has left.
THEOREM PrivateMessagesDelivered == Spec => []PrivateDelivery
<1>1. PacketInv => PrivateDelivery
    BY PacketAt DEF PrivateDelivery, Truthful, WrittenTo
<1> QED BY <1>1, PacketInvHolds, PTL

\* A complete client list (CallHandlerGetClientList) has every ID once and marks
\* its receiver and nobody else, for any number of clients.
THEOREM ListsAreRight == Spec => []ListsNameReceiver
<1>1. PacketInv => ListsNameReceiver
    BY PacketAt DEF ListsNameReceiver, Truthful, Names
<1> QED BY <1>1, PacketInvHolds, PTL

\* Every refusal the server's handlers send is one that the switch of the client
\* (processReplyFromServerIfAny) for its opcode has a text for.
THEOREM RefusalsExplained == Spec => []ErrorsExplained
<1>1. PacketInv => ErrorsExplained
    <2> SUFFICES ASSUME PacketInv, NEW d \in Conn, NEW k \in 1..Len(outq[d])
                 PROVE  Display(outq[d][k]) # "Something went wrong."
        BY DEF ErrorsExplained, Displays
    <2> DEFINE p == outq[d][k]
    <2>1. p.op \in DOMAIN Explained => p.error \in Explained[p.op]
        BY PacketAt DEF Truthful
    <2> HIDE DEF p
    <2>2. Display(p) # "Something went wrong."
        BY <2>1 DEF Display, ShowsPayload
    <2> QED BY <2>2 DEF p
<1> QED BY <1>1, PacketInvHolds, PTL

----------------------------------------------------------------------------
(* Selections from a sequence.                                             *)

\* f gives, for every n, the elements kept among the first n.
Upto(s, keep, m, f) ==
    f = [n \in 0..m |-> IF n = 0 THEN << >>
                        ELSE IF n \in keep THEN Append(f[n - 1], s[n])
                        ELSE f[n - 1]]

\* The recursion of ElementsAt, one step at a time.
LEMMA UptoStep ==
    ASSUME NEW s, NEW keep, NEW m \in Nat, NEW f, Upto(s, keep, m, f)
    PROVE  /\ f[0] = << >>
           /\ \A n \in 1..m : f[n] = IF n \in keep THEN Append(f[n - 1], s[n])
                                     ELSE f[n - 1]
<1> DEFINE e(n) == IF n = 0 THEN << >>
                        ELSE IF n \in keep THEN Append(f[n - 1], s[n])
                        ELSE f[n - 1]
<1>1. f = [n \in 0..m |-> e(n)]
    BY DEF Upto
<1> HIDE DEF e
<1>2. \A n \in 0..m : f[n] = e(n)
    BY <1>1
<1>3. 0 \in 0..m /\ \A n \in 1..m : n \in 0..m /\ n # 0
    OBVIOUS
<1> QED BY <1>2, <1>3 DEF e

\* The recursion has a solution.
LEMMA UptoExists ==
    ASSUME NEW s, NEW keep, NEW m \in Nat
    PROVE  \E f : Upto(s, keep, m, f)
<1> DEFINE T == {k \in Nat : ~ \E f : Upto(s, keep, k, f)}
<1> SUFFICES ASSUME T # {} PROVE FALSE
    OBVIOUS
<1>1. PICK k \in T : \A y \in T : k <= y
    BY LeastNat
<1>2. CASE k = 0
    <2>1. Upto(s, keep, 0, [n \in 0..0 |-> << >>])
        BY DEF Upto
    <2> QED BY <1>1, <1>2, <2>1
<1>3. CASE k # 0
    <2>1. k - 1 \in Nat /\ k - 1 \notin T
        BY <1>1, <1>3
    <2>2. PICK g : Upto(s, keep, k - 1, g)
        BY <2>1
    <2> DEFINE f == [n \in 0..k |-> IF n \in 0..(k - 1) THEN g[n]
                                    ELSE IF k \in keep THEN Append(g[k - 1], s[k])
                                    ELSE g[k - 1]]
    <2>3. /\ g[0] = << >>
          /\ \A n \in 1..(k - 1) : g[n] = IF n \in keep THEN Append(g[n - 1], s[n])
                                         ELSE g[n - 1]
        BY <2>1, <2>2, UptoStep
    <2>4. /\ f[0] = << >>
          /\ \A n \in 1..k : f[n] = IF n \in keep THEN Append(f[n - 1], s[n])
                                    ELSE f[n - 1]
        <3>1. f[0] = << >> /\ f[k - 1] = g[k - 1]
            BY <2>1, <2>3
        <3>2. f[k] = IF k \in keep THEN Append(g[k - 1], s[k]) ELSE g[k - 1]
            BY <2>1
        <3>3. \A n \in 1..(k - 1) : f[n] = g[n] /\ f[n - 1] = g[n - 1]
            BY <2>1
        <3>4. \A n \in 1..k : n = k \/ n \in 1..(k - 1)
            BY <2>1
        <3> HIDE DEF f
        <3> QED BY <2>3, <3>1, <3>2, <3>3, <3>4
    <2>5. f = [n \in 0..k |-> f[n]]
        OBVIOUS
    <2> HIDE DEF f
    <2>6. \A n \in 0..k : n = 0 \/ n \in 1..k
        BY <1>1
    <2>7. Upto(s, keep, k, f)
        BY <2>4, <2>5, <2>6, Zenon DEF Upto
    <2> QED BY <1>1, <2>7
<1> QED BY <1>2, <1>3

\* It is the only one, and looks only at the positions there are.
LEMMA UptoUnique ==
    ASSUME NEW s, NEW t, NEW keep, NEW also, NEW m \in Nat, NEW k \in Nat, NEW f, NEW g,
           Upto(s, keep, m, f), Upto(t, also, k, g), m <= k,
           \A n \in 1..m : s[n] = t[n] /\ (n \in keep <=> n \in also)
    PROVE  \A n \in 0..m : f[n] = g[n]
<1> DEFINE T == {n \in 0..m : f[n] # g[n]}
<1> SUFFICES ASSUME T # {} PROVE FALSE
    OBVIOUS
<1>0. T \subseteq Nat
    OBVIOUS
<1>1. PICK n \in T : \A y \in T : n <= y
    BY <1>0, LeastNat
<1>2. /\ f[0] = << >>
      /\ \A i \in 1..m : f[i] = IF i \in keep THEN Append(f[i - 1], s[i])
                                ELSE f[i - 1]
    BY UptoStep
<1>3. /\ g[0] = << >>
      /\ \A i \in 1..k : g[i] = IF i \in also THEN Append(g[i - 1], t[i])
                                ELSE g[i - 1]
    BY UptoStep
<1>4. n \in 0..m /\ n # 0 /\ f[n] # g[n]
    BY <1>1, <1>2, <1>3
<1>5. n \in 1..m /\ n \in 1..k /\ n - 1 \in 0..m /\ ~ (n <= n - 1)
    BY <1>4
<1>6. f[n - 1] = g[n - 1]
    BY <1>1, <1>5
<1> QED BY <1>2, <1>3, <1>4, <1>5, <1>6

\* ElementsAt is the last value of the recursion.
LEMMA ElementsAtUpto ==
    ASSUME NEW s, Len(s) \in Nat, NEW keep
    PROVE  \E f : Upto(s, keep, Len(s), f) /\ ElementsAt(s, keep) = f[Len(s)]
<1>1. \E f : Upto(s, keep, Len(s), f)
    BY UptoExists
<1> QED BY <1>1 DEF Upto, ElementsAt

\* Nothing is kept of nothing.
LEMMA ElementsAtEmpty ==
    ASSUME NEW keep
    PROVE  ElementsAt(<< >>, keep) = << >>
<1>1. Len(<< >>) = 0
    OBVIOUS
<1>2. PICK f : Upto(<< >>, keep, Len(<< >>), f)
                /\ ElementsAt(<< >>, keep) = f[Len(<< >>)]
    BY <1>1, ElementsAtUpto
<1>3. Upto(<< >>, keep, 0, f) /\ ElementsAt(<< >>, keep) = f[0]
    BY <1>1, <1>2
<1> QED BY <1>3, UptoStep

\* What is kept of a sequence over S is one, too.
LEMMA ElementsAtType ==
    ASSUME NEW S, NEW s \in Seq(S), NEW keep
    PROVE  ElementsAt(s, keep) \in Seq(S)
<1>0. Len(s) \in Nat /\ \A n \in 1..Len(s) : s[n] \in S
    BY LenProperties, ElementOfSeq
<1>1. PICK f : Upto(s, keep, Len(s), f) /\ ElementsAt(s, keep) = f[Len(s)]
    BY <1>0, ElementsAtUpto
<1>2. /\ f[0] = << >>
      /\ \A i \in 1..Len(s) : f[i] = IF i \in keep THEN Append(f[i - 1], s[i])
                                     ELSE f[i - 1]
    BY <1>0, <1>1, UptoStep
<1> DEFINE T == {n \in 0..Len(s) : f[n] \notin Seq(S)}
<1>3. ASSUME T # {} PROVE FALSE
    <2>0. T \subseteq Nat
        BY <1>0
    <2>1. PICK n \in T : \A y \in T : n <= y
        BY <1>3, <2>0, LeastNat
    <2>2. n \in 0..Len(s) /\ n # 0
        <3>1. << >> \in Seq(S)
            BY EmptySeq
        <3> QED BY <1>2, <2>1, <3>1
    <2>3. n \in 1..Len(s) /\ n - 1 \in 0..Len(s) /\ ~ (n <= n - 1)
        BY <1>0, <2>2
    <2>4. f[n - 1] \in Seq(S)
        BY <2>1, <2>3
    <2>5. Append(f[n - 1], s[n]) \in Seq(S)
        BY <1>0, <2>3, <2>4
    <2> QED BY <1>2, <2>1, <2>3, <2>4, <2>5
<1> QED BY <1>0, <1>1, <1>3

\* Adding an element keeps the selection and extends it if the new position is
\* one of those kept.
LEMMA ElementsAtAppend ==
    ASSUME NEW S, NEW s \in Seq(S), NEW x \in S, NEW keep, NEW also,
           \A n \in 1..Len(s) : n \in keep <=> n \in also
    PROVE  ElementsAt(Append(s, x), also)
            = IF Len(s) + 1 \in also THEN Append(ElementsAt(s, keep), x)
              ELSE ElementsAt(s, keep)
<1> DEFINE t == Append(s, x)
           m == Len(s)
<1>0. /\ m \in Nat /\ Len(t) = m + 1 /\ t[m + 1] = x
      /\ \A n \in 1..m : t[n] = s[n]
    BY LenProperties, AppendProperties
<1>1. PICK f : Upto(s, keep, m, f) /\ ElementsAt(s, keep) = f[m]
    BY <1>0, ElementsAtUpto
<1> HIDE DEF t
<1>2. PICK g : Upto(t, also, Len(t), g) /\ ElementsAt(t, also) = g[Len(t)]
    BY <1>0, ElementsAtUpto
<1>3. Upto(t, also, m + 1, g) /\ ElementsAt(t, also) = g[m + 1] /\ m + 1 \in Nat
    BY <1>0, <1>2
<1>4. f[m] = g[m]
    <2>2. \A n \in 0..m : f[n] = g[n]
        <3> DEFINE k == m + 1
        <3>1. \A n \in 1..m : s[n] = t[n] /\ (n \in keep <=> n \in also)
            BY <1>0
        <3>2. m \in Nat /\ k \in Nat /\ m <= k
            BY <1>0
        <3>3. Upto(s, keep, m, f) /\ Upto(t, also, k, g)
            BY <1>1, <1>3
        <3> HIDE DEF m, k
        <3> QED BY <3>1, <3>2, <3>3, UptoUnique, SMTT(30)
    <2> QED BY <1>0, <2>2
<1>5. g[m + 1] = IF m + 1 \in also THEN Append(g[m], t[m + 1]) ELSE g[m]
    <2>1. \A n \in 1..(m + 1) : g[n] = IF n \in also THEN Append(g[n - 1], t[n])
                                       ELSE g[n - 1]
        BY <1>3, UptoStep
    <2>2. m + 1 \in 1..(m + 1) /\ (m + 1) - 1 = m
        BY <1>0
    <2> QED BY <2>1, <2>2
<1> QED BY <1>0, <1>1, <1>3, <1>4, <1>5 DEF t

\* The elements of q that are in K.
Chosen(q, K) == ElementsAt(q, {k \in 1..Len(q) : q[k] \in K})

\* a is empty or has one element, of S.
AtMostOne(a, S) == a = << >> \/ \E p \in S : a = <<p>>

\* a adds an element of K to a sequence.
Adds(a, K) == a # << >> /\ a[1] \in K

\* What at most one more element adds to the selection.
LEMMA ChosenConcat ==
    ASSUME NEW S, NEW q \in Seq(S), NEW K, NEW a, AtMostOne(a, S)
    PROVE  /\ q \o a \in Seq(S)
           /\ Chosen(q \o a, K) = IF Adds(a, K) THEN Append(Chosen(q, K), a[1])
                                  ELSE Chosen(q, K)
<1>1. CASE a = << >>
    <2>1. q \o a = q
        BY <1>1, ConcatEmptySeq
    <2> QED BY <1>1, <2>1 DEF Adds
<1>2. ASSUME NEW p \in S, a = <<p>>
      PROVE  /\ q \o a \in Seq(S)
             /\ Chosen(q \o a, K) = IF Adds(a, K) THEN Append(Chosen(q, K), a[1])
                                    ELSE Chosen(q, K)
    <2>1. q \o a = Append(q, p)
        BY <1>2, AppendIsConcat
    <2>2. /\ Len(q) \in Nat /\ Len(Append(q, p)) = Len(q) + 1
          /\ Append(q, p)[Len(q) + 1] = p
          /\ \A n \in 1..Len(q) : Append(q, p)[n] = q[n]
          /\ Append(q, p) \in Seq(S)
        BY LenProperties, AppendProperties
    <2> DEFINE keep == {k \in 1..Len(q) : q[k] \in K}
               also == {k \in 1..Len(Append(q, p)) : Append(q, p)[k] \in K}
    <2>3. \A n \in 1..Len(q) : n \in keep <=> n \in also
        BY <2>2
    <2>4. Len(q) + 1 \in also <=> p \in K
        BY <2>2
    <2> HIDE DEF keep, also
    <2>5. ElementsAt(Append(q, p), also)
            = IF Len(q) + 1 \in also THEN Append(ElementsAt(q, keep), p)
              ELSE ElementsAt(q, keep)
        BY <2>3, ElementsAtAppend
    <2>6. Adds(a, K) <=> p \in K
        BY <1>2 DEF Adds
    <2>7. a[1] = p
        BY <1>2
    <2> QED BY <2>1, <2>2, <2>4, <2>5, <2>6, <2>7 DEF Chosen, keep, also
<1> QED BY <1>1, <1>2 DEF AtMostOne

\* What a delivery adds to the selection of each connection.
LEMMA ChosenDelivered ==
    ASSUME NEW S, outq \in [Conn -> Seq(S)], NEW K, NEW c, NEW to,
           NEW direct, AtMostOne(direct, S), NEW fan, AtMostOne(fan, S),
           NEW d \in Conn,
           outq' = Delivered(c, direct, fan, to)
    PROVE  LET old == Chosen(outq[d], K)
               mid == IF d = c /\ Adds(direct, K) THEN Append(old, direct[1]) ELSE old
           IN  Chosen(outq'[d], K) =
                    IF peer[d] # "up" THEN old
                    ELSE IF d \in to /\ Adds(fan, K) THEN Append(mid, fan[1])
                    ELSE mid
<1> DEFINE a == IF d = c THEN direct ELSE << >>
           b == IF d \in to THEN fan ELSE << >>
           q == outq[d] \o a
           old == Chosen(outq[d], K)
<1>1. outq'[d] = IF peer[d] # "up" THEN outq[d] ELSE q \o b
    BY DEF Delivered
<1>2. AtMostOne(a, S) /\ AtMostOne(b, S)
    BY DEF AtMostOne
<1>3. /\ Adds(a, K) <=> d = c /\ Adds(direct, K)
      /\ Adds(a, K) => a[1] = direct[1]
      /\ Adds(b, K) <=> d \in to /\ Adds(fan, K)
      /\ Adds(b, K) => b[1] = fan[1]
    BY DEF Adds
<1>4. outq[d] \in Seq(S)
    OBVIOUS
<1> HIDE DEF a, b
<1>5. /\ q \in Seq(S)
      /\ Chosen(q, K) = IF Adds(a, K) THEN Append(old, a[1]) ELSE old
    BY <1>2, <1>4, ChosenConcat
<1> HIDE DEF q, old
<1>6. Chosen(q \o b, K) = IF Adds(b, K) THEN Append(Chosen(q, K), b[1])
                          ELSE Chosen(q, K)
    BY <1>2, <1>5, ChosenConcat
<1> QED BY <1>1, <1>3, <1>5, <1>6 DEF old

----------------------------------------------------------------------------
(* The counter.                                                            *)

\* The requests to count among the first n of the requests s of c.
Incs(s, c, n) == {m \in {c} \X (1..n) : s[m[2]].op = "CMSG_INCREMENT_COUNTER"}

Total == Cardinality(AllIncrements)

\* m_Counter is the number of increments read, less the rounds it has made.
CounterInv ==
    /\ IsFiniteSet(AllIncrements)
    /\ \E q \in Nat : Total = q * CounterMod + m_Counter

\* There are finitely many, and more requests hold no fewer.
LEMMA IncsFinite ==
    ASSUME NEW s, NEW c, NEW n \in Nat
    PROVE  IsFiniteSet(Incs(s, c, n)) /\ Cardinality(Incs(s, c, n)) \in Nat
<1> DEFINE I == Incs(s, c, n)
           f == [m \in I |-> m[2]]
<1>1. \A m \in I : m = <<c, m[2]>> /\ m[2] \in 1..n
    BY DEF Incs
<1> HIDE DEF I
<1>2. f \in [I -> 1..n] /\ \A a, b \in I : f[a] = f[b] => a = b
    BY <1>1
<1> HIDE DEF f
<1>3. f \in Injection(I, 1..n)
    BY <1>2 DEF Injection, IsInjective
<1>4. IsFiniteSet(1..n)
    BY FS_Interval
<1>5. IsFiniteSet(I)
    BY <1>3, <1>4, FS_Injection
<1> QED BY <1>5, FS_CardinalityType DEF I

\* The next request adds itself or nothing.
LEMMA IncsNext ==
    ASSUME NEW s, NEW c, NEW n \in Nat
    PROVE  /\ <<c, n + 1>> \notin Incs(s, c, n)
           /\ Incs(s, c, n + 1) = IF s[n + 1].op = "CMSG_INCREMENT_COUNTER"
                                  THEN Incs(s, c, n) \cup {<<c, n + 1>>}
                                  ELSE Incs(s, c, n)
<1>1. 1..(n + 1) = (1..n) \cup {n + 1} /\ n + 1 \notin 1..n
    OBVIOUS
<1> QED BY <1>1 DEF Incs

\* A handler counts an increment, modulo the range of m_Counter, and nothing else.
LEMMA CounterHandled ==
    ASSUME TypeOK, HandleRequest
    PROVE  LET c == m_ClientSocket[it].ssl
           IN  m_Counter' = IF sent[c][read[c] + 1].op = "CMSG_INCREMENT_COUNTER"
                            THEN (m_Counter + 1) % CounterMod
                            ELSE m_Counter
<1> DEFINE c == m_ClientSocket[it].ssl
           n == read[c] + 1
           r == sent[c][n]
           tag == <<c, n>>
<1>1. CallHandler(it, r, tag) \/ (r.op = "runt" /\ InvalidPacket(it))
    BY DEF HandleRequest
<1> HIDE DEF r, tag
<1>2. CASE r.op = "CMSG_INCREMENT_COUNTER"
    <2>1. incrementCounter
        BY <1>1, <1>2 DEF CallHandler
    <2> QED BY <1>2, <2>1 DEF incrementCounter, r
<1>3. CASE r.op # "CMSG_INCREMENT_COUNTER"
    <2>1. m_Counter' = m_Counter
        BY <1>1, <1>3 DEF CallHandler, InvalidPacket, CallHandlerEcho,
            CallHandlerAdd, CallHandlerAddThrows, CallHandlerBroadcast,
            CallHandlerGetClientList, CallHandlerMsgToClient, CallHandlerPong,
            CallHandlerUptime, CallHandlerGetCounter, CallHandlerGetChatRooms,
            CallHandlerGetRoominfo, CallHandlerJoinRoom, CallHandlerSay,
            UnknownOpcode, LengthRefused
    <2> QED BY <1>3, <2>1 DEF r
<1> QED BY <1>2, <1>3 DEF r

\* The counter one further, around its range.
LEMMA CounterStep ==
    ASSUME NEW m \in Nat \ {0}, NEW q \in Nat, NEW v \in 0..(m - 1)
    PROVE  \E u \in Nat : q * m + v + 1 = u * m + ((v + 1) % m)
<1>1. CASE v + 1 < m
    <2>1. (v + 1) % m = v + 1
        BY <1>1
    <2>2. q * m \in Nat
        OBVIOUS
    <2> QED BY <2>1, <2>2
<1>2. CASE v + 1 = m
    <2>1. (v + 1) % m = 0
        BY <1>2
    <2>2. (q + 1) * m = q * m + m /\ q * m \in Nat /\ q + 1 \in Nat
        OBVIOUS
    <2>3. q * m + v + 1 = (q + 1) * m + 0
        BY <1>2, <2>2
    <2> QED BY <2>1, <2>2, <2>3
<1> QED BY <1>1, <1>2

\* The value of the counter, from what it counts.
LEMMA CounterValue ==
    ASSUME NEW m \in Nat \ {0}, NEW q \in Nat, NEW v \in 0..(m - 1)
    PROVE  v = (q * m + v) % m
    OBVIOUS

\* Nothing was counted at first.
LEMMA CounterInit == Init => CounterInv
<1> SUFFICES ASSUME Init PROVE CounterInv
    OBVIOUS
<1>1. \A d \in Conn : read[d] = 0
    BY DEF Init, NetInit
<1>2. \A d \in Conn : Increments(d, read[d]) = {}
    BY <1>1 DEF Increments
<1>3. AllIncrements = {}
    BY <1>2 DEF AllIncrements
<1>4. m_Counter = 0
    BY DEF Init
<1>5. 0 = 0 * CounterMod + 0
    BY HandlersAssumption
<1> QED BY <1>3, <1>4, <1>5, FS_EmptySet DEF CounterInv, Total

----------------------------------------------------------------------------
(* One answer to each request.                                             *)

\* A counter value in p is one of a counter that has counted from lo to hi.
Counted(p, lo, hi) ==
    p.op = "SMSG_COUNTER" => \E n \in lo..hi : p.value = n % CounterMod

\* got answers the requests s of c at the positions owed, one by one; hi
\* increments were read.
Agree(s, c, got, owed, hi) ==
    /\ Len(got) = Len(owed)
    /\ \A k \in 1..Len(got) :
        /\ got[k].op \in Answers(s[owed[k]])
        /\ "msg" \in DOMAIN got[k] => got[k].msg = <<c, owed[k]>>
        /\ Counted(got[k], Cardinality(Incs(s, c, owed[k])), hi)

\* Positions of those of the first n requests of s that are owed an answer.
Due(s, n) == ElementsAt([k \in 1..n |-> k], {k \in 1..n : Answers(s[k]) # {}})

\* Nothing was read from a connection that was never made.
NothingRead == \A c \in Conn : peer[c] = "none" => read[c] = 0

\* InOrderAnswers and CounterReads with what they rest on.
AnswersInv == InOrderAnswers /\ CounterReads /\ NothingRead /\ CounterInv

\* The two properties are the agreement of every client's packets.
LEMMA AgreementIs ==
    ASSUME NEW c \in Conn
    PROVE  Agree(sent[c], c, AnswersTo(c), Answerable(c), Total) <=>
            LET got == AnswersTo(c)
                owed == Answerable(c)
            IN  /\ Len(got) = Len(owed)
                /\ \A k \in 1..Len(got) :
                    /\ got[k].op \in Answers(sent[c][owed[k]])
                    /\ "msg" \in DOMAIN got[k] => got[k].msg = <<c, owed[k]>>
                /\ \A k \in 1..Len(got) : got[k].op = "SMSG_COUNTER" =>
                    \E n \in Cardinality(Increments(c, owed[k]))
                                ..Cardinality(AllIncrements) :
                        got[k].value = n % CounterMod
<1> DEFINE got == AnswersTo(c)
           owed == Answerable(c)
<1>1. \A k \in 1..Len(got) : Increments(c, owed[k]) = Incs(sent[c], c, owed[k])
    BY DEF Increments, Incs
<1> HIDE DEF got, owed
<1>2. \A k \in 1..Len(got) :
        Counted(got[k], Cardinality(Incs(sent[c], c, owed[k])), Total) <=>
            (got[k].op = "SMSG_COUNTER" =>
                \E n \in Cardinality(Increments(c, owed[k]))
                            ..Cardinality(AllIncrements) :
                    got[k].value = n % CounterMod)
    BY <1>1, Zenon DEF Counted, Total
<1> QED BY <1>2, Zenon DEF Agree, got, owed

Answering == {p \in Packet : p.op \notin Unasked}

\* The answers among the packets of c, as a selection by packets.
LEMMA AnswersChosen ==
    ASSUME NEW q \in Seq(Packet)
    PROVE  ElementsAt(q, {k \in 1..Len(q) : q[k].op \notin Unasked})
            = Chosen(q, Answering)
<1>1. \A k \in 1..Len(q) : q[k] \in Packet
    BY ElementOfSeq
<1> HIDE DEF Packet, Unasked
<1>2. {k \in 1..Len(q) : q[k].op \notin Unasked} = {k \in 1..Len(q) : q[k] \in Answering}
    BY <1>1 DEF Answering
<1> QED BY <1>2 DEF Chosen

\* One more request read is one more owed an answer, or none.
LEMMA DueNext ==
    ASSUME NEW s, NEW n \in Nat
    PROVE  /\ Due(s, n) \in Seq(1..n)
           /\ Due(s, n + 1) = IF Answers(s[n + 1]) # {} THEN Append(Due(s, n), n + 1)
                              ELSE Due(s, n)
<1> DEFINE at(m) == [k \in 1..m |-> k]
           due(m) == {k \in 1..m : Answers(s[k]) # {}}
<1>1. at(n) \in Seq(1..n) /\ at(n) \in Seq(Nat) /\ Len(at(n)) = n
    OBVIOUS
<1>2. at(n + 1) = Append(at(n), n + 1)
    OBVIOUS
<1>3. \A k \in 1..n : k \in due(n) <=> k \in due(n + 1)
    OBVIOUS
<1>4. n + 1 \in due(n + 1) <=> Answers(s[n + 1]) # {}
    OBVIOUS
<1> HIDE DEF at, due
<1>5. ElementsAt(at(n), due(n)) \in Seq(1..n)
    BY <1>1, ElementsAtType
<1>6. ElementsAt(Append(at(n), n + 1), due(n + 1))
        = IF Len(at(n)) + 1 \in due(n + 1) THEN Append(ElementsAt(at(n), due(n)), n + 1)
          ELSE ElementsAt(at(n), due(n))
    <2> DEFINE t == at(n)
               x == n + 1
               keep == due(n)
               also == due(n + 1)
    <2>1. t \in Seq(Nat) /\ x \in Nat
        BY <1>1
    <2>2. \A k \in 1..Len(t) : k \in keep <=> k \in also
        BY <1>1, <1>3
    <2> HIDE DEF t, x, keep, also
    <2>3. ElementsAt(Append(t, x), also)
            = IF Len(t) + 1 \in also THEN Append(ElementsAt(t, keep), x)
              ELSE ElementsAt(t, keep)
        BY <2>1, <2>2, ElementsAtAppend
    <2> QED BY <2>3 DEF t, x, keep, also
<1> QED BY <1>1, <1>2, <1>4, <1>5, <1>6 DEF at, due, Due

\* None is owed while nothing is read.
LEMMA DueNone == \A s : Due(s, 0) = << >>
<1> TAKE s
<1>1. [k \in 1..0 |-> k] = << >>
    OBVIOUS
<1> QED BY <1>1, ElementsAtEmpty DEF Due

\* Requests that come in later change nothing about the answers got.
LEMMA AgreeKept ==
    ASSUME NEW s, NEW t, NEW n \in Nat, \A k \in 1..n : t[k] = s[k],
           NEW c, NEW got, NEW lo \in Nat, NEW hi \in Nat, lo <= hi,
           Agree(s, c, got, Due(s, n), lo)
    PROVE  Agree(t, c, got, Due(t, n), hi)
<1>1. {k \in 1..n : Answers(s[k]) # {}} = {k \in 1..n : Answers(t[k]) # {}}
    OBVIOUS
<1>2. Due(t, n) = Due(s, n)
    BY <1>1 DEF Due
<1> DEFINE owed == Due(s, n)
<1>3. owed \in Seq(1..n)
    BY DueNext
<1> HIDE DEF owed
<1>4. Agree(s, c, got, owed, lo) /\ Due(t, n) = owed
    BY <1>2 DEF owed
<1>5. \A k \in 1..Len(owed) : owed[k] \in 1..n
    BY <1>3, ElementOfSeq
<1>6. \A m \in 1..n : Incs(t, c, m) = Incs(s, c, m)
    BY DEF Incs
<1>7. \A m \in 1..n : \A p : Counted(p, Cardinality(Incs(s, c, m)), lo)
                                => Counted(p, Cardinality(Incs(t, c, m)), hi)
    <2> SUFFICES ASSUME NEW m \in 1..n, NEW p, p.op = "SMSG_COUNTER",
                        \E u \in Cardinality(Incs(s, c, m))..lo : p.value = u % CounterMod
                 PROVE  \E u \in Cardinality(Incs(s, c, m))..hi : p.value = u % CounterMod
        BY <1>6 DEF Counted
    <2>1. Cardinality(Incs(s, c, m)) \in Nat
        BY IncsFinite
    <2> QED BY <2>1
<1>8. \A k \in 1..Len(got) :
        /\ owed[k] \in 1..n /\ t[owed[k]] = s[owed[k]]
        /\ Counted(got[k], Cardinality(Incs(t, c, owed[k])), hi)
    BY <1>4, <1>5, <1>7 DEF Agree
<1>9. Agree(t, c, got, owed, hi)
    BY <1>4, <1>8 DEF Agree
<1> QED BY <1>4, <1>9

\* The answer to the next request is the next answer.
LEMMA AgreeAppend ==
    ASSUME NEW s, NEW n \in Nat, NEW c, NEW S, NEW got \in Seq(S), NEW p \in S,
           NEW owed \in Seq(1..n), NEW hi, Agree(s, c, got, owed, hi),
           p.op \in Answers(s[n + 1]),
           "msg" \in DOMAIN p => p.msg = <<c, n + 1>>,
           Counted(p, Cardinality(Incs(s, c, n + 1)), hi)
    PROVE  Agree(s, c, Append(got, p), Append(owed, n + 1), hi)
<1> DEFINE g == Append(got, p)
           o == Append(owed, n + 1)
<1>0. owed \in Seq(Nat) /\ n + 1 \in Nat
    OBVIOUS
<1>1. /\ Len(got) \in Nat /\ Len(g) = Len(got) + 1 /\ g[Len(got) + 1] = p
      /\ \A k \in 1..Len(got) : g[k] = got[k]
    BY LenProperties, AppendProperties
<1>2. /\ Len(o) = Len(owed) + 1 /\ o[Len(owed) + 1] = n + 1
      /\ \A k \in 1..Len(owed) : o[k] = owed[k]
    BY <1>0, AppendProperties
<1>3. /\ Len(got) = Len(owed)
      /\ \A k \in 1..Len(got) :
            /\ got[k].op \in Answers(s[owed[k]])
            /\ "msg" \in DOMAIN got[k] => got[k].msg = <<c, owed[k]>>
            /\ Counted(got[k], Cardinality(Incs(s, c, owed[k])), hi)
    BY DEF Agree
<1>4. \A k \in 1..Len(g) : k \in 1..Len(got) \/ k = Len(got) + 1
    BY <1>1
<1> HIDE DEF g, o
<1>5. Agree(s, c, g, o, hi)
    BY <1>1, <1>2, <1>3, <1>4 DEF Agree
<1> QED BY <1>5 DEF g, o

\* Another end changes by itself, or is reset after it has closed; it comes up
\* only by connecting.
LEMMA PeerSteps ==
    ASSUME TypeOK, [Next]_vars, NEW c \in Conn
    PROVE  /\ peer'[c] = peer[c] \/ peer'[c] # "none"
           /\ peer'[c] = "up" => peer[c] = "up" \/ peer[c] = "none"
<1>t. peer \in [Conn -> PeerState]
    BY DEF TypeOK, NetTypeOK
<1>1. CASE PeersKept
    BY <1>1 DEF PeersKept
<1>2. CASE HandleRequest
    <2>1. pc = "process"
        BY <1>2 DEF HandleRequest, AtClient
    <2> QED BY <1>1, <1>2, <2>1, RequestWrites, WritesEnd DEF TypeOK
<1>3. CASE InitSSLSucceeds
    <2>1. PeersKept
        BY <1>t, <1>3, WritesKeepPeers DEF InitSSLSucceeds, SendMOTD, PeersKept
    <2> QED BY <1>1, <2>1
<1>4. ASSUME NEW d \in Conn,
             \/ Connect(d) \/ SendHead(d) \/ Stall(d) \/ Close(d)
             \/ \E r \in Request : Send(d, r)
      PROVE  /\ peer'[c] = peer[c] \/ peer'[c] # "none"
             /\ peer'[c] = "up" => peer[c] = "up" \/ peer[c] = "none"
    BY <1>t, <1>4 DEF Connect, SendHead, Stall, Close, Send, Connected
<1>5. CASE UNCHANGED peer
    BY <1>5
<1>6. CASE Accept \/ InitSSLFails \/ Disconnect \/ ClosingRequested \/ CloseServer
    BY <1>5, <1>6 DEF Accept, InitSSLFails, Disconnect, ClosingRequested,
        CloseServer, netVars
<1> QED BY <1>2, <1>3, <1>4, <1>5, <1>6, StepKinds

\* Nobody but the process itself ends it, and it does not come back.
LEMMA StillUp ==
    ASSUME [Next]_vars, Running'
    PROVE  Running
<1>1. CASE ServerStep
    BY <1>1 DEF ServerStep, PoolActivity, PoolInterrupted, NothingToAccept,
        AcceptFails, Accept, InitSSLFails, InitSSLSucceeds, NotReadable,
        HandleRequest, Disconnect, EndProcess, NextIteration, ClosingRequested,
        CloseServer, AtClient, Running
<1>2. CASE Environment
    BY <1>2 DEF Environment
<1>3. CASE UNCHANGED vars
    BY <1>3 DEF vars, handlerVars, Running
<1> QED BY <1>1, <1>2, <1>3 DEF Next

\* Requests are taken in by the handlers only.
LEMMA ReadSteps ==
    ASSUME [Next]_vars
    PROVE  HandleRequest \/ (read' = read /\ m_Counter' = m_Counter)
<1> USE DEF loopVars, handlerVars, netVars
<1>1. CASE ServerStep
    BY <1>1 DEF ServerStep, PoolActivity, PoolInterrupted, NothingToAccept,
        AcceptFails, Accept, InitSSLFails, InitSSLSucceeds, NotReadable,
        Disconnect, EndProcess, NextIteration, ClosingRequested, CloseServer
<1>2. CASE Environment
    BY <1>2 DEF Environment, Signal, Connect, Send, SendHead, Stall, Close
<1>3. CASE UNCHANGED vars
    BY <1>3 DEF vars
<1> QED BY <1>1, <1>2, <1>3 DEF Next

\* Every step counts what it should, and takes no increment back.
LEMMA CounterNext ==
    ASSUME TypeOK, CounterInv, [Next]_vars
    PROVE  /\ CounterInv'
           /\ Total \in Nat /\ Total' \in Nat /\ Total <= Total'
           /\ AllIncrements \subseteq AllIncrements'
<1> HIDE DEF Packet, ClientSocket
<1>t. /\ read \in [Conn -> Nat] /\ sent \in [Conn -> Seq(Request)]
      /\ \A d \in Conn : read[d] <= Len(sent[d])
    BY DEF TypeOK, NetTypeOK
<1>f. IsFiniteSet(AllIncrements) /\ Total \in Nat
    BY FS_CardinalityType DEF CounterInv, Total
<1>v. m_Counter \in 0..(CounterMod - 1) /\ CounterMod \in Nat \ {0}
    BY HandlersAssumption DEF TypeOK, HandlerTypeOK
<1>k. \A d \in Conn : Incs(sent'[d], d, read[d]) = Increments(d, read[d])
    <2> SUFFICES ASSUME NEW d \in Conn
                 PROVE  Incs(sent'[d], d, read[d]) = Increments(d, read[d])
        OBVIOUS
    <2>1. \A k \in 1..Len(sent[d]) : sent'[d][k] = sent[d][k]
        BY StepSent DEF SentGrows
    <2>2. read[d] \in Nat /\ Len(sent[d]) \in Nat /\ read[d] <= Len(sent[d])
        BY <1>t, LenProperties
    <2>3. \A k \in 1..read[d] : sent'[d][k] = sent[d][k]
        BY <2>1, <2>2
    <2> QED BY <2>3 DEF Incs, Increments
<1>1. CASE read' = read /\ m_Counter' = m_Counter
    <2>1. \A d \in Conn : Increments(d, read[d])' = Increments(d, read[d])
        BY <1>1, <1>k DEF Incs, Increments
    <2>2. AllIncrements' = AllIncrements
        BY <2>1 DEF AllIncrements
    <2> QED BY <1>1, <1>f, <2>2 DEF CounterInv, Total
<1>2. CASE HandleRequest
    <2>1. PICK c \in Conn, n \in Nat \ {0} :
            /\ c = m_ClientSocket[it].ssl
            /\ n = read[c] + 1 /\ n <= Len(sent[c])
            /\ read' = [read EXCEPT ![c] = n]
        BY <1>2, RequestWrites
    <2>s. sent' = sent
        BY <1>2 DEF HandleRequest
    <2> DEFINE counts == sent[c][n].op = "CMSG_INCREMENT_COUNTER"
               x == <<c, n>>
    <2>2. m_Counter' = IF counts THEN (m_Counter + 1) % CounterMod ELSE m_Counter
        BY <1>2, <2>1, CounterHandled
    <2>3. \A d \in Conn : Increments(d, read[d])'
            = IF d = c /\ counts THEN Increments(d, read[d]) \cup {x}
              ELSE Increments(d, read[d])
        <3> SUFFICES ASSUME NEW d \in Conn
                     PROVE  Increments(d, read[d])'
                                = IF d = c /\ counts THEN Increments(d, read[d]) \cup {x}
                                  ELSE Increments(d, read[d])
            OBVIOUS
        <3>1. /\ Increments(d, read[d])' = Incs(sent[d], d, read'[d])
              /\ Increments(d, read[d]) = Incs(sent[d], d, read[d])
            BY <2>s DEF Incs, Increments
        <3>2. CASE d # c
            BY <1>t, <2>1, <3>1, <3>2
        <3>3. CASE d = c
            <4>1. read'[d] = read[d] + 1 /\ read[d] \in Nat /\ n = read[d] + 1
                BY <1>t, <2>1, <3>3
            <4> DEFINE t == sent[d]
                       m == read[d]
            <4>2. counts <=> t[m + 1].op = "CMSG_INCREMENT_COUNTER"
                BY <3>3, <4>1
            <4>3. x = <<d, m + 1>>
                BY <3>3, <4>1
            <4>4. m \in Nat /\ read'[d] = m + 1
                BY <4>1
            <4> HIDE DEF t, m, counts, x
            <4>5. Incs(t, d, m + 1) = IF t[m + 1].op = "CMSG_INCREMENT_COUNTER"
                                      THEN Incs(t, d, m) \cup {<<d, m + 1>>}
                                      ELSE Incs(t, d, m)
                BY <4>4, IncsNext
            <4>6. /\ Increments(d, read[d])' = Incs(t, d, m + 1)
                  /\ Increments(d, read[d]) = Incs(t, d, m)
                BY <3>1, <4>4 DEF t, m
            <4> QED BY <3>3, <4>2, <4>3, <4>5, <4>6
        <3> QED BY <3>2, <3>3
    <2>4. x \notin AllIncrements
        <3>1. \A d \in Conn : x \in Increments(d, read[d]) => d = c /\ n <= read[c]
            BY <1>t DEF Increments
        <3>2. ~ (n <= read[c])
            BY <1>t, <2>1
        <3> HIDE DEF x
        <3>3. \A d \in Conn : x \notin Increments(d, read[d])
            BY <3>1, <3>2
        <3> QED BY <3>3 DEF AllIncrements
    <2> HIDE DEF counts, x
    <2>5. AllIncrements' = IF counts THEN AllIncrements \cup {x} ELSE AllIncrements
        BY <2>3 DEF AllIncrements
    <2>6. CASE ~counts
        BY <1>f, <2>2, <2>5, <2>6 DEF CounterInv, Total
    <2>7. CASE counts
        <3>1. IsFiniteSet(AllIncrements') /\ Total' = Total + 1
            BY <1>f, <2>4, <2>5, <2>7, FS_AddElement DEF Total
        <3>2. PICK q \in Nat : Total = q * CounterMod + m_Counter
            BY DEF CounterInv
        <3>3. PICK u \in Nat : q * CounterMod + m_Counter + 1
                                = u * CounterMod + ((m_Counter + 1) % CounterMod)
            BY <1>v, CounterStep
        <3>4. Total' = u * CounterMod + m_Counter'
            BY <2>2, <2>7, <3>1, <3>2, <3>3
        <3> QED BY <1>f, <2>5, <2>7, <3>1, <3>4 DEF CounterInv
    <2> QED BY <2>6, <2>7
<1> QED BY <1>1, <1>2, ReadSteps

\* What the handler of request r of c has written when it returns or dies: all
\* its script says, or, when it dies, less.
Delivery(c, r, tag) ==
    \/ outq' = outq /\ ~Running'
    \/ outq' = outq /\ Answers(r) = {} /\ NoPost(it, r)
    \/ \E direct, fan, to, got :
        /\ Script(it, r, tag, direct, fan, to)
        /\ got \subseteq to /\ (Running' => got = to)
        /\ outq' = Delivered(c, direct, fan, got)

\* Every request ends in a delivery.
LEMMA RequestDelivers ==
    ASSUME TypeOK, HandleRequest
    PROVE  \E c \in Conn, n \in Nat \ {0} :
            /\ c = m_ClientSocket[it].ssl
            /\ n = read[c] + 1 /\ n <= Len(sent[c]) /\ sent[c][n] \in Request
            /\ read' = [read EXCEPT ![c] = n]
            /\ Delivery(c, sent[c][n], <<c, n>>)
<1> HIDE DEF Packet, ClientSocket
<1>1. PICK c \in Conn, n \in Nat \ {0} :
        /\ c = m_ClientSocket[it].ssl
        /\ n = read[c] + 1 /\ n <= Len(sent[c]) /\ sent[c][n] \in Request
        /\ read' = [read EXCEPT ![c] = n]
        /\ Writes(it, sent[c][n], <<c, n>>)
    BY RequestWrites
<1> DEFINE r == sent[c][n]
           tag == <<c, n>>
<1>2. Writes(it, r, tag)
    BY <1>1
<1>c. client(it).ssl = c
    BY <1>1 DEF client
<1> HIDE DEF r, tag
<1>3. ASSUME CallHandlerAddThrows PROVE Delivery(c, r, tag)
    BY <1>3 DEF CallHandlerAddThrows, Running, Delivery
<1>4. ASSUME NoReply, Answers(r) = {}, NoPost(it, r) PROVE Delivery(c, r, tag)
    BY <1>4, Zenon DEF NoReply, Delivery
<1>5. ASSUME NEW direct, NEW fan, NEW to, Script(it, r, tag, direct, fan, to),
             HandlerSends(c, direct, fan, to)
      PROVE  Delivery(c, r, tag)
    <2>1. CASE outq' = Delivered(c, direct, fan, to)
        BY <1>5, <2>1, Zenon DEF Delivery
    <2>2. CASE Killed /\ UNCHANGED outq
        BY <2>2 DEF Killed, Running, Delivery
    <2>3. ASSUME NEW d, Killed, outq' = Delivered(c, direct, fan, Earlier(to, d))
          PROVE  Delivery(c, r, tag)
        <3>1. Earlier(to, d) \subseteq to
            BY DEF Earlier
        <3>2. ~Running'
            BY <2>3 DEF Killed, Running
        <3> QED BY <1>5, <2>3, <3>1, <3>2, Zenon DEF Delivery
    <2> QED BY <1>5, <2>1, <2>2, <2>3, Zenon DEF HandlerSends
<1>6. Delivery(c, r, tag)
    BY <1>2, <1>c, <1>3, <1>4, <1>5 DEF Writes
<1> QED BY <1>1, <1>6 DEF r, tag

\* What a script consists of.
LEMMA ScriptParts ==
    ASSUME NEW i, NEW r, NEW tag, NEW direct, NEW fan, NEW to,
           Script(i, r, tag, direct, fan, to)
    PROVE  /\ AtMostOne(direct, Packet) /\ AtMostOne(fan, Packet)
           /\ direct = << >> => Answers(r) = {}
           /\ direct # << >> => AnswerTo(i, r, tag, direct[1])
           /\ fan = << >> => to = {} /\ NoPost(i, r)
           /\ fan # << >> => PostTo(i, r, tag, fan[1], to)
<1> HIDE DEF Packet
<1>1. \A p : <<p>> # << >> /\ <<p>>[1] = p
    OBVIOUS
<1>2. /\ \/ direct = << >> /\ Answers(r) = {}
         \/ \E p \in Packet : direct = <<p>> /\ AnswerTo(i, r, tag, p)
      /\ \/ fan = << >> /\ to = {} /\ NoPost(i, r)
         \/ \E p \in Packet : fan = <<p>> /\ PostTo(i, r, tag, p, to)
    BY Zenon DEF Script
<1> QED BY <1>1, <1>2 DEF AtMostOne

\* Answers are answers, posts are posts.
LEMMA AnswersAreAnswers ==
    ASSUME NEW i, NEW r, NEW tag, NEW p
    PROVE  /\ AnswerTo(i, r, tag, p) => p.op \notin Unasked
           /\ \A to : PostTo(i, r, tag, p, to) => p.op \in Unasked
    BY DEF AnswerTo, Answers, PostTo, Unasked

\* The handler of a request of c leaves one answer to it, and no other.
LEMMA AnswersHandled ==
    ASSUME TypeOK, TypeOK', AnswersInv, HandleRequest,
           NEW d \in Conn, Running', peer'[d] = "up"
    PROVE  Agree(sent'[d], d, AnswersTo(d)', Answerable(d)', Total')
<1> HIDE DEF Packet, ClientSocket
<1>1. PICK c \in Conn, n \in Nat \ {0} :
        /\ c = m_ClientSocket[it].ssl
        /\ n = read[c] + 1 /\ n <= Len(sent[c]) /\ sent[c][n] \in Request
        /\ read' = [read EXCEPT ![c] = n]
        /\ Delivery(c, sent[c][n], <<c, n>>)
    BY RequestDelivers
<1>t. /\ outq \in [Conn -> Seq(Packet)] /\ outq' \in [Conn -> Seq(Packet)]
      /\ read \in [Conn -> Nat]
    BY DEF TypeOK, NetTypeOK
<1>s. sent' = sent
    BY DEF HandleRequest
<1>p. peer[d] = "up"
    <2>1. pc = "process"
        BY DEF HandleRequest, AtClient
    <2>2. PeersKept
        BY <2>1, RequestWrites, WritesEnd DEF TypeOK
    <2> QED BY <2>2 DEF PeersKept
<1>r. Running
    BY DEF HandleRequest, AtClient, Running
<1> DEFINE r == sent[c][n]
           tag == <<c, n>>
           got == Chosen(outq[d], Answering)
           owed == Due(sent[d], read[d])
<1>2. Agree(sent[d], d, got, owed, Total)
    <2>1. AnswersTo(d) = got
        BY <1>t, AnswersChosen DEF AnswersTo
    <2>2. Answerable(d) = owed
        BY DEF Answerable, Due
    <2> HIDE DEF got, owed
    <2>3. Agree(sent[d], d, AnswersTo(d), Answerable(d), Total)
        BY <1>p, <1>r, AgreementIs DEF AnswersInv, InOrderAnswers, CounterReads
    <2> QED BY <2>1, <2>2, <2>3
<1>h. Total \in Nat /\ Total' \in Nat /\ Total <= Total'
    BY CounterNext DEF AnswersInv, Next, ServerStep
<1>g. Agree(sent[d], d, got, owed, Total')
    <2>1. /\ read[d] \in Nat /\ owed = Due(sent[d], read[d])
          /\ \A k \in 1..read[d] : sent[d][k] = sent[d][k]
        BY <1>t
    <2> HIDE DEF got, owed
    <2> QED BY <1>2, <1>h, <2>1, AgreeKept
<1>3. AnswersTo(d)' = Chosen(outq'[d], Answering)
    BY <1>t, AnswersChosen DEF AnswersTo
<1>4. Answerable(d)' = Due(sent[d], read'[d])
    BY <1>s DEF Answerable, Due
<1>5. Due(sent[d], read'[d]) = IF d = c /\ Answers(r) # {} THEN Append(owed, n)
                               ELSE owed
    <2>1. CASE d # c
        BY <1>1, <1>t, <2>1
    <2>2. CASE d = c
        BY <1>1, <1>t, <2>2, DueNext
    <2> QED BY <2>1, <2>2
<1>6. got \in Seq(Packet) /\ owed \in Seq(1..read[d])
    <2>1. outq[d] \in Seq(Packet) /\ read[d] \in Nat
        BY <1>t
    <2> QED BY <2>1, ElementsAtType, DueNext DEF Chosen
<1>7. Delivery(c, r, tag)
    BY <1>1
<1>8. CASE Answers(r) = {} /\ outq' = outq
    BY <1>g, <1>3, <1>4, <1>5, <1>8, <1>s
<1>9. ASSUME NEW direct, NEW fan, NEW to, Script(it, r, tag, direct, fan, to),
             outq' = Delivered(c, direct, fan, to)
      PROVE  Agree(sent'[d], d, AnswersTo(d)', Answerable(d)', Total')
    <2> HIDE DEF got, owed, r, tag
    <2>1. /\ AtMostOne(direct, Packet) /\ AtMostOne(fan, Packet)
          /\ direct = << >> => Answers(r) = {}
          /\ direct # << >> => AnswerTo(it, r, tag, direct[1])
          /\ fan # << >> => PostTo(it, r, tag, fan[1], to)
        BY <1>9, ScriptParts
    <2>2. direct # << >> => direct[1] \in Packet
        BY <2>1 DEF AtMostOne
    <2>3. Adds(direct, Answering) <=> direct # << >>
        BY <2>1, <2>2, AnswersAreAnswers DEF Adds, Answering
    <2>4. ~ Adds(fan, Answering)
        BY <2>1, AnswersAreAnswers DEF Adds, Answering
    <2>5. Chosen(outq'[d], Answering)
            = IF d = c /\ direct # << >> THEN Append(got, direct[1]) ELSE got
        <3> DEFINE mid == IF d = c /\ Adds(direct, Answering)
                          THEN Append(got, direct[1]) ELSE got
        <3>1. Chosen(outq'[d], Answering) =
                    IF peer[d] # "up" THEN got
                    ELSE IF d \in to /\ Adds(fan, Answering) THEN Append(mid, fan[1])
                    ELSE mid
            <4> HIDE DEF Answering
            <4>1. /\ outq \in [Conn -> Seq(Packet)] /\ outq' = Delivered(c, direct, fan, to)
                  /\ AtMostOne(direct, Packet) /\ AtMostOne(fan, Packet)
                BY <1>9, <1>t, <2>1
            <4> QED BY <4>1, ChosenDelivered, Zenon DEF got
        <3> QED BY <1>p, <2>3, <2>4, <3>1
    <2>6. CASE d = c /\ direct # << >>
        <3>1. /\ direct[1].op \in Answers(r)
              /\ "msg" \in DOMAIN direct[1] => direct[1].msg = tag
            BY <2>1, <2>6 DEF AnswerTo
        <3>2. read[d] \in Nat /\ n = read[d] + 1 /\ r = sent[d][read[d] + 1]
              /\ tag = <<d, read[d] + 1>>
            BY <1>1, <1>t, <2>6 DEF r, tag
        <3>c. Counted(direct[1], Cardinality(Incs(sent[d], d, read[d] + 1)), Total')
            <4> SUFFICES ASSUME direct[1].op = "SMSG_COUNTER"
                         PROVE  \E m \in Cardinality(Incs(sent[d], d, read[d] + 1))..Total' :
                                    direct[1].value = m % CounterMod
                BY DEF Counted
            <4>1. direct[1].value = m_Counter
                BY <2>1, <2>6 DEF AnswerTo
            <4>2. r.op # "CMSG_INCREMENT_COUNTER"
                BY <3>1 DEF Answers
            <4>3. Incs(sent[d], d, read[d] + 1) = Increments(d, read[d])
                BY <3>2, <4>2, IncsNext DEF Incs, Increments
            <4>4. Increments(d, read[d]) \subseteq AllIncrements
                BY DEF AllIncrements
            <4>5. Cardinality(Incs(sent[d], d, read[d] + 1)) <= Total
                BY <4>3, <4>4, FS_Subset DEF AnswersInv, CounterInv, Total
            <4>6. m_Counter = Total % CounterMod
                BY HandlersAssumption, CounterValue
                DEF AnswersInv, CounterInv, TypeOK, HandlerTypeOK
            <4>7. Cardinality(Incs(sent[d], d, read[d] + 1)) \in Nat
                BY <3>2, IncsFinite
            <4> QED BY <1>h, <4>1, <4>5, <4>6, <4>7
        <3>3. Agree(sent[d], d, Append(got, direct[1]), Append(owed, read[d] + 1), Total')
            BY <1>g, <1>6, <2>2, <2>6, <3>1, <3>2, <3>c, AgreeAppend
        <3>4. Answers(r) # {}
            BY <3>1
        <3> QED BY <1>3, <1>4, <1>5, <1>s, <2>5, <2>6, <3>2, <3>3, <3>4
    <2>7. CASE ~ (d = c /\ direct # << >>)
        BY <1>g, <1>3, <1>4, <1>5, <1>s, <2>1, <2>5, <2>7
    <2> QED BY <2>6, <2>7
<1> QED BY <1>7, <1>8, <1>9 DEF Delivery

\* No packet and no request at first.
LEMMA AnswersInit == Init => AnswersInv
    BY CounterInit DEF Init, NetInit, AnswersInv, NothingRead, InOrderAnswers,
        CounterReads

\* Every step keeps answers and requests in step.
LEMMA AnswersNext ==
    ASSUME ServerInv, ServerInv', PacketInv, AnswersInv, [Next]_vars
    PROVE  AnswersInv'
<1> USE DEF ServerInv
<1> HIDE DEF Packet, ClientSocket
<1>t. /\ outq \in [Conn -> Seq(Packet)] /\ outq' \in [Conn -> Seq(Packet)]
      /\ read \in [Conn -> Nat] /\ sent \in [Conn -> Seq(Request)]
      /\ \A c \in Conn : read[c] <= Len(sent[c])
    BY DEF TypeOK, NetTypeOK
<1>r. read' = read \/ HandleRequest
    BY ReadSteps
<1>h. CounterInv' /\ Total \in Nat /\ Total' \in Nat /\ Total <= Total'
    BY CounterNext DEF AnswersInv
<1>1. NothingRead'
    <2> SUFFICES ASSUME NEW c \in Conn, peer'[c] = "none" PROVE read'[c] = 0
        BY DEF NothingRead
    <2>1. peer[c] = "none" /\ read[c] = 0
        BY PeerSteps DEF AnswersInv, NothingRead
    <2>2. CASE HandleRequest
        <3>1. PICK d \in Conn, n \in Nat : /\ d = m_ClientSocket[it].ssl
                                         /\ read' = [read EXCEPT ![d] = n]
            BY <2>2, RequestDelivers
        <3>2. it \in 1..Len(m_ClientSocket) /\ pc # "handshake"
            BY <2>2, RequestWrites DEF HandleRequest, AtClient
        <3>3. d \in DOMAIN idOf
            BY <3>1, <3>2, VectorIDs DEF client
        <3>4. peer[d] # "none"
            BY <3>3 DEF IDInv, ConnectionsOnce
        <3> QED BY <1>t, <2>1, <3>1, <3>4
    <2> QED BY <1>r, <2>1, <2>2
<1>2. ASSUME NEW d \in Conn, Running', peer'[d] = "up"
      PROVE  Agree(sent'[d], d, AnswersTo(d)', Answerable(d)', Total')
    <2>1. CASE HandleRequest
        BY <1>2, <2>1, AnswersHandled
    <2>2. CASE ~HandleRequest
        <3> DEFINE got == Chosen(outq[d], Answering)
                   owed == Due(sent[d], read[d])
        <3>1. AnswersTo(d) = got /\ AnswersTo(d)' = Chosen(outq'[d], Answering)
            BY <1>t, AnswersChosen DEF AnswersTo
        <3>2. Answerable(d) = owed /\ Answerable(d)' = Due(sent'[d], read[d])
            BY <1>r, <2>2 DEF Answerable, Due
        <3>3. Chosen(outq'[d], Answering) = got
            <4>1. CASE outq' = outq
                BY <4>1
            <4>2. CASE InitSSLSucceeds
                <5> DEFINE motd == [op |-> "SMSG_MOTD"]
                           c == newClient[1].ssl
                <5>1. outq' = outq \/ outq' = Delivered(c, <<motd>>, << >>, {})
                    BY <4>2 DEF InitSSLSucceeds, SendMOTD
                <5>2. motd \in Packet /\ motd \notin Answering
                    BY PacketKinds DEF Answering, Unasked
                <5> HIDE DEF motd, c
                <5>3. /\ AtMostOne(<<motd>>, Packet) /\ AtMostOne(<< >>, Packet)
                      /\ ~Adds(<<motd>>, Answering) /\ ~Adds(<< >>, Answering)
                    BY <5>2 DEF AtMostOne, Adds
                <5>4. CASE outq' = Delivered(c, <<motd>>, << >>, {})
                    <6> HIDE DEF Answering
                    <6>1. outq \in [Conn -> Seq(Packet)]
                        BY <1>t
                    <6> QED BY <5>3, <5>4, <6>1, ChosenDelivered, Zenon
                <5> QED BY <4>1, <5>1, <5>4
            <4> QED BY <2>2, <4>1, <4>2, RoomStepKinds
        <3>4. \A k \in 1..read[d] : sent'[d][k] = sent[d][k]
            <4>1. \A k \in 1..Len(sent[d]) : sent'[d][k] = sent[d][k]
                BY StepSent DEF SentGrows
            <4>2. read[d] \in Nat /\ Len(sent[d]) \in Nat /\ read[d] <= Len(sent[d])
                BY <1>t, LenProperties
            <4> QED BY <4>1, <4>2
        <3>5. CASE peer[d] = "up"
            <4>1. Running
                BY <1>2, StillUp
            <4>2. Agree(sent[d], d, got, owed, Total)
                <5> HIDE DEF got, owed
                <5>1. Agree(sent[d], d, AnswersTo(d), Answerable(d), Total)
                    BY <3>5, <4>1, AgreementIs
                    DEF AnswersInv, InOrderAnswers, CounterReads
                <5> QED BY <3>1, <3>2, <5>1
            <4> HIDE DEF got
            <4>3. Agree(sent'[d], d, got, Due(sent'[d], read[d]), Total')
                BY <1>t, <1>h, <3>4, <4>2, AgreeKept
            <4> QED BY <3>1, <3>2, <3>3, <4>3
        <3>6. CASE peer[d] = "none"
            <4>1. read[d] = 0
                BY <3>6 DEF AnswersInv, NothingRead
            <4>2. outq[d] = << >>
                <5>1. d \notin DOMAIN idOf
                    BY <3>6 DEF IDInv, ConnectionsOnce
                <5>2. \A p : ~Among(p, outq[d])
                    BY <5>1 DEF PacketInv, Truthful
                <5>3. outq[d] \in Seq(Packet)
                    BY <1>t
                <5>4. Len(outq[d]) = 0
                    <6>1. Len(outq[d]) \in Nat
                        BY <5>3, LenProperties
                    <6>2. \A j : j \notin 1..Len(outq[d])
                        BY <5>2 DEF Among
                    <6>3. Len(outq[d]) # 0 => 1 \in 1..Len(outq[d])
                        BY <6>1
                    <6> QED BY <6>2, <6>3
                <5> QED BY <5>3, <5>4
            <4>3. got = << >>
                BY <4>2, ElementsAtEmpty DEF Chosen
            <4>4. Due(sent'[d], 0) = << >>
                BY DueNone
            <4>5. AnswersTo(d)' = << >> /\ Answerable(d)' = << >>
                BY <3>1, <3>2, <3>3, <4>1, <4>3, <4>4
            <4> QED BY <4>5 DEF Agree
        <3> QED BY <1>2, <3>5, <3>6, PeerSteps
    <2> QED BY <2>1, <2>2
<1>3. InOrderAnswers' /\ CounterReads'
    <2>1. InOrderAnswers'
        BY <1>2 DEF InOrderAnswers, Agree
    <2>2. CounterReads'
        <3>1. ASSUME NEW d \in Conn, Running', peer'[d] = "up",
                     NEW k \in 1..Len(AnswersTo(d)')
              PROVE  Counted(AnswersTo(d)'[k],
                             Cardinality(Incs(sent'[d], d, Answerable(d)'[k])), Total')
            BY <1>2, <3>1 DEF Agree
        <3>2. ASSUME NEW d \in Conn, Running', peer'[d] = "up",
                     NEW k \in 1..Len(AnswersTo(d)'),
                     AnswersTo(d)'[k].op = "SMSG_COUNTER"
              PROVE  \E u \in Cardinality(Increments(d, Answerable(d)[k])')
                                ..Cardinality(AllIncrements') :
                        AnswersTo(d)'[k].value = u % CounterMod
            <4> DEFINE p == AnswersTo(d)'[k]
                       n == Answerable(d)'[k]
            <4>1. Increments(d, Answerable(d)[k])' = Incs(sent'[d], d, n)
                BY DEF Increments, Incs
            <4>2. Counted(p, Cardinality(Incs(sent'[d], d, n)), Total') /\ p.op = "SMSG_COUNTER"
                BY <3>1, <3>2
            <4> HIDE DEF p, n
            <4>3. \E u \in Cardinality(Incs(sent'[d], d, n))..Cardinality(AllIncrements') :
                    p.value = u % CounterMod
                BY <4>2 DEF Counted, Total
            <4> QED BY <4>1, <4>3 DEF p
        <3> QED BY <3>2, Zenon DEF CounterReads
    <2> QED BY <2>1, <2>2
<1> QED BY <1>h, <1>1, <1>3 DEF AnswersInv

\* Answers and counter values are right at all times.
LEMMA AnswersInvHolds == Spec => []AnswersInv
    BY AnswersInit, AnswersNext, ServerInvHolds, PacketInvHolds, PTL DEF Spec

\* A client that keeps its connection and reads gets exactly one answer to each
\* request CallHandler was called for, of the right kind, with its own text and in
\* order, for any number of clients and requests.
THEOREM AnswersInOrder == Spec => []InOrderAnswers
<1>1. AnswersInv => InOrderAnswers
    BY DEF AnswersInv
<1> QED BY <1>1, AnswersInvHolds, PTL

\* The value CallHandlerGetCounter sends counts every increment its client had
\* sent before and none that was not read, up to the wrap of m_Counter, for any
\* number of clients and requests and any range of the counter.
THEOREM CounterValuesRight == Spec => []CounterReads
<1>1. AnswersInv => CounterReads
    BY DEF AnswersInv
<1> QED BY <1>1, AnswersInvHolds, PTL

=============================================================================
