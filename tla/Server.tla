------------------------------- MODULE Server -------------------------------
(***************************************************************************)
(* The server process: the loop of main (server/Main.cpp) over             *)
(* PoolActivity, HandleNewConnections and ProcessRequests of class Server  *)
(* (Server.cpp), from the end of a successful start-up to the end of the   *)
(* process.  The process is one thread; clients, the network and signals   *)
(* act between any two of its steps:                                       *)
(*                                                                         *)
(*    pc = "pool"       before select                                      *)
(*         "accept"     HandleNewConnections, before or inside accept      *)
(*         "handshake"  inside ClientSocket::InitSSL for the new client    *)
(*         "process"    ProcessRequests, at position it of the vector      *)
(*         "main"       after it, before closingRequested is looked at     *)
(*         "closing"    sockets closed, state CLOSING                      *)
(*         "exit", "killed", "aborted", "crashed"   the process has ended: *)
(*                      by return from main, SIGPIPE, an uncaught          *)
(*                      exception, use of freed memory                     *)
(***************************************************************************)
EXTENDS Handlers

CONSTANT MaySignal  \* may SIGINT or SIGTERM be delivered?

ASSUME ServerAssumption == MaySignal \in BOOLEAN

VARIABLES
    m_Readfds,              \* descriptors set in Server::m_Readfds
    sock,                   \* open descriptors, and the connection of each
    newClient,              \* HandleNewConnections' local client, if any
    m_UniqueCLientCounter,  \* next client ID (64 bits; never full)
    idOf,                   \* history: the ID each connection was given
    closingRequested,       \* set by the SIGINT and SIGTERM handlers
    m_ServerState           \* Server::m_ServerState

loopVars == <<m_Readfds, sock, newClient, m_UniqueCLientCounter, idOf,
              closingRequested, m_ServerState>>

vars == <<netVars, handlerVars, loopVars>>

m_MasterSocket == 0

Running == pc \notin {"exit", "killed", "aborted", "crashed"}

\* Connections the server has accepted and not closed.
Registered == {m_ClientSocket[i].ssl : i \in 1..Len(m_ClientSocket)}
Handshaking == {newClient[i].ssl : i \in 1..Len(newClient)}

----------------------------------------------------------------------------
(* Start-up has succeeded; the SELECT of loadRooms may have ended early.   *)

LoadedRooms ==
    {LoadRooms(SubSeq(ChatRoomsTable, 1, n)) : n \in 0..Len(ChatRoomsTable)}

Init ==
    /\ NetInit
    /\ pc = "pool" /\ it = 1
    /\ m_ClientSocket = << >>
    /\ m_ChatRooms \in LoadedRooms
    /\ m_Counter = 0
    /\ m_Readfds = {}
    /\ sock = << >>
    /\ newClient = << >>
    /\ m_UniqueCLientCounter = 0
    /\ idOf = << >>
    /\ closingRequested = FALSE
    /\ m_ServerState = "STARTED"

----------------------------------------------------------------------------
(* PoolActivity.                                                           *)

\* Mutated forms of Watched: the master socket is forgotten; the test on the
\* client's descriptor is off by one.
WatchedNoMaster == {m_ClientSocket[i].socket : i \in 1..Len(m_ClientSocket)}
WatchedOffByOne == {m_MasterSocket} \cup
    {fd \in {m_ClientSocket[i].socket : i \in 1..Len(m_ClientSocket)} : fd > 1}

\* The set given to select, built after FD_ZERO.
Watched == {m_MasterSocket} \cup
           {m_ClientSocket[i].socket : i \in 1..Len(m_ClientSocket)}

\* Those of a set of open descriptors that select leaves in it.
Selected(fds) ==
    {fd \in fds : IF fd = m_MasterSocket THEN backlog # << >>
                  ELSE Readable(sock[fd])}

\* Mutated form of Ready: no FD_ZERO, so bits of closed descriptors stay, and
\* select fails with EBADF and leaves the set alone.
ReadyNoZero == IF m_Readfds \subseteq Watched THEN Selected(Watched)
               ELSE Watched \cup m_Readfds

Ready == Selected(Watched)

PoolActivity ==
    /\ pc = "pool"
    /\ m_Readfds' = Ready
    /\ pc' = "accept"
    /\ UNCHANGED <<netVars, it, m_ClientSocket, m_ChatRooms, m_Counter, sock,
                   newClient, m_UniqueCLientCounter, idOf, closingRequested,
                   m_ServerState>>

\* A signal is delivered during select and nothing is ready: EINTR, which the
\* code passes over, and the set is left as it was given.
PoolInterrupted ==
    /\ pc = "pool"
    /\ MaySignal
    /\ Ready = {}
    /\ m_Readfds' = Watched
    /\ closingRequested' = TRUE
    /\ pc' = "accept"
    /\ UNCHANGED <<netVars, it, m_ClientSocket, m_ChatRooms, m_Counter, sock,
                   newClient, m_UniqueCLientCounter, idOf, m_ServerState>>

----------------------------------------------------------------------------
(* HandleNewConnections.                                                   *)

\* Leave HandleNewConnections and enter ProcessRequests.
BeginProcess == pc' = "process" /\ it' = 1

NothingToAccept ==
    /\ pc = "accept"
    /\ m_MasterSocket \notin m_Readfds
    /\ BeginProcess
    /\ UNCHANGED <<netVars, m_ClientSocket, m_ChatRooms, m_Counter, loopVars>>

\* accept fails for want of a descriptor; the connection stays queued.
AcceptFails ==
    /\ pc = "accept"
    /\ m_MasterSocket \in m_Readfds
    /\ Fd \subseteq DOMAIN sock
    /\ BeginProcess
    /\ UNCHANGED <<netVars, m_ClientSocket, m_ChatRooms, m_Counter, loopVars>>

\* Mutated form: the client's index in the vector is its ID.
NextClientIDIndex == Len(m_ClientSocket)

NextClientID == m_UniqueCLientCounter

\* accept returns the lowest free descriptor.  The listening socket is blocking:
\* with nothing queued the process stays here.
Accept ==
    /\ pc = "accept"
    /\ m_MasterSocket \in m_Readfds
    /\ backlog # << >>
    /\ \E fd \in Fd \ DOMAIN sock :
        /\ \A g \in Fd \ DOMAIN sock : fd <= g
        /\ sock' = [g \in DOMAIN sock \cup {fd} |->
                        IF g = fd THEN Head(backlog) ELSE sock[g]]
        /\ newClient' = <<[socket |-> fd, ssl |-> Head(backlog),
                           sslEnabled |-> FALSE, chatRoomJoined |-> FALSE,
                           joinedChatRoomID |-> 0, clientID |-> NextClientID]>>
    /\ idOf' = [c \in DOMAIN idOf \cup {Head(backlog)} |->
                    IF c = Head(backlog) THEN NextClientID ELSE idOf[c]]
    /\ m_UniqueCLientCounter' = m_UniqueCLientCounter + 1
    /\ backlog' = Tail(backlog)
    /\ pc' = "handshake"
    /\ UNCHANGED <<peer, partial, sent, read, outq, it, m_ClientSocket,
                   m_ChatRooms, m_Counter, m_Readfds, closingRequested,
                   m_ServerState>>

\* ClientSocket::InitSSL returns false (error or 10 s deadline): it has freed
\* the session, and the descriptor is closed.
InitSSLFails ==
    /\ pc = "handshake"
    /\ sock' = [fd \in DOMAIN sock \ {newClient[1].socket} |-> sock[fd]]
    /\ newClient' = << >>
    /\ BeginProcess
    /\ UNCHANGED <<netVars, m_ClientSocket, m_ChatRooms, m_Counter, m_Readfds,
                   m_UniqueCLientCounter, idOf, closingRequested,
                   m_ServerState>>

\* The handshake has already written to the connection, so a reset may be there
\* when SendMOTD writes.
SendMOTD(c) ==
    \/ /\ outq' = Delivered(c, <<[op |-> "SMSG_MOTD"]>>, << >>, {})
       /\ peer' \in PeerAfterWrites({c})
       /\ BeginProcess
    \/ /\ peer[c] = "fin"
       /\ Killed
       /\ UNCHANGED <<outq, peer>>

\* InitSSL returns true: push_back and SendMOTD.
InitSSLSucceeds ==
    /\ pc = "handshake"
    /\ m_ClientSocket' = Append(m_ClientSocket,
                                [newClient[1] EXCEPT !.sslEnabled = TRUE])
    /\ newClient' = << >>
    /\ SendMOTD(newClient[1].ssl)
    /\ UNCHANGED <<backlog, partial, sent, read, m_ChatRooms, m_Counter,
                   m_Readfds, sock, m_UniqueCLientCounter, idOf,
                   closingRequested, m_ServerState>>

----------------------------------------------------------------------------
(* ProcessRequests: one step per position of the iterator.                 *)

AtClient == pc = "process" /\ it <= Len(m_ClientSocket)

NotReadable ==
    /\ AtClient
    /\ m_ClientSocket[it].socket \notin m_Readfds
    /\ it' = it + 1
    /\ UNCHANGED <<netVars, pc, m_ClientSocket, m_ChatRooms, m_Counter,
                   loopVars>>

\* SSL_read returns a record and its handler runs.
HandleRequest ==
    /\ AtClient
    /\ m_ClientSocket[it].socket \in m_Readfds
    /\ LET c == m_ClientSocket[it].ssl
           n == read[c] + 1
       IN  /\ Waiting(c)
           /\ read' = [read EXCEPT ![c] = n]
           /\ \/ CallHandler(it, sent[c][n], <<c, n>>)
              \/ sent[c][n].op = "runt" /\ InvalidPacket(it)
    /\ UNCHANGED <<backlog, partial, sent, loopVars>>

\* Mutated form: operator= does not reset the socket of what it moves from.
ClosedByEraseNoReset(i) ==
    {m_ClientSocket[j].socket : j \in i..Len(m_ClientSocket)}

\* Descriptors closed by it->close() and the erase that follows: erase moves
\* the later elements down one place, and the assignment closes the descriptor
\* of an element unless that element has itself been moved from.
ClosedByErase(i) == {m_ClientSocket[i].socket}

Erased(i) == SubSeq(m_ClientSocket, 1, i - 1)
             \o SubSeq(m_ClientSocket, i + 1, Len(m_ClientSocket))

\* Mutated form: the loop's ++it after an erase too.
IteratorAfterEraseNext == it + 1

\* erase returns the iterator of the element that took the place.
IteratorAfterErase == it

\* SSL_read returns no record: end of file, an error, or WANT_READ.  The code
\* takes all for a disconnect.  The erased element keeps its session when it is
\* the last one, and its destructor then uses the session it has just freed.
Disconnect ==
    /\ AtClient
    /\ m_ClientSocket[it].socket \in m_Readfds
    /\ ~Waiting(m_ClientSocket[it].ssl)
    /\ sock' = [fd \in DOMAIN sock \ ClosedByErase(it) |-> sock[fd]]
    /\ m_ClientSocket' = Erased(it)
    /\ it' = IteratorAfterErase
    /\ \/ pc' = pc
       \/ it = Len(m_ClientSocket) /\ pc' = "crashed"
    /\ UNCHANGED <<netVars, m_ChatRooms, m_Counter, m_Readfds, newClient,
                   m_UniqueCLientCounter, idOf, closingRequested,
                   m_ServerState>>

EndProcess ==
    /\ pc = "process"
    /\ it > Len(m_ClientSocket)
    /\ pc' = "main"
    /\ UNCHANGED <<netVars, it, m_ClientSocket, m_ChatRooms, m_Counter,
                   loopVars>>

----------------------------------------------------------------------------
(* The rest of main's loop, and the end of the process.                    *)

\* Mutated form: closingRequested is not looked at on every path.
NextIterationAlways ==
    /\ pc = "main"
    /\ pc' = "pool"
    /\ UNCHANGED <<netVars, it, m_ClientSocket, m_ChatRooms, m_Counter,
                   loopVars>>

NextIteration ==
    /\ pc = "main"
    /\ ~closingRequested
    /\ pc' = "pool"
    /\ UNCHANGED <<netVars, it, m_ClientSocket, m_ChatRooms, m_Counter,
                   loopVars>>

\* Server::ClosingRequested: every client's socket is closed.
ClosingRequested ==
    /\ pc = "main"
    /\ closingRequested
    /\ m_ServerState' = "CLOSING"
    /\ sock' = << >>
    /\ pc' = "closing"
    /\ UNCHANGED <<netVars, it, m_ClientSocket, m_ChatRooms, m_Counter,
                   m_Readfds, newClient, m_UniqueCLientCounter, idOf,
                   closingRequested>>

\* CloseServer, the end of the loop and of main, and ~Server: the destructor of
\* each remaining client uses the session it has just freed.
CloseServer ==
    /\ pc = "closing"
    /\ m_ServerState' = "CLOSED"
    /\ \/ pc' = "exit"
       \/ m_ClientSocket # << >> /\ pc' = "crashed"
    /\ UNCHANGED <<netVars, it, m_ClientSocket, m_ChatRooms, m_Counter,
                   m_Readfds, sock, newClient, m_UniqueCLientCounter, idOf,
                   closingRequested>>

----------------------------------------------------------------------------
(* Clients, the network and signals.                                       *)

\* The SIGINT and SIGTERM handlers, outside select.
Signal ==
    /\ MaySignal
    /\ ~closingRequested
    /\ closingRequested' = TRUE
    /\ UNCHANGED <<netVars, handlerVars, m_Readfds, sock, newClient,
                   m_UniqueCLientCounter, idOf, m_ServerState>>

\* A client sends only once its SSL_connect has the server's answer.
Environment ==
    /\ Running
    /\ \/ /\ \E c \in Conn :
                \/ Connect(c)
                \/ c \in Registered \cup Handshaking
                   /\ (SendHead(c) \/ \E r \in Request : Send(c, r))
                \/ c \in Registered /\ Stall(c)
                \/ c \in Registered \cup Handshaking \cup Queued /\ Close(c)
          /\ UNCHANGED <<handlerVars, loopVars>>
       \/ Signal

ServerStep ==
    \/ PoolActivity \/ PoolInterrupted
    \/ NothingToAccept \/ AcceptFails \/ Accept
    \/ InitSSLFails \/ InitSSLSucceeds
    \/ NotReadable \/ HandleRequest \/ Disconnect \/ EndProcess
    \/ NextIteration \/ ClosingRequested \/ CloseServer

Next == ServerStep \/ Environment

\* The process runs whenever it is not blocked; the handshake ends by its
\* deadline.  Nothing is assumed of clients, the network or signals.
Fairness == WF_vars(ServerStep)

Spec == Init /\ [][Next]_vars /\ Fairness

=============================================================================
