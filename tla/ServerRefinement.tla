-------------------------- MODULE ServerRefinement --------------------------
(***************************************************************************)
(* The server implements the chat service: every step of Server is, in     *)
(* terms of rooms and messages, a step of ChatService or none at all.      *)
(***************************************************************************)
EXTENDS Server, Subsequence

\* The room of the client at position i: {} or {r}.
RoomOf(i) == IF m_ClientSocket[i].chatRoomJoined
             THEN {m_ClientSocket[i].joinedChatRoomID} ELSE {}

\* The rooms of the clients in the vector; each connection is there once.
MemberRooms ==
    [c \in Registered |->
        RoomOf(CHOOSE i \in 1..Len(m_ClientSocket) : m_ClientSocket[i].ssl = c)]

\* Messages of other clients among the packets of c.
Posts == {"SMSG_BROADCAST", "SMSG_SAY", "SMSG_PRIVATE_MESSAGE"}
Inbox(c) ==
    LET posts == ElementsAt(outq[c], {k \in 1..Len(outq[c]) : outq[c][k].op \in Posts})
    IN  [k \in 1..Len(posts) |-> [op |-> posts[k].op, msg |-> posts[k].msg]]

\* What a request asks of the chat service.
AskOf(r) ==
    CASE r.op = "CMSG_BROADCAST_MESSAGE" -> "SMSG_BROADCAST"
      [] r.op = "CMSG_SAY" -> "SMSG_SAY"
      [] r.op = "CMSG_SEND_MSG_TO_CLIENT" -> "SMSG_PRIVATE_MESSAGE"
      [] r.op = "CMSG_JOIN_ROOM" -> "join"
      [] OTHER -> "other"

ChatServiceOf == INSTANCE ChatService WITH
    member  <- MemberRooms,
    reading <- {c \in Conn : peer[c] = "up"},
    asked   <- [c \in Conn |-> [k \in 1..Len(sent[c]) |-> AskOf(sent[c][k])]],
    latest  <- read,
    inbox   <- [c \in Conn |-> Inbox(c)],
    up      <- Running

\* The server implements the chat service: a broadcast, a room message or a
\* private message (CallHandlerBroadcast, CallHandlerSay, CallHandlerMsgToClient)
\* reaches, in one step, everybody it is meant for who reads, and nobody else,
\* unless the process dies while writing; no broadcast and no message to a room
\* is passed over; membership changes by joins only.
ImplementsChatService == ChatServiceOf!Service

=============================================================================
