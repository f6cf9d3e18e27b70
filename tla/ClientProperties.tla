-------------------------- MODULE ClientProperties --------------------------
(***************************************************************************)
(* What is claimed of the client process.                                  *)
(***************************************************************************)
EXTENDS ClientApp

\* The variables have their types; the reader has gone through no more records
\* than came in, and the session holds at most the rest of one packet.
ClientTypeOK ==
    /\ pc \in {"connect", "tls", "spawn", "loop", "getline", "write", "unwind",
               "freectx", "freessl", "return", "exited", "killed", "aborted",
               "crashed"}
    /\ rd \in {"none", "loop", "poll", "read", "pong", "stopped"}
    /\ Len(request) <= 1 /\ (pc = "write" => Len(request) = 1)
    /\ sampled \in 0..MaxTime /\ m_pingStart \in 0..MaxTime /\ clock \in 0..MaxTime
    /\ g_Running \in BOOLEAN
    /\ m_Sock \in {"none", "open", "closed"}
    /\ m_ctx \in {"garbage", "null", "live", "freed"}
    /\ m_ssl \in {"garbage", "null", "live", "freed"}
    /\ server \in {"up", "fin", "rst", "pipe", "gone"}
    /\ recs \in Seq(ServerPacket \cup {Ticket, Pong}) /\ part \in BOOLEAN
    /\ taken \in 0..Len(recs) /\ rest \in {0, 1}

\* What the README's list of commands says of a line: the opcode it sends.
DocumentedOp(line) ==
    LET is(w) == IsPrefix(w, line)
    IN  CASE is(<<"echo">>) -> "CMSG_ECHO_REQUEST"
          [] is(<<"broadcast">>) -> "CMSG_BROADCAST_MESSAGE"
          [] is(<<"add">>) -> "CMSG_ADDITION_REQUEST"
          [] is(<<"ping">>) -> "CMSG_PING"
          [] is(<<"uptime">>) -> "CMSG_UPTIME"
          [] is(<<"counter", "increment">>) -> "CMSG_INCREMENT_COUNTER"
          [] is(<<"counter", "get">>) -> "CMSG_GET_COUNTER"
          [] is(<<"client", "get-clients">>) -> "CMSG_GET_CLIENT_LIST"
          [] is(<<"client", "send-msg">>) -> "CMSG_SEND_MSG_TO_CLIENT"
          [] is(<<"chat", "get-rooms">>) -> "CMSG_GET_CHAT_ROOMS"
          [] is(<<"chat", "info">>) -> "CMSG_GET_ROOM_INFO"
          [] is(<<"chat", "join">>) -> "CMSG_JOIN_ROOM"
          [] is(<<"chat", "say">>) -> "CMSG_SAY"
          [] OTHER -> "none"

\* What main's usage texts ("add <a> <b> ...", "client send-msg <clientID> <msg>",
\* "chat join <room ID> <opt: password>") add: << >> if the line is not complete, or
\* only prints.
Documented(line) ==
    LET op == DocumentedOp(line)
        first(k) == Len(line) >= k
        type(k) == IF first(k) THEN NumberType[line[k]] ELSE "invalid"
        complete == CASE op = "CMSG_ADDITION_REQUEST" ->
                            /\ first(3)
                            /\ \A k \in 2..Len(line) : type(k) # "invalid"
                            /\ AdditionLength(Tail(line)) <= MaxPacket
                      [] op = "CMSG_SEND_MSG_TO_CLIENT" ->
                            /\ first(4)
                            /\ type(3) \in {"uint8", "uint16", "uint32", "uint64"}
                      [] op = "CMSG_JOIN_ROOM" -> type(3) = "uint8" /\ ~first(5)
                      [] OTHER -> op # "none"
    IN  IF complete THEN <<op>> ELSE << >>

\* How many of the first k lines typed are documented to send a request.
Ordinal(k) == Cardinality({j \in 1..k : Documented(typed[j].line) # << >>})

\* As long as the server is there the requests it gets are, in order and once,
\* those of the lines typed: neither a refused line, nor the reader's work on the
\* same session, nor an interrupt loses, repeats or reorders one.
RequestsAsTyped ==
    server = "up" /\ ~Ended =>
        /\ Len(out \o request) = Ordinal(Len(typed))
        /\ \A k \in 1..Len(typed) :
            Documented(typed[k].line) # << >> =>
                Documented(typed[k].line) = <<(out \o request)[Ordinal(k)].op>>

\* Packets are displayed in the order they came in and once; the rest of one that
\* was longer than the buffer comes before any later packet.
ShownInOrder ==
    \A i, j \in 1..Len(shown) : i < j =>
        \/ shown[i].rec < shown[j].rec
        \/ shown[i].rec = shown[j].rec /\ ~shown[i].rest /\ shown[j].rest

\* The time displayed for a pong is never more than its round trip has taken,
\* however many pings are under way and however the threads interleave.
PingNeverLate ==
    \A k \in 1..Len(shown) : "ping" \in DOMAIN shown[k] =>
        shown[k].ping <= shown[k].trip

\* After SIGINT main still waits for a line and obeys it; it obeys only one.
OneLineAfterInterrupt ==
    \A i, j \in 1..Len(typed) :
        ~typed[i].running /\ ~typed[j].running => i = j

\* The process crashes for two reasons only: ~Client frees what a set-up that failed
\* has left in m_ctx and m_ssl, and then no reader was ever started; or the reader is
\* inside SSL_read while main uses or frees the session, and then the user has typed
\* a line or main is past the close of the socket.  Neither a set-up that succeeded,
\* nor a reader that is anywhere else, nor a server that sends to an idle user does it.
CrashesExplained ==
    pc = "crashed" =>
        \/ rd = "none" /\ m_ctx # "live" /\ m_ssl # "live"
        \/ rd = "read" /\ (typed # << >> \/ m_Sock = "closed")

----------------------------------------------------------------------------
(* Liveness.                                                               *)

\* Once main leaves its loop the process ends, even when the reader sits in a
\* SSL_read that never returns: nobody waits for it.
ExitCompletes == pc = "unwind" ~> Ended

\* Every packet that has come in whole is displayed, at least its first buffer,
\* unless the user leaves, SIGINT comes or the connection breaks; the user need
\* not type anything for it.
PacketsShown ==
    \A n \in 1..MaxRecords :
        (rd # "none" /\ Len(recs) >= n /\ recs[n] # Ticket)
            ~> \/ \E k \in 1..Len(shown) : shown[k].rec = n
               \/ ~g_Running \/ PollErr \/ Ended

=============================================================================
