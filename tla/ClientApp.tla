------------------------------ MODULE ClientApp ------------------------------
(***************************************************************************)
(* The client process: main and class CLI (client/Main.cpp) over class     *)
(* Client (Client.h, Client.cpp), from the start of main to the end of the *)
(* process.  It has two threads that share the Client object and its TLS   *)
(* session without a lock:                                                 *)
(*                                                                         *)
(*    pc, the main thread                                                  *)
(*      "connect"   initClientConnection                                   *)
(*      "tls"       initTLS                                                *)
(*      "spawn"     command table filled, reader thread not yet started    *)
(*      "loop"      CLI::run, at the test of g_Running                     *)
(*      "getline"   waiting for a line                                     *)
(*      "write"     inside SSL_write of request                            *)
(*      "unwind"    return from main: ~Client, before close                *)
(*      "freectx", "freessl", "return"   the rest of ~Client, and its end  *)
(*      "exited", "killed", "aborted", "crashed"   the process has ended   *)
(*    rd, the reader thread                                                *)
(*      "none", "loop", "poll", "read", "pong", "stopped"                  *)
(*                                                                         *)
(* The server is whoever sends records: recs is what has come in, taken    *)
(* counts the records SSL_read has gone through, and a packet longer than  *)
(* the 4096-byte buffer leaves its rest inside the session.                *)
(***************************************************************************)
EXTENDS Integers, Sequences, FiniteSets, SequencesExt

CONSTANTS
    Line,        \* lines the user may type, as sequences of words
    NumberType,  \* what parse_number makes of a word; see NumParser
    ServerPacket,\* packets the server may send unasked
    MaxPacket,   \* 4096, the limit sendAdditionRequest puts on its packet
    MaxLines,    \* bound: lines typed
    MaxRecords,  \* bound: records from the server
    MaxTime,     \* bound: readings of steady_clock
    Splitting    \* may a record come in piecemeal?

ASSUME ClientAssumption ==
    /\ MaxPacket \in Nat /\ MaxLines \in Nat /\ MaxRecords \in Nat
    /\ MaxTime \in Nat /\ Splitting \in BOOLEAN
    /\ Line \subseteq Seq(DOMAIN NumberType)
    /\ \A p \in ServerPacket : p.pieces \in {1, 2} /\ p.op # "SMSG_PONG"

VARIABLES
    pc, request,   \* main thread, and the request it is writing
    rd, sampled,   \* reader thread, and the time it has read for a pong
    g_Running,     \* the flag both loops test
    m_Sock,        \* "none", "open" or "closed"
    m_ctx, m_ssl,  \* "garbage", "null", "live" or "freed"
    m_pingStart,   \* steady_clock when the last ping was sent
    clock,         \* steady_clock
    server,        \* the connection: "up", "fin" (the server has closed),
                   \* "rst" or "pipe" (a reset came in, before or after an end
                   \* of file), "gone" (and its error has been reported)
    recs, part,    \* records that have come in, and the head of one more
    taken, rest,   \* records gone through, and pieces left in the session
    out,           \* requests the server has received
    typed,         \* history: lines read, and g_Running at that moment
    pings,         \* history: when each ping was sent
    shown          \* history: packets displayed

mainVars == <<pc, request>>
readerVars == <<rd, sampled>>
clientVars == <<g_Running, m_Sock, m_ctx, m_ssl, m_pingStart>>
streamVars == <<server, recs, part, taken, rest>>
historyVars == <<out, typed, pings, shown>>
vars == <<mainVars, readerVars, clientVars, clock, streamVars, historyVars>>

Ended == pc \in {"exited", "killed", "aborted", "crashed"}

\* TLS 1.3 session tickets follow the handshake; SSL_read passes over them.
Ticket == [op |-> "ticket", pieces |-> 0]
Pong == [op |-> "SMSG_PONG", pieces |-> 1]

Init ==
    /\ pc = "connect" /\ request = << >>
    /\ rd = "none" /\ sampled = 0
    /\ g_Running = TRUE
    /\ m_Sock = "none" /\ m_ctx = "garbage" /\ m_ssl = "garbage"
    /\ m_pingStart = 0 /\ clock = 0
    /\ server = "up" /\ recs = << >> /\ part = FALSE
    /\ taken = 0 /\ rest = 0
    /\ out = << >> /\ typed = << >> /\ pings = << >> /\ shown = << >>

----------------------------------------------------------------------------
(* initClientConnection and initTLS.  main returns when either fails, and  *)
(* ~Client then finds the members as they were left.                       *)

initClientConnection ==
    /\ pc = "connect"
    /\ \/ pc' = "tls" /\ m_Sock' = "open"
       \* connect() fails, or socket() did: m_Sock is unsigned, so < 0 never holds
       \/ pc' = "unwind" /\ m_Sock' \in {"none", "open"}
    /\ UNCHANGED <<request, readerVars, g_Running, m_ctx, m_ssl, m_pingStart,
                   clock, streamVars, historyVars>>

initTLS ==
    /\ pc = "tls"
    /\ \/ /\ pc' = "spawn" /\ m_ctx' = "live" /\ m_ssl' = "live"
          /\ recs' = <<Ticket>>
          /\ UNCHANGED m_Sock
       \* SSL_CTX_new fails, or setting it up does and the context is freed
       \/ /\ pc' = "unwind" /\ m_ctx' \in {"null", "freed"}
          /\ UNCHANGED <<m_Sock, m_ssl, recs>>
       \* create_tls_connection fails
       \/ /\ pc' = "unwind" /\ m_ctx' = "freed" /\ m_ssl' = "null"
          /\ m_Sock' = "closed"
          /\ UNCHANGED recs
    /\ UNCHANGED <<request, readerVars, g_Running, m_pingStart, clock,
                   server, part, taken, rest, historyVars>>

\* std::thread t(...); t.detach().
StartReader ==
    /\ pc = "spawn"
    /\ pc' = "loop" /\ rd' = "loop"
    /\ UNCHANGED <<request, sampled, clientVars, clock, streamVars, historyVars>>

----------------------------------------------------------------------------
(* The command table.                                                      *)

Commands ==
    {<<"echo">>, <<"add">>, <<"broadcast">>, <<"ping">>, <<"uptime">>,
     <<"counter">>, <<"counter", "increment">>, <<"counter", "get">>,
     <<"client">>, <<"client", "get-clients">>, <<"client", "set-username">>,
     <<"client", "send-msg">>, <<"chat">>, <<"chat", "get-rooms">>,
     <<"chat", "info">>, <<"chat", "join">>, <<"chat", "say">>, <<"help">>}

\* Lengths of the prefixes of a line that are commands.
Matches(line) == {n \in 1..Len(line) : SubSeq(line, 1, n) \in Commands}

\* Mutated form: the search stops at the first command found.
ShortestMatch(line) == CHOOSE n \in Matches(line) : \A m \in Matches(line) : n <= m

LongestMatch(line) == CHOOSE n \in Matches(line) : \A m \in Matches(line) : m <= n

is_unsigned_integer(w) ==
    NumberType[w] \in {"uint8", "uint16", "uint32", "uint64"}

SizeOf == [invalid |-> 0, int8 |-> 1, uint8 |-> 1, int16 |-> 2, uint16 |-> 2,
           int32 |-> 4, uint32 |-> 4, int64 |-> 8, uint64 |-> 8,
           float |-> 4, double |-> 8]

\* Client::sendAdditionRequest: [opcode][type1][number1 bytes][type2]...
AdditionLength(args) ==
    FoldSeq(LAMBDA w, n : n + 1 + SizeOf[NumberType[w]], 2, args)

\* Client::sendAdditionRequest after the command's own checks.
AddAccepts(args) ==
    /\ Len(args) >= 2
    /\ \A i \in 1..Len(args) : NumberType[args[i]] # "invalid"
    /\ AdditionLength(args) <= MaxPacket

\* The commands that print and send nothing.
Prints == {<<"counter">>, <<"client">>, <<"client", "set-username">>,
           <<"chat">>, <<"help">>}

Sends(op, args) == <<[op |-> op, args |-> args]>>

\* What the handler of a command does with its arguments: at most one request.
\* A handler that throws is caught by CLI::run.
Handler(command, args) ==
    CASE command \in Prints -> << >>
      [] command = <<"echo">> -> Sends("CMSG_ECHO_REQUEST", args)
      [] command = <<"broadcast">> -> Sends("CMSG_BROADCAST_MESSAGE", args)
      [] command = <<"add">> ->
            IF AddAccepts(args) THEN Sends("CMSG_ADDITION_REQUEST", args)
            ELSE << >>
      [] command = <<"ping">> -> Sends("CMSG_PING", << >>)
      [] command = <<"uptime">> -> Sends("CMSG_UPTIME", << >>)
      [] command = <<"counter", "increment">> ->
            Sends("CMSG_INCREMENT_COUNTER", << >>)
      [] command = <<"counter", "get">> -> Sends("CMSG_GET_COUNTER", << >>)
      [] command = <<"client", "get-clients">> ->
            Sends("CMSG_GET_CLIENT_LIST", << >>)
      [] command = <<"client", "send-msg">> ->
            IF Len(args) >= 2 /\ is_unsigned_integer(args[1])
            THEN Sends("CMSG_SEND_MSG_TO_CLIENT", args) ELSE << >>
      [] command = <<"chat", "get-rooms">> -> Sends("CMSG_GET_CHAT_ROOMS", << >>)
      [] command = <<"chat", "info">> -> Sends("CMSG_GET_ROOM_INFO", << >>)
      [] command = <<"chat", "join">> ->
            IF Len(args) \in {1, 2} /\ NumberType[args[1]] = "uint8"
            THEN Sends("CMSG_JOIN_ROOM", args) ELSE << >>
      [] command = <<"chat", "say">> -> Sends("CMSG_SAY", args)

----------------------------------------------------------------------------
(* CLI::run.                                                               *)

\* Mutated form: while (true).
LoopTestAlways ==
    /\ pc = "loop"
    /\ pc' = "getline"
    /\ UNCHANGED <<request, readerVars, clientVars, clock, streamVars, historyVars>>

LoopTest ==
    /\ pc = "loop"
    /\ pc' = IF g_Running THEN "getline" ELSE "unwind"
    /\ UNCHANGED <<request, readerVars, clientVars, clock, streamVars, historyVars>>

\* Mutated form: a ping under way keeps its start.
PingStartFirst == IF Len(pings) = 0 THEN clock ELSE m_pingStart

\* Client::sendPing stores the time before it sends.
PingStart == clock

\* The user enters a line: exit and quit leave the loop, after which main clears
\* g_Running; an empty line and an unknown command do nothing; any other line
\* runs its command.
ReadLine(line) ==
    /\ pc = "getline"
    /\ Len(typed) < MaxLines
    /\ typed' = Append(typed, [line |-> line, running |-> g_Running])
    /\ LET n == LongestMatch(line)
           sends == IF Matches(line) = {} THEN << >>
                    ELSE Handler(SubSeq(line, 1, n),
                                 SubSeq(line, n + 1, Len(line)))
           leaves == line # << >> /\ line[1] \in {"exit", "quit"}
           ping == ~leaves /\ sends # << >> /\ sends[1].op = "CMSG_PING"
       IN  /\ pc' = IF leaves THEN "unwind"
                    ELSE IF sends = << >> THEN "loop" ELSE "write"
           /\ request' = IF leaves THEN << >> ELSE sends
           /\ m_pingStart' = IF ping THEN PingStart ELSE m_pingStart
           /\ pings' = IF ping THEN Append(pings, clock) ELSE pings
           /\ g_Running' = (g_Running /\ ~leaves)
    /\ UNCHANGED <<readerVars, m_Sock, m_ctx, m_ssl, clock,
                   streamVars, out, shown>>

EndOfInput ==
    /\ pc = "getline"
    /\ pc' = "unwind" /\ g_Running' = FALSE
    /\ UNCHANGED <<request, readerVars, m_Sock, m_ctx, m_ssl, m_pingStart, clock,
                   streamVars, historyVars>>

\* Client::sendSSLPacketToServer.  What SSL_write returns is only logged.  A
\* write to a server that has closed is answered by a reset; the write that finds
\* the connection gone ends the process by SIGPIPE.  OpenSSL allows one thread at
\* a time in a session: with the reader inside SSL_read too, the process may
\* crash.
sendSSLPacketToServer ==
    /\ pc = "write"
    /\ \/ /\ server = "up"
          /\ out' = Append(out, request[1]) /\ pc' = "loop"
          /\ UNCHANGED server
       \/ /\ server \in {"fin", "rst"}
          /\ server' = IF server = "fin" THEN "pipe" ELSE "gone"
          /\ pc' = "loop"
          /\ UNCHANGED out
       \/ /\ server \in {"pipe", "gone"} /\ pc' = "killed"
          /\ UNCHANGED <<out, server>>
       \/ /\ rd = "read" /\ pc' = "crashed"
          /\ UNCHANGED <<out, server>>
    /\ request' = << >>
    /\ UNCHANGED <<readerVars, clientVars, clock, recs, part, taken, rest,
                   typed, pings, shown>>

----------------------------------------------------------------------------
(* The end of main and ~Client.  The reader is not waited for.             *)

\* Mutated form: the reader is joined, not detached.
CloseSocketJoined ==
    /\ pc = "unwind"
    /\ rd \in {"none", "stopped"}
    /\ m_Sock' = "closed" /\ pc' = "freectx"
    /\ UNCHANGED <<request, readerVars, g_Running, m_ctx, m_ssl, m_pingStart, clock,
                   streamVars, historyVars>>

\* Mutated form: the socket is left open until the session is gone.
CloseSocketLate ==
    /\ pc = "unwind" /\ pc' = "freectx"
    /\ UNCHANGED <<request, readerVars, clientVars, clock, streamVars, historyVars>>

\* shutdown and close, which fail harmlessly on a socket closed before.
CloseSocket ==
    /\ pc = "unwind"
    /\ m_Sock' = "closed" /\ pc' = "freectx"
    /\ UNCHANGED <<request, readerVars, g_Running, m_ctx, m_ssl, m_pingStart, clock,
                   streamVars, historyVars>>

\* Freeing what is freed, or a pointer never set, is undefined: the process
\* crashes or gets away with it.
FreeCtx ==
    /\ pc = "freectx"
    /\ \/ pc' = "freessl"
       \/ m_ctx \in {"garbage", "freed"} /\ pc' = "crashed"
    /\ m_ctx' = IF m_ctx = "live" THEN "freed" ELSE m_ctx
    /\ UNCHANGED <<request, readerVars, g_Running, m_Sock, m_ssl, m_pingStart,
                   clock, streamVars, historyVars>>

FreeSSL ==
    /\ pc = "freessl"
    /\ \/ pc' = "return"
       \/ m_ssl = "garbage" /\ pc' = "crashed"
       \/ rd = "read" /\ pc' = "crashed"
    /\ m_ssl' = IF m_ssl = "live" THEN "freed" ELSE m_ssl
    /\ UNCHANGED <<request, readerVars, g_Running, m_Sock, m_ctx, m_pingStart,
                   clock, streamVars, historyVars>>

Return ==
    /\ pc = "return"
    /\ pc' = "exited"
    /\ UNCHANGED <<request, readerVars, clientVars, clock, streamVars, historyVars>>

MainStep ==
    \/ initClientConnection \/ initTLS \/ StartReader \/ LoopTest
    \/ sendSSLPacketToServer \/ CloseSocket \/ FreeCtx \/ FreeSSL \/ Return

----------------------------------------------------------------------------
(* The reader thread: processReplyFromServerIfAny, again and again.        *)

ReaderTest ==
    /\ ~Ended /\ rd = "loop"
    /\ rd' = IF g_Running THEN "poll" ELSE "stopped"
    /\ UNCHANGED <<mainVars, sampled, clientVars, clock, streamVars, historyVars>>

Untaken == taken < Len(recs)

\* Mutated form: only POLLHUP is looked for.
PollInHupOnly == server \in {"fin", "gone"}

\* Bytes, or an end of file, wait in the socket.  What the session holds is not
\* seen by poll.
PollIn == Untaken \/ part \/ server \in {"fin", "gone"}

PollErr == server \in {"rst", "pipe"}

\* poll: a closed descriptor is reported and passed over, a socket error ends
\* the process, nothing to read and EINTR return.
Poll ==
    /\ ~Ended /\ rd = "poll"
    /\ \/ m_Sock = "closed" /\ rd' = "loop" /\ UNCHANGED pc
       \/ m_Sock = "open" /\ PollErr /\ pc' = "exited" /\ UNCHANGED rd
       \/ /\ m_Sock = "open" /\ ~PollErr
          /\ rd' = IF PollIn THEN "read" ELSE "loop"
          /\ UNCHANGED pc
    /\ UNCHANGED <<request, sampled, clientVars, clock, streamVars, historyVars>>

\* SSL_read returns the rest of a packet longer than the buffer.  It begins with
\* no opcode, so what is displayed is arbitrary, and a handler may throw, which
\* ends the process.
ReadRest ==
    /\ ~Ended /\ rd = "read" /\ m_ssl = "live"
    /\ rest > 0
    /\ rest' = rest - 1
    /\ \/ /\ shown' = Append(shown, [rec |-> taken, rest |-> TRUE])
          /\ rd' = "loop" /\ UNCHANGED pc
       \/ pc' = "aborted" /\ UNCHANGED <<rd, shown>>
    /\ UNCHANGED <<request, sampled, clientVars, clock, server, recs, part,
                   taken, out, typed, pings>>

\* SSL_read goes through a ticket and waits on: the socket is blocking.
ReadTicket ==
    /\ ~Ended /\ rd = "read" /\ m_ssl = "live"
    /\ rest = 0 /\ Untaken /\ recs[taken + 1] = Ticket
    /\ taken' = taken + 1
    /\ UNCHANGED <<mainVars, readerVars, clientVars, clock, server, recs, part,
                   rest, historyVars>>

\* Mutated form: SSL_peek, which leaves the record where it is.
TakenByPeek == taken

TakenByRead == taken + 1

\* Mutated form: the piece just returned is still counted.
RestKept == recs[taken + 1].pieces

RestAfterRead == recs[taken + 1].pieces - 1

\* SSL_read returns a packet and it is displayed; for a pong steady_clock is read
\* first.
ReadPacket ==
    /\ ~Ended /\ rd = "read" /\ m_ssl = "live"
    /\ rest = 0 /\ Untaken /\ recs[taken + 1] # Ticket
    /\ taken' = TakenByRead
    /\ rest' = RestAfterRead
    /\ IF recs[taken + 1] = Pong
       THEN rd' = "pong" /\ sampled' = clock /\ UNCHANGED shown
       ELSE /\ rd' = "loop" /\ UNCHANGED sampled
            /\ shown' = Append(shown, [rec |-> taken + 1, rest |-> FALSE])
    /\ UNCHANGED <<mainVars, clientVars, clock, server, recs, part, out, typed,
                   pings>>

\* Which ping the pong with number n among the records answers.
Answered(n) == Cardinality({k \in 1..n : recs[k] = Pong})

\* now - m_pingStart, displayed; and, for comparison, what it should be.
ShowPing ==
    /\ ~Ended /\ rd = "pong"
    /\ shown' = Append(shown, [rec |-> taken, rest |-> FALSE,
                               ping |-> sampled - m_pingStart,
                               trip |-> sampled - pings[Answered(taken)]])
    /\ rd' = "loop"
    /\ UNCHANGED <<mainVars, sampled, clientVars, clock, streamVars, out, typed,
                   pings>>

\* SSL_read fails: the server has closed.  The message is printed, the loop goes
\* on and will come here again.
ReadFails ==
    /\ ~Ended /\ rd = "read" /\ m_ssl = "live"
    /\ rest = 0 /\ ~Untaken /\ server # "up"
    /\ rd' = "loop"
    /\ server' = IF PollErr THEN "gone" ELSE server
    /\ UNCHANGED <<mainVars, sampled, clientVars, clock, recs, part, taken, rest,
                   historyVars>>

\* SSL_read on the session ~Client has freed: undefined.
ReadFreed ==
    /\ ~Ended /\ rd = "read" /\ m_ssl = "freed"
    /\ \/ pc' = "crashed" /\ UNCHANGED rd
       \/ rd' = "loop" /\ UNCHANGED pc
    /\ UNCHANGED <<request, sampled, clientVars, clock, streamVars, historyVars>>

ReaderStep ==
    \/ ReaderTest \/ Poll \/ ReadRest \/ ReadTicket \/ ReadPacket \/ ShowPing
    \/ ReadFails \/ ReadFreed

----------------------------------------------------------------------------
(* The user, the server, the network and signals.                          *)

\* The connection carries data.  Closing the descriptor does not end it while
\* the reader is in SSL_read.
Session == m_ssl \in {"live", "freed"} /\ server = "up"

\* A packet comes in: one the server sends unasked, or the answer to a ping.
ServerSends ==
    /\ Session /\ Len(recs) < MaxRecords
    /\ \/ \E p \in ServerPacket : recs' = Append(recs, p)
       \/ /\ Answered(Len(recs))
                < Cardinality({k \in 1..Len(out) : out[k].op = "CMSG_PING"})
          /\ recs' = Append(recs, Pong)
    /\ part' = FALSE
    /\ UNCHANGED <<server, taken, rest>>

RecordHead ==
    /\ Session /\ Splitting /\ ~part /\ Len(recs) < MaxRecords
    /\ part' = TRUE
    /\ UNCHANGED <<server, recs, taken, rest>>

\* The server closes the connection, or with requests unread resets it.
ServerCloses ==
    /\ Session
    /\ server' \in {"fin", "rst"}
    /\ UNCHANGED <<recs, part, taken, rest>>

\* SIGINT: the handler clears the flag; getline is restarted.
handleSignal ==
    /\ g_Running /\ g_Running' = FALSE
    /\ UNCHANGED <<m_Sock, m_ctx, m_ssl, m_pingStart>>

Tick == clock < MaxTime /\ clock' = clock + 1

Environment ==
    /\ ~Ended
    /\ UNCHANGED <<mainVars, readerVars, historyVars>>
    /\ \/ /\ ServerSends \/ RecordHead \/ ServerCloses
          /\ UNCHANGED <<clientVars, clock>>
       \/ handleSignal /\ UNCHANGED <<streamVars, clock>>
       \/ Tick /\ UNCHANGED <<clientVars, streamVars>>

Next ==
    \/ MainStep \/ ReaderStep \/ Environment
    \/ EndOfInput \/ \E line \in Line : ReadLine(line)

\* Both threads run when they are not blocked.  Nothing is assumed of the user,
\* the server, the network or signals.
Spec == Init /\ [][Next]_vars /\ WF_vars(MainStep) /\ WF_vars(ReaderStep)

=============================================================================
