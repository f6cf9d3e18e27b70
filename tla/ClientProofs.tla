---------------------------- MODULE ClientProofs ----------------------------
(***************************************************************************)
(* What the client process does, whatever the user types, the server sends *)
(* and the two threads get to: types, one line after an interrupt, packets *)
(* in order, and round trips never shown too long.                         *)
(***************************************************************************)
EXTENDS ClientProperties, SequenceTheorems, FiniteSetTheorems,
        WellFoundedInduction, TLAPS

Word == DOMAIN NumberType
Opcode == {"CMSG_ECHO_REQUEST", "CMSG_ADDITION_REQUEST", "CMSG_BROADCAST_MESSAGE",
           "CMSG_GET_CLIENT_LIST", "CMSG_SEND_MSG_TO_CLIENT", "CMSG_PING",
           "CMSG_UPTIME", "CMSG_INCREMENT_COUNTER", "CMSG_GET_COUNTER",
           "CMSG_GET_CHAT_ROOMS", "CMSG_GET_ROOM_INFO", "CMSG_JOIN_ROOM", "CMSG_SAY"}
ClientRequest == [op : Opcode, args : Seq(Word)]
ServerRecord == ServerPacket \cup {Ticket, Pong}

\* What may be displayed, and what for a pong.
Display == [rec : Nat, rest : BOOLEAN]
           \cup [rec : Nat, rest : BOOLEAN, ping : Int, trip : Int]

\* The types of the requests and of the histories; a handler has at most one
\* request written; no record comes before the session is there.
HistoryTypeOK ==
    /\ request \in Seq(ClientRequest) /\ out \in Seq(ClientRequest)
    /\ typed \in Seq([line : Line, running : BOOLEAN])
    /\ pings \in Seq(0..MaxTime)
    /\ shown \in Seq(Display)
    /\ pc \in {"connect", "tls"} => recs = << >> /\ m_ssl = "garbage"

\* Once a line was read after an interrupt, no other will be.
NoFurtherLine ==
    \A i \in 1..Len(typed) :
        ~typed[i].running => ~g_Running /\ pc # "getline"

\* How far the display is: behind the records taken, by a pong whose time is not
\* shown yet or by the rest of a packet.
ShownSoFar ==
    \A i \in 1..Len(shown) :
        /\ shown[i].rec <= taken
        /\ rd = "pong" => shown[i].rec < taken
        /\ rest > 0 /\ shown[i].rec = taken => ~shown[i].rest

\* The pings among the requests the server has got.
PingsGot == {k \in 1..Len(out) : out[k].op = "CMSG_PING"}

\* A ping is counted and its time noted before it is sent, sent before the server
\* answers it, and answered before the pong is read; the time noted last is the
\* latest.
PingsInStep ==
    /\ \A k \in 1..Len(pings) : pings[k] <= m_pingStart
    /\ m_pingStart <= clock
    /\ Answered(Len(recs)) <= Cardinality(PingsGot)
    /\ Cardinality(PingsGot) <= Len(pings)
    /\ pc = "write" /\ request[1].op = "CMSG_PING" =>
            Cardinality(PingsGot) < Len(pings)
    /\ rd = "pong" => taken > 0 /\ recs[taken] = Pong

ClientInv ==
    /\ ClientTypeOK /\ HistoryTypeOK
    /\ NoFurtherLine /\ OneLineAfterInterrupt
    /\ ShownSoFar /\ ShownInOrder
    /\ PingsInStep /\ PingNeverLate

----------------------------------------------------------------------------
(* What a line makes the main thread write.                                *)

\* At most one request.
Single(sends) == sends = << >> \/ \E r \in ClientRequest : sends = <<r>>

LEMMA SendsSingle ==
    ASSUME NEW op \in Opcode, NEW args \in Seq(Word)
    PROVE  Single(Sends(op, args))
<1>1. [op |-> op, args |-> args] \in ClientRequest
    BY DEF ClientRequest
<1> QED BY <1>1 DEF Sends, Single

\* Every command of the table has a handler, and the handler sends one request or
\* none.
LEMMA HandlerSingle ==
    ASSUME NEW command \in Commands, NEW args \in Seq(Word)
    PROVE  Single(Handler(command, args))
<1>n. Single(<< >>) /\ << >> \in Seq(Word)
    BY DEF Single
<1>0. CASE command \in Prints
    <2>1. Handler(command, args) = << >>
        BY <1>0 DEF Handler, Prints
    <2> QED BY <1>n, <2>1
<1>1. CASE command = <<"echo">>
    <2>1. Handler(command, args) =
            Sends("CMSG_ECHO_REQUEST", args)
        BY <1>1 DEF Handler, Prints
    <2> QED BY <1>n, <2>1, SendsSingle DEF Opcode
<1>2. CASE command = <<"broadcast">>
    <2>1. Handler(command, args) =
            Sends("CMSG_BROADCAST_MESSAGE", args)
        BY <1>2 DEF Handler, Prints
    <2> QED BY <1>n, <2>1, SendsSingle DEF Opcode
<1>3. CASE command = <<"add">>
    <2>1. Handler(command, args) =
            IF AddAccepts(args) THEN Sends("CMSG_ADDITION_REQUEST", args) ELSE << >>
        BY <1>3 DEF Handler, Prints
    <2> QED BY <1>n, <2>1, SendsSingle DEF Opcode
<1>4. CASE command = <<"ping">>
    <2>1. Handler(command, args) =
            Sends("CMSG_PING", << >>)
        BY <1>4 DEF Handler, Prints
    <2> QED BY <1>n, <2>1, SendsSingle DEF Opcode
<1>5. CASE command = <<"uptime">>
    <2>1. Handler(command, args) =
            Sends("CMSG_UPTIME", << >>)
        BY <1>5 DEF Handler, Prints
    <2> QED BY <1>n, <2>1, SendsSingle DEF Opcode
<1>6. CASE command = <<"counter", "increment">>
    <2>1. Handler(command, args) =
            Sends("CMSG_INCREMENT_COUNTER", << >>)
        BY <1>6 DEF Handler, Prints
    <2> QED BY <1>n, <2>1, SendsSingle DEF Opcode
<1>7. CASE command = <<"counter", "get">>
    <2>1. Handler(command, args) =
            Sends("CMSG_GET_COUNTER", << >>)
        BY <1>7 DEF Handler, Prints
    <2> QED BY <1>n, <2>1, SendsSingle DEF Opcode
<1>8. CASE command = <<"client", "get-clients">>
    <2>1. Handler(command, args) =
            Sends("CMSG_GET_CLIENT_LIST", << >>)
        BY <1>8 DEF Handler, Prints
    <2> QED BY <1>n, <2>1, SendsSingle DEF Opcode
<1>9. CASE command = <<"client", "send-msg">>
    <2>1. Handler(command, args) =
            IF Len(args) >= 2 /\ is_unsigned_integer(args[1])
             THEN Sends("CMSG_SEND_MSG_TO_CLIENT", args) ELSE << >>
        BY <1>9 DEF Handler, Prints
    <2> QED BY <1>n, <2>1, SendsSingle DEF Opcode
<1>10. CASE command = <<"chat", "get-rooms">>
    <2>1. Handler(command, args) =
            Sends("CMSG_GET_CHAT_ROOMS", << >>)
        BY <1>10 DEF Handler, Prints
    <2> QED BY <1>n, <2>1, SendsSingle DEF Opcode
<1>11. CASE command = <<"chat", "info">>
    <2>1. Handler(command, args) =
            Sends("CMSG_GET_ROOM_INFO", << >>)
        BY <1>11 DEF Handler, Prints
    <2> QED BY <1>n, <2>1, SendsSingle DEF Opcode
<1>12. CASE command = <<"chat", "join">>
    <2>1. Handler(command, args) =
            IF Len(args) \in {1, 2} /\ NumberType[args[1]] = "uint8"
             THEN Sends("CMSG_JOIN_ROOM", args) ELSE << >>
        BY <1>12 DEF Handler, Prints
    <2> QED BY <1>n, <2>1, SendsSingle DEF Opcode
<1>13. CASE command = <<"chat", "say">>
    <2>1. Handler(command, args) =
            Sends("CMSG_SAY", args)
        BY <1>13 DEF Handler, Prints
    <2> QED BY <1>n, <2>1, SendsSingle DEF Opcode
<1> QED
    BY <1>0, <1>1, <1>2, <1>3, <1>4, <1>5, <1>6, <1>7, <1>8, <1>9, <1>10, <1>11,
        <1>12, <1>13
    DEF Commands, Prints

\* The longest command a line begins with.
LEMMA LongestIsMatch ==
    ASSUME NEW line \in Seq(Word), Matches(line) # {}
    PROVE  LongestMatch(line) \in Matches(line)
<1>1. Matches(line) \subseteq 1..Len(line) /\ Len(line) \in Nat
    BY LenProperties DEF Matches
<1>2. \E n \in Matches(line) : \A m \in Matches(line) : m <= n
    <2> DEFINE M == Matches(line)
               N == Len(line)
               R == OpToRel(<, Nat)
               short == {N - n : n \in M}
    <2>1. short \subseteq Nat /\ short # {}
        BY <1>1
    <2> HIDE DEF short
    <2>2. \E x \in short : \A y \in short : ~ (<<y, x>> \in R)
        BY <2>1, NatLessThanWellFounded, WFMin, Zenon
    <2>3. \A x, y \in Nat : x < y => <<x, y>> \in R
        BY DEF OpToRel
    <2>4. PICK x \in short : \A y \in short : ~ (y < x)
        BY <2>1, <2>2, <2>3, Zenon
    <2>5. PICK n \in M : x = N - n
        BY DEF short
    <2>6. ASSUME NEW m \in M PROVE m <= n
        <3>1. N - m \in short
            BY DEF short
        <3>2. ~ (N - m < x)
            BY <2>4, <3>1
        <3> QED BY <1>1, <2>5, <3>2
    <2> QED BY <2>6
<1> QED BY <1>2 DEF LongestMatch

\* What is sent for a line.
SentFor(line) ==
    IF Matches(line) = {} THEN << >>
    ELSE Handler(SubSeq(line, 1, LongestMatch(line)),
                 SubSeq(line, LongestMatch(line) + 1, Len(line)))

LEMMA SentForSingle ==
    ASSUME NEW line \in Line
    PROVE  Single(SentFor(line))
<1>1. line \in Seq(Word) /\ Len(line) \in Nat
    BY ClientAssumption, LenProperties DEF Word
<1>2. CASE Matches(line) = {}
    BY <1>2 DEF SentFor, Single
<1>3. CASE Matches(line) # {}
    <2> DEFINE n == LongestMatch(line)
    <2>1. n \in 1..Len(line) /\ SubSeq(line, 1, n) \in Commands
        BY <1>1, <1>3, LongestIsMatch DEF Matches
    <2> HIDE DEF n
    <2>2. SubSeq(line, n + 1, Len(line)) \in Seq(Word)
        BY <1>1, <2>1, SubSeqProperties
    <2> QED BY <1>3, <2>1, <2>2, HandlerSingle DEF SentFor, n
<1> QED BY <1>2, <1>3

----------------------------------------------------------------------------
(* Steps, by what they change.                                             *)

\* A line: it is noted with g_Running, and leaves the loop, sends nothing or sends
\* one request; a ping is noted with the time, which becomes m_pingStart.
LineStep(line) ==
    /\ pc = "getline"
    /\ typed' = Append(typed, [line |-> line, running |-> g_Running])
    /\ pc' \in {"unwind", "loop", "write"}
    /\ Single(request') /\ (pc' = "write" => request' # << >>)
    /\ \/ /\ UNCHANGED <<pings, m_pingStart>>
          /\ pc' = "write" => request'[1].op # "CMSG_PING"
       \/ pings' = Append(pings, clock) /\ m_pingStart' = clock
    /\ g_Running' \in BOOLEAN /\ (g_Running' => g_Running)
    /\ UNCHANGED <<rd, sampled, m_Sock, m_ctx, m_ssl, clock, server, recs, part,
                   taken, rest, out, shown>>

LEMMA LineRead ==
    ASSUME NEW line \in Line, ReadLine(line), g_Running \in BOOLEAN
    PROVE  LineStep(line)
<1> DEFINE sends == SentFor(line)
           leaves == line # << >> /\ line[1] \in {"exit", "quit"}
           ping == ~leaves /\ sends # << >> /\ sends[1].op = "CMSG_PING"
<1>1. Single(sends) /\ Single(<< >>)
    BY SentForSingle DEF Single
<1>2. /\ pc = "getline"
      /\ typed' = Append(typed, [line |-> line, running |-> g_Running])
      /\ pc' = IF leaves THEN "unwind" ELSE IF sends = << >> THEN "loop" ELSE "write"
      /\ request' = IF leaves THEN << >> ELSE sends
      /\ m_pingStart' = IF ping THEN clock ELSE m_pingStart
      /\ pings' = IF ping THEN Append(pings, clock) ELSE pings
      /\ g_Running' = (g_Running /\ ~leaves)
      /\ UNCHANGED <<readerVars, m_Sock, m_ctx, m_ssl, clock, streamVars, out, shown>>
    BY DEF ReadLine, SentFor, PingStart
<1>3. UNCHANGED <<rd, sampled, m_Sock, m_ctx, m_ssl, clock, server, recs, part,
                  taken, rest, out, shown>>
    BY <1>2 DEF readerVars, streamVars
<1> HIDE DEF sends
<1>4. g_Running' \in BOOLEAN /\ (g_Running' => g_Running)
    <2>1. g_Running' = (g_Running /\ ~leaves)
        BY <1>2
    <2> HIDE DEF leaves
    <2> QED BY <2>1, Zenon
<1>5. /\ pc' \in {"unwind", "loop", "write"}
      /\ Single(request') /\ (pc' = "write" => request' # << >>)
      /\ \/ /\ UNCHANGED <<pings, m_pingStart>>
            /\ pc' = "write" => request'[1].op # "CMSG_PING"
         \/ pings' = Append(pings, clock) /\ m_pingStart' = clock
    <2> HIDE DEF leaves
    <2> QED BY <1>1, <1>2
<1> QED BY <1>2, <1>3, <1>4, <1>5 DEF LineStep

\* Every step but those of a line leaves lines and pings alone.
LEMMA OtherSteps ==
    ASSUME [Next]_vars, ~ \E line \in Line : ReadLine(line)
    PROVE  /\ UNCHANGED <<typed, pings, m_pingStart>>
           /\ g_Running' => g_Running
           /\ pc' = "getline" => pc = "getline" \/ g_Running
           /\ pc' = "write" => pc = "write" /\ request' = request
           /\ clock' = clock \/ (clock' = clock + 1 /\ clock < MaxTime)
           /\ request' = request \/ request' = << >>
<1> USE DEF mainVars, readerVars, clientVars, streamVars, historyVars
<1>1. CASE MainStep
    BY <1>1 DEF MainStep, initClientConnection, initTLS, StartReader, LoopTest,
        sendSSLPacketToServer, CloseSocket, FreeCtx, FreeSSL, Return
<1>2. CASE ReaderStep
    BY <1>2 DEF ReaderStep, ReaderTest, Poll, ReadRest, ReadTicket, ReadPacket,
        ShowPing, ReadFails, ReadFreed
<1>3. CASE Environment \/ EndOfInput
    BY <1>3 DEF Environment, ServerSends, RecordHead, ServerCloses, handleSignal,
        Tick, EndOfInput
<1>4. CASE UNCHANGED vars
    BY <1>4 DEF vars
<1> QED BY <1>1, <1>2, <1>3, <1>4 DEF Next

\* The reader's progress: what is displayed and what is taken.
LEMMA ReaderSteps ==
    ASSUME [Next]_vars
    PROVE  \/ ReadRest \/ ReadTicket \/ ReadPacket \/ ShowPing
           \/ UNCHANGED <<shown, taken, rest>> /\ (rd' = "pong" => rd = "pong")
<1> USE DEF mainVars, readerVars, clientVars, streamVars, historyVars
<1>1. CASE MainStep
    BY <1>1 DEF MainStep, initClientConnection, initTLS, StartReader, LoopTest,
        sendSSLPacketToServer, CloseSocket, FreeCtx, FreeSSL, Return
<1>2. CASE ReaderStep
    BY <1>2 DEF ReaderStep, ReaderTest, Poll, ReadFails, ReadFreed
<1>3. CASE Environment \/ EndOfInput
    BY <1>3 DEF Environment, ServerSends, RecordHead, ServerCloses, handleSignal,
        Tick, EndOfInput
<1>4. ASSUME NEW line \in Line, ReadLine(line)
      PROVE  UNCHANGED <<shown, taken, rest>> /\ (rd' = "pong" => rd = "pong")
    BY <1>4 DEF ReadLine
<1>5. CASE UNCHANGED vars
    BY <1>5 DEF vars
<1> QED BY <1>1, <1>2, <1>3, <1>4, <1>5 DEF Next

\* What comes in and what goes out.
LEMMA StreamSteps ==
    ASSUME [Next]_vars
    PROVE  /\ \/ UNCHANGED recs
              \/ pc = "tls" /\ pc' = "spawn" /\ recs' = <<Ticket>>
              \/ ServerSends /\ UNCHANGED <<pc, m_ssl, out, rd, taken>>
           /\ \/ UNCHANGED out
              \/ /\ pc = "write" /\ pc' = "loop"
                 /\ out' = Append(out, request[1]) /\ UNCHANGED recs
           /\ pc' \in {"connect", "tls"} =>
                pc \in {"connect", "tls"} /\ UNCHANGED m_ssl
<1> USE DEF mainVars, readerVars, clientVars, streamVars, historyVars
<1>1. CASE MainStep
    BY <1>1 DEF MainStep, initClientConnection, initTLS, StartReader, LoopTest,
        sendSSLPacketToServer, CloseSocket, FreeCtx, FreeSSL, Return
<1>2. CASE ReaderStep
    BY <1>2 DEF ReaderStep, ReaderTest, Poll, ReadRest, ReadTicket, ReadPacket,
        ShowPing, ReadFails, ReadFreed
<1>3. CASE Environment \/ EndOfInput
    BY <1>3 DEF Environment, RecordHead, ServerCloses, handleSignal, Tick, EndOfInput,
        ServerSends
<1>4. ASSUME NEW line \in Line, ReadLine(line)
      PROVE  UNCHANGED <<recs, out>> /\ pc' \notin {"connect", "tls"}
    BY <1>4 DEF ReadLine
<1>5. CASE UNCHANGED vars
    BY <1>5 DEF vars
<1> QED BY <1>1, <1>2, <1>3, <1>4, <1>5 DEF Next

----------------------------------------------------------------------------
(* Types.                                                                  *)

\* A sequence and one more element.
LEMMA OneMore ==
    ASSUME NEW S, NEW s \in Seq(S), NEW x \in S
    PROVE  /\ Append(s, x) \in Seq(S) /\ Len(s) \in Nat
           /\ Len(Append(s, x)) = Len(s) + 1 /\ Append(s, x)[Len(s) + 1] = x
           /\ \A i \in 1..Len(s) : Append(s, x)[i] = s[i]
           /\ \A i \in 1..(Len(s) + 1) : i \in 1..Len(s) \/ i = Len(s) + 1
    BY LenProperties, AppendProperties

\* No sequence and one of one element.
LEMMA Few ==
    ASSUME NEW S
    PROVE  /\ << >> \in Seq(S) /\ Len(<< >>) = 0
           /\ \A x \in S : <<x>> \in Seq(S) /\ Len(<<x>>) = 1 /\ <<x>>[1] = x
    OBVIOUS

\* A request there is, is one.
LEMMA SingleLength ==
    ASSUME NEW sends, Single(sends)
    PROVE  /\ sends \in Seq(ClientRequest) /\ Len(sends) <= 1
           /\ sends # << >> => Len(sends) = 1 /\ sends[1] \in ClientRequest
<1> HIDE DEF ClientRequest
<1>1. CASE sends = << >>
    BY <1>1, Few
<1>2. ASSUME NEW r \in ClientRequest, sends = <<r>>
      PROVE  /\ sends \in Seq(ClientRequest) /\ Len(sends) <= 1
             /\ sends # << >> => Len(sends) = 1 /\ sends[1] \in ClientRequest
    BY <1>2, Few
<1> QED BY <1>1, <1>2 DEF Single

\* The first record of the server that is not yet taken.
LEMMA NextRecord ==
    ASSUME ClientTypeOK, Untaken
    PROVE  /\ taken + 1 \in 1..Len(recs) /\ recs[taken + 1] \in ServerRecord
           /\ recs[taken + 1] # Ticket => recs[taken + 1].pieces \in {1, 2}
           /\ recs[taken + 1] = Pong => recs[taken + 1].pieces = 1
<1>1. /\ taken + 1 \in 1..Len(recs) /\ recs \in Seq(ServerRecord)
    BY DEF ClientTypeOK, Untaken, ServerRecord
<1>2. recs[taken + 1] \in ServerRecord
    BY <1>1, ElementOfSeq
<1> QED BY <1>1, <1>2, ClientAssumption DEF ServerRecord, Ticket, Pong

\* Where the threads may be, and what the session and its socket may be.
ControlTypeOK ==
    /\ pc \in {"connect", "tls", "spawn", "loop", "getline", "write", "unwind",
               "freectx", "freessl", "return", "exited", "killed", "aborted",
               "crashed"}
    /\ rd \in {"none", "loop", "poll", "read", "pong", "stopped"}
    /\ m_Sock \in {"none", "open", "closed"}
    /\ m_ctx \in {"garbage", "null", "live", "freed"}
    /\ m_ssl \in {"garbage", "null", "live", "freed"}
    /\ server \in {"up", "fin", "rst", "pipe", "gone"}

\* The rest of the type invariant, and the whole of it.
CountTypeOK ==
    /\ Len(request) <= 1 /\ (pc = "write" => Len(request) = 1)
    /\ sampled \in 0..MaxTime /\ m_pingStart \in 0..MaxTime /\ clock \in 0..MaxTime
    /\ taken \in 0..Len(recs) /\ rest \in {0, 1}

LEMMA ClientTypeParts ==
    ClientTypeOK <=> /\ ControlTypeOK /\ CountTypeOK
                     /\ g_Running \in BOOLEAN /\ part \in BOOLEAN
                     /\ recs \in Seq(ServerRecord)
    BY Zenon DEF ClientTypeOK, ControlTypeOK, CountTypeOK, ServerRecord

LEMMA ClientTypeInit ==
    ASSUME Init
    PROVE  ClientTypeOK /\ HistoryTypeOK
<1>1. \A S : << >> \in Seq(S)
    BY Few
<1>2. /\ request \in Seq(ClientRequest) /\ out \in Seq(ClientRequest)
      /\ typed \in Seq([line : Line, running : BOOLEAN])
      /\ pings \in Seq(0..MaxTime) /\ shown \in Seq(Display)
      /\ recs \in Seq(ServerRecord)
    <2>1. /\ request = << >> /\ out = << >> /\ typed = << >> /\ pings = << >>
          /\ shown = << >> /\ recs = << >>
        BY DEF Init
    <2> QED BY <1>1, <2>1, Zenon
<1>3. Len(request) = 0 /\ Len(recs) = 0
    BY DEF Init
<1>4. 0 \in 0..MaxTime
    BY ClientAssumption
<1>5. ClientTypeOK
    <2>1. /\ pc = "connect" /\ rd = "none" /\ sampled = 0 /\ g_Running = TRUE
          /\ m_Sock = "none" /\ m_ctx = "garbage" /\ m_ssl = "garbage"
          /\ m_pingStart = 0 /\ clock = 0 /\ server = "up" /\ part = FALSE
          /\ taken = 0 /\ rest = 0
        BY DEF Init
    <2>2. CountTypeOK
        BY <1>3, <1>4, <2>1 DEF CountTypeOK
    <2>3. ControlTypeOK
        BY <2>1 DEF ControlTypeOK
    <2>4. g_Running \in BOOLEAN /\ part \in BOOLEAN
        BY <2>1
    <2> QED BY <1>2, <2>2, <2>3, <2>4, ClientTypeParts
<1>6. HistoryTypeOK
    <2>1. recs = << >> /\ m_ssl = "garbage"
        BY DEF Init
    <2> QED BY <1>2, <2>1 DEF HistoryTypeOK
<1> QED BY <1>5, <1>6

LEMMA ControlTypeNext ==
    ASSUME ControlTypeOK, g_Running \in BOOLEAN, [Next]_vars
    PROVE  ControlTypeOK'
<1> USE DEF mainVars, readerVars, clientVars, streamVars, historyVars
<1>1. CASE MainStep
    BY <1>1 DEF MainStep, initClientConnection, initTLS, StartReader, LoopTest,
        sendSSLPacketToServer, CloseSocket, FreeCtx, FreeSSL, Return, ControlTypeOK
<1>2. CASE ReaderStep
    BY <1>2 DEF ReaderStep, ReaderTest, Poll, ReadRest, ReadTicket, ReadPacket,
        ShowPing, ReadFails, ReadFreed, ControlTypeOK
<1>3. CASE Environment \/ EndOfInput
    BY <1>3 DEF Environment, ServerSends, RecordHead, ServerCloses, handleSignal,
        Tick, EndOfInput, ControlTypeOK
<1>4. ASSUME NEW line \in Line, ReadLine(line) PROVE ControlTypeOK'
    BY <1>4, LineRead DEF LineStep, ControlTypeOK
<1>5. CASE UNCHANGED vars
    BY <1>5 DEF vars, ControlTypeOK
<1> QED BY <1>1, <1>2, <1>3, <1>4, <1>5 DEF Next

\* The flags, and the time the reader notes.
LEMMA FlagsNext ==
    ASSUME g_Running \in BOOLEAN, part \in BOOLEAN, [Next]_vars
    PROVE  /\ g_Running' \in BOOLEAN /\ part' \in BOOLEAN
           /\ sampled' = sampled \/ sampled' = clock
<1> USE DEF mainVars, readerVars, clientVars, streamVars, historyVars
<1>1. CASE MainStep
    BY <1>1 DEF MainStep, initClientConnection, initTLS, StartReader, LoopTest,
        sendSSLPacketToServer, CloseSocket, FreeCtx, FreeSSL, Return
<1>2. CASE ReaderStep
    BY <1>2 DEF ReaderStep, ReaderTest, Poll, ReadRest, ReadTicket, ReadPacket,
        ShowPing, ReadFails, ReadFreed
<1>3. CASE Environment \/ EndOfInput
    BY <1>3 DEF Environment, ServerSends, RecordHead, ServerCloses, handleSignal,
        Tick, EndOfInput
<1>4. ASSUME NEW line \in Line, ReadLine(line)
      PROVE  g_Running' \in BOOLEAN /\ part' \in BOOLEAN /\ sampled' = sampled
    BY <1>4, LineRead DEF LineStep
<1>5. CASE UNCHANGED vars
    BY <1>5 DEF vars
<1> QED BY <1>1, <1>2, <1>3, <1>4, <1>5 DEF Next

\* Every step keeps the types of what the threads and the session hold.
LEMMA ClientTypeNext ==
    ASSUME ClientTypeOK, HistoryTypeOK, [Next]_vars
    PROVE  ClientTypeOK'
<1> HIDE DEF ServerRecord
<1>0. /\ ControlTypeOK /\ CountTypeOK /\ g_Running \in BOOLEAN /\ part \in BOOLEAN
      /\ recs \in Seq(ServerRecord) /\ Len(recs) \in Nat
    BY ClientTypeParts, LenProperties
<1>1. ControlTypeOK' /\ g_Running' \in BOOLEAN /\ part' \in BOOLEAN
    BY <1>0, ControlTypeNext, FlagsNext
<1>2. /\ Len(request') <= 1 /\ (pc' = "write" => Len(request') = 1)
      /\ m_pingStart' \in 0..MaxTime /\ clock' \in 0..MaxTime
    <2>1. ASSUME NEW line \in Line, ReadLine(line) PROVE <1>2
        BY <1>0, <2>1, LineRead, SingleLength DEF LineStep, CountTypeOK
    <2>2. CASE ~ \E line \in Line : ReadLine(line)
        BY <1>0, <2>2, OtherSteps, Few, ClientAssumption DEF CountTypeOK
    <2> QED BY <2>1, <2>2
<1>3. sampled' \in 0..MaxTime
    BY <1>0, FlagsNext DEF CountTypeOK
<1>4. recs' \in Seq(ServerRecord) /\ Len(recs) <= Len(recs')
    <2>1. ServerPacket \cup {Ticket, Pong} \subseteq ServerRecord
        BY DEF ServerRecord
    <2>2. CASE UNCHANGED recs
        BY <1>0, <2>2
    <2>3. CASE pc = "tls" /\ recs' = <<Ticket>>
        <3>1. Len(recs) = 0
            BY <2>3 DEF HistoryTypeOK
        <3> QED BY <1>0, <2>1, <2>3, <3>1, Few
    <2>4. CASE ServerSends
        <3>1. PICK p \in ServerRecord : recs' = Append(recs, p)
            BY <2>1, <2>4 DEF ServerSends
        <3> QED BY <1>0, <3>1, OneMore
    <2> QED BY <2>2, <2>3, <2>4, StreamSteps
<1>5. taken' \in 0..Len(recs') /\ rest' \in {0, 1}
    <2>0. taken \in 0..Len(recs) /\ rest \in {0, 1} /\ Len(recs') \in Nat
        BY <1>0, <1>4, LenProperties DEF CountTypeOK
    <2>1. CASE ReadRest
        BY <1>4, <2>0, <2>1 DEF ReadRest
    <2>2. CASE ReadTicket
        BY <1>0, <1>4, <2>0, <2>2, NextRecord DEF ReadTicket
    <2>3. CASE ReadPacket
        <3>1. Untaken /\ recs[taken + 1] # Ticket /\ taken' = taken + 1
              /\ rest' = recs[taken + 1].pieces - 1
            BY <2>3 DEF ReadPacket, TakenByRead, RestAfterRead
        <3> QED BY <1>0, <1>4, <2>0, <3>1, NextRecord
    <2>4. CASE ShowPing
        BY <1>4, <2>0, <2>4 DEF ShowPing, streamVars
    <2>5. CASE UNCHANGED <<taken, rest>>
        BY <1>0, <1>4, <2>0, <2>5
    <2> QED BY <2>1, <2>2, <2>3, <2>4, <2>5, ReaderSteps
<1>6. CountTypeOK'
    BY <1>2, <1>3, <1>5 DEF CountTypeOK
<1> QED
    BY <1>1, <1>4, <1>6, Zenon DEF ClientTypeOK, ControlTypeOK, CountTypeOK, ServerRecord

----------------------------------------------------------------------------
(* One line after an interrupt.                                            *)

LEMMA LinesNext ==
    ASSUME typed \in Seq([line : Line, running : BOOLEAN]), g_Running \in BOOLEAN,
           NoFurtherLine, OneLineAfterInterrupt, [Next]_vars
    PROVE  /\ typed' \in Seq([line : Line, running : BOOLEAN])
           /\ NoFurtherLine' /\ OneLineAfterInterrupt'
<1> DEFINE T == [line : Line, running : BOOLEAN]
<1>1. ASSUME NEW line \in Line, ReadLine(line)
      PROVE  /\ typed' \in Seq(T) /\ NoFurtherLine' /\ OneLineAfterInterrupt'
    <2> DEFINE e == [line |-> line, running |-> g_Running]
    <2>1. /\ pc = "getline" /\ typed' = Append(typed, e)
          /\ pc' # "getline" /\ (g_Running' => g_Running)
        BY <1>1, LineRead DEF LineStep
    <2>2. e \in T /\ e.running = g_Running
        OBVIOUS
    <2> HIDE DEF e, T
    <2>3. /\ typed' \in Seq(T) /\ Len(typed) \in Nat
          /\ Len(typed') = Len(typed) + 1 /\ typed'[Len(typed) + 1] = e
          /\ \A i \in 1..Len(typed) : typed'[i] = typed[i]
          /\ \A i \in 1..Len(typed') : i \in 1..Len(typed) \/ i = Len(typed) + 1
        <3>1. typed \in Seq(T)
            BY DEF T
        <3> QED BY <2>1, <2>2, <3>1, OneMore
    <2>4. \A i \in 1..Len(typed) : typed[i].running
        BY <2>1 DEF NoFurtherLine
    <2>5. NoFurtherLine'
        <3> SUFFICES ASSUME NEW i \in 1..Len(typed'), ~typed'[i].running
                     PROVE  ~g_Running' /\ pc' # "getline"
            BY DEF NoFurtherLine
        <3>1. i = Len(typed) + 1
            BY <2>3, <2>4, Zenon
        <3>2. ~g_Running
            BY <2>2, <2>3, <3>1, Zenon
        <3> QED BY <2>1, <3>2
    <2>6. OneLineAfterInterrupt'
        <3> SUFFICES ASSUME NEW i \in 1..Len(typed'), NEW j \in 1..Len(typed'),
                            ~typed'[i].running, ~typed'[j].running
                     PROVE  i = j
            BY DEF OneLineAfterInterrupt
        <3> QED BY <2>3, <2>4, Zenon
    <2> QED BY <2>3, <2>5, <2>6
<1>2. CASE ~ \E line \in Line : ReadLine(line)
    <2>1. /\ typed' = typed /\ (g_Running' => g_Running)
          /\ pc' = "getline" => pc = "getline" \/ g_Running
        BY <1>2, OtherSteps
    <2> QED BY <2>1 DEF NoFurtherLine, OneLineAfterInterrupt
<1> QED BY <1>1, <1>2

----------------------------------------------------------------------------
(* Packets are displayed in order.                                         *)

LEMMA DisplayNext ==
    ASSUME ClientTypeOK, shown \in Seq(Display), ShownSoFar, ShownInOrder,
           shown' \in Seq(Display), [Next]_vars
    PROVE  ShownSoFar' /\ ShownInOrder'
<1> HIDE DEF Display
<1>0. taken \in Nat /\ rest \in {0, 1} /\ Len(shown) \in Nat
    BY LenProperties DEF ClientTypeOK
<1>t. \A d \in Display : d.rec \in Nat /\ d.rest \in BOOLEAN
    BY DEF Display
<1>e. /\ \A i \in 1..Len(shown) : shown[i].rec \in Nat
      /\ \A i \in 1..Len(shown') : shown'[i].rec \in Nat
    BY <1>t, ElementOfSeq
<1>s. ASSUME NEW e \in Display, shown' = Append(shown, e), taken' \in Nat, rest' \in Nat,
             e.rec = taken', rd' # "pong", rest' > 0 => ~e.rest,
             \A i \in 1..Len(shown) :
                \/ shown[i].rec < taken'
                \/ shown[i].rec = taken' /\ ~shown[i].rest /\ e.rest
      PROVE  ShownSoFar' /\ ShownInOrder'
    <2>1. /\ Len(shown') = Len(shown) + 1 /\ shown'[Len(shown) + 1] = e
          /\ \A i \in 1..Len(shown) : shown'[i] = shown[i]
          /\ \A i \in 1..Len(shown') : i \in 1..Len(shown) \/ i = Len(shown) + 1
        BY <1>s, OneMore
    <2>2. ASSUME NEW i \in 1..Len(shown')
          PROVE  /\ shown'[i].rec <= taken'
                 /\ rest' > 0 /\ shown'[i].rec = taken' => ~shown'[i].rest
        <3>1. CASE i \in 1..Len(shown)
            BY <1>e, <1>s, <2>1, <3>1
        <3>2. CASE i = Len(shown) + 1
            BY <1>s, <2>1, <3>2
        <3> QED BY <2>1, <3>1, <3>2
    <2>3. ShownSoFar'
        BY <1>s, <2>2 DEF ShownSoFar
    <2>4. ASSUME NEW i \in 1..Len(shown'), NEW j \in 1..Len(shown'), i < j
          PROVE  \/ shown'[i].rec < shown'[j].rec
                 \/ shown'[i].rec = shown'[j].rec /\ ~shown'[i].rest /\ shown'[j].rest
        <3>1. i \in 1..Len(shown)
            BY <1>0, <2>1, <2>4
        <3>2. CASE j \in 1..Len(shown)
            BY <2>1, <2>4, <3>1, <3>2 DEF ShownInOrder
        <3>3. CASE j = Len(shown) + 1
            BY <1>s, <2>1, <3>1, <3>3
        <3> QED BY <2>1, <3>2, <3>3
    <2> QED BY <2>3, <2>4 DEF ShownInOrder
<1>1. CASE ReadRest
    <2>1. /\ rest > 0 /\ rest' = rest - 1 /\ taken' = taken /\ rd = "read"
        BY <1>1 DEF ReadRest
    <2>2. CASE /\ shown' = Append(shown, [rec |-> taken, rest |-> TRUE])
               /\ rd' = "loop"
        <3> DEFINE e == [rec |-> taken, rest |-> TRUE]
        <3>1. e \in Display /\ e.rec = taken /\ e.rest
            BY <1>0 DEF Display
        <3> HIDE DEF e
        <3>2. \A i \in 1..Len(shown) :
                \/ shown[i].rec < taken'
                \/ shown[i].rec = taken' /\ ~shown[i].rest /\ e.rest
            BY <1>0, <1>e, <2>1, <3>1 DEF ShownSoFar
        <3>3. shown' = Append(shown, e)
            BY <2>2 DEF e
        <3>4. rest' > 0 => ~e.rest
            BY <1>0, <2>1
        <3> QED BY <1>0, <1>s, <2>1, <2>2, <3>1, <3>2, <3>3, <3>4
    <2>3. CASE UNCHANGED <<rd, shown>>
        BY <1>0, <2>1, <2>3 DEF ShownSoFar, ShownInOrder
    <2> QED BY <1>1, <2>2, <2>3 DEF ReadRest
<1>2. CASE ReadTicket
    <2>1. /\ rest = 0 /\ rest' = rest /\ taken' = taken + 1 /\ rd' = "read"
          /\ UNCHANGED shown
        BY <1>2 DEF ReadTicket, readerVars, historyVars
    <2> QED BY <1>0, <1>e, <2>1 DEF ShownSoFar, ShownInOrder
<1>3. CASE ReadPacket
    <2>1. /\ rest = 0 /\ taken' = taken + 1 /\ Untaken /\ recs[taken + 1] # Ticket
          /\ rest' = recs[taken + 1].pieces - 1
        BY <1>3 DEF ReadPacket, TakenByRead, RestAfterRead
    <2>2. rest' \in {0, 1}
        BY <2>1, NextRecord
    <2>3. CASE UNCHANGED shown
        <3>1. \A i \in 1..Len(shown) : shown[i].rec < taken'
            BY <1>0, <1>e, <2>1 DEF ShownSoFar
        <3> QED BY <1>0, <1>e, <2>1, <2>3, <3>1 DEF ShownSoFar, ShownInOrder
    <2>4. CASE /\ shown' = Append(shown, [rec |-> taken + 1, rest |-> FALSE])
               /\ rd' = "loop"
        <3> DEFINE e == [rec |-> taken + 1, rest |-> FALSE]
        <3>1. e \in Display /\ e.rec = taken + 1 /\ ~e.rest
            BY <1>0 DEF Display
        <3> HIDE DEF e
        <3>2. \A i \in 1..Len(shown) : shown[i].rec < taken'
            BY <1>0, <1>e, <2>1 DEF ShownSoFar
        <3>3. shown' = Append(shown, e)
            BY <2>4 DEF e
        <3> QED BY <1>0, <1>s, <2>1, <2>2, <2>4, <3>1, <3>2, <3>3
    <2> QED BY <1>3, <2>3, <2>4 DEF ReadPacket
<1>4. CASE ShowPing
    <2> DEFINE e == [rec |-> taken, rest |-> FALSE,
                     ping |-> sampled - m_pingStart,
                     trip |-> sampled - pings[Answered(taken)]]
    <2>1. /\ rd = "pong" /\ rd' = "loop" /\ taken' = taken /\ rest' = rest
          /\ shown' = Append(shown, e)
        BY <1>4 DEF ShowPing, streamVars
    <2>2. e.rec = taken /\ ~e.rest
        OBVIOUS
    <2>3. e \in Display
        <3> HIDE DEF e
        <3>1. Len(shown') = Len(shown) + 1 /\ shown'[Len(shown) + 1] = e
            BY <2>1, AppendProperties
        <3>2. Len(shown) + 1 \in 1..Len(shown')
            BY <1>0, <3>1
        <3> QED BY <3>1, <3>2, ElementOfSeq
    <2> HIDE DEF e
    <2>4. \A i \in 1..Len(shown) : shown[i].rec < taken'
        BY <2>1 DEF ShownSoFar
    <2> QED BY <1>0, <1>s, <2>1, <2>2, <2>3, <2>4
<1>5. CASE UNCHANGED <<shown, taken, rest>> /\ (rd' = "pong" => rd = "pong")
    BY <1>5 DEF ShownSoFar, ShownInOrder
<1> QED BY <1>1, <1>2, <1>3, <1>4, <1>5, ReaderSteps

----------------------------------------------------------------------------
(* Round trips.                                                            *)

\* Counting positions.
LEMMA Positions ==
    ASSUME NEW n \in Nat, NEW S \in SUBSET (1..n)
    PROVE  /\ IsFiniteSet(S) /\ Cardinality(S) \in Nat
           /\ Cardinality(S \cup {n + 1}) = Cardinality(S) + 1
           /\ \A R \in SUBSET S : Cardinality(R) <= Cardinality(S)
           /\ S # {} => Cardinality(S) > 0
<1>1. IsFiniteSet(1..n)
    BY FS_Interval
<1>2. IsFiniteSet(S) /\ Cardinality(S) \in Nat
    BY <1>1, FS_Subset, FS_CardinalityType
<1>3. n + 1 \notin S
    OBVIOUS
<1>4. Cardinality(S \cup {n + 1}) = Cardinality(S) + 1
    BY <1>2, <1>3, FS_AddElement
<1>5. \A R \in SUBSET S : Cardinality(R) <= Cardinality(S)
    BY <1>2, FS_Subset
<1>6. S # {} => Cardinality(S) > 0
    BY <1>2, FS_EmptySet
<1> QED BY <1>2, <1>4, <1>5, <1>6

\* How many elements of a sequence are in a set.
Count(s, P) == Cardinality({k \in 1..Len(s) : s[k] \in P})

LEMMA CountIsNat ==
    ASSUME NEW T, NEW s \in Seq(T), NEW P
    PROVE  Count(s, P) \in Nat
<1>1. Len(s) \in Nat /\ {k \in 1..Len(s) : s[k] \in P} \in SUBSET (1..Len(s))
    BY LenProperties
<1> QED BY <1>1, Positions DEF Count

\* One more element is counted if it is in the set.
LEMMA CountMore ==
    ASSUME NEW T, NEW s \in Seq(T), NEW x \in T, NEW P
    PROVE  Count(Append(s, x), P) = IF x \in P THEN Count(s, P) + 1 ELSE Count(s, P)
<1> DEFINE S == {k \in 1..Len(s) : s[k] \in P}
           R == {k \in 1..Len(Append(s, x)) : Append(s, x)[k] \in P}
<1>1. /\ Len(s) \in Nat /\ Len(Append(s, x)) = Len(s) + 1
      /\ Append(s, x)[Len(s) + 1] = x
      /\ \A i \in 1..Len(s) : Append(s, x)[i] = s[i]
    BY OneMore
<1>2. S \in SUBSET (1..Len(s))
    OBVIOUS
<1>3. Cardinality(S \cup {Len(s) + 1}) = Cardinality(S) + 1
    BY <1>1, <1>2, Positions
<1>4. x \in P => R = S \cup {Len(s) + 1}
    BY <1>1
<1>5. x \notin P => R = S
    BY <1>1
<1>6. Count(Append(s, x), P) = Cardinality(R) /\ Count(s, P) = Cardinality(S)
    BY DEF Count
<1> HIDE DEF S, R
<1>7. CASE x \in P
    BY <1>3, <1>4, <1>6, <1>7
<1>8. CASE x \notin P
    BY <1>5, <1>6, <1>8
<1> QED BY <1>7, <1>8

\* The pongs that have come in, and the pings sent, as what is counted.
Asks == {r \in ClientRequest : r.op = "CMSG_PING"}

LEMMA Counted ==
    ASSUME out \in Seq(ClientRequest)
    PROVE  /\ Answered(Len(recs)) = Count(recs, {Pong})
           /\ Cardinality(PingsGot) = Count(out, Asks)
<1>1. \A k \in 1..Len(out) : out[k] \in ClientRequest
    BY ElementOfSeq
<1>2. PingsGot = {k \in 1..Len(out) : out[k] \in Asks}
    <2> HIDE DEF ClientRequest
    <2> QED BY <1>1 DEF PingsGot, Asks
<1>3. {k \in 1..Len(recs) : recs[k] = Pong} = {k \in 1..Len(recs) : recs[k] \in {Pong}}
    OBVIOUS
<1> QED BY <1>2, <1>3 DEF Answered, Count

\* The ping a pong answers is one that was sent.
LEMMA PongAnswers ==
    ASSUME ClientTypeOK, PingsInStep, rd = "pong", pings \in Seq(0..MaxTime),
           out \in Seq(ClientRequest)
    PROVE  Answered(taken) \in 1..Len(pings)
<1> DEFINE A == {k \in 1..taken : recs[k] = Pong}
           B == {k \in 1..Len(recs) : recs[k] = Pong}
<1>1. taken \in 1..Len(recs) /\ Len(recs) \in Nat /\ recs[taken] = Pong
    BY LenProperties DEF ClientTypeOK, PingsInStep
<1>2. /\ A \subseteq B /\ A # {}
      /\ A \in SUBSET (1..Len(recs)) /\ B \in SUBSET (1..Len(recs))
    BY <1>1
<1>3. /\ Cardinality(A) \in Nat /\ Cardinality(B) \in Nat
      /\ Cardinality(A) <= Cardinality(B) /\ Cardinality(A) > 0
    <2> HIDE DEF A, B
    <2> QED BY <1>1, <1>2, Positions
<1>4. Cardinality(PingsGot) \in Nat
    <2>1. Len(out) \in Nat /\ PingsGot \in SUBSET (1..Len(out))
        BY LenProperties DEF PingsGot
    <2> QED BY <2>1, Positions
<1>5. Answered(taken) = Cardinality(A) /\ Answered(Len(recs)) = Cardinality(B)
    BY DEF Answered
<1>6. /\ Cardinality(B) <= Cardinality(PingsGot)
      /\ Cardinality(PingsGot) <= Len(pings) /\ Len(pings) \in Nat
    BY <1>5, LenProperties DEF PingsInStep
<1> HIDE DEF A, B
<1> QED BY <1>3, <1>4, <1>5, <1>6

\* The counts of pings and pongs after a step.
LEMMA CountsNext ==
    ASSUME ClientTypeOK, HistoryTypeOK, PingsInStep, [Next]_vars,
           ClientTypeOK', HistoryTypeOK',
           ~ \E line \in Line : ReadLine(line)
    PROVE  /\ Answered(Len(recs))' <= Cardinality(PingsGot')
           /\ Cardinality(PingsGot') <= Len(pings)
           /\ pc' = "write" => PingsGot' = PingsGot
<1>1. /\ Answered(Len(recs)) = Count(recs, {Pong})
      /\ Cardinality(PingsGot) = Count(out, Asks)
      /\ Answered(Len(recs))' = Count(recs', {Pong})
      /\ Cardinality(PingsGot') = Count(out', Asks)
    <2>1. /\ Answered(Len(recs)) = Count(recs, {Pong})
          /\ Cardinality(PingsGot) = Count(out, Asks)
        BY Counted DEF HistoryTypeOK
    <2>2. Answered(Len(recs))' = Count(recs', {Pong})
        <3>1. {k \in 1..Len(recs') : recs'[k] = Pong} =
              {k \in 1..Len(recs') : recs'[k] \in {Pong}}
            OBVIOUS
        <3> QED BY <3>1 DEF Answered, Count
    <2>3. PingsGot' = {k \in 1..Len(out') : out'[k] \in Asks}
        <3>1. \A k \in 1..Len(out') : out'[k] \in ClientRequest
            BY ElementOfSeq DEF HistoryTypeOK
        <3> HIDE DEF ClientRequest
        <3> QED BY <3>1 DEF PingsGot, Asks
    <2> QED BY <2>1, <2>2, <2>3 DEF Count
<1>2. /\ recs \in Seq(ServerRecord) /\ out \in Seq(ClientRequest)
      /\ Pong \in ServerRecord /\ Len(pings) \in Nat
    BY LenProperties DEF ClientTypeOK, HistoryTypeOK, ServerRecord
<1>3. /\ Count(recs, {Pong}) <= Count(out, Asks) /\ Count(out, Asks) <= Len(pings)
      /\ pc = "write" /\ request[1].op = "CMSG_PING" => Count(out, Asks) < Len(pings)
    BY <1>1 DEF PingsInStep
<1>n. Count(recs, {Pong}) \in Nat /\ Count(out, Asks) \in Nat
    BY <1>2, CountIsNat
<1>4. CASE /\ pc = "write" /\ pc' = "loop"
           /\ out' = Append(out, request[1]) /\ UNCHANGED recs
    <2>1. request[1] \in ClientRequest
        BY <1>4, LenProperties, ElementOfSeq DEF ClientTypeOK, HistoryTypeOK
    <2>2. Count(out', Asks) =
            IF request[1] \in Asks THEN Count(out, Asks) + 1 ELSE Count(out, Asks)
        BY <1>2, <1>4, <2>1, CountMore
    <2>3. request[1] \in Asks <=> request[1].op = "CMSG_PING"
        BY <2>1 DEF Asks
    <2>4. Count(recs', {Pong}) = Count(recs, {Pong})
        BY <1>4
    <2> QED BY <1>1, <1>2, <1>3, <1>4, <1>n, <2>2, <2>3, <2>4
<1>5. CASE UNCHANGED out
    <2>0. PingsGot' = PingsGot
        BY <1>5 DEF PingsGot
    <2>1. Count(recs', {Pong}) <= Count(out, Asks)
        <3>1. CASE UNCHANGED recs
            BY <1>3, <3>1
        <3>2. CASE pc = "tls" /\ recs' = <<Ticket>>
            <4>1. {k \in 1..Len(recs') : recs'[k] \in {Pong}} = {}
                BY <3>2 DEF Ticket, Pong
            <4>2. Count(recs', {Pong}) = 0
                BY <4>1, FS_EmptySet DEF Count
            <4> QED BY <1>n, <4>2
        <3>3. CASE ServerSends
            <4>1. ASSUME NEW p \in ServerPacket, recs' = Append(recs, p)
                  PROVE  Count(recs', {Pong}) = Count(recs, {Pong})
                <5>1. p \in ServerRecord /\ p \notin {Pong}
                    BY ClientAssumption DEF Pong, ServerRecord
                <5>2. Count(recs', {Pong}) =
                        IF p \in {Pong} THEN Count(recs, {Pong}) + 1
                        ELSE Count(recs, {Pong})
                    BY <1>2, <4>1, <5>1, CountMore
                <5> QED BY <1>n, <5>1, <5>2
            <4>2. ASSUME Answered(Len(recs)) < Cardinality(PingsGot),
                         recs' = Append(recs, Pong)
                  PROVE  Count(recs', {Pong}) <= Count(out, Asks)
                <5>1. Count(recs', {Pong}) = Count(recs, {Pong}) + 1
                    BY <1>2, <4>2, CountMore
                <5>2. Count(recs, {Pong}) < Count(out, Asks)
                    BY <1>1, <4>2
                <5> QED BY <1>n, <5>1, <5>2
            <4>3. \/ \E p \in ServerPacket : recs' = Append(recs, p)
                  \/ /\ Answered(Len(recs)) < Cardinality(PingsGot)
                     /\ recs' = Append(recs, Pong)
                BY <3>3 DEF ServerSends, PingsGot
            <4> QED BY <1>3, <4>1, <4>2, <4>3
        <3> QED BY <3>1, <3>2, <3>3, StreamSteps
    <2>2. Count(out', Asks) = Count(out, Asks)
        BY <1>5
    <2> QED BY <1>1, <1>3, <2>0, <2>1, <2>2
<1> QED BY <1>4, <1>5, StreamSteps

LEMMA PingsNext ==
    ASSUME ClientTypeOK, HistoryTypeOK, PingsInStep, [Next]_vars,
           ClientTypeOK', HistoryTypeOK'
    PROVE  PingsInStep'
<1>0. /\ pings \in Seq(0..MaxTime) /\ Len(pings) \in Nat /\ clock \in 0..MaxTime
      /\ m_pingStart \in 0..MaxTime /\ m_pingStart <= clock /\ MaxTime \in Nat
      /\ \A k \in 1..Len(pings) : pings[k] \in 0..MaxTime /\ pings[k] <= m_pingStart
    BY LenProperties, ElementOfSeq, ClientAssumption
    DEF ClientTypeOK, HistoryTypeOK, PingsInStep
<1>1. ASSUME NEW line \in Line, ReadLine(line) PROVE PingsInStep'
    <2>1. LineStep(line)
        BY <1>1, LineRead DEF ClientTypeOK
    <2>2. /\ UNCHANGED <<recs, out, clock, rd, taken>>
          /\ PingsGot' = PingsGot /\ Answered(Len(recs))' = Answered(Len(recs))
        BY <2>1 DEF LineStep, PingsGot, Answered
    <2>3. Cardinality(PingsGot) \in Nat
        BY Counted, CountIsNat DEF HistoryTypeOK
    <2>4. /\ Answered(Len(recs))' <= Cardinality(PingsGot')
          /\ rd' = "pong" => taken' > 0 /\ recs'[taken'] = Pong
        BY <2>2 DEF PingsInStep
    <2>5. CASE /\ UNCHANGED <<pings, m_pingStart>>
               /\ pc' = "write" => request'[1].op # "CMSG_PING"
        <3>1. Cardinality(PingsGot') <= Len(pings')
            BY <2>2, <2>5 DEF PingsInStep
        <3> QED BY <1>0, <2>2, <2>4, <2>5, <3>1 DEF PingsInStep
    <2>6. CASE pings' = Append(pings, clock) /\ m_pingStart' = clock
        <3>1. /\ Len(pings') = Len(pings) + 1 /\ pings'[Len(pings) + 1] = clock
              /\ \A i \in 1..Len(pings) : pings'[i] = pings[i]
              /\ \A i \in 1..Len(pings') : i \in 1..Len(pings) \/ i = Len(pings) + 1
            BY <1>0, <2>6, OneMore
        <3>2. Cardinality(PingsGot') < Len(pings')
            BY <1>0, <2>2, <2>3, <3>1 DEF PingsInStep
        <3>3. Cardinality(PingsGot') <= Len(pings')
            BY <1>0, <2>2, <2>3, <3>1 DEF PingsInStep
        <3>4. \A k \in 1..Len(pings') : pings'[k] <= m_pingStart'
            BY <1>0, <2>6, <3>1
        <3>5. m_pingStart' <= clock'
            BY <1>0, <2>2, <2>6
        <3> QED BY <2>4, <3>2, <3>3, <3>4, <3>5 DEF PingsInStep
    <2> QED BY <2>1, <2>5, <2>6 DEF LineStep
<1>2. CASE ~ \E line \in Line : ReadLine(line)
    <2>1. /\ UNCHANGED <<pings, m_pingStart>>
          /\ pc' = "write" => pc = "write" /\ request' = request
          /\ clock' = clock \/ clock' = clock + 1
        BY <1>2, OtherSteps
    <2>2. /\ Answered(Len(recs))' <= Cardinality(PingsGot')
          /\ Cardinality(PingsGot') <= Len(pings)
          /\ pc' = "write" => PingsGot' = PingsGot
        BY <1>2, CountsNext
    <2>3. rd' = "pong" => taken' > 0 /\ recs'[taken'] = Pong
        <3> SUFFICES ASSUME rd' = "pong" PROVE taken' > 0 /\ recs'[taken'] = Pong
            OBVIOUS
        <3>1. CASE ReadPacket
            <4>1. /\ taken' = taken + 1 /\ recs' = recs /\ recs[taken + 1] = Pong
                BY <3>1 DEF ReadPacket, TakenByRead
            <4> QED BY <4>1 DEF ClientTypeOK
        <3>2. CASE UNCHANGED taken /\ rd = "pong"
            <4>1. /\ taken \in 1..Len(recs) /\ Len(recs) \in Nat /\ recs[taken] = Pong
                  /\ recs \in Seq(ServerRecord)
                BY <3>2, LenProperties DEF ClientTypeOK, PingsInStep, ServerRecord
            <4>2. CASE UNCHANGED recs
                BY <3>2, <4>1, <4>2
            <4>3. CASE pc = "tls" /\ recs' = <<Ticket>>
                BY <4>1, <4>3 DEF HistoryTypeOK
            <4>4. CASE ServerSends
                <5>1. PICK p \in ServerRecord : recs' = Append(recs, p)
                    BY <4>4 DEF ServerSends, ServerRecord
                <5> QED BY <3>2, <4>1, <5>1, OneMore
            <4> QED BY <4>2, <4>3, <4>4, StreamSteps
        <3>3. CASE ReadRest \/ ReadTicket \/ ShowPing
            BY <3>3 DEF ReadRest, ReadTicket, ShowPing, readerVars
        <3> QED BY <3>1, <3>2, <3>3, ReaderSteps
    <2>4. pc' = "write" /\ request'[1].op = "CMSG_PING" =>
            Cardinality(PingsGot') < Len(pings')
        BY <2>1, <2>2 DEF PingsInStep
    <2>5. /\ \A k \in 1..Len(pings') : pings'[k] <= m_pingStart'
          /\ m_pingStart' <= clock'
        BY <1>0, <2>1
    <2> QED BY <2>1, <2>2, <2>3, <2>4, <2>5 DEF PingsInStep
<1> QED BY <1>1, <1>2

\* What a step displays: of a pong, a time no longer than the round trip.
LEMMA ShownNext ==
    ASSUME ClientTypeOK, HistoryTypeOK, PingsInStep, PingNeverLate, [Next]_vars
    PROVE  shown' \in Seq(Display) /\ PingNeverLate'
<1> HIDE DEF Display
<1>0. shown \in Seq(Display) /\ taken \in Nat
    BY DEF ClientTypeOK, HistoryTypeOK
<1>1. ASSUME NEW e \in Display, shown' = Append(shown, e),
             "ping" \in DOMAIN e => e.ping <= e.trip
      PROVE  shown' \in Seq(Display) /\ PingNeverLate'
    <2>1. /\ shown' \in Seq(Display) /\ shown'[Len(shown) + 1] = e
          /\ Len(shown') = Len(shown) + 1
          /\ \A i \in 1..Len(shown) : shown'[i] = shown[i]
          /\ \A i \in 1..Len(shown') : i \in 1..Len(shown) \/ i = Len(shown) + 1
        BY <1>0, <1>1, OneMore
    <2>2. PingNeverLate'
        <3> SUFFICES ASSUME NEW k \in 1..Len(shown'), "ping" \in DOMAIN shown'[k]
                     PROVE  shown'[k].ping <= shown'[k].trip
            BY DEF PingNeverLate
        <3>1. CASE k \in 1..Len(shown)
            BY <2>1, <3>1 DEF PingNeverLate
        <3>2. CASE k = Len(shown) + 1
            BY <1>1, <2>1, <3>2
        <3> QED BY <2>1, <3>1, <3>2
    <2> QED BY <2>1, <2>2
<1>2. CASE UNCHANGED shown
    BY <1>0, <1>2 DEF PingNeverLate
<1>3. \A n \in Nat, b \in BOOLEAN :
        /\ [rec |-> n, rest |-> b] \in Display
        /\ "ping" \notin DOMAIN [rec |-> n, rest |-> b]
    BY DEF Display
<1>4. CASE ReadRest \/ ReadPacket
    <2>1. \/ UNCHANGED shown
          \/ shown' = Append(shown, [rec |-> taken, rest |-> TRUE])
          \/ shown' = Append(shown, [rec |-> taken + 1, rest |-> FALSE])
        BY <1>4 DEF ReadRest, ReadPacket
    <2>2. ASSUME NEW n \in Nat, NEW b \in BOOLEAN,
                 shown' = Append(shown, [rec |-> n, rest |-> b])
          PROVE  shown' \in Seq(Display) /\ PingNeverLate'
        <3> DEFINE e == [rec |-> n, rest |-> b]
        <3>1. e \in Display /\ "ping" \notin DOMAIN e /\ shown' = Append(shown, e)
            BY <1>3, <2>2
        <3> HIDE DEF e
        <3> QED BY <1>1, <3>1
    <2>3. taken + 1 \in Nat
        BY <1>0
    <2> QED BY <1>0, <1>2, <2>1, <2>2, <2>3
<1>5. CASE ShowPing
    <2> DEFINE n == Answered(taken)
               e == [rec |-> taken, rest |-> FALSE, ping |-> sampled - m_pingStart,
                     trip |-> sampled - pings[n]]
    <2>1. shown' = Append(shown, e) /\ rd = "pong"
        BY <1>5 DEF ShowPing
    <2>2. n \in 1..Len(pings)
        BY <2>1, PongAnswers DEF HistoryTypeOK
    <2>3. pings[n] \in 0..MaxTime /\ pings[n] <= m_pingStart
        BY <2>2, ElementOfSeq DEF HistoryTypeOK, PingsInStep
    <2>4. sampled \in Int /\ m_pingStart \in Int /\ pings[n] \in Int
        BY <2>3, ClientAssumption DEF ClientTypeOK
    <2> HIDE DEF n
    <2>5. e \in Display /\ e.ping = sampled - m_pingStart /\ e.trip = sampled - pings[n]
        BY <1>0, <2>4 DEF Display
    <2>6. e.ping <= e.trip
        BY <2>3, <2>4, <2>5
    <2> HIDE DEF e
    <2> QED BY <1>1, <2>1, <2>5, <2>6
<1>6. CASE ReadTicket
    BY <1>2, <1>6 DEF ReadTicket, historyVars
<1> QED BY <1>2, <1>4, <1>5, <1>6, ReaderSteps

----------------------------------------------------------------------------
(* The invariant.                                                          *)

LEMMA ClientInvInit ==
    ASSUME Init
    PROVE  ClientInv
<1>1. ClientTypeOK /\ HistoryTypeOK
    BY ClientTypeInit
<1>2. Len(typed) = 0 /\ Len(shown) = 0 /\ Len(pings) = 0 /\ Len(recs) = 0 /\ Len(out) = 0
    BY DEF Init
<1>3. /\ NoFurtherLine /\ OneLineAfterInterrupt /\ ShownSoFar /\ ShownInOrder
      /\ PingNeverLate
    BY <1>2 DEF NoFurtherLine, OneLineAfterInterrupt, ShownSoFar, ShownInOrder,
        PingNeverLate
<1>4. Answered(Len(recs)) = 0 /\ Cardinality(PingsGot) = 0
    <2>1. {k \in 1..Len(recs) : recs[k] = Pong} = {} /\ PingsGot = {}
        BY <1>2 DEF PingsGot
    <2> QED BY <2>1, FS_EmptySet DEF Answered
<1>5. PingsInStep
    BY <1>2, <1>4 DEF PingsInStep, Init
<1> QED BY <1>1, <1>3, <1>5 DEF ClientInv

LEMMA ClientInvNext ==
    ASSUME ClientInv, [Next]_vars
    PROVE  ClientInv'
<1>0. /\ ClientTypeOK /\ HistoryTypeOK /\ NoFurtherLine /\ OneLineAfterInterrupt
      /\ ShownSoFar /\ ShownInOrder /\ PingsInStep /\ PingNeverLate
    BY DEF ClientInv
<1>1. ClientTypeOK'
    BY <1>0, ClientTypeNext
<1>2. /\ typed' \in Seq([line : Line, running : BOOLEAN])
      /\ NoFurtherLine' /\ OneLineAfterInterrupt'
    BY <1>0, LinesNext DEF ClientTypeOK, HistoryTypeOK
<1>3. shown' \in Seq(Display) /\ PingNeverLate'
    BY <1>0, ShownNext
<1>4. ShownSoFar' /\ ShownInOrder'
    BY <1>0, <1>3, DisplayNext DEF HistoryTypeOK
<1>5. HistoryTypeOK'
    <2>1. request' \in Seq(ClientRequest) /\ pings' \in Seq(0..MaxTime)
        <3>1. ASSUME NEW line \in Line, ReadLine(line) PROVE <2>1
            <4>1. LineStep(line)
                BY <1>0, <3>1, LineRead DEF ClientTypeOK
            <4>2. request' \in Seq(ClientRequest)
                BY <4>1, SingleLength DEF LineStep
            <4>3. pings' = pings \/ pings' = Append(pings, clock)
                BY <4>1 DEF LineStep
            <4>4. pings \in Seq(0..MaxTime) /\ clock \in 0..MaxTime
                BY <1>0 DEF ClientTypeOK, HistoryTypeOK
            <4>5. Append(pings, clock) \in Seq(0..MaxTime)
                BY <4>4, OneMore
            <4> QED BY <4>2, <4>3, <4>4, <4>5
        <3>2. CASE ~ \E line \in Line : ReadLine(line)
            <4>1. pings' = pings /\ (request' = request \/ request' = << >>)
                BY <3>2, OtherSteps
            <4>2. request \in Seq(ClientRequest) /\ pings \in Seq(0..MaxTime)
                BY <1>0 DEF HistoryTypeOK
            <4> QED BY <4>1, <4>2, Few, Zenon
        <3> QED BY <3>1, <3>2
    <2>2. out' \in Seq(ClientRequest)
        <3>1. CASE pc = "write" /\ out' = Append(out, request[1])
            <4>1. request[1] \in ClientRequest
                <5>1. request \in Seq(ClientRequest) /\ Len(request) = 1
                    BY <1>0, <3>1 DEF ClientTypeOK, HistoryTypeOK
                <5> QED BY <5>1, ElementOfSeq
            <4> QED BY <1>0, <3>1, <4>1, OneMore DEF HistoryTypeOK
        <3>2. CASE UNCHANGED out
            BY <1>0, <3>2 DEF HistoryTypeOK
        <3> QED BY <3>1, <3>2, StreamSteps
    <2>3. pc' \in {"connect", "tls"} => recs' = << >> /\ m_ssl' = "garbage"
        BY <1>0, StreamSteps DEF HistoryTypeOK, ServerSends, Session
    <2> QED BY <1>2, <1>3, <2>1, <2>2, <2>3 DEF HistoryTypeOK
<1>6. PingsInStep'
    BY <1>0, <1>1, <1>5, PingsNext
<1> QED BY <1>1, <1>2, <1>3, <1>4, <1>5, <1>6 DEF ClientInv

LEMMA ClientInvHolds == Spec => []ClientInv
<1>1. Init => ClientInv
    BY ClientInvInit
<1>2. ClientInv /\ [Next]_vars => ClientInv'
    BY ClientInvNext
<1> QED BY <1>1, <1>2, PTL DEF Spec

\* The types hold, whatever the lines, the packets and the schedule; the reader
\* never takes a record that has not come in, and main writes one request at a time.
THEOREM ClientTypes == Spec => []ClientTypeOK
<1>1. ClientInv => ClientTypeOK
    BY DEF ClientInv
<1> QED BY <1>1, ClientInvHolds, PTL

\* After SIGINT main obeys the line it is waiting for and no other.
THEOREM OneLineOnly == Spec => []OneLineAfterInterrupt
<1>1. ClientInv => OneLineAfterInterrupt
    BY DEF ClientInv
<1> QED BY <1>1, ClientInvHolds, PTL

\* The reader displays packets in the order they came in, each once, and the rest
\* of a long one before any later packet.
THEOREM DisplayInOrder == Spec => []ShownInOrder
<1>1. ClientInv => ShownInOrder
    BY DEF ClientInv
<1> QED BY <1>1, ClientInvHolds, PTL

\* The time displayed for a pong is never more than its round trip, although a
\* later ping overwrites m_pingStart at any moment.
THEOREM RoundTripNeverLate == Spec => []PingNeverLate
<1>1. ClientInv => PingNeverLate
    BY DEF ClientInv
<1> QED BY <1>1, ClientInvHolds, PTL

----------------------------------------------------------------------------
(* Crashes.  What is needed beside the property: when m_ctx and m_ssl are  *)
(* live, and that main closes the socket before it frees anything.         *)

BeforeReader == {"connect", "tls", "spawn"}

CrashInv ==
    /\ pc \in {"connect", "tls"} => m_ctx = "garbage" /\ m_ssl = "garbage"
    /\ pc = "spawn" => m_ctx = "live" /\ m_ssl = "live"
    /\ pc \in BeforeReader => rd = "none"
    /\ pc \in {"loop", "getline", "write"} => rd # "none"
    /\ pc = "write" => typed # << >>
    /\ pc \in {"freectx", "freessl", "return"} => m_Sock = "closed"
    /\ m_ssl = "freed" => m_Sock = "closed"
    /\ rd = "none" /\ pc \notin BeforeReader => m_ctx # "live" /\ m_ssl # "live"
    /\ rd # "none" /\ ~Ended =>
            /\ m_ctx = "live" \/ pc \in {"freessl", "return"}
            /\ m_ssl = "live" \/ pc = "return"
    /\ CrashesExplained

LEMMA CrashNext ==
    ASSUME ClientInv, CrashInv, [Next]_vars
    PROVE  CrashInv'
<1> USE DEF mainVars, readerVars, clientVars, streamVars, historyVars, CrashInv,
        CrashesExplained, BeforeReader, Ended
<1>1. CASE initClientConnection \/ initTLS \/ StartReader \/ LoopTest
    BY <1>1 DEF initClientConnection, initTLS, StartReader, LoopTest
<1>2. CASE sendSSLPacketToServer
    BY <1>2 DEF sendSSLPacketToServer
<1>3. CASE CloseSocket \/ FreeCtx
    BY <1>3 DEF CloseSocket, FreeCtx
<1>4. CASE FreeSSL \/ Return
    BY <1>4 DEF FreeSSL, Return
<1>5. CASE ReaderTest \/ Poll \/ ReadRest \/ ReadTicket
    BY <1>5 DEF ReaderTest, Poll, ReadRest, ReadTicket
<1>6. CASE ReadPacket \/ ShowPing \/ ReadFails \/ ReadFreed
    BY <1>6 DEF ReadPacket, ShowPing, ReadFails, ReadFreed
<1>7. CASE Environment \/ EndOfInput
    BY <1>7 DEF Environment, ServerSends, RecordHead, ServerCloses, handleSignal, Tick,
        EndOfInput
<1>8. ASSUME NEW line \in Line, ReadLine(line) PROVE CrashInv'
    <2>1. typed \in Seq([line : Line, running : BOOLEAN]) /\ g_Running \in BOOLEAN
        BY DEF ClientInv, HistoryTypeOK, ClientTypeOK
    <2>2. /\ pc = "getline" /\ pc' \in {"unwind", "loop", "write"}
          /\ typed' = Append(typed, [line |-> line, running |-> g_Running])
          /\ UNCHANGED <<rd, m_Sock, m_ctx, m_ssl>>
        BY <1>8, <2>1, LineRead DEF LineStep
    <2>3. typed' # << >>
        BY <2>1, <2>2, AppendProperties
    <2> QED BY <2>2, <2>3
<1>9. CASE UNCHANGED vars
    BY <1>9 DEF vars
<1> QED BY <1>1, <1>2, <1>3, <1>4, <1>5, <1>6, <1>7, <1>8, <1>9
        DEF Next, MainStep, ReaderStep

\* The client crashes only when its set-up has failed, or with the reader inside
\* SSL_read while main writes a request or is in ~Client past the close of the socket:
\* whatever the server sends and whenever it closes, a connected client whose user
\* does nothing never does.
THEOREM CrashesHaveReasons == Spec => []CrashesExplained
<1>1. Init => CrashInv
    BY DEF Init, CrashInv, CrashesExplained, BeforeReader, Ended
<1>2. ClientInv /\ CrashInv /\ [Next]_vars => CrashInv'
    BY CrashNext
<1>3. CrashInv => CrashesExplained
    BY DEF CrashInv
<1> QED BY <1>1, <1>2, <1>3, ClientInvHolds, PTL DEF Spec

----------------------------------------------------------------------------
(* A line sends what is documented for it.                                 *)

\* The beginning of a sequence.
LEMMA Firsts ==
    ASSUME NEW S, NEW s \in Seq(S)
    PROVE  /\ Len(s) >= 1 => SubSeq(s, 1, 1) = <<s[1]>>
           /\ Len(s) >= 2 => SubSeq(s, 1, 2) = <<s[1], s[2]>>
<1>0. Len(s) \in Nat
    BY LenProperties
<1>1. ASSUME Len(s) >= 1 PROVE SubSeq(s, 1, 1) = <<s[1]>>
    <2> DEFINE t == SubSeq(s, 1, 1)
               u == <<s[1]>>
    <2>1. t \in Seq(S) /\ Len(t) = 1 /\ t[1] = s[1] /\ s[1] \in S
        BY <1>0, <1>1, SubSeqProperties, ElementOfSeq
    <2>2. u \in Seq(S) /\ Len(u) = 1 /\ u[1] = s[1]
        BY <2>1
    <2> HIDE DEF t, u
    <2>3. \A i \in 1..Len(t) : t[i] = u[i]
        BY <2>1, <2>2
    <2>4. t = u
        BY <2>1, <2>2, <2>3, SeqEqual
    <2> QED BY <2>4 DEF t, u
<1>2. ASSUME Len(s) >= 2 PROVE SubSeq(s, 1, 2) = <<s[1], s[2]>>
    <2> DEFINE t == SubSeq(s, 1, 2)
               u == <<s[1], s[2]>>
    <2>1. /\ t \in Seq(S) /\ Len(t) = 2 /\ t[1] = s[1] /\ t[2] = s[2]
          /\ s[1] \in S /\ s[2] \in S
        BY <1>0, <1>2, SubSeqProperties, ElementOfSeq
    <2>2. u \in Seq(S) /\ Len(u) = 2 /\ u[1] = s[1] /\ u[2] = s[2]
        BY <2>1
    <2> HIDE DEF t, u
    <2>3. \A i \in 1..Len(t) : t[i] = u[i]
        BY <2>1, <2>2
    <2>4. t = u
        BY <2>1, <2>2, <2>3, SeqEqual
    <2> QED BY <2>4 DEF t, u
<1> QED BY <1>1, <1>2

\* The first words of a line, and what is left of it.
LEMMA FirstWords ==
    ASSUME NEW line \in Seq(Word)
    PROVE  /\ Len(line) \in Nat
           /\ Len(line) = 0 <=> line = << >>
           /\ Len(line) >= 1 => SubSeq(line, 1, 1) = <<line[1]>>
           /\ Len(line) >= 2 => SubSeq(line, 1, 2) = <<line[1], line[2]>>
           /\ \A n \in 1..Len(line) :
                LET args == SubSeq(line, n + 1, Len(line))
                IN  /\ Len(SubSeq(line, 1, n)) = n
                    /\ args \in Seq(Word) /\ Len(args) = Len(line) - n
                    /\ \A i \in 1..(Len(line) - n) : args[i] = line[n + i]
<1>1. Len(line) \in Nat /\ (Len(line) = 0 <=> line = << >>)
    BY LenProperties, EmptySeq
<1>2. /\ Len(line) >= 1 => SubSeq(line, 1, 1) = <<line[1]>>
      /\ Len(line) >= 2 => SubSeq(line, 1, 2) = <<line[1], line[2]>>
    BY Firsts
<1>4. ASSUME NEW n \in 1..Len(line)
      PROVE  LET args == SubSeq(line, n + 1, Len(line))
             IN  /\ Len(SubSeq(line, 1, n)) = n
                 /\ args \in Seq(Word) /\ Len(args) = Len(line) - n
                 /\ \A i \in 1..(Len(line) - n) : args[i] = line[n + i]
    BY <1>1, SubSeqProperties
<1> QED BY <1>1, <1>2, <1>4

\* The commands of one word, and of two.
OneWord == {"echo", "add", "broadcast", "ping", "uptime", "counter", "client",
            "chat", "help"}
TwoWords == {<<"counter", "increment">>, <<"counter", "get">>,
             <<"client", "get-clients">>, <<"client", "set-username">>,
             <<"client", "send-msg">>, <<"chat", "get-rooms">>,
             <<"chat", "info">>, <<"chat", "join">>, <<"chat", "say">>}

LEMMA CommandsOf ==
    ASSUME NEW line \in Seq(Word)
    PROVE  /\ 1 \in Matches(line) <=> Len(line) >= 1 /\ line[1] \in OneWord
           /\ 2 \in Matches(line) <=>
                Len(line) >= 2 /\ <<line[1], line[2]>> \in TwoWords
           /\ Matches(line) \subseteq {1, 2}
           /\ 2 \in Matches(line) => 1 \in Matches(line)
<1>1. \A c \in Commands : Len(c) \in {1, 2}
    BY DEF Commands
<1>2. \A w : <<w>> \in Commands <=> w \in OneWord
    BY DEF Commands, OneWord
<1>3. \A v, w : <<v, w>> \in Commands <=> <<v, w>> \in TwoWords
    BY DEF Commands, TwoWords
<1>4. \A v, w : <<v, w>> \in TwoWords => v \in OneWord
    BY DEF TwoWords, OneWord
<1>f. /\ Len(line) \in Nat
      /\ Len(line) >= 1 => SubSeq(line, 1, 1) = <<line[1]>>
      /\ Len(line) >= 2 => SubSeq(line, 1, 2) = <<line[1], line[2]>>
    BY FirstWords
<1>5. 1 \in Matches(line) <=> Len(line) >= 1 /\ line[1] \in OneWord
    <2>1. 1 \in Matches(line) <=> 1 \in 1..Len(line) /\ SubSeq(line, 1, 1) \in Commands
        BY DEF Matches
    <2>2. 1 \in 1..Len(line) <=> Len(line) >= 1
        BY <1>f
    <2> QED BY <1>2, <1>f, <2>1, <2>2, Zenon
<1>6. 2 \in Matches(line) <=> Len(line) >= 2 /\ <<line[1], line[2]>> \in TwoWords
    <2>1. 2 \in Matches(line) <=> 2 \in 1..Len(line) /\ SubSeq(line, 1, 2) \in Commands
        BY DEF Matches
    <2>2. 2 \in 1..Len(line) <=> Len(line) >= 2
        BY <1>f
    <2> QED BY <1>3, <1>f, <2>1, <2>2, Zenon
<1>7. ASSUME NEW n \in Matches(line) PROVE n \in {1, 2}
    BY <1>1, FirstWords DEF Matches
<1> QED BY <1>4, <1>5, <1>6, <1>7, FirstWords

\* What documentation says of a line is said of its first words.
LEMMA Beginning ==
    ASSUME NEW line \in Seq(Word)
    PROVE  /\ \A w : IsPrefix(<<w>>, line) <=> Len(line) >= 1 /\ line[1] = w
           /\ \A v, w : IsPrefix(<<v, w>>, line) <=>
                Len(line) >= 2 /\ line[1] = v /\ line[2] = w
<1>1. ASSUME NEW w PROVE IsPrefix(<<w>>, line) <=> Len(line) >= 1 /\ line[1] = w
    <2>1. <<w>> \in Seq({w}) /\ Len(<<w>>) = 1 /\ <<w>>[1] = w
        OBVIOUS
    <2>2. SubSeq(<<w>>, 1, 1) = <<w>>
        <3> DEFINE s == <<w>>
        <3>1. s \in Seq({w}) /\ Len(s) >= 1 /\ s = <<s[1]>>
            BY <2>1
        <3> HIDE DEF s
        <3>2. SubSeq(s, 1, 1) = s
            BY <3>1, Firsts
        <3> QED BY <3>2 DEF s
    <2>3. Len(line) \in Nat /\ (Len(line) >= 1 => SubSeq(line, 1, 1) = <<line[1]>>)
        BY FirstWords
    <2> QED BY <2>1, <2>2, <2>3 DEF IsPrefix
<1>2. ASSUME NEW v, NEW w
      PROVE  IsPrefix(<<v, w>>, line) <=> Len(line) >= 2 /\ line[1] = v /\ line[2] = w
    <2>1. /\ <<v, w>> \in Seq({v, w}) /\ Len(<<v, w>>) = 2
          /\ <<v, w>>[1] = v /\ <<v, w>>[2] = w
        OBVIOUS
    <2>2. SubSeq(<<v, w>>, 1, 2) = <<v, w>>
        <3> DEFINE s == <<v, w>>
        <3>1. s \in Seq({v, w}) /\ Len(s) >= 2 /\ s = <<s[1], s[2]>>
            BY <2>1
        <3> HIDE DEF s
        <3>2. SubSeq(s, 1, 2) = s
            BY <3>1, Firsts
        <3> QED BY <3>2 DEF s
    <2>3. /\ Len(line) \in Nat
          /\ Len(line) >= 2 => SubSeq(line, 1, 2) = <<line[1], line[2]>>
        BY FirstWords
    <2> QED BY <2>1, <2>2, <2>3 DEF IsPrefix
<1> QED BY <1>1, <1>2

\* The arguments of a command of n words.
Args(line, n) == SubSeq(line, n + 1, Len(line))

LEMMA SentOne ==
    ASSUME NEW line \in Seq(Word), Len(line) >= 1, line[1] \in OneWord,
           ~ (Len(line) >= 2 /\ <<line[1], line[2]>> \in TwoWords)
    PROVE  SentFor(line) = Handler(<<line[1]>>, Args(line, 1))
<1>1. Matches(line) = {1}
    BY CommandsOf
<1>2. LongestMatch(line) = 1
    BY <1>1, LongestIsMatch
<1> QED BY <1>1, <1>2, FirstWords DEF SentFor, Args

LEMMA SentTwo ==
    ASSUME NEW line \in Seq(Word), Len(line) >= 2, <<line[1], line[2]>> \in TwoWords
    PROVE  SentFor(line) = Handler(<<line[1], line[2]>>, Args(line, 2))
<1>1. Matches(line) = {1, 2}
    BY CommandsOf
<1>2. LongestMatch(line) = 2
    <2>1. \A m \in Matches(line) : m <= 2
        BY <1>1
    <2>2. \E n \in Matches(line) : \A m \in Matches(line) : m <= n
        BY <1>1, <2>1
    <2>3. \A m \in Matches(line) : m <= LongestMatch(line)
        BY <2>2 DEF LongestMatch
    <2> QED BY <1>1, <2>3, LongestIsMatch
<1> QED BY <1>1, <1>2, FirstWords DEF SentFor, Args

\* The opcodes of requests.
Ops(sends) == [k \in 1..Len(sends) |-> sends[k].op]

LEMMA OpsOf ==
    /\ Ops(<< >>) = << >>
    /\ \A op, args : Ops(Sends(op, args)) = <<op>>
    BY DEF Ops, Sends

\* Which command the documentation takes a line for.
LEMMA DocumentedOps ==
    ASSUME NEW line \in Seq(Word)
    PROVE  LET one(w) == Len(line) >= 1 /\ line[1] = w
               two(v, w) == Len(line) >= 2 /\ line[1] = v /\ line[2] = w
           IN  /\ one("echo") => DocumentedOp(line) = "CMSG_ECHO_REQUEST"
               /\ one("broadcast") => DocumentedOp(line) = "CMSG_BROADCAST_MESSAGE"
               /\ one("add") => DocumentedOp(line) = "CMSG_ADDITION_REQUEST"
               /\ one("ping") => DocumentedOp(line) = "CMSG_PING"
               /\ one("uptime") => DocumentedOp(line) = "CMSG_UPTIME"
               /\ two("counter", "increment") =>
                    DocumentedOp(line) = "CMSG_INCREMENT_COUNTER"
               /\ two("counter", "get") => DocumentedOp(line) = "CMSG_GET_COUNTER"
               /\ two("client", "get-clients") =>
                    DocumentedOp(line) = "CMSG_GET_CLIENT_LIST"
               /\ two("client", "send-msg") =>
                    DocumentedOp(line) = "CMSG_SEND_MSG_TO_CLIENT"
               /\ two("chat", "get-rooms") => DocumentedOp(line) = "CMSG_GET_CHAT_ROOMS"
               /\ two("chat", "info") => DocumentedOp(line) = "CMSG_GET_ROOM_INFO"
               /\ two("chat", "join") => DocumentedOp(line) = "CMSG_JOIN_ROOM"
               /\ two("chat", "say") => DocumentedOp(line) = "CMSG_SAY"
               /\ \/ Len(line) = 0 \/ line[1] \notin OneWord \/ line[1] = "help"
                  \/ /\ line[1] \in {"counter", "client", "chat"}
                     /\ ~ (Len(line) >= 2 /\ <<line[1], line[2]>> \in TwoWords)
                  \/ two("client", "set-username")
                  => DocumentedOp(line) = "none"
<1> DEFINE is(w) == IsPrefix(w, line)
           one(w) == Len(line) >= 1 /\ line[1] = w
           two(v, w) == Len(line) >= 2 /\ line[1] = v /\ line[2] = w
<1>1. /\ \A w : is(<<w>>) <=> one(w)
      /\ \A v, w : is(<<v, w>>) <=> two(v, w)
      /\ Len(line) \in Nat
    BY Beginning, FirstWords
<1>2. DocumentedOp(line) =
        CASE one("echo") -> "CMSG_ECHO_REQUEST"
          [] one("broadcast") -> "CMSG_BROADCAST_MESSAGE"
          [] one("add") -> "CMSG_ADDITION_REQUEST"
          [] one("ping") -> "CMSG_PING"
          [] one("uptime") -> "CMSG_UPTIME"
          [] two("counter", "increment") -> "CMSG_INCREMENT_COUNTER"
          [] two("counter", "get") -> "CMSG_GET_COUNTER"
          [] two("client", "get-clients") -> "CMSG_GET_CLIENT_LIST"
          [] two("client", "send-msg") -> "CMSG_SEND_MSG_TO_CLIENT"
          [] two("chat", "get-rooms") -> "CMSG_GET_CHAT_ROOMS"
          [] two("chat", "info") -> "CMSG_GET_ROOM_INFO"
          [] two("chat", "join") -> "CMSG_JOIN_ROOM"
          [] two("chat", "say") -> "CMSG_SAY"
          [] OTHER -> "none"
    <2>1. /\ is(<<"echo">>) <=> one("echo")
          /\ is(<<"broadcast">>) <=> one("broadcast")
          /\ is(<<"add">>) <=> one("add")
          /\ is(<<"ping">>) <=> one("ping")
          /\ is(<<"uptime">>) <=> one("uptime")
          /\ is(<<"counter", "increment">>) <=> two("counter", "increment")
          /\ is(<<"counter", "get">>) <=> two("counter", "get")
          /\ is(<<"client", "get-clients">>) <=> two("client", "get-clients")
          /\ is(<<"client", "send-msg">>) <=> two("client", "send-msg")
          /\ is(<<"chat", "get-rooms">>) <=> two("chat", "get-rooms")
          /\ is(<<"chat", "info">>) <=> two("chat", "info")
          /\ is(<<"chat", "join">>) <=> two("chat", "join")
          /\ is(<<"chat", "say">>) <=> two("chat", "say")
        BY <1>1, Zenon
    <2> HIDE DEF is, one, two
    <2>2. DocumentedOp(line) =
        CASE is(<<"echo">>) -> "CMSG_ECHO_REQUEST"
          [] is(<<"broadcast">>) -> "CMSG_BROADCAST_MESSAGE"
          [] is(<<"add">>) -> "CMSG_ADDITION_REQUEST"
          [] is(<<"ping">>) -> "CMSG_PING"
          [] is(<<"uptime">>) -> "CMSG_UPTIME"
          [] is(<<"counter", "increment">>) -> "CMSG_INCREMENT_COUNTER"
          [] is(<<"counter", "get">>) -> "CMSG_GET_COUNTER"
          [] is(<<"client", "get-clients">>) -> "CMSG_GET_CLIENT_LIST"
          [] is(<<"client", "send-msg">>) -> "CMSG_SEND_MSG_TO_CLIENT"
          [] is(<<"chat", "get-rooms">>) -> "CMSG_GET_CHAT_ROOMS"
          [] is(<<"chat", "info">>) -> "CMSG_GET_ROOM_INFO"
          [] is(<<"chat", "join">>) -> "CMSG_JOIN_ROOM"
          [] is(<<"chat", "say">>) -> "CMSG_SAY"
          [] OTHER -> "none"
        BY DEF DocumentedOp, is
    <2> QED BY <2>1, <2>2
<1>3. Len(line) \in Nat
    BY <1>1
<1> HIDE DEF is
<1>4. ASSUME \/ Len(line) = 0 \/ line[1] \notin OneWord \/ line[1] = "help"
             \/ /\ line[1] \in {"counter", "client", "chat"}
                /\ ~ (Len(line) >= 2 /\ <<line[1], line[2]>> \in TwoWords)
             \/ two("client", "set-username")
      PROVE  DocumentedOp(line) = "none"
    <2>1. /\ ~one("echo") /\ ~one("broadcast") /\ ~one("add") /\ ~one("ping")
          /\ ~one("uptime")
        BY <1>3, <1>4 DEF OneWord
    <2>2. /\ ~two("counter", "increment") /\ ~two("counter", "get")
          /\ ~two("client", "get-clients") /\ ~two("client", "send-msg")
          /\ ~two("chat", "get-rooms") /\ ~two("chat", "info")
          /\ ~two("chat", "join") /\ ~two("chat", "say")
        BY <1>3, <1>4 DEF OneWord, TwoWords
    <2> HIDE DEF one, two
    <2> QED BY <1>2, <2>1, <2>2
<1>5. /\ one("echo") => DocumentedOp(line) = "CMSG_ECHO_REQUEST"
      /\ one("broadcast") => DocumentedOp(line) = "CMSG_BROADCAST_MESSAGE"
      /\ one("add") => DocumentedOp(line) = "CMSG_ADDITION_REQUEST"
      /\ one("ping") => DocumentedOp(line) = "CMSG_PING"
      /\ one("uptime") => DocumentedOp(line) = "CMSG_UPTIME"
    BY <1>2, <1>3
<1>6. /\ two("counter", "increment") => DocumentedOp(line) = "CMSG_INCREMENT_COUNTER"
      /\ two("counter", "get") => DocumentedOp(line) = "CMSG_GET_COUNTER"
      /\ two("client", "get-clients") => DocumentedOp(line) = "CMSG_GET_CLIENT_LIST"
      /\ two("client", "send-msg") => DocumentedOp(line) = "CMSG_SEND_MSG_TO_CLIENT"
      /\ two("chat", "get-rooms") => DocumentedOp(line) = "CMSG_GET_CHAT_ROOMS"
      /\ two("chat", "info") => DocumentedOp(line) = "CMSG_GET_ROOM_INFO"
      /\ two("chat", "join") => DocumentedOp(line) = "CMSG_JOIN_ROOM"
      /\ two("chat", "say") => DocumentedOp(line) = "CMSG_SAY"
    BY <1>2, <1>3
<1> QED BY <1>4, <1>5, <1>6, Zenon

\* When a line the documentation knows is complete.
LEMMA DocumentedIs ==
    ASSUME NEW line \in Seq(Word), NEW op, op = DocumentedOp(line)
    PROVE  /\ op = "none" => Documented(line) = << >>
           /\ op \in Opcode \ {"CMSG_ADDITION_REQUEST", "CMSG_SEND_MSG_TO_CLIENT",
                               "CMSG_JOIN_ROOM"} => Documented(line) = <<op>>
           /\ op = "CMSG_ADDITION_REQUEST" =>
                Documented(line) =
                    IF /\ Len(line) >= 3
                       /\ \A k \in 2..Len(line) : NumberType[line[k]] # "invalid"
                       /\ AdditionLength(Tail(line)) <= MaxPacket
                    THEN <<op>> ELSE << >>
           /\ op = "CMSG_SEND_MSG_TO_CLIENT" =>
                Documented(line) =
                    IF Len(line) >= 4 /\ is_unsigned_integer(line[3])
                    THEN <<op>> ELSE << >>
           /\ op = "CMSG_JOIN_ROOM" =>
                Documented(line) =
                    IF Len(line) \in {3, 4} /\ NumberType[line[3]] = "uint8"
                    THEN <<op>> ELSE << >>
<1>0. Len(line) \in Nat
    BY FirstWords
<1>1. op = "none" => Documented(line) = << >>
    BY DEF Documented
<1>2. op \in Opcode \ {"CMSG_ADDITION_REQUEST", "CMSG_SEND_MSG_TO_CLIENT",
                       "CMSG_JOIN_ROOM"} => Documented(line) = <<op>>
    BY DEF Documented, Opcode
<1>3. ASSUME op = "CMSG_ADDITION_REQUEST"
      PROVE  Documented(line) =
                IF /\ Len(line) >= 3
                   /\ \A k \in 2..Len(line) : NumberType[line[k]] # "invalid"
                   /\ AdditionLength(Tail(line)) <= MaxPacket
                THEN <<op>> ELSE << >>
    BY <1>0, <1>3 DEF Documented
<1>4. ASSUME op = "CMSG_SEND_MSG_TO_CLIENT"
      PROVE  Documented(line) =
                IF Len(line) >= 4 /\ is_unsigned_integer(line[3]) THEN <<op>> ELSE << >>
    BY <1>0, <1>4 DEF Documented, is_unsigned_integer
<1>5. ASSUME op = "CMSG_JOIN_ROOM"
      PROVE  Documented(line) =
                IF Len(line) \in {3, 4} /\ NumberType[line[3]] = "uint8"
                THEN <<op>> ELSE << >>
    <2>1. Documented(line) =
            IF /\ (IF Len(line) >= 3 THEN NumberType[line[3]] ELSE "invalid") = "uint8"
               /\ ~ (Len(line) >= 5)
            THEN <<op>> ELSE << >>
        BY <1>5 DEF Documented
    <2>2. \A n \in Nat : n \in {3, 4} <=> n >= 3 /\ ~ (n >= 5)
        OBVIOUS
    <2> QED BY <1>0, <2>1, <2>2
<1> QED BY <1>1, <1>2, <1>3, <1>4, <1>5

\* What the command table and its handlers send for a line is what is documented.
LEMMA SentAsDocumented ==
    ASSUME NEW line \in Line
    PROVE  Documented(line) = Ops(SentFor(line))
<1>0. line \in Seq(Word) /\ Len(line) \in Nat
    BY ClientAssumption, FirstWords DEF Word
<1> DEFINE w1 == line[1]
           pair == Len(line) >= 2 /\ <<line[1], line[2]>> \in TwoWords
           a1 == Args(line, 1)
           a2 == Args(line, 2)
<1>1. CASE Len(line) = 0 \/ w1 \notin OneWord
    <2>1. ~ pair
        BY <1>0, <1>1 DEF TwoWords, OneWord
    <2>2. Matches(line) = {}
        BY <1>0, <1>1, <2>1, CommandsOf
    <2>3. Ops(SentFor(line)) = << >>
        BY <2>2, OpsOf DEF SentFor
    <2>4. DocumentedOp(line) = "none"
        BY <1>0, <1>1, DocumentedOps
    <2> QED BY <1>0, <2>3, <2>4, DocumentedIs
<1>2. CASE Len(line) >= 1 /\ w1 \in OneWord /\ ~pair
    <2>s. SentFor(line) = Handler(<<w1>>, a1)
        BY <1>0, <1>2, SentOne
    <2>a. /\ Len(a1) = Len(line) - 1
          /\ \A i \in 1..(Len(line) - 1) : a1[i] = line[1 + i]
        <3>1. 1 \in 1..Len(line)
            BY <1>0, <1>2
        <3> QED BY <1>0, <3>1, FirstWords DEF Args
    <2>1. CASE w1 \in {"counter", "client", "chat", "help"}
        <3>1. Handler(<<w1>>, a1) = << >>
            BY <2>1 DEF Handler, Prints
        <3>2. DocumentedOp(line) = "none"
            BY <1>0, <1>2, <2>1, DocumentedOps
        <3> QED BY <1>0, <2>s, <3>1, <3>2, DocumentedIs, OpsOf
    <2>2. CASE w1 = "echo"
        <3>1. Handler(<<w1>>, a1) = Sends("CMSG_ECHO_REQUEST", a1)
            BY <2>2 DEF Handler, Prints
        <3>2. DocumentedOp(line) = "CMSG_ECHO_REQUEST"
            BY <1>0, <1>2, <2>2, DocumentedOps
        <3> QED BY <1>0, <2>s, <3>1, <3>2, DocumentedIs, OpsOf DEF Opcode
    <2>3. CASE w1 = "broadcast"
        <3>1. Handler(<<w1>>, a1) = Sends("CMSG_BROADCAST_MESSAGE", a1)
            BY <2>3 DEF Handler, Prints
        <3>2. DocumentedOp(line) = "CMSG_BROADCAST_MESSAGE"
            BY <1>0, <1>2, <2>3, DocumentedOps
        <3> QED BY <1>0, <2>s, <3>1, <3>2, DocumentedIs, OpsOf DEF Opcode
    <2>4. CASE w1 = "ping"
        <3>1. Handler(<<w1>>, a1) = Sends("CMSG_PING", << >>)
            BY <2>4 DEF Handler, Prints
        <3>2. DocumentedOp(line) = "CMSG_PING"
            BY <1>0, <1>2, <2>4, DocumentedOps
        <3> QED BY <1>0, <2>s, <3>1, <3>2, DocumentedIs, OpsOf DEF Opcode
    <2>5. CASE w1 = "uptime"
        <3>1. Handler(<<w1>>, a1) = Sends("CMSG_UPTIME", << >>)
            BY <2>5 DEF Handler, Prints
        <3>2. DocumentedOp(line) = "CMSG_UPTIME"
            BY <1>0, <1>2, <2>5, DocumentedOps
        <3> QED BY <1>0, <2>s, <3>1, <3>2, DocumentedIs, OpsOf DEF Opcode
    <2>6. CASE w1 = "add"
        <3>1. Handler(<<w1>>, a1) =
                IF AddAccepts(a1) THEN Sends("CMSG_ADDITION_REQUEST", a1) ELSE << >>
            BY <2>6 DEF Handler, Prints
        <3>2. DocumentedOp(line) = "CMSG_ADDITION_REQUEST"
            BY <1>0, <1>2, <2>6, DocumentedOps
        <3>3. a1 = Tail(line)
            BY <1>0, <1>2 DEF Args
        <3>4. AddAccepts(a1) <=>
                /\ Len(line) >= 3
                /\ \A k \in 2..Len(line) : NumberType[line[k]] # "invalid"
                /\ AdditionLength(Tail(line)) <= MaxPacket
            <4> HIDE DEF a1
            <4>1. Len(a1) >= 2 <=> Len(line) >= 3
                BY <1>0, <2>a
            <4>2. (\A i \in 1..Len(a1) : NumberType[a1[i]] # "invalid") <=>
                  \A k \in 2..Len(line) : NumberType[line[k]] # "invalid"
                <5>1. \A i \in 1..Len(a1) : 1 + i \in 2..Len(line) /\ a1[i] = line[1 + i]
                    BY <1>0, <2>a
                <5>2. \A k \in 2..Len(line) : k - 1 \in 1..Len(a1) /\ a1[k - 1] = line[k]
                    BY <1>0, <2>a
                <5> QED BY <5>1, <5>2
            <4> QED BY <3>3, <4>1, <4>2 DEF AddAccepts
        <3> HIDE DEF a1
        <3> QED BY <1>0, <2>s, <3>1, <3>2, <3>4, DocumentedIs, OpsOf
    <2> QED BY <1>2, <2>1, <2>2, <2>3, <2>4, <2>5, <2>6 DEF OneWord
<1>3. CASE pair
    <2> DEFINE command == <<line[1], line[2]>>
    <2>s. SentFor(line) = Handler(command, a2)
        BY <1>0, <1>3, SentTwo
    <2>a. /\ Len(a2) = Len(line) - 2
          /\ \A i \in 1..(Len(line) - 2) : a2[i] = line[2 + i]
        BY <1>0, <1>3, FirstWords DEF Args
    <2>e. /\ Len(line) >= 2
          /\ \A v, w : command = <<v, w>> => line[1] = v /\ line[2] = w
        BY <1>3
    <2>1. CASE command = <<"client", "set-username">>
        <3>1. Handler(command, a2) = << >>
            BY <2>1 DEF Handler, Prints
        <3>2. DocumentedOp(line) = "none"
            BY <1>0, <2>e, <2>1, DocumentedOps
        <3> QED BY <1>0, <2>s, <3>1, <3>2, DocumentedIs, OpsOf
    <2>2. CASE command = <<"counter", "increment">>
        <3>1. Handler(command, a2) = Sends("CMSG_INCREMENT_COUNTER", << >>)
            BY <2>2 DEF Handler, Prints
        <3>2. DocumentedOp(line) = "CMSG_INCREMENT_COUNTER"
            BY <1>0, <2>e, <2>2, DocumentedOps
        <3> QED BY <1>0, <2>s, <3>1, <3>2, DocumentedIs, OpsOf DEF Opcode
    <2>3. CASE command = <<"counter", "get">>
        <3>1. Handler(command, a2) = Sends("CMSG_GET_COUNTER", << >>)
            BY <2>3 DEF Handler, Prints
        <3>2. DocumentedOp(line) = "CMSG_GET_COUNTER"
            BY <1>0, <2>e, <2>3, DocumentedOps
        <3> QED BY <1>0, <2>s, <3>1, <3>2, DocumentedIs, OpsOf DEF Opcode
    <2>4. CASE command = <<"client", "get-clients">>
        <3>1. Handler(command, a2) = Sends("CMSG_GET_CLIENT_LIST", << >>)
            BY <2>4 DEF Handler, Prints
        <3>2. DocumentedOp(line) = "CMSG_GET_CLIENT_LIST"
            BY <1>0, <2>e, <2>4, DocumentedOps
        <3> QED BY <1>0, <2>s, <3>1, <3>2, DocumentedIs, OpsOf DEF Opcode
    <2>5. CASE command = <<"chat", "get-rooms">>
        <3>1. Handler(command, a2) = Sends("CMSG_GET_CHAT_ROOMS", << >>)
            BY <2>5 DEF Handler, Prints
        <3>2. DocumentedOp(line) = "CMSG_GET_CHAT_ROOMS"
            BY <1>0, <2>e, <2>5, DocumentedOps
        <3> QED BY <1>0, <2>s, <3>1, <3>2, DocumentedIs, OpsOf DEF Opcode
    <2>6. CASE command = <<"chat", "info">>
        <3>1. Handler(command, a2) = Sends("CMSG_GET_ROOM_INFO", << >>)
            BY <2>6 DEF Handler, Prints
        <3>2. DocumentedOp(line) = "CMSG_GET_ROOM_INFO"
            BY <1>0, <2>e, <2>6, DocumentedOps
        <3> QED BY <1>0, <2>s, <3>1, <3>2, DocumentedIs, OpsOf DEF Opcode
    <2>7. CASE command = <<"chat", "say">>
        <3>1. Handler(command, a2) = Sends("CMSG_SAY", a2)
            BY <2>7 DEF Handler, Prints
        <3>2. DocumentedOp(line) = "CMSG_SAY"
            BY <1>0, <2>e, <2>7, DocumentedOps
        <3> QED BY <1>0, <2>s, <3>1, <3>2, DocumentedIs, OpsOf DEF Opcode
    <2>8. CASE command = <<"client", "send-msg">>
        <3>1. Handler(command, a2) =
                IF Len(a2) >= 2 /\ is_unsigned_integer(a2[1])
                THEN Sends("CMSG_SEND_MSG_TO_CLIENT", a2) ELSE << >>
            BY <2>8 DEF Handler, Prints
        <3>2. DocumentedOp(line) = "CMSG_SEND_MSG_TO_CLIENT"
            BY <1>0, <2>e, <2>8, DocumentedOps
        <3>3. /\ Len(a2) >= 2 <=> Len(line) >= 4
              /\ Len(line) >= 4 => a2[1] = line[3]
            <4> HIDE DEF a2
            <4> QED BY <1>0, <2>a
        <3> HIDE DEF a2, command
        <3> QED BY <1>0, <2>s, <3>1, <3>2, <3>3, DocumentedIs, OpsOf
    <2>9. CASE command = <<"chat", "join">>
        <3>1. Handler(command, a2) =
                IF Len(a2) \in {1, 2} /\ NumberType[a2[1]] = "uint8"
                THEN Sends("CMSG_JOIN_ROOM", a2) ELSE << >>
            BY <2>9 DEF Handler, Prints
        <3>2. DocumentedOp(line) = "CMSG_JOIN_ROOM"
            BY <1>0, <2>e, <2>9, DocumentedOps
        <3>3. /\ Len(a2) \in {1, 2} <=> Len(line) \in {3, 4}
              /\ Len(line) \in {3, 4} => a2[1] = line[3]
            <4> HIDE DEF a2
            <4> QED BY <1>0, <2>a
        <3> HIDE DEF a2, command
        <3> QED BY <1>0, <2>s, <3>1, <3>2, <3>3, DocumentedIs, OpsOf
    <2> QED BY <1>3, <2>1, <2>2, <2>3, <2>4, <2>5, <2>6, <2>7, <2>8, <2>9 DEF TwoWords
<1> QED BY <1>0, <1>1, <1>2, <1>3

----------------------------------------------------------------------------
(* The server gets the requests of the lines typed.                        *)

\* Nothing is being written but inside SSL_write, or when the process has ended
\* there.
NothingPending == pc = "write" \/ Ended \/ request = << >>

\* A line's request is the one documented.
LEMMA LineRequest ==
    ASSUME NEW line \in Line, ReadLine(line)
    PROVE  Ops(request') = Documented(line) /\ (pc' = "write" \/ request' = << >>)
<1> DEFINE sends == SentFor(line)
           leaves == line # << >> /\ line[1] \in {"exit", "quit"}
<1>1. /\ request' = IF leaves THEN << >> ELSE sends
      /\ pc' = IF leaves THEN "unwind" ELSE IF sends = << >> THEN "loop" ELSE "write"
    BY DEF ReadLine, SentFor
<1>2. leaves => sends = << >>
    <2>1. line \in Seq(Word)
        BY ClientAssumption DEF Word
    <2>2. leaves => Matches(line) = {}
        BY <2>1, CommandsOf DEF OneWord
    <2> QED BY <2>2 DEF SentFor
<1>3. Documented(line) = Ops(sends)
    BY SentAsDocumented
<1> HIDE DEF sends, leaves
<1> QED BY <1>1, <1>2, <1>3

\* Any other step writes the request whole or leaves it, as long as the server and
\* the process are there; both are gone for good.
LEMMA RequestSteps ==
    ASSUME [Next]_vars, ~ \E line \in Line : ReadLine(line)
    PROVE  /\ server' = "up" => server = "up"
           /\ ~Ended' => ~Ended
           /\ server' = "up" /\ ~Ended' =>
                \/ UNCHANGED <<out, request>>
                \/ pc = "write" /\ out' = Append(out, request[1]) /\ request' = << >>
           /\ \/ UNCHANGED request /\ (pc' = pc \/ pc # "write" \/ Ended')
              \/ request' = << >>
<1> USE DEF mainVars, readerVars, clientVars, streamVars, historyVars
<1>1. CASE MainStep
    BY <1>1 DEF MainStep, initClientConnection, initTLS, StartReader, LoopTest,
        sendSSLPacketToServer, CloseSocket, FreeCtx, FreeSSL, Return, Ended
<1>2. CASE ReaderStep
    BY <1>2 DEF ReaderStep, ReaderTest, Poll, ReadRest, ReadTicket, ReadPacket,
        ShowPing, ReadFails, ReadFreed, Ended, PollErr
<1>3. CASE Environment \/ EndOfInput
    BY <1>3 DEF Environment, ServerSends, RecordHead, ServerCloses, handleSignal,
        Tick, EndOfInput, Ended
<1>4. CASE UNCHANGED vars
    BY <1>4 DEF vars, Ended
<1> QED BY <1>1, <1>2, <1>3, <1>4 DEF Next

LEMMA PendingNext ==
    ASSUME NothingPending, [Next]_vars
    PROVE  NothingPending'
<1>1. ASSUME NEW line \in Line, ReadLine(line) PROVE NothingPending'
    BY <1>1, LineRequest DEF NothingPending
<1>2. CASE ~ \E line \in Line : ReadLine(line)
    BY <1>2, RequestSteps DEF NothingPending
<1> QED BY <1>1, <1>2

\* Numbers of the lines that send a request.
LEMMA Ordinals ==
    ASSUME typed \in Seq([line : Line, running : BOOLEAN])
    PROVE  \A k \in 1..Len(typed) :
                /\ Ordinal(k) \in Nat /\ Ordinal(k) <= Ordinal(Len(typed))
                /\ Ordinal(Len(typed)) \in Nat
                /\ Documented(typed[k].line) # << >> => Ordinal(k) >= 1
<1> SUFFICES ASSUME NEW k \in 1..Len(typed)
             PROVE  /\ Ordinal(k) \in Nat /\ Ordinal(k) <= Ordinal(Len(typed))
                    /\ Ordinal(Len(typed)) \in Nat
                    /\ Documented(typed[k].line) # << >> => Ordinal(k) >= 1
    OBVIOUS
<1> DEFINE A == {j \in 1..k : Documented(typed[j].line) # << >>}
           B == {j \in 1..Len(typed) : Documented(typed[j].line) # << >>}
<1>1. Len(typed) \in Nat
    BY LenProperties
<1>2. /\ A \in SUBSET (1..Len(typed)) /\ B \in SUBSET (1..Len(typed)) /\ A \in SUBSET B
      /\ Documented(typed[k].line) # << >> => A # {}
    BY <1>1
<1>3. Ordinal(k) = Cardinality(A) /\ Ordinal(Len(typed)) = Cardinality(B)
    BY DEF Ordinal
<1> HIDE DEF A, B
<1>4. Cardinality(A) \in Nat /\ (A # {} => Cardinality(A) > 0)
    BY <1>1, <1>2, Positions
<1>5. Cardinality(B) \in Nat /\ Cardinality(A) <= Cardinality(B)
    BY <1>1, <1>2, Positions
<1> QED BY <1>2, <1>3, <1>4, <1>5

LEMMA RequestsNext ==
    ASSUME ClientTypeOK, HistoryTypeOK, NothingPending, RequestsAsTyped, [Next]_vars,
           HistoryTypeOK'
    PROVE  RequestsAsTyped'
<1> SUFFICES ASSUME server' = "up", ~Ended'
             PROVE  /\ Len(out' \o request') = Ordinal(Len(typed))'
                    /\ \A k \in 1..Len(typed') :
                        Documented(typed'[k].line) # << >> =>
                            Documented(typed'[k].line) =
                                <<(out' \o request')[Ordinal(k)'].op>>
    BY DEF RequestsAsTyped
<1> HIDE DEF ClientRequest
<1>0. /\ out \in Seq(ClientRequest) /\ request \in Seq(ClientRequest)
      /\ typed \in Seq([line : Line, running : BOOLEAN])
      /\ Len(out) \in Nat /\ Len(typed) \in Nat
    BY LenProperties DEF HistoryTypeOK
<1>1. ASSUME NEW line \in Line, ReadLine(line) PROVE RequestsAsTyped'
    <2> DEFINE e == [line |-> line, running |-> g_Running]
               N == Len(typed)
    <2>1. LineStep(line)
        BY <1>1, LineRead DEF ClientTypeOK
    <2>2. /\ pc = "getline" /\ typed' = Append(typed, e) /\ UNCHANGED <<out, server>>
          /\ Single(request')
        BY <2>1 DEF LineStep
    <2>3. Ops(request') = Documented(line)
        BY <1>1, LineRequest
    <2>4. request = << >> /\ ~Ended
        BY <2>2 DEF NothingPending, Ended
    <2>5. /\ Len(typed') = N + 1 /\ typed'[N + 1] = e
          /\ \A i \in 1..N : typed'[i] = typed[i]
          /\ \A i \in 1..(N + 1) : i \in 1..N \/ i = N + 1
        <3>1. e \in [line : Line, running : BOOLEAN]
            BY DEF ClientTypeOK
        <3> HIDE DEF e
        <3> QED BY <1>0, <2>2, <3>1, OneMore
    <2>6. e.line = line
        OBVIOUS
    <2> HIDE DEF e, N
    <2>7. out \o request = out
        BY <1>0, <2>4
    <2>8. /\ Len(out) = Ordinal(N)
          /\ \A k \in 1..N : Documented(typed[k].line) # << >> =>
                Documented(typed[k].line) = <<out[Ordinal(k)].op>>
        BY <2>2, <2>4, <2>7 DEF RequestsAsTyped, N
    <2>9. ASSUME NEW k \in 1..N PROVE Ordinal(k)' = Ordinal(k)
        <3>1. {j \in 1..k : Documented(typed'[j].line) # << >>} =
              {j \in 1..k : Documented(typed[j].line) # << >>}
            BY <1>0, <2>5 DEF N
        <3> QED BY <3>1 DEF Ordinal
    <2>10. Ordinal(Len(typed))' =
            IF Documented(line) # << >> THEN Ordinal(N) + 1 ELSE Ordinal(N)
        <3> DEFINE S == {j \in 1..N : Documented(typed[j].line) # << >>}
                   R == {j \in 1..(N + 1) : Documented(typed'[j].line) # << >>}
        <3>1. S \in SUBSET (1..N) /\ N \in Nat
            BY <1>0 DEF N
        <3>2. Documented(line) # << >> => R = S \cup {N + 1}
            BY <1>0, <2>5, <2>6 DEF N
        <3>3. Documented(line) = << >> => R = S
            BY <1>0, <2>5, <2>6 DEF N
        <3>4. Ordinal(Len(typed))' = Cardinality(R) /\ Ordinal(N) = Cardinality(S)
            BY <2>5 DEF Ordinal
        <3> HIDE DEF S, R
        <3>5. Cardinality(S \cup {N + 1}) = Cardinality(S) + 1
            BY <3>1, Positions
        <3>6. CASE Documented(line) # << >>
            BY <3>2, <3>4, <3>5, <3>6
        <3>7. CASE Documented(line) = << >>
            BY <3>3, <3>4, <3>7
        <3> QED BY <3>6, <3>7
    <2>11. CASE request' = << >>
        <3>1. Documented(line) = << >>
            BY <2>3, <2>11, OpsOf
        <3>2. out' \o request' = out
            BY <1>0, <2>2, <2>11
        <3>3. ASSUME NEW k \in 1..Len(typed'), Documented(typed'[k].line) # << >>
              PROVE  Documented(typed'[k].line) = <<(out' \o request')[Ordinal(k)'].op>>
            <4>1. k \in 1..N /\ typed'[k] = typed[k]
                BY <2>5, <2>6, <3>1, <3>3
            <4>2. Ordinal(k)' = Ordinal(k)
                BY <2>9, <4>1
            <4> QED BY <2>8, <3>2, <3>3, <4>1, <4>2
        <3> QED BY <2>8, <2>10, <3>1, <3>2, <3>3 DEF RequestsAsTyped
    <2>12. ASSUME NEW r \in ClientRequest, request' = <<r>>
           PROVE  RequestsAsTyped'
        <3>1. Documented(line) = <<r.op>> /\ Documented(line) # << >>
            BY <2>3, <2>12 DEF Ops
        <3>2. /\ Len(out' \o request') = Len(out) + 1
              /\ (out' \o request')[Len(out) + 1] = r
              /\ \A i \in 1..Len(out) : (out' \o request')[i] = out[i]
            <4>1. out' \o request' = Append(out, r)
                BY <1>0, <2>2, <2>12
            <4> QED BY <1>0, <4>1, OneMore
        <3>3. ASSUME NEW k \in 1..Len(typed'), Documented(typed'[k].line) # << >>
              PROVE  Documented(typed'[k].line) = <<(out' \o request')[Ordinal(k)'].op>>
            <4>1. CASE k \in 1..N
                <5>1. typed'[k] = typed[k] /\ Ordinal(k)' = Ordinal(k)
                    BY <2>5, <2>9, <4>1
                <5>2. Ordinal(k) \in 1..Len(out)
                    BY <1>0, <2>8, <3>3, <4>1, <5>1, Ordinals DEF N
                <5> QED BY <2>8, <3>2, <3>3, <4>1, <5>1, <5>2
            <4>2. CASE k = N + 1
                <5>1. Ordinal(k)' = Len(out) + 1
                    BY <2>5, <2>8, <2>10, <3>1, <4>2
                <5> QED BY <2>5, <2>6, <3>1, <3>2, <4>2, <5>1
            <4> QED BY <2>5, <4>1, <4>2
        <3> QED BY <2>8, <2>10, <3>1, <3>2, <3>3 DEF RequestsAsTyped
    <2> QED BY <2>2, <2>11, <2>12 DEF Single
<1>2. CASE ~ \E line \in Line : ReadLine(line)
    <2>1. /\ server = "up" /\ ~Ended /\ typed' = typed
          /\ \/ UNCHANGED <<out, request>>
             \/ pc = "write" /\ out' = Append(out, request[1]) /\ request' = << >>
        BY <1>2, RequestSteps, OtherSteps
    <2>2. out' \o request' = out \o request
        <3>1. CASE UNCHANGED <<out, request>>
            BY <3>1
        <3>2. CASE pc = "write" /\ out' = Append(out, request[1]) /\ request' = << >>
            <4>1. Len(request) = 1
                BY <3>2 DEF ClientTypeOK
            <4>2. PICK r \in ClientRequest : request = <<r>>
                BY <1>0, <4>1
            <4>3. out' \o request' = Append(out, r)
                BY <1>0, <3>2, <4>2
            <4> QED BY <1>0, <4>2, <4>3
        <3> QED BY <2>1, <3>1, <3>2
    <2>3. \A k : Ordinal(k)' = Ordinal(k)
        BY <2>1 DEF Ordinal
    <2>4. Ordinal(Len(typed))' = Ordinal(Len(typed))
        BY <2>1 DEF Ordinal
    <2> QED BY <2>1, <2>2, <2>3, <2>4 DEF RequestsAsTyped
<1> QED BY <1>1, <1>2 DEF RequestsAsTyped

\* The requests the server gets are those documented for the lines typed, in order
\* and once each, for every line and whatever the reader, an interrupt or the
\* server's packets do in between.
THEOREM RequestsFollowLines == Spec => []RequestsAsTyped
<1>1. Init => NothingPending /\ RequestsAsTyped
    <2> SUFFICES ASSUME Init PROVE NothingPending /\ RequestsAsTyped
        OBVIOUS
    <2>1. NothingPending
        BY DEF Init, NothingPending
    <2>2. Len(typed) = 0 /\ out \o request = << >>
        BY DEF Init
    <2>3. Ordinal(Len(typed)) = 0
        <3>1. {j \in 1..Len(typed) : Documented(typed[j].line) # << >>} = {}
            BY <2>2
        <3> QED BY <3>1, FS_EmptySet DEF Ordinal
    <2>4. Len(out \o request) = 0
        BY <2>2
    <2> QED BY <2>1, <2>2, <2>3, <2>4 DEF RequestsAsTyped
<1>2. /\ ClientInv /\ ClientInv' /\ NothingPending /\ RequestsAsTyped /\ [Next]_vars
      => NothingPending' /\ RequestsAsTyped'
    BY PendingNext, RequestsNext DEF ClientInv
<1> QED BY <1>1, <1>2, ClientInvHolds, PTL DEF Spec

=============================================================================
