---------------------------- MODULE PacketBuffer ----------------------------
(***************************************************************************)
(* Requests as bytes: how the client lays a command out (Client.cpp), how  *)
(* the record goes through the server's one 4096-byte buffer, and what the *)
(* handlers that look inside it (Server.cpp) make of the bytes.  Server    *)
(* takes a request for a record of fields; here is what that stands on.    *)
(*                                                                         *)
(* A command that is typed is one of                                       *)
(*   [op |-> "add", args |-> literals]          see NumParser              *)
(*   [op |-> "echo" or "broadcast", text |-> bytes]                        *)
(*   [op |-> "send-msg", to |-> literal, text |-> bytes]                   *)
(* and clients are known by their clientID; none comes or goes here.       *)
(***************************************************************************)
EXTENDS NumParser, SequencesExt

CONSTANTS
    Client,       \* the IDs of the clients being served
    Command,      \* commands that may be typed
    MaxCommands,  \* bound: commands per client
    BufferLen,    \* 4096
    RecordLen,    \* 16384, the most that TLS puts in one record
    IDLen,        \* sizeof(uint64_t), the length of a client ID on the wire
    Junk          \* values the bytes of memory may have at first

ASSUME PacketBufferAssumption ==
    /\ Client \subseteq Nat /\ MaxCommands \in Nat
    /\ BufferLen \in Nat /\ IDLen \in {1, 2, 4, 8} /\ BufferLen >= 2 + IDLen
    /\ RecordLen \in Nat /\ RecordLen >= BufferLen
    /\ Junk \subseteq 0..(Radix - 1)

Text == Seq(0..(Radix - 1))

\* An unsigned number that is typed for an ID has room in IDLen bytes: in the code
\* it is cast to uint64_t.
ASSUME CommandAssumption ==
    \A command \in Command :
        \/ command \in [op : {"echo", "broadcast"}, text : Text]
        \/ command \in [op : {"add"}, args : Seq(Literal)]
        \/ /\ command \in [op : {"send-msg"}, to : Literal, text : Text]
           /\ is_unsigned_integer(parse_number(command.to)) =>
                    parse_number(command.to).value < Span(IDLen)

VARIABLES
    typed,   \* commands each client has sent, in order
    inq,     \* their records, while they are in the server's socket
    pend,    \* what is left of a record SSL_read has begun to return, if any
    memory,  \* Server::buffer, and the members of Server that follow it
    got,     \* packets each client has been sent
    aborted  \* has an exception ended the server?

vars == <<typed, inq, pend, memory, got, aborted>>

OpcodeLen == 2
Overrun == OpcodeLen + IDLen + 8   \* how far handlers may read past the buffer

\* The opcodes whose handlers look at the bytes that follow; see Handlers for
\* the others, up to CMSG_SAY.
CMSG_ECHO_REQUEST == 1
CMSG_ADDITION_REQUEST == 2
CMSG_BROADCAST_MESSAGE == 3
CMSG_SEND_MSG_TO_CLIENT == 5
CMSG_SAY == 13

\* main's Server is a local variable whose constructor leaves the buffer alone: it
\* begins as whatever the stack held, here the same value everywhere.
Init ==
    /\ typed = [c \in Client |-> << >>]
    /\ inq = [c \in Client |-> << >>]
    /\ pend = [c \in Client |-> << >>]
    /\ \E b \in Junk : memory = [k \in 1..(BufferLen + Overrun) |-> b]
    /\ got = [c \in Client |-> << >>]
    /\ aborted = FALSE

----------------------------------------------------------------------------
(* The client.                                                             *)

\* htons: the high byte comes first.
htons(opcode) == <<opcode \div Radix, opcode % Radix>>

\* One [type][number bytes] of sendAdditionRequest.
EncodedNumber(n) == <<get_number_type(n)>> \o append_number(n)

sendAdditionRequest(numbers) ==
    htons(CMSG_ADDITION_REQUEST)
        \o FlattenSeq([i \in 1..Len(numbers) |-> EncodedNumber(numbers[i])])

sendClientMessage(clientID, msg) ==
    htons(CMSG_SEND_MSG_TO_CLIENT) \o LittleEndian(clientID, IDLen) \o msg

\* The packet of a command, or none when the command line refuses it.
Packets(command) ==
    CASE command.op = "echo" ->
            <<htons(CMSG_ECHO_REQUEST) \o command.text>>
      [] command.op = "broadcast" ->
            <<htons(CMSG_BROADCAST_MESSAGE) \o command.text>>
      [] command.op = "add" ->
            LET nums == [i \in 1..Len(command.args) |-> parse_number(command.args[i])]
                packet == sendAdditionRequest(nums)
            IN  IF /\ Len(nums) >= 2
                   /\ \A i \in 1..Len(nums) : nums[i] # Invalid
                THEN IF Len(packet) <= BufferLen THEN <<packet>> ELSE << >>
                ELSE << >>
      [] command.op = "send-msg" ->
            LET num == parse_number(command.to)
            IN  IF is_unsigned_integer(num)
                THEN <<sendClientMessage(num.value, command.text)>> ELSE << >>

Shorter(m, n) == IF m < n THEN m ELSE n

\* The records in which SSL_write sends the packet of a client's k-th command.
\* That number, and whether a packet begins here, are not on the wire.
SSL_write(packet, k) ==
    [i \in 1..((Len(packet) + RecordLen - 1) \div RecordLen) |->
        [k |-> k, first |-> i = 1,
         bytes |-> SubSeq(packet, (i - 1) * RecordLen + 1,
                          Shorter(i * RecordLen, Len(packet)))]]

\* A command that is refused leaves no trace.
Type(c, command) ==
    /\ Len(typed[c]) < MaxCommands
    /\ Packets(command) # << >>
    /\ typed' = [typed EXCEPT ![c] = Append(@, command)]
    /\ inq' = [inq EXCEPT ![c] = @ \o SSL_write(Packets(command)[1], Len(typed[c]) + 1)]
    /\ UNCHANGED <<pend, memory, got, aborted>>

----------------------------------------------------------------------------
(* The handlers, over the bytes of memory mem and the payloadSize n that   *)
(* SSL_read has returned.                                                  *)

ntohs(mem) == mem[1] * Radix + mem[2]

\* Mutated form: payloadSize, not payloadSize - sizeof(opcode).
PayloadTooLong(mem, n) == SubSeq(mem, OpcodeLen + 1, OpcodeLen + n)

\* _payload of CallHandler.
Payload(mem, n) == SubSeq(mem, OpcodeLen + 1, n)

\* The number whose type byte is at offset o, and the offset after it.
TypeAt(mem, o) == TypeOrder[mem[o + 1] + 1]
After(mem, o) == o + 1 + Size[TypeAt(mem, o)]
NumberAt(mem, o) == read_number(SubSeq(mem, o + 2, After(mem, o)), TypeAt(mem, o))

\* The numbers CallHandlerAdd finds from offset on; Invalid for a type byte that
\* read_number does not know, where it throws.
NumbersFrom(mem, n, offset) ==
    LET from[o \in Nat] ==
            IF o >= n THEN << >>
            ELSE IF mem[o + 1] >= Len(TypeOrder) THEN <<Invalid>>
            ELSE <<NumberAt(mem, o)>> \o from[After(mem, o)]
    IN  from[offset]

\* sum += static_cast<double>(value), both rounded.
AddDouble(sum, num) ==
    Nearest(sum + Nearest(num.value, DoublePrecision), DoublePrecision)

DoubleSum(nums) ==
    LET sum[k \in 0..Len(nums)] ==
            IF k = 0 THEN 0 ELSE AddDouble(sum[k - 1], nums[k])
    IN  sum[Len(nums)]

\* CallHandlerMsgToClient: whom the ID names, and the error for it.
RecipientID(mem) == FromLittleEndian(SubSeq(mem, OpcodeLen + 1, OpcodeLen + IDLen))

\* Mutated form: the text is looked for where the ID begins.
PrivateTextEarly(mem, n) == SubSeq(mem, OpcodeLen + 1, OpcodeLen + n)

\* payloadSize bytes from after the ID, though the ID and the opcode are counted
\* in payloadSize.
PrivateText(mem, n) ==
    SubSeq(mem, OpcodeLen + IDLen + 1, OpcodeLen + IDLen + n)

To(c, packet) == [d \in Client |-> IF d = c THEN <<packet>> ELSE << >>]

\* What CallHandler sends, and ProcessRequests for a record without an opcode.
CallHandler(c, mem, n) ==
    LET opcode == ntohs(mem)
        nums == NumbersFrom(mem, n, OpcodeLen)
        id == RecipientID(mem)
    IN  CASE n < OpcodeLen -> To(c, [op |-> "Invalid packet."])
          [] n >= OpcodeLen /\ opcode = CMSG_ECHO_REQUEST ->
                To(c, [op |-> "SMSG_ECHO_REQUEST", text |-> Payload(mem, n)])
          [] n >= OpcodeLen /\ opcode = CMSG_ADDITION_REQUEST ->
                IF n < OpcodeLen + 2 + 2 \/ Invalid \in Range(nums)
                THEN [d \in Client |-> << >>]
                ELSE To(c, [op |-> "SMSG_ADDITION_REQUEST",
                            sum |-> DoubleSum(nums)])
          [] n >= OpcodeLen /\ opcode = CMSG_BROADCAST_MESSAGE ->
                [d \in Client |-> <<[op |-> "SMSG_BROADCAST",
                                     text |-> Payload(mem, n)]>>]
          [] n >= OpcodeLen /\ opcode = CMSG_SEND_MSG_TO_CLIENT ->
                IF n < OpcodeLen + IDLen THEN [d \in Client |-> << >>]
                ELSE IF id = c \/ id \notin Client
                THEN To(c, [op |-> "SMSG_PRIVATE_MSG_ERR",
                            error |-> IF id = c THEN "ERR_MSG_TO_SELF"
                                      ELSE "ERR_NO_CLIENT_FOUND"])
                ELSE [d \in Client |->
                        CASE d = c -> <<[op |-> "SMSG_PRIVATE_MSG_ERR",
                                         error |-> "ERR_OK"]>>
                          [] d = id -> <<[op |-> "SMSG_PRIVATE_MESSAGE",
                                          text |-> PrivateText(mem, n)]>>
                          [] OTHER -> << >>]
          [] n >= OpcodeLen /\ (opcode = 0 \/ opcode > CMSG_SAY) ->
                To(c, [op |-> "SMSG_MESSAGE"])
          [] OTHER -> [d \in Client |-> << >>]

\* read_number throws in CallHandlerAdd, and nothing catches it.
Throws(mem, n) ==
    /\ n >= OpcodeLen + 2 + 2
    /\ ntohs(mem) = CMSG_ADDITION_REQUEST
    /\ Invalid \in Range(NumbersFrom(mem, n, OpcodeLen))

----------------------------------------------------------------------------
(* ProcessRequests, for one client that select has reported.               *)

\* Mutated form: a client whose record is not finished is not waited for.
ReadableDrained(c) == inq[c] # << >> /\ pend[c] = << >>

\* select sees the socket, not what the TLS session holds.
Readable(c) == inq[c] # << >>

\* The record SSL_read takes its bytes from: the one it has begun comes first.
Unread(c) == IF pend[c] # << >> THEN pend[c][1] ELSE inq[c][1]

Returned(c) == Shorter(Len(Unread(c).bytes), BufferLen)

\* What is left of that record.
Left(c) ==
    LET bytes == Unread(c).bytes
    IN  IF Returned(c) = Len(bytes) THEN << >>
        ELSE <<[k |-> Unread(c).k, first |-> FALSE,
                bytes |-> SubSeq(bytes, Returned(c) + 1, Len(bytes))]>>

SSL_read(c) ==
    /\ ~aborted /\ Readable(c)
    /\ pend' = [pend EXCEPT ![c] = Left(c)]
    /\ inq' = [inq EXCEPT ![c] = IF pend[c] # << >> THEN @ ELSE Tail(@)]

\* SSL_read and the handler.  Every packet is kept with the command it comes from.
Serve(c) ==
    /\ SSL_read(c)
    /\ LET n == Returned(c)
           mem == SubSeq(Unread(c).bytes, 1, n) \o SubSeq(memory, n + 1, Len(memory))
           replies == CallHandler(c, mem, n)
       IN  /\ memory' = mem
           /\ got' = [d \in Client |->
                        got[d] \o [i \in 1..Len(replies[d]) |->
                            [from |-> c, k |-> Unread(c).k, rest |-> ~Unread(c).first,
                             packet |-> replies[d][i]]]]
           /\ aborted' = Throws(mem, n)
    /\ UNCHANGED typed

Next ==
    \E c \in Client : Serve(c) \/ \E command \in Command : Type(c, command)

\* main's loop comes back to every client that select reports.  No step but Serve
\* reads from a socket.
Fairness == \A c \in Client : WF_<<pend, inq>>(SSL_read(c))

Spec == Init /\ [][Next]_vars /\ Fairness

----------------------------------------------------------------------------
(* Properties.                                                             *)

TextPacket == {"SMSG_ECHO_REQUEST", "SMSG_BROADCAST"}

Cut(text, room) == SubSeq(text, 1, Shorter(Len(text), room))

\* The packets got that answer the beginning of a packet.
Heads(op) ==
    UNION {{p \in Range(got[d]) : p.packet.op \in op /\ ~p.rest} : d \in Client}

Typed(p) == typed[p.from][p.k]

\* An echo and a broadcast carry the text that was typed, to every client, cut
\* where the buffer ends: no byte of another request, of another client or of
\* the memory after the buffer gets into them.
TextsAsTyped ==
    \A p \in Heads(TextPacket) :
        p.packet.text = Cut(Typed(p).text, BufferLen - OpcodeLen)

\* A private message reaches the client its ID was typed for and nobody else, and
\* begins with the text that was typed, cut where the buffer ends.
PrivateAsTyped ==
    \A d \in Client : \A p \in Range(got[d]) :
        p.packet.op = "SMSG_PRIVATE_MESSAGE" /\ ~p.rest =>
            /\ d = parse_number(Typed(p).to).value
            /\ IsPrefix(Cut(Typed(p).text, BufferLen - OpcodeLen - IDLen), p.packet.text)

\* The literals whose value float or double holds, hexadecimal ones that end in
\* the digit f aside.
Representable(l) ==
    /\ ~(l.hex /\ EndsInF(l))
    /\ l.mag <= (IF l.suffix = "F" THEN FloatPrecision ELSE DoublePrecision)

Total(values) ==
    LET upTo[k \in 0..Len(values)] == IF k = 0 THEN 0 ELSE upTo[k - 1] + values[k]
    IN  upTo[Len(values)]

\* The answer to an addition is the sum of the numbers as they were typed, however
\* many bytes and whichever type each travels as, when double can hold it.
SumAsTyped ==
    \A p \in Heads({"SMSG_ADDITION_REQUEST"}) :
        LET args == Typed(p).args
        IN  (/\ \A i \in 1..Len(args) : Representable(args[i])
             /\ Total([i \in 1..Len(args) |-> args[i].mag]) <= DoublePrecision)
            => p.packet.sum = Total([i \in 1..Len(args) |-> Exact(args[i])])

\* A record is served sooner or later even behind the rest of one that was longer
\* than the buffer, which select does not see; unless such a rest, which is taken
\* for a request, ends the server.
RecordsServed ==
    \A c \in Client : inq[c] # << >> ~> inq[c] = << >> \/ aborted

\* "// Get message": the message is the text that was typed, no more.  Violated.
PrivateExactly ==
    \A p \in Heads({"SMSG_PRIVATE_MESSAGE"}) : p.packet.text = Typed(p).text

=============================================================================
