# A TLA+ model of Communo

Communo is a chat and utility server and its command-line client (C++17, TCP with
TLS, SQLite for the rooms). This directory holds TLA+ modules that model both programs,
TLC configurations that check them on small instances, and TLAPS proofs of the
properties that hold for every instance. Paths below are relative to the repository.

## Inventory

| Component | Code | State | Operations |
|---|---|---|---|
| Main loop | `src/server/Main.cpp`, `Server.{h,cpp}` | `m_ClientSocket` (vector of `ClientSocket`), `m_Readfds`, `m_UniqueCLientCounter`, `m_ServerState`, `closingRequested` | `PoolActivity` (select with zero timeout), `HandleNewConnections` (blocking accept, TLS handshake of at most 10 s, message of the day), `ProcessRequests` (one `SSL_read` per ready client, `erase` on failure), `ClosingRequested`, `CloseServer` |
| Handlers | `Server.cpp` 551-1103 | each client's room and ID | `CallHandler` and its fourteen cases, replies by `SSL_write` |
| Chat rooms | `Chat.{h,cpp}` | `m_ChatRooms` | `checkRoomID`, `isRoomProtected` (inserts), `checkPasswordHash` (over-reads), `getChatRoomsStr`, `getRoomName` |
| Room database | `Database.{h,cpp}`, `sql/chat_rooms.sql` | SQLite handle | `loadRooms` once at start-up |
| Counter | `Universe.h` | `m_Counter`, 64 bits | increment, read |
| Client | `client/Client.{h,cpp}` | socket, TLS session, ping clock | connect, handshake, one send function per opcode, `processReplyFromServerIfAny` |
| Client CLI | `client/Main.cpp` | `g_Running`, command table | reads commands on the main thread; a detached thread polls for replies |
| Numbers | `common/NumParser.*` | none | parse, encode, decode |
| Start-up | `server/Main.cpp`, `Server::Init*` | options, descriptors | daemon, TLS context, listening socket, rooms |
| Logging, singletons, opcode tables | `common/` | log flags | output only |

The server is one process with one thread. What makes it hard is everything that
acts between two of its steps: clients that connect, send, stop reading, close
abruptly or are reset; TCP that delivers a record in pieces; signals; descriptors
that are recycled; and one vector that is walked, erased from and searched by every
handler. The components meet in `ProcessRequests`: it reads a record from one client
and a handler may write to all of them, change the room of one and insert into the
room registry. The client has two threads, one waiting for the user and one for the
server, that share a socket, a TLS session and the ping clock without a lock, and the
first ends the process without waiting for the second. Bytes make the third difficulty:
what the client lays out, the server finds in one buffer for all clients that is never
cleared, and the client finds in one of its own that may be too short.

What makes each part right:

- main loop: descriptors and clients correspond one to one; nobody is dropped without
  a reason of his own; what is sent is read, who queues is accepted; a signal ends it,
  unless it comes inside select;
- handlers: one answer per request, of the right kind, in order; private messages
  reach the ID they are addressed to and IDs are never reused;
- rooms: what is said in a protected room reaches only those who gave its password;
  only rooms of the database exist;
- counter: a reading counts every earlier increment;
- messages between clients: an author's messages arrive in order, two receivers agree
  on the order of what both get, nobody who reads misses one;
- client: each line sends the request documented for it, each packet is shown once and
  in order, leaving works whatever the reader is doing, and it crashes only where a
  set-up that failed is undone or both threads are in the TLS session;
- numbers and texts: what was typed is what is added, echoed and passed on;
- start-up: whatever fails, descriptors keep apart, the failure is reported, and a signal
  ends the process as far as the loop lets it.

`PROJECT.json` lists the hazards line by line.

## Modules

| Module | Models | Notes |
|---|---|---|
| `Chat` | `Chat.{h,cpp}`, `Database.cpp`, the table's constraints | operators on `m_ChatRooms`; no variables |
| `Network` | kernel, TLS and clients as the server sees them | variables `backlog`, `peer`, `partial`, `sent`, `read`, `outq`; mostly external |
| `Handlers` | `CallHandler*`, `SendSSLPacketToClientSocket` | extends both; one action per handler |
| `Server` | `main`'s loop, `PoolActivity`, `HandleNewConnections`, `ProcessRequests`, shutdown, signals | the specification |
| `ServerProperties` | what is claimed | |
| `ChatService` | what the server promises about messages between clients | abstract specification |
| `ServerRefinement` | `Server` as an implementation of `ChatService` | the refinement mapping |
| `ClientDisplay` | the client's reading of the server's packets | extends `Server`: the two programs' tables side by side |
| `ClientApp` | the client process: `client/Main.cpp` over `Client.{h,cpp}` | two threads, teardown, the server as an environment |
| `ClientProperties` | what is claimed of the client | |
| `NumParser` | `common/NumParser.cpp` | operators only |
| `PacketBuffer` | requests as bytes: client's layout, server's buffer, the handlers that look inside | extends `NumParser` |
| `Startup` | `server/Main.cpp`, `Server::Init*`, `Database`'s constructor, `Logger` | the table of descriptors |
| `MCServer`, `MCChatService`, `MCClient`, `MCPacketBuffer`, `MCStartup` | instances for TLC | |
| `Subsequence` | none: the elements of a sequence at given positions | used by the properties and the refinement |
| `ServerProofs` | types, descriptors and IDs, proved | |
| `LoopProofs` | what a handler writes; how the process may end and whom it drops, proved | extends `ServerProofs` |
| `DeliveryProofs` | who gets which packet, answers in order, counter values, proved | extends `LoopProofs` |
| `ChatProofs` | room privacy and the refinement of `ChatService`, proved | extends `DeliveryProofs` |
| `ChatServiceProofs` | order of messages, proved | |
| `PacketProofs` | integers and texts arrive as typed, proved | extends `PacketBuffer` |
| `StartupProofs` | descriptors of the daemon and reports of failures, proved | |
| `ClientProofs` | the client's invariants, proved | |

State and code. `m_ClientSocket`, `m_ChatRooms`, `m_Counter`, `m_Readfds`,
`m_UniqueCLientCounter`, `closingRequested` and `m_ServerState` are the variables of
those names. `it` is the position of `ProcessRequests`' iterator, `pc` where the
thread is, `newClient` the local `client` of `HandleNewConnections` (a sequence of at
most one). `sock` is the process's table of client descriptors, which the code does
not keep but the kernel does: without it a double or a missing `close` could not be
seen. `idOf` is a history variable. `sent`, `read` and `outq` keep the whole
conversation of each connection, so that replies can be compared with requests.

Steps. The thread's steps are cut where the outside can interfere in a way the code
can notice: before select, around accept, around the handshake, between two positions
of the iterator, before `closingRequested` is tested. A handler is one step. Its
writes go to several sockets in turn, and nothing that happens in between changes what
the handler does, except that a reset may arrive: `HandlerSends` therefore lets the
process be killed at any write that can meet a reset, after delivering the earlier ones.

A request is abstracted to its opcode and to what the handler tells apart: the length
checks (`short`), an unknown number type (`badtype`), a record of one byte (`runt`),
the room and digest of a join, the addressee of a private message. The text a request
carries is its tag, `<<connection, number>>`, so that a property can say whose text
arrived where. Digests have `DigestLen` bytes; the position of NUL bytes is what
matters to the code, since hashes pass through C strings. `checkPasswordHash` copies 32
bytes out of a shorter string when the stored hash holds a NUL; the model lets those
bytes be anything after the terminator.

How the modules fit. `Server` is the middle: it takes a request for a record of fields,
which `PacketBuffer` justifies byte by byte; starts where `Startup` ends, whose
`ConsoleApart` is why `Handlers` may assume that no client has descriptor 0; and sends
packets that `ClientDisplay` reads as the client does. `ClientApp` is the other end of a
connection, and `ChatService` what several of them get out of `Server`.

`ChatService` knows who is present and in which room, what each has asked for, how many
requests were handled and what was received. A post reaches all of its audience that
reads in one step, or part of it if the service goes down in that step. Broadcasts and
messages to a room cannot be passed over; joins and private messages may be refused.
`ImplementsChatService` maps the vector of clients to presence and rooms, `peer` to
reading, `sent` and `read` to what is asked and handled, `outq` to the messages received
and `Running` to being up. `AuthorOrder` and `SameOrder` are then properties of the
server's conversations, although `Server` never mentions them.

`ClientApp` has the main thread in `pc` and the reader in `rd`. Its steps are cut at
every access of one thread to what the other uses: the test of `g_Running`, poll,
`SSL_read`, `SSL_write`, the store to and the load of `m_pingStart`, `close`,
`SSL_CTX_free`, `SSL_free`. `recs` are the TLS records that have come in, the first of
them the session ticket that follows a TLS 1.3 handshake; `part` is the head of a record
under way; `rest` are pieces of a packet longer than the buffer that the session still
holds. `typed`, `pings` and `shown` are histories.

`NumParser` sees a word as a `Literal`: sign, hexadecimal prefix, magnitude, point or
exponent, suffix. `PacketBuffer` has the byte sequences of requests, in records of at
most `RecordLen` bytes as `SSL_write` splits them, the buffer with the members of
`Server` behind it (`memory`), and what each client is sent. `Startup` has `main`'s steps
and, for each open descriptor, what it is. Of the loop it has the steps that decide
whether it goes on: `PoolActivity` and, interrupted by a signal, `PoolInterrupted`, which
leaves the listening socket's bit set; the accept that then waits for a connection
(`NothingAccepted`, `Accept`); `ProcessRequests`; the test of `closingRequested`.

Undefined behaviour. `~ClientSocket` calls `SSL_shutdown` on the session it has just
freed. It runs with a session when the last client of the vector is erased and at exit;
there the model lets the process crash or go on. The same holds in `ClientApp` for
`SSL_write` while the other thread is in `SSL_read`, for `SSL_read` on the session
`~Client` has freed, and for freeing what is freed or was never set (`Client`'s
constructor leaves `m_ctx` and `m_ssl` as they are); in `Startup` for a freed context
and for `FD_SET` of -1. The load of `m_pingStart` races with its store; the variable is
one machine word, so the old or the new value is read. Of what unsynchronised use of the
session can do, the model has the crash and the case that nothing happens; a session that
goes on with corrupted records is not modelled, so that `RequestsAsTyped` and
`ShownInOrder` are claims up to such a corruption. `CrashesExplained` says when the crash
can happen at all. The bytes of `Server`'s buffer
before the first request are arbitrary, as the object is a local of `main`.

## Bounds

`Conn` bounds connection attempts, `MaxReq` requests per connection, `Fd` descriptors,
`BacklogLimit` the accept queue (the kernel keeps one more than the 3 of `listen`),
`MaxListed` how many clients fit in a client list (272 in the code: 15 bytes each and 6
for "(you)" in 4096 - 3), `CounterMod` the counter's range, 3 in `counter` so that it
wraps. The client-ID counter is 64
bits wide in the code and unbounded here; 2^64 connections are out of reach.

`Splitting` and `Stalling` name the connections whose records may be split and whose
client may stop reading; `MaySignal` switches signals. Runs that are not about these
turn them off to spend their states elsewhere.

`ClientApp`: `MaxLines` lines, `MaxRecords` records (the ticket is one), `MaxTime`
readings of the clock, `MaxPacket` bytes of an addition (4096 in the code). Two pings
and two pongs suffice for a pong to be taken for the wrong ping; two packets, one of
them long, for a rest to be overtaken. `MCClient` further bounds the product: packets
beyond the ticket, split records and time only come with pings and exit (`Bounded`). In
`MCPacketBuffer` an addition is the only command of its behaviour (`Allowed`), since its
answer depends on nothing an earlier request leaves behind. Neither bound blocks a step
of the programs, only of the user, the server or the clock.

`PacketBuffer` and `NumParser` scale the byte: `Radix` is 12 in the runs and 256 in the
code, since 256^8 is beyond TLC's integers. The types' ranges, the type bytes 0 to 9 and
unknown ones, and the limits of float and double (`FloatPrecision`, `DoublePrecision`)
scale with it; `IntegersKeepTheirValue` is proved for every even radix from 10. A client
ID has `IDLen` = 2 bytes, the buffer 20 and a record at most 26 (8, 4096 and 16384 in the
code), so that requests fit the buffer, fill it, exceed it and take two records. `ChatService` is checked for 2 connections with 2 requests each; its
properties are proved for any number. `Startup` has 7 descriptors, some inherited.

## Runs

Deadlock is not checked because both processes may end.

| Run | Instance | Checks |
|---|---|---|
| `all_requests` | 1 client, every request, 2 per connection, splitting, stalling, signals | `TypeOK`, `InOrderAnswers`, `EndsExplained`, `ErrorsExplained` |
| `counter` | 2 clients, increments, readings, broadcasts, 2 each, stalling | `InOrderAnswers`, `CounterReads`, `ImplementsChatService` |
| `client_ids` | 3 connections, 2 descriptors, lists of at most 2, 1 request each | `SocketTable`, `ClientIDs`, `PrivateDelivery`, `ListsNameReceiver`, `ImplementsChatService` |
| `chat_rooms` | 2 clients, 2 requests each among say and joins of two protected rooms, of one with the right and of the other with a wrong hash; table loaded wholly or in part, and a room that was not loaded can be joined without password at the second try | `RoomPrivacy`, `ImplementsChatService` |
| `loop` | 2 clients, 2 requests each, splitting, signals | `DropsExplained`, `RequestsServed`, `QueuedAccepted`, `ShutdownCompletes` |
| `chat_service` | the abstract service, 2 connections, 2 requests each | `AuthorOrder`, `SameOrder` |
| `client` | 2 of 27 lines, complete and wanting, with interrupts and a server that closes; with pings and exit also 3 records, long or split, and the clock | `ClientTypeOK`, `RequestsAsTyped`, `OneLineAfterInterrupt`, `ShownInOrder`, `PingNeverLate`, `CrashesExplained`, `ExitCompletes`, `PacketsShown` |
| `packets` | one of some 7000 additions of numbers around all limits; or 2 clients with 2 of 10 texts and private messages each, longer than the buffer and than a record too | `SumAsTyped`, `TextsAsTyped`, `PrivateAsTyped`, `RecordsServed` |
| `startup` | all options, failures, signals at every step, inside select too, connections | `ConsoleApart`, `FailuresReported`, `SignalEnds` |

`EndsExplained` lists the ways the server may end and holds each against its cause; that
no other sequence of requests ends it, and that a client which stops reading does not,
is what it claims. `ImplementsChatService` is checked for each kind of message:
broadcasts, with clients that stall (`counter`), messages to rooms (`chat_rooms`) and
private ones (`client_ids`).

Why these are enough: recycling a descriptor takes one client that leaves and one that
comes, reusing an ID a third that remembers it; exhaustion takes one connection more
than descriptors; erasing in the middle of the vector takes two clients; a message
overtaking an answer takes two clients and two requests; a join that is forgotten takes
two joins by one client while another speaks. Two receivers can disagree on an order
only about two messages. A stale byte takes one earlier request, the rest of a record
one more; a reader stuck in `SSL_read` takes one ticket. All are within the instances
above.

Runs that end in a violation compare the code with what the repository says of it:

| Run | The repository says | The code |
|---|---|---|
| `phantom_room` | `Server.cpp:1063` "the room is valid" | a refused join inserts the room through `operator[]`; the next join succeeds |
| `nul_hash` | `chat_rooms.sql:9` hash of 32 bytes or NULL | a hash that starts with a NUL byte loads as no password |
| `private_exactly` | `Server.cpp:898` "Get message" | ten bytes of earlier requests follow; an empty message is never refused |

Further places where the program does not do what it says. They are in the model, have
no run of their own, and the properties are stated around them:

| The repository says | The code | Stated around it |
|---|---|---|
| `Server.cpp:437` "its an incoming connection" | after EINTR every bit is still set; accept blocks with an empty queue | `ShutdownCompletes` and `SignalEnds` allow the process to hang there |
| `Server.cpp:514` logs "Host disconnected" | WANT_READ is taken for a disconnect and the connected client dropped | a reason in `DropsExplained` |
| `Server.cpp:566` "check return codes" | SIGPIPE ends the process in the second write to a departed client | a cause in `EndsExplained` |
| `Server.cpp:533` "Invalid packet." | no opcode in front; the client prints "Received unknown opcode" | `ErrorsExplained` speaks of packets with an error |
| `Client.cpp:253` "Non-blocking SSL connection: try again later." | the socket is blocking; after a ticket or half a record `SSL_read` waits for the server's next packet | `ExitCompletes` and `PacketsShown` hold nevertheless |
| `Client.cpp:646` "Store initial ping start" | the second ping overwrites it before the first pong | `PingNeverLate` says what remains true of a pong's time |
| `Client.cpp:33` "Freeing socket: " | after a failed handshake socket and context are closed and freed already | a reason in `CrashesExplained`; `ExitCompletes` counts the crash as an end |
| `NumParser.cpp:204` "Explicit float suffix." | the digit f of 0xff is taken for one | `SumAsTyped` leaves out hexadecimal numbers that end in f |
| `Main.cpp:208` " Server started." | said without TLS context or socket as well | `FailuresReported`: an error has been logged before |
| `Logging.cpp:43` "case LOG_LEVEL_DEBUG:" | masks are compared with flags; debug entries and warnings are logged as LOG_INFO | `FailuresReported` is about errors, whose mask is one bit |

Moreover `RoomPrivacy` speaks of rooms whose hash was loaded whole; `InOrderAnswers` of
clients that are up while the process runs; `PrivateAsTyped` says that a message begins
with its text; `SumAsTyped` leaves out sums that double cannot hold; `RecordsServed` ends
where an exception ends the server; and an exception of the `Database` constructor, which
`FailuresReported` does not mention, ends a daemon without an entry in the log.

## Fairness

`Fairness == WF_vars(ServerStep)`: the scheduler runs the one thread whenever it is not
blocked, and the handshake ends because of its deadline. It is blocked only in accept
with nothing queued. Nothing is assumed of clients, the network or signals; a client may
stay silent, or stop reading, for ever.

`ClientApp` has weak fairness for each of the two threads: both are runnable whenever
they are not blocked in getline or in `SSL_read`. Nothing is assumed of the user, the
server or the network; `PacketsShown` holds although the reader may be inside
`SSL_read`, because what it waits for is the packet. `PacketBuffer` has weak fairness
for reading from each client that select reports, which is what the loop's walk over the
vector gives (`RequestsServed` shows it of `Server`); it is stated of `SSL_read`, the part
of `Serve` that no other step performs. `Startup` has weak fairness for
`main`'s steps, which are not enabled in accept with nothing queued; nothing is assumed of
signals, nor that a client connects and so ends the wait. `SignalEnds` therefore says that
the process ends or stays in that accept for good.

## Proofs

TLAPS proves, for every value of the constants that satisfies the named assumptions
(`ChatAssumption`, `NetworkAssumption`, `HandlersAssumption`, `RequestAssumption`,
`ServerAssumption`; `ClientAssumption`; `NumParserAssumption`, `PrecisionAssumption`,
`PacketBufferAssumption`, `CommandAssumption`;
`StartupAssumption`), what follows. Nothing bounds the number of connections, requests,
rooms, lines or records, and `Conn` need not be finite.

Server:

- `TypeCorrect`: `Spec => []TypeOK`. `TypeOK` is inductive by itself. The work is in
  the handlers: `HandlersHaveEffect` shows once what any handler may leave behind
  (`HandlerEffect`), from lemmas on `HandlerSends`, on `operator[]` (`SubscriptedRooms`)
  and on the packets built. That `CString`'s CHOOSE has a witness (`CStringPrefix`)
  needs the least-number principle (`LeastNat`, from well-foundedness of < on Nat).
  The iterator's bound rests on `ErasedProperties`.
- `DescriptorsCorrect`: `Spec => []SocketTable`, inductive with `TypeOK`. The argument
  is on `Held`, the vector followed by the client being accepted: a step keeps it
  (`HeldKept`), adds one at the end with a descriptor that was closed (`HeldAdded`), or
  removes one position together with its descriptor (`HeldRemoved`).
- `UniqueClientIDs`: `Spec => []ClientIDs`. Not inductive: nothing in it says that the
  next ID is new, or that the connection at the head of the queue has none yet.
  `ConnectionsOnce` adds both.
- `ProtectedRoomsPrivate`: `Spec => []RoomPrivacy`. Not inductive: it speaks of packets
  received, the handler decides by `joinedChatRoomID`. `MembersShown` adds that every
  client in a protected room has sent its password's hash; it is kept because
  `operator[]` changes no room that is present and inserts none with a password, because
  a whole hash leaves the over-read no freedom (`WholeHashDecides`), and because what a
  client has sent stays sent.
- `EndsAreExplained` and `DropsAreExplained`: `Spec => []EndsExplained` and
  `Spec => DropsExplained`, an action property. What a handler writes is settled once:
  `Writes` says that it throws, is silent, or writes a script of at most one answer and
  one message for others, and `HandlerWrites` shows it case by case of `CallHandler`. Why
  a process ends is then a matter of the few steps that change `pc`. A dropped client's
  reason needs the bits of `m_Readfds`: `BitsExplained` says that a client not yet visited
  whose bit is set has something to be read, unless select was interrupted, and that
  no bit is that of a descriptor opened since; `HeldOnce`, that no connection is held
  twice, is what keeps one client's reading from emptying another's. The invariants of the
  server are collected in `ServerInv`.
- `PrivateMessagesDelivered`, `ListsAreRight` and `RefusalsExplained`. A packet in `outq`
  was written in the past, the properties speak of the present. `PacketInv` says of
  each kind of packet what was true when it was written in terms that stay true
  (`Truthful`): IDs are kept in `idOf` for ever and requests in `sent`. `RequestPackets`
  reduces a step to the script of its handler, `NewTruth` shows the script truthful and
  `TruthKept` that no step makes a packet false.
- `AnswersInOrder` and `CounterValuesRight`: `Spec => []InOrderAnswers` and
  `Spec => []CounterReads`, by one invariant (`AnswersInv`). Neither is inductive: nothing
  says that a connection that comes up has been sent nothing and has had nothing read
  (`NothingRead`, with `Truthful`), or what `m_Counter` counts. `CounterInv` says that the
  requests to increment that were read are finitely many and differ from `m_Counter` by a
  multiple of its range. A step appends at most one answer to one client's packets,
  however many posts it delivers (`ChosenDelivered`), and at most one request to those
  owed an answer (`DueNext`); the two go together in every handler.
- `ServerImplementsService`: `Spec => ImplementsChatService`, the refinement. Every step
  is mapped, kind by kind: connecting, accepting, leaving, a request handled, the end of
  the process. A handled request is the hard one: its script's message for others is
  the service's post, its receivers the service's audience, and what is passed over may be
  passed over. Writing to a departed client may kill the process halfway, which is the
  service's partial delivery. Needed are `ServerInv`, so that positions of the vector and
  connections correspond one to one, and `VectorInv`: every client of the vector has TLS,
  is in a room the server knows or in none, and one being accepted is in none.
- `MessagesInOrder`: `AuthorOrder` and `SameOrder` of the server's own conversations. It
  is the theorem of the abstract service under the refinement mapping, not proved anew.

Abstract service:

- `ServiceTypeCorrect`, `AuthorOrderHolds` and `SameOrderHolds`, of the abstract
  service. Neither order is inductive: both need `FromHandled`, that a message received
  comes from a request already handled, so that the message being posted is new to
  everybody. `SameOrder` then holds because a new message goes to the end of every inbox
  at once, and what is before it was before it for all.
Client. The theorems are about `ClientApp`'s `Spec`; the run adds bounds on the user, the
server and the clock (`Bounded`), so that it explores some of the behaviours proved about.

- `ClientTypes`, `OneLineOnly`, `DisplayInOrder` and `RoundTripNeverLate`:
  `Spec => []ClientTypeOK`, `[]OneLineAfterInterrupt`, `[]ShownInOrder`, `[]PingNeverLate`, by
  one invariant (`ClientInv`). None is inductive. The types need those of the histories
  (`HistoryTypeOK`). That no second line follows an interrupt needs that main does not
  come back to getline (`NoFurtherLine`). The order of the display needs how far it is
  behind the records taken: by a pong whose time is not shown yet, or by the rest of a
  packet (`ShownSoFar`). A pong's time needs that a ping is noted before it is sent, sent
  before it is answered and answered before the pong is read, with main anywhere between
  the store to `m_pingStart` and the write (`PingsInStep`).
- `CrashesHaveReasons`: `Spec => []CrashesExplained`. Not inductive: it speaks of the crash,
  the pointers are set before. `CrashInv` adds what each step of main knows of `m_ctx`,
  `m_ssl` and the reader: none was started unless the set-up succeeded (`BeforeReader`),
  and then both are live until `~Client` frees them, behind the close of the socket.
- `RequestsFollowLines`: `Spec => []RequestsAsTyped`. A line's requests are those the
  repository's help names for it (`SentAsDocumented`, from what `LongestMatch` finds), and
  a line is taken only when those of the line before are written (`NothingPending`); hence
  `Ordinal(k)`, the number of documented lines up to the k-th, is the place of its request.

Requests as bytes, for every radix, buffer length, set of clients and of commands. The
assumptions are that a byte has an even number of values, 10 or more, that an ID has 1, 2,
4 or 8 bytes and the buffer room for an opcode and an ID, that a TLS record holds no less
than the buffer, that a number accepted as an ID
has room in that many bytes, which the code has because both are `uint64_t`, and that float
and double hold fewer integers exactly than 4 and 8 bytes can tell apart (2^24 and 2^53 in
the code):

- `IntegersKeepTheirValue`: what `parse_integer_number` accepts has the value of the
  literal and lies in the range of the type chosen.
- `IntegersArrive`: written by `append_number` and read back by `read_number` it is still
  that value. Both directions are recursive functions over the bytes; that the bytes make
  the number again (`BytesAndBack`) is shown by least counterexample, from the highest byte
  down.
- `TextsArrive` and `PrivateArrives`: `Spec => []TextsAsTyped` and `[]PrivateAsTyped`.
  Neither is inductive: nothing in them says what is in the sockets. `WireInv` says that
  every record in a socket that begins a packet begins, as far as the buffer reaches, the
  one of its command (`RightRecord`), each byte where `Packets` puts it (`Carries`,
  established by `PacketShape`); that what a session has begun to return begins no packet;
  and that the buffer and what is behind it keep their length. That the first record is as
  long as the buffer, or the whole packet (`RecordsOfPacket`), needs that `RecordLen` is at
  least `BufferLen`. `HeadRead` then finds the typed text and ID in the bytes
  that `SSL_read` has laid over the old ones (`Overwritten`), and `OneAnswer` that a
  handler sends a client one packet at most and where its text comes from.
- `SumArrives`: `Spec => []SumAsTyped`, from the same `WireInv`, for any number of operands
  of any types. A number that float or double holds is read back as it was written
  (`NumberArrives`); the type byte of each tells where the next begins, so that
  `CallHandlerAdd` finds exactly the numbers typed (`NumbersFound`, over the places where
  `JoinedPlaces` puts the parts of a packet); and no partial sum is larger than the sum of
  the magnitudes, so that none of the additions in double rounds (`SumExact`).

Start-up:

- `ConsoleApartHolds`: `Spec => []ConsoleApart`. Not inductive: nothing in it says that
  the first three descriptors are taken. `DescriptorInv` says for each step of `main` by
  what: by the terminal in the foreground; in a daemon by nothing, then 0 by the
  listening socket, then by /dev/null where SQLite finds them free. From then on the
  lowest free descriptor is above 2 (`OpenedAbove`).
- `FailuresReportedHolds`: `Spec => []FailuresReported`. Not inductive: it speaks of the
  loop, and the failures come before. `ReportedInv` says it of every step from the failure
  on; `ErrorsGetThrough` that filter and priority let an error through, `LogGrows` that
  no entry is lost.

Sequences. SelectSeq and the folds are defined by recursion with an operator as a
parameter, about which nothing can be proved here. Where a property selects elements of a
sequence it does so with `ElementsAt` (`Subsequence`): the sequence that lists the elements
at a set of positions in increasing order. That there is one and only one such sequence is
proved by least counterexample (`UptoExists`, `UptoUnique`). Where the client counts what
precedes a position, it does so by the cardinality of a set (`Ordinal`, `Answered`). Sums,
the walk of `CallHandlerAdd` over the bytes and the bytes of a number are recursive
functions. Such a definition is a CHOOSE; that there is a function with these equations is
proved by least counterexample too, once for each (`TotalsExists`, `DoublesExists`,
`ScanExists`, `JoinedExists`, `BeyondExists`, `AboveExists`), and the equations then follow.

Only model-checked: all liveness properties (`RequestsServed`, `QueuedAccepted`,
`ShutdownCompletes`, `ExitCompletes`, `PacketsShown`, `RecordsServed`, `SignalEnds`), because
fairness and ENABLED are out of the prover's reach.

## Not modelled

- Fractions, and the bit layout of float and double: a literal with a point stands for an
  integral value, and two's complement stands in for the layout on the wire.
- Splitting a line into words, and how packets are worded on the screen.
- The client on Windows, and the server's branches for it.
- `Logger`'s output to a file, which `main` never configures; `CommunoException`'s
  dialogs; `print_number` and `number_to_string`, which format.
- Whole-system composition of `Server` with several `ClientApp`s: each appears in the
  other as an environment that may do everything the real one does, and more.
- The singletons, SQLite and OpenSSL beyond the behaviour used, the uptime's text.

## What may follow

The same route as `MessagesInOrder` for further properties of the abstract service.
