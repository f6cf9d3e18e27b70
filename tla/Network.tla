------------------------------ MODULE Network ------------------------------
(***************************************************************************)
(* What the server sees of the outside: the accept queue of the listening  *)
(* socket and, for every TCP/TLS connection, the requests that have come   *)
(* in, the packets that have gone out and the state of the other end.      *)
(* Everything here is external to the server (kernel, OpenSSL, the client  *)
(* process); it is modelled from how Server.cpp and Client.cpp use it.     *)
(*                                                                         *)
(* A client's SSL_write is one TLS record, one packet and one request.     *)
(* sent[c] is all requests of connection c in order and read[c] counts     *)
(* those SSL_read has returned, so the rest is what is waiting.  The text  *)
(* a request carries is the tag <<c, n>>: n-th request of connection c.    *)
(***************************************************************************)
EXTENDS Naturals, Sequences

CONSTANTS
    Conn,          \* connection attempts clients may make
    Request,       \* the requests clients may send
    MaxReq,        \* bound: requests per connection
    Splitting,     \* connections whose records may arrive in two pieces
    Stalling,      \* connections whose client may stop reading
    BacklogLimit   \* connections the kernel queues for the listening socket

ASSUME NetworkAssumption ==
    /\ MaxReq \in Nat /\ BacklogLimit \in Nat
    /\ Splitting \subseteq Conn /\ Stalling \subseteq Conn

VARIABLES
    backlog,       \* connections completed by the kernel, not yet accepted
    peer,          \* state of the other end of each connection
    partial,       \* has the head, only, of a further record come in?
    sent,          \* requests that have come in completely
    read,          \* how many of them SSL_read has returned
    outq           \* packets the other end has received

netVars == <<backlog, peer, partial, sent, read, outq>>

\* "none": not connected; "up": connected, its client reads what it gets;
\* "full": connected, its client has stopped reading and the buffers are full;
\* "fin": it has closed; "rst": it has answered a packet with a reset.
PeerState == {"none", "up", "full", "fin", "rst"}

Tag == Conn \X Nat

NetInit ==
    /\ backlog = << >>
    /\ peer = [c \in Conn |-> "none"]
    /\ partial = [c \in Conn |-> FALSE]
    /\ sent = [c \in Conn |-> << >>]
    /\ read = [c \in Conn |-> 0]
    /\ outq = [c \in Conn |-> << >>]

Queued == {backlog[i] : i \in 1..Len(backlog)}

Connected(c) == peer[c] \in {"up", "full"}

\* A complete record waits to be read.
Waiting(c) == read[c] < Len(sent[c])

\* select reports the connection readable: any byte, or an end of file.
Readable(c) == Waiting(c) \/ partial[c] \/ ~Connected(c)

----------------------------------------------------------------------------
(* What clients and the network do.                                        *)

\* Client::initClientConnection: connect() succeeds once the kernel queues it.
Connect(c) ==
    /\ peer[c] = "none"
    /\ Len(backlog) < BacklogLimit
    /\ peer' = [peer EXCEPT ![c] = "up"]
    /\ backlog' = Append(backlog, c)
    /\ UNCHANGED <<partial, sent, read, outq>>

\* Client::sendSSLPacketToServer: a record arrives, or its missing rest does.
Send(c, r) ==
    /\ Connected(c)
    /\ Len(sent[c]) < MaxReq
    /\ sent' = [sent EXCEPT ![c] = Append(@, r)]
    /\ partial' = [partial EXCEPT ![c] = FALSE]
    /\ UNCHANGED <<backlog, peer, read, outq>>

\* TCP delivers the first segment of a record ahead of the others.
SendHead(c) ==
    /\ Connected(c)
    /\ Len(sent[c]) < MaxReq
    /\ ~partial[c] /\ c \in Splitting
    /\ partial' = [partial EXCEPT ![c] = TRUE]
    /\ UNCHANGED <<backlog, peer, sent, read, outq>>

\* The client stops reading (suspended, say): SSL_write gets WANT_WRITE for
\* the packet that no longer fits and fails for every later one.
Stall(c) ==
    /\ peer[c] = "up" /\ c \in Stalling
    /\ peer' = [peer EXCEPT ![c] = "full"]
    /\ UNCHANGED <<backlog, partial, sent, read, outq>>

\* Client::~Client, or the end of the client process.
Close(c) ==
    /\ Connected(c)
    /\ peer' = [peer EXCEPT ![c] = "fin"]
    /\ UNCHANGED <<backlog, partial, sent, read, outq>>

----------------------------------------------------------------------------
(* What a write does to the connections it is addressed to.                *)

\* A packet sent after the other end has closed is answered by a reset, which
\* has or has not arrived when the server goes on.
PeerAfterWrites(to) ==
    {[c \in Conn |-> IF c \in reset THEN "rst" ELSE peer[c]] :
        reset \in SUBSET {c \in to : peer[c] = "fin"}}

\* Mutated form: a write that fails ends the loop over the receivers.
DeliveredUnlessFull(c, direct, fan, to) ==
    [d \in Conn |->
        IF peer[d] # "up" THEN outq[d]
        ELSE outq[d] \o (IF d = c THEN direct ELSE << >>)
                     \o (IF d \in to /\ \A e \in to : peer[e] # "full"
                         THEN fan ELSE << >>)]

\* c gets its direct packets first; then those of to get the packets of fan.
Delivered(c, direct, fan, to) ==
    [d \in Conn |->
        IF peer[d] # "up" THEN outq[d]
        ELSE outq[d] \o (IF d = c THEN direct ELSE << >>)
                     \o (IF d \in to THEN fan ELSE << >>)]

=============================================================================
