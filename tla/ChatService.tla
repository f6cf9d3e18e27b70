---------------------------- MODULE ChatService ----------------------------
(***************************************************************************)
(* What the server promises its clients about the messages between them,   *)
(* whatever its loop, its sockets and its vector of clients are doing: a   *)
(* multicast that delivers one message at a time, to all it is meant for   *)
(* at once.  Clients enter and leave, join one room after another, and     *)
(* post to everybody, to their room or to one other client.  A message is  *)
(* named by its author and the number of the author's request, <<c, n>>.   *)
(*                                                                         *)
(* It leaves out replies, descriptors, handshakes, signals, whom a private *)
(* message is addressed to and the order the handlers write in.            *)
(* Server implements it: see ImplementsChatService in ServerRefinement.    *)
(***************************************************************************)
EXTENDS Naturals, Sequences

CONSTANTS
    Conn,     \* connections clients may make
    RoomID    \* rooms

VARIABLES
    member,   \* for each client present, the set of its room: {} or {r}
    reading,  \* connections whose client reads what it gets
    asked,    \* what the requests of each connection ask for
    latest,   \* how many requests of each connection have been handled
    inbox,    \* messages each connection has received
    up        \* is the service up?

serviceVars == <<member, reading, asked, latest, inbox, up>>

Present == DOMAIN member

\* The kinds of post, named as the packets are, and the other requests.
Kind == {"SMSG_BROADCAST", "SMSG_SAY", "SMSG_PRIVATE_MESSAGE"}
Ask == Kind \cup {"join", "other"}

ServiceInit ==
    /\ member = << >>
    /\ reading \in SUBSET Conn
    /\ asked = [c \in Conn |-> << >>]
    /\ latest = [c \in Conn |-> 0]
    /\ inbox = [c \in Conn |-> << >>]
    /\ up = TRUE

----------------------------------------------------------------------------
(* Coming and going.  Any step of the server may be its last.              *)

Enter(c) ==
    /\ c \notin Present
    /\ member' = [d \in Present \cup {c} |-> IF d = c THEN {} ELSE member[d]]
    /\ UNCHANGED <<reading, asked, latest, inbox>>

Leave(c) ==
    /\ c \in Present
    /\ member' = [d \in Present \ {c} |-> member[d]]
    /\ UNCHANGED <<reading, asked, latest, inbox>>

\* The clients' ends: who reads is not up to the service.
PeersChange ==
    /\ reading' \in SUBSET Conn
    /\ UNCHANGED <<member, asked, latest, inbox, up>>

AskFor(c, ask) ==
    /\ asked' = [asked EXCEPT ![c] = Append(@, ask)]
    /\ UNCHANGED <<member, reading, latest, inbox, up>>

Stop == UNCHANGED <<member, reading, asked, latest, inbox>>

----------------------------------------------------------------------------
(* Requests of c, in turn.                                                 *)

AskedNow(c) == asked[c][latest[c] + 1]

\* Mutated form: a request is handled again, under the same number.
HandledAgain(c) ==
    /\ c \in Present /\ latest[c] < Len(asked[c])
    /\ latest' = [latest EXCEPT ![c] = IF @ = 0 THEN 1 ELSE @]
    /\ UNCHANGED <<reading, asked>>

Handled(c) ==
    /\ c \in Present /\ latest[c] < Len(asked[c])
    /\ latest' = [latest EXCEPT ![c] = @ + 1]
    /\ UNCHANGED <<reading, asked>>

JoinRoom(c, r) ==
    /\ Handled(c) /\ AskedNow(c) = "join"
    /\ member' = [member EXCEPT ![c] = {r}]
    /\ UNCHANGED inbox

\* A request that is no post; a join or a private message that is refused; and a
\* message to the room of a client that has none.
Other(c) ==
    /\ Handled(c)
    /\ \/ AskedNow(c) \in {"join", "other", "SMSG_PRIVATE_MESSAGE"}
       \/ AskedNow(c) = "SMSG_SAY" /\ member[c] = {}
    /\ UNCHANGED <<member, inbox>>

\* Whom c may address: everybody present, its room, or one other client.
Audiences(c, kind) ==
    CASE kind = "SMSG_BROADCAST" -> {Present}
      [] kind = "SMSG_SAY" ->
            {{d \in Present : member[d] = member[c]} : r \in member[c]}
      [] kind = "SMSG_PRIVATE_MESSAGE" -> {{d} : d \in Present \ {c}}

\* Mutated form: authors see their own messages ahead of what is under way.
ReceivedOwnFirst(post, to) ==
    [d \in Conn |-> IF d \notin to THEN inbox[d]
                   ELSE IF d = post.msg[1] THEN <<post>> \o inbox[d]
                   ELSE Append(inbox[d], post)]

Received(post, to) ==
    [d \in Conn |-> IF d \in to THEN Append(inbox[d], post) ELSE inbox[d]]

\* All of the audience that reads gets the message, or some if the service goes
\* down in the act.
Post(c, kind, audience) ==
    /\ Handled(c) /\ AskedNow(c) = kind
    /\ \E to \in SUBSET (audience \cap reading) :
        /\ up' => to = audience \cap reading
        /\ inbox' = Received([op |-> kind, msg |-> <<c, latest'[c]>>], to)
    /\ UNCHANGED member

ServiceNext ==
    \/ up /\ PeersChange
    \/ up /\ \E c \in Conn, ask \in Ask : AskFor(c, ask)
    \/ /\ up
       /\ up' \in BOOLEAN
       /\ \/ \E c \in Conn : Enter(c) \/ Leave(c) \/ Other(c)
          \/ \E c \in Conn, r \in RoomID : JoinRoom(c, r)
          \/ \E c \in Present, kind \in Kind :
                \E audience \in Audiences(c, kind) : Post(c, kind, audience)
          \/ Stop

Service == ServiceInit /\ [][ServiceNext]_serviceVars

----------------------------------------------------------------------------
(* What a client may rely on.                                              *)

ServiceTypeOK ==
    /\ Present \subseteq Conn
    /\ \A c \in Present : member[c] \in SUBSET RoomID
    /\ reading \subseteq Conn
    /\ asked \in [Conn -> Seq(Ask)]
    /\ latest \in [Conn -> Nat]
    /\ inbox \in [Conn -> Seq([op : Kind, msg : Conn \X Nat])]
    /\ up \in BOOLEAN

\* Every receiver gets an author's messages in the order the author sent them,
\* and none twice.
AuthorOrder ==
    \A d \in Conn : \A i, j \in 1..Len(inbox[d]) :
        i < j /\ inbox[d][i].msg[1] = inbox[d][j].msg[1]
            => inbox[d][i].msg[2] < inbox[d][j].msg[2]

\* Two receivers that both get two messages get them in the same order, whoever
\* wrote them: a conversation reads the same for all.
SameOrder ==
    \A d, e \in Conn : \A i, j \in 1..Len(inbox[d]) :
        \A k, l \in 1..Len(inbox[e]) :
            /\ i < j
            /\ inbox[d][i].msg = inbox[e][k].msg
            /\ inbox[d][j].msg = inbox[e][l].msg
            => k < l

\* What both rest on: a message received is from a request already handled.
FromHandled ==
    \A d \in Conn : \A i \in 1..Len(inbox[d]) :
        inbox[d][i].msg[2] <= latest[inbox[d][i].msg[1]]

=============================================================================
