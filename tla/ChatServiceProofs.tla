------------------------- MODULE ChatServiceProofs -------------------------
(***************************************************************************)
(* What clients may rely on, for any number of clients, rooms and          *)
(* requests.  The inductive invariant is the types, FromHandled and the    *)
(* two orders: a new message carries a number above all those of its       *)
(* author that anybody has received, so it is new to every inbox and goes  *)
(* to the end of each it reaches.                                          *)
(***************************************************************************)
EXTENDS ChatService, TLAPS

Message == [op : Kind, msg : Conn \X Nat]

\* The part of the types about rooms.
MemberOK ==
    /\ Present \subseteq Conn
    /\ \A c \in Present : member[c] \in SUBSET RoomID

\* The message c posts next.
Fresh(c, kind) == [op |-> kind, msg |-> <<c, latest[c] + 1>>]

\* A step in which message m is appended to the inboxes of to.
Delivers(c, kind, to) ==
    /\ latest' = [latest EXCEPT ![c] = @ + 1]
    /\ inbox' = Received(Fresh(c, kind), to)

\* Every step keeps all inboxes or delivers one fresh message.
LEMMA StepCases ==
    ASSUME ServiceTypeOK, [ServiceNext]_serviceVars
    PROVE  \/ /\ inbox' = inbox
              /\ \/ latest' = latest
                 \/ \E c \in Conn : latest' = [latest EXCEPT ![c] = @ + 1]
           \/ \E c \in Conn, kind \in Kind, to \in SUBSET Conn : Delivers(c, kind, to)
<1>1. CASE UNCHANGED serviceVars
    BY <1>1 DEF serviceVars
<1>2. CASE PeersChange
    BY <1>2 DEF PeersChange
<1>3. ASSUME NEW c \in Conn, NEW ask \in Ask, AskFor(c, ask) PROVE inbox' = inbox /\ latest' = latest
    BY <1>3 DEF AskFor
<1>4. ASSUME NEW c \in Conn, Enter(c) \/ Leave(c) PROVE inbox' = inbox /\ latest' = latest
    BY <1>4 DEF Enter, Leave
<1>5. ASSUME NEW c \in Conn, Other(c) \/ \E r \in RoomID : JoinRoom(c, r)
      PROVE inbox' = inbox /\ latest' = [latest EXCEPT ![c] = @ + 1]
    BY <1>5 DEF Other, JoinRoom, Handled
<1>6. CASE Stop
    BY <1>6 DEF Stop
<1>7. ASSUME NEW c \in Present, NEW kind \in Kind, NEW audience, Post(c, kind, audience)
      PROVE  \E to \in SUBSET Conn : Delivers(c, kind, to)
    <2>1. c \in Conn /\ latest \in [Conn -> Nat] /\ reading \subseteq Conn
        BY DEF ServiceTypeOK
    <2>2. latest' = [latest EXCEPT ![c] = @ + 1]
        BY <1>7 DEF Post, Handled
    <2>3. latest'[c] = latest[c] + 1
        BY <2>1, <2>2
    <2>4. PICK to \in SUBSET (audience \cap reading) :
             inbox' = Received([op |-> kind, msg |-> <<c, latest'[c]>>], to)
        BY <1>7 DEF Post
    <2>5. to \in SUBSET Conn
        BY <2>1, <2>4
    <2>6. Delivers(c, kind, to)
        BY <2>2, <2>3, <2>4 DEF Delivers, Fresh
    <2> QED
        BY <2>5, <2>6
<1>8. Present \subseteq Conn
    BY DEF ServiceTypeOK
<1> QED
    BY <1>1, <1>2, <1>3, <1>4, <1>5, <1>6, <1>7, <1>8 DEF ServiceNext

----------------------------------------------------------------------------

\* The types hold.
LEMMA TypeStep ==
    ASSUME ServiceTypeOK, [ServiceNext]_serviceVars
    PROVE  ServiceTypeOK'
<1> USE DEF Present
<1>1. latest' \in [Conn -> Nat]
    <2>1. latest \in [Conn -> Nat]
        BY DEF ServiceTypeOK
    <2> QED
        BY <2>1, StepCases DEF Delivers
<1>2. inbox' \in [Conn -> Seq(Message)]
    <2>1. inbox \in [Conn -> Seq(Message)] /\ latest \in [Conn -> Nat]
        BY DEF ServiceTypeOK, Message
    <2>2. ASSUME NEW c \in Conn, NEW kind \in Kind, NEW to, Delivers(c, kind, to)
          PROVE  inbox' \in [Conn -> Seq(Message)]
        <3>1. Fresh(c, kind) \in Message
            BY <2>1 DEF Fresh, Message
        <3>2. ASSUME NEW d \in Conn, NEW m \in Message
              PROVE  Append(inbox[d], m) \in Seq(Message)
            BY <2>1
        <3> QED
            BY <2>1, <2>2, <3>1, <3>2 DEF Delivers, Received
    <2> QED
        BY <2>1, <2>2, StepCases
<1>3. reading' \subseteq Conn
    BY DEF ServiceTypeOK, ServiceNext, serviceVars, PeersChange, AskFor, Enter,
           Leave, Other, JoinRoom, Post, Stop, Handled
<1>4. asked' \in [Conn -> Seq(Ask)]
    <2>1. asked \in [Conn -> Seq(Ask)]
        BY DEF ServiceTypeOK
    <2>2. ASSUME NEW c \in Conn, NEW ask \in Ask, AskFor(c, ask)
          PROVE  asked' \in [Conn -> Seq(Ask)]
        BY <2>1, <2>2 DEF AskFor
    <2> QED
        BY <2>1, <2>2 DEF ServiceNext, serviceVars, PeersChange, Enter,
               Leave, Other, JoinRoom, Post, Stop, Handled
<1>5. up' \in BOOLEAN
    BY DEF ServiceTypeOK, ServiceNext, serviceVars, PeersChange, AskFor
<1>6. MemberOK'
    <2>1. DOMAIN member \subseteq Conn /\ \A c \in DOMAIN member : member[c] \in SUBSET RoomID
        BY DEF ServiceTypeOK
    <2>2. ASSUME NEW c \in Conn, Enter(c) PROVE MemberOK'
        BY <2>1, <2>2 DEF Enter, MemberOK
    <2>3. ASSUME NEW c \in Conn, Leave(c) PROVE MemberOK'
        BY <2>1, <2>3 DEF Leave, MemberOK
    <2>4. ASSUME NEW c \in Conn, NEW r \in RoomID, JoinRoom(c, r) PROVE MemberOK'
        BY <2>1, <2>4 DEF JoinRoom, Handled, MemberOK
    <2>5. CASE member' = member
        BY <2>1, <2>5 DEF MemberOK
    <2>6. \/ member' = member
          \/ \E c \in Conn : Enter(c) \/ Leave(c) \/ \E r \in RoomID : JoinRoom(c, r)
        BY DEF ServiceNext, serviceVars, PeersChange, AskFor, Other, Post, Stop
    <2> QED
        BY <2>2, <2>3, <2>4, <2>5, <2>6
<1> QED
    BY <1>1, <1>2, <1>3, <1>4, <1>5, <1>6 DEF ServiceTypeOK, Message, MemberOK

\* Clients, rooms, requests and inboxes keep their types.
THEOREM ServiceTypeCorrect == Service => []ServiceTypeOK
<1>1. ServiceInit => ServiceTypeOK
    BY DEF ServiceInit, ServiceTypeOK, Present
<1>2. ServiceTypeOK /\ [ServiceNext]_serviceVars => ServiceTypeOK'
    BY TypeStep
<1> QED
    BY <1>1, <1>2, PTL DEF Service

----------------------------------------------------------------------------
(* Delivery of a fresh message.                                            *)

\* A message in an inbox after the delivery was there before, at the same place,
\* or is the fresh one, at the end.
LEMMA Arrivals ==
    ASSUME ServiceTypeOK,
           NEW c \in Conn, NEW kind \in Kind, NEW to \in SUBSET Conn,
           Delivers(c, kind, to), NEW d \in Conn
    PROVE  /\ Len(inbox[d]) \in Nat /\ Len(inbox'[d]) \in Nat
           /\ Len(inbox'[d]) <= Len(inbox[d]) + 1
           /\ Len(inbox[d]) <= Len(inbox'[d])
           /\ \A i \in 1..Len(inbox[d]) : inbox'[d][i] = inbox[d][i]
           /\ \A i \in 1..Len(inbox'[d]) :
                    i > Len(inbox[d]) => inbox'[d][i] = Fresh(c, kind)
<1>1. inbox[d] \in Seq(Message)
    BY DEF ServiceTypeOK, Message
<1>2. inbox'[d] = IF d \in to THEN Append(inbox[d], Fresh(c, kind)) ELSE inbox[d]
    BY DEF Delivers, Received
<1>3. Len(inbox[d]) \in Nat
    BY <1>1
<1>4. CASE d \in to
    <2>1. inbox'[d] = Append(inbox[d], Fresh(c, kind))
        BY <1>2, <1>4
    <2> QED
        BY <1>1, <1>3, <2>1
<1>5. CASE d \notin to
    BY <1>2, <1>3, <1>5
<1> QED
    BY <1>4, <1>5

\* The author and the number of a message in an inbox.
LEMMA MessageParts ==
    ASSUME ServiceTypeOK, NEW d \in Conn, NEW i \in 1..Len(inbox[d])
    PROVE  /\ inbox[d][i].msg[1] \in Conn /\ inbox[d][i].msg[2] \in Nat
           /\ inbox[d][i].msg = <<inbox[d][i].msg[1], inbox[d][i].msg[2]>>
<1>0. inbox \in [Conn -> Seq(Message)]
    BY DEF ServiceTypeOK, Message
<1>1. inbox[d][i] \in Message
    BY <1>0
<1>2. inbox[d][i].msg \in Conn \X Nat
    BY <1>1 DEF Message
<1> QED
    BY <1>2

\* Numbers only grow, and the fresh message has the author's new one.
LEMMA FromHandledStep ==
    ASSUME ServiceTypeOK, FromHandled, [ServiceNext]_serviceVars
    PROVE  FromHandled'
<1>0. latest \in [Conn -> Nat]
    BY DEF ServiceTypeOK
<1>1. \A e \in Conn : latest'[e] \in Nat /\ latest[e] <= latest'[e]
    BY <1>0, StepCases DEF Delivers
<1>2. SUFFICES ASSUME NEW d \in Conn, NEW i \in 1..Len(inbox'[d])
               PROVE  inbox'[d][i].msg[2] <= latest'[inbox'[d][i].msg[1]]
    BY DEF FromHandled
<1>3. ASSUME i \in 1..Len(inbox[d]), inbox'[d][i] = inbox[d][i]
      PROVE  inbox'[d][i].msg[2] <= latest'[inbox'[d][i].msg[1]]
    <2>1. inbox[d][i].msg[2] <= latest[inbox[d][i].msg[1]]
        BY <1>3 DEF FromHandled
    <2>2. inbox[d][i].msg[1] \in Conn /\ inbox[d][i].msg[2] \in Nat
        BY <1>3, MessageParts
    <2>3. latest[inbox[d][i].msg[1]] \in Nat
        BY <1>0, <2>2
    <2> QED
        BY <1>1, <1>3, <2>1, <2>2, <2>3
<1>4. ASSUME NEW c \in Conn, NEW kind \in Kind, NEW to \in SUBSET Conn,
             Delivers(c, kind, to)
      PROVE  inbox'[d][i].msg[2] <= latest'[inbox'[d][i].msg[1]]
    <2>1. CASE i \in 1..Len(inbox[d])
        BY <1>3, <1>4, <2>1, Arrivals
    <2>2. CASE i \notin 1..Len(inbox[d])
        <3>1. inbox'[d][i] = Fresh(c, kind)
            BY <1>4, <2>2, Arrivals
        <3>2. latest'[c] = latest[c] + 1
            BY <1>0, <1>4 DEF Delivers
        <3> QED
            BY <1>0, <3>1, <3>2 DEF Fresh
    <2> QED
        BY <2>1, <2>2
<1> QED
    BY <1>3, <1>4, StepCases

\* A fresh message has a higher number than any of its author's in any inbox.
LEMMA FreshIsNew ==
    ASSUME ServiceTypeOK, FromHandled, NEW c \in Conn, NEW kind \in Kind,
           NEW d \in Conn, NEW i \in 1..Len(inbox[d])
    PROVE  /\ inbox[d][i].msg[1] = c => inbox[d][i].msg[2] < Fresh(c, kind).msg[2]
           /\ inbox[d][i].msg # Fresh(c, kind).msg
           /\ Fresh(c, kind).msg[1] = c /\ Fresh(c, kind).msg[2] \in Nat
<1>1. latest[c] \in Nat
    BY DEF ServiceTypeOK
<1>2. inbox[d][i].msg[2] \in Nat /\ inbox[d][i].msg[2] <= latest[inbox[d][i].msg[1]]
    BY MessageParts DEF FromHandled
<1>3. Fresh(c, kind).msg = <<c, latest[c] + 1>>
    BY DEF Fresh
<1> QED
    BY <1>1, <1>2, <1>3

\* A delivery keeps every author's order: the fresh message is last and highest.
LEMMA AuthorOrderStep ==
    ASSUME ServiceTypeOK, FromHandled, AuthorOrder, [ServiceNext]_serviceVars
    PROVE  AuthorOrder'
<1>1. CASE inbox' = inbox
    BY <1>1 DEF AuthorOrder
<1>2. ASSUME NEW c \in Conn, NEW kind \in Kind, NEW to \in SUBSET Conn,
             Delivers(c, kind, to)
      PROVE  AuthorOrder'
    <2>1. SUFFICES ASSUME NEW d \in Conn, NEW i \in 1..Len(inbox'[d]),
                          NEW j \in 1..Len(inbox'[d]), i < j,
                          inbox'[d][i].msg[1] = inbox'[d][j].msg[1]
                   PROVE  inbox'[d][i].msg[2] < inbox'[d][j].msg[2]
        BY DEF AuthorOrder
    <2>2. i \in 1..Len(inbox[d]) /\ inbox'[d][i] = inbox[d][i]
        BY <1>2, <2>1, Arrivals
    <2>3. CASE j \in 1..Len(inbox[d])
        <3>1. inbox'[d][j] = inbox[d][j]
            BY <1>2, <2>3, Arrivals
        <3> QED
            BY <2>1, <2>2, <2>3, <3>1 DEF AuthorOrder
    <2>4. CASE j \notin 1..Len(inbox[d])
        <3>1. inbox'[d][j] = Fresh(c, kind)
            BY <1>2, <2>4, Arrivals
        <3> QED
            BY <2>1, <2>2, <3>1, FreshIsNew
    <2> QED
        BY <2>3, <2>4
<1> QED
    BY <1>1, <1>2, StepCases

\* A delivery keeps the common order: whoever has the fresh message has it last.
LEMMA SameOrderStep ==
    ASSUME ServiceTypeOK, FromHandled, SameOrder, [ServiceNext]_serviceVars
    PROVE  SameOrder'
<1>1. CASE inbox' = inbox
    BY <1>1 DEF SameOrder
<1>2. ASSUME NEW c \in Conn, NEW kind \in Kind, NEW to \in SUBSET Conn,
             Delivers(c, kind, to)
      PROVE  SameOrder'
    <2>1. SUFFICES ASSUME NEW d \in Conn, NEW e \in Conn,
                          NEW i \in 1..Len(inbox'[d]), NEW j \in 1..Len(inbox'[d]),
                          NEW k \in 1..Len(inbox'[e]), NEW l \in 1..Len(inbox'[e]),
                          i < j,
                          inbox'[d][i].msg = inbox'[e][k].msg,
                          inbox'[d][j].msg = inbox'[e][l].msg
                   PROVE  k < l
        BY DEF SameOrder
    <2>2. i \in 1..Len(inbox[d]) /\ inbox'[d][i] = inbox[d][i]
        BY <1>2, <2>1, Arrivals
    <2>3. inbox[d][i].msg # Fresh(c, kind).msg
        BY <2>2, FreshIsNew
    <2>4. k \in 1..Len(inbox[e]) /\ inbox'[e][k] = inbox[e][k]
        <3>1. k \notin 1..Len(inbox[e]) => inbox'[e][k] = Fresh(c, kind)
            BY <1>2, Arrivals
        <3>2. k \in 1..Len(inbox[e])
            BY <2>1, <2>2, <2>3, <3>1
        <3> QED
            BY <1>2, <3>2, Arrivals
    <2>5. CASE l \notin 1..Len(inbox[e])
        BY <1>2, <2>4, <2>5, Arrivals
    <2>6. CASE l \in 1..Len(inbox[e])
        <3>1. inbox'[e][l] = inbox[e][l]
            BY <1>2, <2>6, Arrivals
        <3>2. inbox[e][l].msg # Fresh(c, kind).msg
            BY <2>6, FreshIsNew
        <3>3. j \in 1..Len(inbox[d]) /\ inbox'[d][j] = inbox[d][j]
            BY <1>2, <2>1, <3>1, <3>2, Arrivals
        <3> QED
            BY <2>1, <2>2, <2>4, <2>6, <3>1, <3>3 DEF SameOrder
    <2> QED
        BY <2>5, <2>6
<1> QED
    BY <1>1, <1>2, StepCases

----------------------------------------------------------------------------

\* Every receiver gets an author's messages in the order the author sent them and
\* none twice, whoever enters, leaves, stalls or posts in between.
THEOREM AuthorOrderHolds == Service => []AuthorOrder
<1>1. ServiceInit => FromHandled /\ AuthorOrder
    BY DEF ServiceInit, FromHandled, AuthorOrder
<1>2. /\ ServiceTypeOK /\ FromHandled /\ AuthorOrder /\ [ServiceNext]_serviceVars
      => FromHandled' /\ AuthorOrder'
    BY FromHandledStep, AuthorOrderStep
<1> QED
    BY <1>1, <1>2, ServiceTypeCorrect, PTL DEF Service

\* Two receivers that both get two messages get them in the same order.
THEOREM SameOrderHolds == Service => []SameOrder
<1>1. ServiceInit => FromHandled /\ SameOrder
    BY DEF ServiceInit, FromHandled, SameOrder
<1>2. /\ ServiceTypeOK /\ FromHandled /\ SameOrder /\ [ServiceNext]_serviceVars
      => FromHandled' /\ SameOrder'
    BY FromHandledStep, SameOrderStep
<1> QED
    BY <1>1, <1>2, ServiceTypeCorrect, PTL DEF Service

=============================================================================
