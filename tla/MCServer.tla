------------------------------ MODULE MCServer ------------------------------
(***************************************************************************)
(* Small instances of the server for TLC.                                  *)
(***************************************************************************)
EXTENDS ServerProperties, ServerRefinement, ClientDisplay, TLC

\* Digests of two bytes; the password of room 2 is <<1, 1>>.
Right == <<1, 1>>
Wrong == <<1, 0>>

\* An open room and a protected one, as in sql/chat_rooms.sql.
TwoRooms == <<[id |-> 1, name |-> "General", password_hash |-> NULL],
              [id |-> 2, name |-> "Private", password_hash |-> Right]>>

\* Rooms whose hashes begin and end with a NUL byte.
NulRooms == <<[id |-> 1, name |-> "General", password_hash |-> <<1, 0>>],
              [id |-> 2, name |-> "Private", password_hash |-> <<0, 1>>]>>

Join(r, h) == [op |-> "CMSG_JOIN_ROOM", room |-> r, hash |-> h]
MsgTo(id) == [op |-> "CMSG_SEND_MSG_TO_CLIENT", clientID |-> id]
Plain(ops) == [op : ops]

NoRooms == << >>

\* Two protected rooms, and clients that know the password of the first only.
GuardedRooms == <<[id |-> 1, name |-> "General", password_hash |-> Right],
                  [id |-> 2, name |-> "Private", password_hash |-> <<1, 2>>]>>
ChatRequests == {Join(1, Right), Join(2, Right)} \cup Plain({"CMSG_SAY"})

PhantomRequests == {Join(0, Wrong)} \cup Plain({"CMSG_SAY"})
PrivateRequests == {MsgTo(0), MsgTo(1)} \cup Plain({"CMSG_GET_CLIENT_LIST"})
CounterRequests == Plain({"CMSG_INCREMENT_COUNTER", "CMSG_GET_COUNTER",
                          "CMSG_BROADCAST_MESSAGE"})
AllRequests == PlainRequest \cup
               {Join(0, Wrong), Join(2, Right), Join(2, Wrong), MsgTo(0), MsgTo(1)}
EchoRequests == Plain({"CMSG_ECHO_REQUEST"})

Symmetry == Permutations(Conn)

=============================================================================
