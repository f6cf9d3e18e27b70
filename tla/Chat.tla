------------------------------- MODULE Chat -------------------------------
(***************************************************************************)
(* The chat-room registry of the server: class Chat (Chat.h, Chat.cpp) and *)
(* the loader that fills it (Database.cpp).  m_ChatRooms is a function     *)
(* from the room IDs present in the unordered_map to the ChatRoom stored   *)
(* there; its operations are operators on that function, and an operation  *)
(* of the code that changes the map also has an operator for its new value.*)
(*                                                                         *)
(* A password hash is a string of bytes.  The digest length, 32 in the     *)
(* code, is a parameter because what matters is where the NUL bytes are.   *)
(***************************************************************************)
EXTENDS Naturals, Sequences

CONSTANTS
    RoomID,         \* uint8_t room identifiers in play
    Name,           \* room names in play; "" is that of a default ChatRoom
    Byte,           \* byte values in play; 0 is NUL
    DigestLen,      \* SHA256_DIGEST_LENGTH
    ChatRoomsTable  \* rows of the table chat_rooms, in the order SELECT gives

Digest == [1..DigestLen -> Byte]

\* SQL NULL: no legal blob is empty, the table's CHECK wants full digests.
NULL == << >>

\* The constraints of sql/chat_rooms.sql on the rows: id is the primary key
\* and a password hash is NULL or a full digest.
LegalTable(rows) ==
    /\ rows \in Seq([id : RoomID, name : Name,
                     password_hash : Digest \cup {NULL}])
    /\ \A i, j \in 1..Len(rows) : rows[i].id = rows[j].id => i = j

ASSUME ChatAssumption ==
    /\ RoomID \subseteq Nat /\ 0 \in RoomID
    /\ "" \in Name
    /\ Byte \subseteq Nat /\ 0 \in Byte
    /\ DigestLen \in Nat \ {0}
    /\ LegalTable(ChatRoomsTable)

----------------------------------------------------------------------------
(* State: the type of m_ChatRooms.                                         *)

ChatRoom == [name : Name, passwordHash : Seq(Byte)]

IsChatRooms(rooms) ==
    /\ DOMAIN rooms \subseteq RoomID
    /\ \A r \in DOMAIN rooms : rooms[r] \in ChatRoom

----------------------------------------------------------------------------
(* Operations.                                                             *)

\* std::string(const char *): the bytes before the first NUL.
CString(blob) ==
    SubSeq(blob, 1, CHOOSE n \in 0..Len(blob) :
                        /\ \A k \in 1..n : blob[k] # 0
                        /\ n < Len(blob) => blob[n + 1] = 0)

\* Database::loadRooms over the rows the SELECT yields before it ends.
LoadRooms(rows) ==
    [r \in {rows[i].id : i \in 1..Len(rows)} |->
        LET row == rows[CHOOSE i \in 1..Len(rows) : rows[i].id = r]
        IN  [name |-> row.name, passwordHash |-> CString(row.password_hash)]]

checkRoomID(rooms, r) == r \in DOMAIN rooms

\* unordered_map::operator[]: the room is default-constructed if it is absent.
Subscripted(rooms, r) ==
    [q \in DOMAIN rooms \cup {r} |->
        IF q \in DOMAIN rooms THEN rooms[q]
        ELSE [name |-> "", passwordHash |-> << >>]]

\* The value isRoomProtected returns; the map it leaves is Subscripted.
isRoomProtected(rooms, r) == Subscripted(rooms, r)[r].passwordHash # << >>

\* The values checkPasswordHash may return.  memcpy reads DigestLen bytes from
\* a string that is shorter when the stored hash holds a NUL: first the
\* string's own terminator, then whatever memory follows.
checkPasswordHash(rooms, r, hash) ==
    LET stored == rooms[r].passwordHash
        roomHashes == {w \in Digest : \A k \in 1..DigestLen :
                         /\ k <= Len(stored) => w[k] = stored[k]
                         /\ k = Len(stored) + 1 => w[k] = 0}
    IN  {roomHash = hash : roomHash \in roomHashes}

\* getChatRoomsStr: unordered_map order is unspecified, so the list is a set.
getChatRoomsStr(rooms) ==
    {[id |-> r, name |-> rooms[r].name, open |-> rooms[r].passwordHash = << >>]
        : r \in DOMAIN rooms}

getRoomName(rooms, r) == rooms[r].name

=============================================================================
