CONSTANTS
    Conn = {c1, c2}
    Request <- CounterRequests
    MaxReq = 2
    Splitting = {}
    Stalling = {c1, c2}
    BacklogLimit = 4
    RoomID = {0, 1, 2}
    Name = {"", "General", "Private"}
    Byte = {0, 1}
    DigestLen = 2
    ChatRoomsTable <- NoRooms
    Fd = {1, 2}
    MaxListed = 272
    CounterMod = 3
    MaySignal = FALSE
SPECIFICATION Spec
CHECK_DEADLOCK FALSE
SYMMETRY Symmetry
INVARIANTS InOrderAnswers CounterReads
PROPERTIES ImplementsChatService
