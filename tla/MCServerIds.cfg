CONSTANTS
    Conn = {c1, c2, c3}
    Request <- PrivateRequests
    MaxReq = 1
    Splitting = {}
    Stalling = {}
    BacklogLimit = 4
    RoomID = {0, 1, 2}
    Name = {"", "General", "Private"}
    Byte = {0, 1}
    DigestLen = 2
    ChatRoomsTable <- NoRooms
    Fd = {1, 2}
    MaxListed = 2
    CounterMod = 16
    MaySignal = FALSE
SPECIFICATION Spec
CHECK_DEADLOCK FALSE
SYMMETRY Symmetry
INVARIANTS SocketTable ClientIDs PrivateDelivery ListsNameReceiver
PROPERTIES ImplementsChatService
