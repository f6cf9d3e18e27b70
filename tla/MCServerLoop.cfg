CONSTANTS
    Conn = {c1, c2}
    Request <- EchoRequests
    MaxReq = 2
    Splitting = {c1, c2}
    Stalling = {}
    BacklogLimit = 4
    RoomID = {0, 1, 2}
    Name = {"", "General", "Private"}
    Byte = {0, 1}
    DigestLen = 2
    ChatRoomsTable <- NoRooms
    Fd = {1, 2}
    MaxListed = 272
    CounterMod = 16
    MaySignal = TRUE
SPECIFICATION Spec
CHECK_DEADLOCK FALSE
PROPERTIES DropsExplained RequestsServed QueuedAccepted ShutdownCompletes
