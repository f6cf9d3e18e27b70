CONSTANTS
    Conn = {c1}
    Request <- EchoRequests
    MaxReq = 1
    Splitting = {}
    Stalling = {}
    BacklogLimit = 4
    RoomID = {0, 1, 2}
    Name = {"", "General", "Private"}
    Byte = {0, 1}
    DigestLen = 2
    ChatRoomsTable <- NulRooms
    Fd = {1}
    MaxListed = 272
    CounterMod = 16
    MaySignal = FALSE
SPECIFICATION Spec
CHECK_DEADLOCK FALSE
INVARIANTS HashesProtect
