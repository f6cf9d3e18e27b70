CONSTANTS
    Conn = {c1}
    Request <- AllRequests
    MaxReq = 2
    Splitting = {c1}
    Stalling = {c1}
    BacklogLimit = 4
    RoomID = {0, 1, 2}
    Name = {"", "General", "Private"}
    Byte = {0, 1}
    DigestLen = 2
    ChatRoomsTable <- TwoRooms
    Fd = {1, 2}
    MaxListed = 272
    CounterMod = 16
    MaySignal = TRUE
SPECIFICATION Spec
CHECK_DEADLOCK FALSE
INVARIANTS TypeOK InOrderAnswers EndsExplained ErrorsExplained
