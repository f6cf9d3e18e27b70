CONSTANTS
    Conn = {c1, c2}
    Request <- ChatRequests
    MaxReq = 2
    Splitting = {}
    Stalling = {}
    BacklogLimit = 4
    RoomID = {0, 1, 2}
    Name = {"", "General", "Private"}
    Byte = {0, 1, 2}
    DigestLen = 2
    ChatRoomsTable <- GuardedRooms
    Fd = {1, 2}
    MaxListed = 272
    CounterMod = 16
    MaySignal = FALSE
SPECIFICATION Spec
CHECK_DEADLOCK FALSE
SYMMETRY Symmetry
INVARIANTS RoomPrivacy
PROPERTIES ImplementsChatService
