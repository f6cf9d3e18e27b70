SPECIFICATION Spec
CONSTANTS
    Radix = 12
    FloatPrecision = 1024
    DoublePrecision = 1048576
    Client = {0, 1}
    Command <- Messages
    MaxCommands = 1
    BufferLen = 20
    RecordLen = 26
    IDLen = 2
    Junk = {6}
CHECK_DEADLOCK FALSE
INVARIANTS PrivateExactly
