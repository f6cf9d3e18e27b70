SPECIFICATION MCSpec
CONSTANTS
    Radix = 12
    FloatPrecision = 1024
    DoublePrecision = 1048576
    Client = {0, 1}
    Command <- Commands
    MaxCommands = 2
    BufferLen = 20
    RecordLen = 26
    IDLen = 2
    Junk = {6}
CHECK_DEADLOCK FALSE
INVARIANTS SumAsTyped TextsAsTyped PrivateAsTyped
PROPERTIES RecordsServed
