CONSTANTS
    Line <- EveryLine
    NumberType <- Types
    ServerPacket <- Packets
    MaxPacket = 12
    MaxLines = 2
    MaxRecords = 3
    MaxTime = 1
    Splitting = TRUE
SPECIFICATION MCSpec
CHECK_DEADLOCK FALSE
INVARIANTS ClientTypeOK RequestsAsTyped OneLineAfterInterrupt ShownInOrder PingNeverLate CrashesExplained
PROPERTIES ExitCompletes PacketsShown
