CONSTANTS
    MaxFd = 6
    Inherited <- StandardFds
SPECIFICATION Spec
CHECK_DEADLOCK FALSE
INVARIANTS ConsoleApart FailuresReported
PROPERTIES SignalEnds
