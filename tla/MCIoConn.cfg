CONSTANTS
    ReadHigh = 2
    WriteHigh = 2
    WriteHalf = 1
    ItemLen = 1
    Chunk = 2
    SndBuf = 1
    Configs <- MCConfigs
SPECIFICATION Spec
INVARIANTS TypeOK WriteNotStranded ReadNotStranded AppNotStranded SlotOwned
PROPERTY ImplementsConnection
CHECK_DEADLOCK FALSE
