CONSTANTS
    ReadHigh = 2
    WriteHigh = 2
    WriteHalf = 1
    ItemLen = 1
    Chunk = 1
    SndBuf = 1
    Configs <- ReasonConfigs
SPECIFICATION Spec
PROPERTY FirstReasonStands
CHECK_DEADLOCK FALSE
