CONSTANTS
    ReadHigh = 2
    WriteHigh = 2
    WriteHalf = 1
    ItemLen = 1
    Chunk = 2
    SndBuf = 1
    Configs <- DisconnectConfigs
SPECIFICATION FairSpec
PROPERTY DisconnectResolves
CHECK_DEADLOCK FALSE
