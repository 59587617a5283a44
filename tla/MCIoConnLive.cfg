CONSTANTS
    ReadHigh = 1
    WriteHigh = 2
    WriteHalf = 1
    ItemLen = 1
    Chunk = 2
    SndBuf = 1
    Configs <- LiveConfigs
SPECIFICATION FairSpec
PROPERTIES CloseCompletes TaskEnds FlushReturns ReceiveReturns DescriptorClosed
CHECK_DEADLOCK FALSE
