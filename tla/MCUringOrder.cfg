SPECIFICATION UringSpec
CONSTANTS
    ReadHigh = 2
    MaxOps = 6
    ZcSize = 1
    Scenes <- MCShort
INVARIANT BytesInOrder
