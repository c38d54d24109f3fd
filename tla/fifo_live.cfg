SPECIFICATION FairSpec

CONSTANTS
    Records <- MCGopRecords
    NalLen <- MCNalLen
    PipeSize = 4
    PipeBuf = 1
    PurgeTrim = 2
    DrainBuf = 2
    MaxRecs = 3
    MaxStarts = 1
    MaxJumps = 1
    DrainCap = 6
    Attempts = 2
    FrameMax = 2
    MaxOpens = 1

PROPERTIES
    ChainGetsThrough
    DrainEnds

CHECK_DEADLOCK FALSE
