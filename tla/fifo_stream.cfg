SPECIFICATION Spec

CONSTANTS
    Records <- MCRecords
    NalLen <- MCNalLen
    PipeSize = 4
    PipeBuf = 1
    PurgeTrim = 2
    DrainBuf = 2
    MaxRecs = 3
    MaxStarts = 2
    MaxJumps = 0
    DrainCap = 6
    Attempts = 2
    FrameMax = 2
    MaxOpens = 2

INVARIANTS
    TypeOK
    GateOK
    ChainWhole
    
    KeyframeFirst

CHECK_DEADLOCK FALSE
