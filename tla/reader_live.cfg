SPECIFICATION FairSpec

CONSTANTS
    DATA_SZ = 6
    SeqMod = 64
    StartSeqs = {0}
    Types = {"frame", "audio"}
    Lens = {1}
    MaxRecs = 4
    MaxEras = 1
    Mine = "audio"
    MAXPAY = 2
    JumpGap = 1
    EraGap = 1
    ChainGap = 1
    MAX_STALL_REANCHOR = 2
    MaxStarts = 1

PROPERTIES
    EraFollowed
    FlagHonoured

CHECK_DEADLOCK FALSE
