SPECIFICATION Spec

CONSTANTS
    DATA_SZ = 5
    SeqMod = 64
    StartSeqs = {61}
    Types = {"frame", "audio"}
    Lens = {1, 2}
    MaxRecs = 4
    MaxEras = 0
    Mine = "hires"
    MAXPAY = 2
    JumpGap = 1
    EraGap = 10
    ChainGap = 1
    MAX_STALL_REANCHOR = 2
    MaxStarts = 1

INVARIANTS
    RingLayout
    TakenIntact

PROPERTIES
    FeedSpec

CHECK_DEADLOCK FALSE
