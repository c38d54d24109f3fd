SPECIFICATION Spec

CONSTANTS
    DATA_SZ = 7
    SeqMod = 64
    StartSeqs = {0, 61}
    Types = {"sps", "frame"}
    Lens = {1}
    MaxRecs = 5
    MaxEras = 0
    Mine = "hires"
    MAXPAY = 1
    JumpGap = 1
    EraGap = 10
    ChainGap = 1
    MAX_STALL_REANCHOR = 2
    MaxStarts = 2

INVARIANTS
    
    NothingPassedOver

CHECK_DEADLOCK FALSE
