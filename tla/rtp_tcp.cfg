SPECIFICATION MCSpec

CONSTANTS
    Ifaces = {rtp, rtcp}
    Socks = {a, b}
    None = None
    Prompt = {b}
    HDR = 2
    MaxPacket = 2
    SNDBUF = 2
    BUDGET = 2
    Conns = {a}
    Chans = {c0, c1}
    Dollar = Dollar
    Other = Other
    MaxSize = 2
    MaxInput = 7
    Null = Null
    Interfaces <- MCInterfaces
    Table <- MCTable
    Reading <- MCReading

INVARIANTS
    FramesWhole
    EachOffered
    HeldBriefly
    
    

PROPERTIES
    PromptKept
    SendEnds
