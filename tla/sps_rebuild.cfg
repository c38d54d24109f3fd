SPECIFICATION Spec

CONSTANTS
    Sent <- MCSent
    Ppss <- MCPpss
    NAL_BUF_MAX = 256

INVARIANTS
    ParsedAsSent
    
    NoStartCode
    PpsTrimmed

CHECK_DEADLOCK FALSE
