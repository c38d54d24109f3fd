SPECIFICATION FairSpec

CONSTANTS
    Pages = {1}
    Buttons = {"up", "left"}
    Pids = {1, 2, 3}
    MaxAsks = 2
    MaxShell = 0
    QueueLen = 1
    Requests <- MCNone
    Cap = 3
    Addresses = {}

INVARIANTS
    TokenTells
    PadShows

PROPERTIES
    CapIsDue
    CgiCapped

CHECK_DEADLOCK FALSE
