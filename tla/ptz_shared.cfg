SPECIFICATION FairSpec

CONSTANTS
    Pages = {1}
    Buttons = {"up"}
    Pids = {1}
    MaxAsks = 1
    MaxShell = 1
    QueueLen = 1
    Requests <- MCBrief
    Cap = 3
    Addresses = {}

INVARIANTS
    Watched

PROPERTIES
    OnvifCapped

CHECK_DEADLOCK FALSE
