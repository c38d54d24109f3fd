SPECIFICATION Spec

CONSTANTS
    Pages = {1}
    Buttons = {"up"}
    Pids = {1, 2}
    MaxAsks = 2
    MaxShell = 0
    QueueLen = 1
    Requests <- MCNone
    Cap = 3
    Addresses = {}

PROPERTIES
    NoStaleCap

CHECK_DEADLOCK FALSE
