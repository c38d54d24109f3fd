SPECIFICATION Spec

CONSTANTS
    Pages = {}
    Buttons = {"up"}
    Pids = {}
    MaxAsks = 0
    MaxShell = 0
    QueueLen = 1
    Requests <- MCRequests
    Cap = 5
    Addresses = {"a", "b"}

INVARIANTS
    TypeOK
    WholeRequest
    RightHandler
    OrdersAsAsked
    AddressFresh

CHECK_DEADLOCK FALSE
