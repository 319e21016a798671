\* Two API processes share the store; the client is connected to p1.
CONSTANTS
    p1 = p1
    p2 = p2
    c1 = c1
    Procs = {p1, p2}
    Clients = {c1}
    ProcOf <- MCProcOf
    AtomicStore = TRUE
    PageSize = 2
    NoEvent = NoEvent
    MaxSeq = 3
    MaxCuts = 2
SPECIFICATION FairSpec
INVARIANTS FramesInOrder OnlyLateSkipped
PROPERTIES NeverReplaced OwnEventsSent
CHECK_DEADLOCK FALSE
