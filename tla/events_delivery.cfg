\* A subscription shares its process with one of two appenders; pages of one event.
CONSTANTS
    a1 = a1
    a2 = a2
    a3 = a3
    u1 = u1
    q1 = q1
    q2 = q2
    Appenders = {a1, a2}
    Subs = {u1}
    Procs = {q1, q2}
    ProcOf <- MCProcOf
    Window = 2
    ReadLimit = 1
    NoAppender = NoAppender
    MaxSeq = 2
SPECIFICATION FairSpec
PROPERTIES EventuallyDelivered
CHECK_DEADLOCK FALSE
