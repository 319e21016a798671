\* A subscription, and as many overlapping appenders as the window holds events.
CONSTANTS
    a1 = a1
    a2 = a2
    a3 = a3
    u1 = u1
    q1 = q1
    q2 = q2
    Appenders = {a1, a2}
    Subs = {u1}
    Procs = {q1, q2}
    ProcOf <- MCProcOf
    Window = 2
    ReadLimit = 2
    NoAppender = NoAppender
    MaxSeq = 3
SPECIFICATION Spec
INVARIANTS DeliveredExactlyOnce
PROPERTIES StreamRefined
CHECK_DEADLOCK FALSE
