SPECIFICATION Spec
CONSTANTS
    t1 = t1
    t2 = t2
    p1 = p1
    p2 = p2
    Procs = {p1, p2}
    Tasks = {t1, t2}
    Graphs <- MCGraphs
    Limit = 2
    MaxRetries = 1
    RetryBound = 1
    TaskRetries <- MCTaskRetries
    Incidents = {"cancelTask"}
    MaxIncidents = 1
    NoProc = NoProc
SYMMETRY Symmetry
PROPERTY NeverResurrected
CHECK_DEADLOCK FALSE
