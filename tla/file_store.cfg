\* Two overlapping updates in one process and one in another, two keys, a reader.
CONSTANTS
    p1 = p1  p2 = p2
    c1 = c1  c2 = c2  c3 = c3
    k1 = k1  k2 = k2
    Procs = {p1, p2}
    Calls = {c1, c2, c3}
    ProcOf <- MCProcOf
    Keys = {k1, k2}
    KeyOf <- MCKeyOf
    Reading = {p1}
    MaxFails = 1
    MaxCrashes = 1
    NoLock = NoLock
SPECIFICATION FairSpec
INVARIANTS MutualExclusion NoLostUpdate FailedStaysOut CacheCoherent
PROPERTY CallsEnd
CHECK_DEADLOCK FALSE
