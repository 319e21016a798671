\* A process and its restarted self, and one caller of transitions().
CONSTANTS
    p1 = p1
    p2 = p2
    h1 = h1
    a = a
    Procs = {p1, p2}
    Holders = {h1}
    HolderOf <- MCOneHolder
    Readers = {"r1"}
    Targets = {a}
    DependsOn <- MCNoDependencies
    Statuses = {"queued", "eligible"}
    Ttl = 1
    MaxTime = 1
    MaxEpoch = 2
    MaxRevision = 3
    MaxSeq = 2
    MaxBatch = 2
SYMMETRY MCSymmetry
SPECIFICATION Spec
INVARIANTS QuietReadIsWhole NoTransitionLost HistoryExplainsLedger
PROPERTIES FencedCommits HistoryRefined
CHECK_DEADLOCK FALSE
