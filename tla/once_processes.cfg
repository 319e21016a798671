\* Three processes, i2 on another host, call once for the same key, i1 twice at a
\* time; i3 also reconciles effects whose owner is gone.
CONSTANTS
    i1 = i1
    i2 = i2
    i3 = i3
    c1 = c1
    c2 = c2
    c3 = c3
    c4 = c4
    Insts = {i1, i2, i3}
    HostOf <- MCTwoHosts
    Calls = {c1, c2, c3, c4}
    InstOf <- MCMixed
    Reconcilers = {i3}
    OnlyDeadOwners = TRUE
    NoInst = NoInst
    NoCall = NoCall
    MaxRuns = 2
SPECIFICATION FairSpec
INVARIANTS AppliedAtMostOnce Agreement
PROPERTIES OutcomeIsFinal NeverReconciledAlive CallsAreAnswered
CHECK_DEADLOCK FALSE
