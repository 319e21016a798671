\* Two hosted requests of one process and a local one of another share a quota.
CONSTANTS
    p1 = p1  p2 = p2
    r1 = r1  r2 = r2  r3 = r3
    hosted = hosted  local = local
    Procs = {p1, p2}
    ProcOf <- MCProcOf
    Requests = {r1, r2, r3}
    Accounts = {hosted, local}
    LocalAccounts = {local}
    AccountOf <- MCAccountOf
    Estimate <- MCEstimate
    Actuals = {1, 2}
    Limit = 3
    MaxConcurrent = 2
    LeaseTime = 1
    MaxTime = 2
    MaxIncidents = 1
    NoUsage = NoUsage
SPECIFICATION FairSpec
INVARIANTS StatusAgrees ExpiredIsOwed
PROPERTIES AdmissionCounts QueueMoves
CHECK_DEADLOCK FALSE
