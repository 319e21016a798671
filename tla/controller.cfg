\* t2 depends on t1, which asks for both kinds of approval; three events disturb the run.
CONSTANTS
    t1 = t1
    t2 = t2
    Targets = {t1, t2}
    DependsOn <- MCChain
    RequiresApproval = {t1}
    Asking = {t1}
    MaxConcurrent = 1
    MaxTasks = 2
    MaxRepairs = 1
    MaxEvents = 3
SPECIFICATION FairSpec
INVARIANTS DependenciesFirst CompletedMeansAll BudgetCounts ExecutionIsApproved CompletedWasVerified IdleIsHonest
PROPERTIES CompletedIsForever EventuallyRests
CHECK_DEADLOCK FALSE
