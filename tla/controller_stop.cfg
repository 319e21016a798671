\* One operator call while the first scheduling passes run.
CONSTANTS
    t1 = t1
    t2 = t2
    Targets = {t1, t2}
    DependsOn <- MCChain
    RequiresApproval = {}
    Asking = {}
    MaxConcurrent = 1
    MaxTasks = 1
    MaxRepairs = 0
    MaxEvents = 1
SPECIFICATION Spec
INVARIANTS StoppedMeansQuiet
CHECK_DEADLOCK FALSE
