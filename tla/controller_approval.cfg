\* One target that requires approval, for which governance also asks before it is executed.
CONSTANTS
    t1 = t1
    t2 = t2
    Targets = {t1, t2}
    DependsOn <- MCChain
    RequiresApproval = {t1}
    Asking = {t1}
    MaxConcurrent = 1
    MaxTasks = 2
    MaxRepairs = 0
    MaxEvents = 1
SPECIFICATION Spec
INVARIANTS ApprovalIsScoped
CHECK_DEADLOCK FALSE
