-------------------------- MODULE MCResourceBudget --------------------------
EXTENDS ResourceBudget, TLC

CONSTANTS p1, p2, r1, r2, r3, hosted, local

MCProcOf == (r1 :> p1) @@ (r2 :> p1) @@ (r3 :> p2)
MCAccountOf == (r1 :> hosted) @@ (r2 :> hosted) @@ (r3 :> local)
MCEstimate == (r1 :> 1) @@ (r2 :> 1) @@ (r3 :> 2)
=============================================================================
