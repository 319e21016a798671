-------------------------- MODULE MCJobOrchestrator --------------------------
(* Two processes and a job of two tasks, of which t1 may be retried once. *)
EXTENDS JobOrchestrator, TLC

CONSTANTS t1, t2, p1, p2

\* t2 needs t1.
Chain == [t \in Tasks |-> IF t = t2 THEN {t1} ELSE {}]

\* Both tasks can start at once.
Free == [t \in Tasks |-> {}]

MCGraphs == {Chain, Free}

MCTaskRetries == [t \in Tasks |-> IF t = t1 THEN MaxRetries ELSE 0]

Symmetry == Permutations(Procs)
=============================================================================
