-------------------------- MODULE MCGoalController --------------------------
(***************************************************************************)
(* An instance of GoalController for TLC.                                  *)
(***************************************************************************)
EXTENDS GoalController, TLC

CONSTANTS t1, t2

\* t2 depends on t1.
MCChain == [t \in Targets |-> IF t = t2 THEN {t1} ELSE {}]
=============================================================================
