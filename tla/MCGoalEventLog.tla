--------------------------- MODULE MCGoalEventLog ---------------------------
(***************************************************************************)
(* Instances of GoalEventLog for TLC.                                      *)
(***************************************************************************)
EXTENDS GoalEventLog, TLC

CONSTANTS a1, a2, a3, u1, q1, q2

\* a1 shares its process with the subscription, the others do not.
MCProcOf == [x \in Appenders \cup Subs |-> IF x \in {a1, u1} THEN q1 ELSE q2]
=============================================================================
