---------------------------- MODULE MCGoalLedger ----------------------------
(***************************************************************************)
(* Instances of GoalLedger for TLC.                                        *)
(***************************************************************************)
EXTENDS GoalLedger, TLC

CONSTANTS p1, p2, h1, a

\* One holder id: p2 is the restarted p1, or the other way round.
MCOneHolder == [p \in Procs |-> h1]

MCNoDependencies == [t \in Targets |-> {}]

\* The processes do the same things and are told apart by nothing.
MCSymmetry == Permutations(Procs)
=============================================================================
