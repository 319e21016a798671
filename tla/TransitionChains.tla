-------------------------- MODULE TransitionChains --------------------------
(***************************************************************************)
(* Target transitions of a goal run and what it means for a list of them   *)
(* to explain a status change (packages/goals/src/ledger/ledgerStore.ts,   *)
(* validateTransitions).  Constant operators only: the ledger and the      *)
(* abstract run history are both stated with them.                         *)
(***************************************************************************)
EXTENDS Integers, Sequences

CONSTANTS
    Targets,    \* the targets pinned by the run's graph revision
    DependsOn,  \* DependsOn[t]: the targets t waits for
    Statuses    \* the target statuses in play

ASSUME TargetsAssumption ==
    /\ Targets # {}
    /\ DependsOn \in [Targets -> SUBSET Targets]
    /\ {"queued", "eligible"} \subseteq Statuses
    /\ "absent" \notin Statuses

\* Status of every target of a run that has not been created.
NoStatuses == [t \in Targets |-> "absent"]

\* createRun: a target without dependencies starts eligible, any other queued.
InitialStatuses ==
    [t \in Targets |-> IF DependsOn[t] = {} THEN "eligible" ELSE "queued"]

Transition == [targetId : Targets, fromState : Statuses, toState : Statuses]

\* Position j is the last one before i that moves the same target as i.
Precedes(ts, j, i) ==
    /\ j < i
    /\ ts[j].targetId = ts[i].targetId
    /\ \A k \in DOMAIN ts : j < k /\ k < i => ts[k].targetId # ts[i].targetId

\* Position i is the first one that moves its target.
FirstFor(ts, i) ==
    \A k \in DOMAIN ts : k < i => ts[k].targetId # ts[i].targetId

\* Position i is the last one that moves its target.
LastFor(ts, i) ==
    \A k \in DOMAIN ts : i < k => ts[k].targetId # ts[i].targetId

(***************************************************************************)
(* Every target that changed has a chain of transitions leading from its   *)
(* old to its new status, and no transition claims a from-state its target *)
(* was not in.                                                             *)
(***************************************************************************)
Explains(before, after, ts) ==
    /\ \A i \in DOMAIN ts :
          /\ FirstFor(ts, i) => ts[i].fromState = before[ts[i].targetId]
          /\ LastFor(ts, i)  => ts[i].toState = after[ts[i].targetId]
    /\ \A i, j \in DOMAIN ts : Precedes(ts, j, i) => ts[i].fromState = ts[j].toState
    /\ \A t \in Targets :
          (\A i \in DOMAIN ts : ts[i].targetId # t) => after[t] = before[t]
=============================================================================
