----------------------------- MODULE RunHistory -----------------------------
(***************************************************************************)
(* What the durable ledger promises of one goal run: the statuses of its   *)
(* targets and one append-only history of transitions that explains them.  *)
(* Storage, leases, crashes and materialisation are invisible here; a      *)
(* commit is one indivisible step.                                         *)
(***************************************************************************)
EXTENDS TransitionChains

VARIABLES
    statuses,   \* the status of every target
    history     \* every committed transition, in order

hvars == <<statuses, history>>

HInit ==
    /\ statuses = NoStatuses
    /\ history = <<>>

\* The run comes into existence with no history.
HCreate ==
    /\ statuses = NoStatuses
    /\ statuses' = InitialStatuses
    /\ UNCHANGED history

\* One commit: the statuses change and the history grows by their explanation.
HCommit ==
    /\ statuses # NoStatuses
    /\ statuses' \in [Targets -> Statuses]
    /\ history' \in Seq(Transition)
    /\ LET ts == SubSeq(history', Len(history) + 1, Len(history'))
       IN  /\ history' = history \o ts
           /\ Explains(statuses, statuses', ts)

HNext == HCreate \/ HCommit

HSpec == HInit /\ [][HNext]_hvars
=============================================================================
