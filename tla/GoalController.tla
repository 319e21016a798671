--------------------------- MODULE GoalController ---------------------------
(***************************************************************************)
(* The continuous goal controller driving one run                          *)
(* (packages/goals/src/controller/controller.ts and eligibility.ts):       *)
(* the scheduling loop of the run's driver, the attempts it launches, the  *)
(* operations an operator calls meanwhile, and crashes.                    *)
(*                                                                         *)
(* All of them are asynchronous activities of one process.  A step ends at *)
(* the next await that lets another activity change what the controller    *)
(* looks at; a ledger commit reads the fresh run and replaces it in one    *)
(* step, because commit() plans inside a compare-and-set (GoalLedger), and *)
(* once() is the record OnceEffects models.  The order in which targets    *)
(* are preferred, evidence, spend and event emission are left out, and     *)
(* every external service answers anything it can.                         *)
(***************************************************************************)
EXTENDS Integers, FiniteSets, FiniteSetsExt

CONSTANTS
    Targets,          \* the targets of the pinned graph
    DependsOn,        \* DependsOn[t]: the targets t depends on
    RequiresApproval, \* the targets with requiresApproval
    MaxConcurrent,    \* resourceLimits.maxConcurrentTargets
    MaxTasks,         \* resourceLimits.maxTasksPerRun
    MaxRepairs,       \* resourceLimits.maxRepairsPerTask
    Asking,           \* the targets governance.preflight asks an execute approval for
    MaxEvents         \* bound on operator calls, crashes and deadlines together

ASSUME ControllerAssumption ==
    /\ IsFiniteSet(Targets)
    /\ DependsOn \in [Targets -> SUBSET Targets]
    /\ RequiresApproval \subseteq Targets
    /\ Asking \subseteq Targets
    /\ MaxConcurrent \in Nat \ {0}
    /\ {MaxTasks, MaxRepairs, MaxEvents} \subseteq Nat

VARIABLES
    status,   \* GoalRunLedger.status
    tasks,    \* GoalRunLedger.resource.tasksStarted
    entry,    \* GoalRunLedger.targets
    att,      \* att[t][n]: attempt n of t, its outcome and its once() records
    up,       \* the process runs
    loop,     \* the await the driver's loop is at; "off": no driver
    snap,     \* the run as the scheduling pass last read it: [status, targets]
    todo,     \* the repairing and eligible targets the pass has still to look at
    launched, \* the pass has launched an attempt
    wake,     \* Driver.wakePending
    work,     \* work[t]: where the attempt in flight on t is
    op,       \* the operator's call in progress
    expired,  \* the run's deadline has passed
    events    \* operator calls, crashes and deadlines so far

ledgerVars == <<status, tasks, entry, att>>
passVars == <<snap, todo, launched>>
boundVars == <<expired, events>>
vars == <<ledgerVars, up, loop, passVars, wake, work, op, boundVars>>

TerminalRun == {"stopped", "completed", "failed"}
RunTransitions ==
    [s \in {"created", "running", "pausing", "paused", "stopping", "idle"} \cup TerminalRun |->
        CASE s = "created"  -> {"running", "paused", "stopping", "stopped", "failed"}
          [] s = "running"  -> {"pausing", "paused", "stopping", "stopped", "idle", "completed", "failed"}
          [] s = "pausing"  -> {"paused", "running", "stopping", "stopped", "failed"}
          [] s = "paused"   -> {"running", "stopping", "stopped", "failed"}
          [] s = "stopping" -> {"stopped", "failed"}
          [] s = "idle"     -> {"running", "paused", "stopping", "stopped", "completed", "failed"}
          [] OTHER          -> {}]

TargetTransitions ==
    [queued |-> {"eligible", "blocked", "stopped"},
     eligible |-> {"active", "queued", "needs_approval", "blocked", "stopped"},
     active |-> {"verifying", "failed", "needs_approval", "blocked", "stopped"},
     verifying |-> {"verified", "failed", "awaiting_external", "blocked", "stopped"},
     verified |-> {"completed", "needs_approval", "awaiting_external", "failed", "blocked", "stopped"},
     failed |-> {"repairing", "blocked", "stopped"},
     repairing |-> {"active", "eligible", "blocked", "stopped"},
     needs_approval |-> {"eligible", "blocked", "stopped"},
     awaiting_external |-> {"blocked", "stopped"},
     blocked |-> {},
     completed |-> {},
     stopped |-> {}]
TargetStatuses == DOMAIN TargetTransitions

\* The edges only a user may take: HUMAN_TARGET_TRANSITIONS, and completing a
\* target that needs approval.
HumanTransitions ==
    [s \in TargetStatuses |->
        CASE s \in {"failed", "blocked", "awaiting_external", "stopped"} -> {"eligible"}
          [] s = "needs_approval" -> {"eligible", "completed", "blocked"}
          [] OTHER -> {}]

InFlight == {"active", "verifying", "verified"}
Kinds == {"execute", "complete"}
NoWork == [pc |-> "none", n |-> 0, abort |-> FALSE]
NoOp == [kind |-> "none", target |-> "none", to |-> "none"]
NoAttempt == [outcome |-> "none", exec |-> "none", verify |-> "none", commit |-> "none"]

\* Driver.active: a target whose attempt is committed but not launched is not in it.
active == {t \in Targets : work[t].pc \notin {"none", "committed"}}

CanTransition(from, to) == to \in TargetTransitions[from]
HumanCanTransition(from, to) == to \in TargetTransitions[from] \cup HumanTransitions[from]

-----------------------------------------------------------------------------
(* The scheduling loop: runLoop and step.                                   *)

Snapshot(s, e) == [status |-> s, targets |-> [t \in Targets |-> e[t].status]]
NoSnap == [status |-> "created", targets |-> [t \in Targets |-> "queued"]]

\* Mutant: a verified dependency is enough.
DependenciesVerified(ts, t) == \A d \in DependsOn[t] : ts[d] \in {"verified", "completed"}
DependenciesCompleted(ts, t) == \A d \in DependsOn[t] : ts[d] = "completed"
EligibleTargets(ts) ==
    {t \in Targets : ts[t] \in {"queued", "eligible"} /\ DependenciesCompleted(ts, t)}
NewlyUnlocked(ts) == {t \in EligibleTargets(ts) : ts[t] = "queued"}

\* Mutant: targets that are terminal count as done.
AllTerminal(ts) == \A t \in Targets : ts[t] \in {"completed", "blocked", "stopped"}
AllCompleted(ts) == \A t \in Targets : ts[t] = "completed"

\* startRun has created the run and holds its driver.
Init ==
    /\ status = "created"
    /\ tasks = 0
    /\ entry = [t \in Targets |->
                  [status |-> IF DependsOn[t] = {} THEN "eligible" ELSE "queued",
                   attempts |-> 0, repairs |-> 0, pending |-> "none", granted |-> {}]]
    /\ att = [t \in Targets |-> [n \in 1..MaxTasks |-> NoAttempt]]
    /\ up = TRUE
    /\ loop = "wait"
    /\ snap = NoSnap
    /\ todo = {}
    /\ launched = FALSE
    /\ wake = TRUE
    /\ work = [t \in Targets |-> NoWork]
    /\ op = [kind |-> "start", target |-> "none", to |-> "running"]
    /\ expired = FALSE
    /\ events = 0

\* Mutant: a wake-up that came during the pass is forgotten.
PassEndsDeaf(exit) ==
    /\ loop' = IF exit /\ op = NoOp /\ active = {} THEN "off" ELSE "wait"
    /\ todo' = {}
    /\ launched' = FALSE
    /\ snap' = NoSnap

\* The pass is over; the loop ends when the pass allows it and nothing is in
\* flight, held or pending, and otherwise waits for the next wake.
PassEnds(exit) ==
    /\ loop' = IF exit /\ ~wake /\ op = NoOp /\ active = {} THEN "off" ELSE "wait"
    /\ todo' = {}
    /\ launched' = FALSE
    /\ snap' = NoSnap

\* The driver is gone.
DriverGone ==
    /\ loop' = "off"
    /\ wake' = FALSE
    /\ snap' = NoSnap /\ todo' = {} /\ launched' = FALSE
    /\ work' = [t \in Targets |-> NoWork]
    /\ op' = NoOp
    /\ UNCHANGED <<status, tasks, entry>>

\* The process goes on: attempts and calls give up at their next check of the
\* driver, and the effects they were running settle.
EffectsSettle ==
    \E r \in [{t \in Targets : work[t].pc \in {"executing", "verifying"}} -> {"ok", "failed"}] :
        att' = [t \in Targets |-> [n \in 1..MaxTasks |->
                  IF n # work[t].n THEN att[t][n]
                  ELSE CASE work[t].pc = "executing"  -> [att[t][n] EXCEPT !.exec = r[t]]
                         [] work[t].pc = "verifying"  -> [att[t][n] EXCEPT !.verify = r[t]]
                         [] work[t].pc = "committing" -> [att[t][n] EXCEPT !.commit = "failed"]
                         [] OTHER -> att[t][n]]]

\* An error ends the loop and disposes the driver.
LoopDies == DriverGone /\ EffectsSettle /\ UNCHANGED <<up, boundVars>>

RunMay(to) == status = to \/ to \in RunTransitions[status]

\* setRunStatus as the loop calls it: an illegal change kills the loop.
LoopSetsStatus(to, Then) ==
    \/ /\ RunMay(to)
       /\ status' = to
       /\ Then
       /\ UNCHANGED <<tasks, entry, att, up, work, op, boundVars>>
    \/ ~RunMay(to) /\ LoopDies

\* The loop wakes, reads the run and looks at its status.
Load ==
    /\ loop = "wait" /\ wake
    /\ wake' = FALSE
    /\ todo' = {} /\ launched' = FALSE
    /\ work' = IF status = "stopping" THEN [t \in Targets |-> [work[t] EXCEPT !.abort = t \in active]]
               ELSE work
    /\ loop' = CASE status \in TerminalRun \cup {"paused"} ->
                        IF op = NoOp /\ active = {} THEN "off" ELSE "wait"
                 [] status \in {"pausing", "stopping"} -> IF active = {} THEN status ELSE "wait"
                 [] status = "created" -> "starting"
                 [] OTHER -> "unlock"
    /\ snap' = IF status \in {"idle", "running"} THEN Snapshot(status, entry)
               ELSE NoSnap
    /\ UNCHANGED <<ledgerVars, up, op, boundVars>>

\* The commit a pausing, stopping or created run asks for.
Settle ==
    \/ loop = "pausing" /\ LoopSetsStatus("paused", PassEnds(TRUE) /\ UNCHANGED wake)
    \/ loop = "stopping" /\ LoopSetsStatus("stopped", PassEnds(TRUE) /\ UNCHANGED wake)
    \/ loop = "starting" /\ LoopSetsStatus("running", PassEnds(FALSE) /\ wake' = TRUE)

\* unlockDependencies: everything newly unlocked becomes eligible in one commit.
Unlocked(e) ==
    [t \in Targets |-> IF t \in NewlyUnlocked(Snapshot(status, e).targets)
                         THEN [e[t] EXCEPT !.status = "eligible"] ELSE e[t]]
Unlock ==
    /\ loop = "unlock"
    /\ loop' = "select"
    /\ IF NewlyUnlocked(snap.targets) = {} THEN UNCHANGED <<entry, snap>>
       ELSE /\ entry' = Unlocked(entry)
            /\ snap' = Snapshot(status, entry')
    /\ UNCHANGED <<status, tasks, att, up, todo, launched, wake, work, op, boundVars>>

Room == MaxConcurrent - Cardinality(active)

\* launch() of attempts that are committed already.
Launched(S) ==
    [t \in Targets |-> IF t \in S THEN [pc |-> "plan", n |-> entry[t].attempts, abort |-> FALSE]
                         ELSE work[t]]
Resumed(S, res) == S \subseteq res /\ Cardinality(S) = Min({Cardinality(res), Max({Room, 0})})

\* The deadline, then SELECT_TARGET on what the pass has read: targets in
\* flight that this driver does not run are launched at once.  (The code would
\* set an idle run to running first; IdleIsHonest says that an idle run has none.)
Select ==
    /\ loop = "select"
    /\ IF expired THEN loop' = "deadline" /\ UNCHANGED <<todo, launched, work>>
       ELSE /\ loop' = "launch"
            /\ \E S \in SUBSET Targets :
                  /\ Resumed(S, {t \in Targets \ active : snap.targets[t] \in InFlight})
                  /\ work' = Launched(S)
                  /\ launched' = (S # {})
            /\ todo' = {t \in Targets \ active : \/ snap.targets[t] = "repairing"
                                                 \/ t \in EligibleTargets(snap.targets)}
    /\ UNCHANGED <<ledgerVars, up, snap, wake, op, boundVars>>

Pending == {t \in Targets : work[t].pc = "committed"}
TakesFresh == todo # {} /\ Pending = {} /\ Room > 0
BudgetBlocked == TakesFresh /\ tasks >= MaxTasks

\* An idle run that is about to launch something, or to be stopped, runs again first.
LeaveIdle ==
    /\ snap.status = "idle"
    /\ \/ loop \in {"deadline", "budget"}
       \/ loop = "launch" /\ TakesFresh /\ ~BudgetBlocked
    /\ LoopSetsStatus("running", /\ snap' = Snapshot("running", entry)
                                 /\ UNCHANGED <<loop, todo, launched, wake>>)

\* An execute approval granted for the target's last attempt resumes that attempt.
Reuses(t) ==
    /\ entry[t].status = "eligible" /\ entry[t].attempts > 0
    /\ <<"execute", entry[t].attempts>> \in entry[t].granted

\* Mutant: a resumed attempt is counted again.
NewTaskAlways(t) == 1
NewTask(t) == IF Reuses(t) THEN 0 ELSE 1

\* startAttempt: the target becomes active, the task is counted in the same commit.
StartAttempt(t) ==
    /\ loop = "launch" /\ TakesFresh /\ ~BudgetBlocked /\ snap.status # "idle"
    /\ t \in todo
    /\ \/ /\ CanTransition(entry[t].status, "active")
          /\ LET n == IF Reuses(t) THEN entry[t].attempts ELSE entry[t].attempts + 1
             IN /\ entry' = [entry EXCEPT ![t].status = "active", ![t].attempts = n]
                /\ work' = [work EXCEPT ![t] = [pc |-> "committed", n |-> n, abort |-> FALSE]]
          /\ tasks' = tasks + NewTask(t)
          /\ todo' = todo \ {t}
          /\ snap' = Snapshot(status, entry')
          /\ UNCHANGED <<status, att, up, loop, launched, wake, op, boundVars>>
       \/ ~CanTransition(entry[t].status, "active") /\ LoopDies

\* launch, after the transition and the phase have been emitted.
Launch ==
    /\ loop = "launch"
    /\ Pending # {}
    /\ work' = Launched(Pending)
    /\ launched' = TRUE
    /\ UNCHANGED <<ledgerVars, up, loop, snap, todo, wake, op, boundVars>>

\* The launches are over; with nothing in flight the pass decides the run's fate.
Decide ==
    /\ loop = "launch" /\ Pending = {}
    /\ Room <= 0 \/ todo = {} \/ BudgetBlocked
    /\ IF launched \/ active # {} THEN PassEnds(FALSE)
       ELSE /\ loop' = CASE AllCompleted(snap.targets) -> "completing"
                         [] OTHER -> IF BudgetBlocked THEN "budget" ELSE "idling"
            /\ UNCHANGED passVars
    /\ UNCHANGED <<ledgerVars, up, wake, work, op, boundVars>>

Conclude ==
    \/ loop = "completing" /\ LoopSetsStatus("completed", PassEnds(TRUE) /\ UNCHANGED wake)
    \/ /\ loop = "idling" /\ snap.status # "idle"
       /\ LoopSetsStatus("idle", PassEnds(TRUE) /\ UNCHANGED wake)
    \/ /\ loop = "idling" /\ snap.status = "idle"
       /\ PassEnds(TRUE)
       /\ UNCHANGED <<ledgerVars, up, wake, work, op, boundVars>>
    \/ /\ loop = "budget" /\ snap.status # "idle"
       /\ LoopSetsStatus("stopping", loop' = "stopping" /\ UNCHANGED <<passVars, wake>>)

\* The deadline stops the run and aborts what is in flight.
Deadline ==
    /\ loop = "deadline" /\ snap.status # "idle"
    /\ \/ /\ RunMay("stopping")
          /\ status' = "stopping"
          /\ work' = [t \in Targets |-> [work[t] EXCEPT !.abort = t \in active]]
          /\ PassEnds(FALSE)
          /\ wake' = TRUE
          /\ UNCHANGED <<tasks, entry, att, up, op, boundVars>>
       \/ ~RunMay("stopping") /\ LoopDies

LoopNext ==
    \/ Load \/ Settle \/ Unlock \/ Select \/ LeaveIdle
    \/ \E t \in Targets : StartAttempt(t)
    \/ Launch \/ Decide \/ Conclude \/ Deadline

-----------------------------------------------------------------------------
(* One target attempt: runAttempt and what it calls.                        *)

\* Mutant: the transition table is not consulted.
MovesAlways(e, t, to) == TRUE
Moves(e, t, to) == e[t].status = to \/ CanTransition(e[t].status, to)
Moved(e, t, to) == [e EXCEPT ![t].status = to]
At(t, pc) == work[t].pc = pc
Goto(t, pc) == work' = [work EXCEPT ![t].pc = pc]
Attempt(t) == att[t][work[t].n]
Recorded(a, t, field, v) == [a EXCEPT ![t][work[t].n] = [@ EXCEPT ![field] = v]]

\* saveAttempt refuses to rewrite an attempt that has an outcome: only an
\* attempt waiting for approval has no end time that a second save would change.
Conflict(a, o) == a.outcome # "none" /\ ~(o = "awaiting_approval" /\ a.outcome = o)

AttemptLeaves == <<status, tasks, up, loop, passVars, wake, op, boundVars>>

\* blockTarget, which is also where an unexpected error of the attempt ends.
BlockTarget(t, e, a) ==
    /\ entry' = IF Moves(e, t, "blocked") THEN Moved(e, t, "blocked") ELSE e
    /\ att' = IF Moves(e, t, "blocked") /\ ~Conflict(a[t][work[t].n], "blocked")
              THEN Recorded(a, t, "outcome", "blocked") ELSE a
    /\ Goto(t, "done")

\* awaitApproval: the pending marker is written with the transition, the
\* attempt's outcome after it.
AwaitApproval(t, kind) ==
    IF Moves(entry, t, "needs_approval")
    THEN /\ entry' = IF entry[t].status = "needs_approval" THEN entry
                     ELSE [entry EXCEPT ![t].status = "needs_approval", ![t].pending = kind]
         /\ Goto(t, "asked")
         /\ UNCHANGED att
    ELSE BlockTarget(t, entry, att)

\* failAttempt up to the recorded outcome, from the entries e.
FailAttempt(t, e) ==
    LET f == IF e[t].status \in InFlight THEN Moved(e, t, "failed") ELSE e
    IN IF Conflict(Attempt(t), "failed") THEN BlockTarget(t, f, att)
       ELSE /\ entry' = f
            /\ att' = Recorded(att, t, "outcome", "failed")
            /\ Goto(t, "diagnose")

\* stopTarget; its errors are swallowed.
StopTarget(t) ==
    /\ entry' = IF Moves(entry, t, "stopped") THEN Moved(entry, t, "stopped") ELSE entry
    /\ att' = IF Moves(entry, t, "stopped") /\ ~Conflict(Attempt(t), "cancelled")
              THEN Recorded(att, t, "outcome", "cancelled") ELSE att
    /\ Goto(t, "done")

\* checkAbort finds the attempt's signal aborted.
AbortAttempt(t) ==
    /\ work[t].abort /\ work[t].pc \in {"plan", "executed", "gate"}
    /\ StopTarget(t)
    /\ UNCHANGED AttemptLeaves

\* Mutant: an approval of any attempt will do.
GrantedEarlier(t, kind) == \E n \in 1..MaxTasks : <<kind, n>> \in entry[t].granted

\* grantedApproval, of a kind and for the attempt itself.
Granted(t, kind) == <<kind, work[t].n>> \in entry[t].granted

\* Preflight goes no further without an approval.
MustAsk(t) == t \in Asking /\ ~Granted(t, "execute")

\* PLAN_TASK, PREFLIGHT and ROUTE_MODEL, then once(EXECUTE) if all of them allow it.
\* A route that spends may ask for the approval of any target.
Preflight(t) ==
    /\ At(t, "plan") /\ ~work[t].abort
    /\ \/ BlockTarget(t, entry, att)
       \/ ~Granted(t, "execute") /\ AwaitApproval(t, "execute")
       \/ ~MustAsk(t) /\ FailAttempt(t, entry)
       \/ /\ ~MustAsk(t) /\ Attempt(t).exec = "none"
          /\ att' = Recorded(att, t, "exec", "in_flight")
          /\ Goto(t, "executing")
          /\ UNCHANGED entry
       \/ /\ ~MustAsk(t) /\ Attempt(t).exec # "none"
          /\ Goto(t, "executed")
          /\ UNCHANGED <<entry, att>>
    /\ UNCHANGED AttemptLeaves

\* The executor answers; once records it.
ExecuteReturns(t) ==
    /\ At(t, "executing")
    /\ \E r \in {"ok", "failed"} : att' = Recorded(att, t, "exec", r)
    /\ Goto(t, "executed")
    /\ UNCHANGED <<entry, AttemptLeaves>>

\* Mutant: a record without an outcome passes for a success.
ExecutedOptimistic(t) ==
    /\ At(t, "executed") /\ ~work[t].abort
    /\ LET e == IF entry[t].status = "active" THEN Moved(entry, t, "verifying") ELSE entry
       IN IF Attempt(t).exec # "failed"
          THEN entry' = e /\ Goto(t, "verify") /\ UNCHANGED att
          ELSE FailAttempt(t, e)
    /\ UNCHANGED AttemptLeaves

\* The result, replayed or not, is taken to verification.  A record left in
\* flight by a crash is an error, like a failed execution.
Executed(t) ==
    /\ At(t, "executed") /\ ~work[t].abort
    /\ LET e == IF entry[t].status = "active" THEN Moved(entry, t, "verifying") ELSE entry
       IN IF Attempt(t).exec = "ok"
          THEN entry' = e /\ Goto(t, "verify") /\ UNCHANGED att
          ELSE FailAttempt(t, e)
    /\ UNCHANGED AttemptLeaves

\* once(INDEPENDENT_VERIFY): started, replayed, or refused because its outcome is unknown.
Verify(t) ==
    /\ At(t, "verify")
    /\ CASE Attempt(t).verify = "none" -> /\ att' = Recorded(att, t, "verify", "in_flight")
                                          /\ Goto(t, "verifying")
                                          /\ UNCHANGED entry
         [] Attempt(t).verify = "ok" -> Goto(t, "gate") /\ UNCHANGED <<entry, att>>
         [] OTHER -> BlockTarget(t, entry, att)
    /\ UNCHANGED AttemptLeaves

VerifyReturns(t) ==
    /\ At(t, "verifying")
    /\ \/ att' = Recorded(att, t, "verify", "ok") /\ Goto(t, "gate") /\ UNCHANGED entry
       \/ BlockTarget(t, entry, Recorded(att, t, "verify", "failed"))
    /\ UNCHANGED AttemptLeaves

\* enforceGate turns a completion into a request for approval where one is due.
EnforceGate(t, decision) ==
    IF decision = "completed" /\ t \in RequiresApproval /\ entry[t].granted = {}
    THEN "needs_approval" ELSE decision

\* The end of commitProgress: the attempt has succeeded, if it may still say so.
Succeed(t, e, a) ==
    IF Conflict(a[t][work[t].n], "succeeded") THEN BlockTarget(t, e, a)
    ELSE /\ entry' = e
         /\ att' = Recorded(a, t, "outcome", "succeeded")
         /\ Goto(t, "done")

\* once(COMMIT_PROGRESS): started, replayed, or refused.
OnceCommit(t) ==
    CASE Attempt(t).commit = "none" -> /\ att' = Recorded(att, t, "commit", "in_flight")
                                       /\ Goto(t, "committing")
                                       /\ UNCHANGED entry
      [] Attempt(t).commit = "ok" -> Succeed(t, entry, att)
      [] OTHER -> BlockTarget(t, entry, att)

\* ACCEPTANCE_GATE.  Waiting for external evidence gives the attempt an end time,
\* which one that is on record as awaiting approval may not get any more.
Gate(t) ==
    /\ At(t, "gate") /\ ~work[t].abort
    /\ \E decision \in {"completed", "needs_approval", "awaiting_external", "blocked", "repair"} :
         CASE EnforceGate(t, decision) = "completed" -> OnceCommit(t)
           [] EnforceGate(t, decision) = "needs_approval" ->
                /\ entry' = IF entry[t].status = "verifying" THEN Moved(entry, t, "verified") ELSE entry
                /\ Goto(t, "signoff")
                /\ UNCHANGED att
           [] EnforceGate(t, decision) = "awaiting_external" ->
                IF Moves(entry, t, "awaiting_external") /\ Attempt(t).outcome = "none"
                THEN /\ entry' = Moved(entry, t, "awaiting_external")
                     /\ Goto(t, "done")
                     /\ UNCHANGED att
                ELSE BlockTarget(t, entry, att)
           [] EnforceGate(t, decision) = "blocked" -> BlockTarget(t, entry, att)
           [] OTHER -> FailAttempt(t, entry)
    /\ UNCHANGED AttemptLeaves

SignOff(t) ==
    /\ At(t, "signoff")
    /\ AwaitApproval(t, "complete")
    /\ UNCHANGED AttemptLeaves

\* The end of awaitApproval.
Asked(t) ==
    /\ At(t, "asked")
    /\ IF Conflict(Attempt(t), "awaiting_approval") THEN BlockTarget(t, entry, att)
       ELSE /\ att' = Recorded(att, t, "outcome", "awaiting_approval")
            /\ Goto(t, "done")
            /\ UNCHANGED entry
    /\ UNCHANGED AttemptLeaves

\* The commit inside once(COMMIT_PROGRESS): verifying, verified and completed in one.
CommitProgress(t) ==
    /\ At(t, "committing")
    /\ IF entry[t].status \in {"verifying", "verified", "completed"}
       THEN Succeed(t, Moved(entry, t, "completed"), Recorded(att, t, "commit", "ok"))
       ELSE BlockTarget(t, entry, Recorded(att, t, "commit", "failed"))
    /\ UNCHANGED AttemptLeaves

\* Recovery decides; a repair within the budget is recorded for the loop to retest.
Diagnose(t) ==
    /\ At(t, "diagnose")
    /\ \/ BlockTarget(t, entry, att)
       \/ /\ entry[t].repairs < MaxRepairs
          /\ CanTransition(entry[t].status, "repairing")
          /\ entry' = [entry EXCEPT ![t].status = "repairing", ![t].repairs = @ + 1]
          /\ Goto(t, "done")
          /\ UNCHANGED att
    /\ UNCHANGED AttemptLeaves

\* Mutant: the loop is not woken.
AttemptEndsQuietly(t) ==
    /\ At(t, "done")
    /\ work' = [work EXCEPT ![t] = NoWork]
    /\ UNCHANGED <<ledgerVars, up, loop, passVars, wake, op, boundVars>>

\* The attempt leaves Driver.active and wakes the loop.
AttemptEnds(t) ==
    /\ At(t, "done")
    /\ work' = [work EXCEPT ![t] = NoWork]
    /\ wake' = TRUE
    /\ UNCHANGED <<ledgerVars, up, loop, passVars, op, boundVars>>

AttemptNext(t) ==
    \/ AbortAttempt(t) \/ Preflight(t) \/ ExecuteReturns(t) \/ Executed(t)
    \/ Verify(t) \/ VerifyReturns(t) \/ Gate(t) \/ SignOff(t) \/ Asked(t)
    \/ CommitProgress(t) \/ Diagnose(t) \/ AttemptEnds(t)

-----------------------------------------------------------------------------
(* The operator's calls.  Each runs under withDriver: it starts a driver if *)
(* there is none, reads the run, and commits in a later step.               *)

OperatorCalls(call) ==
    /\ up /\ op = NoOp /\ events < MaxEvents /\ status \notin TerminalRun
    /\ events' = events + 1
    /\ op' = call
    /\ loop' = IF loop = "off" THEN "wait" ELSE loop
    /\ wake' = (wake \/ loop = "off")
    /\ UNCHANGED <<ledgerVars, up, passVars, expired>>

ToStatus(to) == [kind |-> "status", target |-> "none", to |-> to]
OnTarget(kind, t) == [kind |-> kind, target |-> t, to |-> "none"]

Pause ==
    /\ status \notin {"paused", "pausing"}
    /\ OperatorCalls(ToStatus(IF active # {} THEN "pausing" ELSE "paused"))
    /\ UNCHANGED work

Resume ==
    /\ status \notin {"running", "stopping"}
    /\ OperatorCalls(ToStatus("running"))
    /\ UNCHANGED work

\* stop aborts what is in flight before it commits.
Stop ==
    /\ OperatorCalls(ToStatus(IF active # {} THEN "stopping" ELSE "stopped"))
    /\ work' = [t \in Targets |-> [work[t] EXCEPT !.abort = t \in active]]

\* runEligible of a run that is not running; the preference it records only orders targets.
RunEligible ==
    /\ status \in {"idle", "created"}
    /\ EligibleTargets(Snapshot(status, entry).targets) # {}
    /\ OperatorCalls(ToStatus("running"))
    /\ UNCHANGED work

RetryTarget(t) ==
    /\ entry[t].status \in {"failed", "blocked", "awaiting_external", "stopped"}
    /\ OperatorCalls(OnTarget("retry", t))
    /\ UNCHANGED work

ResolveApproval(t) ==
    /\ entry[t].status = "needs_approval" /\ entry[t].pending # "none"
    /\ \E kind \in {"deny", IF entry[t].pending = "execute" THEN "approve" ELSE "grant"} :
          OperatorCalls(OnTarget(kind, t))
    /\ UNCHANGED work

OperatorNext ==
    \/ Pause \/ Resume \/ Stop \/ RunEligible
    \/ \E t \in Targets : RetryTarget(t) \/ ResolveApproval(t)

CallLeaves == <<tasks, up, loop, passVars, work, boundVars>>
CallEnds == op' = NoOp /\ wake' = TRUE
CallGoesOn(kind) == op' = [op EXCEPT !.kind = kind] /\ UNCHANGED wake

\* setRunStatus for the operator; an illegal change is the caller's error.
CommitStatus ==
    /\ op.kind \in {"status", "start"}
    /\ status' = IF RunMay(op.to) THEN op.to ELSE status
    /\ IF op.kind = "start" /\ RunMay(op.to) THEN CallGoesOn("unlock") ELSE CallEnds
    /\ UNCHANGED <<entry, att, CallLeaves>>

\* The end of startRun.
CommitUnlock ==
    /\ op.kind = "unlock"
    /\ entry' = Unlocked(entry)
    /\ CallEnds
    /\ UNCHANGED <<status, att, CallLeaves>>

\* The transition a retry, a denied or a granted execute approval commits.
CommitResolution ==
    /\ op.kind \in {"retry", "deny", "approve"}
    /\ LET t == op.target
           to == IF op.kind = "deny" THEN "blocked" ELSE "eligible"
           n == entry[t].attempts
       IN IF entry[t].status # to /\ HumanCanTransition(entry[t].status, to)
          THEN /\ entry' = [entry EXCEPT ![t].status = to, ![t].pending = "none",
                      ![t].repairs = IF op.kind = "retry" THEN 0 ELSE @,
                      ![t].granted = IF op.kind = "approve" THEN @ \cup {<<"execute", n>>} ELSE @]
               /\ CallGoesOn("after")
          ELSE /\ UNCHANGED entry
               /\ IF entry[t].status = to THEN CallGoesOn("after") ELSE CallEnds
    /\ UNCHANGED <<status, att, CallLeaves>>

\* A granted completion: the marker is committed first.
CommitGrant ==
    /\ op.kind = "grant"
    /\ entry' = [entry EXCEPT ![op.target].pending = "none",
                   ![op.target].granted = @ \cup {<<"complete", entry[op.target].attempts>>}]
    /\ CallGoesOn("complete")
    /\ UNCHANGED <<status, att, CallLeaves>>

\* Then commitProgress, in the operator's name.  An attempt that is on record
\* as awaiting approval refuses its success, and the call ends in an error.
CommitCompletion ==
    /\ op.kind = "complete"
    /\ LET t == op.target
           n == entry[t].attempts
           a == att[t][n]
           legal == entry[t].status = "completed" \/ HumanCanTransition(entry[t].status, "completed")
           applies == a.commit = "none" /\ legal
           succeeds == (applies \/ a.commit = "ok") /\ ~Conflict(a, "succeeded")
       IN /\ entry' = IF applies THEN Moved(entry, t, "completed") ELSE entry
          /\ att' = [att EXCEPT ![t][n] = [a EXCEPT
                       !.commit = IF applies THEN "ok" ELSE IF @ = "none" THEN "failed" ELSE @,
                       !.outcome = IF succeeds THEN "succeeded" ELSE @]]
          /\ IF succeeds THEN CallGoesOn("after") ELSE CallEnds
    /\ UNCHANGED <<status, CallLeaves>>

\* A run that went idle meanwhile runs again.
CommitAfter ==
    /\ op.kind = "after"
    /\ status' = IF status = "idle" THEN "running" ELSE status
    /\ CallEnds
    /\ UNCHANGED <<entry, att, CallLeaves>>

CallNext ==
    \/ CommitStatus \/ CommitUnlock \/ CommitResolution \/ CommitGrant
    \/ CommitCompletion \/ CommitAfter

-----------------------------------------------------------------------------
(* The environment, and the specification.                                  *)

DeadlinePasses ==
    /\ ~expired /\ events < MaxEvents
    /\ expired' = TRUE
    /\ events' = events + 1
    /\ UNCHANGED <<ledgerVars, up, loop, passVars, wake, work, op>>

\* The process dies: the once() records of running effects stay in flight.
Crash ==
    /\ up /\ events < MaxEvents
    /\ up' = FALSE
    /\ events' = events + 1
    /\ DriverGone
    /\ UNCHANGED <<att, expired>>

\* shutdown(): the lease is released and the driver disposed.
Shutdown ==
    /\ up /\ events < MaxEvents
    /\ up' = FALSE
    /\ events' = events + 1
    /\ DriverGone /\ EffectsSettle
    /\ UNCHANGED expired

\* A new process starts and calls recoverRuns.
RecoverRuns ==
    /\ ~up
    /\ up' = TRUE
    /\ IF status \in {"created", "running", "pausing", "stopping", "idle"}
       THEN loop' = "wait" /\ wake' = TRUE
       ELSE UNCHANGED <<loop, wake>>
    /\ UNCHANGED <<ledgerVars, passVars, work, op, boundVars>>

Next ==
    \/ LoopNext
    \/ \E t \in Targets : AttemptNext(t)
    \/ OperatorNext \/ CallNext
    \/ DeadlinePasses \/ Crash \/ Shutdown \/ RecoverRuns

Spec == Init /\ [][Next]_vars

\* The process runs its activities, and the executor, the verifier and the
\* store answer: what a promise waits for settles.  Nothing obliges the
\* operator to call, and nothing restarts a process that is down.
FairSpec ==
    /\ Spec
    /\ WF_vars(LoopNext) /\ WF_vars(CallNext)
    /\ \A t \in Targets : WF_vars(AttemptNext(t))

-----------------------------------------------------------------------------
(* Properties.                                                              *)

OutcomeSet == {"none", "awaiting_approval", "succeeded", "failed", "blocked", "cancelled"}
RecordSet == {"none", "in_flight", "ok", "failed"}
EntryRecord == [status : TargetStatuses, attempts : 0..MaxTasks, repairs : 0..MaxRepairs,
                pending : Kinds \cup {"none"}, granted : SUBSET (Kinds \X (1..MaxTasks))]
AttemptRecord == [outcome : OutcomeSet, exec : RecordSet, verify : RecordSet, commit : RecordSet]
Points == {"none", "committed", "plan", "executing", "executed", "verify", "verifying", "gate",
           "signoff", "asked", "committing", "diagnose", "done"}
WorkRecord == [pc : Points, n : 0..MaxTasks, abort : BOOLEAN]
CallRecord == [kind : {"none", "start", "status", "unlock", "retry", "deny", "approve", "grant",
                       "complete", "after"},
               target : Targets \cup {"none"}, to : DOMAIN RunTransitions \cup {"none"}]
LoopPoints == {"off", "wait", "starting", "pausing", "stopping", "unlock", "select", "launch",
               "deadline", "budget", "idling", "completing"}

\* Every variable has its type.
TypeOK ==
    /\ status \in DOMAIN RunTransitions
    /\ tasks \in 0..MaxTasks
    /\ entry \in [Targets -> EntryRecord]
    /\ att \in [Targets -> [1..MaxTasks -> AttemptRecord]]
    /\ up \in BOOLEAN /\ wake \in BOOLEAN /\ launched \in BOOLEAN
    /\ loop \in LoopPoints
    /\ snap \in [status : DOMAIN RunTransitions, targets : [Targets -> TargetStatuses]]
    /\ todo \subseteq Targets
    /\ work \in [Targets -> WorkRecord]
    /\ op \in CallRecord
    /\ expired \in BOOLEAN /\ events \in 0..MaxEvents

\* A target that has left the queue has all its dependencies completed, whatever
\* stale snapshot a scheduling pass, a resumed attempt or a retry acted on
\* (UNLOCKING_TARGET_STATUSES; eligibleTargets and newlyUnlockedTargets).
DependenciesFirst ==
    \A t \in Targets : entry[t].status # "queued" =>
        \A d \in DependsOn[t] : entry[d].status = "completed"

\* A run is completed only when every target is, although step decides it on a
\* snapshot and commits it later.
CompletedMeansAll ==
    status = "completed" => \A t \in Targets : entry[t].status = "completed"

\* The attempts startAttempt has committed.
StartedAttempts == UNION {{t} \X (1..entry[t].attempts) : t \in Targets}

\* tasksStarted counts every attempt exactly once, also across crashes and
\* approved attempts that are resumed, and never passes maxTasksPerRun.
BudgetCounts ==
    /\ tasks = Cardinality(StartedAttempts)
    /\ tasks <= MaxTasks

\* Where governance asks, no attempt executes without an execute approval that a
\* user granted for this very attempt (controller.ts 716, startAttempt's reuse):
\* neither one of an earlier attempt nor one that was only requested before a crash
\* will do, whatever stale pass has launched the attempt.
ExecutionIsApproved ==
    \A t \in Asking, n \in 1..MaxTasks :
        att[t][n].exec # "none" => <<"execute", n>> \in entry[t].granted

\* A target that requires approval is completed on an approval of its completion in
\* that attempt: "An approval is scoped to (runId, targetId, attempt, action) and is
\* not reusable elsewhere" (INTEGRATION-CONTRACTS.md 122-123).  The code breaks it:
\* enforceGate accepts any approval the target was ever granted.
ApprovalIsScoped ==
    \A t \in RequiresApproval : entry[t].status = "completed" =>
        <<"complete", entry[t].attempts>> \in entry[t].granted

\* A completed target stays completed: no attempt launched again on a stale
\* snapshot, aborted, failed or repeated after a crash takes it back.
CompletedIsForever ==
    [][\A t \in Targets : entry[t].status = "completed" => entry'[t].status = "completed"]_vars

\* A completed target was executed and independently verified in its last
\* attempt, with both results on record.
CompletedWasVerified ==
    \A t \in Targets : entry[t].status = "completed" =>
        LET a == att[t][entry[t].attempts] IN a.exec = "ok" /\ a.verify = "ok"

\* An idle run, as stored or as a pass has read it, has nothing in flight, and one
\* that rests without a driver has nothing the controller could start: no wake-up
\* of a finished attempt or an operator's call was lost.
IdleIsHonest ==
    /\ \A s \in {snap, Snapshot(status, entry)} :
          s.status = "idle" => \A t \in Targets : s.targets[t] \notin InFlight
    /\ (status = "idle" /\ loop = "off" /\ up) =>
          /\ EligibleTargets(Snapshot(status, entry).targets) = {}
          /\ \A t \in Targets : entry[t].status # "repairing"

\* The controller comes to rest: no pass wakes the loop for ever, and no loop
\* waits for a wake-up that never comes.
EventuallyRests == <>[](loop = "off" \/ ~up)

\* No attempt is in flight in a run that has been stopped: stop() cancels what
\* is in flight.  The code breaks it: a scheduling pass that read the run before
\* the stop goes on to start and launch an attempt after it.
StoppedMeansQuiet == status = "stopped" => active = {}
=============================================================================
