--------------------------- MODULE JobOrchestrator ---------------------------
(***************************************************************************)
(* One job, its record in the shared store, and the processes that run and *)
(* control it: packages/core/src/services/jobManager.ts (ownership,        *)
(* revisions, recovery), jobOrchestrator.ts (the pump and the task         *)
(* attempts) and statusTransitions.ts.                                     *)
(*                                                                         *)
(* A process changes its own copy of the job and then awaits flush(): the  *)
(* change and the flush are two steps, and every other activity of the     *)
(* process may run in between.  A process is modelled by one record; what  *)
(* it does between two awaits is an operator on that record.  A process    *)
(* runs the job at most once: a process that starts again is another one.  *)
(***************************************************************************)
EXTENDS Naturals, FiniteSets

CONSTANTS
    Procs,
    Tasks,         \* a node of the graph and its task have the same name
    Graphs,        \* the dependencies a job may be created with
    Limit,         \* concurrencyLimit
    MaxRetries,    \* the job's maxRetries
    TaskRetries,   \* each task's own; acquire() does not look at it
    RetryBound,    \* a bound on both
    Incidents,     \* what may happen to a run, each kind at most once: crashes,
                   \* expired leases, failed writes and placements, requests
    MaxIncidents,  \* bound on the incidents of one behaviour
    NoProc

ASSUME JobAssumption ==
    /\ Tasks # {} /\ Graphs \subseteq [Tasks -> SUBSET Tasks]
    /\ Limit \in Nat \ {0} /\ RetryBound \in Nat
    /\ MaxRetries \in 0..RetryBound /\ TaskRetries \in [Tasks -> 0..RetryBound]
    /\ MaxIncidents \in Nat
    /\ NoProc \notin Procs

VARIABLES
    deps,       \* the dependencies of each node, fixed by create()
    store,      \* the stored record: the job, its lease, and control
    proc,       \* the processes; revision compares the number in the copy of the job
                \* with the stored one
    incidents,  \* the kinds of incident there have been
    starts,     \* ghost: how often each attempt of a task has been started
    loose       \* ghost: a run was finished or has ended with activities of it still
                \* under way, or a task was dispatched before its last attempt had left

vars == <<deps, store, proc, incidents, starts, loose>>

JobStates == {"pending", "ready", "running", "paused", "completed", "failed", "cancelled"}

\* "orphaned" is the state 'failed' with an error that starts with 'Orphaned:'.
NodeStates == {"idle", "running", "completed", "failed", "orphaned", "cancelled"}

TaskStates == {"pending", "running", "completed", "failed", "cancelled"}

Terminal == {"completed", "failed", "cancelled"}

Job == [status: JobStates, node: [Tasks -> NodeStates], task: [Tasks -> TaskStates],
        retry: [Tasks -> 0..RetryBound + 1]]

\* An attempt of a task is named by the retry count it is dispatched with.
Attempts == Tasks \X (0..RetryBound + 1)

Pump == [at: {"idle", "again", "cascade", "assign", "unassigned", "dispatch", "deadlock", "finish"},
         task: Tasks, half: 1..2, ready: SUBSET Tasks, paused: BOOLEAN, again: BOOLEAN]

Attempt == [at: {"none", "run", "complete", "retry", "fail", "cancel"}, half: 1..2, caught: BOOLEAN]

Control == [what: {"none", "cancel", "pause", "resume", "cancelTask", "renewCancel"},
            task: Tasks, half: 1..2]

TypeOK ==
    /\ deps \in Graphs
    /\ store \in [job: Job, lease: {"none", "live", "expired", "released"},
                  owner: Procs \cup {NoProc}, cancel: BOOLEAN]
    /\ proc \in [Procs -> [phase: {"off", "healing", "idle", "starting", "run", "leaving", "done", "dead"},
                           mem: Job, revision: {"same", "older", "ahead"}, claim: BOOLEAN,
                           aborted: BOOLEAN, timedOut: BOOLEAN, finished: BOOLEAN,
                           active: [Tasks -> 0..RetryBound + 2], stopped: SUBSET Attempts,
                           orphaned: SUBSET Tasks, pump: Pump, ex: [Attempts -> Attempt],
                           ctl: Control]]
    /\ incidents \subseteq Incidents
    /\ starts \in [Attempts -> Nat]
    /\ loose \in BOOLEAN

NewJob == [status |-> "pending", node |-> [t \in Tasks |-> "idle"],
           task |-> [t \in Tasks |-> "pending"], retry |-> [t \in Tasks |-> 0]]

\* The task of smallest index: loops over the graph go in its order.
First(S) == CHOOSE t \in S : TRUE

Quiet == [at |-> "idle", task |-> First(Tasks), half |-> 1, ready |-> {},
          paused |-> FALSE, again |-> FALSE]

NotStarted == [at |-> "none", half |-> 1, caught |-> FALSE]

NoControl == [what |-> "none", task |-> First(Tasks), half |-> 1]

\* A process in which nothing of the job has happened yet.
Fresh(phase) ==
    [phase |-> phase, mem |-> NewJob, revision |-> "older", claim |-> FALSE, aborted |-> FALSE,
     timedOut |-> FALSE, finished |-> FALSE, active |-> [t \in Tasks |-> 0], stopped |-> {},
     orphaned |-> {}, pump |-> Quiet, ex |-> [e \in Attempts |-> NotStarted], ctl |-> NoControl]

Init ==
    /\ deps \in Graphs
    /\ store = [job |-> NewJob, lease |-> "none", owner |-> NoProc, cancel |-> FALSE]
    /\ proc = [p \in Procs |-> Fresh("off")]
    /\ incidents = {}
    /\ starts = [e \in Attempts |-> 0]
    /\ loose = FALSE

-----------------------------------------------------------------------------
(* statusTransitions.ts *)

CanJob(from, to) ==
    from = to \/ (from = "cancelled" /\ to = "failed") \/ from \notin Terminal

CanTask(from, to) ==
    \/ from = to
    \/ from = "failed" /\ to = "pending"
    \/ from \notin Terminal

CanNode(from, to) ==
    \/ from = to
    \/ from \in {"failed", "orphaned"} /\ to \in {"failed", "idle"}
    \/ from \notin Terminal \cup {"orphaned"}

-----------------------------------------------------------------------------
(* Ownership and flush() *)

Alive(p) == proc[p].phase \notin {"off", "dead"}

Owns(p) == proc[p].claim /\ store.lease = "live" /\ store.owner = p

\* Mutant: the revision alone decides.
CanFlushUnfenced(p) == proc[p].revision = "same"

CanFlush(p) ==
    /\ IF proc[p].claim THEN Owns(p) ELSE store.lease # "live"
    /\ proc[p].revision = "same"

Incident(kind) ==
    /\ kind \in Incidents \ incidents
    /\ Cardinality(incidents) < MaxIncidents
    /\ incidents' = incidents \cup {kind}

\* Nothing of the job is under way in the process.
AtRest(s) == s.pump.at = "idle" /\ s.ctl.what = "none" /\ \A e \in Attempts : s.ex[e].at = "none"

\* What a copy at rest holds no longer matters when nothing of it can be written again.
Forget(s) == IF s.phase \in {"idle", "done"} /\ AtRest(s) THEN Fresh(s.phase) ELSE s

\* The processes after p has written the record: every other copy is out of date,
\* but one that was a number ahead now has the number of the record.
Written(p, s) ==
    [q \in Procs |-> IF q = p THEN s
                     ELSE IF proc[q].revision = "ahead" THEN [proc[q] EXCEPT !.revision = "same"]
                     ELSE Forget([proc[q] EXCEPT !.revision = "older"])]

\* p's flush() succeeds and p goes on as done, or it throws and p goes on as thrown.
\* A write that fails may do so after job.revision has been counted up.
Flush(p, done, thrown) ==
    /\ \/ /\ CanFlush(p)
          /\ store' = [store EXCEPT !.job = proc[p].mem]
          /\ proc' = Written(p, done)
          /\ UNCHANGED incidents
       \/ /\ ~CanFlush(p)
          /\ proc' = [proc EXCEPT ![p] = thrown]
          /\ UNCHANGED <<store, incidents>>
       \/ /\ CanFlush(p)
          /\ Incident("write")
          /\ \E revision \in {"same", "ahead"} :
                proc' = [proc EXCEPT ![p] = [thrown EXCEPT !.revision = revision]]
          /\ UNCHANGED store
    /\ UNCHANGED deps

-----------------------------------------------------------------------------
(* The pump, between two awaits: operators on a process record *)

\* Mutant: a dependency that has been started is good enough.
DependenciesStarted(j, t) == \A d \in deps[t] : j.node[d] # "idle"

DependenciesSatisfied(j, t) == \A d \in deps[t] : j.node[d] = "completed"

HasFailedDependency(j, t) ==
    \E d \in deps[t] : \/ j.node[d] \in {"failed", "orphaned", "cancelled"}
                       \/ j.task[d] \in {"failed", "cancelled"}

Active(s) == {t \in Tasks : s.active[t] # 0}

InState(s, states) == {t \in Tasks : s.mem.node[t] \in states}

\* runOwnedJob's promise is rejected, unless it has settled already.
Reject(s) == IF s.phase \in {"starting", "run"} THEN [s EXCEPT !.phase = "leaving"] ELSE s

PumpEnd(s) ==
    [s EXCEPT !.pump = IF @.again /\ ~s.finished THEN [Quiet EXCEPT !.at = "again"] ELSE Quiet]

\* An exception leaves pump() and rejects the run; isFinished stays as it is.
PumpThrow(s) == Reject([s EXCEPT !.pump = Quiet])

\* The job's terminal status when the run ends; a timeout overrides a cancellation.
FinalStatus(s, wanted) ==
    IF s.timedOut THEN "failed"
    ELSE IF s.mem.status = "cancelled" \/ s.aborted THEN "cancelled" ELSE wanted

TimedOutMem(j) ==
    [j EXCEPT !.node = [t \in Tasks |-> IF @[t] \in {"completed", "failed", "orphaned"} THEN @[t] ELSE "failed"],
              !.task = [t \in Tasks |-> IF @[t] \in {"completed", "failed"} THEN @[t] ELSE "failed"]]

FinishJob(s, wanted) ==
    LET final == FinalStatus(s, wanted)
        j == IF s.timedOut THEN TimedOutMem(s.mem) ELSE s.mem
        s1 == [s EXCEPT !.mem = j, !.finished = TRUE]
    IN  IF s.finished THEN PumpEnd(s)
        ELSE IF CanJob(j.status, final)
        THEN [s1 EXCEPT !.mem.status = final, !.pump = [Quiet EXCEPT !.at = "finish"]]
        ELSE PumpThrow(s1)

\* The pump fails node t and awaits the first of two flushes.
FailNode(s, at, t, ready) ==
    [s EXCEPT !.mem.node[t] = "failed",
              !.pump.at = at, !.pump.task = t, !.pump.half = 1, !.pump.ready = ready]

\* Nothing runs and nothing is ready: the remaining idle nodes are failed one by one.
Deadlocked(s, dead) ==
    IF dead = {} THEN FinishJob(s, "failed")
    ELSE FailNode(s, "deadlock", First(dead), dead \ {First(dead)})

\* Mutant: nothing running is taken for finished.
NoneRunning(s) == InState(s, {"running"}) = {}

AllFinished(s) == InState(s, {"idle", "running"}) = {}

CheckTermination(s) ==
    IF Active(s) # {} \/ InState(s, {"running"}) # {} \/ s.finished THEN PumpEnd(s)
    ELSE IF AllFinished(s)
    THEN FinishJob(s, IF InState(s, {"failed", "orphaned"}) # {} THEN "failed" ELSE "completed")
    ELSE IF s.pump.ready = {} THEN Deadlocked(s, InState(s, {"idle"}))
    ELSE PumpEnd(s)

\* The dispatch loop: the next ready node is taken, or the loop is over.
Dispatching(s) ==
    LET t == First(s.pump.ready) IN
    IF s.pump.paused \/ Cardinality(Active(s)) >= Limit \/ s.pump.ready = {} \/ s.finished
    THEN CheckTermination(s)
    ELSE [s EXCEPT !.active[t] = s.mem.retry[t] + 1,
                   !.pump.at = "assign", !.pump.task = t, !.pump.ready = @ \ {t}]

Cascade(s) ==
    LET blocked == {t \in InState(s, {"idle"}) : HasFailedDependency(s.mem, t)} IN
    IF blocked # {} THEN FailNode(s, "cascade", First(blocked), {})
    ELSE Dispatching([s EXCEPT !.pump.paused = s.mem.status = "paused",
                               !.pump.ready = {t \in InState(s, {"idle"}) :
                                                  DependenciesSatisfied(s.mem, t)}])

DoPump(s) ==
    IF s.finished THEN PumpEnd(s)
    ELSE IF s.aborted \/ s.mem.status = "cancelled" THEN FinishJob(s, "cancelled")
    ELSE Cascade(s)

WakePump(s) ==
    IF s.finished THEN s
    ELSE IF s.pump.at # "idle" THEN [s EXCEPT !.pump.again = TRUE]
    ELSE DoPump(s)

-----------------------------------------------------------------------------
(* The pump's awaits *)

Pumping(p, at) == Alive(p) /\ proc[p].pump.at = at

\* scheduledPump was set while doPump() ran.
PumpAgain(p) ==
    /\ Pumping(p, "again")
    /\ proc' = [proc EXCEPT ![p] = DoPump([@ EXCEPT !.pump = Quiet])]
    /\ UNCHANGED <<deps, store, incidents, starts>>

\* assignTask() returns a placement: the node is running.
Assigned(p) ==
    /\ Pumping(p, "assign")
    /\ proc' = [proc EXCEPT ![p].mem.node[proc[p].pump.task] = "running",
                            ![p].pump.at = "dispatch", ![p].pump.half = 1]
    /\ UNCHANGED <<deps, store, incidents, starts>>

\* assignTask() returns null: the node is put back and the loop is left.
NotPlaced(p) ==
    LET s == proc[p] IN
    /\ Pumping(p, "assign")
    /\ Incident("assign")
    /\ proc' = [proc EXCEPT ![p] = CheckTermination([s EXCEPT !.active[s.pump.task] = 0,
                                                             !.pump.ready = @ \cup {s.pump.task}])]
    /\ UNCHANGED <<deps, store, starts>>

\* assignTask() throws: no placement is possible.
NotAssigned(p) ==
    LET s == proc[p] IN
    /\ Pumping(p, "assign")
    /\ Incident("assign")
    /\ proc' = [proc EXCEPT ![p] = FailNode([s EXCEPT !.active[s.pump.task] = 0], "unassigned",
                                            s.pump.task, s.pump.ready)]
    /\ UNCHANGED <<deps, store, starts>>

\* After the node, the task: updateTaskStatus() asserts the transition and flushes again.
PumpNodeSaved(p) ==
    LET s == proc[p]
        to == IF s.pump.at = "dispatch" THEN "running" ELSE "failed"
    IN  /\ \E at \in {"cascade", "unassigned", "dispatch", "deadlock"} : Pumping(p, at)
        /\ s.pump.half = 1
        /\ Flush(p, IF CanTask(s.mem.task[s.pump.task], to)
                    THEN [s EXCEPT !.mem.task[s.pump.task] = to, !.pump.half = 2]
                    ELSE PumpThrow(s), PumpThrow(s))
        /\ UNCHANGED starts

PumpTaskSaved(p) ==
    LET s == proc[p] IN
    /\ \E at \in {"cascade", "unassigned", "deadlock"} : Pumping(p, at)
    /\ s.pump.half = 2
    /\ Flush(p, CASE s.pump.at = "cascade" -> Cascade(s)
                  [] s.pump.at = "unassigned" -> Dispatching(s)
                  [] OTHER -> Deadlocked(s, s.pump.ready), PumpThrow(s))
    /\ UNCHANGED starts

\* The task is saved as running: its executor is started, and the loop goes on.
Dispatched(p) ==
    LET s == proc[p]
        e == <<s.pump.task, s.mem.retry[s.pump.task]>>
    IN  /\ Pumping(p, "dispatch")
        /\ s.pump.half = 2
        /\ Flush(p, Dispatching([s EXCEPT !.ex[e].at = "run"]), PumpThrow(s))
        /\ starts' = [starts EXCEPT ![e] = @ + (IF CanFlush(p) /\ incidents' = incidents THEN 1 ELSE 0)]

\* finishJob() has saved the final status and resolves the run.
Finished(p) ==
    LET s == [proc[p] EXCEPT !.pump = Quiet] IN
    /\ Pumping(p, "finish")
    /\ Flush(p, Reject(s), PumpThrow(s))
    /\ UNCHANGED starts

-----------------------------------------------------------------------------
(* An attempt of a task, after its executor has returned *)

RetryOrFail(s, t, denied) == IF ~denied /\ s.mem.retry[t] < TaskRetries[t] THEN "retry" ELSE "fail"

Branch(s, e, outcome) ==
    IF e[1] \in s.orphaned THEN RetryOrFail(s, e[1], FALSE)
    ELSE IF e \in s.stopped THEN "cancel"
    ELSE IF outcome = "success" THEN "complete" ELSE RetryOrFail(s, e[1], outcome = "denied")

\* May the first change of a branch be made?  If not, an assertion throws.
FirstAllowed(j, t, branch) ==
    CASE branch = "complete" -> CanTask(j.task[t], "completed") /\ CanNode(j.node[t], "completed")
      [] branch = "fail"     -> CanTask(j.task[t], "failed")
      [] branch = "cancel"   -> CanTask(j.task[t], "cancelled")
      [] OTHER               -> TRUE

FirstChange(j, t, branch) ==
    CASE branch = "complete" -> [j EXCEPT !.node[t] = "completed", !.task[t] = "completed"]
      [] branch = "fail"     -> [j EXCEPT !.node[t] = "failed", !.task[t] = "failed"]
      [] branch = "cancel"   -> [j EXCEPT !.task[t] = "cancelled"]
      [] OTHER               -> [j EXCEPT !.node[t] = "idle", !.retry[t] = @ + 1]

\* What an assertion that throws leaves behind: node.state = 'failed' comes before failTask().
Refused(j, t, branch) == IF branch = "fail" THEN [j EXCEPT !.node[t] = "failed"] ELSE j

\* The finally block: the task is not active any more, and the pump is woken.
Leave(s, e) == WakePump([s EXCEPT !.ex[e] = NotStarted, !.active[e[1]] = 0,
                                   !.stopped = @ \ {e}])

Enter(s, e, branch, caught) ==
    [s EXCEPT !.mem = FirstChange(@, e[1], branch), !.orphaned = @ \ {e[1]},
              !.ex[e] = [at |-> branch, half |-> 1, caught |-> caught]]

\* The catch block handles the exception as one more failure of the attempt; an
\* executor's may be a policy denial.
Catch(s, e, outcome) ==
    LET branch == Branch(s, e, outcome) IN
    IF FirstAllowed(s.mem, e[1], branch) THEN Enter(s, e, branch, TRUE)
    ELSE Reject(Leave([s EXCEPT !.mem = Refused(@, e[1], branch), !.orphaned = @ \ {e[1]}], e))

Throw(s, e) == IF s.ex[e].caught THEN Reject(Leave(s, e)) ELSE Catch(s, e, "failed")

ExecutorReturns(p, e, outcome) ==
    LET s == proc[p]
        branch == Branch(s, e, outcome)
    IN  /\ Alive(p)
        /\ s.ex[e].at = "run"
        /\ proc' = [proc EXCEPT ![p] =
                      IF FirstAllowed(s.mem, e[1], branch) THEN Enter(s, e, branch, FALSE)
                      ELSE Catch([s EXCEPT !.mem = Refused(@, e[1], branch),
                                           !.orphaned = @ \ {e[1]}], e, "failed")]
        /\ UNCHANGED <<deps, store, incidents, starts>>

ExecutorThrows(p, e, outcome) ==
    /\ Alive(p)
    /\ proc[p].ex[e].at = "run"
    /\ proc' = [proc EXCEPT ![p] = Catch(@, e, outcome)]
    /\ UNCHANGED <<deps, store, incidents, starts>>

\* The second change of a retry or a cancellation, made once the first is saved.
SecondAllowed(j, t, branch) ==
    IF branch = "retry" THEN CanTask(j.task[t], "pending") ELSE CanNode(j.node[t], "cancelled")

SecondChange(j, t, branch) ==
    IF branch = "retry" THEN [j EXCEPT !.task[t] = "pending"] ELSE [j EXCEPT !.node[t] = "cancelled"]

AttemptSaved(p, e) ==
    LET s == proc[p]
        branch == s.ex[e].at
        t == e[1]
    IN  /\ Alive(p)
        /\ branch \notin {"none", "run"}
        /\ Flush(p, IF s.ex[e].half = 2 \/ branch \in {"complete", "fail"} THEN Leave(s, e)
                    ELSE IF SecondAllowed(s.mem, t, branch)
                    THEN [s EXCEPT !.mem = SecondChange(@, t, branch), !.ex[e].half = 2]
                    ELSE Throw(s, e), Throw(s, e))
        /\ UNCHANGED starts

-----------------------------------------------------------------------------
(* runJob() *)

\* Mutant: everything that was ever started counts as interrupted.
InterruptedAll(j, orphan) == {t \in Tasks : j.node[t] # "idle"}

Interrupted(j, orphan) ==
    {t \in Tasks : j.node[t] = "running" \/ (orphan /\ j.node[t] = "orphaned")}

\* Mutant: the interrupted attempt is not counted.
Uncounted(n) == n

\* An interrupted attempt counts against the retries.
Counted(n) == n + 1

\* The record acquire() writes; unknown are the tasks with a mutation of unknown outcome.
Recovered(j, orphan, unknown) ==
    LET cut == Interrupted(j, orphan)
        again == {t \in cut : t \notin unknown /\ j.retry[t] + 1 <= MaxRetries}
        next == [j EXCEPT
            !.retry = [t \in Tasks |-> IF t \in cut THEN Counted(@[t]) ELSE @[t]],
            !.node = [t \in Tasks |-> IF t \in again THEN "idle"
                                      ELSE IF t \in cut THEN "failed" ELSE @[t]],
            !.task = [t \in Tasks |-> IF t \in again THEN "pending"
                                      ELSE IF t \in cut THEN "failed" ELSE @[t]]]
        ended == \A t \in Tasks : next.task[t] \in Terminal
    IN  [next EXCEPT !.status =
            IF ended THEN IF \E t \in Tasks : next.task[t] = "failed" THEN "failed" ELSE @
            ELSE IF orphan /\ \E t \in Tasks : next.task[t] = "pending" THEN "running" ELSE @]

\* acquire() takes the lease; runOwnedJob() then throws or sets the status to running.
Acquire(p) ==
    LET j == store.job
        orphan == /\ j.status = "failed" /\ store.lease = "expired"
                  /\ \E t \in Tasks : j.node[t] = "orphaned"
    IN  /\ proc[p].phase = "idle" /\ proc[p].ctl.what = "none"
        /\ store.lease # "live"
        /\ j.status \in Terminal => orphan
        /\ \E unknown \in SUBSET Interrupted(j, orphan) :
             LET k == Recovered(j, orphan, unknown) IN
             /\ store' = [store EXCEPT !.job = k, !.lease = "live", !.owner = p]
             /\ proc' = [proc EXCEPT ![p] =
                  IF k.status \in Terminal
                  THEN [@ EXCEPT !.phase = "leaving", !.mem = k, !.revision = "same", !.claim = TRUE]
                  ELSE [@ EXCEPT !.phase = "starting", !.mem = [k EXCEPT !.status = "running"],
                                 !.revision = "same", !.claim = TRUE]]
        /\ UNCHANGED <<deps, incidents, starts>>

StartSaved(p) ==
    /\ proc[p].phase = "starting"
    /\ Flush(p, DoPump([proc[p] EXCEPT !.phase = "run"]), Reject(proc[p]))
    /\ UNCHANGED starts

\* release(), and the end of runJob().
Release(p) ==
    /\ proc[p].phase = "leaving"
    /\ store' = IF Owns(p) THEN [store EXCEPT !.lease = "released"] ELSE store
    /\ proc' = [proc EXCEPT ![p] = Forget([@ EXCEPT !.phase = "done", !.claim = FALSE])]
    /\ UNCHANGED <<deps, incidents, starts>>

-----------------------------------------------------------------------------
(* Control: cancel, pause, resume, timeout, orphan reports *)

Controllable(p) == proc[p].phase \in {"starting", "run"} /\ proc[p].ctl.what = "none"

\* Every active task's controller is aborted.
AbortAll(s) == [s EXCEPT !.aborted = TRUE,
                         !.stopped = @ \cup {<<t, s.active[t] - 1>> : t \in Active(s)}]

\* cancelJob(), up to JobManager.cancel()'s flush.
CancelJob(s, what) ==
    LET s1 == IF s.phase = "run" THEN [AbortAll(s) EXCEPT !.active = [t \in Tasks |-> 0]] ELSE s
        cancelled == [t \in Tasks |-> IF s.mem.task[t] \in {"pending", "running"}
                                      THEN "cancelled" ELSE s.mem.task[t]]
    IN  IF s.mem.status \in {"completed", "failed"}
        THEN IF what = "renewCancel" THEN AbortAll(s1) ELSE s1
        ELSE [s1 EXCEPT !.mem.status = "cancelled", !.mem.task = cancelled,
                        !.ctl = [NoControl EXCEPT !.what = what]]

UserCancels(p) ==
    /\ Controllable(p)
    /\ Incident("cancel")
    /\ proc' = [proc EXCEPT ![p] = CancelJob(@, "cancel")]
    /\ UNCHANGED <<deps, store, starts>>

TimesOut(p) ==
    /\ Controllable(p) /\ proc[p].phase = "run" /\ ~proc[p].finished
    /\ Incident("timeout")
    /\ proc' = [proc EXCEPT ![p] = CancelJob([@ EXCEPT !.timedOut = TRUE], "cancel")]
    /\ UNCHANGED <<deps, store, starts>>

\* The renewal timer finds that another process has asked for the job's cancellation.
RenewCancels(p) ==
    /\ Controllable(p) /\ Owns(p) /\ store.cancel
    /\ proc' = [proc EXCEPT ![p] = CancelJob(@, "renewCancel")]
    /\ UNCHANGED <<deps, store, incidents, starts>>

\* The renewal timer finds the lease lost, or the store fails.
RenewFails(p) ==
    /\ proc[p].phase \in {"starting", "run"}
    /\ IF Owns(p) THEN Incident("renew") ELSE UNCHANGED incidents
    /\ proc' = [proc EXCEPT ![p] = IF @.phase = "run" THEN AbortAll(@) ELSE [@ EXCEPT !.aborted = TRUE]]
    /\ UNCHANGED <<deps, store, starts>>

\* The caller of runJob() aborts it: neither a task nor the pump hears of it.
SignalAborts(p) ==
    /\ proc[p].phase \in {"starting", "run"}
    /\ Incident("signal")
    /\ proc' = [proc EXCEPT ![p].aborted = TRUE]
    /\ UNCHANGED <<deps, store, starts>>

\* Mutant: only a cancelled job is left alone.
CancellableUnlessCancelled(j) == j.status # "cancelled"

Cancellable(j) == j.status \notin Terminal

\* cancel() in a process that does not own the job.
RemoteCancels(p) ==
    LET j == store.job
        cancelled == [j EXCEPT !.status = "cancelled",
            !.task = [t \in Tasks |-> IF @[t] \in {"completed", "failed"} THEN @[t] ELSE "cancelled"],
            !.node = [t \in Tasks |-> IF @[t] \in {"completed", "failed", "orphaned"} THEN @[t] ELSE "cancelled"]]
    IN  /\ proc[p].phase = "idle" /\ proc[p].ctl.what = "none"
        /\ Cancellable(j)
        /\ Incident("cancel")
        /\ IF store.lease = "live"
           THEN /\ store' = [store EXCEPT !.cancel = TRUE]
                /\ proc' = [proc EXCEPT ![p].mem = j, ![p].revision = "same"]
           ELSE /\ store' = [store EXCEPT !.job = cancelled]
                /\ proc' = Written(p, [proc[p] EXCEPT !.mem = cancelled, !.revision = "same"])
        /\ UNCHANGED <<deps, starts>>

Pausable == {"pending", "ready", "running"}

Pauses(p) ==
    /\ Controllable(p) /\ proc[p].mem.status \in Pausable
    /\ Incident("pause")
    /\ proc' = [proc EXCEPT ![p].mem.status = "paused", ![p].ctl.what = "pause"]
    /\ UNCHANGED <<deps, store, starts>>

\* pause() in a process that does not own the job: it does not look at the lease.
RemotePauses(p) ==
    LET j == [store.job EXCEPT !.status = "paused"] IN
    /\ proc[p].phase = "idle" /\ proc[p].ctl.what = "none"
    /\ store.job.status \in Pausable
    /\ Incident("pause")
    /\ store' = [store EXCEPT !.job = j]
    /\ proc' = Written(p, [proc[p] EXCEPT !.mem = j, !.revision = "same"])
    /\ UNCHANGED <<deps, starts>>

Resumes(p) ==
    /\ Controllable(p) \/ (proc[p].phase = "idle" /\ proc[p].ctl.what = "none")
    /\ proc[p].mem.status = "paused"
    /\ proc' = [proc EXCEPT ![p].mem.status = "ready", ![p].ctl.what = "resume"]
    /\ UNCHANGED <<deps, store, incidents, starts>>

CancelsTask(p, t) ==
    LET s == proc[p] IN
    /\ Controllable(p) /\ s.phase = "run"
    /\ Incident("cancelTask")
    /\ proc' = [proc EXCEPT ![p] =
         LET s1 == IF s.active[t] = 0 THEN s
                   ELSE [s EXCEPT !.stopped = @ \cup {<<t, s.active[t] - 1>>}, !.active[t] = 0]
         IN  IF s.mem.task[t] \in Terminal THEN s1
             ELSE [s1 EXCEPT !.mem.task[t] = "cancelled",
                             !.ctl = [what |-> "cancelTask", task |-> t, half |-> 1]]]
    /\ UNCHANGED <<deps, store, starts>>

ReportsOrphaned(p, t) ==
    LET s == proc[p] IN
    /\ s.phase = "run" /\ s.active[t] # 0
    /\ Incident("orphan")
    /\ proc' = [proc EXCEPT ![p].orphaned = @ \cup {t},
                            ![p].stopped = @ \cup {<<t, s.active[t] - 1>>}]
    /\ UNCHANGED <<deps, store, starts>>

\* The flush a control operation awaits; pause and resume wake the pump after it.
ControlSaved(p) ==
    LET s == [proc[p] EXCEPT !.ctl = NoControl]
        c == proc[p].ctl
    IN  /\ Alive(p) /\ c.what # "none"
        /\ Flush(p, CASE c.what \in {"pause", "resume"} -> IF s.phase = "run" THEN WakePump(s) ELSE s
                      [] c.what = "cancelTask" /\ c.half = 1 /\ CanNode(s.mem.node[c.task], "cancelled") ->
                            [s EXCEPT !.mem.node[c.task] = "cancelled", !.ctl = [c EXCEPT !.half = 2]]
                      [] OTHER -> s,
                    IF c.what = "renewCancel" THEN AbortAll(s) ELSE s)
        /\ UNCHANGED starts

-----------------------------------------------------------------------------
(* Processes start and die; leases run out *)

\* reconcileStaleStatus(): what a job that nobody owns is taken for when it is loaded.
Reconciled(j) ==
    LET lost == {t \in Tasks : j.task[t] = "running" \/ j.node[t] = "running"} IN
    IF j.status \in Terminal THEN j
    ELSE IF \A t \in Tasks : j.task[t] \in Terminal
    THEN [j EXCEPT !.status = IF \E t \in Tasks : j.task[t] = "failed" THEN "failed"
                              ELSE IF \E t \in Tasks : j.task[t] = "cancelled" THEN "cancelled"
                              ELSE "completed"]
    ELSE IF j.status # "running" THEN j
    ELSE [j EXCEPT !.status = "failed",
                   !.task = [t \in Tasks |-> IF @[t] = "running" THEN "failed" ELSE @[t]],
                   !.node = [t \in Tasks |-> IF t \in lost /\ @[t] \in {"idle", "running"}
                                             THEN "orphaned" ELSE @[t]]]

Load(p) ==
    LET j == IF store.lease = "live" THEN store.job ELSE Reconciled(store.job) IN
    /\ proc[p].phase = "off"
    /\ proc' = [proc EXCEPT ![p] = [@ EXCEPT !.phase = IF j = store.job THEN "idle" ELSE "healing",
                                             !.mem = j, !.revision = "same"]]
    /\ UNCHANGED <<deps, store, incidents, starts>>

\* The healed record is written; if that fails the manager never becomes ready.
HealSaved(p) ==
    /\ proc[p].phase = "healing"
    /\ Flush(p, [proc[p] EXCEPT !.phase = "idle"], Fresh("dead"))
    /\ UNCHANGED starts

\* No renewal for leaseMs: the owner is gone, has lost its timer, or was held up.
LeaseExpires ==
    /\ store.lease = "live"
    /\ IF Owns(store.owner) THEN Incident("lease") ELSE UNCHANGED incidents
    /\ store' = [store EXCEPT !.lease = "expired"]
    /\ UNCHANGED <<deps, proc, starts>>

Crash(p) ==
    /\ Alive(p)
    /\ Incident("crash")
    /\ proc' = [proc EXCEPT ![p] = Fresh("dead")]
    /\ UNCHANGED <<deps, store, starts>>

PumpStep(p) ==
    PumpAgain(p) \/ Assigned(p) \/ PumpNodeSaved(p) \/ PumpTaskSaved(p) \/ Dispatched(p) \/ Finished(p)

AttemptStep(p) ==
    \E e \in Attempts : \/ AttemptSaved(p, e)
                        \/ \E o \in {"success", "failed", "denied"} : ExecutorReturns(p, e, o)
                        \/ \E o \in {"failed", "denied"} : ExecutorThrows(p, e, o)

RunStep(p) == Load(p) \/ HealSaved(p) \/ Acquire(p) \/ StartSaved(p) \/ Release(p)

ControlStep(p) ==
    \/ UserCancels(p) \/ TimesOut(p) \/ RenewCancels(p) \/ RenewFails(p) \/ SignalAborts(p)
    \/ RemoteCancels(p) \/ Pauses(p) \/ RemotePauses(p) \/ Resumes(p) \/ ControlSaved(p)
    \/ \E t \in Tasks : CancelsTask(p, t) \/ ReportsOrphaned(p, t)

Step ==
    \/ LeaseExpires
    \/ \E p \in Procs : \/ PumpStep(p) \/ NotPlaced(p) \/ NotAssigned(p) \/ AttemptStep(p) \/ RunStep(p)
                        \/ ControlStep(p) \/ Crash(p)

\* A task is being dispatched although an attempt of it has not left yet.
Overlap(s) ==
    /\ s.pump.at \in {"assign", "dispatch"}
    /\ \E e \in Attempts : e[1] = s.pump.task /\ s.ex[e].at # "none"

\* runJob() is over, or about to be, but the pump or an attempt is not; or finishJob()
\* has decided while the attempt of a cancelled task was still under way.
Straggling(s) ==
    \/ s.phase \in {"leaving", "done"} /\ ~AtRest(s)
    \/ s.finished /\ \E e \in Attempts : s.ex[e].at # "none"

Next ==
    /\ Step
    /\ loose' = (loose \/ \E p \in Procs : Overlap(proc'[p]) \/ Straggling(proc'[p]))

Spec == Init /\ [][Next]_vars

-----------------------------------------------------------------------------
\* The catch block and the overlap of attempts undo what was saved: the properties
\* below that say Undisturbed are about runs in which neither has happened.
Undisturbed == ~loose /\ "write" \notin incidents

\* While a task's executor runs, every dependency of the task is completed in the
\* store (jobOrchestrator.ts 558-561), also after a takeover by another process,
\* and although the list of ready nodes is as old as the placement calls are long.
DependenciesFirst ==
    Undisturbed =>
        \A p \in Procs, e \in Attempts :
            proc[p].ex[e].at = "run" => \A d \in deps[e[1]] : store.job.node[d] = "completed"

\* No attempt of a task is started twice: an executor that was interrupted by a
\* crash or a lost lease is counted by acquire() before it is started again
\* (jobManager.ts 142-169), whichever process takes over and whatever writes of the
\* process that lost the job fail.
AttemptOnce == ~loose => \A e \in Attempts : starts[e] <= 1

\* A job that is stored as completed has no failed and no unfinished node
\* (jobOrchestrator.ts 890-897, jobManager.ts 262-269).
CompletedMeansAll ==
    store.job.status = "completed" /\ Undisturbed =>
        \A t \in Tasks : store.job.node[t] \in {"completed", "cancelled"}

\* A completed node stays completed in the store: neither recovery, nor another
\* owner, nor a cancellation runs it again (jobManager.ts 142-147, 425-426).
CompletedStays ==
    [][Undisturbed' =>
          \A t \in Tasks : store.job.node[t] = "completed" => store'.job.node[t] = "completed"]_vars

\* While a lease is live only its owner changes the job; the one exception in the
\* code is pause(), which sets the status and nothing else (jobManager.ts 452-459,
\* 835-838): what is written is the owner's copy of the job.
Fenced ==
    [][store.lease = "live" /\ store'.job # store.job =>
          \/ store'.job = proc[store.owner].mem
          \/ store'.job = [store.job EXCEPT !.status = "paused"]]_vars

\* The changes of a terminal status that the code means to allow: a timeout after a
\* cancellation (statusTransitions.ts 60), and the recovery of an orphaned job by
\* the process that acquires it (jobManager.ts 132-138, 175-178).
Revives ==
    \/ store.job.status = "cancelled" /\ store'.job.status = "failed"
    \/ store.job.status = "failed" /\ store.lease = "expired" /\ store'.lease = "live"

\* The write of a process without a claim that read the record before another one
\* acquired the job: acquire() rewrites the record without counting its revision
\* (jobManager.ts 130-183), so that the copy does not look out of date.
Unaware ==
    \E p \in Procs : /\ proc[p].phase \in {"healing", "idle"} /\ ~proc[p].claim
                     /\ CanFlush(p) /\ store'.job = proc[p].mem

\* A terminal status is final in the store (statusTransitions.ts 58-63,
\* jobManager.ts 136-138, 419), as long as every run has ended with all that
\* it had started and no such process writes.
TerminalStays ==
    [][~loose' /\ store.job.status \in Terminal /\ store'.job.status # store.job.status
          => Revives \/ Unaware]_vars

\* The same for every behaviour, as statusTransitions.ts 8-12 says it: "terminal
\* work is never silently resurrected.  A late write from a stale worker must not
\* flip a cancelled task back to `running`, or a completed job back to `pending`."
NeverResurrected ==
    [][store.job.status \in Terminal /\ store'.job.status # store.job.status => Revives]_vars
=============================================================================
