# Wazir: a TLA+ verification project

Wazir is a control plane for software agents. A user states a goal as a graph of
targets; the goal subsystem (`packages/goals`, served by `apps/api/src/goalStudio`)
drives the graph to completion with attempts that are executed by agents, verified
independently, repaired within budgets, and gated by human approvals. Everything it
decides is kept in a durable ledger that several processes may share and that must
survive crashes between any two writes.

This directory models that core (the run ledger, exactly-once effects, the two event
logs with the event-stream route, and the controller), the file store under all of it,
and two protocols of the older core that several processes share: resource budgets and
job orchestration. TLC checks the models on small instances. TLAPS proves the safety
properties of all eight for every instance, `AdmissionCounts` of the budgets excepted;
what must eventually happen is left to TLC.

Paths below are relative to the repository; `goals/` stands for `packages/goals/src/`,
`core/` for `packages/core/src/`.

## 1. Inventory

### Parts

| Part | State it keeps | Operations | Why it is hard |
|---|---|---|---|
| Run ledger, `goals/ledger/ledgerStore.ts` | One envelope per run (ledger, lease, `maxEpoch`, `transitionSeq`, `lastBatch`) and one key per transition | `createRun`, `acquireLease`, `renewLease`, `releaseLease`, `commit`, `transitions`, `saveAttempt` | Lease checked before the write it guards; a commit is several writes; each process reads its own clock |
| Exactly-once effects, same file | An `IdempotencyRecord` per key; in memory, the `inflight` map of promises | `once`, `pendingEffects`, `reconcileEffect` | Crash between effect and record; overlapping callers; operators reconciling while somebody runs |
| Durable event log, `goals/ledger/eventLog.ts` | Head (last number and a window of recent events), a key per event; subscriptions in memory | `append`, `read`, `subscribe`, `subscribeFrom`, `unsubscribe`, poll, notify | Window of 64 slides while writes are on their way; reads race appends; readers reconnect |
| API event log and stream, `apps/api/src/goalStudio/controlEventLog.ts`, `controlRoutes.ts` | Head number, a key per event, a promise chain per run; per connection a cursor and a chain | `append`, `read`, `subscribe`, `streamRunEvents` | Number and event are separate writes; live events overlap with replay |
| Controller, `goals/controller/controller.ts`, `eligibility.ts` | The run's ledger entry per target; in memory the `Driver` (loop, active attempts, wake flag, holds) | `startRun`, `pause`, `resume`, `stop`, `runEligible`, `retryTarget`, `resolveApproval`, `recoverRuns`, `shutdown`, the loop and the attempts | A scheduling pass decides on a snapshot that attempts and operators make stale at every `await`; lost wake-ups; crash at every step |
| Executor, governance, recovery, verification, routing, prompts, graph store (`goals/controller/executor.ts`, `goals/governance`, ...) | Evidence, approvals, audit chain, revisions | Called by the controller | Called through `once`; here they answer anything they can |
| File store, `packages/shared/src/store.ts` | The data file and the lock file; per process `data`, `rawJsonByKey`, `lastStat`, `loaded` | `update`, `get`, `list` (`put`, `delete`, `clear`) | Lock files outlive their processes and grow old; the lock is inspected and moved away in two steps; `get` and writes of one process share a cache; a write fails half-way |
| Resource budgets, `core/resources/ledger.ts`, `budgetManager.ts`, `governedAdapter.ts` | SQLite tables: reservations with leases, usage, account health, the emergency stop | `admit`, `holdLease`, `reconcile`, `fail`, `recoverExpired`, `resetHealth`, `emergencyStop`, `resume`, the local queue | Requests die in flight, answers come after the charge for a lost request, processes admit against one quota |
| Job orchestration, `core/services/jobOrchestrator.ts`, `jobManager.ts`, `statusTransitions.ts` | The stored job with revision, lease and control; per process a copy of it, the pump, the attempts | `runJob`, `acquire`, `flush`, `release`, `cancelJob`, `cancelTask`, `pause`, `resume`, timeout, orphan reports, healing on load | All activities of a process flush one copy of the job; two saves per change; leases lost in the middle; late writers |
| SQLite and PostgreSQL stores, `packages/shared`, `packages/database` | Keys and values | `get`, `put`, `list`, `atomicUpdate` | The environment of the goal modules: one call is one step, `atomicUpdate` is atomic |

The rest of the repository (the execution engine, harness dispatch, policy engine,
distributed search, agents, workers, runtimes, tools, clients) is listed in
`PROJECT.json` with the reason why it is not modelled.

### How they interact

The controller holds the run's lease and writes only through `commit`, whose
mutation is planned inside the compare-and-set on the fresh ledger. Every effect of an
attempt (execute, verify, commit progress) goes through `once`. Events are appended
after the commit they describe. The API reads the ledger and serves the event log
over long-lived connections. Processes interact only through the store: there is no
message between them, hence the leases, the fencing epochs and the polling. Where the
store is the JSON file, that atomicity is what FileStore shows and FileStoreProofs proves.

A job is run by the process whose lease is stored with it; other processes may pause or
cancel it through the same record. A model request of any of these parts passes through
the budget manager, whose only shared state is its SQLite file.

### What makes each part correct

* Ledger: only the holder of the newest epoch commits; committed transitions are never
  lost, altered, or visible before their commit; together they explain every status.
* Effects: an effect happens at most once, its outcome is final, all callers agree.
* Event logs: events are numbered without gaps or reuse; a subscriber gets each one it
  is owed once, in order, eventually.
* Controller: nothing starts before its dependencies are complete, nor without the
  approval it must ask for; a completed target was executed and verified and stays
  completed; the task budget counts each attempt once; the run neither sleeps on work nor
  spins.
* File store: one writer at a time; acknowledged updates stay, failed ones do not show;
  the cache is the file; nobody waits for a dead process.
* Budgets: every admitted request is charged once or released, and counts against the
  quota until then; the queue moves.
* Jobs: no attempt is started twice, no task before its dependencies; only the owner
  writes; completed work and terminal statuses stay.

## 2. Modules

Ghost variables (that no code keeps) are `late`, `frames`, `cuts` (ControlEventLog),
`start`, `got` (GoalEventLog), `applied` (OnceEffects), `reading[r].revision`
(GoalLedger), `broken`, `raced`, `reused` (FileStore), `torn` (ResourceBudget), `starts`,
`loose` (JobOrchestrator); `events` (GoalController) and `incidents` (ResourceBudget,
JobOrchestrator) are bounds.

### TransitionChains, RunHistory: what a history promises

`TransitionChains` defines transitions and `Explains(before, after, ts)`: the
transitions of each target form a chain from its status before to its status after, and
a target without one has not changed, which is what `validateTransitions` checks.
`RunHistory` is the abstract specification: a run is created, and every later step
appends transitions that explain the change of statuses.

### GoalLedger (with GoalLedgerProofs, MCGoalLedger): the ledger of one run

One action per store access. `CommitStart` is the pre-check of `commit`;
`MaterialiseGet`/`MaterialisePut` the two accesses per transition that write the previous
batch to its own keys; `CommitApply` the compare-and-set with both checks repeated and
the validation; then the new batch is materialised the same way, best effort.
`MaterialiseFails`, `CommitRefused` and `Crash` leave at each point where the code can.
`ReadList`/`ReadEnvelope` are the two reads of `transitions()`. Clocks are separate per
process and never synchronised. A restarted process keeps its holder id and loses its
token. Left out: retention of old leases, JSON layout, listing of runs.

### OnceEffects (with OnceEffectsProofs, MCOnceEffects): once() for one key

Each call is an activity that stops at its awaits: status read, atomic claim, effect,
record. `inflight` is the map by which calls of one instance join. An effect may return,
refuse (a retryable failure), or throw having happened or not; the outcome write may
fail; processes crash. A reconciling operator establishes the truth, then the code's
two separate checks follow. With `OnlyDeadOwners` the operator acts only on what
`pendingEffects` reports as dead, as the error text of `replay` asks.

### EventStream, GoalEventLog (with GoalEventLogProofs, MCGoalEventLog): the durable event log

`EventStream` is an append-only list. `GoalEventLog` has the appenders (materialise the
window, allocate under the head's atomic update, write the key, notify) and the
subscription state machine (position known or not yet, drain under way, go round again)
exactly as the class keeps it. `Stream` puts the events together from window and keys and
is the refinement mapping.

### ControlEventLog (with ControlEventLogProofs, MCControlEventLog): the API's log and its stream

`GetHead`, `ReadFloor`, `TakeSeq`, `PutEvent` are the four accesses of an append. The
connection has a cursor and a chain of tasks (replay, or a live event); `StartTask` and
`ReadPage` are the body of `streamRunEvents`. A store may be restored without its head,
which the code rebuilds.

### GoalController (with GoalControllerProofs, MCGoalController): the controller of one run

Variables follow the code: the run and target entries of the ledger (`status`, `tasks`,
`entry`, `att`), the driver (`loop`, `wake`, `work`), the pass in progress (`snap`, `todo`,
`launched`), the operator's call in progress (`op`). A step ends at the next await that
lets another activity change what is looked at afterwards:

* `Load`, `Settle`, `Unlock`, `Select`, `LeaveIdle`, `StartAttempt`,
  `Launch`, `Decide`, `Conclude`, `Deadline` are `runLoop` and `step`;
* `Preflight` to `AttemptEnds` are `runAttempt` with `awaitApproval`, `failAttempt`,
  `blockTarget`, `stopTarget`, `enforceGate`, `commitProgress` and recovery's decision;
* `Pause`, `Resume`, `Stop`, `RunEligible`, `RetryTarget`, `ResolveApproval` begin an
  operator's call (what it reads before its first commit) and `Commit...` are its commits;
* `Crash`, `Shutdown`, `RecoverRuns`, `DeadlinePasses` are the environment.

Abstractions: targets are preferred in any order (so all orders are covered); evidence,
spend and events are left out, but a target may be asked about because of what it would
spend (any target in `Preflight`); executor, verifier, gate, governance and recovery answer
anything they can. A commit is one step, justified by GoalLedger; `once` is a record with
four states, justified by OnceEffects. A disposed driver's running effects settle at
once. There is one process at a time: a takeover by a second controller looks, to the
ledger, like a crash followed by a recovery, since fencing refuses the first one's
commits. Operator calls on a finished run change nothing and are left out, as are
`autoAdvance: false`, a graph that fails to load, a crash between the commit of a
completion and its `once` record (the target is completed and nothing looks at the record
again), and the microtask between
`ensureDriver` and the increment of `holds`. **Operator calls do not overlap**: `op` holds one
call, where `withDriver` (`controller.ts:425-434`) counts its callers. Two calls that are both
between their read and their commit are outside the model and the theorems.

### FileStore (with FileStoreProofs, MCFileStore): the JSON file and its lock

Every system call on the lock file or the data file is a step. `Begin` to `Unlink` are
`withFileLock`: `OpenNew` and `WriteToken` create the lock and write its token,
`OpenBusy` and `Inspect` look at somebody else's, `Steal` renames whatever lock file is there
by then, `ReleaseRead` and `Unlink` give it back. `CheckStat`, `ReadFromDisk`, `Mutate`, `Rename`,
`Restat` are `withLock`, `readFromDisk`, `serializeMap` and `persist`; `WriteFails` is every error
before the rename. `GetStat`, `GetRead`, `GetParse` are `reloadFromDisk`, which takes no lock.
`Age` and `Crash` are the environment. Each call adds its own name under its key, so that the
file shows which updates it holds. A value is a set of calls and a line of
`rawJsonByKey` is the value it was made from, so that reusing a line is visible.

Two situations end what the properties claim, and both are steps of the model. `raced`: a
steal has hit a live holder's lock other than the one that was inspected, or one without a
foreign token; behaviour is followed up to there. `reused`: a process writes again after one of its
writes failed. Section 4 says what happens then. `put` and `delete` are `update` without
the read of the old value. The data file is always there and well formed: the paths of
`currentStat` and `readFromDisk` for a missing or corrupt file (`store.ts:386-397`), and a stat
that fails after the rename, are not modelled.

### ResourceBudget (with ResourceBudgetProofs, MCResourceBudget): reservations

One step per transaction, or per statement outside of one. `Admit` and `Retry` begin an
admission with the SELECT of `recoverExpired`; `RecoverExpired` is its UPDATE of one row,
`RecoverCharge` the transaction that charges it; `Reserve`, `Defer` and `Deny` are `evaluate`. A
process is synchronous within `admit` and `fail` (`At`), other processes interleave.
`RenewLease`, `Complete`, `FailAccount`, `Fail`, `Close`, `HeadersExhausted` are the request in flight,
`ResetHealth`, `EmergencyStop`, `Resume` the operator. One quota group with one limit in one window
stands for all: the other limits are the same sum over the same tables. The limit is a hard
one and is enforced. Not modelled: a policy with `enforce: false` (`budgetManager.ts:198-203`:
only a disabled account and the emergency stop still refuse a request), a soft limit
(`hard: false`, never exhausted), and an unknown one (it allows, conserves or denies as
`unknownLimitPolicy` says, `budgetManager.ts:121-124`). Each request ends
with one terminal event: `governedAdapter.ts:95-114` does not look at `settled` before it
reconciles, so that this is a property of the repository's adapters that the model takes
from them.

### JobOrchestrator (with JobOrchestratorProofs, MCJobOrchestrator): one job and the processes that run it

The stored job (`store`) and a record per process (`proc`): its copy of the job and how its
revision compares with the stored one, its claim, its pump, its attempts, and the request
being served. What a process does between two awaits is an operator on that record
(`DoPump`, `WakePump`, `CheckTermination`, `Catch`, ...); an action is the flush it awaits, which
writes, or throws, or is refused (`Flush`). `Acquire` has the recovery of interrupted
attempts, `Load` and `HealSaved` the reconciliation on load. A revision is compared, not
counted: a failed write may leave the number in the copy counted up, and another process's
write may then make it match by accident (`revision = "ahead"`, then `"same"`).

`assignTask` may place a task, return null (`NotPlaced`: the node goes back to the list and the loop
is left) or throw (`NotAssigned`). An executor returns (`ExecutorReturns`) or throws (`ExecutorThrows`, straight
into the catch block, from which a further failure rejects the run). `RenewFails` is a lease that
is lost, or a store that fails the renewal of a live one; `SignalAborts` is the caller's
`options.signal`. A task's own `maxRetries` and the job's are independent, up to `RetryBound`: the
theorems are about all of them, the runs have tasks with at most the job's. Not modelled: the
catch block takes any exception with "policy" or "denied" in its message for a policy denial;
here only the executor's can be one, and a failed write never is.

The ghost `loose` becomes true when a run is over, or `finishJob()` has decided how it ends,
while something of it is still under way, or when a task is dispatched before its last
attempt has left. Section 4 says what such runs do; the properties about attempts and stored
nodes are about the others.

## 3. Runs

| Run | Instance | What it shows |
|---|---|---|
| `ledger` | A process and its restarted self with one holder id, 1 reader, clocks 0..1, 2 epochs, 3 revisions, batches of up to 2 | `FencedCommits`, `NoTransitionLost`, `HistoryExplainsLedger`, `QuietReadIsWhole`, refinement of RunHistory |
| `once_processes` | 3 processes on 2 hosts, 4 calls (2 overlapping in one process), an operator | `AppliedAtMostOnce`, `Agreement`, `OutcomeIsFinal`, `NeverReconciledAlive`, `CallsAreAnswered` |
| `events_window` | 2 appenders in 2 processes, window 2, 1 subscription, 3 events | `DeliveredExactlyOnce`, refinement of EventStream |
| `events_delivery` | The same with pages of 1 event, 2 events | `EventuallyDelivered` |
| `stream_shared_store` | 2 API processes, 1 client, 3 events, 2 cuts | `NeverReplaced`, `FramesInOrder`, `OnlyLateSkipped`, `OwnEventsSent` |
| `controller` | 2 targets in a chain, the first asks for both approvals, 2 tasks, 1 repair, any 3 events | The six safety invariants of the controller, `CompletedIsForever`, `EventuallyRests` |
| `controller_approval` | The same, 1 event | Violated: `ApprovalIsScoped` |
| `controller_stop` | A chain of 2 targets, 1 operator call | Violated: `StoppedMeansQuiet` |
| `file_store` | 2 overlapping updates in one process that also reads, 1 in another, 2 keys, 1 failed write, 1 crash | `MutualExclusion`, `NoLostUpdate`, `FailedStaysOut`, `CacheCoherent`, `CallsEnd` |
| `budgets` | 2 hosted requests of one process, 1 local one of another, limit 3, 2 at a time, leases of 1 tick, 1 incident | `StatusAgrees`, `ExpiredIsOwed`, `AdmissionCounts`, `QueueMoves` |
| `jobs` | 2 processes, 2 tasks, chained or independent, one of them retried once, 1 incident of 11 kinds | `DependenciesFirst`, `AttemptOnce`, `CompletedMeansAll`, `CompletedStays`, `Fenced`, `TerminalStays` |
| `jobs_stale_writer` | The same, the incident is `cancelTask` | Violated: `NeverResurrected` |

Every property of a passing run has a mutant in `PROJECT.json`: a plausible bug in one
definition under which TLC finds the property violated. The type invariants (`TypeOK` of
each module) hold on these instances and are proved where there are proofs; the
configurations leave them out, since they say nothing about the code.

Deadlock is not checked: a finished run, a log at the bound, a completed goal, a store
whose calls have all ended may stop.

### Bounds

* Ledger: a lost, duplicated or foreign transition needs a commit, its successor, and a
  late writer of the first, hence 3 revisions (creation and two commits) and two
  processes; two epochs give one takeover. One shared holder id is the harder case, since
  only the epoch tells the two apart; the theorems cover processes with ids of their own
  and lift all of these bounds.
* Effects: two runs of the effect suffice for a repetition. The last run the bound allows
  does not refuse, and the last release is not reconciled, so that the bound stops nobody
  (it would otherwise be a false stuck caller).
* Events: the window is as large as the number of overlapping appenders, the worst case
  for which the claim holds. **`StreamRefined` needs at most `RECENT_WINDOW` (64) overlapping
  appenders of one run**: with one more, TLC finds a gap (all allocate after
  materialising the same window, and one crashes before its put). The code states no such limit; 64 simultaneous appends
  to one run is far above what the controller does. Pages of 1 and 2 events exercise full
  and short pages.
* Stream: 3 numbers allow overtaking and a full page behind it; 2 cuts allow a crash and
  a restored head in one behaviour.
* Controller: `MaxEvents` bounds operator calls, crashes, shutdowns and the deadline
  together. Three of them give any triple (pause, crash, recovery; approve, stop, resume; ...)
  at any points. Two tasks let a repair or a retry take place or exhaust the budget. One
  attempt is in flight at a time: the theorems hold for any `MaxConcurrent`, but
  `EventuallyRests` is checked for 1 only.
* File store: a lost update needs two writers of one key and a cache gone stale between
  them, hence two calls of one process and one of another; the second key is what a
  reused line can drop. Locks age without bound. Proved for any instance, except `CallsEnd`.
* Budgets: three requests allow one to die, one to answer late and one to be admitted
  against them; the third waits in the queue behind the concurrency limit of two. Two ticks
  with leases of one let a lease expire and another begin.
* Jobs: `Incidents` happen at most once each, `MaxIncidents` in all. One is
  enough for a takeover at any point; `jobs` covers a retry, both graphs and every kind.

### Fairness

* OnceEffects: weak fairness of each call's next step. The store answers and the effect
  settles; nothing is assumed of crashes, operators or new calls.
* GoalEventLog: weak fairness of the poll timer (`setInterval`), strong fairness of the
  two reads of a drain: a store that fails now and then succeeds now and then.
* ControlEventLog: weak fairness of a connection's task chain: promises settle. A read that
  fails is excused by `failed` in `OwnEventsSent`, because the code gives that task up.
* GoalController: weak fairness of the loop, of the operator's call once made, and of each
  attempt: promises settle. None for the operator, and none for `RecoverRuns`, which nothing
  in the sources calls on its own (only tests and wiring do).
* FileStore: weak fairness of each call's next step and of the lock's ageing: promises settle,
  time passes. A call need not begin, fail or time out. After a race nothing is claimed.
* ResourceBudget: weak fairness of each request's next step (the provider answers or its
  process dies) and of the clock.
* JobOrchestrator: none; no liveness is claimed, because the code does not have it (section 4).

## 4. What the violated runs show, and other observations

1. `controller_stop`: `stop()` (and `pause()`) decide by `d.active`, in which a target whose
   attempt is being started is not yet. `startAttempt` does not look at the run's
   status, so the attempt starts after the run is `stopped`.
2. `controller_approval`: `enforceGate` (`controller.ts:868`) lets a target that requires approval
   complete on any granted approval of it, of any attempt and either kind, where
   `INTEGRATION-CONTRACTS.md:122-123` says: "An approval is scoped to `(runId, targetId,
   attempt, action)` and is not reusable elsewhere." `ApprovalIsScoped` states that for completions;
   in the trace the approval to execute attempt 1 is the only one granted, and the target
   completes. Two things qualify it. The repository's verification gate
   (`verification/gate.ts:188`) itself asks for fresh human sign-off before it answers
   `completed`, so that `enforceGate` is the second of two checks; the model lets the gate
   answer anything. And the other use of approvals is as the contract says: an attempt executes only with an
   execute approval of its own (`ExecutionIsApproved`, checked and proved).
3. `jobs_stale_writer`: `cancelTask()` while its task is being dispatched makes the dispatch
   throw, which rejects and releases the run but leaves `cancelTask()` under way. Another
   process acquires the job, which does not change its revision, stores it as failed and
   releases it. The first process's flush then passes the revision check and writes the
   job back as `running`, with no owner. `TerminalStays` shows that this takes a run that
   ended with something of it still under way (`loose`) or a process without a claim that
   had read the record before it was acquired (`Unaware`). The proof brought up the
   second case, which needs three processes: a task has been cancelled but its node is
   still running when the owner crashes; one process loads the job and is about to write it
   back healed as `cancelled`, another acquires it, stores it as `failed` and releases it,
   and the first one's write is accepted. In the same way `resume()` of a paused copy sets a
   failed job to `ready`.

The observations below are behaviours of the models and of the code they follow; no run
is about them.

### Ledger, effects, event log

* `transitions()` (`ledgerStore.ts:366`) lists the keys and then reads the envelope. A commit
  in between materialises and replaces the batch the listing relied on: the result lacks
  those transitions and has later ones, where the comment at `ledgerStore.ts:46-49` says that
  they are never lost. Nothing is lost in the store (`NoTransitionLost` is
  proved), and `QuietReadIsWhole` holds. Envelope first, keys second would not have the gap.
* Overlapping `once()` calls of one instance both find no promise, because the status is
  awaited before the promise is put into the map. The loser of the claim is told that the
  owner is gone and to reconcile (`ledgerStore.ts:601`) while the effect runs. It still
  happens once. But the loser's `finally` deletes the key from the map, which by then holds
  the winner's promise: `pendingEffects()` of that process lists the running effect as
  without an owner and `reconcileEffect()` there is not refused. Reconciled as not applied,
  the effect can run twice, which is why `OneCarefulOperator` asks for no overlapping
  calls on the operator's own instance.
* In `reconcileEffect` the owner's liveness is checked outside the atomic update: two
  operators reconciling one key, the first as not applied, let a new runner in that the
  second one's write resolves under its feet. In the instance of `once_processes`, and in
  the theorems about reconciliation, there is one operator.
* With two API processes, an event whose number was taken earlier but stored later is skipped
  by a client that has moved past it (`controlEventLog.ts:67`, against `:10-11` and
  `controlRoutes.ts:500`). `OnlyLateSkipped` shows that nothing else is. A failed put leaves a
  number unused.

### File store

* A steal can hit a live holder's lock: A inspects a stale lock and is about to rename it, B
  steals it first and creates its own, A's rename moves B's away, and both are inside, where
  `store.ts:24` says that a live holder is never robbed. A lock older than 30 s of the
  own process, or without a token yet, is stolen too.
* `persist()` sets `rawJsonByKey` and `lastStat` before the write and `this.data` after it. After a
  failed write the stat can match a file whose content `this.data` is not: the next
  write of that process can drop keys that others have written, or bring the failed
  value back with a reused line.
* A `get()` that overlaps a write of its own process may return the state before it.

### Resource budgets

* Between the UPDATE to `expired` and the charge, a request is in neither sum, so another
  process may be admitted over the limit (against `ledger.ts:104-106`); if the process dies
  there, it is never charged (against `:252-254`). The same holds while a lease expires between
  the clock readings of `recoverExpired` and `evaluate`. `AdmissionCounts` excludes exactly
  these (`InNeitherSum`).
* A cooldown overwrites `auth_blocked` (`budgetManager.ts:299`; `docs/resources/RUNBOOK.md:190` says it stays until
  reset). An actual usage that arrives after the conservative charge is discarded.
* A late renewal revives a lease that had expired, and can exceed `maxConcurrent`.

### Jobs

* An attempt that fails sets its node idle before its saves have ended. A wake of the pump in
  between dispatches the next attempt, whose controller the old one's `finally` then deletes
  (`jobOrchestrator.ts:774-789`, `:880`). If, with two or more retries, a save of the old attempt
  also fails, its catch block sets the node idle once more under the retry count that is
  already running: the same attempt is started twice. `AttemptOnce` therefore says `~loose`.
* The deadlock check (`:901-917`) looks at nodes and active tasks while saves are under way and
  can fail nodes that would have become ready.
* The catch block after a failed write makes a completed node idle again (`:843-859`); loading the
  job heals it to completed.
* A rejected run leaves its pump and executors at work. `cancelTask()` during a placement
  rejects the run.
* `cancelJob()` does not wake the pump: a paused run with nothing in flight stays pending after
  it, its lease renewed. The same when the lease is lost while the run is paused, and for the
  caller's abort, which reaches neither the pump nor a running task (`:373-375`).
* A null placement (`:600-605`) ends the pump with the node put back, and nothing wakes it when a
  placement becomes available: with no other attempt in flight the run waits for a pause,
  a resume or the timeout.
* A pause from another process counts the revision up, so that the owner's next flush ends in
  JOB_REVISION_CONFLICT, against `jobManager.ts:442-449`. A failed write leaves `job.revision`
  counted up as well, which makes later writes conflict, or match by accident.
* `paused` is read once per pump. `resume()` changes memory also when its flush fails.
* `acquire()` looks at the job's `maxRetries`, not at the task's. Reconciled orphans are
  skipped by `recoverJobs()`. A job of cancelled tasks only ends `completed`, but is
  reconciled as `cancelled`; with an orphan report as well it may end `completed` with a failed node.
* `finishJob()` can decide while the attempt of a cancelled task is on its way out. What that
  attempt then does to its node (failed, or idle for a retry) is saved after the job is
  `completed`. This is why `loose` covers a run that was finished with attempts under way.

### Controller

* If `pause()` or `stop()` computes `pausing`/`stopping` and the last attempt ends first, a
  pass that has decided `idle` attempts an illegal run transition: the loop ends with an
  error and the run keeps the transient status, without a driver, until the next call or
  recovery.
* A pass may relaunch an attempt that has ended since its snapshot. What it commits is
  replayed from `once`, but `saveAttempt` refuses the second outcome and a target in
  `repairing` ends `blocked`. Completed targets are safe (`CompletedIsForever`).
* `saveAttempt` treats `awaiting_approval` as final: granting a completion commits the
  target and then ends in a LEDGER_CONFLICT error, and an attempt resumed after an execute
  approval that fails is blocked instead of repaired.
* A crash between the approval marker and `commitProgress` in `resolveApproval` leaves
  `needs_approval` with nothing pending; no call gets it out except a stop.
* `resume()` can be overwritten by the `paused` commit of a pass that saw `pausing`.
* An approved attempt costs no task, but the pass's own budget check comes first: with the
  budget used up, it is blocked.
* An approved attempt is kept: when its target is blocked and retried, `startAttempt` takes
  up the same attempt again, whose recorded result `once` replays, so that a retry of it does
  not execute anything new.

## 5. Proofs

### The run ledger

`GoalLedgerProofs` proves, for any number of processes, holder ids, readers, targets and
for any bounds, from `LedgerAssumption` (every process has a holder id, the lease time is
positive, the bounds are natural numbers) and `TargetsAssumption`:

| Theorem | Statement |
|---|---|
| `LedgerInvariant` | `Spec => []IInv` |
| `LedgerTypeCorrect` | `Spec => []TypeOK` |
| `LedgerSoleCommitter` | At most one process can pass the lease check |
| `LedgerFencedCommits` | Commits land only under the newest epoch issued |
| `LedgerNoTransitionLost` | Every transition below the last batch has its key |
| `LedgerNothingUncommitted` | Every key belongs to a commit and says what it said |
| `LedgerHistoryExplains` | All commits together explain every status from the initial one |
| `LedgerRefinesHistory` | `Spec => HistoryRefined`: the ledger implements RunHistory |
| `LedgerQuietReadIsWhole` | A reader that saw no commit between its two reads has every transition |

None of the invariants is inductive alone. `IInv` is `TypeOK /\ LeaseInv /\ StoreInv`:

* `LeaseInv`: the stored lease has the newest epoch, tokens are not newer, and no two
  processes hold tokens of one epoch. Holder ids cannot do that, since restarted
  processes share them.
* `StoreInv`: for every process in the middle of a commit (`JobOK`), the batch in its hands
  is part of the history at the place it names (`BatchInHistory`), what it has gone through
  is materialised, and while the revision is still the one it read, that batch is the one
  its compare-and-set will replace. The last clause is why a commit loses nothing: the
  compare-and-set succeeds only at that revision, after the loop over the batch has
  ended. `BatchInHistory` is why an arbitrarily late put is harmless.

The history theorems add the composition of explanations (`ExplainsConcat`) and that
only the compare-and-set changes the history, at its end (`CommitAppends`, `OtherSteps`).
Readers have an invariant of their own (`ReadInv`): while the revision is the one a listing was
made at, the listing has every transition below the envelope's batch. It rests on
`BatchOfRevision`: one revision never has two batches.

### Exactly-once effects

`OnceEffectsProofs` proves, for any number of instances, hosts, calls and runs of the effect,
from `OnceAssumption` (calls have an instance, instances a host):

* without a condition: `OnceTypeCorrect`, `OnceAgreement` and `OnceOutcomeIsFinal`. The latter two hold
  whatever operators do, because a finished record is outside the guard of every write;
* under `OneCarefulOperator`: `OnceEffectInvariant`, `OnceAppliedAtMostOnce` and
  `OnceNeverReconciledAlive`. The condition is that reconciliation takes place on one instance,
  of what `pendingEffects` reports as dead, and that this instance makes no overlapping
  calls with the key. The code enforces none of the three, and section 4 says what
  happens otherwise. Without reconcilers it holds of itself.

`EffectInv` strengthens `AppliedAtMostOnce` by what the argument is about: calls under way
belong to live processes (`LiveInv`); the record names the only call that runs the effect or
writes its outcome (`RunInv`); the operator's map has the promise of its own call (`MapInv`);
a reconciliation under way is of an effect nobody runs, and its evidence is still true
(`PlanInv`); a key that may be claimed is of an effect that has not happened (`AppliedInv`). A
crash in the middle of the effect leaves the record in flight, so that only the operator
can free the key, and `PlanInv` says with which knowledge.

### The API's event numbers and streams

`ControlEventLogProofs` proves `StreamNumbersInvariant` and `StreamNeverReplaced` from
`ControlLogAssumption`, for a store with an atomic update and any processes, clients, cuts and
events. `HeadInv` is the argument: a head that is there is past every number stored or
taken, and while it is missing nobody has a number, so that the events cannot change between
a process's reading of the floor and the first number taken after it. `LargestFacts`
(a non-empty set of numbers up to a bound has a largest one) comes from the well-foundedness of
the natural numbers.

`StreamInvariant`, `StreamTypeCorrect`, `StreamFramesInOrder` and `StreamOnlyLateSkipped` are about the
connections and hold over any store, also one without an atomic update. `StreamInv`: an
event is announced to a connection, and the cursor moved to it, only once it is stored; the
frames are at most the cursor, each number once and in order; and every stored number up
to the cursor was sent or is `late`. A page is the first stored numbers after the cursor it
was read at, so that sending all of it and moving the cursor to its end skips nothing that was
stored at the time.

### The file store

`FileStoreProofs` proves, for any number of processes, calls and keys, any failed writes and
crashes, from `FileStoreAssumption` (calls have a process and a key, `NoLock` is not a lock
or a call): `FileStoreInvariant`, `FileStoreTypeCorrect`, `FileStoreMutualExclusion`,
`FileStoreNoLostUpdate`, `FileStoreFailedStaysOut`, `FileStoreCacheCoherent`. `IInv` has four parts,
each preserved by a lemma of its own:

* `LockInv`: a live call between the creation and the deletion of its lock finds its own lock
  there, and a steal under way was decided against a dead process or against no token. Mutual
  exclusion follows, because there is one lock file (`Exclusion`).
* `CacheInv`: stats are not newer than the file (`Stamps`), so that a rename makes every older
  stat stale; what a `get()` has read under the file's stat is the file (`Reads`); what the one
  writer works on is the file, and what it will rename is the file and its own update
  (`Working`); a cache with the file's stat is the file, and so are its reusable
  lines (`Cached`). The lines have to be part of it: they are what is written.
* `FileInv`: the file holds exactly the updates whose rename has happened (`Landed`), which is
  stronger than either of `NoLostUpdate` and `FailedStaysOut` and needs both directions.

### Reservations

`ResourceBudgetProofs` proves from `BudgetAssumption`, for any processes, requests, accounts,
limits, leases and clock: `BudgetInvariant`, `BudgetTypeCorrect`, `BudgetStatusAgrees`,
`BudgetExpiredIsOwed`, `BudgetEndedHoldsNothing`, and the action property `BudgetChargedOnce`. The
strengthening: what a recovery has won is expired or settled meanwhile, and it is held on
to only inside an admission (`WonInv`); a request in flight has a reservation that it has
not closed itself (`FlyingInv`). Without the first, a recovery could settle a row that was
released; without the second, a late answer could.

### The durable event log

`GoalEventLogProofs` proves `EventLogInvariant`, `EventLogTypeCorrect`, `EventLogDeliveredExactlyOnce` and
`EventLogRefinesStream` from `FewAppenders`: no more appends overlap than the window has places
(64 in the code; section 3 says what happens with one more). Subscriptions, processes, pages
and events are any number. `IInv` has, besides the types:

* `StoredInv` and `AppendInv`: a key that is there, and the window an append has in its hands,
  hold the events of the stream;
* `WindowInv`, the counting argument: an event without a key is followed only by events whose
  appends had begun before it was there, each appender having one such append. The events after
  it and the appends that may still add one are together fewer than the appenders.
  With `FewAppenders` the event is still in the window, hence nothing is lost when a window
  slides;
* `SubInv`: what a read of the head did not show has a key, and a subscription was given each
  event after its start up to its position exactly once.

The refinement follows, because only the allocation changes `Stream`, and it appends.

### The controller

`GoalControllerProofs` proves from `ControllerAssumption`, for any finite graph, policies,
budgets, repairs and numbers of events: `ControllerInvariant`, `ControllerTypeCorrect`,
`ControllerDependenciesFirst`, `ControllerCompletedMeansAll`, `ControllerBudgetCounts`,
`ControllerExecutionIsApproved`, `ControllerCompletedWasVerified`, `ControllerIdleIsHonest` and the action property
`ControllerCompletedIsForever`. The parts of `IInv`:

* `SnapInv`: a pass works on a stale snapshot, but leaving the queue, being completed and
  being started are never undone, and these are all it relies on. With it a target that is
  about to start has its dependencies completed in the ledger, not only in the snapshot;
* `EntryInv`, `WorkInv`, `OpInv`: at every await of an attempt or of an operator's call, what the
  records and the target's entry say about it: how far it has been executed and verified, that
  it is the last attempt of its target, that its own execution was approved;
* `CountInv`: the counter is the cardinality of the set of started attempts, to which every
  step adds at most the one it starts;
* `LoopInv`, `FlyingInv`, `IdleInv`, `WakeInv` for `IdleIsHonest`: what could be started was seen by the
  pass, or an attempt, a call or the wake flag will bring the loop round again. `FlyingInv`
  is needed for a restarted driver: the targets in flight are no more than it may resume.

An attempt's own steps are of one shape (`AttemptMove`: its target's status, its records, its
place), and each part of the invariant is shown once to survive that shape, and once to survive
steps that leave the entries alone (`Quiet`), before the actions are gone through.

### Jobs

`JobOrchestratorProofs` proves from `JobAssumption`, for any number of processes, tasks, retries,
any graph and any incidents: `JobInvariant`, `JobTypeCorrect`, `JobFenced`, `JobAttemptOnce`,
`JobDependenciesFirst`, `JobCompletedMeansAll`, `JobCompletedStays` and `JobTerminalStays`. The invariant:

* `TypeInv`, with `RestOK`: a process that does not run the job has nothing of it under way; it
  has a claim exactly while it runs the job; a node whose retries are used up is failed. This is
  what bounds the retry counts;
* `TidyInv`: what `loose` means while it is false;
* `StartsInv`: every attempt that was started is known (`Knows`) to the record and to every copy
  that may still be written, the owner's and those of processes without a claim: a later attempt
  is due, or the node is not idle. The owner's pump has none of them on its list (`Counts`).
  `AttemptOnce` is not inductive without the copies, since `acquire()` counts only what the
  stored node shows;
* `CompletedInv`: a copy whose write will be accepted has every completed node of the record
  (`Keeps`), no completed task without a completed node (`Agrees`), and what its pump has on its
  list or its attempts will still change is not completed (`WriterOK`). It is conditional on
  `Undisturbed`, because the catch block after a failed write does take a completed node back;
* `StatusInv`, separate from the others: the owner's copy can only have a status that
  statusTransitions.ts allows after the stored one. It needs no condition on `loose`. The
  two exceptions in `TerminalStays` come from writers that are not owners.

The argument has two levels. What a process does between two awaits is shown to be a
`Progress` of its record (`PumpMove`, `Touched`, `Enter`, `Leave` and so on, one lemma per operator), without
regard to the store. Four assembly lemmas then carry any progress through the ways a step
can end: a step of its own (`LocalStep`), an accepted flush, which makes every other
copy out of date (`FlushStep` with `WrittenOther`, `Overwritten`), and a flush that is refused or fails
(`ThrownStep`). Starting an executor is the one step that changes `starts`, and has a lemma chain of its own
(`Launched`, `Passed`).

### Only model-checked

* Liveness, and what needs fairness: `CallsAreAnswered`, `EventuallyDelivered`, `OwnEventsSent`,
  `EventuallyRests`, `CallsEnd`, `QueueMoves` (outside this prover's reach).
* `AdmissionCounts`, whose sums over the reservations need an induction the provers cannot do.
* That the violated properties are violated.

## 6. Not modelled, and what is left

The repository has some 165,000 lines of source in 488 files; the modules stand for
about 3,200 of them. By far the most is outside what a state machine can say about it: terminal,
web, desktop and mobile clients; agents and model runtimes, whose behaviour is model
output; search, learning, evaluation and routing, which are scores over floating-point
data; code intelligence, prompts and context, which are text; tools, sandboxes and storage
back ends, which are I/O. `PROJECT.json` gives the reason for each component.

What is left that has state shared between activities, most important first:

1. Harness dispatch, workers and checkpoint transport: remote work with leases over HTTP.
2. The approval queue and the approval bridge; governance's audit chain.
3. The controller with `autoAdvance: false` (only targets an operator prefers are
   started), and composed with the lease: takeover during an attempt.
4. Jobs with tasks added by a replanner, and `recoverJobs()` over several jobs.
5. The verified integration coordinator and the subagent ledger.

And theorems: `AdmissionCounts`, with the sum over the reservations stated by a recursive
function and lemmas on how one row changes it; the composition of the controller with the
ledger's fencing, once it is modelled.
