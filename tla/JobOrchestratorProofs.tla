------------------------ MODULE JobOrchestratorProofs ------------------------
(***************************************************************************)
(* Proofs about JobOrchestrator for any graph, any number of processes,    *)
(* tasks and retries, and any incidents.                                   *)
(***************************************************************************)
EXTENDS JobOrchestrator, TLAPS

ProcRecord ==
    [phase: {"off", "healing", "idle", "starting", "run", "leaving", "done", "dead"},
     mem: Job, revision: {"same", "older", "ahead"}, claim: BOOLEAN,
     aborted: BOOLEAN, timedOut: BOOLEAN, finished: BOOLEAN,
     active: [Tasks -> 0..RetryBound + 2], stopped: SUBSET Attempts,
     orphaned: SUBSET Tasks, pump: Pump, ex: [Attempts -> Attempt], ctl: Control]

StoreRecord == [job: Job, lease: {"none", "live", "expired", "released"},
                owner: Procs \cup {NoProc}, cancel: BOOLEAN]

-----------------------------------------------------------------------------
(* What a process is in the middle of *)

\* The nodes the dispatch loop has before it, the one it is placing or saving included.
Pending(s) ==
    {t \in Tasks : \/ s.pump.at \in {"assign", "unassigned", "dispatch"} /\ t \in s.pump.ready
                   \/ s.pump.at \in {"assign", "dispatch"} /\ t = s.pump.task}

\* The nodes the pump has taken a note of, for dispatch or to be failed.
Listed(s) == s.pump.ready \cup Pending(s)

\* The last retry was counted by acquire(), which failed the node.
Exhausted(j) == \A t \in Tasks : j.retry[t] = RetryBound + 1 => j.node[t] = "failed"

\* A process that runs nothing has nothing under way; it has a claim while it runs the job.
RestOK(s) ==
    /\ s.claim <=> s.phase \in {"starting", "run", "leaving"}
    /\ s.phase \in {"off", "healing", "idle", "starting", "dead"}
          => s.pump.at = "idle" /\ s.pump.ready = {} /\ \A e \in Attempts : s.ex[e].at = "none"
    /\ s.phase \in {"off", "healing", "dead"} => s.ctl.what = "none"
    /\ s.phase = "idle" /\ s.ctl.what # "none" => s.ctl.what = "resume" /\ s.mem.status = "ready"
    /\ s.finished => s.pump.at \in {"idle", "finish"}
    /\ s.pump.at \in {"assign", "dispatch"} => s.pump.task \notin s.pump.ready
    /\ s.phase = "healing" => s.revision # "ahead"
    /\ Exhausted(s.mem)
    /\ \A t \in Pending(s) : s.mem.retry[t] # RetryBound + 1

TypeInv ==
    /\ deps \in Graphs
    /\ store \in StoreRecord /\ Exhausted(store.job)
    /\ proc \in [Procs -> ProcRecord]
    /\ \A p \in Procs : RestOK(proc[p])
    /\ incidents \subseteq Incidents
    /\ starts \in [Attempts -> Nat]
    /\ loose \in BOOLEAN

\* What the ghost says of a behaviour in which it is still FALSE.
Tidy(s) == ~Overlap(s) /\ ~Straggling(s)

TidyInv == ~loose => \A p \in Procs : Tidy(proc[p])

-----------------------------------------------------------------------------
(* Which attempts have been started *)

\* A record knows of every attempt that has been started: a later one is due, or the
\* node shows it.
Knows(j) ==
    \A t \in Tasks : \A r \in 0..RetryBound + 1 :
        starts[<<t, r>>] # 0 => r < j.retry[t] \/ (r = j.retry[t] /\ j.node[t] # "idle")

\* ... and the pump is not about to start it again.
Counts(s) ==
    /\ Knows(s.mem)
    /\ \A t \in Pending(s) : starts[<<t, s.mem.retry[t]>>] = 0
    /\ s.pump.at = "dispatch" => s.mem.node[s.pump.task] # "idle"

\* A copy of the job that a process without a claim may still write.
MayWrite(s) ==
    /\ s.revision = "same"
    /\ s.phase = "healing" \/ (s.phase = "idle" /\ (s.mem.status = "paused" \/ s.ctl.what = "resume"))

\* What a process may hold, in terms of the attempts that have been started.
StartOK(p) ==
    /\ proc[p].phase \in {"starting", "run"} /\ Owns(p) => Counts(proc[p])
    /\ MayWrite(proc[p]) => Knows(proc[p].mem)
    /\ proc[p].phase = "idle" /\ proc[p].revision = "ahead"
          => proc[p].ctl.what = "none" /\ proc[p].mem.status # "paused"

StartsInv ==
    ~loose =>
        /\ \A e \in Attempts : starts[e] <= 1
        /\ Knows(store.job)
        /\ \A p \in Procs : StartOK(p)

-----------------------------------------------------------------------------
(* What is completed *)

\* j has every completed node of the record i.
Keeps(i, j) == \A t \in Tasks : i.node[t] = "completed" => j.node[t] = "completed"

\* A completed task has a completed node; a completed job has no other nodes.
Agrees(j) == \A t \in Tasks : j.task[t] = "completed" => j.node[t] = "completed"

Whole(j) == j.status = "completed" => \A t \in Tasks : j.node[t] \in {"completed", "cancelled"}

\* p's next flush will be accepted.
Writer(p) == proc[p].phase \in {"starting", "run"} /\ CanFlush(p)

\* What a process whose flush will be accepted has in its hands.
WriterOK(s) ==
    /\ Agrees(s.mem) /\ Whole(s.mem)
    /\ s.mem.status = "completed" => s.finished
    /\ \A t \in Pending(s) : \A d \in deps[t] : s.mem.node[d] = "completed"
    /\ \A t \in Listed(s) : /\ s.mem.node[t] # "completed"
                            /\ \A e \in Attempts : e[1] = t => s.ex[e].at # "run"
    /\ \A e \in Attempts :
          /\ s.ex[e].at = "run" => s.mem.node[e[1]] # "idle"
          /\ s.ex[e].at \in {"run", "retry", "fail", "cancel"} => s.mem.node[e[1]] # "completed"

\* One attempt of a task at a time.
Single(s) == \A e, f \in Attempts : s.ex[e].at # "none" /\ s.ex[f].at # "none" /\ e[1] = f[1] => e = f

\* What a process may hold, in terms of what is completed in the store.
DoneOK(p) ==
    /\ proc[p].revision # "ahead"
    /\ Single(proc[p])
    /\ Writer(p) => WriterOK(proc[p]) /\ Keeps(store.job, proc[p].mem)
    /\ proc[p].phase \in {"healing", "idle"} /\ proc[p].revision = "same"
          => Keeps(store.job, proc[p].mem) /\ Agrees(proc[p].mem)
    /\ proc[p].phase = "healing" /\ proc[p].revision = "same" => Whole(proc[p].mem)
    /\ \A e \in Attempts : proc[p].ex[e].at = "run"
          => \A d \in deps[e[1]] : store.job.node[d] = "completed"

CompletedInv ==
    Undisturbed =>
        /\ Agrees(store.job) /\ Whole(store.job)
        /\ \A p \in Procs : DoneOK(p)

IInv == TypeInv /\ TidyInv /\ StartsInv /\ CompletedInv

-----------------------------------------------------------------------------
(* Fencing *)

\* What a flush does to the record.
LEMMA FlushFenced ==
    ASSUME NEW p \in Procs, NEW done, NEW thrown, Flush(p, done, thrown)
    PROVE  store'.job = store.job \/ store.lease # "live" \/ store'.job = proc[store.owner].mem
<1>1. CASE CanFlush(p) /\ store' = [store EXCEPT !.job = proc[p].mem]
  <2>1. store.lease = "live" => store.owner = p
    BY <1>1 DEF CanFlush, Owns
  <2>2. store'.job = proc[p].mem \/ store'.job = store.job
    BY <1>1
  <2> QED
    BY <2>1, <2>2
<1>2. CASE store' = store
  BY <1>2
<1> QED
  BY <1>1, <1>2 DEF Flush

LEMMA FencedStep ==
    ASSUME TypeInv, [Next]_vars
    PROVE  store.lease = "live" /\ store'.job # store.job =>
             \/ store'.job = proc[store.owner].mem
             \/ store'.job = [store.job EXCEPT !.status = "paused"]
<1> DEFINE A == store.lease = "live" /\ store'.job # store.job =>
                  \/ store'.job = proc[store.owner].mem
                  \/ store'.job = [store.job EXCEPT !.status = "paused"]
<1>1. ASSUME NEW p \in Procs, PumpStep(p) PROVE A
  BY <1>1, FlushFenced DEF PumpStep, PumpAgain, Assigned, PumpNodeSaved, PumpTaskSaved, Dispatched, Finished
<1>2. ASSUME NEW p \in Procs, AttemptStep(p) PROVE A
  BY <1>2, FlushFenced DEF AttemptStep, AttemptSaved, ExecutorReturns, ExecutorThrows
<1>3. ASSUME NEW p \in Procs, RunStep(p) PROVE A
  <2>1. CASE Load(p)
    BY <2>1 DEF Load
  <2>2. CASE HealSaved(p)
    BY <2>2, FlushFenced DEF HealSaved
  <2>3. CASE Acquire(p)
    BY <2>3 DEF Acquire
  <2>4. CASE StartSaved(p)
    BY <2>4, FlushFenced DEF StartSaved
  <2>5. CASE Release(p)
    BY <2>5 DEF Release
  <2> QED
    BY <1>3, <2>1, <2>2, <2>3, <2>4, <2>5 DEF RunStep
<1>4. ASSUME NEW p \in Procs, ControlStep(p) PROVE A
  <2>1. CASE RemoteCancels(p)
    <3>1. store.lease = "live" => store' = [store EXCEPT !.cancel = TRUE]
      BY <2>1 DEF RemoteCancels
    <3>2. store.lease = "live" => store'.job = store.job
      BY <3>1 DEF TypeInv, StoreRecord
    <3> QED
      BY <3>2
  <2>2. CASE RemotePauses(p)
    BY <2>2 DEF RemotePauses
  <2>3. CASE ControlSaved(p)
    BY <2>3, FlushFenced DEF ControlSaved
  <2> QED
    BY <1>4, <2>1, <2>2, <2>3
    DEF ControlStep, UserCancels, TimesOut, RenewCancels, RenewFails, SignalAborts, Pauses, Resumes,
        CancelsTask, ReportsOrphaned
<1>5. ASSUME NEW p \in Procs, NotPlaced(p) \/ NotAssigned(p) \/ Crash(p) PROVE A
  BY <1>5 DEF NotPlaced, NotAssigned, Crash
<1>6. ASSUME LeaseExpires PROVE A
  BY <1>6 DEF LeaseExpires
<1>7. ASSUME UNCHANGED vars PROVE A
  BY <1>7 DEF vars
<1>8. A
  <2> HIDE DEF A
  <2> QED
    BY <1>1, <1>2, <1>3, <1>4, <1>5, <1>6, <1>7 DEF Next, Step
<1> QED
  BY <1>8

-----------------------------------------------------------------------------
(* Types of the building blocks *)

LEMMA FirstIn == ASSUME NEW S, S # {} PROVE First(S) \in S
BY DEF First

LEMMA ConstantFacts ==
    /\ RetryBound \in Nat /\ 0 \in 0..RetryBound + 1 /\ 0 \in 0..RetryBound + 2
    /\ MaxRetries \in Nat /\ MaxRetries <= RetryBound
    /\ \A t \in Tasks : TaskRetries[t] \in 0..RetryBound
    /\ First(Tasks) \in Tasks
    /\ Quiet \in Pump /\ NotStarted \in Attempt /\ NoControl \in Control /\ NewJob \in Job
    /\ Quiet.at = "idle" /\ Quiet.ready = {} /\ NotStarted.at = "none" /\ NoControl.what = "none"
<1>1. RetryBound \in Nat /\ TaskRetries \in [Tasks -> 0..RetryBound] /\ Tasks # {}
  BY JobAssumption
<1>2. First(Tasks) \in Tasks
  BY <1>1, FirstIn
<1>3. 0 \in 0..RetryBound + 1 /\ 0 \in 0..RetryBound + 2 /\ MaxRetries \in Nat /\ MaxRetries <= RetryBound
  BY <1>1, JobAssumption
<1>4. Quiet \in Pump /\ NotStarted \in Attempt /\ NoControl \in Control
  BY <1>2 DEF Quiet, Pump, NotStarted, Attempt, NoControl, Control
<1>5. NewJob \in Job
  BY <1>3 DEF NewJob, Job, JobStates, NodeStates, TaskStates
<1> QED
  BY <1>1, <1>2, <1>3, <1>4, <1>5 DEF Quiet, NotStarted, NoControl

LEMMA DepsFacts == ASSUME deps \in Graphs, NEW t \in Tasks PROVE deps[t] \subseteq Tasks
BY JobAssumption

\* The parts of a process record.
LEMMA ProcParts ==
    ASSUME NEW s \in ProcRecord
    PROVE  /\ s.mem \in Job /\ s.pump \in Pump /\ s.ctl \in Control /\ s.ex \in [Attempts -> Attempt]
           /\ s.active \in [Tasks -> 0..RetryBound + 2] /\ s.stopped \in SUBSET Attempts
           /\ s.orphaned \in SUBSET Tasks
           /\ s.mem.status \in JobStates /\ s.mem.node \in [Tasks -> NodeStates]
           /\ s.mem.task \in [Tasks -> TaskStates] /\ s.mem.retry \in [Tasks -> 0..RetryBound + 1]
           /\ s.pump.ready \in SUBSET Tasks /\ s.pump.task \in Tasks /\ s.pump.half \in 1..2
           /\ s.pump.paused \in BOOLEAN /\ s.pump.again \in BOOLEAN
           /\ s.claim \in BOOLEAN /\ s.aborted \in BOOLEAN /\ s.timedOut \in BOOLEAN /\ s.finished \in BOOLEAN
<1>1. /\ s.mem \in Job /\ s.pump \in Pump /\ s.ctl \in Control /\ s.ex \in [Attempts -> Attempt]
      /\ s.active \in [Tasks -> 0..RetryBound + 2] /\ s.stopped \in SUBSET Attempts
      /\ s.orphaned \in SUBSET Tasks
      /\ s.claim \in BOOLEAN /\ s.aborted \in BOOLEAN /\ s.timedOut \in BOOLEAN /\ s.finished \in BOOLEAN
  BY DEF ProcRecord
<1>2. /\ s.mem.status \in JobStates /\ s.mem.node \in [Tasks -> NodeStates]
      /\ s.mem.task \in [Tasks -> TaskStates] /\ s.mem.retry \in [Tasks -> 0..RetryBound + 1]
  BY <1>1 DEF Job
<1>3. /\ s.pump.ready \in SUBSET Tasks /\ s.pump.task \in Tasks /\ s.pump.half \in 1..2
      /\ s.pump.paused \in BOOLEAN /\ s.pump.again \in BOOLEAN
  BY <1>1 DEF Pump
<1> QED
  BY <1>1, <1>2, <1>3

\* A process in which nothing of the job has happened is well formed and at rest.
LEMMA FreshFacts ==
    ASSUME NEW phase \in {"off", "healing", "idle", "done", "dead"}
    PROVE  /\ Fresh(phase) \in ProcRecord /\ Fresh(phase).phase = phase
           /\ Fresh(phase).revision = "older" /\ ~Fresh(phase).claim /\ ~Fresh(phase).finished
           /\ Fresh(phase).mem = NewJob /\ Fresh(phase).pump = Quiet /\ Fresh(phase).ctl = NoControl
           /\ \A e \in Attempts : Fresh(phase).ex[e].at = "none"
           /\ RestOK(Fresh(phase)) /\ Tidy(Fresh(phase)) /\ Single(Fresh(phase))
<1> DEFINE f == Fresh(phase)
<1>1. /\ f.phase = phase /\ f.revision = "older" /\ ~f.claim /\ ~f.finished
      /\ f.mem = NewJob /\ f.pump = Quiet /\ f.ctl = NoControl
      /\ f.ex = [e \in Attempts |-> NotStarted]
  BY DEF Fresh
<1>2. f \in ProcRecord
  <2>1. /\ [t \in Tasks |-> 0] \in [Tasks -> 0..RetryBound + 2]
        /\ [e \in Attempts |-> NotStarted] \in [Attempts -> Attempt]
    BY ConstantFacts
  <2> QED
    BY <2>1, ConstantFacts DEF Fresh, ProcRecord
<1> HIDE DEF f
<1>3. \A e \in Attempts : f.ex[e].at = "none"
  BY <1>1, ConstantFacts
<1>4. Pending(f) = {}
  BY <1>1, ConstantFacts DEF Pending
<1>5. Exhausted(f.mem)
  BY <1>1, ConstantFacts DEF Exhausted, NewJob
<1>6. RestOK(f)
  BY <1>1, <1>3, <1>4, <1>5, ConstantFacts DEF RestOK
<1>7. Tidy(f)
  BY <1>1, <1>3, ConstantFacts DEF Tidy, Overlap, Straggling, AtRest
<1>8. Single(f)
  BY <1>3 DEF Single
<1> QED
  BY <1>1, <1>2, <1>3, <1>6, <1>7, <1>8 DEF f

-----------------------------------------------------------------------------
(* The pump between two awaits *)

(***************************************************************************)
(* z is what the pump makes of s.  It fails nodes, or finishes the job, or *)
(* takes nodes of L and idle nodes whose dependencies are completed for    *)
(* dispatch; it starts nothing itself.                                     *)
(***************************************************************************)
PumpMove(s, z, L) ==
    /\ z \in ProcRecord
    /\ z.claim = s.claim /\ z.revision = s.revision /\ z.ctl = s.ctl /\ z.ex = s.ex
    /\ z.phase = s.phase \/ (s.phase \in {"starting", "run"} /\ z.phase = "leaving")
    /\ z.mem.retry = s.mem.retry
    /\ \A t \in Tasks :
          /\ \/ z.mem.node[t] = s.mem.node[t]
             \/ z.mem.node[t] = "failed" /\ (s.mem.node[t] # "completed" \/ t \in Listed(s))
          /\ z.mem.task[t] = s.mem.task[t] \/ z.mem.task[t] = "failed"
    /\ z.finished => z.pump.at \in {"idle", "finish"}
    /\ s.finished => z.finished /\ z.mem = s.mem
    /\ z.mem.status = s.mem.status \/ (z.finished /\ Whole(z.mem))
    /\ \A t \in Pending(z) : t \in L \/ (s.mem.node[t] = "idle" /\ DependenciesSatisfied(s.mem, t))
    /\ \A t \in Listed(z) : t \in Listed(s) \/ s.mem.node[t] = "idle"
    /\ z.pump.at # "dispatch" /\ (z.pump.at = "assign" => z.pump.task \notin z.pump.ready)

\* A pump with an empty list and nothing to place has nothing in its hands.
LEMMA NothingListed ==
    ASSUME NEW z, z.pump.ready = {}, z.pump.at \notin {"assign", "dispatch"}
    PROVE  Pending(z) = {} /\ Listed(z) = {}
BY DEF Pending, Listed

LEMMA PumpEndMove ==
    ASSUME NEW s \in ProcRecord
    PROVE  PumpMove(s, PumpEnd(s), {})
<1> DEFINE z == PumpEnd(s)
           u == IF s.pump.again /\ ~s.finished THEN [Quiet EXCEPT !.at = "again"] ELSE Quiet
<1>1. u \in Pump /\ u.ready = {} /\ u.at \in {"idle", "again"} /\ (s.finished => u.at = "idle")
  <2>1. [Quiet EXCEPT !.at = "again"] \in Pump
    BY ConstantFacts DEF Pump
  <2>2. [Quiet EXCEPT !.at = "again"].ready = {} /\ [Quiet EXCEPT !.at = "again"].at = "again"
    BY DEF Quiet
  <2> QED
    BY <2>1, <2>2, ConstantFacts
<1>2. z = [s EXCEPT !.pump = u]
  BY DEF PumpEnd
<1> HIDE DEF u, z
<1>3. z \in ProcRecord
  BY <1>1, <1>2 DEF ProcRecord
<1>4. /\ z.claim = s.claim /\ z.revision = s.revision /\ z.ctl = s.ctl /\ z.ex = s.ex
      /\ z.phase = s.phase /\ z.mem = s.mem /\ z.finished = s.finished /\ z.pump = u
  BY <1>2 DEF ProcRecord
<1>5. Pending(z) = {} /\ Listed(z) = {}
  BY <1>1, <1>4, NothingListed
<1> QED
  BY <1>1, <1>3, <1>4, <1>5 DEF PumpMove, z

LEMMA RejectFacts ==
    ASSUME NEW s \in ProcRecord
    PROVE  /\ Reject(s) \in ProcRecord
           /\ \/ Reject(s).phase = s.phase
              \/ s.phase \in {"starting", "run"} /\ Reject(s).phase = "leaving"
           /\ Reject(s).phase \notin {"starting", "run"}
           /\ Reject(s).claim = s.claim /\ Reject(s).revision = s.revision /\ Reject(s).ctl = s.ctl
           /\ Reject(s).ex = s.ex /\ Reject(s).mem = s.mem /\ Reject(s).finished = s.finished
           /\ Reject(s).pump = s.pump /\ Reject(s).stopped = s.stopped
           /\ Reject(s).orphaned = s.orphaned
BY DEF Reject, ProcRecord

LEMMA PumpThrowMove ==
    ASSUME NEW s \in ProcRecord
    PROVE  /\ PumpMove(s, PumpThrow(s), {})
           /\ PumpThrow(s).mem = s.mem /\ PumpThrow(s).finished = s.finished
           /\ PumpThrow(s).pump = Quiet /\ PumpThrow(s).phase \notin {"starting", "run"}
<1> DEFINE y == [s EXCEPT !.pump = Quiet]
           z == PumpThrow(s)
<1>1. y \in ProcRecord
  BY ConstantFacts DEF ProcRecord
<1>2. /\ y.claim = s.claim /\ y.revision = s.revision /\ y.ctl = s.ctl /\ y.ex = s.ex
      /\ y.phase = s.phase /\ y.mem = s.mem /\ y.finished = s.finished /\ y.pump = Quiet
  BY DEF ProcRecord
<1>3. z = Reject(y)
  BY DEF PumpThrow
<1> HIDE DEF y, z
<1>4. /\ z \in ProcRecord /\ z.claim = s.claim /\ z.revision = s.revision /\ z.ctl = s.ctl /\ z.ex = s.ex
      /\ z.phase = s.phase \/ (s.phase \in {"starting", "run"} /\ z.phase = "leaving")
      /\ z.phase \notin {"starting", "run"}
      /\ z.mem = s.mem /\ z.finished = s.finished /\ z.pump = Quiet
  BY <1>1, <1>2, <1>3, RejectFacts
<1>5. Pending(z) = {} /\ Listed(z) = {}
  BY <1>4, ConstantFacts, NothingListed
<1> QED
  BY <1>4, <1>5, ConstantFacts DEF PumpMove, z

\* The pump fails t, which was idle or is one of the nodes it has taken a note of.
LEMMA FailNodeMove ==
    ASSUME NEW s \in ProcRecord, NEW at \in {"cascade", "unassigned", "deadlock"}, NEW t \in Tasks,
           NEW ready \in SUBSET Tasks, NEW L, ~s.finished,
           s.mem.node[t] # "completed" \/ t \in Listed(s),
           at = "unassigned" => ready \subseteq L,
           \A u \in ready : u \in Listed(s) \/ s.mem.node[u] = "idle"
    PROVE  PumpMove(s, FailNode(s, at, t, ready), L)
<1> DEFINE z == FailNode(s, at, t, ready)
           n == [s.mem.node EXCEPT ![t] = "failed"]
           u == [s.pump EXCEPT !.at = at, !.task = t, !.half = 1, !.ready = ready]
<1>1. z = [s EXCEPT !.mem = [s.mem EXCEPT !.node = n], !.pump = u]
  BY ProcParts DEF FailNode, ProcRecord, Job, Pump
<1>2. n \in [Tasks -> NodeStates] /\ \A v \in Tasks : n[v] = IF v = t THEN "failed" ELSE s.mem.node[v]
  BY ProcParts DEF NodeStates
<1>3. u \in Pump /\ u.at = at /\ u.task = t /\ u.ready = ready
  <2>1. s.pump \in Pump
    BY ProcParts
  <2>2. at \in {"idle", "again", "cascade", "assign", "unassigned", "dispatch", "deadlock", "finish"} /\ 1 \in 1..2
    OBVIOUS
  <2> QED
    BY <2>1, <2>2 DEF Pump
<1> HIDE DEF n, u, z
<1>4. [s.mem EXCEPT !.node = n] \in Job
  BY <1>2, ProcParts DEF Job
<1>5. z \in ProcRecord
  BY <1>1, <1>3, <1>4 DEF ProcRecord
<1>6. /\ z.claim = s.claim /\ z.revision = s.revision /\ z.ctl = s.ctl /\ z.ex = s.ex
      /\ z.phase = s.phase /\ z.finished = s.finished /\ z.pump = u
      /\ z.mem = [s.mem EXCEPT !.node = n]
  BY <1>1 DEF ProcRecord
<1>7. z.mem.node = n /\ z.mem.task = s.mem.task /\ z.mem.retry = s.mem.retry /\ z.mem.status = s.mem.status
  BY <1>6, ProcParts DEF Job
<1>8. \A v \in Pending(z) : v \in L
  BY <1>3, <1>6 DEF Pending
<1>9. \A v \in Listed(z) : v \in Listed(s) \/ s.mem.node[v] = "idle"
  BY <1>3, <1>6 DEF Pending, Listed
<1> QED
  BY <1>2, <1>3, <1>5, <1>6, <1>7, <1>8, <1>9 DEF PumpMove, z

\* What the jobs of a run that has timed out are left with.
LEMMA TimedOutFacts ==
    ASSUME NEW j \in Job
    PROVE  /\ TimedOutMem(j) \in Job
           /\ TimedOutMem(j).status = j.status /\ TimedOutMem(j).retry = j.retry
           /\ \A t \in Tasks :
                 /\ \/ TimedOutMem(j).node[t] = j.node[t]
                    \/ TimedOutMem(j).node[t] = "failed" /\ j.node[t] # "completed"
                 /\ TimedOutMem(j).task[t] = j.task[t] \/ TimedOutMem(j).task[t] = "failed"
<1> DEFINE n == [t \in Tasks |-> IF j.node[t] \in {"completed", "failed", "orphaned"} THEN j.node[t] ELSE "failed"]
           k == [t \in Tasks |-> IF j.task[t] \in {"completed", "failed"} THEN j.task[t] ELSE "failed"]
<1>1. TimedOutMem(j) = [j EXCEPT !.node = n, !.task = k]
  BY DEF TimedOutMem, Job
<1>2. n \in [Tasks -> NodeStates] /\ k \in [Tasks -> TaskStates]
  BY DEF Job, NodeStates, TaskStates
<1>3. \A t \in Tasks : /\ n[t] = j.node[t] \/ (n[t] = "failed" /\ j.node[t] # "completed")
                       /\ k[t] = j.task[t] \/ k[t] = "failed"
  OBVIOUS
<1> HIDE DEF n, k
<1> QED
  BY <1>1, <1>2, <1>3 DEF Job

LEMMA FinishJobMove ==
    ASSUME NEW s \in ProcRecord, NEW wanted \in {"completed", "failed", "cancelled"},
           wanted = "completed" => \A t \in Tasks : s.mem.node[t] \in {"completed", "cancelled"}
    PROVE  PumpMove(s, FinishJob(s, wanted), {})
<1> DEFINE z == FinishJob(s, wanted)
           final == FinalStatus(s, wanted)
           j == IF s.timedOut THEN TimedOutMem(s.mem) ELSE s.mem
           y == [s EXCEPT !.mem = j, !.finished = TRUE]
           u == [Quiet EXCEPT !.at = "finish"]
<1>1. CASE s.finished
  BY <1>1, PumpEndMove DEF FinishJob
<1>2. final \in {"completed", "failed", "cancelled"} /\ (final = "completed" => wanted = "completed" /\ ~s.timedOut)
  BY DEF FinalStatus
<1>3. /\ j \in Job /\ j.status = s.mem.status /\ j.retry = s.mem.retry
      /\ \A t \in Tasks : /\ j.node[t] = s.mem.node[t] \/ (j.node[t] = "failed" /\ s.mem.node[t] # "completed")
                          /\ j.task[t] = s.mem.task[t] \/ j.task[t] = "failed"
      /\ ~s.timedOut => j = s.mem
  BY ProcParts, TimedOutFacts
<1>4. u \in Pump /\ u.ready = {} /\ u.at = "finish"
  BY ConstantFacts DEF Pump
<1>5. z = IF s.finished THEN PumpEnd(s)
          ELSE IF CanJob(j.status, final) THEN [y EXCEPT !.mem.status = final, !.pump = u] ELSE PumpThrow(y)
  BY DEF FinishJob
<1> HIDE DEF final, j, u, z
<1>6. /\ y \in ProcRecord /\ y.mem = j /\ y.finished = TRUE
      /\ y.claim = s.claim /\ y.revision = s.revision /\ y.ctl = s.ctl /\ y.ex = s.ex /\ y.phase = s.phase
  BY <1>3 DEF ProcRecord
<1> HIDE DEF y
<1>7. CASE ~s.finished /\ CanJob(j.status, final)
  <2> DEFINE m == [j EXCEPT !.status = final]
  <2>1. z = [y EXCEPT !.mem = m, !.pump = u]
    BY <1>5, <1>6, <1>7 DEF ProcRecord
  <2>2. m \in Job /\ m.status = final /\ m.node = j.node /\ m.task = j.task /\ m.retry = j.retry
    BY <1>2, <1>3 DEF Job, JobStates
  <2> HIDE DEF m
  <2>3. /\ z \in ProcRecord /\ z.mem = m /\ z.pump = u /\ z.finished
        /\ z.claim = s.claim /\ z.revision = s.revision /\ z.ctl = s.ctl /\ z.ex = s.ex /\ z.phase = s.phase
    BY <2>1, <2>2, <1>4, <1>6 DEF ProcRecord
  <2>4. Whole(m)
    BY <2>2, <1>2, <1>3 DEF Whole
  <2>5. Pending(z) = {} /\ Listed(z) = {}
    BY <2>3, <1>4, NothingListed
  <2> QED
    BY <2>2, <2>3, <2>4, <2>5, <1>3, <1>4, <1>7 DEF PumpMove, z
<1>8. CASE ~s.finished /\ ~CanJob(j.status, final)
  <2>1. z = PumpThrow(y)
    BY <1>5, <1>8
  <2>2. PumpMove(y, z, {}) /\ z.mem = j /\ z.finished /\ z.pump = Quiet
    BY <2>1, <1>6, PumpThrowMove
  <2>3. Pending(z) = {} /\ Listed(z) = {}
    BY <2>2, ConstantFacts, NothingListed
  <2>4. /\ z \in ProcRecord
        /\ z.claim = s.claim /\ z.revision = s.revision /\ z.ctl = s.ctl /\ z.ex = s.ex
        /\ z.phase = s.phase \/ (s.phase \in {"starting", "run"} /\ z.phase = "leaving")
    BY <2>2, <1>6 DEF PumpMove
  <2> QED
    BY <2>2, <2>3, <2>4, <1>3, <1>8, ConstantFacts DEF PumpMove, z
<1> QED
  BY <1>1, <1>7, <1>8

LEMMA MoveMore ==
    ASSUME NEW s, NEW z, NEW L, PumpMove(s, z, {})
    PROVE  PumpMove(s, z, L)
BY DEF PumpMove

LEMMA DeadlockedMove ==
    ASSUME NEW s \in ProcRecord, NEW dead \in SUBSET Tasks, ~s.finished,
           \A u \in dead : u \in Listed(s) \/ s.mem.node[u] = "idle"
    PROVE  PumpMove(s, Deadlocked(s, dead), {})
<1>1. CASE dead = {}
  BY <1>1, FinishJobMove DEF Deadlocked
<1>2. CASE dead # {}
  <2> DEFINE t == First(dead)
  <2>1. t \in dead
    BY <1>2, FirstIn
  <2> HIDE DEF t
  <2>2. PumpMove(s, FailNode(s, "deadlock", t, dead \ {t}), {})
    BY <2>1, FailNodeMove
  <2> QED
    BY <1>2, <2>2 DEF Deadlocked, t
<1> QED
  BY <1>1, <1>2

LEMMA CheckTerminationMove ==
    ASSUME NEW s \in ProcRecord
    PROVE  PumpMove(s, CheckTermination(s), {})
<1> DEFINE wanted == IF InState(s, {"failed", "orphaned"}) # {} THEN "failed" ELSE "completed"
<1>1. CASE Active(s) # {} \/ InState(s, {"running"}) # {} \/ s.finished
  BY <1>1, PumpEndMove DEF CheckTermination
<1>2. CASE ~(Active(s) # {} \/ InState(s, {"running"}) # {} \/ s.finished) /\ AllFinished(s)
  <2>1. ASSUME wanted = "completed", NEW t \in Tasks
        PROVE  s.mem.node[t] \in {"completed", "cancelled"}
    <3>1. InState(s, {"failed", "orphaned"}) = {} /\ InState(s, {"idle", "running"}) = {}
      BY <1>2, <2>1 DEF AllFinished
    <3>2. s.mem.node[t] \in NodeStates
      BY ProcParts
    <3> QED
      BY <3>1, <3>2 DEF InState, NodeStates
  <2>2. PumpMove(s, FinishJob(s, wanted), {})
    BY <2>1, FinishJobMove
  <2> QED
    BY <1>2, <2>2 DEF CheckTermination
<1>3. CASE /\ ~(Active(s) # {} \/ InState(s, {"running"}) # {} \/ s.finished) /\ ~AllFinished(s)
           /\ s.pump.ready = {}
  <2>1. PumpMove(s, Deadlocked(s, InState(s, {"idle"})), {})
    BY <1>3, DeadlockedMove DEF InState
  <2> QED
    BY <1>3, <2>1 DEF CheckTermination
<1>4. CASE /\ ~(Active(s) # {} \/ InState(s, {"running"}) # {} \/ s.finished) /\ ~AllFinished(s)
           /\ s.pump.ready # {}
  BY <1>4, PumpEndMove DEF CheckTermination
<1> QED
  BY <1>1, <1>2, <1>3, <1>4

LEMMA DispatchingMove ==
    ASSUME NEW s \in ProcRecord
    PROVE  PumpMove(s, Dispatching(s), s.pump.ready)
<1> DEFINE t == First(s.pump.ready)
           z == Dispatching(s)
           stops == s.pump.paused \/ Cardinality(Active(s)) >= Limit \/ s.pump.ready = {} \/ s.finished
           a == [s.active EXCEPT ![t] = s.mem.retry[t] + 1]
           u == [s.pump EXCEPT !.at = "assign", !.task = t, !.ready = s.pump.ready \ {t}]
<1>1. CASE stops
  BY <1>1, CheckTerminationMove, MoveMore DEF Dispatching
<1>2. CASE ~stops
  <2>1. t \in s.pump.ready /\ t \in Tasks /\ ~s.finished
    BY <1>2, FirstIn, ProcParts
  <2>2. z = [s EXCEPT !.active = a, !.pump = u]
    BY <1>2, ProcParts DEF Dispatching, ProcRecord, Pump
  <2> HIDE DEF t, z, stops
  <2>3. a \in [Tasks -> 0..RetryBound + 2]
    <3>1. s.mem.retry[t] + 1 \in 0..RetryBound + 2
      <4>1. s.mem.retry[t] \in 0..RetryBound + 1
        BY <2>1, ProcParts
      <4> QED
        BY <4>1, ConstantFacts
    <3> QED
      BY <3>1, ProcParts
  <2>4. u \in Pump /\ u.at = "assign" /\ u.task = t /\ u.ready = s.pump.ready \ {t}
    <3>1. s.pump \in Pump
      BY ProcParts
    <3> QED
      BY <3>1, <2>1 DEF Pump
  <2> HIDE DEF a, u
  <2>5. /\ z \in ProcRecord /\ z.claim = s.claim /\ z.revision = s.revision /\ z.ctl = s.ctl /\ z.ex = s.ex
        /\ z.phase = s.phase /\ z.mem = s.mem /\ z.finished = s.finished /\ z.pump = u
    BY <2>2, <2>3, <2>4 DEF ProcRecord
  <2>6. \A v \in Listed(z) : v \in s.pump.ready
    BY <2>1, <2>4, <2>5 DEF Listed, Pending
  <2> QED
    BY <2>1, <2>4, <2>5, <2>6 DEF PumpMove, Listed, z
<1> QED
  BY <1>1, <1>2

LEMMA CascadeMove ==
    ASSUME NEW s \in ProcRecord, ~s.finished, s.pump.at \in {"idle", "cascade"}
    PROVE  PumpMove(s, Cascade(s), {})
<1> DEFINE blocked == {t \in InState(s, {"idle"}) : HasFailedDependency(s.mem, t)}
           R == {t \in InState(s, {"idle"}) : DependenciesSatisfied(s.mem, t)}
           u == [s.pump EXCEPT !.paused = (s.mem.status = "paused"), !.ready = R]
           y == [s EXCEPT !.pump = u]
           z == Dispatching(y)
<1>0. Cascade(s) = IF blocked # {} THEN FailNode(s, "cascade", First(blocked), {}) ELSE z
  BY ProcParts DEF Cascade, ProcRecord, Pump
<1>a. \A t \in InState(s, {"idle"}) : t \in Tasks /\ s.mem.node[t] = "idle"
  BY DEF InState
<1>1. CASE blocked # {}
  <2> DEFINE t == First(blocked)
  <2>1. t \in blocked
    BY <1>1, FirstIn
  <2>2. t \in Tasks /\ s.mem.node[t] = "idle"
    BY <2>1, <1>a
  <2> HIDE DEF t
  <2>3. PumpMove(s, FailNode(s, "cascade", t, {}), {})
    BY <2>2, FailNodeMove
  <2> QED
    BY <1>0, <1>1, <2>3 DEF t
<1>2. CASE blocked = {}
  <2>1. R \subseteq Tasks /\ \A t \in R : s.mem.node[t] = "idle" /\ DependenciesSatisfied(s.mem, t)
    BY <1>a
  <2> HIDE DEF R
  <2>2. u \in Pump /\ u.at = s.pump.at /\ u.ready = R
    <3>1. s.pump \in Pump
      BY ProcParts
    <3> QED
      BY <3>1, <2>1 DEF Pump
  <2> HIDE DEF u
  <2>3. /\ y \in ProcRecord /\ y.claim = s.claim /\ y.revision = s.revision /\ y.ctl = s.ctl /\ y.ex = s.ex
        /\ y.phase = s.phase /\ y.mem = s.mem /\ y.finished = s.finished /\ y.pump = u
    BY <2>2 DEF ProcRecord
  <2>4. PumpMove(y, z, R)
    BY <2>2, <2>3, DispatchingMove
  <2>5. Listed(y) = R
    BY <2>1, <2>2, <2>3 DEF Listed, Pending
  <2>6. \A t \in Listed(y) : s.mem.node[t] = "idle"
    BY <2>1, <2>5
  <2> HIDE DEF y, z, blocked
  <2>7. PumpMove(s, z, {})
    BY <2>1, <2>3, <2>4, <2>5, <2>6 DEF PumpMove
  <2> QED
    BY <1>0, <1>2, <2>7
<1> QED
  BY <1>1, <1>2

LEMMA DoPumpMove ==
    ASSUME NEW s \in ProcRecord, s.pump.at \in {"idle", "cascade"}
    PROVE  PumpMove(s, DoPump(s), {})
<1>1. CASE s.finished
  BY <1>1, PumpEndMove DEF DoPump
<1>2. CASE ~s.finished /\ (s.aborted \/ s.mem.status = "cancelled")
  BY <1>2, FinishJobMove DEF DoPump
<1>3. CASE ~s.finished /\ ~(s.aborted \/ s.mem.status = "cancelled")
  BY <1>3, CascadeMove DEF DoPump
<1> QED
  BY <1>1, <1>2, <1>3

\* The pump is only asked to look again.
Nudged(s, z) ==
    /\ z \in ProcRecord
    /\ z.claim = s.claim /\ z.revision = s.revision /\ z.ctl = s.ctl /\ z.ex = s.ex
    /\ z.phase = s.phase /\ z.mem = s.mem /\ z.finished = s.finished
    /\ z.pump.at = s.pump.at /\ z.pump.task = s.pump.task /\ z.pump.ready = s.pump.ready

LEMMA WakePumpMove ==
    ASSUME NEW s \in ProcRecord
    PROVE  PumpMove(s, WakePump(s), {}) \/ Nudged(s, WakePump(s))
<1>1. CASE s.finished
  BY <1>1 DEF WakePump, Nudged
<1>2. CASE ~s.finished /\ s.pump.at = "idle"
  BY <1>2, DoPumpMove DEF WakePump
<1>3. CASE ~s.finished /\ s.pump.at # "idle"
  <2> DEFINE u == [s.pump EXCEPT !.again = TRUE]
             z == [s EXCEPT !.pump = u]
  <2>1. WakePump(s) = z
    BY <1>3 DEF WakePump, ProcRecord
  <2>2. u \in Pump /\ u.at = s.pump.at /\ u.task = s.pump.task /\ u.ready = s.pump.ready
    <3>1. s.pump \in Pump
      BY ProcParts
    <3> QED
      BY <3>1 DEF Pump
  <2> HIDE DEF u
  <2>3. Nudged(s, z)
    BY <2>2 DEF Nudged, ProcRecord
  <2> QED
    BY <2>1, <2>3
<1> QED
  BY <1>1, <1>2, <1>3

LEMMA NudgedKeeps ==
    ASSUME NEW s \in ProcRecord, NEW z, Nudged(s, z)
    PROVE  /\ RestOK(s) => RestOK(z)
           /\ Counts(s) => Counts(z)
           /\ WriterOK(s) => WriterOK(z) /\ Keeps(s.mem, z.mem)
<1>1. Pending(z) = Pending(s) /\ Listed(z) = Listed(s)
  BY DEF Nudged, Pending, Listed
<1>2. RestOK(s) => RestOK(z)
  BY <1>1 DEF RestOK, Nudged
<1>3. Counts(s) => Counts(z)
  BY <1>1 DEF Counts, Nudged
<1>4. WriterOK(s) => WriterOK(z) /\ Keeps(s.mem, z.mem)
  BY <1>1 DEF WriterOK, Nudged, Keeps
<1> QED
  BY <1>2, <1>3, <1>4

\* What the pump does keeps a process in order.
LEMMA MoveKeeps ==
    ASSUME NEW s \in ProcRecord, NEW z, NEW L, PumpMove(s, z, L), L \subseteq Pending(s), deps \in Graphs
    PROVE  /\ RestOK(s) /\ s.phase \in {"run", "leaving", "done"} => RestOK(z)
           /\ RestOK(s) /\ Counts(s) => Counts(z)
           /\ WriterOK(s) => WriterOK(z) /\ Keeps(s.mem, z.mem)
<1>0. /\ z \in ProcRecord
      /\ \A t \in Tasks : s.mem.retry[t] \in 0..RetryBound + 1 /\ z.mem.node[t] \in NodeStates
      /\ Pending(s) \subseteq Tasks /\ Pending(z) \subseteq Tasks
      /\ Listed(z) \subseteq Tasks /\ Listed(s) \subseteq Tasks
      /\ Pending(s) \subseteq Listed(s) /\ Pending(z) \subseteq Listed(z)
  BY ProcParts DEF PumpMove, Pending, Listed
<1>1. ASSUME RestOK(s), s.phase \in {"run", "leaving", "done"} PROVE RestOK(z)
  <2>1. z.phase \in {"run", "leaving", "done"} /\ (z.claim <=> z.phase \in {"starting", "run", "leaving"})
    BY <1>1 DEF RestOK, PumpMove
  <2>2. Exhausted(z.mem)
    BY <1>1, <1>0 DEF RestOK, Exhausted, PumpMove
  <2>3. \A t \in Pending(z) : z.mem.retry[t] # RetryBound + 1
    BY <1>1, <1>0 DEF RestOK, Exhausted, PumpMove
  <2> QED
    BY <2>1, <2>2, <2>3 DEF RestOK, PumpMove
<1>2. ASSUME RestOK(s), Counts(s) PROVE Counts(z)
  <2>1. Knows(z.mem)
    BY <1>2, <1>0 DEF Counts, Knows, PumpMove
  <2>2. ASSUME NEW t \in Pending(z) PROVE starts[<<t, z.mem.retry[t]>>] = 0
    BY <1>2, <1>0, <2>2 DEF Counts, Knows, PumpMove
  <2> QED
    BY <2>1, <2>2 DEF Counts, PumpMove
<1>3. ASSUME WriterOK(s) PROVE WriterOK(z) /\ Keeps(s.mem, z.mem)
  <2>1. Keeps(s.mem, z.mem)
    BY <1>3, <1>0 DEF WriterOK, Keeps, PumpMove
  <2>2. Agrees(z.mem)
    BY <1>3, <1>0, <2>1 DEF WriterOK, Keeps, PumpMove, Agrees
  <2>3. Whole(z.mem) /\ (z.mem.status = "completed" => z.finished)
    <3>1. CASE z.finished /\ Whole(z.mem)
      BY <3>1
    <3>2. CASE z.mem.status = s.mem.status /\ s.mem.status = "completed"
      <4>1. s.finished /\ Whole(s.mem)
        BY <1>3, <3>2 DEF WriterOK
      <4>2. z.finished /\ z.mem = s.mem
        BY <4>1 DEF PumpMove
      <4> QED
        BY <4>1, <4>2
    <3>3. CASE z.mem.status = s.mem.status /\ s.mem.status # "completed"
      BY <3>3 DEF Whole
    <3> QED
      BY <3>1, <3>2, <3>3 DEF PumpMove
  <2>4. \A t \in Pending(z) : \A d \in deps[t] : z.mem.node[d] = "completed"
    <3>1. ASSUME NEW t \in Pending(z), NEW d \in deps[t] PROVE z.mem.node[d] = "completed"
      <4>1. d \in Tasks
        BY <1>0, <3>1, DepsFacts
      <4>2. s.mem.node[d] = "completed"
        BY <1>3, <1>0, <3>1 DEF WriterOK, PumpMove, DependenciesSatisfied
      <4> QED
        BY <2>1, <4>1, <4>2 DEF Keeps
    <3> QED
      BY <3>1
  <2>5. \A t \in Listed(z) : /\ z.mem.node[t] # "completed"
                             /\ \A e \in Attempts : e[1] = t => z.ex[e].at # "run"
    BY <1>3, <1>0 DEF WriterOK, PumpMove
  <2>6. \A e \in Attempts :
          /\ z.ex[e].at = "run" => z.mem.node[e[1]] # "idle"
          /\ z.ex[e].at \in {"run", "retry", "fail", "cancel"} => z.mem.node[e[1]] # "completed"
    <3>1. \A e \in Attempts : e[1] \in Tasks
      BY DEF Attempts
    <3> QED
      BY <1>3, <3>1 DEF WriterOK, PumpMove
  <2> QED
    BY <2>1, <2>2, <2>3, <2>4, <2>5, <2>6 DEF WriterOK
<1> QED
  BY <1>1, <1>2, <1>3

-----------------------------------------------------------------------------
(* The attempts between two awaits *)

\* z is what a process that runs the job, or has run it, makes of s.
Frame(s, z) ==
    /\ z \in ProcRecord /\ RestOK(z)
    /\ z.claim = s.claim /\ z.revision = s.revision
    /\ s.phase \in {"starting", "run", "leaving", "done"}
    /\ z.phase = s.phase \/ (s.phase \in {"starting", "run"} /\ z.phase \in {"run", "leaving"})
    /\ \A e \in Attempts : /\ z.ex[e].at = "run" => s.ex[e].at = "run"
                           /\ z.ex[e].at # "none" => s.ex[e].at # "none"

\* ... and it does not forget an attempt that has been started.
Steps(s, z) ==
    /\ Frame(s, z)
    /\ ~Overlap(s) /\ Counts(s) /\ z.phase \in {"starting", "run"} => Counts(z)

\* ... nor undoes what is completed.
Progress(s, z) ==
    /\ Steps(s, z)
    /\ Tidy(s) /\ Single(s) /\ WriterOK(s) /\ z.phase \in {"starting", "run"}
          => WriterOK(z) /\ Keeps(s.mem, z.mem)

\* Only a process that runs the job, or has run it, has an attempt under way.
LEMMA Attempting ==
    ASSUME NEW s \in ProcRecord, RestOK(s), NEW e \in Attempts, s.ex[e].at # "none"
    PROVE  s.phase \in {"run", "leaving", "done"}
BY DEF RestOK, ProcRecord

\* What a pump makes of s is what the process makes of it.
LEMMA MoveProgress ==
    ASSUME NEW s \in ProcRecord, RestOK(s), NEW z, NEW L, PumpMove(s, z, L), L \subseteq Pending(s),
           deps \in Graphs, s.phase \in {"run", "leaving", "done"}
    PROVE  /\ Progress(s, z)
           /\ Counts(s) => Counts(z)
           /\ WriterOK(s) => WriterOK(z) /\ Keeps(s.mem, z.mem)
<1>1. /\ RestOK(z) /\ (Counts(s) => Counts(z)) /\ (WriterOK(s) => WriterOK(z) /\ Keeps(s.mem, z.mem))
  BY MoveKeeps
<1>2. Frame(s, z)
  BY <1>1 DEF Frame, PumpMove
<1> QED
  BY <1>1, <1>2 DEF Progress, Steps

\* A run that is rejected is over: its copy of the job will not be written by it.
LEMMA RejectProgress ==
    ASSUME NEW s, NEW y \in ProcRecord, Frame(s, y)
    PROVE  Progress(s, Reject(y))
<1> DEFINE z == Reject(y)
<1>1. /\ z \in ProcRecord
      /\ z.phase = y.phase \/ (y.phase \in {"starting", "run"} /\ z.phase = "leaving")
      /\ z.phase \notin {"starting", "run"}
      /\ z.claim = y.claim /\ z.revision = y.revision /\ z.ctl = y.ctl
      /\ z.ex = y.ex /\ z.mem = y.mem /\ z.finished = y.finished /\ z.pump = y.pump
  BY RejectFacts
<1> HIDE DEF z
<1>2. Pending(z) = Pending(y)
  BY <1>1 DEF Pending
<1>3. RestOK(z)
  BY <1>1, <1>2 DEF RestOK, Frame
<1>4. Frame(s, z)
  BY <1>1, <1>3 DEF Frame
<1> QED
  BY <1>1, <1>4 DEF Progress, Steps, z

LEMMA LeaveProgress ==
    ASSUME NEW s \in ProcRecord, RestOK(s), deps \in Graphs, NEW e \in Attempts,
           s.phase \in {"run", "leaving", "done"}
    PROVE  Progress(s, Leave(s, e))
<1> DEFINE x == [s.ex EXCEPT ![e] = NotStarted]
           a == [s.active EXCEPT ![e[1]] = 0]
           y == [s EXCEPT !.ex = x, !.active = a, !.stopped = s.stopped \ {e}]
           z == WakePump(y)
<1>1. Leave(s, e) = z
  BY DEF Leave, ProcRecord
<1>2. /\ x \in [Attempts -> Attempt]
      /\ \A f \in Attempts : x[f].at # "none" => f # e /\ x[f] = s.ex[f]
  BY ProcParts, ConstantFacts
<1>3. a \in [Tasks -> 0..RetryBound + 2]
  BY ProcParts, ConstantFacts
<1> HIDE DEF x, a
<1>4. /\ y \in ProcRecord
      /\ y.claim = s.claim /\ y.revision = s.revision /\ y.ctl = s.ctl /\ y.ex = x
      /\ y.phase = s.phase /\ y.mem = s.mem /\ y.finished = s.finished /\ y.pump = s.pump
  BY <1>2, <1>3 DEF ProcRecord
<1> HIDE DEF y
<1>5. Pending(y) = Pending(s) /\ Listed(y) = Listed(s)
  BY <1>4 DEF Pending, Listed
<1>6. RestOK(y)
  BY <1>2, <1>4, <1>5 DEF RestOK
<1>7. Counts(s) => Counts(y)
  BY <1>4, <1>5 DEF Counts
<1>8. WriterOK(s) => WriterOK(y)
  BY <1>2, <1>4, <1>5 DEF WriterOK
<1>9. PumpMove(y, z, {}) \/ Nudged(y, z)
  BY <1>4, WakePumpMove
<1> HIDE DEF z
<1>10. /\ RestOK(z) /\ (Counts(y) => Counts(z)) /\ (WriterOK(y) => WriterOK(z) /\ Keeps(y.mem, z.mem))
  <2>1. CASE PumpMove(y, z, {})
    BY <2>1, <1>4, <1>6, MoveKeeps
  <2>2. CASE Nudged(y, z)
    BY <2>2, <1>4, <1>6, NudgedKeeps
  <2> QED
    BY <1>9, <2>1, <2>2
<1>11. /\ z \in ProcRecord /\ z.ex = x /\ z.claim = s.claim /\ z.revision = s.revision
       /\ z.phase = s.phase \/ (s.phase \in {"starting", "run"} /\ z.phase = "leaving")
  BY <1>4, <1>9 DEF PumpMove, Nudged
<1>12. Frame(s, z)
  BY <1>2, <1>10, <1>11 DEF Frame
<1> QED
  BY <1>1, <1>4, <1>7, <1>8, <1>10, <1>12 DEF Progress, Steps

LEMMA FirstChangeFacts ==
    ASSUME NEW j \in Job, NEW t \in Tasks, NEW branch \in {"complete", "retry", "fail", "cancel"},
           FirstAllowed(j, t, branch), branch = "retry" => j.retry[t] < TaskRetries[t]
    PROVE  LET k == FirstChange(j, t, branch) IN
           /\ k \in Job /\ k.status = j.status
           /\ \A u \in Tasks \ {t} : k.node[u] = j.node[u] /\ k.task[u] = j.task[u] /\ k.retry[u] = j.retry[u]
           /\ branch = "complete" => k.node[t] = "completed" /\ k.retry[t] = j.retry[t]
           /\ branch = "fail" => k.node[t] = "failed" /\ k.task[t] = "failed" /\ k.retry[t] = j.retry[t]
           /\ branch = "cancel" => k.node[t] = j.node[t] /\ k.task[t] = "cancelled" /\ k.retry[t] = j.retry[t]
           /\ branch = "retry" => /\ k.node[t] = "idle" /\ k.task[t] = j.task[t]
                                  /\ k.retry[t] = j.retry[t] + 1 /\ k.retry[t] \in 0..RetryBound
           /\ Exhausted(j) => Exhausted(k)
<1> DEFINE k == FirstChange(j, t, branch)
<1>0. /\ j.node \in [Tasks -> NodeStates] /\ j.task \in [Tasks -> TaskStates]
      /\ j.retry \in [Tasks -> 0..RetryBound + 1] /\ j.status \in JobStates
  BY DEF Job
<1>1. CASE branch = "complete"
  <2> DEFINE n == [j.node EXCEPT ![t] = "completed"]
             w == [j.task EXCEPT ![t] = "completed"]
  <2>1. k = [j EXCEPT !.node = n, !.task = w]
    BY <1>1 DEF FirstChange, Job
  <2>2. n \in [Tasks -> NodeStates] /\ w \in [Tasks -> TaskStates]
    BY <1>0 DEF NodeStates, TaskStates
  <2>3. /\ n[t] = "completed" /\ w[t] = "completed"
        /\ \A u \in Tasks \ {t} : n[u] = j.node[u] /\ w[u] = j.task[u]
    BY <1>0
  <2>4. j.node[t] # "failed"
    BY <1>1 DEF FirstAllowed, CanNode, Terminal
  <2> HIDE DEF n, w
  <2>5. k \in Job /\ k.node = n /\ k.task = w /\ k.retry = j.retry /\ k.status = j.status
    BY <2>1, <2>2 DEF Job
  <2> HIDE DEF k
  <2>6. Exhausted(j) => Exhausted(k)
    BY <2>3, <2>4, <2>5 DEF Exhausted
  <2> QED
    BY <1>1, <2>3, <2>5, <2>6 DEF k
<1>2. CASE branch = "fail"
  <2> DEFINE n == [j.node EXCEPT ![t] = "failed"]
             w == [j.task EXCEPT ![t] = "failed"]
  <2>1. k = [j EXCEPT !.node = n, !.task = w]
    BY <1>2 DEF FirstChange, Job
  <2>2. n \in [Tasks -> NodeStates] /\ w \in [Tasks -> TaskStates]
    BY <1>0 DEF NodeStates, TaskStates
  <2>3. /\ n[t] = "failed" /\ w[t] = "failed"
        /\ \A u \in Tasks \ {t} : n[u] = j.node[u] /\ w[u] = j.task[u]
    BY <1>0
  <2> HIDE DEF n, w
  <2>5. k \in Job /\ k.node = n /\ k.task = w /\ k.retry = j.retry /\ k.status = j.status
    BY <2>1, <2>2 DEF Job
  <2> HIDE DEF k
  <2>6. Exhausted(j) => Exhausted(k)
    BY <2>3, <2>5 DEF Exhausted
  <2> QED
    BY <1>2, <2>3, <2>5, <2>6 DEF k
<1>3. CASE branch = "cancel"
  <2> DEFINE w == [j.task EXCEPT ![t] = "cancelled"]
  <2>1. k = [j EXCEPT !.task = w]
    BY <1>3 DEF FirstChange, Job
  <2>2. w \in [Tasks -> TaskStates] /\ w[t] = "cancelled" /\ \A u \in Tasks \ {t} : w[u] = j.task[u]
    BY <1>0 DEF TaskStates
  <2> HIDE DEF w
  <2>5. k \in Job /\ k.node = j.node /\ k.task = w /\ k.retry = j.retry /\ k.status = j.status
    BY <2>1, <2>2 DEF Job
  <2> HIDE DEF k
  <2>6. Exhausted(j) => Exhausted(k)
    BY <2>5 DEF Exhausted
  <2> QED
    BY <1>3, <2>2, <2>5, <2>6 DEF k
<1>4. CASE branch = "retry"
  <2> DEFINE n == [j.node EXCEPT ![t] = "idle"]
             c == [j.retry EXCEPT ![t] = j.retry[t] + 1]
  <2>1. k = [j EXCEPT !.node = n, !.retry = c]
    BY <1>4, <1>0 DEF FirstChange, Job
  <2>2. j.retry[t] + 1 \in 0..RetryBound
    <3>1. j.retry[t] \in 0..RetryBound + 1 /\ TaskRetries[t] \in 0..RetryBound /\ j.retry[t] < TaskRetries[t]
      BY <1>0, <1>4, ConstantFacts
    <3> QED
      BY <3>1, ConstantFacts
  <2>3. n \in [Tasks -> NodeStates] /\ c \in [Tasks -> 0..RetryBound + 1]
    <3>1. j.retry[t] + 1 \in 0..RetryBound + 1
      BY <2>2, ConstantFacts
    <3> QED
      BY <3>1, <1>0 DEF NodeStates
  <2>4. /\ n[t] = "idle" /\ c[t] = j.retry[t] + 1
        /\ \A u \in Tasks \ {t} : n[u] = j.node[u] /\ c[u] = j.retry[u]
    BY <1>0
  <2> HIDE DEF n, c
  <2>5. k \in Job /\ k.node = n /\ k.task = j.task /\ k.retry = c /\ k.status = j.status
    BY <2>1, <2>3 DEF Job
  <2> HIDE DEF k
  <2>6. Exhausted(j) => Exhausted(k)
    BY <2>2, <2>4, <2>5, ConstantFacts DEF Exhausted
  <2> QED
    BY <1>4, <2>2, <2>4, <2>5, <2>6 DEF k
<1> QED
  BY <1>1, <1>2, <1>3, <1>4

\* The first change of a branch: an attempt that counts up the retries of its task is
\* not being dispatched, and the node is not completed by anybody else.
LEMMA EnterProgress ==
    ASSUME NEW s \in ProcRecord, RestOK(s), deps \in Graphs, NEW e \in Attempts, s.ex[e].at # "none",
           NEW branch \in {"complete", "retry", "fail", "cancel"}, NEW caught \in BOOLEAN,
           FirstAllowed(s.mem, e[1], branch), branch = "retry" => s.mem.retry[e[1]] < TaskRetries[e[1]]
    PROVE  /\ Steps(s, Enter(s, e, branch, caught))
           /\ s.ex[e].at # "complete" /\ (branch = "complete" => s.ex[e].at = "run")
                 => Progress(s, Enter(s, e, branch, caught))
<1> DEFINE t == e[1]
           k == FirstChange(s.mem, t, branch)
           a == [at |-> branch, half |-> 1, caught |-> caught]
           x == [s.ex EXCEPT ![e] = a]
           z == Enter(s, e, branch, caught)
<1>0. t \in Tasks
  BY DEF Attempts
<1>1. z = [s EXCEPT !.mem = k, !.orphaned = s.orphaned \ {t}, !.ex = x]
  BY DEF Enter, ProcRecord
<1>2. /\ k \in Job /\ k.status = s.mem.status
      /\ \A u \in Tasks \ {t} : k.node[u] = s.mem.node[u] /\ k.task[u] = s.mem.task[u] /\ k.retry[u] = s.mem.retry[u]
      /\ branch = "complete" => k.node[t] = "completed" /\ k.retry[t] = s.mem.retry[t]
      /\ branch = "fail" => k.node[t] = "failed" /\ k.task[t] = "failed" /\ k.retry[t] = s.mem.retry[t]
      /\ branch = "cancel" => k.node[t] = s.mem.node[t] /\ k.task[t] = "cancelled" /\ k.retry[t] = s.mem.retry[t]
      /\ branch = "retry" => /\ k.node[t] = "idle" /\ k.task[t] = s.mem.task[t]
                             /\ k.retry[t] = s.mem.retry[t] + 1 /\ k.retry[t] \in 0..RetryBound
      /\ Exhausted(s.mem) => Exhausted(k)
  <2>1. s.mem \in Job
    BY ProcParts
  <2> QED
    BY <1>0, <2>1, FirstChangeFacts
<1>3. /\ x \in [Attempts -> Attempt] /\ x[e].at = branch
      /\ \A f \in Attempts \ {e} : x[f] = s.ex[f]
  <2>1. a \in Attempt /\ a.at = branch
    BY DEF Attempt
  <2> HIDE DEF a
  <2> QED
    BY <2>1, ProcParts
<1> HIDE DEF k, a, x, z
<1>4. /\ z \in ProcRecord
      /\ z.claim = s.claim /\ z.revision = s.revision /\ z.ctl = s.ctl /\ z.ex = x
      /\ z.phase = s.phase /\ z.mem = k /\ z.finished = s.finished /\ z.pump = s.pump
  BY <1>1, <1>2, <1>3 DEF ProcRecord
<1>5. Pending(z) = Pending(s) /\ Listed(z) = Listed(s) /\ Listed(s) \subseteq Tasks /\ Pending(s) \subseteq Listed(s)
  BY <1>4, ProcParts DEF Pending, Listed
<1>6. s.phase \in {"run", "leaving", "done"}
  BY Attempting
<1>7. RestOK(z)
  <2>1. \A u \in Pending(z) : z.mem.retry[u] # RetryBound + 1
    <3>1. ASSUME NEW u \in Pending(z) PROVE z.mem.retry[u] # RetryBound + 1
      <4>1. u \in Tasks /\ s.mem.retry[u] # RetryBound + 1
        BY <1>5 DEF RestOK
      <4>2. z.mem.retry[u] = s.mem.retry[u] \/ z.mem.retry[u] \in 0..RetryBound
        BY <4>1, <1>2, <1>4
      <4> QED
        BY <4>1, <4>2, ConstantFacts
    <3> QED
      BY <3>1
  <2>2. Exhausted(z.mem)
    BY <1>2, <1>4 DEF RestOK
  <2> QED
    BY <2>1, <2>2, <1>4, <1>6 DEF RestOK
<1>8. Frame(s, z)
  BY <1>3, <1>4, <1>6, <1>7 DEF Frame
<1>9. ASSUME ~Overlap(s), Counts(s) PROVE Counts(z)
  <2>0. \A u \in Tasks : s.mem.retry[u] \in 0..RetryBound + 1
    BY ProcParts
  <2>1. Knows(k)
    <3>1. ASSUME NEW u \in Tasks, NEW r \in 0..RetryBound + 1, starts[<<u, r>>] # 0
          PROVE  r < k.retry[u] \/ (r = k.retry[u] /\ k.node[u] # "idle")
      <4>1. r < s.mem.retry[u] \/ (r = s.mem.retry[u] /\ s.mem.node[u] # "idle")
        BY <1>9, <3>1 DEF Counts, Knows
      <4>2. CASE u # t
        BY <4>1, <4>2, <1>2
      <4>3. CASE u = t /\ branch = "retry"
        BY <4>1, <4>3, <1>2, <2>0, <1>0, ConstantFacts
      <4>4. CASE u = t /\ branch # "retry"
        BY <4>1, <4>4, <1>2
      <4> QED
        BY <4>2, <4>3, <4>4
    <3> QED
      BY <3>1 DEF Knows
  <2>2. ASSUME NEW u \in Pending(z) PROVE starts[<<u, k.retry[u]>>] = 0
    <3>1. u \in Tasks /\ starts[<<u, s.mem.retry[u]>>] = 0
      BY <1>5, <1>9 DEF Counts
    <3>2. CASE u = t /\ branch = "retry"
      <4>1. k.retry[t] \in 0..RetryBound + 1 /\ k.retry[t] = s.mem.retry[t] + 1
        BY <3>2, <1>2, ConstantFacts
      <4>2. ~(k.retry[t] < s.mem.retry[t]) /\ k.retry[t] # s.mem.retry[t]
        BY <4>1, <2>0, <1>0, ConstantFacts
      <4>3. starts[<<t, k.retry[t]>>] = 0
        BY <4>1, <4>2, <1>0, <1>9 DEF Counts, Knows
      <4> QED
        BY <4>3, <3>2
    <3>3. CASE u # t \/ branch # "retry"
      BY <3>1, <3>3, <1>2
    <3> QED
      BY <3>2, <3>3
  <2>3. s.pump.at = "dispatch" => k.node[s.pump.task] # "idle"
    <3>1. s.pump.at = "dispatch" => s.pump.task # t
      BY <1>9 DEF Overlap
    <3>2. s.pump.at = "dispatch" => s.mem.node[s.pump.task] # "idle"
      BY <1>9 DEF Counts
    <3>3. s.pump.task \in Tasks
      BY ProcParts
    <3> QED
      BY <3>1, <3>2, <3>3, <1>2
  <2> QED
    BY <2>1, <2>2, <2>3, <1>4 DEF Counts
<1>10. ASSUME s.ex[e].at # "complete", branch = "complete" => s.ex[e].at = "run",
              Tidy(s), Single(s), WriterOK(s)
       PROVE  WriterOK(z) /\ Keeps(s.mem, z.mem)
  <2>0. /\ \A f \in Attempts : f[1] \in Tasks
        /\ s.ex[e].at \in {"run", "retry", "fail", "cancel"}
    <3>1. s.ex[e] \in Attempt
      BY ProcParts
    <3> QED
      BY <3>1, <1>10 DEF Attempt, Attempts
  <2>1. s.mem.node[t] # "completed" /\ s.mem.task[t] # "completed"
    BY <1>0, <1>10, <2>0 DEF WriterOK, Agrees
  <2>2. Keeps(s.mem, k)
    BY <1>2, <2>1 DEF Keeps
  <2>3. Agrees(k)
    BY <1>2, <1>10, <2>1 DEF Agrees, WriterOK
  <2>4. ~s.finished
    BY <1>10 DEF Tidy, Straggling
  <2>5. k.status # "completed"
    BY <1>2, <1>10, <2>4 DEF WriterOK
  <2>6. \A u \in Pending(z) : \A d \in deps[u] : k.node[d] = "completed"
    <3>1. ASSUME NEW u \in Pending(z), NEW d \in deps[u] PROVE k.node[d] = "completed"
      <4>1. u \in Pending(s) /\ d \in Tasks
        BY <1>5, DepsFacts
      <4> QED
        BY <4>1, <2>2, <1>10 DEF WriterOK, Keeps
    <3> QED
      BY <3>1
  <2>7. ASSUME NEW u \in Listed(z)
        PROVE  /\ k.node[u] # "completed"
               /\ \A f \in Attempts : f[1] = u => x[f].at # "run"
    <3>1. /\ u \in Tasks /\ s.mem.node[u] # "completed"
          /\ \A f \in Attempts : f[1] = u => s.ex[f].at # "run"
      BY <1>5, <1>10 DEF WriterOK
    <3>2. u = t => branch # "complete"
      BY <3>1, <1>10
    <3>3. k.node[u] # "completed"
      BY <3>1, <3>2, <1>2
    <3>4. ASSUME NEW f \in Attempts, f[1] = u PROVE x[f].at # "run"
      BY <3>1, <3>4, <1>3
    <3> QED
      BY <3>3, <3>4
  <2>8. ASSUME NEW f \in Attempts
        PROVE  /\ x[f].at = "run" => k.node[f[1]] # "idle"
               /\ x[f].at \in {"run", "retry", "fail", "cancel"} => k.node[f[1]] # "completed"
    <3>1. CASE f = e
      BY <3>1, <1>2, <1>3, <2>1
    <3>2. CASE f # e /\ s.ex[f].at = "none"
      BY <3>2, <1>3
    <3>3. CASE f # e /\ s.ex[f].at # "none"
      <4>1. f[1] # t
        BY <3>3, <1>10 DEF Single
      <4>2. k.node[f[1]] = s.mem.node[f[1]] /\ x[f] = s.ex[f]
        BY <4>1, <3>3, <2>0, <1>2, <1>3
      <4> QED
        BY <4>2, <1>10 DEF WriterOK
    <3> QED
      BY <3>1, <3>2, <3>3
  <2> QED
    BY <2>2, <2>3, <2>5, <2>6, <2>7, <2>8, <1>4 DEF WriterOK, Whole
<1>11. Steps(s, z)
  BY <1>8, <1>9 DEF Steps
<1> QED
  BY <1>10, <1>11 DEF Progress, z

LEMMA BranchFacts ==
    ASSUME NEW s \in ProcRecord, NEW e \in Attempts, NEW outcome
    PROVE  /\ Branch(s, e, outcome) \in {"complete", "retry", "fail", "cancel"}
           /\ Branch(s, e, outcome) = "retry" => s.mem.retry[e[1]] < TaskRetries[e[1]]
           /\ Branch(s, e, outcome) = "complete" => outcome = "success"
BY DEF Branch, RetryOrFail

\* An assertion that throws leaves the node failed, or the record as it was.
LEMMA RefusedFacts ==
    ASSUME NEW s \in ProcRecord, RestOK(s), deps \in Graphs, NEW e \in Attempts, s.ex[e].at # "none", NEW branch
    PROVE  LET y == [s EXCEPT !.mem = Refused(@, e[1], branch), !.orphaned = @ \ {e[1]}] IN
           /\ y \in ProcRecord /\ RestOK(y)
           /\ y.claim = s.claim /\ y.revision = s.revision /\ y.ex = s.ex
           /\ y.phase = s.phase /\ y.finished = s.finished /\ y.pump = s.pump /\ y.ctl = s.ctl
           /\ Counts(s) => Counts(y)
           /\ Tidy(s) /\ WriterOK(s) /\ s.ex[e].at # "complete" => WriterOK(y) /\ Keeps(s.mem, y.mem)
<1> DEFINE t == e[1]
           n == [s.mem.node EXCEPT ![t] = "failed"]
           m == Refused(s.mem, t, branch)
           y == [s EXCEPT !.mem = m, !.orphaned = s.orphaned \ {t}]
<1>0. t \in Tasks /\ \A f \in Attempts : f[1] \in Tasks
  BY DEF Attempts
<1>1. /\ m \in Job /\ m.status = s.mem.status /\ m.task = s.mem.task /\ m.retry = s.mem.retry
      /\ \A u \in Tasks : m.node[u] = s.mem.node[u] \/ (u = t /\ m.node[u] = "failed")
  <2>1. n \in [Tasks -> NodeStates] /\ \A u \in Tasks : n[u] = IF u = t THEN "failed" ELSE s.mem.node[u]
    BY ProcParts DEF NodeStates
  <2>2. m = s.mem \/ m = [s.mem EXCEPT !.node = n]
    BY ProcParts DEF Refused, Job
  <2> HIDE DEF n, m
  <2>3. s.mem \in Job
    BY ProcParts
  <2> QED
    BY <2>1, <2>2, <2>3 DEF Job
<1> HIDE DEF m
<1>2. /\ y \in ProcRecord
      /\ y.claim = s.claim /\ y.revision = s.revision /\ y.ctl = s.ctl /\ y.ex = s.ex
      /\ y.phase = s.phase /\ y.mem = m /\ y.finished = s.finished /\ y.pump = s.pump
  BY <1>1 DEF ProcRecord
<1>3. y = [s EXCEPT !.mem = Refused(@, e[1], branch), !.orphaned = @ \ {e[1]}]
  BY DEF m, ProcRecord
<1> HIDE DEF y
<1>4. /\ Pending(y) = Pending(s) /\ Listed(y) = Listed(s) /\ Pending(s) \subseteq Tasks
      /\ Listed(s) \subseteq Tasks
  BY <1>2, ProcParts DEF Pending, Listed
<1>5. RestOK(y)
  <2>1. Exhausted(m)
    BY <1>1 DEF RestOK, Exhausted
  <2>2. s.phase \in {"run", "leaving", "done"}
    BY Attempting
  <2> QED
    BY <2>1, <2>2, <1>1, <1>2, <1>4 DEF RestOK
<1>6. ASSUME Counts(s) PROVE Counts(y)
  <2>1. Knows(m)
    BY <1>1, <1>6 DEF Counts, Knows
  <2>2. s.pump.task \in Tasks
    BY ProcParts
  <2> QED
    BY <2>1, <2>2, <1>1, <1>2, <1>4, <1>6 DEF Counts
<1>7. ASSUME Tidy(s), WriterOK(s), s.ex[e].at # "complete" PROVE WriterOK(y) /\ Keeps(s.mem, y.mem)
  <2>0. s.ex[e].at \in {"run", "retry", "fail", "cancel"}
    <3>1. s.ex[e] \in Attempt
      BY ProcParts
    <3> QED
      BY <3>1, <1>7 DEF Attempt
  <2>1. s.mem.node[t] # "completed"
    BY <1>0, <1>7, <2>0 DEF WriterOK
  <2>2. Keeps(s.mem, m)
    BY <1>1, <2>1 DEF Keeps
  <2>3. Agrees(m)
    BY <1>1, <1>7, <2>2 DEF Agrees, WriterOK, Keeps
  <2>4. ~s.finished
    BY <1>7 DEF Tidy, Straggling
  <2>5. m.status # "completed"
    BY <1>1, <1>7, <2>4 DEF WriterOK
  <2>6. \A u \in Pending(y) : \A d \in deps[u] : m.node[d] = "completed"
    <3>1. ASSUME NEW u \in Pending(y), NEW d \in deps[u] PROVE m.node[d] = "completed"
      <4>1. u \in Pending(s) /\ d \in Tasks
        BY <1>4, DepsFacts
      <4> QED
        BY <4>1, <2>2, <1>7 DEF WriterOK, Keeps
    <3> QED
      BY <3>1
  <2>7. \A u \in Listed(y) : m.node[u] # "completed" /\ \A f \in Attempts : f[1] = u => s.ex[f].at # "run"
    BY <1>1, <1>4, <1>7 DEF WriterOK
  <2>8. \A f \in Attempts :
          /\ s.ex[f].at = "run" => m.node[f[1]] # "idle"
          /\ s.ex[f].at \in {"run", "retry", "fail", "cancel"} => m.node[f[1]] # "completed"
    BY <1>0, <1>1, <1>7 DEF WriterOK
  <2> QED
    BY <2>2, <2>3, <2>5, <2>6, <2>7, <2>8, <1>2 DEF WriterOK, Whole
<1> QED
  BY <1>2, <1>3, <1>5, <1>6, <1>7

\* A record that differs from s in nothing that a frame is about.
LEMMA FrameFrom ==
    ASSUME NEW s, NEW y, NEW z, Frame(y, z), y.claim = s.claim, y.revision = s.revision,
           y.ex = s.ex, y.phase = s.phase
    PROVE  Frame(s, z)
BY DEF Frame

LEMMA CatchProgress ==
    ASSUME NEW s \in ProcRecord, RestOK(s), deps \in Graphs, NEW e \in Attempts, s.ex[e].at # "none",
           NEW outcome, outcome # "success"
    PROVE  /\ Steps(s, Catch(s, e, outcome))
           /\ s.ex[e].at # "complete" => Progress(s, Catch(s, e, outcome))
<1> DEFINE branch == Branch(s, e, outcome)
           y == [s EXCEPT !.mem = Refused(@, e[1], branch), !.orphaned = @ \ {e[1]}]
<1>1. /\ branch \in {"retry", "fail", "cancel"}
      /\ branch = "retry" => s.mem.retry[e[1]] < TaskRetries[e[1]]
  BY BranchFacts
<1>2. Catch(s, e, outcome) = IF FirstAllowed(s.mem, e[1], branch) THEN Enter(s, e, branch, TRUE) ELSE Reject(Leave(y, e))
  BY DEF Catch
<1>3. CASE FirstAllowed(s.mem, e[1], branch)
  <2> HIDE DEF branch
  <2> QED
    BY <1>1, <1>2, <1>3, EnterProgress
<1>4. CASE ~FirstAllowed(s.mem, e[1], branch)
  <2> HIDE DEF branch
  <2>1. y \in ProcRecord /\ RestOK(y) /\ y.claim = s.claim /\ y.revision = s.revision /\ y.ex = s.ex /\ y.phase = s.phase
    BY RefusedFacts
  <2> HIDE DEF y
  <2>2. Progress(y, Leave(y, e))
    BY <2>1, Attempting, LeaveProgress
  <2>3. Frame(s, Leave(y, e)) /\ Leave(y, e) \in ProcRecord
    BY <2>1, <2>2, FrameFrom DEF Progress, Steps, Frame
  <2>4. Progress(s, Reject(Leave(y, e)))
    BY <2>3, RejectProgress
  <2> QED
    BY <1>2, <1>4, <2>4 DEF Progress
<1> QED
  BY <1>3, <1>4

LEMMA ThrowProgress ==
    ASSUME NEW s \in ProcRecord, RestOK(s), deps \in Graphs, NEW e \in Attempts, s.ex[e].at # "none"
    PROVE  /\ Steps(s, Throw(s, e))
           /\ s.ex[e].at # "complete" => Progress(s, Throw(s, e))
<1>1. CASE s.ex[e].caught
  <2>1. Frame(s, Leave(s, e)) /\ Leave(s, e) \in ProcRecord
    BY Attempting, LeaveProgress DEF Progress, Steps, Frame
  <2>2. Progress(s, Reject(Leave(s, e)))
    BY <2>1, RejectProgress
  <2> QED
    BY <1>1, <2>2 DEF Throw, Progress
<1>2. CASE ~s.ex[e].caught
  BY <1>2, CatchProgress DEF Throw
<1> QED
  BY <1>1, <1>2

\* What an attempt makes of the answer of its executor.
LEMMA ReturnProgress ==
    ASSUME NEW s \in ProcRecord, RestOK(s), deps \in Graphs, NEW e \in Attempts, s.ex[e].at = "run", NEW outcome
    PROVE  LET branch == Branch(s, e, outcome) IN
           Progress(s, IF FirstAllowed(s.mem, e[1], branch) THEN Enter(s, e, branch, FALSE)
                       ELSE Catch([s EXCEPT !.mem = Refused(@, e[1], branch), !.orphaned = @ \ {e[1]}], e, "failed"))
<1> DEFINE branch == Branch(s, e, outcome)
           y == [s EXCEPT !.mem = Refused(@, e[1], branch), !.orphaned = @ \ {e[1]}]
           z == Catch(y, e, "failed")
<1>1. /\ branch \in {"complete", "retry", "fail", "cancel"}
      /\ branch = "retry" => s.mem.retry[e[1]] < TaskRetries[e[1]]
  BY BranchFacts
<1>2. CASE FirstAllowed(s.mem, e[1], branch)
  <2> HIDE DEF branch
  <2>1. Progress(s, Enter(s, e, branch, FALSE))
    BY <1>1, <1>2, EnterProgress
  <2> QED
    BY <1>2, <2>1 DEF branch
<1>3. CASE ~FirstAllowed(s.mem, e[1], branch)
  <2> HIDE DEF branch
  <2>1. /\ y \in ProcRecord /\ RestOK(y)
        /\ y.claim = s.claim /\ y.revision = s.revision /\ y.ex = s.ex
        /\ y.phase = s.phase /\ y.finished = s.finished /\ y.pump = s.pump /\ y.ctl = s.ctl
        /\ Counts(s) => Counts(y)
        /\ Tidy(s) /\ WriterOK(s) /\ s.ex[e].at # "complete" => WriterOK(y) /\ Keeps(s.mem, y.mem)
    BY RefusedFacts
  <2> HIDE DEF y
  <2>2. Progress(y, z)
    BY <2>1, CatchProgress
  <2> HIDE DEF z
  <2>3. Frame(s, z)
    BY <2>1, <2>2, FrameFrom DEF Progress, Steps
  <2>4. /\ Overlap(y) <=> Overlap(s)
        /\ Tidy(y) <=> Tidy(s)
        /\ Single(y) <=> Single(s)
    BY <2>1 DEF Overlap, Tidy, Straggling, Single, AtRest
  <2>5. Steps(s, z)
    BY <2>1, <2>2, <2>3, <2>4 DEF Progress, Steps
  <2>6. ASSUME Tidy(s), Single(s), WriterOK(s), z.phase \in {"starting", "run"}
        PROVE  WriterOK(z) /\ Keeps(s.mem, z.mem)
    <3>1. WriterOK(y) /\ Keeps(s.mem, y.mem)
      BY <2>1, <2>6
    <3>2. WriterOK(z) /\ Keeps(y.mem, z.mem)
      BY <2>2, <2>4, <2>6, <3>1 DEF Progress
    <3> QED
      BY <3>1, <3>2 DEF Keeps
  <2>7. Progress(s, z)
    BY <2>5, <2>6 DEF Progress
  <2> QED
    BY <1>3, <2>7 DEF branch, y, z
<1> QED
  BY <1>2, <1>3

(***************************************************************************)
(* z differs from s only in what a change of one node, of the tasks or of  *)
(* the status may touch: the node c is set to cancelled or running, the    *)
(* tasks are not completed, and the pump keeps its list.                   *)
(***************************************************************************)
Touched(s, z) ==
    /\ z \in ProcRecord
    /\ z.claim = s.claim /\ z.revision = s.revision /\ z.phase = s.phase /\ z.finished = s.finished
    /\ Pending(z) = Pending(s) /\ Listed(z) = Listed(s)
    /\ \A e \in Attempts : z.ex[e].at = s.ex[e].at
    /\ z.pump.at = s.pump.at \/ (s.pump.at = "assign" /\ z.pump.at = "dispatch")
    /\ z.pump.task = s.pump.task /\ z.pump.ready = s.pump.ready
    /\ z.mem.retry = s.mem.retry
    /\ z.mem.status = s.mem.status \/ z.mem.status \in {"cancelled", "paused", "ready"}
    /\ \A t \in Tasks :
          /\ \/ z.mem.node[t] = s.mem.node[t]
             \/ /\ z.mem.node[t] = "cancelled" /\ s.mem.node[t] \notin {"completed", "failed"}
             \/ z.mem.node[t] = "running" /\ s.pump.at = "assign" /\ t = s.pump.task
          /\ z.mem.task[t] = s.mem.task[t] \/ z.mem.task[t] # "completed"
    /\ s.pump.at = "assign" /\ z.pump.at = "dispatch" => z.mem.node[s.pump.task] = "running"

LEMMA TouchedProgress ==
    ASSUME NEW s \in ProcRecord, NEW z, RestOK(s), Touched(s, z), deps \in Graphs,
           s.phase \in {"starting", "run", "leaving", "done"}
    PROVE  Progress(s, z)
<1>0. /\ z \in ProcRecord /\ Pending(s) \subseteq Listed(s) /\ Listed(s) \subseteq Tasks
      /\ \A e \in Attempts : e[1] \in Tasks
      /\ s.pump.task \in Tasks /\ z.pump.task \in Tasks
      /\ s.pump.at \in {"assign", "dispatch"} => s.pump.task \in Pending(s)
  BY ProcParts DEF Touched, Pending, Listed, Attempts
<1>1. RestOK(z)
  <2>1. Exhausted(z.mem)
    BY <1>0 DEF RestOK, Exhausted, Touched
  <2>2. s.finished => s.pump.at # "assign"
    BY DEF RestOK
  <2>3. \A t \in Pending(z) : z.mem.retry[t] # RetryBound + 1
    BY DEF RestOK, Touched
  <2> QED
    BY <2>1, <2>2, <2>3 DEF RestOK, Touched
<1>2. Frame(s, z)
  BY <1>1 DEF Frame, Touched
<1>3. ASSUME Counts(s) PROVE Counts(z)
  <2>1. Knows(z.mem)
    BY <1>3 DEF Counts, Knows, Touched
  <2>2. \A t \in Pending(z) : starts[<<t, z.mem.retry[t]>>] = 0
    BY <1>3 DEF Counts, Touched
  <2>3. z.pump.at = "dispatch" => z.mem.node[z.pump.task] # "idle"
    BY <1>0, <1>3 DEF Counts, Touched
  <2> QED
    BY <2>1, <2>2, <2>3 DEF Counts
<1>4. ASSUME WriterOK(s) PROVE WriterOK(z) /\ Keeps(s.mem, z.mem)
  <2>1. Keeps(s.mem, z.mem)
    BY <1>0, <1>4 DEF WriterOK, Touched, Keeps
  <2>2. Agrees(z.mem)
    BY <1>4, <2>1 DEF WriterOK, Touched, Keeps, Agrees
  <2>3. Whole(z.mem) /\ (z.mem.status = "completed" => z.finished)
    <3>1. CASE z.mem.status = "completed"
      <4>1. s.mem.status = "completed" /\ s.finished /\ Whole(s.mem)
        BY <3>1, <1>4 DEF WriterOK, Touched
      <4>2. s.pump.at # "assign"
        BY <4>1 DEF RestOK
      <4>3. Whole(z.mem)
        BY <4>1, <4>2 DEF Whole, Touched
      <4> QED
        BY <4>1, <4>3 DEF Touched
    <3>2. CASE z.mem.status # "completed"
      BY <3>2 DEF Whole
    <3> QED
      BY <3>1, <3>2
  <2>4. \A t \in Pending(z) : \A d \in deps[t] : z.mem.node[d] = "completed"
    <3>1. ASSUME NEW t \in Pending(z), NEW d \in deps[t] PROVE z.mem.node[d] = "completed"
      <4>1. t \in Pending(s) /\ d \in Tasks
        BY <1>0, DepsFacts DEF Touched
      <4> QED
        BY <4>1, <2>1, <1>4 DEF WriterOK, Keeps
    <3> QED
      BY <3>1
  <2>5. \A t \in Listed(z) : /\ z.mem.node[t] # "completed"
                             /\ \A e \in Attempts : e[1] = t => z.ex[e].at # "run"
    BY <1>0, <1>4 DEF WriterOK, Touched
  <2>6. \A e \in Attempts :
          /\ z.ex[e].at = "run" => z.mem.node[e[1]] # "idle"
          /\ z.ex[e].at \in {"run", "retry", "fail", "cancel"} => z.mem.node[e[1]] # "completed"
    BY <1>0, <1>4 DEF WriterOK, Touched
  <2> QED
    BY <2>1, <2>2, <2>3, <2>4, <2>5, <2>6 DEF WriterOK
<1> QED
  BY <1>2, <1>3, <1>4 DEF Progress, Steps

\* After the first change of an attempt's branch has been saved.
LEMMA SavedProgress ==
    ASSUME NEW s \in ProcRecord, RestOK(s), deps \in Graphs, NEW e \in Attempts, s.ex[e].at \notin {"none", "run"}
    PROVE  Progress(s, IF s.ex[e].half = 2 \/ s.ex[e].at \in {"complete", "fail"} THEN Leave(s, e)
                       ELSE IF SecondAllowed(s.mem, e[1], s.ex[e].at)
                       THEN [s EXCEPT !.mem = SecondChange(@, e[1], s.ex[e].at), !.ex[e].half = 2]
                       ELSE Throw(s, e))
<1> DEFINE t == e[1]
           branch == s.ex[e].at
           over == s.ex[e].half = 2 \/ branch \in {"complete", "fail"}
<1>0. t \in Tasks /\ s.phase \in {"run", "leaving", "done"} /\ s.ex[e] \in Attempt
  BY ProcParts, Attempting DEF Attempts
<1>1. CASE over
  BY <1>0, <1>1, LeaveProgress
<1>2. CASE ~over /\ ~SecondAllowed(s.mem, t, branch)
  BY <1>2, ThrowProgress
<1>3. CASE ~over /\ SecondAllowed(s.mem, t, branch)
  <2> DEFINE m == SecondChange(s.mem, t, branch)
             a == [s.ex[e] EXCEPT !.half = 2]
             x == [s.ex EXCEPT ![e] = a]
             z == [s EXCEPT !.mem = m, !.ex = x]
  <2>1. [s EXCEPT !.mem = SecondChange(@, e[1], s.ex[e].at), !.ex[e].half = 2] = z
    BY ProcParts DEF ProcRecord
  <2>2. x \in [Attempts -> Attempt] /\ \A f \in Attempts : x[f].at = s.ex[f].at
    <3>1. a \in Attempt /\ a.at = s.ex[e].at
      BY <1>0 DEF Attempt
    <3> HIDE DEF a
    <3> QED
      BY <3>1, ProcParts
  <2>3. /\ m \in Job /\ m.status = s.mem.status /\ m.retry = s.mem.retry
        /\ \A u \in Tasks :
              /\ \/ m.node[u] = s.mem.node[u]
                 \/ m.node[u] = "cancelled" /\ s.mem.node[u] \notin {"completed", "failed"}
              /\ m.task[u] = s.mem.task[u] \/ m.task[u] # "completed"
    <3>0. s.mem \in Job /\ s.mem.node \in [Tasks -> NodeStates] /\ s.mem.task \in [Tasks -> TaskStates]
      BY ProcParts
    <3>1. CASE branch = "retry"
      <4> DEFINE w == [s.mem.task EXCEPT ![t] = "pending"]
      <4>1. w \in [Tasks -> TaskStates] /\ \A u \in Tasks : w[u] = s.mem.task[u] \/ w[u] = "pending"
        BY <3>0 DEF TaskStates
      <4>2. m = [s.mem EXCEPT !.task = w]
        BY <3>0, <3>1 DEF SecondChange, Job
      <4> HIDE DEF w, m
      <4> QED
        BY <3>0, <4>1, <4>2 DEF Job
    <3>2. CASE branch # "retry"
      <4> DEFINE n == [s.mem.node EXCEPT ![t] = "cancelled"]
      <4>1. n \in [Tasks -> NodeStates] /\ \A u \in Tasks : n[u] = IF u = t THEN "cancelled" ELSE s.mem.node[u]
        BY <3>0 DEF NodeStates
      <4>2. m = [s.mem EXCEPT !.node = n]
        BY <3>0, <3>2 DEF SecondChange, Job
      <4>3. s.mem.node[t] \notin {"completed", "failed"}
        BY <1>3, <3>2 DEF SecondAllowed, CanNode, Terminal
      <4> HIDE DEF n, m
      <4> QED
        BY <3>0, <4>1, <4>2, <4>3 DEF Job
    <3> QED
      BY <3>1, <3>2
  <2> HIDE DEF m, a, x
  <2>4. /\ z \in ProcRecord
        /\ z.claim = s.claim /\ z.revision = s.revision /\ z.phase = s.phase /\ z.finished = s.finished
        /\ z.pump = s.pump /\ z.mem = m /\ z.ex = x
    BY <2>2, <2>3 DEF ProcRecord
  <2> HIDE DEF z
  <2>5. Touched(s, z)
    BY <2>2, <2>3, <2>4 DEF Touched, Pending, Listed
  <2>6. Progress(s, z)
    BY <2>5, <1>0, TouchedProgress
  <2> QED
    BY <1>3, <2>1, <2>6
<1> QED
  BY <1>1, <1>2, <1>3

-----------------------------------------------------------------------------
(* The pump's awaits and the control operations, as steps of one process *)

\* Only a process that runs the job, or has run it, has a pump.
LEMMA PumpingPhase ==
    ASSUME NEW s \in ProcRecord, RestOK(s), s.pump.at # "idle"
    PROVE  s.phase \in {"run", "leaving", "done"} /\ (s.pump.at # "finish" => ~s.finished)
BY DEF RestOK, ProcRecord

LEMMA PumpThrowProgress ==
    ASSUME NEW s \in ProcRecord, RestOK(s), deps \in Graphs, s.phase \in {"run", "leaving", "done"}
    PROVE  Progress(s, PumpThrow(s))
BY PumpThrowMove, MoveProgress

\* y differs from s only in what no condition of the invariant looks at.
Alike(s, y) ==
    /\ y \in ProcRecord
    /\ y.claim = s.claim /\ y.revision = s.revision /\ y.phase = s.phase /\ y.finished = s.finished
    /\ y.mem = s.mem /\ y.pump = s.pump /\ y.ex = s.ex

LEMMA AlikeProgress ==
    ASSUME NEW s \in ProcRecord, RestOK(s), deps \in Graphs, NEW y, Alike(s, y),
           s.phase \in {"starting", "run", "leaving", "done"}
    PROVE  /\ RestOK(y) /\ Progress(s, y) /\ Pending(y) = Pending(s)
           /\ Counts(s) => Counts(y)
           /\ WriterOK(s) => WriterOK(y)
<1>1. Pending(y) = Pending(s) /\ Listed(y) = Listed(s)
  BY DEF Alike, Pending, Listed
<1>2. Touched(s, y)
  BY <1>1 DEF Alike, Touched
<1>3. Progress(s, y)
  BY <1>2, TouchedProgress
<1> QED
  BY <1>1, <1>3 DEF Alike, Progress, Steps, Frame, Counts, WriterOK

\* A pump that goes on from y, where y is like s.
LEMMA MoveFrom ==
    ASSUME NEW s \in ProcRecord, RestOK(s), deps \in Graphs, NEW y, Alike(s, y),
           NEW z, NEW L, PumpMove(y, z, L), L \subseteq Pending(s), s.phase \in {"run", "leaving", "done"}
    PROVE  Progress(s, z)
<1>1. /\ RestOK(y) /\ Pending(y) = Pending(s) /\ y \in ProcRecord
      /\ Counts(s) => Counts(y)
      /\ WriterOK(s) => WriterOK(y)
  BY AlikeProgress DEF Alike
<1>2. /\ Progress(y, z) /\ (Counts(y) => Counts(z))
      /\ WriterOK(y) => WriterOK(z) /\ Keeps(y.mem, z.mem)
  BY <1>1, MoveProgress DEF Alike
<1>3. Frame(s, z)
  BY <1>2, FrameFrom DEF Alike, Progress, Steps
<1>4. y.mem = s.mem
  BY DEF Alike
<1> QED
  BY <1>1, <1>2, <1>3, <1>4 DEF Progress, Steps

\* assignTask() has returned a placement.
LEMMA AssignedProgress ==
    ASSUME NEW s \in ProcRecord, RestOK(s), deps \in Graphs, s.pump.at = "assign"
    PROVE  Progress(s, [s EXCEPT !.mem.node[s.pump.task] = "running", !.pump.at = "dispatch", !.pump.half = 1])
<1> DEFINE t == s.pump.task
           n == [s.mem.node EXCEPT ![t] = "running"]
           m == [s.mem EXCEPT !.node = n]
           u == [s.pump EXCEPT !.at = "dispatch", !.half = 1]
           z == [s EXCEPT !.mem = m, !.pump = u]
<1>0. t \in Tasks /\ s.mem \in Job /\ s.pump \in Pump
  BY ProcParts
<1>1. [s EXCEPT !.mem.node[s.pump.task] = "running", !.pump.at = "dispatch", !.pump.half = 1] = z
  BY ProcParts DEF ProcRecord, Job, Pump
<1>2. n \in [Tasks -> NodeStates] /\ \A v \in Tasks : n[v] = IF v = t THEN "running" ELSE s.mem.node[v]
  BY ProcParts DEF NodeStates
<1> HIDE DEF n
<1>3. m \in Job /\ m.node = n /\ m.task = s.mem.task /\ m.retry = s.mem.retry /\ m.status = s.mem.status
  BY <1>0, <1>2 DEF Job
<1>4. u \in Pump /\ u.at = "dispatch" /\ u.task = t /\ u.ready = s.pump.ready
  <2>1. 1 \in 1..2
    OBVIOUS
  <2> QED
    BY <1>0, <2>1 DEF Pump
<1> HIDE DEF m, u
<1>5. /\ z \in ProcRecord
      /\ z.claim = s.claim /\ z.revision = s.revision /\ z.phase = s.phase /\ z.finished = s.finished
      /\ z.pump = u /\ z.mem = m /\ z.ex = s.ex
  BY <1>3, <1>4 DEF ProcRecord
<1> HIDE DEF z
<1>6. Pending(z) = Pending(s) /\ Listed(z) = Listed(s)
  BY <1>4, <1>5 DEF Pending, Listed
<1>7. Touched(s, z)
  BY <1>0, <1>2, <1>3, <1>4, <1>5, <1>6 DEF Touched
<1> QED
  BY <1>1, <1>7, PumpingPhase, TouchedProgress

\* assignTask() has returned null.
NotPlacedYet(s) == [s EXCEPT !.active[s.pump.task] = 0, !.pump.ready = @ \cup {s.pump.task}]

LEMMA NotPlacedFacts ==
    ASSUME NEW s \in ProcRecord, s.pump.at = "assign"
    PROVE  /\ NotPlacedYet(s) \in ProcRecord
           /\ NotPlacedYet(s).claim = s.claim /\ NotPlacedYet(s).mem = s.mem
           /\ PumpMove(s, CheckTermination(NotPlacedYet(s)), {})
<1> DEFINE a == [s.active EXCEPT ![s.pump.task] = 0]
           u == [s.pump EXCEPT !.ready = s.pump.ready \cup {s.pump.task}]
           y == NotPlacedYet(s)
           z == CheckTermination(y)
<1>1. y = [s EXCEPT !.active = a, !.pump = u]
  BY DEF NotPlacedYet, ProcRecord, Pump
<1>2. a \in [Tasks -> 0..RetryBound + 2]
  BY ProcParts, ConstantFacts
<1>3. u \in Pump /\ u.at = "assign" /\ u.task = s.pump.task /\ u.ready = s.pump.ready \cup {s.pump.task}
  <2>1. s.pump \in Pump /\ s.pump.task \in Tasks /\ s.pump.ready \in SUBSET Tasks
    BY ProcParts
  <2> QED
    BY <2>1 DEF Pump
<1> HIDE DEF a, u, y
<1>4. /\ y \in ProcRecord /\ y.claim = s.claim /\ y.revision = s.revision /\ y.ctl = s.ctl /\ y.ex = s.ex
      /\ y.phase = s.phase /\ y.mem = s.mem /\ y.finished = s.finished /\ y.pump = u
  BY <1>1, <1>2, <1>3 DEF ProcRecord
<1>5. Listed(y) = Listed(s)
  <2>1. s.pump.task \in Tasks
    BY ProcParts
  <2> QED
    BY <2>1, <1>3, <1>4 DEF Listed, Pending
<1>6. PumpMove(y, z, {})
  BY <1>4, CheckTerminationMove
<1> HIDE DEF z
<1>7. PumpMove(s, z, {})
  BY <1>4, <1>5, <1>6 DEF PumpMove
<1> QED
  BY <1>4, <1>7 DEF y, z

\* assignTask() has thrown.
LEMMA NotAssignedProgress ==
    ASSUME NEW s \in ProcRecord, RestOK(s), deps \in Graphs, s.pump.at = "assign"
    PROVE  Progress(s, FailNode([s EXCEPT !.active[s.pump.task] = 0], "unassigned", s.pump.task, s.pump.ready))
<1> DEFINE a == [s.active EXCEPT ![s.pump.task] = 0]
           y == [s EXCEPT !.active[s.pump.task] = 0]
           z == FailNode(y, "unassigned", s.pump.task, s.pump.ready)
<1>1. y = [s EXCEPT !.active = a]
  BY ProcParts DEF ProcRecord
<1>2. a \in [Tasks -> 0..RetryBound + 2]
  BY ProcParts, ConstantFacts
<1> HIDE DEF a
<1>3. Alike(s, y)
  BY <1>1, <1>2 DEF Alike, ProcRecord
<1> HIDE DEF y
<1>4. /\ s.pump.task \in Tasks /\ s.pump.ready \in SUBSET Tasks /\ ~s.finished
      /\ s.phase \in {"run", "leaving", "done"}
  BY ProcParts, PumpingPhase
<1>5. s.pump.task \in Pending(s) /\ s.pump.ready \subseteq Pending(s)
  BY <1>4 DEF Pending
<1>6. s.pump.task \in Listed(y) /\ s.pump.ready \subseteq Listed(y) /\ ~y.finished /\ y \in ProcRecord
  BY <1>3, <1>4, <1>5 DEF Listed, Pending, Alike
<1>7. PumpMove(y, z, s.pump.ready)
  BY <1>4, <1>6, FailNodeMove
<1> HIDE DEF z
<1>8. Progress(s, z)
  BY <1>3, <1>4, <1>5, <1>7, MoveFrom
<1> QED
  BY <1>8 DEF y, z

\* The node is saved; the task is next.
LEMMA NodeSavedProgress ==
    ASSUME NEW s \in ProcRecord, RestOK(s), deps \in Graphs, s.pump.at # "idle", NEW to \in {"running", "failed"}
    PROVE  Progress(s, IF CanTask(s.mem.task[s.pump.task], to)
                       THEN [s EXCEPT !.mem.task[s.pump.task] = to, !.pump.half = 2]
                       ELSE PumpThrow(s))
<1> DEFINE t == s.pump.task
           w == [s.mem.task EXCEPT ![t] = to]
           m == [s.mem EXCEPT !.task = w]
           u == [s.pump EXCEPT !.half = 2]
           z == [s EXCEPT !.mem = m, !.pump = u]
<1>0. t \in Tasks /\ s.mem \in Job /\ s.pump \in Pump
  BY ProcParts
<1>1. [s EXCEPT !.mem.task[s.pump.task] = to, !.pump.half = 2] = z
  BY ProcParts DEF ProcRecord, Job, Pump
<1>2. w \in [Tasks -> TaskStates] /\ \A v \in Tasks : w[v] = s.mem.task[v] \/ w[v] # "completed"
  BY ProcParts DEF TaskStates
<1> HIDE DEF w
<1>3. m \in Job /\ m.node = s.mem.node /\ m.task = w /\ m.retry = s.mem.retry /\ m.status = s.mem.status
  BY <1>0, <1>2 DEF Job
<1>4. u \in Pump /\ u.at = s.pump.at /\ u.task = t /\ u.ready = s.pump.ready
  BY <1>0 DEF Pump
<1> HIDE DEF m, u
<1>5. /\ z \in ProcRecord
      /\ z.claim = s.claim /\ z.revision = s.revision /\ z.phase = s.phase /\ z.finished = s.finished
      /\ z.pump = u /\ z.mem = m /\ z.ex = s.ex
  BY <1>3, <1>4 DEF ProcRecord
<1> HIDE DEF z
<1>6. Pending(z) = Pending(s) /\ Listed(z) = Listed(s)
  BY <1>4, <1>5 DEF Pending, Listed
<1>7. Touched(s, z)
  BY <1>0, <1>2, <1>3, <1>4, <1>5, <1>6 DEF Touched
<1>8. Progress(s, z) /\ Progress(s, PumpThrow(s))
  BY <1>7, PumpingPhase, TouchedProgress, PumpThrowProgress
<1> QED
  BY <1>1, <1>8

\* The task is saved; the pump goes on.
LEMMA TaskSavedProgress ==
    ASSUME NEW s \in ProcRecord, RestOK(s), deps \in Graphs, s.pump.at \in {"cascade", "unassigned", "deadlock"}
    PROVE  Progress(s, CASE s.pump.at = "cascade" -> Cascade(s)
                         [] s.pump.at = "unassigned" -> Dispatching(s)
                         [] OTHER -> Deadlocked(s, s.pump.ready))
<1>0. s.phase \in {"run", "leaving", "done"} /\ ~s.finished /\ s.pump.ready \in SUBSET Tasks
  BY PumpingPhase, ProcParts
<1>1. CASE s.pump.at = "cascade"
  <2>1. PumpMove(s, Cascade(s), {})
    BY <1>0, <1>1, CascadeMove
  <2> QED
    BY <1>0, <1>1, <2>1, MoveProgress
<1>2. CASE s.pump.at = "unassigned"
  <2>1. PumpMove(s, Dispatching(s), s.pump.ready) /\ s.pump.ready \subseteq Pending(s)
    BY <1>0, <1>2, DispatchingMove DEF Pending
  <2> QED
    BY <1>0, <1>2, <2>1, MoveProgress
<1>3. CASE s.pump.at = "deadlock"
  <2>1. PumpMove(s, Deadlocked(s, s.pump.ready), {})
    BY <1>0, <1>3, DeadlockedMove DEF Listed
  <2> QED
    BY <1>0, <1>3, <2>1, MoveProgress
<1> QED
  BY <1>1, <1>2, <1>3

\* finishJob() has saved the final status, or could not.
LEMMA FinishedProgress ==
    ASSUME NEW s \in ProcRecord, RestOK(s), deps \in Graphs, s.phase \in {"run", "leaving", "done"}
    PROVE  LET y == [s EXCEPT !.pump = Quiet] IN Progress(s, Reject(y)) /\ Progress(s, PumpThrow(y))
<1> DEFINE y == [s EXCEPT !.pump = Quiet]
<1>1. /\ y \in ProcRecord
      /\ y.claim = s.claim /\ y.revision = s.revision /\ y.phase = s.phase /\ y.finished = s.finished
      /\ y.pump = Quiet /\ y.mem = s.mem /\ y.ex = s.ex /\ y.ctl = s.ctl
  BY ConstantFacts DEF ProcRecord
<1>2. PumpThrow(y) = Reject(y)
  BY ConstantFacts DEF PumpThrow, ProcRecord
<1> HIDE DEF y
<1>3. Pending(y) = {}
  BY <1>1, ConstantFacts, NothingListed
<1>4. RestOK(y)
  BY <1>1, <1>3, ConstantFacts DEF RestOK
<1>5. Frame(s, y)
  BY <1>1, <1>4 DEF Frame
<1>6. Progress(s, Reject(y))
  BY <1>1, <1>5, RejectProgress
<1> QED
  BY <1>2, <1>6 DEF y

\* The pump's next round.
LEMMA AgainProgress ==
    ASSUME NEW s \in ProcRecord, RestOK(s), deps \in Graphs, s.phase \in {"run", "leaving", "done"}
    PROVE  Progress(s, DoPump([s EXCEPT !.pump = Quiet]))
<1> DEFINE y == [s EXCEPT !.pump = Quiet]
           z == DoPump(y)
<1>1. /\ y \in ProcRecord
      /\ y.claim = s.claim /\ y.revision = s.revision /\ y.phase = s.phase /\ y.finished = s.finished
      /\ y.pump = Quiet /\ y.mem = s.mem /\ y.ex = s.ex /\ y.ctl = s.ctl
  BY ConstantFacts DEF ProcRecord
<1> HIDE DEF y
<1>2. PumpMove(y, z, {})
  BY <1>1, ConstantFacts, DoPumpMove
<1> HIDE DEF z
<1>3. Pending(y) = {} /\ Listed(y) = {}
  BY <1>1, ConstantFacts, NothingListed
<1>4. RestOK(y)
  BY <1>1, <1>3, ConstantFacts DEF RestOK
<1>5. Counts(s) => Counts(y)
  BY <1>1, <1>3, ConstantFacts DEF Counts
<1>6. WriterOK(s) => WriterOK(y)
  BY <1>1, <1>3 DEF WriterOK
<1>7. /\ Progress(y, z) /\ (Counts(y) => Counts(z)) /\ (WriterOK(y) => WriterOK(z) /\ Keeps(y.mem, z.mem))
  BY <1>1, <1>2, <1>4, MoveProgress
<1>8. Frame(s, z)
  BY <1>1, <1>7, FrameFrom DEF Progress, Steps
<1>9. Progress(s, z)
  BY <1>1, <1>5, <1>6, <1>7, <1>8 DEF Progress, Steps
<1> QED
  BY <1>9 DEF y, z

\* The job is saved as running: the pump starts.
LEMMA StartProgress ==
    ASSUME NEW s \in ProcRecord, RestOK(s), deps \in Graphs, s.phase = "starting"
    PROVE  Progress(s, DoPump([s EXCEPT !.phase = "run"])) /\ Progress(s, Reject(s))
<1> DEFINE y == [s EXCEPT !.phase = "run"]
           z == DoPump(y)
<1>1. /\ y \in ProcRecord
      /\ y.claim = s.claim /\ y.revision = s.revision /\ y.phase = "run" /\ y.finished = s.finished
      /\ y.pump = s.pump /\ y.mem = s.mem /\ y.ex = s.ex /\ y.ctl = s.ctl
  BY DEF ProcRecord
<1> HIDE DEF y
<1>2. s.pump.at = "idle"
  BY DEF RestOK
<1>3. PumpMove(y, z, {})
  BY <1>1, <1>2, DoPumpMove
<1> HIDE DEF z
<1>4. Pending(y) = Pending(s) /\ Listed(y) = Listed(s)
  BY <1>1 DEF Pending, Listed
<1>5. RestOK(y)
  BY <1>1, <1>4 DEF RestOK
<1>6. (Counts(s) => Counts(y)) /\ (WriterOK(s) => WriterOK(y))
  BY <1>1, <1>4 DEF Counts, WriterOK
<1>7. /\ Progress(y, z) /\ (Counts(y) => Counts(z)) /\ (WriterOK(y) => WriterOK(z) /\ Keeps(y.mem, z.mem))
  BY <1>1, <1>3, <1>5, MoveProgress
<1>8. Frame(s, z)
  BY <1>1, <1>7 DEF Frame, Progress, Steps
<1>9. Progress(s, z)
  BY <1>1, <1>6, <1>7, <1>8 DEF Progress, Steps
<1>10. Frame(s, s)
  BY DEF Frame
<1>11. Progress(s, Reject(s))
  BY <1>10, RejectProgress
<1> QED
  BY <1>9, <1>11 DEF y, z

LEMMA AlikeTouched ==
    ASSUME NEW s \in ProcRecord, NEW y, Alike(s, y)
    PROVE  Touched(s, y) /\ \A z : Touched(y, z) => Touched(s, z)
<1>1. Pending(y) = Pending(s) /\ Listed(y) = Listed(s)
  BY DEF Alike, Pending, Listed
<1>2. Touched(s, y)
  BY <1>1 DEF Alike, Touched
<1>3. ASSUME NEW z, Touched(y, z) PROVE Touched(s, z)
  BY <1>1, <1>3 DEF Alike, Touched
<1> QED
  BY <1>2, <1>3

\* A change of the tasks, of the status and of what the process waits for.
LEMMA MemTouched ==
    ASSUME NEW s \in ProcRecord, NEW m \in Job, NEW c \in Control, m.node = s.mem.node, m.retry = s.mem.retry,
           m.status = s.mem.status \/ m.status \in {"cancelled", "paused", "ready"},
           \A t \in Tasks : m.task[t] = s.mem.task[t] \/ m.task[t] # "completed"
    PROVE  Touched(s, [s EXCEPT !.mem = m, !.ctl = c])
<1> DEFINE z == [s EXCEPT !.mem = m, !.ctl = c]
<1>1. /\ z \in ProcRecord
      /\ z.claim = s.claim /\ z.revision = s.revision /\ z.phase = s.phase /\ z.finished = s.finished
      /\ z.pump = s.pump /\ z.mem = m /\ z.ex = s.ex
  BY DEF ProcRecord
<1> HIDE DEF z
<1>2. Pending(z) = Pending(s) /\ Listed(z) = Listed(s)
  BY <1>1 DEF Pending, Listed
<1>3. Touched(s, z)
  BY <1>1, <1>2 DEF Touched
<1> QED
  BY <1>3 DEF z

\* The attempt a task's entry in the active table is about.
LEMMA ActiveAttempt ==
    ASSUME NEW s \in ProcRecord, NEW t \in Tasks, s.active[t] # 0
    PROVE  <<t, s.active[t] - 1>> \in Attempts
<1>1. s.active[t] \in 0..RetryBound + 2 /\ RetryBound \in Nat
  BY ProcParts, ConstantFacts
<1>2. s.active[t] - 1 \in 0..RetryBound + 1
  BY <1>1
<1> QED
  BY <1>2 DEF Attempts

LEMMA AbortAllAlike ==
    ASSUME NEW s \in ProcRecord
    PROVE  Alike(s, AbortAll(s)) /\ AbortAll(s).ctl = s.ctl
<1> DEFINE S == s.stopped \cup {<<t, s.active[t] - 1>> : t \in Active(s)}
<1>1. S \in SUBSET Attempts
  BY ProcParts, ActiveAttempt DEF Active
<1>2. AbortAll(s) = [s EXCEPT !.aborted = TRUE, !.stopped = S]
  BY DEF AbortAll, ProcRecord
<1> HIDE DEF S
<1> QED
  BY <1>1, <1>2 DEF Alike, ProcRecord

LEMMA CancelJobTouched ==
    ASSUME NEW s \in ProcRecord, NEW what \in {"cancel", "renewCancel"}
    PROVE  Touched(s, CancelJob(s, what))
<1> DEFINE a == [t \in Tasks |-> 0]
           b == AbortAll(s)
           y == IF s.phase = "run" THEN [b EXCEPT !.active = a] ELSE s
           w == [t \in Tasks |-> IF s.mem.task[t] \in {"pending", "running"} THEN "cancelled" ELSE s.mem.task[t]]
           m == [s.mem EXCEPT !.status = "cancelled", !.task = w]
           c == [NoControl EXCEPT !.what = what]
           z == [y EXCEPT !.mem = m, !.ctl = c]
<1>1. Alike(s, y)
  <2>1. Alike(s, b)
    BY AbortAllAlike
  <2>2. a \in [Tasks -> 0..RetryBound + 2]
    BY ConstantFacts
  <2> HIDE DEF a, b
  <2> QED
    BY <2>1, <2>2 DEF Alike, ProcRecord
<1>2. y.mem = s.mem /\ y \in ProcRecord
  BY <1>1 DEF Alike
<1>3. m \in Job /\ m.node = s.mem.node /\ m.retry = s.mem.retry /\ m.status = "cancelled" /\ m.task = w
  <2>1. w \in [Tasks -> TaskStates] /\ s.mem \in Job
    BY ProcParts DEF TaskStates
  <2> HIDE DEF w
  <2> QED
    BY <2>1 DEF Job, JobStates
<1>4. \A t \in Tasks : w[t] = s.mem.task[t] \/ w[t] # "completed"
  OBVIOUS
<1>5. c \in Control
  BY ConstantFacts DEF Control
<1>6. CancelJob(s, what) = IF s.mem.status \in {"completed", "failed"}
                           THEN IF what = "renewCancel" THEN AbortAll(y) ELSE y
                           ELSE z
  <2>1. s.mem.status \in {"completed", "failed"}
           => CancelJob(s, what) = IF what = "renewCancel" THEN AbortAll(y) ELSE y
    BY DEF CancelJob
  <2>2. s.mem.status \notin {"completed", "failed"}
           => CancelJob(s, what) = [y EXCEPT !.mem.status = "cancelled", !.mem.task = w, !.ctl = c]
    BY DEF CancelJob
  <2> HIDE DEF y, w, c
  <2>3. [y EXCEPT !.mem.status = "cancelled", !.mem.task = w, !.ctl = c] = z
    BY <1>2 DEF ProcRecord, Job
  <2> QED
    BY <2>1, <2>2, <2>3
<1> HIDE DEF y, w, m, c
<1>7. Touched(y, z)
  BY <1>2, <1>3, <1>4, <1>5, MemTouched
<1> HIDE DEF z
<1>8. Alike(y, AbortAll(y))
  BY <1>2, AbortAllAlike
<1>9. Touched(y, AbortAll(y))
  BY <1>2, <1>8, AlikeTouched
<1>10. Touched(s, y) /\ Touched(s, AbortAll(y)) /\ Touched(s, z)
  BY <1>1, <1>7, <1>9, AlikeTouched
<1> QED
  BY <1>6, <1>10

LEMMA TimesOutTouched ==
    ASSUME NEW s \in ProcRecord
    PROVE  Touched(s, CancelJob([s EXCEPT !.timedOut = TRUE], "cancel"))
<1> DEFINE y == [s EXCEPT !.timedOut = TRUE]
<1>1. Alike(s, y) /\ y \in ProcRecord
  BY DEF Alike, ProcRecord
<1> HIDE DEF y
<1>2. Touched(y, CancelJob(y, "cancel"))
  BY <1>1, CancelJobTouched
<1>3. Touched(s, CancelJob(y, "cancel"))
  BY <1>1, <1>2, AlikeTouched
<1> QED
  BY <1>3 DEF y

\* pause() and resume().
LEMMA StatusTouched ==
    ASSUME NEW s \in ProcRecord, NEW status \in {"paused", "ready"}, NEW what \in {"pause", "resume"}
    PROVE  LET z == [s EXCEPT !.mem.status = status, !.ctl.what = what] IN
           /\ Touched(s, z) /\ z.mem = [s.mem EXCEPT !.status = status] /\ z.ctl.what = what
           /\ z.ex = s.ex /\ z.pump = s.pump
<1> DEFINE m == [s.mem EXCEPT !.status = status]
           c == [s.ctl EXCEPT !.what = what]
           z == [s EXCEPT !.mem = m, !.ctl = c]
<1>1. [s EXCEPT !.mem.status = status, !.ctl.what = what] = z
  BY DEF ProcRecord
<1>2. m \in Job /\ m.node = s.mem.node /\ m.retry = s.mem.retry /\ m.status = status /\ m.task = s.mem.task
  BY ProcParts DEF Job, JobStates
<1>3. c \in Control /\ c.what = what
  BY ProcParts DEF Control
<1> HIDE DEF m, c
<1>4. Touched(s, z)
  BY <1>2, <1>3, MemTouched
<1>5. z.mem = m /\ z.ctl = c /\ z.ex = s.ex /\ z.pump = s.pump
  BY DEF ProcRecord
<1> QED
  BY <1>1, <1>3, <1>4, <1>5 DEF m

\* cancelTask(), up to its first flush.
LEMMA CancelsTaskTouched ==
    ASSUME NEW s \in ProcRecord, NEW t \in Tasks
    PROVE  Touched(s, LET s1 == IF s.active[t] = 0 THEN s
                                ELSE [s EXCEPT !.stopped = @ \cup {<<t, s.active[t] - 1>>}, !.active[t] = 0]
                      IN  IF s.mem.task[t] \in Terminal THEN s1
                          ELSE [s1 EXCEPT !.mem.task[t] = "cancelled",
                                          !.ctl = [what |-> "cancelTask", task |-> t, half |-> 1]])
<1> DEFINE a == [s.active EXCEPT ![t] = 0]
           S == s.stopped \cup {<<t, s.active[t] - 1>>}
           y == IF s.active[t] = 0 THEN s
                ELSE [s EXCEPT !.stopped = @ \cup {<<t, s.active[t] - 1>>}, !.active[t] = 0]
           w == [s.mem.task EXCEPT ![t] = "cancelled"]
           m == [s.mem EXCEPT !.task = w]
           c == [what |-> "cancelTask", task |-> t, half |-> 1]
           z == [y EXCEPT !.mem = m, !.ctl = c]
<1>1. Alike(s, y)
  <2>1. CASE s.active[t] = 0
    BY <2>1 DEF Alike
  <2>2. CASE s.active[t] # 0
    <3>1. a \in [Tasks -> 0..RetryBound + 2] /\ S \in SUBSET Attempts
      BY <2>2, ProcParts, ConstantFacts, ActiveAttempt
    <3>2. y = [s EXCEPT !.stopped = S, !.active = a]
      BY <2>2, ProcParts DEF ProcRecord
    <3> HIDE DEF a, S, y
    <3> QED
      BY <3>1, <3>2 DEF Alike, ProcRecord
  <2> QED
    BY <2>1, <2>2
<1>2. y.mem = s.mem /\ y \in ProcRecord
  BY <1>1 DEF Alike
<1>3. w \in [Tasks -> TaskStates] /\ \A u \in Tasks : w[u] = s.mem.task[u] \/ w[u] # "completed"
  BY ProcParts DEF TaskStates
<1> HIDE DEF w
<1>4. m \in Job /\ m.node = s.mem.node /\ m.retry = s.mem.retry /\ m.status = s.mem.status /\ m.task = w
  BY <1>3, ProcParts DEF Job
<1>5. c \in Control
  BY DEF Control
<1> HIDE DEF c
<1>6. [y EXCEPT !.mem.task[t] = "cancelled", !.ctl = c] = z
  <2> HIDE DEF y
  <2> QED
    BY <1>2, ProcParts DEF ProcRecord, Job, w
<1> HIDE DEF y, m
<1>7. Touched(y, z)
  BY <1>2, <1>3, <1>4, <1>5, MemTouched
<1> HIDE DEF z
<1>8. Touched(s, y) /\ Touched(s, z)
  BY <1>1, <1>7, AlikeTouched
<1> QED
  BY <1>6, <1>8 DEF y, c

LEMMA ReportsOrphanedAlike ==
    ASSUME NEW s \in ProcRecord, NEW t \in Tasks, s.active[t] # 0
    PROVE  Alike(s, [s EXCEPT !.orphaned = @ \cup {t}, !.stopped = @ \cup {<<t, s.active[t] - 1>>}])
<1>1. s.orphaned \cup {t} \in SUBSET Tasks /\ s.stopped \cup {<<t, s.active[t] - 1>>} \in SUBSET Attempts
  BY ProcParts, ActiveAttempt
<1> QED
  BY <1>1 DEF Alike, ProcRecord

\* What a control operation makes of its flush, in a process that runs the job.
ControlDone(s, c) ==
    CASE c.what \in {"pause", "resume"} -> IF s.phase = "run" THEN WakePump(s) ELSE s
      [] c.what = "cancelTask" /\ c.half = 1 /\ CanNode(s.mem.node[c.task], "cancelled") ->
            [s EXCEPT !.mem.node[c.task] = "cancelled", !.ctl = [c EXCEPT !.half = 2]]
      [] OTHER -> s

ControlThrown(s, c) == IF c.what = "renewCancel" THEN AbortAll(s) ELSE s

LEMMA NoControlAlike ==
    ASSUME NEW s \in ProcRecord
    PROVE  LET y == [s EXCEPT !.ctl = NoControl] IN Alike(s, y) /\ y.ctl = NoControl
BY ConstantFacts DEF Alike, ProcRecord

LEMMA ControlProgress ==
    ASSUME NEW s \in ProcRecord, RestOK(s), deps \in Graphs,
           s.phase \in {"starting", "run", "leaving", "done"}
    PROVE  LET y == [s EXCEPT !.ctl = NoControl] IN
           Progress(s, ControlDone(y, s.ctl)) /\ Progress(s, ControlThrown(y, s.ctl))
<1> DEFINE y == [s EXCEPT !.ctl = NoControl]
           c == s.ctl
           done == ControlDone(y, c)
           thrown == ControlThrown(y, c)
<1>1. Alike(s, y) /\ y.ctl = NoControl
  BY NoControlAlike
<1> HIDE DEF y
<1>2. y \in ProcRecord /\ RestOK(y) /\ Progress(s, y) /\ y.phase = s.phase /\ y.mem = s.mem /\ c \in Control
  BY <1>1, AlikeProgress, ProcParts DEF Alike
<1>3. Progress(s, thrown)
  <2>1. Alike(y, AbortAll(y))
    BY <1>2, AbortAllAlike
  <2>2. Alike(s, AbortAll(y))
    BY <1>1, <2>1 DEF Alike
  <2>3. Progress(s, AbortAll(y))
    BY <2>2, AlikeProgress
  <2> QED
    BY <1>2, <2>3 DEF ControlThrown
<1>4. Progress(s, done)
  <2>1. CASE c.what \in {"pause", "resume"} /\ s.phase = "run"
    <3> DEFINE z == WakePump(y)
    <3>1. PumpMove(y, z, {}) \/ Nudged(y, z)
      BY <1>2, WakePumpMove
    <3>2. done = z
      BY <1>2, <2>1 DEF ControlDone
    <3> HIDE DEF z, done
    <3>3. CASE PumpMove(y, z, {})
      BY <1>1, <2>1, <3>2, <3>3, MoveFrom
    <3>4. CASE Nudged(y, z)
      <4>1. Pending(z) = Pending(s) /\ Listed(z) = Listed(s)
        BY <1>1, <3>4 DEF Nudged, Alike, Pending, Listed
      <4>2. Touched(s, z)
        BY <1>1, <3>4, <4>1 DEF Nudged, Alike, Touched
      <4> QED
        BY <4>2, <3>2, TouchedProgress
    <3> QED
      BY <3>1, <3>3, <3>4
  <2>2. CASE c.what = "cancelTask" /\ c.half = 1 /\ CanNode(y.mem.node[c.task], "cancelled")
    <3> DEFINE n == [y.mem.node EXCEPT ![c.task] = "cancelled"]
               m == [y.mem EXCEPT !.node = n]
               d == [c EXCEPT !.half = 2]
               z == [y EXCEPT !.mem = m, !.ctl = d]
    <3>0. c.task \in Tasks
      BY <1>2 DEF Control
    <3>1. d \in Control
      BY <1>2 DEF Control
    <3>2. n \in [Tasks -> NodeStates] /\ \A v \in Tasks : n[v] = IF v = c.task THEN "cancelled" ELSE y.mem.node[v]
      BY <1>2, ProcParts DEF NodeStates
    <3>3. y.mem.node[c.task] \notin {"completed", "failed"}
      BY <2>2 DEF CanNode, Terminal
    <3>4. done = z
      BY <1>2, <2>2, ProcParts DEF ControlDone, ProcRecord, Job
    <3> HIDE DEF n, d, c, done
    <3>5. m \in Job /\ m.node = n /\ m.retry = y.mem.retry /\ m.status = y.mem.status /\ m.task = y.mem.task
      BY <1>2, <3>2, ProcParts DEF Job
    <3> HIDE DEF m
    <3>6. /\ z \in ProcRecord
          /\ z.claim = y.claim /\ z.revision = y.revision /\ z.phase = y.phase /\ z.finished = y.finished
          /\ z.pump = y.pump /\ z.mem = m /\ z.ex = y.ex
      BY <1>2, <3>1, <3>5 DEF ProcRecord
    <3> HIDE DEF z
    <3>7. Pending(z) = Pending(y) /\ Listed(z) = Listed(y)
      BY <3>6 DEF Pending, Listed
    <3>8. Touched(y, z)
      BY <3>0, <3>2, <3>3, <3>5, <3>6, <3>7 DEF Touched
    <3>9. Touched(s, z)
      BY <1>1, <3>8, AlikeTouched
    <3> QED
      BY <3>4, <3>9, TouchedProgress
  <2>3. CASE /\ ~(c.what \in {"pause", "resume"} /\ s.phase = "run")
             /\ ~(c.what = "cancelTask" /\ c.half = 1 /\ CanNode(y.mem.node[c.task], "cancelled"))
    <3>1. done = y
      BY <1>2, <2>3 DEF ControlDone
    <3> QED
      BY <1>2, <3>1
  <2> QED
    BY <2>1, <2>2, <2>3
<1> QED
  BY <1>3, <1>4 DEF y

-----------------------------------------------------------------------------
(* Steps of the system *)

\* What every step says of the ghost.
LooseStep == loose' = (loose \/ \E p \in Procs : Overlap(proc'[p]) \/ Straggling(proc'[p]))

LEMMA Ghost ==
    ASSUME loose \in BOOLEAN, LooseStep
    PROVE  /\ loose' \in BOOLEAN /\ (~loose' => ~loose) /\ TidyInv'
           /\ incidents \subseteq incidents' => (Undisturbed' => Undisturbed)
<1>1. loose' \in BOOLEAN /\ (~loose' => ~loose)
  BY DEF LooseStep
<1>2. TidyInv'
  BY DEF LooseStep, TidyInv, Tidy
<1> QED
  BY <1>1, <1>2 DEF Undisturbed

\* Only the process p has changed, and the completed nodes are the same in the store.
LEMMA OthersStay ==
    ASSUME IInv, NEW p \in Procs, LooseStep, deps' = deps, starts' = starts,
           incidents \subseteq incidents', incidents' \subseteq Incidents,
           proc' \in [Procs -> ProcRecord], \A q \in Procs \ {p} : proc'[q] = proc[q],
           store' \in StoreRecord, Exhausted(store'.job),
           ~loose' => Knows(store.job)',
           Undisturbed' => Agrees(store.job)' /\ Whole(store.job)',
           Undisturbed' => \A t \in Tasks : store'.job.node[t] = "completed" <=> store.job.node[t] = "completed",
           \A q \in Procs \ {p} : Owns(q)' => Owns(q),
           RestOK(proc[p])', ~loose' => StartOK(p)', Undisturbed' => DoneOK(p)'
    PROVE  IInv'
<1> USE DEF IInv
<1>1. /\ loose' \in BOOLEAN /\ (~loose' => ~loose) /\ TidyInv' /\ (Undisturbed' => Undisturbed)
  BY Ghost DEF TypeInv
<1>2. TypeInv'
  <2>1. \A q \in Procs : RestOK(proc[q])'
    BY DEF TypeInv, RestOK, Pending, Exhausted
  <2>2. Exhausted(store.job)'
    BY DEF TypeInv, Exhausted
  <2> QED
    BY <1>1, <2>1, <2>2 DEF TypeInv
<1>3. StartsInv'
  <2> SUFFICES ASSUME ~loose' 
                  PROVE  /\ \A e \in Attempts : starts'[e] <= 1
                         /\ Knows(store.job)'
                         /\ \A q \in Procs : StartOK(q)'
    BY DEF StartsInv
  <2>0. ~loose
    BY <1>1
  <2>1. /\ \A e \in Attempts : starts'[e] <= 1
        /\ Knows(store.job)'
    BY <2>0 DEF StartsInv
  <2>2. ASSUME NEW q \in Procs, q # p PROVE StartOK(q)'
    <3>1. StartOK(q) /\ proc'[q] = proc[q] /\ (Owns(q)' => Owns(q))
      BY <2>0, <2>2 DEF StartsInv
    <3> QED
      BY <3>1 DEF StartOK, Counts, MayWrite, Knows, Pending
  <2> QED
    BY <2>1, <2>2
<1>4. CompletedInv'
  <2> SUFFICES ASSUME Undisturbed' 
                  PROVE  /\ Agrees(store.job)' /\ Whole(store.job)'
                         /\ \A q \in Procs : DoneOK(q)'
    BY DEF CompletedInv
  <2>0. Undisturbed
    BY <1>1
  <2>2. ASSUME NEW q \in Procs, q # p PROVE DoneOK(q)'
    <3>1. DoneOK(q) /\ proc'[q] = proc[q] /\ (Owns(q)' => Owns(q))
      BY <2>0, <2>2 DEF CompletedInv
    <3>2. Writer(q)' => Writer(q)
      BY <3>1 DEF Writer, CanFlush, TypeInv, RestOK
    <3>3. ASSUME Writer(q)' PROVE WriterOK(proc[q])' /\ Keeps(store.job, proc[q].mem)'
      <4>1. WriterOK(proc[q]) /\ Keeps(store.job, proc[q].mem)
        BY <3>1, <3>2, <3>3 DEF DoneOK
      <4> QED
        BY <3>1, <4>1 DEF WriterOK, Keeps, Agrees, Whole, Pending, Listed
    <3>4. /\ (proc[q].revision # "ahead")' /\ Single(proc[q])'
          /\ (proc[q].phase \in {"healing", "idle"} /\ proc[q].revision = "same"
               => Keeps(store.job, proc[q].mem) /\ Agrees(proc[q].mem))'
          /\ (proc[q].phase = "healing" /\ proc[q].revision = "same" => Whole(proc[q].mem))'
      BY <3>1 DEF DoneOK, Single, Keeps, Agrees, Whole
    <3>5. ASSUME NEW e \in Attempts, proc'[q].ex[e].at = "run", NEW d \in deps[e[1]]
          PROVE  store'.job.node[d] = "completed"
      <4>1. store.job.node[d] = "completed"
        BY <3>1, <3>5 DEF DoneOK
      <4>2. d \in Tasks
        BY DepsFacts DEF Attempts, TypeInv
      <4> QED
        BY <4>1, <4>2
    <3> QED
      BY <3>3, <3>4, <3>5 DEF DoneOK
  <2> QED
    BY <2>2
<1> QED
  BY <1>1, <1>2, <1>3, <1>4

\* Only the process p has changed, and the stored job has not.
LEMMA Unwritten ==
    ASSUME IInv, NEW p \in Procs, LooseStep, deps' = deps, starts' = starts,
           incidents \subseteq incidents', incidents' \subseteq Incidents,
           proc' \in [Procs -> ProcRecord], \A q \in Procs \ {p} : proc'[q] = proc[q],
           store' \in StoreRecord, store'.job = store.job,
           \A q \in Procs \ {p} : Owns(q)' => Owns(q),
           RestOK(proc[p])', ~loose' => StartOK(p)', Undisturbed' => DoneOK(p)'
    PROVE  IInv'
<1>1. (~loose' => ~loose) /\ (Undisturbed' => Undisturbed)
  BY Ghost DEF IInv, TypeInv
<1>2. Exhausted(store'.job)
  BY DEF IInv, TypeInv
<1>3. ~loose' => Knows(store.job)'
  BY <1>1 DEF IInv, StartsInv, Knows
<1>4. Undisturbed' => Agrees(store.job)' /\ Whole(store.job)'
  BY <1>1 DEF IInv, CompletedInv, Agrees, Whole
<1> QED
  BY <1>2, <1>3, <1>4, OthersStay

\* A copy that has become out of date.
LEMMA OlderFacts ==
    ASSUME NEW s \in ProcRecord, RestOK(s)
    PROVE  LET w == Forget([s EXCEPT !.revision = "older"]) IN
           /\ w \in ProcRecord /\ RestOK(w) /\ w.revision = "older" /\ w.phase = s.phase
           /\ s.phase \notin {"idle", "done"}
                 => w.claim = s.claim /\ w.mem = s.mem /\ w.pump = s.pump /\ w.ex = s.ex
           /\ Single(s) => Single(w)
           /\ \A e \in Attempts : w.ex[e].at = "run" => s.ex[e].at = "run"
<1> DEFINE y == [s EXCEPT !.revision = "older"]
           w == Forget(y)
<1>1. /\ y \in ProcRecord /\ y.revision = "older"
      /\ y.claim = s.claim /\ y.phase = s.phase /\ y.finished = s.finished
      /\ y.pump = s.pump /\ y.mem = s.mem /\ y.ex = s.ex /\ y.ctl = s.ctl
  BY DEF ProcRecord
<1> HIDE DEF y
<1>2. RestOK(y)
  BY <1>1 DEF RestOK, Pending
<1>3. Single(s) => Single(y)
  BY <1>1 DEF Single
<1>4. CASE s.phase \in {"idle", "done"} /\ AtRest(y)
  <2>1. w = Fresh(s.phase)
    BY <1>1, <1>4 DEF Forget
  <2>2. /\ w \in ProcRecord /\ RestOK(w) /\ w.revision = "older" /\ w.phase = s.phase /\ Single(w)
        /\ \A e \in Attempts : w.ex[e].at = "none"
    BY <1>4, <2>1, FreshFacts
  <2> QED
    BY <1>4, <2>2 DEF y
<1>5. CASE ~(s.phase \in {"idle", "done"} /\ AtRest(y))
  <2>1. w = y
    BY <1>1, <1>5 DEF Forget
  <2> QED
    BY <1>1, <1>2, <1>3, <2>1 DEF y
<1> QED
  BY <1>4, <1>5

\* The processes other than p after p has written the record.
LEMMA WrittenOther ==
    ASSUME TypeInv, NEW p \in Procs, NEW z \in ProcRecord, proc' = Written(p, z), NEW q \in Procs, q # p
    PROVE  /\ proc'[q] \in ProcRecord /\ RestOK(proc'[q]) /\ proc'[q].phase = proc[q].phase
           /\ proc'[q].revision # "ahead"
           /\ proc'[q].revision = "same" => /\ proc[q].revision = "ahead"
                                            /\ proc'[q].ctl = proc[q].ctl /\ proc'[q].mem = proc[q].mem
           /\ proc'[q].phase \in {"starting", "run"}
                 => /\ proc'[q].claim = proc[q].claim /\ proc'[q].mem = proc[q].mem
                    /\ proc'[q].pump = proc[q].pump
           /\ Single(proc[q]) => Single(proc'[q])
           /\ \A e \in Attempts : proc'[q].ex[e].at = "run" => proc[q].ex[e].at = "run"
<1> DEFINE s == proc[q]
<1>0. s \in ProcRecord /\ RestOK(s)
  BY DEF TypeInv
<1>1. proc'[q] = IF s.revision = "ahead" THEN [s EXCEPT !.revision = "same"]
                 ELSE Forget([s EXCEPT !.revision = "older"])
  BY DEF Written
<1>2. CASE s.revision = "ahead"
  <2> DEFINE y == [s EXCEPT !.revision = "same"]
  <2>1. /\ y \in ProcRecord /\ y.revision = "same"
        /\ y.claim = s.claim /\ y.phase = s.phase /\ y.finished = s.finished
        /\ y.pump = s.pump /\ y.mem = s.mem /\ y.ex = s.ex /\ y.ctl = s.ctl
    BY <1>0 DEF ProcRecord
  <2>2. proc'[q] = y
    BY <1>1, <1>2
  <2> HIDE DEF y, s
  <2>3. RestOK(y)
    BY <1>0, <2>1 DEF RestOK, Pending
  <2>4. Single(s) => Single(y)
    BY <2>1 DEF Single
  <2> QED
    BY <1>2, <2>1, <2>2, <2>3, <2>4 DEF s
<1>3. CASE s.revision # "ahead"
  <2> DEFINE w == Forget([s EXCEPT !.revision = "older"])
  <2>1. proc'[q] = w
    BY <1>1, <1>3
  <2>2. /\ w \in ProcRecord /\ RestOK(w) /\ w.revision = "older" /\ w.phase = s.phase
        /\ s.phase \notin {"idle", "done"}
              => w.claim = s.claim /\ w.mem = s.mem /\ w.pump = s.pump /\ w.ex = s.ex
        /\ Single(s) => Single(w)
        /\ \A e \in Attempts : w.ex[e].at = "run" => s.ex[e].at = "run"
    BY <1>0, OlderFacts
  <2> HIDE DEF w
  <2> QED
    BY <2>1, <2>2
<1> QED
  BY <1>2, <1>3

\* p has written the record.
LEMMA Overwritten ==
    ASSUME IInv, NEW p \in Procs, NEW z \in ProcRecord, proc' = Written(p, z), RestOK(z), LooseStep,
           NEW m \in Job, store' = [store EXCEPT !.job = m], Exhausted(m), deps' = deps,
           incidents \subseteq incidents', incidents' \subseteq Incidents, starts' \in [Attempts -> Nat],
           ~loose' => starts' = starts \/ Owns(p),
           ~loose' => (\A e \in Attempts : starts'[e] <= 1) /\ Knows(store.job)' /\ StartOK(p)',
           Undisturbed' => Agrees(m) /\ Whole(m) /\ Keeps(store.job, m) /\ DoneOK(p)'
    PROVE  IInv'
<1> USE DEF IInv
<1>0. /\ store' \in StoreRecord /\ store'.job = m
      /\ store'.lease = store.lease /\ store'.owner = store.owner
  BY DEF TypeInv, StoreRecord
<1>1. /\ loose' \in BOOLEAN /\ (~loose' => ~loose) /\ TidyInv' /\ (Undisturbed' => Undisturbed)
  BY Ghost DEF TypeInv
<1>a. proc'[p] = z
  BY DEF Written
<1>2. TypeInv'
  <2>1. ASSUME NEW q \in Procs PROVE proc'[q] \in ProcRecord /\ RestOK(proc'[q])
    <3>1. CASE q = p
      BY <1>a, <3>1
    <3>2. CASE q # p
      BY <3>2, WrittenOther
    <3> QED
      BY <3>1, <3>2
  <2>2. proc' \in [Procs -> ProcRecord]
    <3>1. proc' = [q \in Procs |-> proc'[q]]
      BY DEF Written
    <3> QED
      BY <2>1, <3>1
  <2>3. \A q \in Procs : RestOK(proc[q])'
    BY <2>1 DEF RestOK, Pending, Exhausted
  <2>4. Exhausted(store.job)'
    BY <1>0 DEF Exhausted
  <2> QED
    BY <1>0, <1>1, <2>2, <2>3, <2>4 DEF TypeInv
<1>3. StartsInv'
  <2> SUFFICES ASSUME ~loose', NEW q \in Procs, q # p PROVE StartOK(q)'
    BY DEF StartsInv
  <2>0. ~loose /\ StartOK(q)
    BY <1>1 DEF StartsInv
  <2>1. /\ proc'[q].phase = proc[q].phase /\ proc'[q].revision # "ahead"
        /\ proc'[q].revision = "same" => /\ proc[q].revision = "ahead"
                                         /\ proc'[q].ctl = proc[q].ctl /\ proc'[q].mem = proc[q].mem
        /\ proc'[q].phase \in {"starting", "run"}
              => /\ proc'[q].claim = proc[q].claim /\ proc'[q].mem = proc[q].mem
                 /\ proc'[q].pump = proc[q].pump
    BY WrittenOther
  <2>2. ASSUME proc'[q].phase \in {"starting", "run"}, Owns(q)' PROVE Counts(proc[q])'
    <3>1. Owns(q)
      BY <1>0, <2>1, <2>2 DEF Owns
    <3>2. starts' = starts
      BY <3>1 DEF Owns
    <3>3. Counts(proc[q])
      BY <2>0, <2>1, <2>2, <3>1 DEF StartOK
    <3> QED
      BY <2>1, <2>2, <3>2, <3>3 DEF Counts, Knows, Pending
  <2>3. ~MayWrite(proc[q])'
    BY <2>0, <2>1 DEF MayWrite, StartOK, TypeInv, RestOK
  <2> QED
    BY <2>1, <2>2, <2>3 DEF StartOK
<1>4. CompletedInv'
  <2> SUFFICES ASSUME Undisturbed'
               PROVE  Agrees(store.job)' /\ Whole(store.job)' /\ \A q \in Procs : DoneOK(q)'
    BY DEF CompletedInv
  <2>0. Undisturbed
    BY <1>1
  <2>1. Agrees(store.job)' /\ Whole(store.job)'
    BY <1>0 DEF Agrees, Whole
  <2>2. ASSUME NEW q \in Procs, q # p PROVE DoneOK(q)'
    <3>1. DoneOK(q)
      BY <2>0 DEF CompletedInv
    <3>2. /\ proc'[q].revision # "ahead"
          /\ proc'[q].revision = "same" => proc[q].revision = "ahead"
          /\ Single(proc[q]) => Single(proc'[q])
          /\ \A e \in Attempts : proc'[q].ex[e].at = "run" => proc[q].ex[e].at = "run"
      BY <2>2, WrittenOther
    <3>3. proc'[q].revision # "same"
      BY <3>1, <3>2 DEF DoneOK
    <3>4. ~Writer(q)'
      BY <3>3 DEF Writer, CanFlush
    <3>5. Single(proc[q])'
      BY <3>1, <3>2 DEF DoneOK, Single
    <3>6. ASSUME NEW e \in Attempts, proc'[q].ex[e].at = "run", NEW d \in deps[e[1]]
          PROVE  store'.job.node[d] = "completed"
      <4>1. store.job.node[d] = "completed"
        BY <3>1, <3>2, <3>6 DEF DoneOK
      <4>2. d \in Tasks
        BY DepsFacts DEF Attempts, TypeInv
      <4> QED
        BY <1>0, <4>1, <4>2 DEF Keeps
    <3> QED
      BY <3>2, <3>3, <3>4, <3>5, <3>6 DEF DoneOK
  <2> QED
    BY <2>1, <2>2
<1> QED
  BY <1>1, <1>2, <1>3, <1>4

\* The step of a process that runs the job, in terms of the attempts.
LEMMA StepStarts ==
    ASSUME IInv, ~loose, NEW p \in Procs, NEW y, Steps(proc[p], y), starts' = starts, Owns(p)' => Owns(p),
           proc'[p].phase = y.phase, proc'[p].mem = y.mem, proc'[p].pump = y.pump
    PROVE  StartOK(p)'
<1>1. StartOK(p) /\ ~Overlap(proc[p]) /\ proc[p].phase \in {"starting", "run", "leaving", "done"}
  BY DEF IInv, StartsInv, TidyInv, Tidy, Steps, Frame
<1>2. y.phase \in {"starting", "run", "leaving", "done"}
  BY <1>1 DEF Steps, Frame
<1>3. ASSUME proc'[p].phase \in {"starting", "run"}, Owns(p)' PROVE Counts(proc[p])'
  <2>1. proc[p].phase \in {"starting", "run"} /\ Owns(p)
    BY <1>3 DEF Steps, Frame
  <2>2. Counts(y)
    BY <1>1, <1>3, <2>1 DEF StartOK, Steps
  <2> QED
    BY <2>2 DEF Counts, Knows, Pending
<1> QED
  BY <1>2, <1>3 DEF StartOK, MayWrite

\* ... in terms of what is completed.
LEMMA StepDone ==
    ASSUME IInv, Undisturbed, NEW p \in Procs, NEW y, Frame(proc[p], y), proc'[p] = y,
           Progress(proc[p], y) \/ ~CanFlush(p), deps' = deps, store' = store
    PROVE  DoneOK(p)'
<1>1. /\ DoneOK(p) /\ Tidy(proc[p])
      /\ proc[p].phase \in {"starting", "run", "leaving", "done"}
  BY DEF IInv, CompletedInv, TidyInv, Frame, Undisturbed
<1>2. y.phase \in {"starting", "run", "leaving", "done"} /\ y.revision # "ahead"
  BY <1>1 DEF Frame, DoneOK
<1>3. Single(y)
  BY <1>1 DEF Frame, DoneOK, Single
<1>4. ASSUME Writer(p)' PROVE WriterOK(y) /\ Keeps(store.job, y.mem)
  <2>1. y.phase \in {"starting", "run"} /\ CanFlush(p)
    BY <1>4 DEF Writer, CanFlush, Owns, Frame
  <2>2. Writer(p)
    BY <2>1 DEF Writer, Frame
  <2>3. WriterOK(proc[p]) /\ Keeps(store.job, proc[p].mem) /\ Single(proc[p])
    BY <1>1, <2>2 DEF DoneOK
  <2>4. WriterOK(y) /\ Keeps(proc[p].mem, y.mem)
    BY <1>1, <2>1, <2>3 DEF Progress
  <2> QED
    BY <2>3, <2>4 DEF Keeps
<1>5. ASSUME Writer(p)' PROVE WriterOK(proc[p])' /\ Keeps(store.job, proc[p].mem)'
  BY <1>4, <1>5 DEF WriterOK, Keeps, Agrees, Whole, Pending, Listed
<1>6. \A e \in Attempts : y.ex[e].at = "run" => \A d \in deps[e[1]] : store.job.node[d] = "completed"
  BY <1>1 DEF DoneOK, Frame
<1>7. Single(proc[p])'
  BY <1>3 DEF Single
<1> QED
  BY <1>2, <1>5, <1>6, <1>7 DEF DoneOK

\* A step of p alone.
LEMMA LocalStep ==
    ASSUME IInv, NEW p \in Procs, NEW z, proc' = [proc EXCEPT ![p] = z], Progress(proc[p], z), LooseStep,
           store' = store, deps' = deps, starts' = starts,
           incidents \subseteq incidents', incidents' \subseteq Incidents
    PROVE  IInv'
<1>1. z \in ProcRecord /\ RestOK(z) /\ Steps(proc[p], z) /\ Frame(proc[p], z)
  BY DEF Progress, Steps, Frame
<1>2. proc \in [Procs -> ProcRecord] /\ store \in StoreRecord /\ loose \in BOOLEAN
  BY DEF IInv, TypeInv
<1>3. /\ proc' \in [Procs -> ProcRecord] /\ proc'[p] = z /\ \A q \in Procs \ {p} : proc'[q] = proc[q]
  BY <1>1, <1>2
<1>4. \A q \in Procs : Owns(q)' => Owns(q)
  <2>1. Owns(p)' => Owns(p)
    BY <1>1, <1>3 DEF Owns, Frame
  <2>2. \A q \in Procs \ {p} : Owns(q)' => Owns(q)
    BY <1>3 DEF Owns
  <2> QED
    BY <2>1, <2>2
<1>5. RestOK(proc[p])'
  BY <1>1, <1>3 DEF RestOK, Pending, Exhausted
<1>6. (~loose' => ~loose) /\ (Undisturbed' => Undisturbed)
  BY <1>2, Ghost
<1>7. ~loose' => StartOK(p)'
  BY <1>1, <1>3, <1>4, <1>6, StepStarts
<1>8. Undisturbed' => DoneOK(p)'
  BY <1>1, <1>3, <1>6, StepDone
<1> QED
  BY <1>2, <1>3, <1>4, <1>5, <1>7, <1>8, Unwritten

\* A process that has something under way, and whose flush is accepted, runs the job.
LEMMA WriterHolds ==
    ASSUME IInv, NEW p \in Procs, CanFlush(p), proc[p].phase \in {"starting", "run", "leaving", "done"},
           proc[p].phase = "starting" \/ ~AtRest(proc[p])
    PROVE  /\ ~loose => /\ proc[p].phase \in {"starting", "run"} /\ Owns(p) /\ Counts(proc[p])
                        /\ ~Overlap(proc[p]) /\ Tidy(proc[p])
           /\ Undisturbed => /\ Writer(p) /\ WriterOK(proc[p]) /\ Keeps(store.job, proc[p].mem)
                             /\ Single(proc[p])
<1>1. ASSUME ~loose PROVE /\ proc[p].phase \in {"starting", "run"} /\ Owns(p) /\ Counts(proc[p])
                          /\ ~Overlap(proc[p]) /\ Tidy(proc[p])
  <2>1. Tidy(proc[p]) /\ StartOK(p) /\ RestOK(proc[p])
    BY <1>1 DEF IInv, TidyInv, StartsInv, TypeInv
  <2>2. proc[p].phase \in {"starting", "run"}
    BY <2>1 DEF Tidy, Straggling
  <2>3. Owns(p)
    BY <2>1, <2>2 DEF RestOK, CanFlush
  <2> QED
    BY <2>1, <2>2, <2>3 DEF StartOK, Tidy
<1>2. ASSUME Undisturbed PROVE Writer(p) /\ WriterOK(proc[p]) /\ Keeps(store.job, proc[p].mem) /\ Single(proc[p])
  <2>1. Writer(p) /\ DoneOK(p)
    BY <1>1, <1>2 DEF Undisturbed, Writer, IInv, CompletedInv
  <2> QED
    BY <2>1 DEF DoneOK
<1> QED
  BY <1>1, <1>2

\* The flush is refused, or the write fails.
LEMMA ThrownStep ==
    ASSUME IInv, NEW p \in Procs, NEW thrown, Steps(proc[p], thrown), LooseStep,
           store' = store, deps' = deps, starts' = starts,
           \/ /\ ~CanFlush(p) /\ proc' = [proc EXCEPT ![p] = thrown] /\ incidents' = incidents
           \/ /\ Incident("write")
              /\ \E r \in {"same", "ahead"} : proc' = [proc EXCEPT ![p] = [thrown EXCEPT !.revision = r]]
    PROVE  IInv'
<1>0. /\ thrown \in ProcRecord /\ RestOK(thrown) /\ Frame(proc[p], thrown)
      /\ thrown.phase \in {"starting", "run", "leaving", "done"} /\ thrown.claim = proc[p].claim
  BY DEF Steps, Frame
<1>1. proc \in [Procs -> ProcRecord] /\ store \in StoreRecord /\ loose \in BOOLEAN
  BY DEF IInv, TypeInv
<1>2. /\ proc'[p] \in ProcRecord /\ \A q \in Procs \ {p} : proc'[q] = proc[q]
      /\ proc'[p].phase = thrown.phase /\ proc'[p].claim = thrown.claim /\ proc'[p].mem = thrown.mem
      /\ proc'[p].pump = thrown.pump /\ proc'[p].ex = thrown.ex /\ proc'[p].ctl = thrown.ctl
      /\ proc'[p].finished = thrown.finished
  <2>1. ASSUME NEW r \in {"same", "ahead"}
        PROVE  LET y == [thrown EXCEPT !.revision = r] IN
               /\ y \in ProcRecord /\ y.phase = thrown.phase /\ y.claim = thrown.claim /\ y.mem = thrown.mem
               /\ y.pump = thrown.pump /\ y.ex = thrown.ex /\ y.ctl = thrown.ctl /\ y.finished = thrown.finished
    BY <1>0 DEF ProcRecord
  <2>2. CASE proc' = [proc EXCEPT ![p] = thrown]
    BY <1>0, <1>1, <2>2
  <2>3. ASSUME NEW r \in {"same", "ahead"}, proc' = [proc EXCEPT ![p] = [thrown EXCEPT !.revision = r]]
        PROVE  /\ proc'[p] \in ProcRecord /\ \A q \in Procs \ {p} : proc'[q] = proc[q]
               /\ proc'[p].phase = thrown.phase /\ proc'[p].claim = thrown.claim /\ proc'[p].mem = thrown.mem
               /\ proc'[p].pump = thrown.pump /\ proc'[p].ex = thrown.ex /\ proc'[p].ctl = thrown.ctl
               /\ proc'[p].finished = thrown.finished
    <3> DEFINE y == [thrown EXCEPT !.revision = r]
    <3>1. proc' = [proc EXCEPT ![p] = y]
      BY <2>3
    <3>2. /\ y \in ProcRecord /\ y.phase = thrown.phase /\ y.claim = thrown.claim /\ y.mem = thrown.mem
          /\ y.pump = thrown.pump /\ y.ex = thrown.ex /\ y.ctl = thrown.ctl /\ y.finished = thrown.finished
      BY <2>1
    <3> HIDE DEF y
    <3> QED
      BY <1>1, <3>1, <3>2
  <2> QED
    BY <2>2, <2>3
<1>3. proc' \in [Procs -> ProcRecord]
  <2>1. \E y : proc' = [proc EXCEPT ![p] = y]
    OBVIOUS
  <2>2. PICK y : proc' = [proc EXCEPT ![p] = y]
    BY <2>1
  <2> QED
    BY <1>1, <1>2, <2>2
<1>4. \A q \in Procs : Owns(q)' => Owns(q)
  <2>1. Owns(p)' => Owns(p)
    BY <1>0, <1>2 DEF Owns
  <2>2. \A q \in Procs \ {p} : Owns(q)' => Owns(q)
    BY <1>2 DEF Owns
  <2> QED
    BY <2>1, <2>2
<1>5. RestOK(proc[p])'
  BY <1>0, <1>2 DEF RestOK, Pending, Exhausted
<1>6. incidents \subseteq incidents' /\ incidents' \subseteq Incidents
  BY DEF Incident, IInv, TypeInv
<1>7. (~loose' => ~loose) /\ (Undisturbed' => Undisturbed)
  BY <1>1, <1>6, Ghost
<1>8. ~loose' => StartOK(p)'
  BY <1>2, <1>4, <1>7, StepStarts
<1>9. ASSUME Undisturbed' PROVE DoneOK(p)'
  <2>1. ~CanFlush(p) /\ proc'[p] = thrown
    BY <1>0, <1>1, <1>9 DEF Undisturbed, Incident
  <2> QED
    BY <1>0, <1>7, <1>9, <2>1, StepDone
<1> QED
  BY <1>1, <1>2, <1>3, <1>4, <1>5, <1>6, <1>8, <1>9, Unwritten

\* A flush of a process that runs the job.
LEMMA FlushStep ==
    ASSUME IInv, NEW p \in Procs, NEW done, NEW thrown, Flush(p, done, thrown),
           Progress(proc[p], done), Steps(proc[p], thrown),
           proc[p].phase = "starting" \/ ~AtRest(proc[p]), LooseStep, starts' = starts
    PROVE  IInv'
<1>1. CASE ~CanFlush(p) /\ proc' = [proc EXCEPT ![p] = thrown] /\ UNCHANGED <<store, incidents>>
  BY <1>1, ThrownStep DEF Flush
<1>2. CASE /\ CanFlush(p) /\ Incident("write") /\ UNCHANGED store
           /\ \E r \in {"same", "ahead"} : proc' = [proc EXCEPT ![p] = [thrown EXCEPT !.revision = r]]
  BY <1>2, ThrownStep DEF Flush
<1>3. CASE /\ CanFlush(p) /\ store' = [store EXCEPT !.job = proc[p].mem]
           /\ proc' = Written(p, done) /\ UNCHANGED incidents
  <2> DEFINE s == proc[p]
             m == s.mem
  <2>0. /\ done \in ProcRecord /\ RestOK(done) /\ Frame(s, done) /\ Steps(s, done)
        /\ s.phase \in {"starting", "run", "leaving", "done"}
        /\ done.phase \in {"starting", "run", "leaving", "done"}
        /\ done.phase \in {"starting", "run"} => s.phase \in {"starting", "run"}
    BY DEF Progress, Steps, Frame
  <2>1. /\ s \in ProcRecord /\ RestOK(s) /\ store \in StoreRecord /\ loose \in BOOLEAN
        /\ deps' = deps /\ deps \in Graphs /\ starts \in [Attempts -> Nat]
    BY DEF IInv, TypeInv, Flush
  <2>2. m \in Job /\ Exhausted(m)
    BY <2>1, ProcParts DEF RestOK
  <2>3. proc'[p] = done /\ store'.job = m /\ store'.lease = store.lease /\ store'.owner = store.owner
    BY <1>3, <2>1 DEF Written, StoreRecord
  <2>4. (~loose' => ~loose) /\ (Undisturbed' => Undisturbed)
    BY <1>3, <2>1, Ghost
  <2>5. /\ ~loose => s.phase \in {"starting", "run"} /\ Owns(p) /\ Counts(s) /\ ~Overlap(s) /\ Tidy(s)
        /\ Undisturbed => Writer(p) /\ WriterOK(s) /\ Keeps(store.job, m) /\ Single(s)
    BY <1>3, <2>0, WriterHolds
  <2>6. ASSUME ~loose' PROVE (\A e \in Attempts : starts'[e] <= 1) /\ Knows(store.job)' /\ StartOK(p)'
    <3>1. \A e \in Attempts : starts'[e] <= 1
      BY <2>4, <2>6 DEF IInv, StartsInv
    <3>2. Knows(store.job)'
      BY <2>3, <2>4, <2>5, <2>6 DEF Counts, Knows
    <3>3. StartOK(p)'
      BY <2>0, <2>3, <2>4, <2>5, <2>6, StepStarts
    <3> QED
      BY <3>1, <3>2, <3>3
  <2>7. ASSUME Undisturbed' PROVE Agrees(m) /\ Whole(m) /\ Keeps(store.job, m) /\ DoneOK(p)'
    <3>0. Undisturbed /\ ~loose
      BY <2>4, <2>7 DEF Undisturbed
    <3>1. Agrees(m) /\ Whole(m) /\ Keeps(store.job, m) /\ WriterOK(s) /\ Single(s) /\ Tidy(s)
      BY <2>5, <3>0 DEF WriterOK
    <3>2. done.phase \in {"starting", "run"} => WriterOK(done) /\ Keeps(m, done.mem)
      BY <3>1 DEF Progress
    <3>3. Writer(p)' => WriterOK(proc[p])' /\ Keeps(store.job, proc[p].mem)'
      <4>1. Writer(p)' => done.phase \in {"starting", "run"}
        BY <2>3 DEF Writer
      <4> QED
        BY <2>1, <2>3, <3>2, <4>1 DEF WriterOK, Keeps, Agrees, Whole, Pending, Listed
    <3>4. done.revision # "ahead"
      BY <1>3, <2>0 DEF Frame, CanFlush
    <3>5. Single(done)
      BY <2>0, <3>1 DEF Single, Frame
    <3>6. Single(proc[p])'
      BY <2>3, <3>5 DEF Single
    <3>7. ASSUME NEW e \in Attempts, done.ex[e].at = "run", NEW d \in deps[e[1]]
          PROVE  m.node[d] = "completed"
      <4>1. store.job.node[d] = "completed"
        BY <2>0, <3>0, <3>7 DEF IInv, CompletedInv, DoneOK, Frame
      <4>2. d \in Tasks
        BY <2>1, DepsFacts DEF Attempts
      <4> QED
        BY <3>1, <4>1, <4>2 DEF Keeps
    <3>8. DoneOK(p)'
      BY <2>0, <2>1, <2>3, <3>3, <3>4, <3>6, <3>7 DEF DoneOK
    <3> QED
      BY <3>1, <3>8
  <2>8. incidents \subseteq incidents' /\ incidents' \subseteq Incidents /\ starts' \in [Attempts -> Nat]
    BY <1>3, <2>1 DEF IInv, TypeInv
  <2> QED
    BY <1>3, <2>0, <2>1, <2>2, <2>6, <2>7, <2>8, Overwritten
<1> QED
  BY <1>1, <1>2, <1>3 DEF Flush

-----------------------------------------------------------------------------
(* The actions *)

LEMMA ProcFacts ==
    ASSUME IInv, NEW p \in Procs
    PROVE  /\ proc[p] \in ProcRecord /\ RestOK(proc[p]) /\ deps \in Graphs /\ loose \in BOOLEAN
           /\ proc \in [Procs -> ProcRecord] /\ store \in StoreRecord /\ Exhausted(store.job)
           /\ starts \in [Attempts -> Nat] /\ incidents \subseteq Incidents
BY DEF IInv, TypeInv

LEMMA IncidentFacts ==
    ASSUME IInv, NEW kind, Incident(kind)
    PROVE  incidents \subseteq incidents' /\ incidents' \subseteq Incidents
BY DEF Incident, IInv, TypeInv

LEMMA PumpAgainInv ==
    ASSUME IInv, LooseStep, NEW p \in Procs, PumpAgain(p)
    PROVE  IInv'
<1> DEFINE z == DoPump([proc[p] EXCEPT !.pump = Quiet])
<1>1. proc' = [proc EXCEPT ![p] = z]
  BY DEF PumpAgain
<1>2. Progress(proc[p], z)
  BY ProcFacts, PumpingPhase, AgainProgress DEF PumpAgain, Pumping
<1>3. UNCHANGED <<deps, store, incidents, starts>>
  BY DEF PumpAgain
<1> HIDE DEF z
<1> QED
  BY <1>1, <1>2, <1>3, ProcFacts, LocalStep

LEMMA AssignedInv ==
    ASSUME IInv, LooseStep, NEW p \in Procs, Assigned(p)
    PROVE  IInv'
<1> DEFINE s == proc[p]
           z == [s EXCEPT !.mem.node[s.pump.task] = "running", !.pump.at = "dispatch", !.pump.half = 1]
<1>1. proc' = [proc EXCEPT ![p] = z]
  BY ProcFacts DEF Assigned
<1>2. Progress(s, z)
  BY ProcFacts, AssignedProgress DEF Assigned, Pumping
<1>3. UNCHANGED <<deps, store, incidents, starts>>
  BY DEF Assigned
<1> HIDE DEF z
<1> QED
  BY <1>1, <1>2, <1>3, ProcFacts, LocalStep

LEMMA NotPlacedInv ==
    ASSUME IInv, LooseStep, NEW p \in Procs, NotPlaced(p)
    PROVE  IInv'
<1> DEFINE s == proc[p]
           z == CheckTermination(NotPlacedYet(s))
<1>1. proc' = [proc EXCEPT ![p] = z] /\ s.pump.at = "assign"
  BY DEF NotPlaced, NotPlacedYet, Pumping
<1>2. PumpMove(s, z, {}) /\ s.phase \in {"run", "leaving", "done"}
  BY <1>1, ProcFacts, NotPlacedFacts, PumpingPhase
<1> HIDE DEF z
<1>3. Progress(s, z)
  BY <1>2, ProcFacts, MoveProgress
<1>4. UNCHANGED <<deps, store, starts>> /\ incidents \subseteq incidents' /\ incidents' \subseteq Incidents
  BY IncidentFacts DEF NotPlaced
<1> QED
  BY <1>1, <1>3, <1>4, LocalStep

LEMMA NotAssignedInv ==
    ASSUME IInv, LooseStep, NEW p \in Procs, NotAssigned(p)
    PROVE  IInv'
<1> DEFINE s == proc[p]
           z == FailNode([s EXCEPT !.active[s.pump.task] = 0], "unassigned", s.pump.task, s.pump.ready)
<1>1. proc' = [proc EXCEPT ![p] = z]
  BY DEF NotAssigned
<1>2. Progress(s, z)
  BY ProcFacts, NotAssignedProgress DEF NotAssigned, Pumping
<1>3. UNCHANGED <<deps, store, starts>> /\ incidents \subseteq incidents' /\ incidents' \subseteq Incidents
  BY IncidentFacts DEF NotAssigned
<1> HIDE DEF z
<1> QED
  BY <1>1, <1>2, <1>3, LocalStep

LEMMA PumpNodeSavedInv ==
    ASSUME IInv, LooseStep, NEW p \in Procs, PumpNodeSaved(p)
    PROVE  IInv'
<1> DEFINE s == proc[p]
           to == IF s.pump.at = "dispatch" THEN "running" ELSE "failed"
           done == IF CanTask(s.mem.task[s.pump.task], to)
                   THEN [s EXCEPT !.mem.task[s.pump.task] = to, !.pump.half = 2] ELSE PumpThrow(s)
<1>1. Flush(p, done, PumpThrow(s)) /\ starts' = starts /\ s.pump.at # "idle"
  BY DEF PumpNodeSaved, Pumping
<1>2. Progress(s, done)
  BY <1>1, ProcFacts, NodeSavedProgress
<1>3. Steps(s, PumpThrow(s))
  BY <1>1, ProcFacts, PumpingPhase, PumpThrowProgress DEF Progress
<1>4. ~AtRest(s)
  BY <1>1 DEF AtRest
<1> HIDE DEF done
<1> QED
  BY <1>1, <1>2, <1>3, <1>4, FlushStep

LEMMA PumpTaskSavedInv ==
    ASSUME IInv, LooseStep, NEW p \in Procs, PumpTaskSaved(p)
    PROVE  IInv'
<1> DEFINE s == proc[p]
           done == CASE s.pump.at = "cascade" -> Cascade(s)
                     [] s.pump.at = "unassigned" -> Dispatching(s)
                     [] OTHER -> Deadlocked(s, s.pump.ready)
<1>1. Flush(p, done, PumpThrow(s)) /\ starts' = starts /\ s.pump.at \in {"cascade", "unassigned", "deadlock"}
  BY DEF PumpTaskSaved, Pumping
<1>2. Progress(s, done)
  BY <1>1, ProcFacts, TaskSavedProgress
<1>3. Steps(s, PumpThrow(s))
  BY <1>1, ProcFacts, PumpingPhase, PumpThrowProgress DEF Progress
<1>4. ~AtRest(s)
  BY <1>1 DEF AtRest
<1> HIDE DEF done
<1> QED
  BY <1>1, <1>2, <1>3, <1>4, FlushStep

LEMMA FinishedInv ==
    ASSUME IInv, LooseStep, NEW p \in Procs, Finished(p)
    PROVE  IInv'
<1> DEFINE s == proc[p]
           y == [proc[p] EXCEPT !.pump = Quiet]
<1>1. Flush(p, Reject(y), PumpThrow(y)) /\ starts' = starts /\ s.pump.at = "finish"
  BY DEF Finished, Pumping
<1>2. Progress(s, Reject(y)) /\ Progress(s, PumpThrow(y))
  BY <1>1, ProcFacts, PumpingPhase, FinishedProgress
<1>3. Steps(s, PumpThrow(y)) /\ ~AtRest(s)
  BY <1>1, <1>2 DEF Progress, AtRest
<1> HIDE DEF y
<1> QED
  BY <1>1, <1>2, <1>3, FlushStep

LEMMA ExecutorReturnsInv ==
    ASSUME IInv, LooseStep, NEW p \in Procs, NEW e \in Attempts, NEW outcome, ExecutorReturns(p, e, outcome)
    PROVE  IInv'
<1> DEFINE s == proc[p]
           branch == Branch(s, e, outcome)
           z == IF FirstAllowed(s.mem, e[1], branch) THEN Enter(s, e, branch, FALSE)
                ELSE Catch([s EXCEPT !.mem = Refused(@, e[1], branch), !.orphaned = @ \ {e[1]}], e, "failed")
<1>1. proc' = [proc EXCEPT ![p] = z] /\ s.ex[e].at = "run"
  BY DEF ExecutorReturns
<1>2. Progress(s, z)
  BY <1>1, ProcFacts, ReturnProgress
<1>3. UNCHANGED <<deps, store, incidents, starts>>
  BY DEF ExecutorReturns
<1> HIDE DEF z
<1> QED
  BY <1>1, <1>2, <1>3, ProcFacts, LocalStep

LEMMA ExecutorThrowsInv ==
    ASSUME IInv, LooseStep, NEW p \in Procs, NEW e \in Attempts, NEW outcome, outcome # "success",
           ExecutorThrows(p, e, outcome)
    PROVE  IInv'
<1> DEFINE z == Catch(proc[p], e, outcome)
<1>1. proc' = [proc EXCEPT ![p] = z] /\ proc[p].ex[e].at = "run"
  BY DEF ExecutorThrows
<1>2. Progress(proc[p], z)
  BY <1>1, ProcFacts, CatchProgress
<1>3. UNCHANGED <<deps, store, incidents, starts>>
  BY DEF ExecutorThrows
<1> HIDE DEF z
<1> QED
  BY <1>1, <1>2, <1>3, ProcFacts, LocalStep

LEMMA AttemptSavedInv ==
    ASSUME IInv, LooseStep, NEW p \in Procs, NEW e \in Attempts, AttemptSaved(p, e)
    PROVE  IInv'
<1> DEFINE s == proc[p]
           done == IF s.ex[e].half = 2 \/ s.ex[e].at \in {"complete", "fail"} THEN Leave(s, e)
                   ELSE IF SecondAllowed(s.mem, e[1], s.ex[e].at)
                   THEN [s EXCEPT !.mem = SecondChange(@, e[1], s.ex[e].at), !.ex[e].half = 2]
                   ELSE Throw(s, e)
<1>1. Flush(p, done, Throw(s, e)) /\ starts' = starts /\ s.ex[e].at \notin {"none", "run"}
  BY DEF AttemptSaved
<1>2. Progress(s, done)
  BY <1>1, ProcFacts, SavedProgress
<1>3. Steps(s, Throw(s, e))
  BY <1>1, ProcFacts, ThrowProgress
<1>4. ~AtRest(s)
  BY <1>1 DEF AtRest
<1> HIDE DEF done
<1> QED
  BY <1>1, <1>2, <1>3, <1>4, FlushStep

LEMMA StartSavedInv ==
    ASSUME IInv, LooseStep, NEW p \in Procs, StartSaved(p)
    PROVE  IInv'
<1> DEFINE s == proc[p]
           done == DoPump([proc[p] EXCEPT !.phase = "run"])
<1>1. Flush(p, done, Reject(s)) /\ starts' = starts /\ s.phase = "starting"
  BY DEF StartSaved
<1>2. Progress(s, done) /\ Progress(s, Reject(s))
  BY <1>1, ProcFacts, StartProgress
<1>3. Steps(s, Reject(s))
  BY <1>2 DEF Progress
<1> HIDE DEF done
<1> QED
  BY <1>1, <1>2, <1>3, FlushStep

\* Cancellations, timeouts, pauses and orphan reports in the process that runs the job.
LEMMA ControlInv ==
    ASSUME IInv, LooseStep, NEW p \in Procs,
           \/ UserCancels(p) \/ TimesOut(p) \/ RenewCancels(p) \/ RenewFails(p) \/ SignalAborts(p) \/ Pauses(p)
           \/ \E t \in Tasks : CancelsTask(p, t) \/ ReportsOrphaned(p, t)
    PROVE  IInv'
<1> DEFINE s == proc[p]
<1>0. s \in ProcRecord /\ RestOK(s) /\ deps \in Graphs /\ incidents \subseteq Incidents
  BY ProcFacts
<1>1. ASSUME NEW z, proc' = [proc EXCEPT ![p] = z], Touched(s, z), s.phase \in {"starting", "run"},
             UNCHANGED <<deps, store, starts>>, incidents' = incidents \/ \E kind : Incident(kind)
      PROVE  IInv'
  <2>1. Progress(s, z)
    BY <1>0, <1>1, TouchedProgress
  <2>2. incidents \subseteq incidents' /\ incidents' \subseteq Incidents
    BY <1>0, <1>1, IncidentFacts
  <2> QED
    BY <1>1, <2>1, <2>2, LocalStep
<1>2. CASE UserCancels(p)
  <2>1. Touched(s, CancelJob(s, "cancel"))
    BY <1>0, CancelJobTouched
  <2> QED
    BY <1>1, <1>2, <2>1 DEF UserCancels, Controllable
<1>3. CASE TimesOut(p)
  <2>1. Touched(s, CancelJob([s EXCEPT !.timedOut = TRUE], "cancel"))
    BY <1>0, TimesOutTouched
  <2> QED
    BY <1>1, <1>3, <2>1 DEF TimesOut, Controllable
<1>4. CASE RenewCancels(p)
  <2>1. Touched(s, CancelJob(s, "renewCancel"))
    BY <1>0, CancelJobTouched
  <2> QED
    BY <1>1, <1>4, <2>1 DEF RenewCancels, Controllable
<1>5. CASE RenewFails(p)
  <2>1. Alike(s, AbortAll(s)) /\ Alike(s, [s EXCEPT !.aborted = TRUE])
    BY <1>0, AbortAllAlike DEF Alike, ProcRecord
  <2>2. Touched(s, AbortAll(s)) /\ Touched(s, [s EXCEPT !.aborted = TRUE])
    BY <1>0, <2>1, AlikeTouched
  <2> DEFINE z == IF s.phase = "run" THEN AbortAll(s) ELSE [s EXCEPT !.aborted = TRUE]
  <2>3. proc' = [proc EXCEPT ![p] = z]
    BY <1>5 DEF RenewFails
  <2>4. Touched(s, z)
    BY <2>2
  <2> HIDE DEF z
  <2> QED
    BY <1>1, <1>5, <2>3, <2>4 DEF RenewFails
<1>a. CASE SignalAborts(p)
  <2>1. Alike(s, [s EXCEPT !.aborted = TRUE])
    BY <1>0 DEF Alike, ProcRecord
  <2>2. Touched(s, [s EXCEPT !.aborted = TRUE])
    BY <1>0, <2>1, AlikeTouched
  <2>3. proc' = [proc EXCEPT ![p] = [s EXCEPT !.aborted = TRUE]]
    BY <1>a, ProcFacts DEF SignalAborts
  <2> QED
    BY <1>1, <1>a, <2>2, <2>3 DEF SignalAborts
<1>6. CASE Pauses(p)
  <2> DEFINE z == [s EXCEPT !.mem.status = "paused", !.ctl.what = "pause"]
  <2>1. Touched(s, z)
    BY <1>0, StatusTouched
  <2>2. proc' = [proc EXCEPT ![p] = z]
    BY <1>6, ProcFacts DEF Pauses
  <2> HIDE DEF z
  <2> QED
    BY <1>1, <1>6, <2>1, <2>2 DEF Pauses, Controllable
<1>7. ASSUME NEW t \in Tasks, CancelsTask(p, t) PROVE IInv'
  <2> DEFINE z == LET s1 == IF s.active[t] = 0 THEN s
                            ELSE [s EXCEPT !.stopped = @ \cup {<<t, s.active[t] - 1>>}, !.active[t] = 0]
                  IN  IF s.mem.task[t] \in Terminal THEN s1
                      ELSE [s1 EXCEPT !.mem.task[t] = "cancelled",
                                      !.ctl = [what |-> "cancelTask", task |-> t, half |-> 1]]
  <2>1. Touched(s, z)
    BY <1>0, CancelsTaskTouched
  <2>2. proc' = [proc EXCEPT ![p] = z]
    BY <1>7 DEF CancelsTask
  <2> HIDE DEF z
  <2> QED
    BY <1>1, <1>7, <2>1, <2>2 DEF CancelsTask, Controllable
<1>8. ASSUME NEW t \in Tasks, ReportsOrphaned(p, t) PROVE IInv'
  <2> DEFINE z == [s EXCEPT !.orphaned = @ \cup {t}, !.stopped = @ \cup {<<t, s.active[t] - 1>>}]
  <2>1. Touched(s, z)
    BY <1>0, <1>8, ReportsOrphanedAlike, AlikeTouched DEF ReportsOrphaned
  <2>2. proc' = [proc EXCEPT ![p] = z]
    BY <1>8, ProcFacts DEF ReportsOrphaned
  <2> HIDE DEF z
  <2> QED
    BY <1>1, <1>8, <2>1, <2>2 DEF ReportsOrphaned
<1> QED
  BY <1>2, <1>3, <1>4, <1>5, <1>a, <1>6, <1>7, <1>8

\* resume() in a process that does not run the job: its copy may be written.
LEMMA ResumesInv ==
    ASSUME IInv, LooseStep, NEW p \in Procs, Resumes(p)
    PROVE  IInv'
<1> DEFINE s == proc[p]
           z == [s EXCEPT !.mem.status = "ready", !.ctl.what = "resume"]
<1>0. s \in ProcRecord /\ RestOK(s) /\ deps \in Graphs /\ proc \in [Procs -> ProcRecord]
      /\ loose \in BOOLEAN /\ incidents \subseteq Incidents /\ store \in StoreRecord
  BY ProcFacts
<1>1. /\ Touched(s, z) /\ z.mem = [s.mem EXCEPT !.status = "ready"] /\ z.ctl.what = "resume"
      /\ z.ex = s.ex /\ z.pump = s.pump
  BY <1>0, StatusTouched
<1>2. proc' = [proc EXCEPT ![p] = z] /\ UNCHANGED <<deps, store, incidents, starts>> /\ s.mem.status = "paused"
  BY <1>0 DEF Resumes
<1> HIDE DEF z
<1>3. CASE s.phase # "idle"
  BY <1>0, <1>1, <1>2, <1>3, TouchedProgress, LocalStep DEF Resumes, Controllable
<1>4. CASE s.phase = "idle"
  <2>1. /\ z \in ProcRecord /\ z.phase = "idle" /\ z.claim = s.claim /\ z.revision = s.revision
        /\ z.finished = s.finished
    BY <1>1, <1>4 DEF Touched
  <2>2. /\ z.mem.status = "ready" /\ z.mem.node = s.mem.node /\ z.mem.retry = s.mem.retry
        /\ z.mem.task = s.mem.task
    BY <1>0, <1>1, ProcParts DEF Job
  <2>3. proc' \in [Procs -> ProcRecord] /\ proc'[p] = z /\ \A q \in Procs \ {p} : proc'[q] = proc[q]
    BY <1>0, <1>2, <2>1
  <2>4. \A q \in Procs \ {p} : Owns(q)' => Owns(q)
    BY <1>2, <2>3 DEF Owns
  <2>5. RestOK(z)
    BY <1>0, <1>1, <1>4, <2>1, <2>2 DEF RestOK, Exhausted, Pending
  <2>6. RestOK(proc[p])'
    BY <2>3, <2>5 DEF RestOK, Pending, Exhausted
  <2>7. (~loose' => ~loose) /\ (Undisturbed' => Undisturbed)
    BY <1>0, <1>2, Ghost
  <2>8. ASSUME ~loose' PROVE StartOK(p)'
    <3>1. StartOK(p)
      BY <2>7, <2>8 DEF IInv, StartsInv
    <3>2. z.revision # "ahead"
      BY <1>2, <1>4, <2>1, <3>1 DEF StartOK
    <3>3. MayWrite(z) => Knows(s.mem)
      BY <1>2, <1>4, <2>1, <3>1 DEF StartOK, MayWrite
    <3>4. MayWrite(proc[p])' => Knows(proc[p].mem)'
      BY <1>2, <2>2, <2>3, <3>3 DEF MayWrite, Knows
    <3> QED
      BY <2>1, <2>3, <3>2, <3>4 DEF StartOK
  <2>9. ASSUME Undisturbed' PROVE DoneOK(p)'
    <3>1. DoneOK(p)
      BY <2>7, <2>9 DEF IInv, CompletedInv
    <3>2. Single(proc[p])'
      BY <1>1, <2>3, <3>1 DEF DoneOK, Single
    <3>3. ~Writer(p)'
      BY <2>1, <2>3 DEF Writer
    <3>4. z.revision = "same" => Keeps(store.job, proc[p].mem)' /\ Agrees(proc[p].mem)'
      BY <1>2, <1>4, <2>1, <2>2, <2>3, <3>1 DEF DoneOK, Keeps, Agrees
    <3> QED
      BY <1>1, <1>2, <1>4, <2>1, <2>3, <3>1, <3>2, <3>3, <3>4 DEF DoneOK
  <2> QED
    BY <1>0, <1>2, <2>3, <2>4, <2>6, <2>8, <2>9, Unwritten
<1> QED
  BY <1>3, <1>4

\* A process that does not run the job has written its copy: the healed record, or a
\* job that is resumed.
LEMMA IdleSaved ==
    ASSUME IInv, LooseStep, NEW p \in Procs, CanFlush(p),
           proc[p].phase = "healing" \/ (proc[p].phase = "idle" /\ proc[p].ctl.what # "none"),
           NEW z \in ProcRecord, RestOK(z), z.phase = "idle", z.mem = proc[p].mem, z.revision = "same",
           z.ctl.what = "none", z.ex = proc[p].ex,
           store' = [store EXCEPT !.job = proc[p].mem], proc' = Written(p, z), UNCHANGED <<deps, starts, incidents>>
    PROVE  IInv'
<1> DEFINE s == proc[p]
           m == s.mem
<1>0. s \in ProcRecord /\ RestOK(s) /\ deps \in Graphs /\ loose \in BOOLEAN /\ store \in StoreRecord
      /\ starts \in [Attempts -> Nat] /\ incidents \subseteq Incidents /\ m \in Job /\ Exhausted(m)
  BY ProcFacts, ProcParts DEF RestOK
<1>1. s.revision = "same" /\ MayWrite(s)
  BY <1>0 DEF CanFlush, MayWrite, RestOK
<1>2. proc'[p] = z /\ store'.job = m
  BY <1>0 DEF Written, StoreRecord
<1>3. (~loose' => ~loose) /\ (Undisturbed' => Undisturbed)
  BY <1>0, Ghost
<1>4. ASSUME ~loose' PROVE (\A e \in Attempts : starts'[e] <= 1) /\ Knows(store.job)' /\ StartOK(p)'
  <2>1. (\A e \in Attempts : starts[e] <= 1) /\ Knows(m)
    BY <1>1, <1>3, <1>4 DEF IInv, StartsInv, StartOK
  <2>2. Knows(store.job)' /\ Knows(proc[p].mem)'
    BY <1>2, <2>1 DEF Knows
  <2>3. StartOK(p)'
    BY <1>2, <2>2 DEF StartOK
  <2> QED
    BY <2>1, <2>2, <2>3
<1>5. ASSUME Undisturbed' PROVE Agrees(m) /\ Whole(m) /\ Keeps(store.job, m) /\ DoneOK(p)'
  <2>1. DoneOK(p)
    BY <1>3, <1>5 DEF IInv, CompletedInv
  <2>2. Agrees(m) /\ Keeps(store.job, m) /\ Single(s)
    BY <1>1, <2>1 DEF DoneOK
  <2>3. Whole(m)
    <3>1. CASE s.phase = "healing"
      BY <1>1, <2>1, <3>1 DEF DoneOK
    <3>2. CASE s.phase = "idle"
      BY <1>0, <3>2 DEF RestOK, Whole
    <3> QED
      BY <3>1, <3>2
  <2>4. /\ Single(proc[p])' /\ Agrees(proc[p].mem)' /\ Keeps(store.job, proc[p].mem)' /\ ~Writer(p)'
    BY <1>2, <2>2 DEF Single, Agrees, Keeps, Writer
  <2>5. \A e \in Attempts : z.ex[e].at = "none"
    BY <1>0 DEF RestOK
  <2>6. DoneOK(p)'
    BY <1>2, <2>4, <2>5 DEF DoneOK
  <2> QED
    BY <2>2, <2>3, <2>6
<1> QED
  BY <1>0, <1>4, <1>5, Overwritten

\* A process that crashes, or could not write the healed record, is gone.
LEMMA DeadStep ==
    ASSUME IInv, LooseStep, NEW p \in Procs, NEW z \in ProcRecord,
           proc' = [proc EXCEPT ![p] = z], UNCHANGED <<deps, store, starts>>,
           incidents \subseteq incidents', incidents' \subseteq Incidents,
           z.phase = "dead", ~z.claim, RestOK(z), Single(z), \A e \in Attempts : z.ex[e].at = "none",
           Undisturbed' => z.revision # "ahead"
    PROVE  IInv'
<1>0. proc \in [Procs -> ProcRecord] /\ store \in StoreRecord /\ loose \in BOOLEAN
  BY ProcFacts
<1>1. proc' \in [Procs -> ProcRecord] /\ proc'[p] = z /\ \A q \in Procs \ {p} : proc'[q] = proc[q]
  BY <1>0
<1>2. \A q \in Procs \ {p} : Owns(q)' => Owns(q)
  BY <1>1 DEF Owns
<1>3. RestOK(proc[p])'
  BY <1>1 DEF RestOK, Pending, Exhausted
<1>4. StartOK(p)'
  BY <1>1 DEF StartOK, MayWrite
<1>5. ASSUME Undisturbed' PROVE DoneOK(p)'
  <2>1. ~Writer(p)' /\ Single(proc[p])'
    BY <1>1 DEF Writer, Single
  <2> QED
    BY <1>1, <1>5, <2>1 DEF DoneOK
<1> QED
  BY <1>0, <1>1, <1>2, <1>3, <1>4, <1>5, Unwritten

LEMMA CrashInv ==
    ASSUME IInv, LooseStep, NEW p \in Procs, Crash(p)
    PROVE  IInv'
<1>1. /\ Fresh("dead") \in ProcRecord /\ RestOK(Fresh("dead")) /\ Single(Fresh("dead"))
      /\ Fresh("dead").phase = "dead" /\ ~Fresh("dead").claim /\ Fresh("dead").revision = "older"
      /\ \A e \in Attempts : Fresh("dead").ex[e].at = "none"
  BY FreshFacts
<1>2. incidents \subseteq incidents' /\ incidents' \subseteq Incidents
  BY IncidentFacts DEF Crash
<1> QED
  BY <1>1, <1>2, DeadStep DEF Crash

LEMMA HealSavedInv ==
    ASSUME IInv, LooseStep, NEW p \in Procs, HealSaved(p)
    PROVE  IInv'
<1> DEFINE s == proc[p]
           z == [s EXCEPT !.phase = "idle"]
           f == Fresh("dead")
<1>0. s \in ProcRecord /\ RestOK(s) /\ s.phase = "healing" /\ Flush(p, z, f) /\ starts' = starts
      /\ incidents \subseteq Incidents
  BY ProcFacts DEF HealSaved
<1>1. /\ f \in ProcRecord /\ RestOK(f) /\ Single(f) /\ f.phase = "dead" /\ ~f.claim /\ f.revision = "older"
      /\ f.mem = NewJob /\ f.pump = Quiet /\ f.ctl = NoControl /\ ~f.finished
      /\ \A e \in Attempts : f.ex[e].at = "none"
  BY FreshFacts
<1> HIDE DEF f
<1>2. CASE ~CanFlush(p) /\ proc' = [proc EXCEPT ![p] = f] /\ UNCHANGED <<store, incidents>>
  BY <1>0, <1>1, <1>2, DeadStep DEF Flush
<1>3. CASE /\ CanFlush(p) /\ Incident("write") /\ UNCHANGED store
           /\ \E r \in {"same", "ahead"} : proc' = [proc EXCEPT ![p] = [f EXCEPT !.revision = r]]
  <2>1. PICK r \in {"same", "ahead"} : proc' = [proc EXCEPT ![p] = [f EXCEPT !.revision = r]]
    BY <1>3
  <2> DEFINE w == [f EXCEPT !.revision = r]
  <2>2. /\ w \in ProcRecord /\ w.phase = f.phase /\ w.claim = f.claim /\ w.ex = f.ex
        /\ w.mem = f.mem /\ w.pump = f.pump /\ w.ctl = f.ctl /\ w.finished = f.finished
    BY <1>1 DEF ProcRecord
  <2>3. proc' = [proc EXCEPT ![p] = w]
    BY <2>1
  <2> HIDE DEF w
  <2>4. RestOK(w) /\ Single(w)
    BY <1>1, <2>2 DEF RestOK, Pending, Single
  <2>5. incidents \subseteq incidents' /\ incidents' \subseteq Incidents /\ ~Undisturbed'
    BY <1>3, IncidentFacts DEF Incident, Undisturbed
  <2> QED
    BY <1>0, <1>1, <1>3, <2>2, <2>3, <2>4, <2>5, DeadStep DEF Flush
<1>4. CASE /\ CanFlush(p) /\ store' = [store EXCEPT !.job = s.mem]
           /\ proc' = Written(p, z) /\ UNCHANGED incidents
  <2>1. /\ z \in ProcRecord /\ z.phase = "idle" /\ z.mem = s.mem /\ z.revision = s.revision /\ z.ctl = s.ctl
        /\ z.ex = s.ex /\ z.pump = s.pump /\ z.claim = s.claim /\ z.finished = s.finished
    BY <1>0 DEF ProcRecord
  <2> HIDE DEF z
  <2>2. RestOK(z) /\ z.ctl.what = "none" /\ z.revision = "same"
    BY <1>0, <1>4, <2>1 DEF RestOK, Pending, CanFlush
  <2> QED
    BY <1>0, <1>4, <2>1, <2>2, IdleSaved DEF Flush
<1> QED
  BY <1>0, <1>2, <1>3, <1>4 DEF Flush

LEMMA ControlSavedInv ==
    ASSUME IInv, LooseStep, NEW p \in Procs, ControlSaved(p)
    PROVE  IInv'
<1> DEFINE s == proc[p]
           y == [s EXCEPT !.ctl = NoControl]
<1>0. /\ s \in ProcRecord /\ RestOK(s) /\ deps \in Graphs /\ s.ctl.what # "none" /\ starts' = starts
      /\ proc \in [Procs -> ProcRecord] /\ store \in StoreRecord /\ loose \in BOOLEAN
      /\ incidents \subseteq Incidents
  BY ProcFacts DEF ControlSaved
<1>1. Flush(p, ControlDone(y, s.ctl), ControlThrown(y, s.ctl))
  BY DEF ControlSaved, ControlDone, ControlThrown
<1>2. s.phase \in {"idle", "starting", "run", "leaving", "done"}
  BY <1>0 DEF RestOK, ProcRecord
<1>3. CASE s.phase # "idle"
  <2>1. Progress(s, ControlDone(y, s.ctl)) /\ Progress(s, ControlThrown(y, s.ctl))
    BY <1>0, <1>2, <1>3, ControlProgress
  <2>2. Steps(s, ControlThrown(y, s.ctl)) /\ ~AtRest(s)
    BY <1>0, <2>1 DEF Progress, AtRest
  <2> HIDE DEF y
  <2> QED
    BY <1>0, <1>1, <2>1, <2>2, FlushStep
<1>4. CASE s.phase = "idle"
  <2>1. s.ctl.what = "resume" /\ s.mem.status = "ready"
    BY <1>0, <1>4 DEF RestOK
  <2>2. /\ y \in ProcRecord /\ y.phase = "idle" /\ y.mem = s.mem /\ y.revision = s.revision /\ y.ctl = NoControl
        /\ y.ex = s.ex /\ y.pump = s.pump /\ y.claim = s.claim /\ y.finished = s.finished
    BY <1>0, <1>4, ConstantFacts DEF ProcRecord
  <2> HIDE DEF y
  <2>3. ControlDone(y, s.ctl) = y /\ ControlThrown(y, s.ctl) = y
    BY <2>1, <2>2 DEF ControlDone, ControlThrown
  <2>4. RestOK(y) /\ y.ctl.what = "none"
    BY <1>0, <1>4, <2>2, ConstantFacts DEF RestOK, Pending
  <2>5. CASE CanFlush(p) /\ store' = [store EXCEPT !.job = s.mem] /\ proc' = Written(p, y) /\ UNCHANGED incidents
    <3>1. y.revision = "same"
      BY <2>2, <2>5 DEF CanFlush
    <3> QED
      BY <1>0, <1>1, <1>4, <2>2, <2>4, <2>5, <3>1, IdleSaved DEF Flush
  <2>6. ASSUME NEW z \in ProcRecord, proc' = [proc EXCEPT ![p] = z], store' = store, deps' = deps,
               z.phase = "idle" /\ z.mem = s.mem /\ z.ctl = NoControl
               /\ z.ex = s.ex /\ z.pump = s.pump /\ z.claim = s.claim /\ z.finished = s.finished,
               (z.revision = s.revision /\ incidents' = incidents) \/ Incident("write")
        PROVE  IInv'
    <3>1. proc' \in [Procs -> ProcRecord] /\ proc'[p] = z /\ \A q \in Procs \ {p} : proc'[q] = proc[q]
      BY <1>0, <2>6
    <3>2. \A q \in Procs \ {p} : Owns(q)' => Owns(q)
      BY <2>6, <3>1 DEF Owns
    <3>3. RestOK(z)
      BY <1>0, <1>4, <2>6, ConstantFacts DEF RestOK, Pending
    <3>4. RestOK(proc[p])'
      BY <3>1, <3>3 DEF RestOK, Pending, Exhausted
    <3>5. incidents \subseteq incidents' /\ incidents' \subseteq Incidents
      BY <1>0, <2>6, IncidentFacts
    <3>6. (~loose' => ~loose) /\ (Undisturbed' => Undisturbed)
      BY <1>0, <3>5, Ghost
    <3>7. StartOK(p)'
      BY <2>1, <2>6, <3>1, ConstantFacts DEF StartOK, MayWrite
    <3>8. ASSUME Undisturbed' PROVE DoneOK(p)'
      <4>1. z.revision = s.revision
        BY <2>6, <3>8 DEF Undisturbed, Incident
      <4>2. DoneOK(p)
        BY <3>6, <3>8 DEF IInv, CompletedInv
      <4>3. Single(proc[p])' /\ ~Writer(p)'
        BY <2>6, <3>1, <4>2 DEF DoneOK, Single, Writer
      <4>4. z.revision = "same" => Keeps(store.job, proc[p].mem)' /\ Agrees(proc[p].mem)'
        BY <1>4, <2>6, <3>1, <4>1, <4>2 DEF DoneOK, Keeps, Agrees
      <4> QED
        BY <1>4, <2>6, <3>1, <4>1, <4>2, <4>3, <4>4 DEF DoneOK
    <3> QED
      BY <1>0, <2>6, <3>1, <3>2, <3>4, <3>5, <3>7, <3>8, Unwritten
  <2>7. CASE ~CanFlush(p) /\ proc' = [proc EXCEPT ![p] = y] /\ UNCHANGED <<store, incidents>>
    BY <1>1, <2>2, <2>6, <2>7 DEF Flush
  <2>8. CASE /\ CanFlush(p) /\ Incident("write") /\ UNCHANGED store
             /\ \E r \in {"same", "ahead"} : proc' = [proc EXCEPT ![p] = [y EXCEPT !.revision = r]]
    <3>1. PICK r \in {"same", "ahead"} : proc' = [proc EXCEPT ![p] = [y EXCEPT !.revision = r]]
      BY <2>8
    <3> DEFINE w == [y EXCEPT !.revision = r]
    <3>2. /\ w \in ProcRecord /\ w.phase = y.phase /\ w.claim = y.claim /\ w.ex = y.ex
          /\ w.mem = y.mem /\ w.pump = y.pump /\ w.ctl = y.ctl /\ w.finished = y.finished
      BY <2>2 DEF ProcRecord
    <3>3. proc' = [proc EXCEPT ![p] = w]
      BY <3>1
    <3> HIDE DEF w
    <3> QED
      BY <1>1, <2>2, <2>6, <2>8, <3>2, <3>3 DEF Flush
  <2>9. Flush(p, y, y)
    BY <1>1, <2>3
  <2> QED
    BY <2>5, <2>7, <2>8, <2>9 DEF Flush
<1> QED
  BY <1>3, <1>4

LEMMA LeaseExpiresInv ==
    ASSUME IInv, LooseStep, LeaseExpires
    PROVE  IInv'
<1>0. /\ store \in StoreRecord /\ loose \in BOOLEAN /\ proc \in [Procs -> ProcRecord] /\ deps \in Graphs
      /\ starts \in [Attempts -> Nat] /\ incidents \subseteq Incidents
      /\ UNCHANGED <<deps, proc, starts>> /\ store' = [store EXCEPT !.lease = "expired"]
  BY DEF IInv, TypeInv, LeaseExpires
<1>1. store' \in StoreRecord /\ store'.job = store.job /\ store'.lease = "expired"
  BY <1>0 DEF StoreRecord
<1>2. incidents \subseteq incidents' /\ incidents' \subseteq Incidents
  BY <1>0, IncidentFacts DEF LeaseExpires
<1>3. loose' \in BOOLEAN /\ (~loose' => ~loose) /\ TidyInv' /\ (Undisturbed' => Undisturbed)
  BY <1>0, <1>2, Ghost
<1>4. \A q \in Procs : ~Owns(q)'
  BY <1>1 DEF Owns
<1>5. ASSUME NEW p \in Procs PROVE IInv'
  <2>1. RestOK(proc[p])' /\ proc[p].phase \in {"starting", "run"} => proc[p].claim
    BY <1>0, <1>5 DEF IInv, TypeInv, RestOK, Pending, Exhausted
  <2>2. RestOK(proc[p])'
    BY <1>0, <1>5 DEF IInv, TypeInv, RestOK, Pending, Exhausted
  <2>3. ASSUME ~loose' PROVE StartOK(p)'
    BY <1>0, <1>3, <1>4, <1>5, <2>3 DEF IInv, StartsInv, StartOK, MayWrite, Knows
  <2>4. ~Writer(p)'
    BY <1>0, <1>4, <2>1, <2>2 DEF Writer, CanFlush
  <2>5. ASSUME Undisturbed' PROVE DoneOK(p)'
    BY <1>0, <1>1, <1>3, <2>4, <2>5 DEF IInv, CompletedInv, DoneOK, Single, Keeps, Agrees, Whole
  <2> QED
    BY <1>0, <1>1, <1>2, <1>4, <2>2, <2>3, <2>5, Unwritten
<1>6. CASE Procs = {}
  <2>1. TypeInv'
    BY <1>0, <1>1, <1>2, <1>3, <1>6 DEF IInv, TypeInv, Exhausted
  <2>2. StartsInv'
    BY <1>0, <1>1, <1>3, <1>6 DEF IInv, StartsInv, Knows
  <2>3. CompletedInv'
    BY <1>0, <1>1, <1>3, <1>6 DEF IInv, CompletedInv, Agrees, Whole
  <2> QED
    BY <1>3, <2>1, <2>2, <2>3 DEF IInv
<1> QED
  BY <1>5, <1>6

LEMMA ReleaseInv ==
    ASSUME IInv, LooseStep, NEW p \in Procs, Release(p)
    PROVE  IInv'
<1> DEFINE s == proc[p]
           y == [s EXCEPT !.phase = "done", !.claim = FALSE]
           z == Forget(y)
<1>0. /\ s \in ProcRecord /\ RestOK(s) /\ s.phase = "leaving" /\ proc' = [proc EXCEPT ![p] = z]
      /\ UNCHANGED <<deps, incidents, starts>>
      /\ store' = [store EXCEPT !.lease = "released"] \/ store' = store
      /\ store \in StoreRecord /\ loose \in BOOLEAN /\ proc \in [Procs -> ProcRecord] /\ incidents \subseteq Incidents
  BY ProcFacts DEF Release
<1>1. /\ y \in ProcRecord /\ y.phase = "done" /\ y.claim = FALSE /\ y.revision = s.revision /\ y.mem = s.mem
      /\ y.ex = s.ex /\ y.pump = s.pump /\ y.ctl = s.ctl /\ y.finished = s.finished
  BY <1>0 DEF ProcRecord
<1> HIDE DEF y
<1>2. RestOK(y) /\ (Single(s) => Single(y))
  BY <1>0, <1>1 DEF RestOK, Pending, Single
<1>3. /\ z \in ProcRecord /\ RestOK(z) /\ z.phase = "done" /\ (Single(s) => Single(z))
      /\ z.revision = s.revision \/ z.revision = "older"
      /\ \A e \in Attempts : z.ex[e].at = "run" => s.ex[e].at = "run"
  <2>1. CASE AtRest(y)
    BY <1>1, <2>1, FreshFacts DEF Forget
  <2>2. CASE ~AtRest(y)
    BY <1>1, <1>2, <2>2 DEF Forget
  <2> QED
    BY <2>1, <2>2
<1> HIDE DEF z
<1>4. proc' \in [Procs -> ProcRecord] /\ proc'[p] = z /\ \A q \in Procs \ {p} : proc'[q] = proc[q]
  BY <1>0, <1>3
<1>5. /\ store' \in StoreRecord /\ store'.job = store.job
      /\ store'.lease = "live" => store' = store
  BY <1>0 DEF StoreRecord
<1>6. \A q \in Procs \ {p} : Owns(q)' => Owns(q)
  BY <1>4, <1>5 DEF Owns
<1>7. RestOK(proc[p])'
  BY <1>3, <1>4 DEF RestOK, Pending, Exhausted
<1>8. StartOK(p)'
  BY <1>3, <1>4 DEF StartOK, MayWrite
<1>9. ASSUME Undisturbed' PROVE DoneOK(p)'
  <2>1. DoneOK(p)
    BY <1>0, <1>9, Ghost DEF IInv, CompletedInv
  <2>2. Single(proc[p])' /\ ~Writer(p)'
    BY <1>3, <1>4, <2>1 DEF DoneOK, Single, Writer
  <2> QED
    BY <1>0, <1>3, <1>4, <1>5, <2>1, <2>2 DEF DoneOK
<1> QED
  BY <1>0, <1>4, <1>5, <1>6, <1>7, <1>8, <1>9, Unwritten

\* What a job that nobody owns is taken for.
LEMMA ReconciledFacts ==
    ASSUME NEW j \in Job
    PROVE  LET k == Reconciled(j) IN
           /\ k \in Job /\ k.retry = j.retry
           /\ \A t \in Tasks :
                 /\ k.node[t] = j.node[t] \/ (k.node[t] = "orphaned" /\ j.node[t] \in {"idle", "running"})
                 /\ k.task[t] = j.task[t] \/ k.task[t] = "failed"
           /\ Agrees(j) /\ Whole(j) => Whole(k)
<1> DEFINE k == Reconciled(j)
           lost == {t \in Tasks : j.task[t] = "running" \/ j.node[t] = "running"}
           w == [t \in Tasks |-> IF j.task[t] = "running" THEN "failed" ELSE j.task[t]]
           n == [t \in Tasks |-> IF t \in lost /\ j.node[t] \in {"idle", "running"} THEN "orphaned" ELSE j.node[t]]
           over == \A t \in Tasks : j.task[t] \in Terminal
           status == IF \E t \in Tasks : j.task[t] = "failed" THEN "failed"
                     ELSE IF \E t \in Tasks : j.task[t] = "cancelled" THEN "cancelled" ELSE "completed"
<1>1. CASE j.status \in Terminal \/ (~over /\ j.status # "running")
  BY <1>1 DEF Reconciled
<1>2. CASE j.status \notin Terminal /\ over
  <2>1. k = [j EXCEPT !.status = status]
    BY <1>2 DEF Reconciled
  <2>2. status \in JobStates
    BY DEF JobStates
  <2>3. status = "completed" => \A t \in Tasks : j.task[t] = "completed"
    BY <1>2 DEF Terminal
  <2> HIDE DEF status, over
  <2>4. k \in Job /\ k.retry = j.retry /\ k.node = j.node /\ k.task = j.task /\ k.status = status
    BY <2>1, <2>2 DEF Job
  <2> HIDE DEF k
  <2>5. Agrees(j) => Whole(k)
    BY <2>3, <2>4 DEF Agrees, Whole
  <2> QED
    BY <2>4, <2>5 DEF k
<1>3. CASE j.status \notin Terminal /\ ~over /\ j.status = "running"
  <2>1. k = [j EXCEPT !.status = "failed", !.task = w, !.node = n]
    BY <1>3 DEF Reconciled, Job
  <2>2. w \in [Tasks -> TaskStates] /\ \A t \in Tasks : w[t] = j.task[t] \/ w[t] = "failed"
    BY DEF Job, TaskStates
  <2>3. /\ n \in [Tasks -> NodeStates]
        /\ \A t \in Tasks : n[t] = j.node[t] \/ (n[t] = "orphaned" /\ j.node[t] \in {"idle", "running"})
    BY DEF Job, NodeStates
  <2> HIDE DEF w, n, over
  <2>4. k \in Job /\ k.retry = j.retry /\ k.node = n /\ k.task = w /\ k.status = "failed"
    BY <2>1, <2>2, <2>3 DEF Job, JobStates
  <2> HIDE DEF k
  <2> QED
    BY <2>2, <2>3, <2>4 DEF Whole, k
<1> QED
  BY <1>1, <1>2, <1>3

LEMMA LoadInv ==
    ASSUME IInv, LooseStep, NEW p \in Procs, Load(p)
    PROVE  IInv'
<1> DEFINE s == proc[p]
           j == IF store.lease = "live" THEN store.job ELSE Reconciled(store.job)
           phase == IF j = store.job THEN "idle" ELSE "healing"
           z == [s EXCEPT !.phase = phase, !.mem = j, !.revision = "same"]
<1>0. /\ s \in ProcRecord /\ RestOK(s) /\ s.phase = "off" /\ proc' = [proc EXCEPT ![p] = z]
      /\ UNCHANGED <<deps, store, incidents, starts>> /\ deps \in Graphs /\ Exhausted(store.job)
      /\ store \in StoreRecord /\ loose \in BOOLEAN /\ proc \in [Procs -> ProcRecord] /\ incidents \subseteq Incidents
  BY ProcFacts DEF Load
<1>1. store.job \in Job
  BY <1>0 DEF StoreRecord
<1>2. /\ j \in Job /\ j.retry = store.job.retry
      /\ \A t \in Tasks :
            /\ \/ j.node[t] = store.job.node[t]
               \/ j.node[t] = "orphaned" /\ store.job.node[t] \in {"idle", "running"}
            /\ j.task[t] = store.job.task[t] \/ j.task[t] = "failed"
      /\ Agrees(store.job) /\ Whole(store.job) => Whole(j)
  BY <1>1, ReconciledFacts
<1>3. phase \in {"idle", "healing"}
  OBVIOUS
<1> HIDE DEF j, phase
<1>4. /\ z \in ProcRecord /\ z.phase = phase /\ z.claim = s.claim /\ z.revision = "same" /\ z.mem = j
      /\ z.ex = s.ex /\ z.pump = s.pump /\ z.ctl = s.ctl /\ z.finished = s.finished
  BY <1>0, <1>2, <1>3 DEF ProcRecord
<1> HIDE DEF z
<1>5. Exhausted(j)
  BY <1>0, <1>2 DEF Exhausted
<1>6. RestOK(z) /\ z.ctl.what = "none"
  BY <1>0, <1>3, <1>4, <1>5 DEF RestOK, Pending
<1>7. proc' \in [Procs -> ProcRecord] /\ proc'[p] = z /\ \A q \in Procs \ {p} : proc'[q] = proc[q]
  BY <1>0, <1>4
<1>8. \A q \in Procs \ {p} : Owns(q)' => Owns(q)
  BY <1>0, <1>7 DEF Owns
<1>9. RestOK(proc[p])'
  BY <1>6, <1>7 DEF RestOK, Pending, Exhausted
<1>10. (~loose' => ~loose) /\ (Undisturbed' => Undisturbed)
  BY <1>0, Ghost
<1>11. ASSUME ~loose' PROVE StartOK(p)'
  <2>1. Knows(store.job)
    BY <1>10, <1>11 DEF IInv, StartsInv
  <2>2. Knows(j)
    BY <1>2, <2>1 DEF Knows
  <2>3. Knows(proc[p].mem)'
    BY <1>0, <1>4, <1>7, <2>2 DEF Knows
  <2> QED
    BY <1>3, <1>4, <1>7, <2>3 DEF StartOK
<1>12. ASSUME Undisturbed' PROVE DoneOK(p)'
  <2>1. Agrees(store.job) /\ Whole(store.job) /\ DoneOK(p)
    BY <1>10, <1>12 DEF IInv, CompletedInv
  <2>2. Agrees(j) /\ Whole(j) /\ Keeps(store.job, j)
    BY <1>2, <2>1 DEF Agrees, Keeps
  <2>3. Agrees(proc[p].mem)' /\ Whole(proc[p].mem)' /\ Keeps(store.job, proc[p].mem)'
    BY <1>0, <1>4, <1>7, <2>2 DEF Agrees, Keeps, Whole
  <2>4. Single(proc[p])' /\ ~Writer(p)'
    BY <1>3, <1>4, <1>7, <2>1 DEF DoneOK, Single, Writer
  <2>5. \A e \in Attempts : z.ex[e].at = "none"
    BY <1>0, <1>4 DEF RestOK
  <2> QED
    BY <1>4, <1>7, <2>3, <2>4, <2>5 DEF DoneOK
<1> QED
  BY <1>0, <1>7, <1>8, <1>9, <1>11, <1>12, Unwritten

\* A process that does not run the job has read the record, and perhaps written it back.
LEMMA RemoteCopy ==
    ASSUME NEW s \in ProcRecord, RestOK(s), s.phase = "idle", s.ctl.what = "none",
           NEW z \in ProcRecord, Exhausted(z.mem), z.phase = "idle", z.revision = "same", z.claim = s.claim,
           z.ex = s.ex, z.pump = s.pump, z.ctl = s.ctl, z.finished = s.finished
    PROVE  RestOK(z) /\ z.ctl.what = "none" /\ \A e \in Attempts : z.ex[e].at = "none"
BY DEF RestOK, Pending

LEMMA RemoteWrite ==
    ASSUME IInv, LooseStep, NEW p \in Procs, proc[p].phase = "idle", proc[p].ctl.what = "none",
           NEW m \in Job, Exhausted(m), store' = [store EXCEPT !.job = m],
           proc' = Written(p, [proc[p] EXCEPT !.mem = m, !.revision = "same"]),
           incidents \subseteq incidents', incidents' \subseteq Incidents, UNCHANGED <<deps, starts>>,
           Knows(store.job) => Knows(m),
           Agrees(store.job) => Agrees(m) /\ Keeps(store.job, m), Whole(m)
    PROVE  IInv'
<1> DEFINE z == [proc[p] EXCEPT !.mem = m, !.revision = "same"]
<1>0. /\ proc[p] \in ProcRecord /\ RestOK(proc[p]) /\ loose \in BOOLEAN /\ store \in StoreRecord
      /\ starts \in [Attempts -> Nat]
  BY ProcFacts
<1>1. z = [proc[p] EXCEPT !.mem = m, !.revision = "same"] /\ proc' = Written(p, z)
  OBVIOUS
<1> HIDE DEF z
<1>2. /\ z \in ProcRecord /\ RestOK(z) /\ z.phase = "idle" /\ z.mem = m /\ z.revision = "same"
      /\ z.ctl.what = "none" /\ \A e \in Attempts : z.ex[e].at = "none"
  <2>1. /\ z \in ProcRecord /\ z.phase = "idle" /\ z.mem = m /\ z.revision = "same" /\ z.claim = proc[p].claim
        /\ z.ex = proc[p].ex /\ z.pump = proc[p].pump /\ z.ctl = proc[p].ctl /\ z.finished = proc[p].finished
    BY <1>0, <1>1 DEF ProcRecord
  <2> QED
    BY <1>0, <2>1, RemoteCopy
<1>3. proc'[p] = z /\ store'.job = m
  BY <1>0, <1>1 DEF Written, StoreRecord
<1>4. (~loose' => ~loose) /\ (Undisturbed' => Undisturbed)
  BY <1>0, Ghost
<1>5. ASSUME ~loose' PROVE (\A e \in Attempts : starts'[e] <= 1) /\ Knows(store.job)' /\ StartOK(p)'
  <2>1. (\A e \in Attempts : starts[e] <= 1) /\ Knows(m)
    BY <1>4, <1>5 DEF IInv, StartsInv
  <2>2. Knows(store.job)' /\ Knows(proc[p].mem)'
    BY <1>2, <1>3, <2>1 DEF Knows
  <2>3. StartOK(p)'
    BY <1>2, <1>3, <2>2 DEF StartOK
  <2> QED
    BY <2>1, <2>2, <2>3
<1>6. ASSUME Undisturbed' PROVE Agrees(m) /\ Whole(m) /\ Keeps(store.job, m) /\ DoneOK(p)'
  <2>1. Agrees(m) /\ Keeps(store.job, m)
    BY <1>4, <1>6 DEF IInv, CompletedInv
  <2>2. /\ Single(proc[p])' /\ Agrees(proc[p].mem)' /\ Keeps(store.job, proc[p].mem)' /\ ~Writer(p)'
    BY <1>2, <1>3, <2>1 DEF Single, Agrees, Keeps, Writer
  <2>3. DoneOK(p)'
    BY <1>2, <1>3, <2>2 DEF DoneOK
  <2> QED
    BY <2>1, <2>3
<1> QED
  BY <1>0, <1>1, <1>2, <1>5, <1>6, Overwritten

LEMMA RemotePausesInv ==
    ASSUME IInv, LooseStep, NEW p \in Procs, RemotePauses(p)
    PROVE  IInv'
<1> DEFINE m == [store.job EXCEPT !.status = "paused"]
<1>0. store \in StoreRecord /\ store.job \in Job /\ Exhausted(store.job)
  BY ProcFacts DEF StoreRecord
<1>1. /\ m \in Job /\ m.status = "paused" /\ m.node = store.job.node /\ m.task = store.job.task
      /\ m.retry = store.job.retry
  BY <1>0 DEF Job, JobStates
<1>2. /\ proc[p].phase = "idle" /\ proc[p].ctl.what = "none" /\ store' = [store EXCEPT !.job = m]
      /\ proc' = Written(p, [proc[p] EXCEPT !.mem = m, !.revision = "same"]) /\ UNCHANGED <<deps, starts>>
  BY DEF RemotePauses
<1>3. incidents \subseteq incidents' /\ incidents' \subseteq Incidents
  BY IncidentFacts DEF RemotePauses
<1> HIDE DEF m
<1>4. /\ Exhausted(m) /\ Whole(m) /\ (Knows(store.job) => Knows(m))
      /\ Agrees(store.job) => Agrees(m) /\ Keeps(store.job, m)
  BY <1>0, <1>1 DEF Exhausted, Whole, Knows, Agrees, Keeps
<1> QED
  BY <1>1, <1>2, <1>3, <1>4, RemoteWrite

LEMMA RemoteCancelsInv ==
    ASSUME IInv, LooseStep, NEW p \in Procs, RemoteCancels(p)
    PROVE  IInv'
<1> DEFINE s == proc[p]
           j == store.job
           w == [t \in Tasks |-> IF j.task[t] \in {"completed", "failed"} THEN j.task[t] ELSE "cancelled"]
           n == [t \in Tasks |-> IF j.node[t] \in {"completed", "failed", "orphaned"} THEN j.node[t] ELSE "cancelled"]
           m == [j EXCEPT !.status = "cancelled", !.task = w, !.node = n]
<1>0. /\ store \in StoreRecord /\ j \in Job /\ Exhausted(j) /\ s \in ProcRecord /\ RestOK(s)
      /\ loose \in BOOLEAN /\ proc \in [Procs -> ProcRecord]
  BY ProcFacts DEF StoreRecord
<1>1. s.phase = "idle" /\ s.ctl.what = "none" /\ UNCHANGED <<deps, starts>>
  BY DEF RemoteCancels
<1>2. incidents \subseteq incidents' /\ incidents' \subseteq Incidents
  BY IncidentFacts DEF RemoteCancels
<1>3. CASE store.lease # "live"
  <2>1. store' = [store EXCEPT !.job = m] /\ proc' = Written(p, [proc[p] EXCEPT !.mem = m, !.revision = "same"])
    <3>1. m = [j EXCEPT !.status = "cancelled",
            !.task = [t \in Tasks |-> IF @[t] \in {"completed", "failed"} THEN @[t] ELSE "cancelled"],
            !.node = [t \in Tasks |-> IF @[t] \in {"completed", "failed", "orphaned"} THEN @[t] ELSE "cancelled"]]
      BY <1>0 DEF Job
    <3> QED
      BY <1>3, <3>1 DEF RemoteCancels
  <2>2. w \in [Tasks -> TaskStates] /\ \A t \in Tasks : w[t] = "completed" => j.task[t] = "completed"
    BY <1>0 DEF Job, TaskStates
  <2>3. n \in [Tasks -> NodeStates] /\ \A t \in Tasks :
          /\ n[t] = "cancelled" \/ n[t] = j.node[t]
          /\ j.node[t] \in {"completed", "failed"} => n[t] = j.node[t]
    BY <1>0 DEF Job, NodeStates
  <2> HIDE DEF w, n
  <2>4. m \in Job /\ m.status = "cancelled" /\ m.node = n /\ m.task = w /\ m.retry = j.retry
    BY <1>0, <2>2, <2>3 DEF Job, JobStates
  <2> HIDE DEF m
  <2>5. /\ Exhausted(m) /\ Whole(m) /\ (Knows(j) => Knows(m))
        /\ Agrees(j) => Agrees(m) /\ Keeps(j, m)
    BY <1>0, <2>2, <2>3, <2>4 DEF Exhausted, Whole, Knows, Agrees, Keeps
  <2> QED
    BY <1>1, <1>2, <2>1, <2>4, <2>5, RemoteWrite
<1>4. CASE store.lease = "live"
  <2> DEFINE z == [s EXCEPT !.mem = j, !.revision = "same"]
  <2>1. store' = [store EXCEPT !.cancel = TRUE] /\ proc' = [proc EXCEPT ![p] = z]
    BY <1>0, <1>4 DEF RemoteCancels
  <2>0. z = [s EXCEPT !.mem = j, !.revision = "same"]
    OBVIOUS
  <2> HIDE DEF z
  <2>2. /\ z \in ProcRecord /\ RestOK(z) /\ z.phase = "idle" /\ z.mem = j /\ z.revision = "same"
        /\ z.ctl.what = "none" /\ \A e \in Attempts : z.ex[e].at = "none"
    <3>1. /\ z \in ProcRecord /\ z.phase = "idle" /\ z.mem = j /\ z.revision = "same" /\ z.claim = s.claim
          /\ z.ex = s.ex /\ z.pump = s.pump /\ z.ctl = s.ctl /\ z.finished = s.finished
      BY <1>0, <1>1, <2>0 DEF ProcRecord
    <3> QED
      BY <1>0, <1>1, <3>1, RemoteCopy
  <2>3. /\ store' \in StoreRecord /\ store'.job = j /\ store'.lease = store.lease
        /\ store'.owner = store.owner
    BY <1>0, <2>1 DEF StoreRecord
  <2>4. proc' \in [Procs -> ProcRecord] /\ proc'[p] = z /\ \A q \in Procs \ {p} : proc'[q] = proc[q]
    BY <1>0, <2>1, <2>2
  <2>5. \A q \in Procs \ {p} : Owns(q)' => Owns(q)
    BY <2>3, <2>4 DEF Owns
  <2>6. RestOK(proc[p])'
    BY <2>2, <2>4 DEF RestOK, Pending, Exhausted
  <2>7. (~loose' => ~loose) /\ (Undisturbed' => Undisturbed)
    BY <1>0, <1>2, Ghost
  <2>8. ASSUME ~loose' PROVE StartOK(p)'
    <3>1. Knows(j)
      BY <2>7, <2>8 DEF IInv, StartsInv
    <3>2. Knows(proc[p].mem)'
      BY <1>1, <2>2, <2>4, <3>1 DEF Knows
    <3> QED
      BY <2>2, <2>4, <3>2 DEF StartOK
  <2>9. ASSUME Undisturbed' PROVE DoneOK(p)'
    <3>1. Agrees(j)
      BY <2>7, <2>9 DEF IInv, CompletedInv
    <3>2. /\ Single(proc[p])' /\ Agrees(proc[p].mem)' /\ Keeps(store.job, proc[p].mem)' /\ ~Writer(p)'
      BY <2>2, <2>3, <2>4, <3>1 DEF Single, Agrees, Keeps, Writer
    <3> QED
      BY <2>2, <2>4, <3>2 DEF DoneOK
  <2> QED
    BY <1>1, <1>2, <2>3, <2>4, <2>5, <2>6, <2>8, <2>9, Unwritten
<1> QED
  BY <1>3, <1>4

\* What acquire() makes of the record: the interrupted attempts are counted.
LEMMA RecoveredFacts ==
    ASSUME NEW j \in Job, Exhausted(j), j.status # "completed", NEW orphan \in BOOLEAN, NEW unknown
    PROVE  /\ Recovered(j, orphan, unknown) \in Job
           /\ Exhausted(Recovered(j, orphan, unknown))
           /\ \A t \in Tasks : Recovered(j, orphan, unknown).node[t] = "completed" <=> j.node[t] = "completed"
           /\ Agrees(j) => Agrees(Recovered(j, orphan, unknown))
           /\ Knows(j) => Knows(Recovered(j, orphan, unknown))
           /\ Recovered(j, orphan, unknown).status # "completed"
<1> DEFINE cut == Interrupted(j, orphan)
           again == {t \in cut : t \notin unknown /\ j.retry[t] + 1 <= MaxRetries}
           r == [t \in Tasks |-> IF t \in cut THEN Counted(j.retry[t]) ELSE j.retry[t]]
           n == [t \in Tasks |-> IF t \in again THEN "idle" ELSE IF t \in cut THEN "failed" ELSE j.node[t]]
           w == [t \in Tasks |-> IF t \in again THEN "pending" ELSE IF t \in cut THEN "failed" ELSE j.task[t]]
           next == [j EXCEPT !.retry = r, !.node = n, !.task = w]
           ended == \A t \in Tasks : next.task[t] \in Terminal
           status == IF ended THEN IF \E t \in Tasks : next.task[t] = "failed" THEN "failed" ELSE next.status
                     ELSE IF orphan /\ \E t \in Tasks : next.task[t] = "pending" THEN "running" ELSE next.status
           k == Recovered(j, orphan, unknown)
<1>0. /\ j.status \in JobStates /\ j.node \in [Tasks -> NodeStates] /\ j.task \in [Tasks -> TaskStates]
      /\ j.retry \in [Tasks -> 0..RetryBound + 1] /\ RetryBound \in Nat
      /\ MaxRetries \in Nat /\ MaxRetries <= RetryBound
  BY ConstantFacts DEF Job
<1>1. k = [next EXCEPT !.status = status]
  <2>1. next = [j EXCEPT
            !.retry = [t \in Tasks |-> IF t \in cut THEN Counted(@[t]) ELSE @[t]],
            !.node = [t \in Tasks |-> IF t \in again THEN "idle"
                                      ELSE IF t \in cut THEN "failed" ELSE @[t]],
            !.task = [t \in Tasks |-> IF t \in again THEN "pending"
                                      ELSE IF t \in cut THEN "failed" ELSE @[t]]]
    BY DEF Job
  <2> HIDE DEF cut
  <2> QED
    BY <2>1 DEF Recovered, cut
<1>2. \A t \in cut : t \in Tasks /\ j.node[t] \in {"running", "orphaned"} /\ j.retry[t] # RetryBound + 1
  BY DEF Interrupted, Exhausted
<1>3. again \subseteq cut /\ \A t \in again : j.retry[t] + 1 <= MaxRetries
  OBVIOUS
<1> HIDE DEF cut, again
<1>5. \A t \in Tasks : /\ t \in cut => r[t] = j.retry[t] + 1
                       /\ t \notin cut => r[t] = j.retry[t]
  BY DEF Counted
<1>6. \A t \in Tasks : /\ t \in cut => n[t] \in {"idle", "failed"} /\ w[t] \in {"pending", "failed"}
                       /\ t \in cut \ again => n[t] = "failed"
                       /\ t \notin cut => n[t] = j.node[t] /\ w[t] = j.task[t]
  BY <1>3
<1>7. r \in [Tasks -> 0..RetryBound + 1]
  <2>1. \A t \in Tasks : r[t] \in 0..RetryBound + 1
    BY <1>0, <1>2, <1>5
  <2> QED
    BY <2>1
<1>8. n \in [Tasks -> NodeStates] /\ w \in [Tasks -> TaskStates]
  BY <1>0 DEF NodeStates, TaskStates
<1> HIDE DEF r, n, w
<1>9. next \in Job /\ next.status = j.status /\ next.node = n /\ next.task = w /\ next.retry = r
  BY <1>0, <1>7, <1>8 DEF Job
<1>10. status \in JobStates /\ status # "completed"
  BY <1>0, <1>9 DEF JobStates
<1> HIDE DEF next, status
<1>11. k \in Job /\ k.status = status /\ k.node = n /\ k.task = w /\ k.retry = r
  BY <1>1, <1>9, <1>10 DEF Job
<1> HIDE DEF k
<1>12. Exhausted(k)
  <2> SUFFICES ASSUME NEW t \in Tasks, r[t] = RetryBound + 1 PROVE n[t] = "failed"
    BY <1>11 DEF Exhausted
  <2>1. CASE t \in cut
    <3>1. t \notin again
      BY <1>0, <1>3, <1>5, <2>1
    <3> QED
      BY <1>6, <2>1, <3>1
  <2>2. CASE t \notin cut
    BY <1>5, <1>6, <2>2 DEF Exhausted
  <2> QED
    BY <2>1, <2>2
<1>13. \A t \in Tasks : k.node[t] = "completed" <=> j.node[t] = "completed"
  BY <1>2, <1>6, <1>11
<1>14. Agrees(j) => Agrees(k)
  BY <1>6, <1>11, <1>13 DEF Agrees
<1>15. ASSUME Knows(j) PROVE Knows(k)
  <2> SUFFICES ASSUME NEW t \in Tasks, NEW v \in 0..RetryBound + 1, starts[<<t, v>>] # 0
               PROVE  v < r[t] \/ (v = r[t] /\ n[t] # "idle")
    BY <1>11 DEF Knows
  <2>1. v < j.retry[t] \/ (v = j.retry[t] /\ j.node[t] # "idle")
    BY <1>15 DEF Knows
  <2>2. CASE t \in cut
    BY <1>0, <1>5, <2>1, <2>2
  <2>3. CASE t \notin cut
    BY <1>5, <1>6, <2>1, <2>3
  <2> QED
    BY <2>2, <2>3
<1> QED
  BY <1>10, <1>11, <1>12, <1>13, <1>14, <1>15 DEF k

LEMMA AcquireInv ==
    ASSUME IInv, LooseStep, NEW p \in Procs, Acquire(p)
    PROVE  IInv'
<1> DEFINE s == proc[p]
           j == store.job
           orphan == /\ j.status = "failed" /\ store.lease = "expired"
                     /\ \E t \in Tasks : j.node[t] = "orphaned"
<1>0. /\ store \in StoreRecord /\ j \in Job /\ Exhausted(j) /\ s \in ProcRecord /\ RestOK(s)
      /\ loose \in BOOLEAN /\ proc \in [Procs -> ProcRecord] /\ incidents \subseteq Incidents
  BY ProcFacts DEF StoreRecord
<1>1. PICK unknown \in SUBSET Interrupted(j, orphan) :
         LET k == Recovered(j, orphan, unknown) IN
         /\ store' = [store EXCEPT !.job = k, !.lease = "live", !.owner = p]
         /\ proc' = [proc EXCEPT ![p] =
              IF k.status \in Terminal
              THEN [@ EXCEPT !.phase = "leaving", !.mem = k, !.revision = "same", !.claim = TRUE]
              ELSE [@ EXCEPT !.phase = "starting", !.mem = [k EXCEPT !.status = "running"],
                             !.revision = "same", !.claim = TRUE]]
  BY DEF Acquire
<1>2. /\ s.phase = "idle" /\ s.ctl.what = "none" /\ store.lease # "live" /\ (j.status \in Terminal => orphan)
      /\ UNCHANGED <<deps, incidents, starts>>
  BY DEF Acquire
<1>3. j.status # "completed" /\ orphan \in BOOLEAN
  BY <1>2 DEF Terminal
<1> DEFINE k == Recovered(j, orphan, unknown)
           m == IF k.status \in Terminal THEN k ELSE [k EXCEPT !.status = "running"]
           phase == IF k.status \in Terminal THEN "leaving" ELSE "starting"
           z == [s EXCEPT !.phase = phase, !.mem = m, !.revision = "same", !.claim = TRUE]
<1> HIDE DEF orphan
<1>4. /\ k \in Job /\ Exhausted(k) /\ (Agrees(j) => Agrees(k)) /\ (Knows(j) => Knows(k)) /\ k.status # "completed"
      /\ \A t \in Tasks : k.node[t] = "completed" <=> j.node[t] = "completed"
  BY <1>0, <1>3, RecoveredFacts
<1>5. store' = [store EXCEPT !.job = k, !.lease = "live", !.owner = p]
  BY <1>1
<1>6. proc' = [proc EXCEPT ![p] = z]
  BY <1>0, <1>1
<1> HIDE DEF k
<1>7. /\ m \in Job /\ m.node = k.node /\ m.task = k.task /\ m.retry = k.retry /\ m.status # "completed"
  BY <1>4 DEF Job, JobStates
<1>8. phase \in {"leaving", "starting"}
  OBVIOUS
<1> HIDE DEF m, phase
<1>9. /\ z \in ProcRecord /\ z.phase = phase /\ z.mem = m /\ z.revision = "same" /\ z.claim = TRUE
      /\ z.ex = s.ex /\ z.pump = s.pump /\ z.ctl = s.ctl /\ z.finished = s.finished
  BY <1>0, <1>7, <1>8 DEF ProcRecord
<1> HIDE DEF z
<1>10. /\ z.pump.at = "idle" /\ z.pump.ready = {} /\ \A e \in Attempts : z.ex[e].at = "none"
  BY <1>0, <1>2, <1>9 DEF RestOK
<1>11. Pending(z) = {} /\ Listed(z) = {}
  BY <1>10, NothingListed
<1>12. Exhausted(m)
  BY <1>4, <1>7 DEF Exhausted
<1>13. RestOK(z)
  BY <1>0, <1>2, <1>8, <1>9, <1>10, <1>11, <1>12 DEF RestOK
<1>14. proc' \in [Procs -> ProcRecord] /\ proc'[p] = z /\ \A q \in Procs \ {p} : proc'[q] = proc[q]
  BY <1>0, <1>6, <1>9
<1>15. store' \in StoreRecord /\ store'.job = k /\ store'.lease = "live" /\ store'.owner = p
  BY <1>0, <1>4, <1>5 DEF StoreRecord
<1>16. \A q \in Procs \ {p} : Owns(q)' => Owns(q)
  BY <1>15 DEF Owns
<1>17. RestOK(proc[p])'
  BY <1>13, <1>14 DEF RestOK, Pending, Exhausted
<1>18. (~loose' => ~loose) /\ (Undisturbed' => Undisturbed)
  BY <1>0, <1>2, Ghost
<1>19. ASSUME ~loose' PROVE Knows(store.job)' /\ StartOK(p)'
  <2>1. Knows(k)
    BY <1>4, <1>18, <1>19 DEF IInv, StartsInv
  <2>2. Knows(store.job)'
    BY <1>2, <1>15, <2>1 DEF Knows
  <2>3. Knows(proc[p].mem)'
    BY <1>2, <1>7, <1>9, <1>14, <2>1 DEF Knows
  <2>4. Counts(proc[p])'
    <3>1. Pending(proc[p])' = {}
      BY <1>11, <1>14 DEF Pending
    <3> QED
      BY <1>10, <1>14, <2>3, <3>1 DEF Counts
  <2> QED
    BY <1>8, <1>9, <1>14, <2>2, <2>4 DEF StartOK, MayWrite
<1>20. ASSUME Undisturbed' PROVE Agrees(store.job)' /\ Whole(store.job)' /\ DoneOK(p)'
  <2>1. Agrees(k) /\ Agrees(j)
    BY <1>4, <1>18, <1>20 DEF IInv, CompletedInv
  <2>2. Agrees(store.job)' /\ Whole(store.job)'
    BY <1>4, <1>15, <2>1 DEF Agrees, Whole
  <2>3. WriterOK(proc[p])'
    <3>1. Pending(proc[p])' = {} /\ Listed(proc[p])' = {}
      BY <1>11, <1>14 DEF Pending, Listed
    <3>2. Agrees(proc[p].mem)' /\ Whole(proc[p].mem)'
      BY <1>7, <1>9, <1>14, <2>1 DEF Agrees, Whole
    <3> QED
      BY <1>7, <1>9, <1>10, <1>14, <3>1, <3>2 DEF WriterOK
  <2>4. Keeps(store.job, proc[p].mem)'
    BY <1>7, <1>9, <1>14, <1>15 DEF Keeps
  <2>5. Single(proc[p])'
    BY <1>10, <1>14 DEF Single
  <2> QED
    BY <1>8, <1>9, <1>10, <1>14, <2>2, <2>3, <2>4, <2>5 DEF DoneOK
<1>21. Exhausted(store'.job) /\ \A t \in Tasks : store'.job.node[t] = "completed" <=> store.job.node[t] = "completed"
  BY <1>4, <1>15
<1> QED
  BY <1>2, <1>0, <1>14, <1>15, <1>16, <1>17, <1>19, <1>20, <1>21, OthersStay

-----------------------------------------------------------------------------
(* An executor is started *)

\* w is y in which the pump is taken to be past its task: the dispatch loop goes on alike.
Passed(y, w) == y \in ProcRecord /\ w = [y EXCEPT !.pump = [y.pump EXCEPT !.at = "unassigned"]]

LEMMA PassedFacts ==
    ASSUME NEW y, NEW w, Passed(y, w)
    PROVE  /\ w \in ProcRecord
           /\ w.claim = y.claim /\ w.revision = y.revision /\ w.ctl = y.ctl /\ w.ex = y.ex
           /\ w.phase = y.phase /\ w.mem = y.mem /\ w.finished = y.finished /\ w.active = y.active
           /\ w.timedOut = y.timedOut /\ w.aborted = y.aborted
           /\ w.pump \in Pump /\ w.pump.at = "unassigned" /\ w.pump.ready = y.pump.ready
           /\ w.pump.paused = y.pump.paused /\ w.pump.again = y.pump.again
           /\ \A u : [w EXCEPT !.pump = u] = [y EXCEPT !.pump = u]
           /\ Active(w) = Active(y) /\ \A S : InState(w, S) = InState(y, S)
<1> DEFINE v == [y.pump EXCEPT !.at = "unassigned"]
<1>0. y \in ProcRecord /\ w = [y EXCEPT !.pump = v]
  BY DEF Passed
<1>1. v \in Pump /\ v.at = "unassigned" /\ v.ready = y.pump.ready /\ v.paused = y.pump.paused /\ v.again = y.pump.again
  BY <1>0, ProcParts DEF Pump
<1> HIDE DEF v
<1>2. /\ w \in ProcRecord
      /\ w.claim = y.claim /\ w.revision = y.revision /\ w.ctl = y.ctl /\ w.ex = y.ex
      /\ w.phase = y.phase /\ w.mem = y.mem /\ w.finished = y.finished /\ w.active = y.active
      /\ w.timedOut = y.timedOut /\ w.aborted = y.aborted /\ w.pump = v
  BY <1>0, <1>1 DEF ProcRecord
<1>3. \A u : [w EXCEPT !.pump = u] = [y EXCEPT !.pump = u]
  BY <1>0 DEF ProcRecord
<1>4. Active(w) = Active(y) /\ \A S : InState(w, S) = InState(y, S)
  BY <1>2 DEF Active, InState
<1> QED
  BY <1>1, <1>2, <1>3, <1>4

LEMMA PassedEnds ==
    ASSUME NEW y, NEW w, Passed(y, w)
    PROVE  PumpEnd(w) = PumpEnd(y) /\ PumpThrow(w) = PumpThrow(y)
<1> DEFINE u == IF y.pump.again /\ ~y.finished THEN [Quiet EXCEPT !.at = "again"] ELSE Quiet
<1>0. /\ w.finished = y.finished /\ w.pump.again = y.pump.again
      /\ [w EXCEPT !.pump = u] = [y EXCEPT !.pump = u] /\ [w EXCEPT !.pump = Quiet] = [y EXCEPT !.pump = Quiet]
  BY PassedFacts
<1>1. PumpEnd(w) = [w EXCEPT !.pump = u] /\ PumpEnd(y) = [y EXCEPT !.pump = u]
  BY <1>0, PassedFacts DEF PumpEnd, Passed, ProcRecord
<1>2. PumpThrow(w) = PumpThrow(y)
  BY <1>0 DEF PumpThrow
<1> HIDE DEF u
<1> QED
  BY <1>0, <1>1, <1>2

LEMMA PassedFinish ==
    ASSUME NEW y, NEW w, Passed(y, w), NEW wanted
    PROVE  FinishJob(w, wanted) = FinishJob(y, wanted)
<1> DEFINE final == FinalStatus(y, wanted)
           j == IF y.timedOut THEN TimedOutMem(y.mem) ELSE y.mem
           u == [Quiet EXCEPT !.at = "finish"]
           m == [j EXCEPT !.status = final]
           y1 == [y EXCEPT !.mem = j, !.finished = TRUE]
           w1 == [w EXCEPT !.mem = j, !.finished = TRUE]
<1>0. w.finished = y.finished /\ w.mem = y.mem /\ w.timedOut = y.timedOut /\ w.aborted = y.aborted /\ w \in ProcRecord
      /\ y \in ProcRecord /\ PumpEnd(w) = PumpEnd(y)
  BY PassedFacts, PassedEnds DEF Passed
<1>1. FinalStatus(w, wanted) = final
  BY <1>0 DEF FinalStatus
<1>2. FinishJob(w, wanted) = IF y.finished THEN PumpEnd(y)
          ELSE IF CanJob(j.status, final) THEN [w1 EXCEPT !.mem.status = final, !.pump = u] ELSE PumpThrow(w1)
  BY <1>0, <1>1 DEF FinishJob
<1>3. FinishJob(y, wanted) = IF y.finished THEN PumpEnd(y)
          ELSE IF CanJob(j.status, final) THEN [y1 EXCEPT !.mem.status = final, !.pump = u] ELSE PumpThrow(y1)
  BY DEF FinishJob
<1> HIDE DEF final, j, u
<1>4. [w1 EXCEPT !.mem.status = final, !.pump = u] = [w EXCEPT !.mem = m, !.finished = TRUE, !.pump = u]
  BY <1>0 DEF ProcRecord
<1>5. [y1 EXCEPT !.mem.status = final, !.pump = u] = [y EXCEPT !.mem = m, !.finished = TRUE, !.pump = u]
  BY <1>0 DEF ProcRecord
<1> HIDE DEF m
<1>6. [w EXCEPT !.mem = m, !.finished = TRUE, !.pump = u] = [y EXCEPT !.mem = m, !.finished = TRUE, !.pump = u]
  BY DEF Passed, ProcRecord
<1>7. [w1 EXCEPT !.pump = Quiet] = [y1 EXCEPT !.pump = Quiet]
  BY DEF Passed, ProcRecord
<1>8. PumpThrow(w1) = PumpThrow(y1)
  BY <1>7 DEF PumpThrow
<1> QED
  BY <1>2, <1>3, <1>4, <1>5, <1>6, <1>8

LEMMA PassedFails ==
    ASSUME NEW y, NEW w, Passed(y, w), NEW at, NEW t, NEW ready
    PROVE  FailNode(w, at, t, ready) = FailNode(y, at, t, ready)
<1> DEFINE m == [y.mem EXCEPT !.node[t] = "failed"]
           v == [y.pump EXCEPT !.at = "unassigned"]
           u == [y.pump EXCEPT !.at = at, !.task = t, !.half = 1, !.ready = ready]
<1>0. y \in ProcRecord /\ w = [y EXCEPT !.pump = v] /\ y.pump \in Pump
  BY ProcParts DEF Passed
<1>1. w \in ProcRecord /\ w.mem = y.mem /\ w.pump = v
  BY <1>0, PassedFacts DEF ProcRecord
<1>2. FailNode(y, at, t, ready) = [y EXCEPT !.mem = m, !.pump = u]
  BY <1>0 DEF FailNode, ProcRecord, Pump
<1>3. [v EXCEPT !.at = at, !.task = t, !.half = 1, !.ready = ready] = u
  BY <1>0 DEF Pump
<1>4. FailNode(w, at, t, ready) = [w EXCEPT !.mem = m, !.pump = [v EXCEPT !.at = at, !.task = t, !.half = 1, !.ready = ready]]
  <2> HIDE DEF v
  <2> QED
    BY <1>1 DEF FailNode, ProcRecord, Pump
<1> HIDE DEF m, u, v
<1>5. [w EXCEPT !.mem = m, !.pump = u] = [y EXCEPT !.mem = m, !.pump = u]
  BY <1>0 DEF ProcRecord
<1> QED
  BY <1>2, <1>3, <1>4, <1>5

LEMMA PassedDispatching ==
    ASSUME NEW y, NEW w, Passed(y, w)
    PROVE  Dispatching(w) = Dispatching(y)
<1>0. /\ y \in ProcRecord /\ w \in ProcRecord /\ w.mem = y.mem /\ w.finished = y.finished /\ w.active = y.active
      /\ w.pump.ready = y.pump.ready /\ w.pump.paused = y.pump.paused
      /\ Active(w) = Active(y) /\ \A S : InState(w, S) = InState(y, S)
  <2>1. y \in ProcRecord
    BY DEF Passed
  <2> QED
    BY <2>1, PassedFacts
<1>1. ASSUME NEW dead PROVE Deadlocked(w, dead) = Deadlocked(y, dead)
  BY PassedFinish, PassedFails DEF Deadlocked
<1>2. CheckTermination(w) = CheckTermination(y)
  <2>1. AllFinished(w) = AllFinished(y)
    BY <1>0 DEF AllFinished
  <2>2. Deadlocked(w, InState(w, {"idle"})) = Deadlocked(y, InState(y, {"idle"}))
    BY <1>0, <1>1
  <2>3. FinishJob(w, IF InState(w, {"failed", "orphaned"}) # {} THEN "failed" ELSE "completed")
        = FinishJob(y, IF InState(y, {"failed", "orphaned"}) # {} THEN "failed" ELSE "completed")
    BY <1>0, PassedFinish
  <2>4. PumpEnd(w) = PumpEnd(y)
    BY PassedEnds
  <2> QED
    BY <1>0, <2>1, <2>2, <2>3, <2>4 DEF CheckTermination
<1>3. ASSUME NEW t, t = First(y.pump.ready)
      PROVE  [w EXCEPT !.active[t] = w.mem.retry[t] + 1,
                       !.pump.at = "assign", !.pump.task = t, !.pump.ready = @ \ {t}]
             = [y EXCEPT !.active[t] = y.mem.retry[t] + 1,
                       !.pump.at = "assign", !.pump.task = t, !.pump.ready = @ \ {t}]
  <2> DEFINE a == [y.active EXCEPT ![t] = y.mem.retry[t] + 1]
             v == [y.pump EXCEPT !.at = "unassigned"]
             u == [y.pump EXCEPT !.at = "assign", !.task = t, !.ready = y.pump.ready \ {t}]
             x == [v EXCEPT !.at = "assign", !.task = t, !.ready = v.ready \ {t}]
  <2>1. y.pump \in Pump /\ w = [y EXCEPT !.pump = v]
    BY ProcParts DEF Passed
  <2>2. w.pump = v /\ v \in Pump
    <3>1. v \in Pump
      BY <2>1 DEF Pump
    <3> QED
      BY <2>1, <3>1 DEF Passed, ProcRecord
  <2>3. x = u
    BY <2>1 DEF Pump
  <2>4. [y EXCEPT !.active[t] = y.mem.retry[t] + 1, !.pump.at = "assign", !.pump.task = t, !.pump.ready = @ \ {t}]
        = [y EXCEPT !.active = a, !.pump = u]
    BY <1>0, <2>1 DEF ProcRecord, Pump
  <2>5. [w EXCEPT !.active[t] = w.mem.retry[t] + 1, !.pump.at = "assign", !.pump.task = t, !.pump.ready = @ \ {t}]
        = [w EXCEPT !.active = a, !.pump = x]
    <3> HIDE DEF v
    <3> QED
      BY <1>0, <2>2 DEF ProcRecord, Pump
  <2> HIDE DEF a, u, x
  <2>6. [w EXCEPT !.active = a, !.pump = u] = [y EXCEPT !.active = a, !.pump = u]
    <3> HIDE DEF v
    <3> QED
      BY <1>0, <2>1 DEF ProcRecord
  <2> QED
    BY <2>3, <2>4, <2>5, <2>6
<1>4. [w EXCEPT !.active[First(w.pump.ready)] = w.mem.retry[First(w.pump.ready)] + 1,
                !.pump.at = "assign", !.pump.task = First(w.pump.ready), !.pump.ready = @ \ {First(w.pump.ready)}]
      = [y EXCEPT !.active[First(y.pump.ready)] = y.mem.retry[First(y.pump.ready)] + 1,
                !.pump.at = "assign", !.pump.task = First(y.pump.ready), !.pump.ready = @ \ {First(y.pump.ready)}]
  <2>1. First(w.pump.ready) = First(y.pump.ready)
    BY <1>0
  <2> QED
    BY <1>3, <2>1
<1> QED
  BY <1>0, <1>2, <1>4 DEF Dispatching

\* The attempt e has been added to the ones under way, and the loop is past its task.
Launched(s, e, w) ==
    /\ w \in ProcRecord
    /\ w.claim = s.claim /\ w.revision = s.revision /\ w.ctl = s.ctl /\ w.phase = s.phase
    /\ w.mem = s.mem /\ w.finished = s.finished
    /\ w.ex[e].at = "run" /\ \A f \in Attempts \ {e} : w.ex[f] = s.ex[f]
    /\ w.pump.at = "unassigned" /\ w.pump.ready = s.pump.ready

LEMMA LaunchMove ==
    ASSUME NEW s \in ProcRecord, NEW e \in Attempts
    PROVE  \E w : Launched(s, e, w) /\ PumpMove(w, Dispatching([s EXCEPT !.ex[e].at = "run"]), s.pump.ready)
<1> DEFINE x == [s.ex EXCEPT ![e] = [s.ex[e] EXCEPT !.at = "run"]]
           y == [s EXCEPT !.ex = x]
           w == [y EXCEPT !.pump = [y.pump EXCEPT !.at = "unassigned"]]
<1>1. [s EXCEPT !.ex[e].at = "run"] = y
  BY DEF ProcRecord
<1>2. x \in [Attempts -> Attempt] /\ x[e].at = "run" /\ \A f \in Attempts \ {e} : x[f] = s.ex[f]
  <2>1. s.ex \in [Attempts -> Attempt] /\ s.ex[e] \in Attempt
    BY ProcParts
  <2>2. [s.ex[e] EXCEPT !.at = "run"] \in Attempt /\ [s.ex[e] EXCEPT !.at = "run"].at = "run"
    BY <2>1 DEF Attempt
  <2> QED
    BY <2>1, <2>2
<1> HIDE DEF x
<1>3. /\ y \in ProcRecord /\ y.claim = s.claim /\ y.revision = s.revision /\ y.ctl = s.ctl /\ y.phase = s.phase
      /\ y.mem = s.mem /\ y.finished = s.finished /\ y.ex = x /\ y.pump = s.pump
  BY <1>2 DEF ProcRecord
<1> HIDE DEF y
<1>4. Passed(y, w)
  BY <1>3 DEF Passed
<1> HIDE DEF w
<1>5. /\ w \in ProcRecord /\ w.claim = y.claim /\ w.revision = y.revision /\ w.ctl = y.ctl /\ w.ex = y.ex
      /\ w.phase = y.phase /\ w.mem = y.mem /\ w.finished = y.finished
      /\ w.pump.at = "unassigned" /\ w.pump.ready = y.pump.ready
  BY <1>4, PassedFacts
<1>6. Launched(s, e, w)
  BY <1>2, <1>3, <1>5 DEF Launched
<1>7. PumpMove(w, Dispatching(w), s.pump.ready)
  BY <1>3, <1>5, DispatchingMove
<1>8. Dispatching(w) = Dispatching([s EXCEPT !.ex[e].at = "run"])
  BY <1>1, <1>4, PassedDispatching
<1> QED
  BY <1>6, <1>7, <1>8

\* A process whose write of the task is accepted, and which starts e, is in order after it.
LEMMA LaunchKeeps ==
    ASSUME NEW s \in ProcRecord, RestOK(s), deps \in Graphs, s.pump.at = "dispatch",
           NEW e \in Attempts, e[1] = s.pump.task, NEW w, Launched(s, e, w), NEW z, PumpMove(w, z, s.pump.ready)
    PROVE  /\ RestOK(z)
           /\ ~Overlap(s) /\ Single(s) => Single(z)
           /\ Counts(s) /\ WriterOK(s) => WriterOK(z) /\ Keeps(s.mem, z.mem)
<1>0. /\ w \in ProcRecord /\ s.phase \in {"run", "leaving", "done"} /\ ~s.finished /\ s.pump.task \in Tasks
      /\ s.pump.task \notin s.pump.ready /\ s.pump.ready \subseteq Tasks
  BY PumpingPhase, ProcParts DEF Launched, RestOK
<1>1. /\ Pending(w) = s.pump.ready /\ Listed(w) = s.pump.ready
      /\ Pending(s) = s.pump.ready \cup {s.pump.task} /\ Listed(s) = s.pump.ready \cup {s.pump.task}
  BY <1>0 DEF Launched, Pending, Listed
<1>2. RestOK(w)
  BY <1>0, <1>1 DEF RestOK, Launched
<1>3. RestOK(z)
  BY <1>0, <1>1, <1>2, MoveKeeps DEF Launched
<1>4. ASSUME ~Overlap(s), Single(s) PROVE Single(z)
  <2>1. \A f \in Attempts \ {e} : f[1] = e[1] => w.ex[f].at = "none"
    BY <1>4 DEF Overlap, Launched
  <2>2. \A f, g \in Attempts \ {e} : w.ex[f].at # "none" /\ w.ex[g].at # "none" /\ f[1] = g[1] => f = g
    BY <1>4 DEF Single, Launched
  <2>3. Single(w)
    BY <2>1, <2>2 DEF Single
  <2>4. z.ex = w.ex
    BY DEF PumpMove
  <2> QED
    BY <2>3, <2>4 DEF Single
<1>5. ASSUME Counts(s), WriterOK(s) PROVE WriterOK(z) /\ Keeps(s.mem, z.mem)
  <2>1. s.mem.node[e[1]] \notin {"idle", "completed"}
    BY <1>1, <1>5 DEF Counts, WriterOK
  <2>2. \A t \in Listed(w) : \A f \in Attempts : f[1] = t => w.ex[f].at # "run"
    <3>1. \A t \in Listed(w) : t \in Listed(s) /\ t # e[1]
      BY <1>0, <1>1
    <3>2. \A t \in Listed(w) : \A f \in Attempts : f[1] = t => f # e /\ s.ex[f].at # "run"
      BY <1>5, <3>1 DEF WriterOK
    <3> QED
      BY <3>2 DEF Launched
  <2>3. \A f \in Attempts :
          /\ w.ex[f].at = "run" => w.mem.node[f[1]] # "idle"
          /\ w.ex[f].at \in {"run", "retry", "fail", "cancel"} => w.mem.node[f[1]] # "completed"
    BY <1>5, <2>1 DEF WriterOK, Launched
  <2>4. WriterOK(w)
    BY <1>1, <1>5, <2>2, <2>3 DEF WriterOK, Launched
  <2>5. WriterOK(z) /\ Keeps(w.mem, z.mem)
    BY <1>0, <1>1, <2>4, MoveKeeps
  <2> QED
    BY <2>5 DEF Launched
<1> QED
  BY <1>3, <1>4, <1>5

\* e had not been started, and s and z know of every attempt that has been started now.
CountedOnce(e, s, z) ==
    /\ starts[e] = 0
    /\ \A t \in Tasks : \A r \in 0..RetryBound + 1 :
          starts'[<<t, r>>] # 0 => \/ r < s.mem.retry[t]
                                   \/ r = s.mem.retry[t] /\ s.mem.node[t] # "idle"
    /\ \A t \in Tasks : \A r \in 0..RetryBound + 1 :
          starts'[<<t, r>>] # 0 => \/ r < z.mem.retry[t]
                                   \/ r = z.mem.retry[t] /\ z.mem.node[t] # "idle"
    /\ \A t \in Pending(z) : starts'[<<t, z.mem.retry[t]>>] = 0
    /\ z.pump.at # "dispatch"

\* ... and e is counted.
LEMMA LaunchCounts ==
    ASSUME NEW s \in ProcRecord, RestOK(s), s.pump.at = "dispatch", Counts(s), starts \in [Attempts -> Nat],
           NEW e, e = <<s.pump.task, s.mem.retry[s.pump.task]>>,
           \A f \in Attempts : f # e => starts'[f] = starts[f],
           NEW w, Launched(s, e, w), NEW z, PumpMove(w, z, s.pump.ready)
    PROVE  CountedOnce(e, s, z)
<1> DEFINE k == s.pump.task
<1>0. /\ k \in Tasks /\ s.mem.retry \in [Tasks -> 0..RetryBound + 1] /\ k \notin s.pump.ready
      /\ s.pump.ready \subseteq Tasks /\ k \in Pending(s) /\ s.pump.ready \subseteq Pending(s)
      /\ s.mem.node[k] # "idle"
  BY ProcParts DEF RestOK, Pending, Counts
<1> HIDE DEF k
<1>1. starts[e] = 0 /\ e = <<k, s.mem.retry[k]>>
  BY <1>0 DEF Counts, k
<1>2. \A t \in Tasks : \A r \in 0..RetryBound + 1 :
        starts'[<<t, r>>] # 0 => starts[<<t, r>>] # 0 \/ (t = k /\ r = s.mem.retry[k])
  <2>1. \A f \in Attempts : f # e => starts'[f] = starts[f]
    OBVIOUS
  <2>2. \A t \in Tasks : \A r \in 0..RetryBound + 1 : <<t, r>> \in Attempts
    BY DEF Attempts
  <2> QED
    BY <1>1, <2>1, <2>2
<1>3. ASSUME NEW t \in Tasks, NEW r \in 0..RetryBound + 1, starts'[<<t, r>>] # 0
      PROVE  r < s.mem.retry[t] \/ (r = s.mem.retry[t] /\ s.mem.node[t] # "idle")
  <2>1. CASE t = k /\ r = s.mem.retry[k]
    BY <1>0, <2>1
  <2>2. CASE starts[<<t, r>>] # 0
    BY <2>2 DEF Counts, Knows
  <2> QED
    BY <1>2, <1>3, <2>1, <2>2
<1>4. /\ z.mem.retry = s.mem.retry
      /\ \A t \in Tasks : z.mem.node[t] = s.mem.node[t] \/ z.mem.node[t] = "failed"
      /\ \A t \in Pending(z) : t \in Tasks /\ (t \in s.pump.ready \/ s.mem.node[t] = "idle")
      /\ z.pump.at # "dispatch"
  BY DEF PumpMove, Launched, Pending
<1>5. ASSUME NEW t \in Pending(z) PROVE starts'[<<t, z.mem.retry[t]>>] = 0
  <2>1. t # k /\ t \in Tasks /\ s.mem.retry[t] \in 0..RetryBound + 1
    BY <1>0, <1>4
  <2>2. starts[<<t, s.mem.retry[t]>>] = 0
    <3>1. CASE t \in s.pump.ready
      BY <1>0, <3>1 DEF Counts
    <3>2. CASE s.mem.node[t] = "idle"
      BY <2>1, <3>2 DEF Counts, Knows
    <3> QED
      BY <1>4, <3>1, <3>2
  <2> QED
    BY <1>2, <1>4, <2>1, <2>2
<1>6. \A t \in Tasks : \A r \in 0..RetryBound + 1 :
        starts'[<<t, r>>] # 0 => r < z.mem.retry[t] \/ (r = z.mem.retry[t] /\ z.mem.node[t] # "idle")
  BY <1>3, <1>4
<1> QED
  BY <1>1, <1>3, <1>4, <1>5, <1>6 DEF CountedOnce

LEMMA DispatchedInv ==
    ASSUME IInv, LooseStep, NEW p \in Procs, Dispatched(p)
    PROVE  IInv'
<1> DEFINE s == proc[p]
           m == s.mem
           e == <<s.pump.task, s.mem.retry[s.pump.task]>>
           z == Dispatching([s EXCEPT !.ex[e].at = "run"])
<1>0. /\ s \in ProcRecord /\ RestOK(s) /\ deps \in Graphs /\ loose \in BOOLEAN
      /\ store \in StoreRecord /\ starts \in [Attempts -> Nat] /\ incidents \subseteq Incidents
  BY ProcFacts
<1>1. /\ s.pump.at = "dispatch" /\ Flush(p, z, PumpThrow(s))
      /\ starts' = [starts EXCEPT ![e] = @ + (IF CanFlush(p) /\ incidents' = incidents THEN 1 ELSE 0)]
  BY DEF Dispatched, Pumping
<1>2. s.phase \in {"run", "leaving", "done"} /\ ~AtRest(s)
  BY <1>0, <1>1, PumpingPhase DEF AtRest
<1>3. Steps(s, PumpThrow(s))
  BY <1>0, <1>2, PumpThrowProgress DEF Progress
<1>4. e \in Attempts /\ e[1] = s.pump.task
  BY <1>0, ProcParts DEF Attempts
<1>5. PICK w : Launched(s, e, w) /\ PumpMove(w, z, s.pump.ready)
  BY <1>0, <1>4, LaunchMove
<1>6. e = <<s.pump.task, s.mem.retry[s.pump.task]>>
  OBVIOUS
<1> HIDE DEF e, z
<1>7. CASE ~CanFlush(p) /\ proc' = [proc EXCEPT ![p] = PumpThrow(s)] /\ UNCHANGED <<store, incidents>>
  <2>1. starts' = starts
    BY <1>0, <1>1, <1>4, <1>7
  <2> QED
    BY <1>1, <1>3, <1>7, <2>1, ThrownStep DEF Flush
<1>8. CASE /\ CanFlush(p) /\ Incident("write") /\ UNCHANGED store
           /\ \E r \in {"same", "ahead"} : proc' = [proc EXCEPT ![p] = [PumpThrow(s) EXCEPT !.revision = r]]
  <2>1. incidents' # incidents
    BY <1>8 DEF Incident
  <2>2. starts' = starts
    BY <1>0, <1>1, <1>4, <2>1
  <2> QED
    BY <1>1, <1>3, <1>8, <2>2, ThrownStep DEF Flush
<1>9. CASE /\ CanFlush(p) /\ store' = [store EXCEPT !.job = proc[p].mem]
           /\ proc' = Written(p, z) /\ UNCHANGED incidents
  <2>0. deps' = deps /\ m \in Job /\ Exhausted(m)
    BY <1>0, <1>1, ProcParts DEF Flush, RestOK
  <2>1. starts' = [starts EXCEPT ![e] = @ + 1] /\ starts' \in [Attempts -> Nat]
    <3>1. starts' = [starts EXCEPT ![e] = @ + 1]
      BY <1>1, <1>9
    <3> QED
      BY <1>0, <1>4, <3>1
  <2>2. /\ RestOK(z) /\ z \in ProcRecord
        /\ ~Overlap(s) /\ Single(s) => Single(z)
        /\ Counts(s) /\ WriterOK(s) => WriterOK(z) /\ Keeps(m, z.mem)
    BY <1>0, <1>1, <1>4, <1>5, LaunchKeeps DEF PumpMove
  <2>3. /\ z.phase \in {"run", "leaving", "done"} /\ z.revision = s.revision
        /\ \A f \in Attempts : z.ex[f].at = "run" => f = e \/ s.ex[f].at = "run"
    BY <1>2, <1>5 DEF PumpMove, Launched
  <2>4. proc'[p] = z /\ store'.job = m /\ store'.lease = store.lease /\ store'.owner = store.owner
    BY <1>0, <1>9 DEF Written, StoreRecord
  <2>5. (~loose' => ~loose) /\ (Undisturbed' => Undisturbed /\ ~loose)
    BY <1>0, <1>9, Ghost DEF Undisturbed
  <2>6. /\ ~loose => s.phase \in {"starting", "run"} /\ Owns(p) /\ Counts(s) /\ ~Overlap(s)
        /\ Undisturbed => Writer(p) /\ WriterOK(s) /\ Keeps(store.job, m) /\ Single(s)
    BY <1>2, <1>9, WriterHolds
  <2>7. ASSUME ~loose'
        PROVE  (\A f \in Attempts : starts'[f] <= 1) /\ Knows(store.job)' /\ StartOK(p)'
    <3>0. ~loose /\ Counts(s)
      BY <2>5, <2>6, <2>7
    <3>1. /\ starts[e] = 0
          /\ \A t \in Tasks : \A r \in 0..RetryBound + 1 :
                starts'[<<t, r>>] # 0 => \/ r < s.mem.retry[t]
                                         \/ r = s.mem.retry[t] /\ s.mem.node[t] # "idle"
          /\ \A t \in Tasks : \A r \in 0..RetryBound + 1 :
                starts'[<<t, r>>] # 0 => \/ r < z.mem.retry[t]
                                         \/ r = z.mem.retry[t] /\ z.mem.node[t] # "idle"
          /\ \A t \in Pending(z) : starts'[<<t, z.mem.retry[t]>>] = 0
          /\ z.pump.at # "dispatch"
      <4>1. \A f \in Attempts : f # e => starts'[f] = starts[f]
        BY <1>0, <1>4, <2>1
      <4> HIDE DEF s, m
      <4>2. s \in ProcRecord /\ RestOK(s) /\ s.pump.at = "dispatch" /\ Counts(s) /\ starts \in [Attempts -> Nat]
        BY <1>0, <1>1, <3>0
      <4>3. Launched(s, e, w) /\ PumpMove(w, z, s.pump.ready)
        BY <1>5
      <4> HIDE DEF e, z
      <4>4. CountedOnce(e, s, z)
        BY <1>6, <4>1, <4>2, <4>3, LaunchCounts
      <4> QED
        BY <4>4 DEF CountedOnce
    <3>2. \A f \in Attempts : starts[f] <= 1
      BY <3>0 DEF IInv, StartsInv
    <3>3. \A f \in Attempts : starts'[f] <= 1
      BY <1>0, <1>4, <2>1, <3>1, <3>2
    <3>4. Knows(store.job)'
      BY <2>4, <3>1 DEF Knows
    <3>5. Counts(proc[p])'
      <4>1. Knows(proc[p].mem)'
        BY <2>4, <3>1 DEF Knows
      <4>2. \A t \in Pending(proc[p])' : starts'[<<t, proc'[p].mem.retry[t]>>] = 0
        BY <2>4, <3>1 DEF Pending
      <4> QED
        BY <2>4, <3>1, <4>1, <4>2 DEF Counts
    <3>6. StartOK(p)'
      BY <2>3, <2>4, <3>5 DEF StartOK, MayWrite
    <3> QED
      BY <3>3, <3>4, <3>6
  <2>8. ASSUME Undisturbed' PROVE Agrees(m) /\ Whole(m) /\ Keeps(store.job, m) /\ DoneOK(p)'
    <3>0. Undisturbed /\ WriterOK(s) /\ Keeps(store.job, m) /\ Single(s) /\ Counts(s) /\ ~Overlap(s)
      BY <2>5, <2>6, <2>8
    <3>1. Agrees(m) /\ Whole(m)
      BY <3>0 DEF WriterOK
    <3>2. Single(z) /\ WriterOK(z) /\ Keeps(m, z.mem)
      BY <2>2, <3>0
    <3>3. WriterOK(proc[p])' /\ Keeps(store.job, proc[p].mem)'
      BY <2>0, <2>4, <3>2 DEF WriterOK, Keeps, Agrees, Whole, Pending, Listed
    <3>4. Single(proc[p])'
      BY <2>4, <3>2 DEF Single
    <3>5. z.revision # "ahead"
      BY <1>9, <2>3 DEF CanFlush
    <3>6. ASSUME NEW f \in Attempts, z.ex[f].at = "run", NEW d \in deps[f[1]]
          PROVE  m.node[d] = "completed"
      <4>1. CASE f = e
        <5>1. s.pump.task \in Pending(s)
          BY <1>0, <1>1, ProcParts DEF Pending
        <5> QED
          BY <1>4, <3>0, <3>6, <4>1, <5>1 DEF WriterOK
      <4>2. CASE s.ex[f].at = "run"
        <5>1. store.job.node[d] = "completed"
          BY <3>0, <3>6, <4>2 DEF IInv, CompletedInv, DoneOK
        <5>2. d \in Tasks
          BY <1>0, <3>6, DepsFacts DEF Attempts
        <5> QED
          BY <3>0, <5>1, <5>2 DEF Keeps
      <4> QED
        BY <2>3, <3>6, <4>1, <4>2
    <3>7. DoneOK(p)'
      BY <2>0, <2>3, <2>4, <3>3, <3>4, <3>5, <3>6 DEF DoneOK
    <3> QED
      BY <3>0, <3>1, <3>7
  <2>9. ~loose' => starts' = starts \/ Owns(p)
    BY <2>5, <2>6
  <2>10. incidents \subseteq incidents' /\ incidents' \subseteq Incidents
    BY <1>0, <1>9
  <2> QED
    BY <1>9, <2>0, <2>1, <2>2, <2>7, <2>8, <2>9, <2>10, Overwritten
<1> QED
  BY <1>1, <1>7, <1>8, <1>9 DEF Flush

-----------------------------------------------------------------------------
(* The invariant *)

LEMMA InitIInv == Init => IInv
<1> SUFFICES ASSUME Init PROVE IInv
  OBVIOUS
<1>0. /\ deps \in Graphs /\ store = [job |-> NewJob, lease |-> "none", owner |-> NoProc, cancel |-> FALSE]
      /\ proc = [p \in Procs |-> Fresh("off")] /\ incidents = {} /\ starts = [e \in Attempts |-> 0] /\ loose = FALSE
  BY DEF Init
<1>1. /\ Fresh("off") \in ProcRecord /\ Fresh("off").phase = "off" /\ Fresh("off").revision = "older"
      /\ ~Fresh("off").claim /\ Fresh("off").ctl = NoControl
      /\ \A e \in Attempts : Fresh("off").ex[e].at = "none"
      /\ RestOK(Fresh("off")) /\ Tidy(Fresh("off")) /\ Single(Fresh("off"))
  BY FreshFacts
<1>2. /\ NewJob \in Job /\ NewJob.status = "pending"
      /\ \A t \in Tasks : NewJob.node[t] = "idle" /\ NewJob.task[t] = "pending" /\ NewJob.retry[t] = 0
  BY ConstantFacts DEF NewJob
<1>3. \A p \in Procs : proc[p] = Fresh("off")
  BY <1>0
<1>4. Exhausted(NewJob) /\ Agrees(NewJob) /\ Whole(NewJob)
  BY <1>2, ConstantFacts DEF Exhausted, Agrees, Whole
<1>5. store \in StoreRecord /\ store.job = NewJob
  BY <1>0, <1>2 DEF StoreRecord
<1>6. starts \in [Attempts -> Nat] /\ \A e \in Attempts : starts[e] = 0
  BY <1>0
<1>7. TypeInv
  <2>1. proc \in [Procs -> ProcRecord]
    BY <1>0, <1>1
  <2>2. \A p \in Procs : RestOK(proc[p])
    BY <1>1, <1>3
  <2> QED
    BY <1>0, <1>4, <1>5, <1>6, <2>1, <2>2 DEF TypeInv
<1>8. TidyInv
  BY <1>1, <1>3 DEF TidyInv
<1>9. StartsInv
  <2>1. Knows(store.job)
    <3>1. \A t \in Tasks : \A r \in 0..RetryBound + 1 : <<t, r>> \in Attempts
      BY DEF Attempts
    <3> QED
      BY <1>6, <3>1 DEF Knows
  <2>2. \A p \in Procs : StartOK(p)
    BY <1>1, <1>3 DEF StartOK, MayWrite
  <2>3. \A e \in Attempts : starts[e] <= 1
    BY <1>6
  <2> QED
    BY <2>1, <2>2, <2>3 DEF StartsInv
<1>10. CompletedInv
  <2>1. \A p \in Procs : DoneOK(p)
    BY <1>1, <1>3 DEF DoneOK, Writer
  <2> QED
    BY <1>4, <1>5, <2>1 DEF CompletedInv
<1> QED
  BY <1>7, <1>8, <1>9, <1>10 DEF IInv

LEMMA NextIInv == IInv /\ [Next]_vars => IInv'
<1> SUFFICES ASSUME IInv, [Next]_vars PROVE IInv'
  OBVIOUS
<1>1. CASE Next
  <2>0. LooseStep /\ Step
    BY <1>1 DEF Next, LooseStep
  <2>1. CASE LeaseExpires
    BY <2>0, <2>1, LeaseExpiresInv
  <2>2. ASSUME NEW p \in Procs, PumpStep(p) PROVE IInv'
    BY <2>0, <2>2, PumpAgainInv, AssignedInv, PumpNodeSavedInv, PumpTaskSavedInv, DispatchedInv, FinishedInv
    DEF PumpStep
  <2>3. ASSUME NEW p \in Procs, AttemptStep(p) PROVE IInv'
    BY <2>0, <2>3, AttemptSavedInv, ExecutorReturnsInv, ExecutorThrowsInv DEF AttemptStep
  <2>4. ASSUME NEW p \in Procs, RunStep(p) PROVE IInv'
    BY <2>0, <2>4, LoadInv, HealSavedInv, AcquireInv, StartSavedInv, ReleaseInv DEF RunStep
  <2>5. ASSUME NEW p \in Procs, ControlStep(p) PROVE IInv'
    BY <2>0, <2>5, ControlInv, ResumesInv, RemoteCancelsInv, RemotePausesInv, ControlSavedInv DEF ControlStep
  <2>6. ASSUME NEW p \in Procs, NotPlaced(p) \/ NotAssigned(p) \/ Crash(p) PROVE IInv'
    BY <2>0, <2>6, NotPlacedInv, NotAssignedInv, CrashInv
  <2> QED
    BY <2>0, <2>1, <2>2, <2>3, <2>4, <2>5, <2>6 DEF Step
<1>2. CASE UNCHANGED vars
  <2> USE <1>2 DEF vars
  <2>1. TypeInv'
    BY DEF IInv, TypeInv, RestOK, Pending, Exhausted
  <2>2. TidyInv'
    BY DEF IInv, TidyInv, Tidy, Overlap, Straggling, AtRest
  <2>3. StartsInv'
    BY DEF IInv, StartsInv, StartOK, Counts, MayWrite, Knows, Pending, Owns
  <2>4. CompletedInv'
    BY DEF IInv, CompletedInv, Undisturbed, DoneOK, Writer, WriterOK, CanFlush, Owns, Keeps, Agrees, Whole,
           Single, Pending, Listed
  <2> QED
    BY <2>1, <2>2, <2>3, <2>4 DEF IInv
<1> QED
  BY <1>1, <1>2

-----------------------------------------------------------------------------
(* What is completed stays completed *)

\* No step takes an incident back.
LEMMA IncidentsStay == [Next]_vars => incidents \subseteq incidents'
<1> DEFINE A == incidents \subseteq incidents'
<1>0. ASSUME NEW p, NEW done, NEW thrown, Flush(p, done, thrown) PROVE A
  BY <1>0 DEF Flush, Incident
<1>1. ASSUME NEW p \in Procs, PumpStep(p) PROVE A
  BY <1>0, <1>1 DEF PumpStep, PumpAgain, Assigned, PumpNodeSaved, PumpTaskSaved, Dispatched, Finished
<1>2. ASSUME NEW p \in Procs, AttemptStep(p) PROVE A
  BY <1>0, <1>2 DEF AttemptStep, AttemptSaved, ExecutorReturns, ExecutorThrows
<1>3. ASSUME NEW p \in Procs, RunStep(p) PROVE A
  BY <1>0, <1>3 DEF RunStep, Load, HealSaved, Acquire, StartSaved, Release
<1>4. ASSUME NEW p \in Procs, ControlStep(p) PROVE A
  BY <1>0, <1>4 DEF ControlStep, UserCancels, TimesOut, RenewCancels, RenewFails, SignalAborts, RemoteCancels, Pauses,
                    RemotePauses, Resumes, ControlSaved, CancelsTask, ReportsOrphaned, Incident
<1>5. ASSUME NEW p \in Procs, NotPlaced(p) \/ NotAssigned(p) \/ Crash(p) PROVE A
  BY <1>5 DEF NotPlaced, NotAssigned, Crash, Incident
<1>6. ASSUME LeaseExpires PROVE A
  BY <1>6 DEF LeaseExpires, Incident
<1>7. ASSUME UNCHANGED vars PROVE A
  BY <1>7 DEF vars
<1> HIDE DEF A
<1>8. [Next]_vars => A
  BY <1>1, <1>2, <1>3, <1>4, <1>5, <1>6, <1>7 DEF Next, Step
<1> QED
  BY <1>8 DEF A

\* Whoever writes the record has every completed node of it.
LEMMA FlushKeeps ==
    ASSUME IInv, Undisturbed, NEW p \in Procs, NEW done, NEW thrown, Flush(p, done, thrown),
           proc[p].phase \in {"healing", "idle", "starting"} \/ ~AtRest(proc[p])
    PROVE  Keeps(store.job, store'.job)
<1>0. proc[p] \in ProcRecord /\ RestOK(proc[p]) /\ store \in StoreRecord
  BY ProcFacts
<1>1. CASE store' = store
  BY <1>1 DEF Keeps
<1>2. CASE CanFlush(p) /\ store' = [store EXCEPT !.job = proc[p].mem]
  <2>1. store'.job = proc[p].mem
    BY <1>0, <1>2 DEF StoreRecord
  <2>2. CASE proc[p].phase \in {"healing", "idle"}
    <3>1. DoneOK(p) /\ proc[p].revision = "same"
      BY <1>2 DEF IInv, CompletedInv, CanFlush
    <3> QED
      BY <2>1, <2>2, <3>1 DEF DoneOK
  <2>3. CASE proc[p].phase \notin {"healing", "idle"}
    <3>1. proc[p].phase \in {"starting", "run", "leaving", "done"}
      BY <1>0, <2>3 DEF RestOK, AtRest, ProcRecord
    <3> QED
      BY <1>2, <2>1, <2>3, <3>1, WriterHolds
  <2> QED
    BY <2>2, <2>3
<1> QED
  BY <1>1, <1>2 DEF Flush

LEMMA StepKeeps ==
    ASSUME IInv, [Next]_vars, Undisturbed'
    PROVE  Keeps(store.job, store'.job)
<1> DEFINE A == Keeps(store.job, store'.job)
<1>a. Undisturbed
  <2>1. incidents \subseteq incidents'
    BY IncidentsStay
  <2>2. ~loose' => ~loose
    BY DEF Next, vars, IInv, TypeInv
  <2> QED
    BY <2>1, <2>2 DEF Undisturbed
<1>b. store'.job = store.job => A
  BY DEF Keeps
<1> HIDE DEF A
<1>0. ASSUME NEW p \in Procs, NEW done, NEW thrown, Flush(p, done, thrown),
             proc[p].phase \in {"healing", "idle", "starting"} \/ ~AtRest(proc[p])
      PROVE  A
  BY <1>0, <1>a, FlushKeeps DEF A
<1>1. ASSUME NEW p \in Procs, PumpStep(p) PROVE A
  <2>1. proc[p].pump.at # "idle" => ~AtRest(proc[p])
    BY DEF AtRest
  <2> QED
    BY <1>0, <1>1, <1>b, <2>1
    DEF PumpStep, PumpAgain, Assigned, PumpNodeSaved, PumpTaskSaved, Dispatched, Finished, Pumping
<1>2. ASSUME NEW p \in Procs, AttemptStep(p) PROVE A
  <2>1. \A e \in Attempts : proc[p].ex[e].at # "none" => ~AtRest(proc[p])
    BY DEF AtRest
  <2> QED
    BY <1>0, <1>2, <1>b, <2>1 DEF AttemptStep, AttemptSaved, ExecutorReturns, ExecutorThrows
<1>3. ASSUME NEW p \in Procs, RunStep(p) PROVE A
  <2>0. store \in StoreRecord /\ store.job \in Job /\ Exhausted(store.job)
    BY ProcFacts, <1>3 DEF StoreRecord
  <2>1. CASE Load(p)
    BY <1>b, <2>1 DEF Load
  <2>2. CASE HealSaved(p)
    BY <1>0, <2>2 DEF HealSaved
  <2>3. CASE Acquire(p)
    <3> DEFINE j == store.job
               orphan == /\ j.status = "failed" /\ store.lease = "expired"
                         /\ \E t \in Tasks : j.node[t] = "orphaned"
    <3>1. PICK unknown \in SUBSET Interrupted(j, orphan) :
             store' = [store EXCEPT !.job = Recovered(j, orphan, unknown), !.lease = "live", !.owner = p]
      BY <2>3 DEF Acquire
    <3>2. j.status # "completed" /\ orphan \in BOOLEAN
      BY <2>3 DEF Acquire, Terminal
    <3> HIDE DEF orphan
    <3>3. \A t \in Tasks : Recovered(j, orphan, unknown).node[t] = "completed" <=> j.node[t] = "completed"
      BY <2>0, <3>2, RecoveredFacts
    <3>4. store'.job = Recovered(j, orphan, unknown)
      BY <2>0, <3>1 DEF StoreRecord
    <3> QED
      BY <3>3, <3>4 DEF A, Keeps
  <2>4. CASE StartSaved(p)
    BY <1>0, <2>4 DEF StartSaved
  <2>5. CASE Release(p)
    <3>1. store'.job = store.job
      BY <2>0, <2>5 DEF Release, StoreRecord
    <3> QED
      BY <1>b, <3>1
  <2> QED
    BY <1>3, <2>1, <2>2, <2>3, <2>4, <2>5 DEF RunStep
<1>4. ASSUME NEW p \in Procs, ControlStep(p) PROVE A
  <2>0. store \in StoreRecord /\ store.job \in Job
    BY ProcFacts, <1>4 DEF StoreRecord
  <2>1. CASE RemoteCancels(p)
    <3> DEFINE j == store.job
               w == [t \in Tasks |-> IF j.task[t] \in {"completed", "failed"} THEN j.task[t] ELSE "cancelled"]
               n == [t \in Tasks |-> IF j.node[t] \in {"completed", "failed", "orphaned"} THEN j.node[t] ELSE "cancelled"]
               m == [j EXCEPT !.status = "cancelled", !.task = w, !.node = n]
    <3>1. m = [j EXCEPT !.status = "cancelled",
            !.task = [t \in Tasks |-> IF @[t] \in {"completed", "failed"} THEN @[t] ELSE "cancelled"],
            !.node = [t \in Tasks |-> IF @[t] \in {"completed", "failed", "orphaned"} THEN @[t] ELSE "cancelled"]]
      BY <2>0 DEF Job
    <3>2. store' = [store EXCEPT !.cancel = TRUE] \/ store' = [store EXCEPT !.job = m]
      BY <2>1, <3>1 DEF RemoteCancels
    <3>3. m.node = n
      BY <2>0 DEF Job
    <3>4. store'.job = store.job \/ store'.job.node = n
      <4> HIDE DEF m, n
      <4> QED
        BY <2>0, <3>2, <3>3 DEF StoreRecord
    <3>5. \A t \in Tasks : j.node[t] = "completed" => n[t] = "completed"
      OBVIOUS
    <3> HIDE DEF n
    <3> QED
      BY <1>b, <3>4, <3>5 DEF A, Keeps
  <2>2. CASE RemotePauses(p)
    <3>1. store' = [store EXCEPT !.job = [store.job EXCEPT !.status = "paused"]]
      BY <2>2 DEF RemotePauses
    <3>2. store'.job.node = store.job.node
      BY <2>0, <3>1 DEF StoreRecord, Job
    <3> QED
      BY <3>2 DEF A, Keeps
  <2>3. CASE ControlSaved(p)
    <3>1. ~AtRest(proc[p])
      BY <2>3 DEF ControlSaved, AtRest
    <3> QED
      BY <1>0, <2>3, <3>1 DEF ControlSaved
  <2> QED
    BY <1>4, <1>b, <2>1, <2>2, <2>3
    DEF ControlStep, UserCancels, TimesOut, RenewCancels, RenewFails, SignalAborts, Pauses, Resumes,
        CancelsTask, ReportsOrphaned
<1>5. ASSUME NEW p \in Procs, NotPlaced(p) \/ NotAssigned(p) \/ Crash(p) PROVE A
  BY <1>5, <1>b DEF NotPlaced, NotAssigned, Crash
<1>6. ASSUME LeaseExpires PROVE A
  <2>1. store'.job = store.job
    BY <1>6 DEF LeaseExpires, IInv, TypeInv, StoreRecord
  <2> QED
    BY <1>b, <2>1
<1>7. ASSUME UNCHANGED vars PROVE A
  BY <1>7, <1>b DEF vars
<1>8. A
  BY <1>1, <1>2, <1>3, <1>4, <1>5, <1>6, <1>7 DEF Next, Step
<1> QED
  BY <1>8 DEF A

-----------------------------------------------------------------------------
(* The status of the job *)

\* From s to z a process that has a claim keeps it, and its copy's status changes only
\* as statusTransitions.ts allows.
Heeds(s, z) == z.claim => s.claim /\ CanJob(s.mem.status, z.mem.status)

\* The copy of the process that owns the job is not behind the store's terminal status.
StatusInv == \A p \in Procs : Owns(p) => CanJob(store.job.status, proc[p].mem.status)

LEMMA CanJobMore ==
    ASSUME NEW a, NEW b, NEW c, CanJob(a, b), CanJob(b, c)
    PROVE  CanJob(a, c)
BY DEF CanJob, Terminal

LEMMA SameHeeds ==
    ASSUME NEW s, NEW z, z.claim = s.claim, z.mem.status = s.mem.status
    PROVE  Heeds(s, z)
BY DEF Heeds, CanJob

\* A step from y is one from s when the two have the same claim and status.
LEMMA HeedsFrom ==
    ASSUME NEW s, NEW y, NEW z, y.claim = s.claim, y.mem.status = s.mem.status, Heeds(y, z)
    PROVE  Heeds(s, z)
BY DEF Heeds

LEMMA FinishJobHeeds ==
    ASSUME NEW s \in ProcRecord, NEW wanted \in Terminal
    PROVE  Heeds(s, FinishJob(s, wanted))
<1> DEFINE final == FinalStatus(s, wanted)
           j == IF s.timedOut THEN TimedOutMem(s.mem) ELSE s.mem
           y == [s EXCEPT !.mem = j, !.finished = TRUE]
           u == [Quiet EXCEPT !.at = "finish"]
<1>1. CASE s.finished
  <2>1. PumpEnd(s).claim = s.claim /\ PumpEnd(s).mem = s.mem
    BY DEF PumpEnd, ProcRecord
  <2> QED
    BY <1>1, <2>1, SameHeeds DEF FinishJob
<1>2. j \in Job /\ j.status = s.mem.status
  BY ProcParts, TimedOutFacts
<1>3. FinishJob(s, wanted) = IF s.finished THEN PumpEnd(s)
                             ELSE IF CanJob(j.status, final) THEN [y EXCEPT !.mem.status = final, !.pump = u]
                             ELSE PumpThrow(y)
  BY DEF FinishJob
<1> HIDE DEF final, j, u
<1>4. y \in ProcRecord /\ y.mem = j /\ y.claim = s.claim
  BY <1>2 DEF ProcRecord
<1> HIDE DEF y
<1>5. CASE ~s.finished /\ CanJob(j.status, final)
  <2> DEFINE z == [y EXCEPT !.mem.status = final, !.pump = u]
  <2>1. z.claim = s.claim /\ z.mem.status = final
    BY <1>2, <1>4 DEF ProcRecord, Job
  <2> HIDE DEF z
  <2>2. Heeds(s, z)
    BY <2>1, <1>2, <1>5 DEF Heeds
  <2> QED
    BY <1>3, <1>5, <2>2 DEF z
<1>6. CASE ~s.finished /\ ~CanJob(j.status, final)
  <2>1. PumpThrow(y).mem = y.mem /\ PumpThrow(y).claim = y.claim
    BY <1>4, PumpThrowMove DEF PumpMove
  <2> QED
    BY <1>2, <1>3, <1>4, <1>6, <2>1, SameHeeds
<1> QED
  BY <1>1, <1>5, <1>6

LEMMA FailNodeHeeds ==
    ASSUME NEW s \in ProcRecord, NEW at, NEW t, NEW ready
    PROVE  Heeds(s, FailNode(s, at, t, ready))
<1>1. /\ FailNode(s, at, t, ready).claim = s.claim
      /\ FailNode(s, at, t, ready).mem.status = s.mem.status
  BY ProcParts DEF FailNode, ProcRecord, Job
<1> QED
  BY <1>1, SameHeeds

LEMMA PumpEndHeeds ==
    ASSUME NEW s \in ProcRecord
    PROVE  Heeds(s, PumpEnd(s)) /\ Heeds(s, PumpThrow(s))
<1>1. PumpEnd(s).claim = s.claim /\ PumpEnd(s).mem = s.mem
  BY DEF PumpEnd, ProcRecord
<1>2. PumpThrow(s).claim = s.claim /\ PumpThrow(s).mem = s.mem
  BY PumpThrowMove DEF PumpMove
<1> QED
  BY <1>1, <1>2, SameHeeds

LEMMA DeadlockedHeeds ==
    ASSUME NEW s \in ProcRecord, NEW dead
    PROVE  Heeds(s, Deadlocked(s, dead))
BY FinishJobHeeds, FailNodeHeeds DEF Deadlocked, Terminal

LEMMA CheckTerminationHeeds ==
    ASSUME NEW s \in ProcRecord
    PROVE  Heeds(s, CheckTermination(s))
BY PumpEndHeeds, FinishJobHeeds, DeadlockedHeeds DEF CheckTermination, Terminal

LEMMA DispatchingHeeds ==
    ASSUME NEW s \in ProcRecord
    PROVE  Heeds(s, Dispatching(s))
<1>1. Heeds(s, CheckTermination(s))
  BY CheckTerminationHeeds
<1> DEFINE t == First(s.pump.ready)
           z == [s EXCEPT !.active[t] = s.mem.retry[t] + 1,
                          !.pump.at = "assign", !.pump.task = t, !.pump.ready = @ \ {t}]
<1>2. Dispatching(s) = CheckTermination(s) \/ Dispatching(s) = z
  BY DEF Dispatching
<1>3. z.claim = s.claim /\ z.mem = s.mem
  BY DEF ProcRecord
<1> HIDE DEF z
<1>4. Heeds(s, z)
  BY <1>3, SameHeeds
<1> QED
  BY <1>1, <1>2, <1>4

LEMMA CascadeHeeds ==
    ASSUME NEW s \in ProcRecord
    PROVE  Heeds(s, Cascade(s))
<1> DEFINE blocked == {t \in InState(s, {"idle"}) : HasFailedDependency(s.mem, t)}
           R == {t \in InState(s, {"idle"}) : DependenciesSatisfied(s.mem, t)}
           u == [s.pump EXCEPT !.paused = (s.mem.status = "paused"), !.ready = R]
           y == [s EXCEPT !.pump = u]
<1>0. Cascade(s) = IF blocked # {} THEN FailNode(s, "cascade", First(blocked), {}) ELSE Dispatching(y)
  BY ProcParts DEF Cascade, ProcRecord, Pump
<1>1. R \subseteq Tasks
  BY DEF InState
<1> HIDE DEF R, blocked
<1>2. u \in Pump
  <2>1. s.pump \in Pump
    BY ProcParts
  <2> QED
    BY <2>1, <1>1 DEF Pump
<1> HIDE DEF u
<1>3. y \in ProcRecord /\ y.claim = s.claim /\ y.mem = s.mem
  BY <1>2 DEF ProcRecord
<1> HIDE DEF y
<1>4. Heeds(s, Dispatching(y))
  BY <1>3, DispatchingHeeds, HeedsFrom
<1> QED
  BY <1>0, <1>4, FailNodeHeeds

LEMMA DoPumpHeeds ==
    ASSUME NEW s \in ProcRecord
    PROVE  Heeds(s, DoPump(s))
BY PumpEndHeeds, FinishJobHeeds, CascadeHeeds DEF DoPump, Terminal

LEMMA WakePumpHeeds ==
    ASSUME NEW s \in ProcRecord
    PROVE  Heeds(s, WakePump(s))
<1>1. [s EXCEPT !.pump.again = TRUE].claim = s.claim /\ [s EXCEPT !.pump.again = TRUE].mem = s.mem
  BY DEF ProcRecord
<1> QED
  BY <1>1, SameHeeds, DoPumpHeeds DEF WakePump

LEMMA LeaveHeeds ==
    ASSUME NEW s \in ProcRecord, NEW e \in Attempts
    PROVE  Heeds(s, Leave(s, e)) /\ Heeds(s, Reject(Leave(s, e)))
<1> DEFINE x == [s.ex EXCEPT ![e] = NotStarted]
           a == [s.active EXCEPT ![e[1]] = 0]
           y == [s EXCEPT !.ex = x, !.active = a, !.stopped = s.stopped \ {e}]
           z == WakePump(y)
<1>1. Leave(s, e) = z
  BY DEF Leave, ProcRecord
<1>2. x \in [Attempts -> Attempt] /\ a \in [Tasks -> 0..RetryBound + 2]
  BY ProcParts, ConstantFacts
<1> HIDE DEF x, a
<1>3. y \in ProcRecord /\ y.claim = s.claim /\ y.mem = s.mem
  BY <1>2 DEF ProcRecord
<1> HIDE DEF y
<1>4. Heeds(s, z) /\ z \in ProcRecord
  BY <1>3, WakePumpHeeds, HeedsFrom, WakePumpMove DEF PumpMove, Nudged
<1> HIDE DEF z
<1>5. Heeds(s, Reject(z))
  BY <1>4, RejectFacts DEF Heeds
<1> QED
  BY <1>1, <1>4, <1>5

\* The changes of a branch are about its node and its task.
LEMMA ChangeStatus ==
    ASSUME NEW j \in Job, NEW t, NEW branch
    PROVE  /\ FirstChange(j, t, branch).status = j.status
           /\ SecondChange(j, t, branch).status = j.status
           /\ Refused(j, t, branch).status = j.status
<1>1. FirstChange(j, t, branch).status = j.status
  BY DEF FirstChange, Job
<1>2. SecondChange(j, t, branch).status = j.status
  BY DEF SecondChange, Job
<1>3. Refused(j, t, branch).status = j.status
  BY DEF Refused, Job
<1> QED
  BY <1>1, <1>2, <1>3

LEMMA EnterHeeds ==
    ASSUME NEW s \in ProcRecord, NEW e, NEW branch, NEW caught
    PROVE  Heeds(s, Enter(s, e, branch, caught))
<1>1. /\ Enter(s, e, branch, caught).claim = s.claim
      /\ Enter(s, e, branch, caught).mem = FirstChange(s.mem, e[1], branch)
  BY DEF Enter, ProcRecord
<1>2. FirstChange(s.mem, e[1], branch).status = s.mem.status
  BY ProcParts, ChangeStatus
<1> QED
  BY <1>1, <1>2, SameHeeds

LEMMA RefusedStatus ==
    ASSUME NEW s \in ProcRecord, NEW e, NEW branch
    PROVE  LET y == [s EXCEPT !.mem = Refused(@, e[1], branch), !.orphaned = @ \ {e[1]}] IN
           y.claim = s.claim /\ y.mem.status = s.mem.status
<1> DEFINE y == [s EXCEPT !.mem = Refused(@, e[1], branch), !.orphaned = @ \ {e[1]}]
<1>1. y.claim = s.claim /\ y.mem = Refused(s.mem, e[1], branch)
  BY DEF ProcRecord
<1>2. Refused(s.mem, e[1], branch).status = s.mem.status
  BY ProcParts, ChangeStatus
<1> QED
  BY <1>1, <1>2

LEMMA CatchHeeds ==
    ASSUME NEW s \in ProcRecord, RestOK(s), deps \in Graphs, NEW e \in Attempts, s.ex[e].at # "none",
           NEW outcome
    PROVE  Heeds(s, Catch(s, e, outcome))
<1> DEFINE branch == Branch(s, e, outcome)
           y == [s EXCEPT !.mem = Refused(@, e[1], branch), !.orphaned = @ \ {e[1]}]
<1>1. Catch(s, e, outcome) = IF FirstAllowed(s.mem, e[1], branch) THEN Enter(s, e, branch, TRUE) ELSE Reject(Leave(y, e))
  BY DEF Catch
<1> HIDE DEF branch
<1>2. y \in ProcRecord
  BY RefusedFacts
<1>3. y.claim = s.claim /\ y.mem.status = s.mem.status
  BY RefusedStatus
<1> HIDE DEF y
<1>4. Heeds(s, Reject(Leave(y, e)))
  BY <1>2, <1>3, LeaveHeeds, HeedsFrom
<1> QED
  BY <1>1, <1>4, EnterHeeds

LEMMA ThrowHeeds ==
    ASSUME NEW s \in ProcRecord, RestOK(s), deps \in Graphs, NEW e \in Attempts, s.ex[e].at # "none"
    PROVE  Heeds(s, Throw(s, e))
BY CatchHeeds, LeaveHeeds DEF Throw

LEMMA ReturnHeeds ==
    ASSUME NEW s \in ProcRecord, RestOK(s), deps \in Graphs, NEW e \in Attempts, s.ex[e].at = "run", NEW outcome
    PROVE  LET branch == Branch(s, e, outcome) IN
           Heeds(s, IF FirstAllowed(s.mem, e[1], branch) THEN Enter(s, e, branch, FALSE)
                    ELSE Catch([s EXCEPT !.mem = Refused(@, e[1], branch), !.orphaned = @ \ {e[1]}], e, "failed"))
<1> DEFINE branch == Branch(s, e, outcome)
           y == [s EXCEPT !.mem = Refused(@, e[1], branch), !.orphaned = @ \ {e[1]}]
<1> HIDE DEF branch
<1>1. y \in ProcRecord /\ RestOK(y) /\ y.ex = s.ex
  BY RefusedFacts
<1>2. y.claim = s.claim /\ y.mem.status = s.mem.status
  BY RefusedStatus
<1> HIDE DEF y
<1>3. Heeds(s, Catch(y, e, "failed"))
  BY <1>1, <1>2, CatchHeeds, HeedsFrom
<1>4. Heeds(s, IF FirstAllowed(s.mem, e[1], branch) THEN Enter(s, e, branch, FALSE) ELSE Catch(y, e, "failed"))
  BY <1>3, EnterHeeds
<1> QED
  BY <1>4 DEF y, branch

LEMMA SavedHeeds ==
    ASSUME NEW s \in ProcRecord, RestOK(s), deps \in Graphs, NEW e \in Attempts, s.ex[e].at # "none"
    PROVE  LET branch == s.ex[e].at IN
           Heeds(s, IF s.ex[e].half = 2 \/ branch \in {"complete", "fail"} THEN Leave(s, e)
                    ELSE IF SecondAllowed(s.mem, e[1], branch)
                    THEN [s EXCEPT !.mem = SecondChange(@, e[1], branch), !.ex[e].half = 2]
                    ELSE Throw(s, e))
<1> DEFINE branch == s.ex[e].at
           z == [s EXCEPT !.mem = SecondChange(@, e[1], branch), !.ex[e].half = 2]
<1>1. z.claim = s.claim /\ z.mem = SecondChange(s.mem, e[1], branch)
  BY DEF ProcRecord
<1>2. SecondChange(s.mem, e[1], branch).status = s.mem.status
  BY ProcParts, ChangeStatus
<1> HIDE DEF z
<1>3. Heeds(s, z)
  BY <1>1, <1>2, SameHeeds
<1>4. Heeds(s, IF s.ex[e].half = 2 \/ branch \in {"complete", "fail"} THEN Leave(s, e)
               ELSE IF SecondAllowed(s.mem, e[1], branch) THEN z ELSE Throw(s, e))
  BY <1>3, LeaveHeeds, ThrowHeeds
<1> QED
  BY <1>4 DEF z

LEMMA CancelJobHeeds ==
    ASSUME NEW s \in ProcRecord, NEW what
    PROVE  Heeds(s, CancelJob(s, what)) /\ Heeds(s, AbortAll(s))
<1> DEFINE b == AbortAll(s)
           y == IF s.phase = "run" THEN [b EXCEPT !.active = [t \in Tasks |-> 0]] ELSE s
           w == [t \in Tasks |-> IF s.mem.task[t] \in {"pending", "running"} THEN "cancelled" ELSE s.mem.task[t]]
           z == [y EXCEPT !.mem.status = "cancelled", !.mem.task = w, !.ctl = [NoControl EXCEPT !.what = what]]
<1>1. b \in ProcRecord /\ b.claim = s.claim /\ b.mem = s.mem
  BY AbortAllAlike DEF Alike
<1> HIDE DEF b
<1>2. y \in ProcRecord /\ y.claim = s.claim /\ y.mem = s.mem
  <2>1. [t \in Tasks |-> 0] \in [Tasks -> 0..RetryBound + 2]
    BY ConstantFacts
  <2> QED
    BY <1>1, <2>1 DEF ProcRecord
<1>3. CancelJob(s, what) = IF s.mem.status \in {"completed", "failed"}
                           THEN IF what = "renewCancel" THEN AbortAll(y) ELSE y
                           ELSE z
  BY DEF CancelJob, b
<1> HIDE DEF y, w
<1>4. AbortAll(y).claim = s.claim /\ AbortAll(y).mem = s.mem
  BY <1>2, AbortAllAlike DEF Alike
<1>5. z.claim = s.claim /\ z.mem.status = "cancelled"
  BY <1>2 DEF ProcRecord, Job
<1> HIDE DEF z
<1>6. Heeds(s, y) /\ Heeds(s, AbortAll(y)) /\ Heeds(s, b)
  BY <1>1, <1>2, <1>4, SameHeeds
<1>7. s.mem.status \notin {"completed", "failed"} => Heeds(s, z)
  BY <1>5 DEF Heeds, CanJob, Terminal
<1> QED
  BY <1>3, <1>6, <1>7 DEF b

LEMMA ControlHeeds ==
    ASSUME NEW s \in ProcRecord, NEW c
    PROVE  LET y == [s EXCEPT !.ctl = NoControl] IN
           /\ Heeds(s, ControlDone(y, c)) /\ Heeds(s, ControlThrown(y, c))
           /\ ControlThrown(y, c) \in ProcRecord
<1> DEFINE y == [s EXCEPT !.ctl = NoControl]
           z == [y EXCEPT !.mem.node[c.task] = "cancelled", !.ctl = [c EXCEPT !.half = 2]]
<1>1. y \in ProcRecord /\ y.claim = s.claim /\ y.mem = s.mem
  BY NoControlAlike DEF Alike
<1> HIDE DEF y
<1>2. z.claim = s.claim /\ z.mem.status = s.mem.status
  BY <1>1 DEF ProcRecord, Job
<1>3. ControlDone(y, c) \in {WakePump(y), y, z}
  BY DEF ControlDone
<1> HIDE DEF z
<1>4. Heeds(s, z) /\ Heeds(s, y) /\ Heeds(s, WakePump(y)) /\ Heeds(s, AbortAll(y)) /\ AbortAll(y) \in ProcRecord
  BY <1>1, <1>2, SameHeeds, WakePumpHeeds, CancelJobHeeds, HeedsFrom, AbortAllAlike DEF Alike
<1>5. /\ Heeds(s, ControlDone(y, c)) /\ Heeds(s, ControlThrown(y, c))
      /\ ControlThrown(y, c) \in ProcRecord
  BY <1>1, <1>3, <1>4 DEF ControlThrown
<1> QED
  BY <1>5 DEF y

-----------------------------------------------------------------------------
(* A terminal status is final *)

\* What TerminalStays says of a step.
Final ==
    ~loose' /\ store.job.status \in Terminal /\ store'.job.status # store.job.status => Revives \/ Unaware

\* Nobody becomes an owner, and the store takes a status that the owner follows.
LEMMA StatusKept ==
    ASSUME StatusInv, \A q \in Procs : Heeds(proc[q], proc'[q]),
           store'.lease = "live" => store.lease = "live", store'.owner = store.owner,
           \A q \in Procs : Owns(q) => \/ store'.job.status = store.job.status
                                       \/ store'.job.status = proc[q].mem.status
                                       \/ store'.job.status \notin Terminal
    PROVE  StatusInv'
<1> SUFFICES ASSUME NEW q \in Procs, Owns(q)' PROVE CanJob(store'.job.status, proc'[q].mem.status)
  BY DEF StatusInv
<1>1. Owns(q) /\ CanJob(proc[q].mem.status, proc'[q].mem.status)
  BY DEF Owns, Heeds
<1>2. CanJob(store.job.status, proc[q].mem.status)
  BY <1>1 DEF StatusInv
<1>3. CASE store'.job.status = store.job.status
  BY <1>1, <1>2, <1>3, CanJobMore
<1>4. CASE store'.job.status = proc[q].mem.status
  BY <1>1, <1>4
<1>5. CASE store'.job.status \notin Terminal
  BY <1>5 DEF CanJob
<1> QED
  BY <1>1, <1>3, <1>4, <1>5

\* A process changes its own copy.
LEMMA LocalStatus ==
    ASSUME IInv, StatusInv, NEW p \in Procs, NEW z, proc' = [proc EXCEPT ![p] = z], store' = store,
           Heeds(proc[p], z)
    PROVE  StatusInv' /\ Final
<1>1. \A q \in Procs : Heeds(proc[q], proc'[q])
  BY SameHeeds, ProcFacts
<1>2. StatusInv'
  BY <1>1, StatusKept
<1> QED
  BY <1>2 DEF Final

LEMMA FlushStatus ==
    ASSUME IInv, StatusInv, LooseStep, NEW p \in Procs, NEW done, NEW thrown, Flush(p, done, thrown),
           thrown \in ProcRecord, Heeds(proc[p], done), Heeds(proc[p], thrown),
           proc[p].phase \in {"healing", "idle", "starting"} \/ ~AtRest(proc[p])
    PROVE  StatusInv' /\ Final
<1>0. proc[p] \in ProcRecord /\ RestOK(proc[p]) /\ store \in StoreRecord /\ proc \in [Procs -> ProcRecord]
  BY ProcFacts
<1>1. CASE /\ CanFlush(p) /\ store' = [store EXCEPT !.job = proc[p].mem]
           /\ proc' = Written(p, done)
  <2>1. store'.job = proc[p].mem /\ store'.lease = store.lease /\ store'.owner = store.owner
    BY <1>0, <1>1 DEF StoreRecord
  <2>2. ASSUME NEW q \in Procs PROVE Heeds(proc[q], proc'[q])
    <3>0. proc[q] \in ProcRecord
      BY <1>0
    <3>1. CASE q = p
      BY <1>1, <3>1 DEF Written
    <3>2. CASE q # p /\ proc[q].revision = "ahead"
      <4>1. proc'[q] = [proc[q] EXCEPT !.revision = "same"]
        BY <1>1, <3>2 DEF Written
      <4>2. proc'[q].claim = proc[q].claim /\ proc'[q].mem = proc[q].mem
        BY <3>0, <4>1 DEF ProcRecord
      <4> QED
        BY <4>2, SameHeeds
    <3>3. CASE q # p /\ proc[q].revision # "ahead"
      <4> DEFINE y == [proc[q] EXCEPT !.revision = "older"]
      <4>1. proc'[q] = Forget(y)
        BY <1>1, <3>3 DEF Written
      <4>2. y.claim = proc[q].claim /\ y.mem = proc[q].mem
        BY <3>0 DEF ProcRecord
      <4> HIDE DEF y
      <4>3. Forget(y) = y \/ (y.phase \in {"idle", "done"} /\ Forget(y) = Fresh(y.phase))
        BY DEF Forget
      <4>4. y.phase \in {"idle", "done"} => ~Fresh(y.phase).claim
        BY FreshFacts
      <4> QED
        BY <4>1, <4>2, <4>3, <4>4, SameHeeds DEF Heeds
    <3> QED
      BY <3>1, <3>2, <3>3
  <2>3. ASSUME NEW q \in Procs, Owns(q) PROVE store'.job.status = proc[q].mem.status
    BY <1>1, <2>1, <2>3 DEF CanFlush, Owns
  <2>4. StatusInv'
    BY <2>1, <2>2, <2>3, StatusKept
  <2>5. Final
    <3> SUFFICES ASSUME ~loose', store.job.status \in Terminal, store'.job.status # store.job.status
                 PROVE  Revives \/ Unaware
      BY DEF Final
    <3>1. CASE proc[p].claim
      <4>1. CanJob(store.job.status, store'.job.status)
        BY <1>1, <2>1, <3>1 DEF CanFlush, StatusInv
      <4> QED
        BY <4>1 DEF CanJob, Revives
    <3>2. CASE ~proc[p].claim /\ proc[p].phase \in {"healing", "idle"}
      BY <1>1, <2>1, <3>2 DEF Unaware
    <3>3. CASE ~proc[p].claim /\ proc[p].phase \notin {"healing", "idle"}
      <4>1. proc[p].phase = "done" /\ ~AtRest(proc[p])
        BY <1>0, <3>3 DEF RestOK, ProcRecord, AtRest
      <4>2. Straggling(proc[p]) /\ ~loose
        BY <4>1, ProcFacts, Ghost DEF Straggling
      <4> QED
        BY <4>2 DEF IInv, TidyInv, Tidy
    <3> QED
      BY <3>1, <3>2, <3>3
  <2> QED
    BY <2>4, <2>5
<1>2. CASE ~CanFlush(p) /\ proc' = [proc EXCEPT ![p] = thrown] /\ store' = store
  BY <1>2, LocalStatus
<1>3. ASSUME NEW r, proc' = [proc EXCEPT ![p] = [thrown EXCEPT !.revision = r]], store' = store
      PROVE  StatusInv' /\ Final
  <2> DEFINE z == [thrown EXCEPT !.revision = r]
  <2>1. z.claim = thrown.claim /\ z.mem = thrown.mem
    BY DEF ProcRecord
  <2>2. proc' = [proc EXCEPT ![p] = z]
    BY <1>3
  <2> HIDE DEF z
  <2>3. Heeds(proc[p], z)
    BY <2>1 DEF Heeds
  <2> QED
    BY <1>3, <2>2, <2>3, LocalStatus
<1> QED
  BY <1>1, <1>2, <1>3 DEF Flush

LEMMA PumpStatus ==
    ASSUME IInv, StatusInv, LooseStep, NEW p \in Procs, PumpStep(p)
    PROVE  StatusInv' /\ Final
<1> DEFINE s == proc[p]
<1>0. /\ s \in ProcRecord /\ PumpThrow(s) \in ProcRecord /\ Heeds(s, PumpThrow(s))
      /\ s.pump.at # "idle" => ~AtRest(s)
  BY ProcFacts, PumpThrowMove, PumpEndHeeds DEF PumpMove, AtRest
<1> DEFINE y == [s EXCEPT !.pump = Quiet]
<1>1. y \in ProcRecord /\ y.claim = s.claim /\ y.mem = s.mem
  BY <1>0, ConstantFacts DEF ProcRecord
<1>2. CASE PumpAgain(p)
  <2>1. proc' = [proc EXCEPT ![p] = DoPump(y)] /\ store' = store
    BY <1>2 DEF PumpAgain
  <2> HIDE DEF y
  <2>2. Heeds(s, DoPump(y))
    BY <1>1, DoPumpHeeds, HeedsFrom
  <2> HIDE DEF s
  <2> QED
    BY <2>1, <2>2, LocalStatus DEF s
<1>3. CASE Assigned(p)
  <2> DEFINE z == [s EXCEPT !.mem.node[s.pump.task] = "running", !.pump.at = "dispatch", !.pump.half = 1]
  <2>1. proc' = [proc EXCEPT ![p] = z] /\ store' = store
    BY <1>3, ProcFacts DEF Assigned
  <2>2. z.claim = s.claim /\ z.mem.status = s.mem.status
    BY <1>0 DEF ProcRecord, Job
  <2> HIDE DEF z
  <2> QED
    BY <2>1, <2>2, SameHeeds, LocalStatus
<1>4. CASE PumpNodeSaved(p)
  <2> DEFINE to == IF s.pump.at = "dispatch" THEN "running" ELSE "failed"
             z == [s EXCEPT !.mem.task[s.pump.task] = to, !.pump.half = 2]
             done == IF CanTask(s.mem.task[s.pump.task], to) THEN z ELSE PumpThrow(s)
  <2>1. Flush(p, done, PumpThrow(s)) /\ s.pump.at # "idle"
    BY <1>4 DEF PumpNodeSaved, Pumping
  <2>2. z.claim = s.claim /\ z.mem.status = s.mem.status
    BY <1>0 DEF ProcRecord, Job
  <2> HIDE DEF z
  <2>3. Heeds(s, done)
    BY <1>0, <2>2, SameHeeds
  <2> HIDE DEF done
  <2> QED
    BY <1>0, <2>1, <2>3, FlushStatus
<1>5. CASE PumpTaskSaved(p)
  <2> DEFINE done == CASE s.pump.at = "cascade" -> Cascade(s)
                       [] s.pump.at = "unassigned" -> Dispatching(s)
                       [] OTHER -> Deadlocked(s, s.pump.ready)
  <2>1. Flush(p, done, PumpThrow(s)) /\ s.pump.at # "idle"
    BY <1>5 DEF PumpTaskSaved, Pumping
  <2>2. done \in {Cascade(s), Dispatching(s), Deadlocked(s, s.pump.ready)}
    OBVIOUS
  <2> HIDE DEF done
  <2>3. Heeds(s, done)
    BY <1>0, <2>2, CascadeHeeds, DispatchingHeeds, DeadlockedHeeds
  <2> QED
    BY <1>0, <2>1, <2>3, FlushStatus
<1>6. CASE Dispatched(p)
  <2> DEFINE e == <<s.pump.task, s.mem.retry[s.pump.task]>>
             w == [s EXCEPT !.ex[e].at = "run"]
  <2>1. Flush(p, Dispatching(w), PumpThrow(s)) /\ s.pump.at # "idle"
    BY <1>6 DEF Dispatched, Pumping
  <2>2. w \in ProcRecord /\ w.claim = s.claim /\ w.mem = s.mem
    <3> DEFINE x == [s.ex EXCEPT ![e] = [s.ex[e] EXCEPT !.at = "run"]]
    <3>1. e \in Attempts
      BY <1>0, ProcParts DEF Attempts
    <3> HIDE DEF e
    <3>2. [s.ex[e] EXCEPT !.at = "run"] \in Attempt
      <4>1. s.ex[e] \in Attempt
        BY <1>0, <3>1, ProcParts
      <4> QED
        BY <4>1 DEF Attempt
    <3>3. x \in [Attempts -> Attempt]
      BY <1>0, <3>1, <3>2, ProcParts
    <3>4. w = [s EXCEPT !.ex = x]
      BY <1>0 DEF ProcRecord
    <3> HIDE DEF x, w
    <3> QED
      BY <1>0, <3>3, <3>4 DEF ProcRecord
  <2> HIDE DEF w
  <2>3. Heeds(s, Dispatching(w))
    BY <2>2, DispatchingHeeds, HeedsFrom
  <2> QED
    BY <1>0, <2>1, <2>3, FlushStatus
<1>7. CASE Finished(p)
  <2>1. Flush(p, Reject(y), PumpThrow(y)) /\ s.pump.at # "idle"
    BY <1>7 DEF Finished, Pumping
  <2> HIDE DEF y
  <2>2. Heeds(s, Reject(y))
    BY <1>1, RejectFacts, SameHeeds
  <2>3. Heeds(s, PumpThrow(y)) /\ PumpThrow(y) \in ProcRecord
    BY <1>1, PumpThrowMove, PumpEndHeeds, HeedsFrom DEF PumpMove
  <2> QED
    BY <1>0, <2>1, <2>2, <2>3, FlushStatus
<1> QED
  BY <1>2, <1>3, <1>4, <1>5, <1>6, <1>7 DEF PumpStep

LEMMA AttemptStatus ==
    ASSUME IInv, StatusInv, LooseStep, NEW p \in Procs, AttemptStep(p)
    PROVE  StatusInv' /\ Final
<1> DEFINE s == proc[p]
<1>0. s \in ProcRecord /\ RestOK(s) /\ deps \in Graphs
  BY ProcFacts
<1>1. ASSUME NEW e \in Attempts, NEW outcome, ExecutorReturns(p, e, outcome)
      PROVE  StatusInv' /\ Final
  <2> DEFINE branch == Branch(s, e, outcome)
             z == IF FirstAllowed(s.mem, e[1], branch) THEN Enter(s, e, branch, FALSE)
                  ELSE Catch([s EXCEPT !.mem = Refused(@, e[1], branch), !.orphaned = @ \ {e[1]}], e, "failed")
  <2>1. proc' = [proc EXCEPT ![p] = z] /\ store' = store /\ s.ex[e].at = "run"
    BY <1>1 DEF ExecutorReturns
  <2>2. Heeds(s, z)
    BY <1>0, <2>1, ReturnHeeds
  <2> HIDE DEF z
  <2> QED
    BY <2>1, <2>2, LocalStatus
<1>a. ASSUME NEW e \in Attempts, NEW outcome, ExecutorThrows(p, e, outcome)
      PROVE  StatusInv' /\ Final
  <2> DEFINE z == Catch(s, e, outcome)
  <2>1. proc' = [proc EXCEPT ![p] = z] /\ store' = store /\ s.ex[e].at = "run"
    BY <1>a DEF ExecutorThrows
  <2>2. Heeds(s, z)
    BY <1>0, <2>1, CatchHeeds
  <2> HIDE DEF z
  <2> QED
    BY <2>1, <2>2, LocalStatus
<1>2. ASSUME NEW e \in Attempts, AttemptSaved(p, e)
      PROVE  StatusInv' /\ Final
  <2> DEFINE done == IF s.ex[e].half = 2 \/ s.ex[e].at \in {"complete", "fail"} THEN Leave(s, e)
                     ELSE IF SecondAllowed(s.mem, e[1], s.ex[e].at)
                     THEN [s EXCEPT !.mem = SecondChange(@, e[1], s.ex[e].at), !.ex[e].half = 2]
                     ELSE Throw(s, e)
  <2>1. Flush(p, done, Throw(s, e)) /\ s.ex[e].at \notin {"none", "run"}
    BY <1>2 DEF AttemptSaved
  <2>2. Heeds(s, done) /\ Heeds(s, Throw(s, e))
    BY <1>0, <2>1, SavedHeeds, ThrowHeeds
  <2>3. Throw(s, e) \in ProcRecord
    BY <1>0, <2>1, ThrowProgress DEF Steps, Frame
  <2>4. ~AtRest(s)
    BY <2>1 DEF AtRest
  <2> HIDE DEF done
  <2> QED
    BY <2>1, <2>2, <2>3, <2>4, FlushStatus
<1> QED
  BY <1>1, <1>a, <1>2 DEF AttemptStep

LEMMA AcquireStatus ==
    ASSUME IInv, StatusInv, NEW p \in Procs, Acquire(p)
    PROVE  StatusInv' /\ Final
<1> DEFINE j == store.job
           orphan == /\ j.status = "failed" /\ store.lease = "expired"
                     /\ \E t \in Tasks : j.node[t] = "orphaned"
<1>0. proc \in [Procs -> ProcRecord] /\ proc[p] \in ProcRecord /\ store \in StoreRecord /\ j \in Job
  BY ProcFacts DEF StoreRecord
<1>1. /\ store.lease # "live" /\ (j.status \in Terminal => orphan) /\ orphan \in BOOLEAN
  BY DEF Acquire
<1>2. PICK unknown \in SUBSET Interrupted(j, orphan) :
         LET k == Recovered(j, orphan, unknown) IN
         /\ store' = [store EXCEPT !.job = k, !.lease = "live", !.owner = p]
         /\ proc' = [proc EXCEPT ![p] =
              IF k.status \in Terminal
              THEN [@ EXCEPT !.phase = "leaving", !.mem = k, !.revision = "same", !.claim = TRUE]
              ELSE [@ EXCEPT !.phase = "starting", !.mem = [k EXCEPT !.status = "running"],
                             !.revision = "same", !.claim = TRUE]]
  BY DEF Acquire
<1> DEFINE k == Recovered(j, orphan, unknown)
           m == IF k.status \in Terminal THEN k ELSE [k EXCEPT !.status = "running"]
<1>3. store'.job = k /\ store'.lease = "live" /\ store'.owner = p
  BY <1>0, <1>2 DEF StoreRecord
<1>4. proc'[p].mem = m
  BY <1>0, <1>2 DEF ProcRecord
<1>5. ASSUME NEW q \in Procs, Owns(q)' PROVE CanJob(store'.job.status, proc'[q].mem.status)
  <2>1. q = p
    BY <1>3, <1>5 DEF Owns
  <2>2. k.status \in Terminal => m = k
    OBVIOUS
  <2> HIDE DEF m, k
  <2> QED
    BY <1>3, <1>4, <2>1, <2>2 DEF CanJob
<1>6. StatusInv'
  BY <1>5 DEF StatusInv
<1>7. Final
  <2> HIDE DEF k
  <2>1. orphan => j.status = "failed" /\ store.lease = "expired"
    OBVIOUS
  <2> HIDE DEF orphan
  <2> QED
    BY <1>1, <1>3, <2>1 DEF Final, Revives
<1> QED
  BY <1>6, <1>7

LEMMA RunStatus ==
    ASSUME IInv, StatusInv, LooseStep, NEW p \in Procs, RunStep(p)
    PROVE  StatusInv' /\ Final
<1> DEFINE s == proc[p]
<1>0. s \in ProcRecord /\ RestOK(s) /\ store \in StoreRecord /\ proc \in [Procs -> ProcRecord]
  BY ProcFacts
<1>1. CASE Load(p)
  <2> DEFINE j == IF store.lease = "live" THEN store.job ELSE Reconciled(store.job)
             z == [s EXCEPT !.phase = IF j = store.job THEN "idle" ELSE "healing", !.mem = j, !.revision = "same"]
  <2>1. proc' = [proc EXCEPT ![p] = z] /\ store' = store /\ s.phase = "off"
    BY <1>1 DEF Load
  <2>2. z.claim = s.claim
    BY <1>0 DEF ProcRecord
  <2> HIDE DEF z
  <2>3. Heeds(s, z)
    BY <1>0, <2>1, <2>2 DEF RestOK, Heeds
  <2> QED
    BY <2>1, <2>3, LocalStatus
<1>2. CASE HealSaved(p)
  <2> DEFINE z == [s EXCEPT !.phase = "idle"]
  <2>1. Flush(p, z, Fresh("dead")) /\ s.phase = "healing"
    BY <1>2 DEF HealSaved
  <2>2. z.claim = s.claim /\ ~s.claim
    BY <1>0, <2>1 DEF ProcRecord, RestOK
  <2> HIDE DEF z
  <2>3. Heeds(s, z) /\ Heeds(s, Fresh("dead")) /\ Fresh("dead") \in ProcRecord
    BY <2>2, FreshFacts DEF Heeds
  <2> QED
    BY <2>1, <2>3, FlushStatus
<1>3. CASE Acquire(p)
  BY <1>3, AcquireStatus
<1>4. CASE StartSaved(p)
  <2> DEFINE y == [s EXCEPT !.phase = "run"]
  <2>1. Flush(p, DoPump(y), Reject(s)) /\ s.phase = "starting"
    BY <1>4 DEF StartSaved
  <2>2. y \in ProcRecord /\ y.claim = s.claim /\ y.mem = s.mem
    BY <1>0 DEF ProcRecord
  <2> HIDE DEF y
  <2>3. Heeds(s, DoPump(y)) /\ Heeds(s, Reject(s)) /\ Reject(s) \in ProcRecord
    BY <1>0, <2>2, DoPumpHeeds, HeedsFrom, RejectFacts, SameHeeds
  <2> QED
    BY <2>1, <2>3, FlushStatus
<1>5. CASE Release(p)
  <2> DEFINE y == [s EXCEPT !.phase = "done", !.claim = FALSE]
  <2>1. proc' = [proc EXCEPT ![p] = Forget(y)]
    BY <1>5 DEF Release
  <2>2. ~y.claim /\ y.phase = "done"
    BY <1>0 DEF ProcRecord
  <2> HIDE DEF y
  <2>3. ~Forget(y).claim
    BY <2>2, FreshFacts DEF Forget
  <2>4. \A q \in Procs : Heeds(proc[q], proc'[q])
    BY <1>0, <2>1, <2>3, SameHeeds DEF Heeds
  <2>5. store'.job = store.job /\ store'.owner = store.owner /\ (store'.lease = "live" => store.lease = "live")
    BY <1>0, <1>5 DEF Release, StoreRecord
  <2>6. StatusInv'
    BY <2>4, <2>5, StatusKept
  <2> QED
    BY <2>5, <2>6 DEF Final
<1> QED
  BY <1>1, <1>2, <1>3, <1>4, <1>5 DEF RunStep

\* cancel() and pause() in a process that does not own the job.
LEMMA RemoteStatus ==
    ASSUME IInv, StatusInv, NEW p \in Procs, RemoteCancels(p) \/ RemotePauses(p)
    PROVE  StatusInv' /\ Final
<1>0. /\ proc[p] \in ProcRecord /\ RestOK(proc[p]) /\ store \in StoreRecord /\ store.job \in Job
      /\ proc \in [Procs -> ProcRecord] /\ proc[p].phase = "idle"
  BY ProcFacts DEF StoreRecord, RemoteCancels, RemotePauses
<1>1. store.job.status \notin Terminal
  BY DEF RemoteCancels, RemotePauses, Cancellable, Pausable, Terminal
<1>2. ~proc[p].claim
  BY <1>0 DEF RestOK
<1>3. ASSUME NEW q \in Procs PROVE Heeds(proc[q], proc'[q])
  <2>0. proc[q] \in ProcRecord
    BY <1>0
  <2>1. ASSUME NEW j PROVE [proc[p] EXCEPT !.mem = j, !.revision = "same"].claim = proc[p].claim
    BY <1>0 DEF ProcRecord
  <2>2. CASE q = p
    <3>1. \E j : proc'[p] = [proc[p] EXCEPT !.mem = j, !.revision = "same"]
      BY <1>0 DEF RemoteCancels, RemotePauses, Written
    <3> QED
      BY <1>2, <2>1, <2>2, <3>1 DEF Heeds
  <2>3. CASE q # p
    <3> DEFINE x == [proc[q] EXCEPT !.revision = "same"]
               y == [proc[q] EXCEPT !.revision = "older"]
    <3>1. proc'[q] \in {proc[q], x, Forget(y)}
      BY <1>0, <2>3 DEF RemoteCancels, RemotePauses, Written
    <3>2. x.claim = proc[q].claim /\ x.mem = proc[q].mem /\ y.claim = proc[q].claim /\ y.mem = proc[q].mem
      BY <2>0 DEF ProcRecord
    <3> HIDE DEF x, y
    <3>3. Forget(y) = y \/ (y.phase \in {"idle", "done"} /\ Forget(y) = Fresh(y.phase))
      BY DEF Forget
    <3>4. y.phase \in {"idle", "done"} => ~Fresh(y.phase).claim
      BY FreshFacts
    <3>5. Heeds(proc[q], proc[q]) /\ Heeds(proc[q], x) /\ Heeds(proc[q], Forget(y))
      BY <3>2, <3>3, <3>4, SameHeeds DEF Heeds
    <3> QED
      BY <3>1, <3>5
  <2> QED
    BY <2>2, <2>3
<1>4. /\ store'.lease = store.lease /\ store'.owner = store.owner
      /\ store.lease = "live" => store'.job = store.job \/ store'.job.status = "paused"
  <2>1. CASE RemotePauses(p)
    <3>1. store' = [store EXCEPT !.job = [store.job EXCEPT !.status = "paused"]]
      BY <2>1 DEF RemotePauses
    <3> QED
      BY <1>0, <3>1 DEF StoreRecord, Job
  <2>2. CASE RemoteCancels(p)
    <3>1. PICK m : /\ store' = [store EXCEPT !.cancel = TRUE] \/ store' = [store EXCEPT !.job = m]
                   /\ store.lease = "live" => store' = [store EXCEPT !.cancel = TRUE]
      BY <2>2 DEF RemoteCancels
    <3> QED
      BY <1>0, <3>1 DEF StoreRecord
  <2> QED
    BY <2>1, <2>2
<1>5. StatusInv'
  BY <1>3, <1>4, StatusKept DEF Owns, Terminal
<1> QED
  BY <1>1, <1>5 DEF Final

LEMMA ControlStatus ==
    ASSUME IInv, StatusInv, LooseStep, NEW p \in Procs, ControlStep(p)
    PROVE  StatusInv' /\ Final
<1> DEFINE s == proc[p]
<1>0. s \in ProcRecord /\ RestOK(s)
  BY ProcFacts
<1>a. ASSUME NEW z, proc' = [proc EXCEPT ![p] = z], store' = store, Heeds(s, z)
      PROVE  StatusInv' /\ Final
  BY <1>a, LocalStatus
<1>1. CASE UserCancels(p) \/ RenewCancels(p)
  <2>1. PICK what : proc' = [proc EXCEPT ![p] = CancelJob(s, what)] /\ store' = store
    BY <1>1 DEF UserCancels, RenewCancels
  <2> QED
    BY <1>0, <1>a, <2>1, CancelJobHeeds
<1>2. CASE TimesOut(p)
  <2> DEFINE y == [s EXCEPT !.timedOut = TRUE]
  <2>1. proc' = [proc EXCEPT ![p] = CancelJob(y, "cancel")] /\ store' = store
    BY <1>2 DEF TimesOut
  <2>2. y \in ProcRecord /\ y.claim = s.claim /\ y.mem = s.mem
    BY <1>0 DEF ProcRecord
  <2> HIDE DEF y
  <2>3. Heeds(s, CancelJob(y, "cancel"))
    BY <2>2, CancelJobHeeds, HeedsFrom
  <2> QED
    BY <1>a, <2>1, <2>3
<1>3. CASE RenewFails(p) \/ SignalAborts(p)
  <2> DEFINE y == [s EXCEPT !.aborted = TRUE]
  <2>1. /\ proc' = [proc EXCEPT ![p] = AbortAll(s)] \/ proc' = [proc EXCEPT ![p] = y]
        /\ store' = store
    BY <1>3, ProcFacts DEF RenewFails, SignalAborts
  <2>2. y.claim = s.claim /\ y.mem = s.mem
    BY <1>0 DEF ProcRecord
  <2> HIDE DEF y
  <2>3. Heeds(s, y) /\ Heeds(s, AbortAll(s))
    BY <1>0, <2>2, SameHeeds, CancelJobHeeds
  <2> QED
    BY <1>a, <2>1, <2>3
<1>4. CASE Pauses(p) \/ Resumes(p)
  <2>1. PICK to, what : /\ proc' = [proc EXCEPT ![p] = [s EXCEPT !.mem.status = to, !.ctl.what = what]]
                        /\ store' = store
    <3>1. Pauses(p) => /\ proc' = [proc EXCEPT ![p] = [s EXCEPT !.mem.status = "paused", !.ctl.what = "pause"]]
                       /\ store' = store
      BY ProcFacts DEF Pauses
    <3>2. Resumes(p) => /\ proc' = [proc EXCEPT ![p] = [s EXCEPT !.mem.status = "ready", !.ctl.what = "resume"]]
                        /\ store' = store
      BY ProcFacts DEF Resumes
    <3> QED
      BY <1>4, <3>1, <3>2
  <2>2. s.mem.status \notin Terminal
    BY <1>4 DEF Pauses, Resumes, Pausable, Terminal
  <2> DEFINE z == [s EXCEPT !.mem.status = to, !.ctl.what = what]
  <2>3. z.claim = s.claim
    BY <1>0 DEF ProcRecord
  <2> HIDE DEF z
  <2>4. Heeds(s, z)
    BY <2>2, <2>3 DEF Heeds, CanJob
  <2> QED
    BY <1>a, <2>1, <2>4 DEF z
<1>5. ASSUME NEW t \in Tasks, CancelsTask(p, t) PROVE StatusInv' /\ Final
  <2> DEFINE y == [s EXCEPT !.stopped = @ \cup {<<t, s.active[t] - 1>>}, !.active[t] = 0]
             x == IF s.active[t] = 0 THEN s ELSE y
             z == IF s.mem.task[t] \in Terminal THEN x
                  ELSE [x EXCEPT !.mem.task[t] = "cancelled",
                                 !.ctl = [what |-> "cancelTask", task |-> t, half |-> 1]]
  <2>1. proc' = [proc EXCEPT ![p] = z] /\ store' = store
    BY <1>5 DEF CancelsTask
  <2>2. x.claim = s.claim /\ x.mem = s.mem /\ x \in ProcRecord
    <3>1. ASSUME s.active[t] # 0 PROVE y \in ProcRecord /\ y.claim = s.claim /\ y.mem = s.mem
      <4> DEFINE S == s.stopped \cup {<<t, s.active[t] - 1>>}
                 a == [s.active EXCEPT ![t] = 0]
      <4>1. S \in SUBSET Attempts
        BY <1>0, <3>1, ProcParts, ActiveAttempt
      <4>2. a \in [Tasks -> 0..RetryBound + 2]
        BY <1>0, ProcParts, ConstantFacts
      <4>3. y = [s EXCEPT !.stopped = S, !.active = a]
        BY <1>0 DEF ProcRecord
      <4> HIDE DEF S, a, y
      <4> QED
        BY <1>0, <4>1, <4>2, <4>3 DEF ProcRecord
    <3> HIDE DEF y
    <3> QED
      BY <1>0, <3>1
  <2> HIDE DEF x
  <2>3. z.claim = s.claim /\ z.mem.status = s.mem.status
    BY <2>2, ProcParts DEF ProcRecord, Job
  <2> HIDE DEF z
  <2>4. Heeds(s, z)
    BY <2>3, SameHeeds
  <2> QED
    BY <1>a, <2>1, <2>4
<1>6. ASSUME NEW t \in Tasks, ReportsOrphaned(p, t) PROVE StatusInv' /\ Final
  <2> DEFINE z == [s EXCEPT !.orphaned = @ \cup {t}, !.stopped = @ \cup {<<t, s.active[t] - 1>>}]
  <2>1. proc' = [proc EXCEPT ![p] = z] /\ store' = store
    BY <1>6, ProcFacts DEF ReportsOrphaned
  <2>2. z.claim = s.claim /\ z.mem = s.mem
    BY <1>0 DEF ProcRecord
  <2> HIDE DEF z
  <2> QED
    BY <1>a, <2>1, <2>2, SameHeeds
<1>7. CASE ControlSaved(p)
  <2> DEFINE y == [s EXCEPT !.ctl = NoControl]
  <2>1. Flush(p, ControlDone(y, s.ctl), ControlThrown(y, s.ctl)) /\ s.ctl.what # "none"
    BY <1>7 DEF ControlSaved, ControlDone, ControlThrown
  <2>2. /\ Heeds(s, ControlDone(y, s.ctl)) /\ Heeds(s, ControlThrown(y, s.ctl))
        /\ ControlThrown(y, s.ctl) \in ProcRecord
    BY <1>0, ControlHeeds
  <2>3. ~AtRest(s)
    BY <2>1 DEF AtRest
  <2> HIDE DEF y
  <2> QED
    BY <2>1, <2>2, <2>3, FlushStatus
<1>8. CASE RemoteCancels(p) \/ RemotePauses(p)
  BY <1>8, RemoteStatus
<1> QED
  BY <1>1, <1>2, <1>3, <1>4, <1>5, <1>6, <1>7, <1>8 DEF ControlStep

LEMMA StatusStep ==
    ASSUME IInv, StatusInv, [Next]_vars
    PROVE  StatusInv' /\ Final
<1>1. CASE Next
  <2>0. LooseStep /\ Step
    BY <1>1 DEF Next, LooseStep
  <2>1. CASE LeaseExpires
    <3>1. proc' = proc /\ store'.job = store.job /\ store'.lease # "live" /\ store'.owner = store.owner
      BY <2>1 DEF LeaseExpires, IInv, TypeInv, StoreRecord
    <3>2. \A q \in Procs : Heeds(proc[q], proc'[q])
      BY <3>1, SameHeeds
    <3>3. StatusInv'
      BY <3>1, <3>2, StatusKept
    <3> QED
      BY <3>1, <3>3 DEF Final
  <2>2. ASSUME NEW p \in Procs, NotAssigned(p) PROVE StatusInv' /\ Final
    <3> DEFINE s == proc[p]
               y == [s EXCEPT !.active[s.pump.task] = 0]
               z == FailNode(y, "unassigned", s.pump.task, s.pump.ready)
    <3>1. proc' = [proc EXCEPT ![p] = z] /\ store' = store
      BY <2>2 DEF NotAssigned
    <3>2. y \in ProcRecord /\ y.claim = s.claim /\ y.mem = s.mem
      <4> DEFINE a == [s.active EXCEPT ![s.pump.task] = 0]
      <4>0. s \in ProcRecord
        BY ProcFacts
      <4>1. y = [s EXCEPT !.active = a]
        BY <4>0 DEF ProcRecord
      <4>2. a \in [Tasks -> 0..RetryBound + 2]
        BY <4>0, ProcParts, ConstantFacts
      <4> HIDE DEF a, s
      <4> QED
        BY <4>0, <4>1, <4>2 DEF ProcRecord
    <3> HIDE DEF y
    <3>3. Heeds(s, z)
      BY <3>2, FailNodeHeeds, HeedsFrom
    <3> HIDE DEF z
    <3> QED
      BY <3>1, <3>3, LocalStatus
  <2>a. ASSUME NEW p \in Procs, NotPlaced(p) PROVE StatusInv' /\ Final
    <3> DEFINE s == proc[p]
               z == CheckTermination(NotPlacedYet(s))
    <3>1. proc' = [proc EXCEPT ![p] = z] /\ store' = store /\ s.pump.at = "assign"
      BY <2>a DEF NotPlaced, NotPlacedYet, Pumping
    <3>2. /\ NotPlacedYet(s) \in ProcRecord
          /\ NotPlacedYet(s).claim = s.claim /\ NotPlacedYet(s).mem = s.mem
      BY <3>1, ProcFacts, NotPlacedFacts
    <3>3. Heeds(s, z)
      BY <3>2, CheckTerminationHeeds, HeedsFrom
    <3> HIDE DEF z
    <3> QED
      BY <3>1, <3>3, LocalStatus
  <2>3. ASSUME NEW p \in Procs, Crash(p) PROVE StatusInv' /\ Final
    <3>1. proc' = [proc EXCEPT ![p] = Fresh("dead")] /\ store' = store
      BY <2>3 DEF Crash
    <3>2. Heeds(proc[p], Fresh("dead"))
      BY FreshFacts DEF Heeds
    <3> QED
      BY <3>1, <3>2, LocalStatus
  <2> QED
    BY <2>0, <2>1, <2>2, <2>a, <2>3, PumpStatus, AttemptStatus, RunStatus, ControlStatus DEF Step
<1>2. CASE UNCHANGED vars
  BY <1>2 DEF vars, StatusInv, Owns, Final
<1> QED
  BY <1>1, <1>2

-----------------------------------------------------------------------------
(* The theorems *)

\* In every state the invariant holds: the record and the copies of it are well formed,
\* the ghost is right about overlapping and unfinished activities, every attempt that
\* has been started is known to whoever may write, and nothing completed is forgotten.
THEOREM JobInvariant == Spec => []IInv
BY InitIInv, NextIInv, PTL DEF Spec

\* The record, the processes and their attempts always have the shape that TypeOK
\* states: no retry count exceeds maxRetries + 1 (jobManager.ts 142-169,
\* jobOrchestrator.ts 700-760), whatever crashes and takeovers there are.
THEOREM JobTypeCorrect == Spec => []TypeOK
<1>1. IInv => TypeOK
  BY DEF IInv, TypeInv, TypeOK, ProcRecord, StoreRecord
<1> QED
  BY <1>1, JobInvariant, PTL

\* While a lease is live, the stored job changes only to its owner's copy, or is paused
\* (jobManager.ts 452-459, 835-838): a process that has lost the job, or never had it,
\* overwrites nothing.
THEOREM JobFenced == Spec => Fenced
<1>1. IInv /\ [Next]_vars =>
        [store.lease = "live" /\ store'.job # store.job =>
            \/ store'.job = proc[store.owner].mem
            \/ store'.job = [store.job EXCEPT !.status = "paused"]]_vars
  BY FencedStep DEF IInv
<1> QED
  BY <1>1, JobInvariant, PTL DEF Spec, Fenced

\* No attempt of a task is started twice (jobManager.ts 142-169), for any number of
\* processes, tasks and retries, through crashes, lost leases and failed writes, as
\* long as every run ends with all that it has started.
THEOREM JobAttemptOnce == Spec => []AttemptOnce
<1>1. IInv => AttemptOnce
  BY DEF IInv, StartsInv, AttemptOnce
<1> QED
  BY <1>1, JobInvariant, PTL

\* While a task's executor runs, all that the task depends on is completed in the store
\* (jobOrchestrator.ts 558-561).
THEOREM JobDependenciesFirst == Spec => []DependenciesFirst
<1>1. IInv => DependenciesFirst
  BY DEF IInv, CompletedInv, DoneOK, DependenciesFirst
<1> QED
  BY <1>1, JobInvariant, PTL

\* A job that is stored as completed has no failed and no unfinished node
\* (jobOrchestrator.ts 890-897, jobManager.ts 262-269).
THEOREM JobCompletedMeansAll == Spec => []CompletedMeansAll
<1>1. IInv => CompletedMeansAll
  BY DEF IInv, CompletedInv, Whole, CompletedMeansAll
<1> QED
  BY <1>1, JobInvariant, PTL

\* A node that is stored as completed stays so (jobManager.ts 142-147, 425-426),
\* through takeovers, cancellations and the writes of every process.
THEOREM JobCompletedStays == Spec => CompletedStays
<1>1. IInv /\ [Next]_vars =>
        [Undisturbed' =>
            \A t \in Tasks : store.job.node[t] = "completed" => store'.job.node[t] = "completed"]_vars
  BY StepKeeps DEF Keeps
<1> QED
  BY <1>1, JobInvariant, PTL DEF Spec, CompletedStays

\* A terminal status is final in the store (statusTransitions.ts 58-63, jobManager.ts
\* 136-138, 419), for any number of processes: what changes it is a timeout after a
\* cancellation, the recovery of an orphaned job, a run that has left something
\* behind, or a process that acquire() has not made out of date.
THEOREM JobTerminalStays == Spec => TerminalStays
<1>1. Init => StatusInv
  BY DEF Init, StatusInv, Owns
<1>2. IInv /\ StatusInv /\ [Next]_vars => StatusInv' /\ [Final]_vars
  BY StatusStep
<1> QED
  BY <1>1, <1>2, JobInvariant, PTL DEF Spec, TerminalStays, Final
=============================================================================
