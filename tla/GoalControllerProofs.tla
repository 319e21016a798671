------------------------ MODULE GoalControllerProofs ------------------------
(***************************************************************************)
(* Proofs about GoalController for any graph of targets, any limits and    *)
(* any number of operator calls, crashes and deadlines.                    *)
(***************************************************************************)
EXTENDS GoalController, FiniteSetTheorems, TLAPS

-----------------------------------------------------------------------------
(* The inductive invariant *)

\* The last attempt of t was executed and verified.
VerifiedLast(t) ==
    /\ entry[t].attempts > 0
    /\ att[t][entry[t].attempts].exec = "ok" /\ att[t][entry[t].attempts].verify = "ok"

\* Every attempt that was started is counted once.
CountInv == IsFiniteSet(StartedAttempts) /\ tasks = Cardinality(StartedAttempts)

\* What a target's entry says by itself: one in flight has been started, and a
\* marker for a pending approval stays behind only where no attempt starts from.
EntryInv ==
    \A t \in Targets :
        /\ entry[t].status \in InFlight => entry[t].attempts > 0
        /\ entry[t].pending # "none" =>
              entry[t].attempts > 0 /\ entry[t].status \in {"needs_approval", "blocked", "stopped", "completed"}
        /\ entry[t].pending = "complete" => VerifiedLast(t)
        /\ entry[t].status = "completed" => VerifiedLast(t)
        /\ \A n \in 1..MaxTasks : t \in Asking /\ att[t][n].exec # "none" => <<"execute", n>> \in entry[t].granted
        /\ \A n \in 1..MaxTasks : att[t][n].commit = "ok" => entry[t].status = "completed"

\* What a pass has read may be stale, but leaving the queue, completing and being
\* started are never undone.
SnapInv ==
    \A t \in Targets :
        /\ snap.targets[t] # "queued" => entry[t].status # "queued"
        /\ snap.targets[t] = "completed" => entry[t].status = "completed"
        /\ snap.targets[t] \in InFlight => entry[t].attempts > 0

Executed3 == {"verify", "verifying", "gate", "signoff", "committing"}
Verified3 == {"gate", "signoff", "committing"}

\* An attempt under way is the last one of its target, and the records say how far
\* it has come.
WorkInv ==
    \A t \in Targets : work[t].pc # "none" =>
        /\ entry[t].status # "queued" /\ t \notin todo
        /\ work[t].n = entry[t].attempts /\ work[t].n > 0
        /\ work[t].pc = "executing" => Attempt(t).exec = "in_flight"
        /\ work[t].pc \in Executed3 => Attempt(t).exec = "ok"
        /\ work[t].pc = "verifying" => Attempt(t).verify = "in_flight"
        /\ work[t].pc \in Verified3 => Attempt(t).verify = "ok"
        /\ work[t].pc \in {"asked", "diagnose", "done"} => entry[t].status \notin InFlight

\* What the operator's call was told still holds when it commits.
OpInv ==
    /\ op.kind \in {"status", "start"} => op.to \in {"running", "pausing", "paused", "stopping", "stopped"}
    /\ op.kind \in {"retry", "deny", "approve", "grant", "complete"} =>
          op.target \in Targets /\ entry[op.target].status # "queued"
    /\ op.kind \in {"deny", "approve", "grant", "complete"} => entry[op.target].attempts > 0
    /\ op.kind \in {"grant", "complete"} =>
          /\ entry[op.target].status \in {"needs_approval", "blocked", "stopped", "completed"}
          /\ VerifiedLast(op.target)

\* The run and the pass that decides its end.
RunInv ==
    /\ loop = "completing" => AllCompleted(snap.targets)
    /\ CompletedMeansAll

Busy == {t \in Targets : work[t].pc # "none"}
Statuses == [t \in Targets |-> entry[t].status]
Flying(ts) == {t \in Targets : ts[t] \in InFlight}
Startable(ts) == {t \in Targets : ts[t] = "repairing"} \cup EligibleTargets(ts)

\* Where the driver may be.
LoopInv ==
    /\ ~up => loop = "off"
    /\ loop = "off" => Busy = {} /\ op = NoOp /\ ~wake
    /\ Pending # {} => loop = "launch"
    /\ loop \in {"idling", "budget", "completing"} => Busy = {}

\* Targets in flight have an attempt under way, or the driver is a new one that has
\* still to select what it resumes: then there is room for all of them.
FlyingInv ==
    /\ Cardinality(Flying(Statuses)) <= MaxConcurrent
    /\ Cardinality(Flying(snap.targets)) <= MaxConcurrent
    /\ \/ Flying(Statuses) \subseteq Busy
       \/ /\ Busy = {}
          /\ loop \notin {"launch", "idling", "budget", "completing"}
          /\ loop \in {"unlock", "select"} => Flying(Statuses) \subseteq Flying(snap.targets)

\* An idle run, as stored or as read.
IdleInv ==
    /\ status = "idle" => /\ Busy = {} /\ Flying(Statuses) = {}
                          /\ loop \in {"unlock", "select", "launch", "deadline", "budget", "idling"}
                                => snap.status = "idle"
    /\ snap.status = "idle" => Flying(snap.targets) = {}

\* What can be started has been seen by the pass, or something will wake the loop.
WakeInv ==
    ~wake /\ op = NoOp /\ Busy = {} =>
        /\ loop \in {"unlock", "select"} => Startable(Statuses) \subseteq Startable(snap.targets)
        /\ loop = "launch" => Startable(Statuses) \subseteq todo
        /\ loop = "idling" => Startable(Statuses) = {}
        /\ loop = "off" /\ status = "idle" /\ up => Startable(Statuses) = {}

IInv ==
    /\ TypeOK /\ CountInv /\ EntryInv /\ SnapInv /\ WorkInv /\ OpInv /\ RunInv /\ DependenciesFirst
    /\ LoopInv /\ FlyingInv /\ IdleInv /\ WakeInv
-----------------------------------------------------------------------------
(* The transition tables *)

\* The statuses of a target.
LEMMA StatusSet ==
    TargetStatuses = {"queued", "eligible", "active", "verifying", "verified", "failed", "repairing",
                      "needs_approval", "awaiting_external", "blocked", "completed", "stopped"}
BY DEF TargetStatuses, TargetTransitions

\* What the controller may do with a target of status s.
LEMMA MayMove ==
    ASSUME NEW s \in TargetStatuses
    PROVE  /\ CanTransition(s, "active") <=> s \in {"eligible", "repairing"}
           /\ CanTransition(s, "blocked") <=> s \notin {"blocked", "completed", "stopped"}
           /\ CanTransition(s, "stopped") <=> s \notin {"blocked", "completed", "stopped"}
           /\ CanTransition(s, "repairing") <=> s = "failed"
           /\ CanTransition(s, "needs_approval") <=> s \in {"eligible", "active", "verified"}
           /\ CanTransition(s, "awaiting_external") <=> s \in {"verifying", "verified"}
BY StatusSet DEF CanTransition, TargetTransitions

\* What a user may do with it.
LEMMA UserMayMove ==
    ASSUME NEW s \in TargetStatuses
    PROVE  /\ HumanCanTransition(s, "eligible") =>
                 s \in {"queued", "repairing", "needs_approval", "failed", "blocked",
                        "awaiting_external", "stopped"}
           /\ HumanCanTransition(s, "blocked") => s \notin {"blocked", "completed", "stopped"}
           /\ HumanCanTransition(s, "completed") => s \in {"needs_approval", "verified"}
BY StatusSet DEF HumanCanTransition, HumanTransitions, TargetTransitions

\* The statuses of a run, and the changes that matter.
LEMMA RunTable ==
    /\ DOMAIN RunTransitions = {"created", "running", "pausing", "paused", "stopping", "idle",
                                "stopped", "completed", "failed"}
    /\ \A to \in {"running", "paused", "stopping", "stopped", "completed"} : to \in RunTransitions["idle"]
    /\ \A s \in DOMAIN RunTransitions : "idle" \in RunTransitions[s] => s = "running"
BY DEF RunTransitions, TerminalRun

AttemptTable == [Targets -> [1..MaxTasks -> AttemptRecord]]
EntryTable == [Targets -> EntryRecord]

\* r is a with the attempt under way on t replaced by x.
Writes(r, a, t, x) ==
    /\ r \in AttemptTable
    /\ \A u \in Targets \ {t} : r[u] = a[u]
    /\ \A m \in (1..MaxTasks) \ {work[t].n} : r[t][m] = a[t][m]
    /\ r[t][work[t].n] = x

\* A result or an outcome is written to the attempt under way and nowhere else.
LEMMA RecordedFacts ==
    ASSUME NEW a \in AttemptTable, NEW t \in Targets, work[t].n \in 1..MaxTasks,
           NEW v \in RecordSet, NEW o \in OutcomeSet
    PROVE  /\ Writes(Recorded(a, t, "outcome", o), a, t, [a[t][work[t].n] EXCEPT !.outcome = o])
           /\ Writes(Recorded(a, t, "exec", v), a, t, [a[t][work[t].n] EXCEPT !.exec = v])
           /\ Writes(Recorded(a, t, "verify", v), a, t, [a[t][work[t].n] EXCEPT !.verify = v])
           /\ Writes(Recorded(a, t, "commit", v), a, t, [a[t][work[t].n] EXCEPT !.commit = v])
<1> DEFINE n == work[t].n
<1>1. a[t] \in [1..MaxTasks -> AttemptRecord] /\ a[t][n] \in AttemptRecord /\ n \in 1..MaxTasks
  BY DEF AttemptTable
<1>2. ASSUME NEW x \in AttemptRecord
      PROVE  Writes([a EXCEPT ![t][n] = x], a, t, x)
  BY <1>1 DEF AttemptTable, Writes
<1>3. /\ [a[t][n] EXCEPT !.outcome = o] \in AttemptRecord
      /\ [a[t][n] EXCEPT !.exec = v] \in AttemptRecord
      /\ [a[t][n] EXCEPT !.verify = v] \in AttemptRecord
      /\ [a[t][n] EXCEPT !.commit = v] \in AttemptRecord
  BY <1>1 DEF AttemptRecord
<1>4. /\ Recorded(a, t, "outcome", o) = [a EXCEPT ![t][n] = [a[t][n] EXCEPT !.outcome = o]]
      /\ Recorded(a, t, "exec", v) = [a EXCEPT ![t][n] = [a[t][n] EXCEPT !.exec = v]]
      /\ Recorded(a, t, "verify", v) = [a EXCEPT ![t][n] = [a[t][n] EXCEPT !.verify = v]]
      /\ Recorded(a, t, "commit", v) = [a EXCEPT ![t][n] = [a[t][n] EXCEPT !.commit = v]]
  BY <1>1 DEF Recorded
<1> QED
  BY <1>2, <1>3, <1>4

\* f is e with the status of t set to s.
SetsStatus(f, e, t, s) ==
    /\ f \in EntryTable
    /\ \A u \in Targets \ {t} : f[u] = e[u]
    /\ f[t] = [e[t] EXCEPT !.status = s] /\ f[t].status = s
    /\ f[t].attempts = e[t].attempts /\ f[t].granted = e[t].granted
    /\ f[t].pending = e[t].pending /\ f[t].repairs = e[t].repairs

LEMMA MovedFacts ==
    ASSUME NEW e \in EntryTable, NEW t \in Targets, NEW s \in TargetStatuses
    PROVE  SetsStatus(Moved(e, t, s), e, t, s) /\ SetsStatus(e, e, t, e[t].status)
BY DEF SetsStatus, EntryTable, EntryRecord, Moved

\* The attempt on t goes on to point q.
GoesTo(t, q) ==
    /\ work' \in [Targets -> WorkRecord]
    /\ \A u \in Targets \ {t} : work'[u] = work[u]
    /\ work'[t].pc = q /\ work'[t].n = work[t].n

LEMMA GotoFacts ==
    ASSUME work \in [Targets -> WorkRecord], NEW t \in Targets, NEW q \in Points, Goto(t, q)
    PROVE  GoesTo(t, q)
BY DEF GoesTo, Goto, WorkRecord

\* b is a, except perhaps for the outcome of the attempt under way on t.
KeepsRecords(b, a, t) ==
    \E x \in AttemptRecord :
        /\ Writes(b, a, t, x)
        /\ x.exec = a[t][work[t].n].exec
        /\ x.verify = a[t][work[t].n].verify
        /\ x.commit = a[t][work[t].n].commit

LEMMA KeepsFacts ==
    ASSUME NEW a \in AttemptTable, NEW t \in Targets, work[t].n \in 1..MaxTasks, NEW o \in OutcomeSet
    PROVE  KeepsRecords(a, a, t) /\ KeepsRecords(Recorded(a, t, "outcome", o), a, t)
<1> DEFINE x == a[t][work[t].n]
           y == [x EXCEPT !.outcome = o]
<1>1. x \in AttemptRecord
  BY DEF AttemptTable
<1>2. y \in AttemptRecord /\ y.exec = x.exec /\ y.verify = x.verify /\ y.commit = x.commit
  BY <1>1 DEF AttemptRecord
<1>3. Writes(a, a, t, x)
  BY DEF Writes
<1>4. "none" \in RecordSet
  BY DEF RecordSet
<1>5. Writes(Recorded(a, t, "outcome", o), a, t, y)
  BY <1>4, RecordedFacts
<1> HIDE DEF y, x
<1>6. KeepsRecords(a, a, t)
  BY <1>1, <1>3 DEF KeepsRecords, x
<1>7. KeepsRecords(Recorded(a, t, "outcome", o), a, t)
  BY <1>2, <1>5 DEF KeepsRecords, x
<1> QED
  BY <1>6, <1>7

\* blockTarget ends the attempt; the target is blocked unless it is completed or stopped.
LEMMA BlockFacts ==
    ASSUME work \in [Targets -> WorkRecord], NEW t \in Targets, work[t].n \in 1..MaxTasks,
           NEW e \in EntryTable, NEW a \in AttemptTable, BlockTarget(t, e, a)
    PROVE  /\ SetsStatus(entry', e, t, IF e[t].status \in {"completed", "stopped"}
                                       THEN e[t].status ELSE "blocked")
           /\ KeepsRecords(att', a, t)
           /\ GoesTo(t, "done")
<1>1. e[t].status \in TargetStatuses
  BY DEF EntryTable, EntryRecord
<1>2. Moves(e, t, "blocked") <=> e[t].status \notin {"completed", "stopped"}
  BY <1>1, MayMove DEF Moves
<1>3. "blocked" \in TargetStatuses /\ "blocked" \in OutcomeSet /\ "done" \in Points
  BY StatusSet DEF OutcomeSet, Points
<1>4. entry' = IF Moves(e, t, "blocked") THEN Moved(e, t, "blocked") ELSE e
  BY DEF BlockTarget
<1>5. SetsStatus(entry', e, t, IF e[t].status \in {"completed", "stopped"} THEN e[t].status ELSE "blocked")
  <2>1. CASE e[t].status \in {"completed", "stopped"}
    BY <1>1, <1>2, <1>4, <2>1, MovedFacts
  <2>2. CASE e[t].status \notin {"completed", "stopped"}
    BY <1>2, <1>3, <1>4, <2>2, MovedFacts
  <2> QED
    BY <2>1, <2>2
<1>6. att' = a \/ att' = Recorded(a, t, "outcome", "blocked")
  BY DEF BlockTarget
<1>7. KeepsRecords(att', a, t)
  BY <1>3, <1>6, KeepsFacts
<1>8. GoesTo(t, "done")
  BY <1>3, GotoFacts DEF BlockTarget
<1> QED
  BY <1>5, <1>7, <1>8
-----------------------------------------------------------------------------
(* What an attempt may do to its target *)

Resting == {"needs_approval", "blocked", "stopped"}

\* Completion is for good and comes from the commit of the progress only; nothing
\* returns to the queue, enters the flight, or leaves a resting status.
StatusOK(from, to, pc) ==
    /\ from = "completed" => to = "completed"
    /\ to = "queued" => from = "queued"
    /\ to \in InFlight => from \in InFlight
    /\ to = "completed" => from = "completed" \/ pc = "committing"
    /\ from \in Resting => to \in Resting

\* Results that are on record stay, an execution is recorded where it is allowed, and the progress is committed with the completion.
RecordOK(t, a, b, to, pc) ==
    /\ b.exec = a.exec \/ (a.exec = "none" /\ ~MustAsk(t)) \/ pc = "executing"
    /\ b.verify = a.verify \/ a.verify = "none" \/ pc = "verifying"
    /\ b.commit = "ok" => a.commit = "ok" \/ to = "completed"

\* What is known of an attempt at point q with record b, and of its target.
PointOK(to, b, q) ==
    /\ q \notin {"none", "committed"}
    /\ q = "executing" => b.exec = "in_flight"
    /\ q \in Executed3 => b.exec = "ok"
    /\ q = "verifying" => b.verify = "in_flight"
    /\ q \in Verified3 => b.verify = "ok"
    /\ q \in {"asked", "diagnose", "done"} => to \notin InFlight

AttemptMove(t) ==
    /\ UNCHANGED AttemptLeaves
    /\ entry' \in EntryTable /\ att' \in AttemptTable /\ work' \in [Targets -> WorkRecord]
    /\ \A u \in Targets \ {t} : entry'[u] = entry[u] /\ att'[u] = att[u] /\ work'[u] = work[u]
    /\ \A m \in (1..MaxTasks) \ {work[t].n} : att'[t][m] = att[t][m]
    /\ work'[t].n = work[t].n
    /\ entry'[t].attempts = entry[t].attempts /\ entry'[t].granted = entry[t].granted
    /\ StatusOK(entry[t].status, entry'[t].status, work[t].pc)
    /\ \/ entry'[t].pending = entry[t].pending
       \/ /\ entry'[t].status = "needs_approval" /\ entry'[t].pending \in Kinds
          /\ entry'[t].pending = "complete" => work[t].pc = "signoff"
    /\ RecordOK(t, Attempt(t), att'[t][work[t].n], entry'[t].status, work[t].pc)
    /\ PointOK(entry'[t].status, att'[t][work[t].n], work'[t].pc)

\* The state of an attempt under way that its next step depends on.
UnderWay(t) ==
    /\ entry \in EntryTable /\ att \in AttemptTable /\ work \in [Targets -> WorkRecord]
    /\ t \in Targets /\ work[t].n \in 1..MaxTasks
    /\ entry[t].status # "queued"
    /\ PointOK(entry[t].status, Attempt(t), work[t].pc)
    /\ Attempt(t).commit = "ok" => entry[t].status = "completed"

LEMMA UnderWayFacts ==
    ASSUME TypeOK, WorkInv, EntryInv, NEW t \in Targets, work[t].pc \notin {"none", "committed"}
    PROVE  UnderWay(t)
<1>1. entry \in EntryTable /\ att \in AttemptTable /\ work \in [Targets -> WorkRecord]
  BY DEF TypeOK, EntryTable, AttemptTable
<1>2. work[t].n \in 1..MaxTasks
  <2>1. work[t].n \in 0..MaxTasks /\ work[t].n > 0
    BY <1>1 DEF WorkRecord, WorkInv
  <2> QED
    BY <2>1
<1>3. Attempt(t).commit = "ok" => entry[t].status = "completed"
  BY <1>2 DEF EntryInv, Attempt
<1>4. PointOK(entry[t].status, Attempt(t), work[t].pc)
  BY DEF WorkInv, PointOK
<1> QED
  BY <1>1, <1>2, <1>3, <1>4 DEF WorkInv, UnderWay

\* A step that sets the status of the target, writes the attempt's record and goes on.
LEMMA SimpleMove ==
    ASSUME NEW t, UnderWay(t), UNCHANGED AttemptLeaves,
           NEW s, NEW x, NEW q,
           SetsStatus(entry', entry, t, s), Writes(att', att, t, x), GoesTo(t, q),
           StatusOK(entry[t].status, s, work[t].pc),
           RecordOK(t, Attempt(t), x, s, work[t].pc),
           PointOK(s, x, q)
    PROVE  AttemptMove(t)
BY DEF AttemptMove, UnderWay, SetsStatus, Writes, GoesTo

\* The same when only the outcome is written, over records a that were reached from att.
LEMMA KeepingMove ==
    ASSUME NEW t, UnderWay(t), UNCHANGED AttemptLeaves,
           NEW e \in EntryTable, NEW a \in AttemptTable, NEW s0, NEW x0 \in AttemptRecord,
           SetsStatus(e, entry, t, s0), Writes(a, att, t, x0),
           NEW s, NEW q,
           SetsStatus(entry', e, t, s), KeepsRecords(att', a, t), GoesTo(t, q),
           StatusOK(entry[t].status, s, work[t].pc),
           RecordOK(t, Attempt(t), x0, s, work[t].pc),
           PointOK(s, x0, q)
    PROVE  AttemptMove(t)
<1>1. PICK x \in AttemptRecord : /\ Writes(att', a, t, x)
                                 /\ x.exec = a[t][work[t].n].exec
                                 /\ x.verify = a[t][work[t].n].verify
                                 /\ x.commit = a[t][work[t].n].commit
  BY DEF KeepsRecords
<1>2. x.exec = x0.exec /\ x.verify = x0.verify /\ x.commit = x0.commit
  BY <1>1 DEF Writes
<1>3. RecordOK(t, Attempt(t), x, s, work[t].pc) /\ PointOK(s, x, q)
  BY <1>2 DEF RecordOK, PointOK
<1>4. Writes(att', att, t, x)
  BY <1>1 DEF Writes
<1>5. SetsStatus(entry', entry, t, s)
  BY DEF SetsStatus, EntryTable, EntryRecord, UnderWay
<1> QED
  BY <1>3, <1>4, <1>5, SimpleMove

\* The same when the step ends in blockTarget.
LEMMA BlockMove ==
    ASSUME NEW t, UnderWay(t), UNCHANGED AttemptLeaves,
           NEW e \in EntryTable, NEW a \in AttemptTable, NEW s0, NEW x0 \in AttemptRecord,
           SetsStatus(e, entry, t, s0), Writes(a, att, t, x0), BlockTarget(t, e, a),
           StatusOK(entry[t].status, s0, work[t].pc), RecordOK(t, Attempt(t), x0, s0, work[t].pc)
    PROVE  AttemptMove(t)
<1> DEFINE s == IF s0 \in {"completed", "stopped"} THEN s0 ELSE "blocked"
<1>1. e[t].status = s0
  BY DEF SetsStatus
<1>2. SetsStatus(entry', e, t, s) /\ KeepsRecords(att', a, t) /\ GoesTo(t, "done")
  BY <1>1, BlockFacts DEF UnderWay
<1>3. StatusOK(entry[t].status, s, work[t].pc)
  BY DEF StatusOK, InFlight, Resting
<1>4. RecordOK(t, Attempt(t), x0, s, work[t].pc)
  BY DEF RecordOK
<1>5. PointOK(s, x0, "done")
  BY DEF PointOK, InFlight, Executed3, Verified3
<1> HIDE DEF s
<1> QED
  BY <1>2, <1>3, <1>4, <1>5, KeepingMove

\* The record of an attempt under way, and the trivial writes.
LEMMA HereFacts ==
    ASSUME NEW t, UnderWay(t)
    PROVE  /\ Attempt(t) \in AttemptRecord /\ entry[t].status \in TargetStatuses
           /\ SetsStatus(entry, entry, t, entry[t].status)
           /\ Writes(att, att, t, Attempt(t))
           /\ StatusOK(entry[t].status, entry[t].status, work[t].pc)
           /\ RecordOK(t, Attempt(t), Attempt(t), entry[t].status, work[t].pc)
<1>1. Attempt(t) \in AttemptRecord /\ entry[t].status \in TargetStatuses
  BY DEF UnderWay, Attempt, AttemptTable, EntryTable, EntryRecord
<1>2. SetsStatus(entry, entry, t, entry[t].status)
  BY <1>1, MovedFacts DEF UnderWay
<1>3. Writes(att, att, t, Attempt(t))
  BY DEF Writes, Attempt, UnderWay
<1>4. StatusOK(entry[t].status, entry[t].status, work[t].pc)
  BY DEF StatusOK
<1>5. RecordOK(t, Attempt(t), Attempt(t), entry[t].status, work[t].pc)
  BY DEF RecordOK
<1> QED
  BY <1>1, <1>2, <1>3, <1>4, <1>5

\* blockTarget on what is stored.
LEMMA BlockMoveHere ==
    ASSUME NEW t, UnderWay(t), UNCHANGED AttemptLeaves, BlockTarget(t, entry, att)
    PROVE  AttemptMove(t)
BY HereFacts, BlockMove DEF UnderWay

\* The same when the step ends in failAttempt.
LEMMA FailMove ==
    ASSUME NEW t, UnderWay(t), UNCHANGED AttemptLeaves,
           NEW e \in EntryTable, NEW s0, SetsStatus(e, entry, t, s0),
           StatusOK(entry[t].status, s0, work[t].pc), FailAttempt(t, e)
    PROVE  AttemptMove(t)
<1> DEFINE s == IF s0 \in InFlight THEN "failed" ELSE s0
           f == IF e[t].status \in InFlight THEN Moved(e, t, "failed") ELSE e
<1>1. e[t].status = s0 /\ t \in Targets /\ work[t].n \in 1..MaxTasks /\ att \in AttemptTable
  BY DEF SetsStatus, UnderWay
<1>2. "failed" \in TargetStatuses /\ "failed" \in OutcomeSet /\ "diagnose" \in Points
  BY StatusSet DEF OutcomeSet, Points
<1>3. SetsStatus(f, e, t, s)
  <2>1. CASE s0 \in InFlight
    BY <1>1, <1>2, <2>1, MovedFacts
  <2>2. CASE s0 \notin InFlight
    BY <1>1, <2>2 DEF SetsStatus, EntryTable, EntryRecord
  <2> QED
    BY <2>1, <2>2
<1>4. f \in EntryTable /\ SetsStatus(f, entry, t, s) /\ SetsStatus(f, f, t, s)
  <2> HIDE DEF f, s
  <2>0. f \in EntryTable /\ f[t].status = s /\ entry \in EntryTable
    BY <1>3 DEF SetsStatus, UnderWay
  <2>1. f[t] \in EntryRecord /\ e[t] \in EntryRecord /\ entry[t] \in EntryRecord
    BY <1>1, <2>0 DEF EntryTable
  <2>2. f[t] = [entry[t] EXCEPT !.status = s]
    <3>1. f[t] = [e[t] EXCEPT !.status = s] /\ e[t] = [entry[t] EXCEPT !.status = s0]
      BY <1>3 DEF SetsStatus
    <3> QED
      BY <2>1, <3>1 DEF EntryRecord
  <2>3. SetsStatus(f, entry, t, s)
    BY <1>3, <2>0, <2>2 DEF SetsStatus
  <2>4. f[t] = [f[t] EXCEPT !.status = s]
    BY <2>0, <2>1 DEF EntryRecord
  <2>5. SetsStatus(f, f, t, s)
    BY <2>0, <2>4 DEF SetsStatus
  <2> QED
    BY <2>0, <2>3, <2>5
<1>5. StatusOK(entry[t].status, s, work[t].pc)
  BY DEF StatusOK, InFlight, Resting
<1>6. RecordOK(t, Attempt(t), Attempt(t), s, work[t].pc) /\ PointOK(s, Attempt(t), "diagnose")
  BY DEF RecordOK, PointOK, InFlight, Executed3, Verified3
<1>7. Attempt(t) \in AttemptRecord /\ Writes(att, att, t, Attempt(t))
  BY HereFacts
<1>8. \/ BlockTarget(t, f, att)
      \/ entry' = f /\ att' = Recorded(att, t, "outcome", "failed") /\ Goto(t, "diagnose")
  BY DEF FailAttempt
<1> HIDE DEF s, f
<1>9. CASE BlockTarget(t, f, att)
  BY <1>1, <1>4, <1>5, <1>6, <1>7, <1>9, BlockMove
<1>10. CASE entry' = f /\ att' = Recorded(att, t, "outcome", "failed") /\ Goto(t, "diagnose")
  <2>1. KeepsRecords(att', att, t)
    BY <1>1, <1>2, <1>10, KeepsFacts
  <2>2. GoesTo(t, "diagnose")
    BY <1>1, <1>2, <1>10, GotoFacts DEF UnderWay
  <2>3. SetsStatus(entry', f, t, s)
    BY <1>4, <1>10
  <2> QED
    BY <1>1, <1>4, <1>5, <1>6, <1>7, <2>1, <2>2, <2>3, KeepingMove
<1> QED
  BY <1>8, <1>9, <1>10

\* The same when the step ends in awaitApproval.
LEMMA ApprovalMove ==
    ASSUME NEW t, UnderWay(t), UNCHANGED AttemptLeaves, NEW kind \in Kinds,
           kind = "complete" => work[t].pc = "signoff",
           AwaitApproval(t, kind)
    PROVE  AttemptMove(t)
<1>1. CASE ~Moves(entry, t, "needs_approval")
  BY <1>1, BlockMoveHere DEF AwaitApproval
<1>2. CASE Moves(entry, t, "needs_approval")
  <2>1. Attempt(t) \in AttemptRecord /\ entry[t].status \in TargetStatuses /\ Writes(att, att, t, Attempt(t))
    BY HereFacts
  <2>2. entry[t].status \in {"needs_approval", "eligible", "active", "verified"}
    BY <1>2, <2>1, MayMove DEF Moves
  <2>3. GoesTo(t, "asked") /\ att' = att
    <3>1. Goto(t, "asked") /\ att' = att /\ "asked" \in Points
      BY <1>2 DEF AwaitApproval, Points
    <3> QED
      BY <3>1, GotoFacts DEF UnderWay
  <2>4. PointOK("needs_approval", Attempt(t), "asked")
    BY DEF PointOK, InFlight, Executed3, Verified3
  <2>5. RecordOK(t, Attempt(t), Attempt(t), "needs_approval", work[t].pc)
    BY DEF RecordOK
  <2>6. StatusOK(entry[t].status, "needs_approval", work[t].pc)
    BY <2>2 DEF StatusOK, Resting, InFlight
  <2>7. /\ entry' \in EntryTable /\ \A u \in Targets \ {t} : entry'[u] = entry[u]
        /\ entry'[t].status = "needs_approval" /\ entry'[t].attempts = entry[t].attempts
        /\ entry'[t].granted = entry[t].granted
        /\ entry'[t].pending = entry[t].pending \/ entry'[t].pending = kind
    <3>1. CASE entry[t].status = "needs_approval"
      BY <1>2, <3>1 DEF AwaitApproval, UnderWay
    <3>2. CASE entry[t].status # "needs_approval"
      <4>1. entry' = [entry EXCEPT ![t].status = "needs_approval", ![t].pending = kind]
        BY <1>2, <3>2 DEF AwaitApproval
      <4>2. "needs_approval" \in TargetStatuses /\ entry \in EntryTable /\ t \in Targets
        BY StatusSet DEF UnderWay
      <4> QED
        BY <4>1, <4>2 DEF EntryTable, EntryRecord
    <3> QED
      BY <3>1, <3>2
  <2> QED
    BY <2>1, <2>3, <2>4, <2>5, <2>6, <2>7 DEF AttemptMove, GoesTo, UnderWay, Attempt
<1> QED
  BY <1>1, <1>2

\* The same when the step writes the attempt's record and goes on, and leaves the target alone.
LEMMA RecordMove ==
    ASSUME NEW t, UnderWay(t), UNCHANGED AttemptLeaves, entry' = entry,
           NEW x, NEW q \in Points, Writes(att', att, t, x), Goto(t, q),
           RecordOK(t, Attempt(t), x, entry[t].status, work[t].pc),
           PointOK(entry[t].status, x, q)
    PROVE  AttemptMove(t)
<1>1. GoesTo(t, q)
  BY GotoFacts DEF UnderWay
<1>2. SetsStatus(entry', entry, t, entry[t].status) /\ StatusOK(entry[t].status, entry[t].status, work[t].pc)
  BY HereFacts
<1> QED
  BY <1>1, <1>2, SimpleMove

\* The same when it ends with the attempt's success, over entries e and records a.
LEMMA SuccessMove ==
    ASSUME NEW t, UnderWay(t), UNCHANGED AttemptLeaves,
           NEW e \in EntryTable, NEW a \in AttemptTable, NEW x0 \in AttemptRecord,
           SetsStatus(e, entry, t, "completed"), Writes(a, att, t, x0), Succeed(t, e, a),
           StatusOK(entry[t].status, "completed", work[t].pc),
           RecordOK(t, Attempt(t), x0, "completed", work[t].pc)
    PROVE  AttemptMove(t)
<1>1. CASE BlockTarget(t, e, a)
  BY <1>1, BlockMove
<1>2. CASE entry' = e /\ att' = Recorded(a, t, "outcome", "succeeded") /\ Goto(t, "done")
  <2>1. "succeeded" \in OutcomeSet /\ "done" \in Points
    BY DEF OutcomeSet, Points
  <2>2. KeepsRecords(att', a, t)
    BY <1>2, <2>1, KeepsFacts DEF UnderWay
  <2>3. GoesTo(t, "done")
    BY <1>2, <2>1, GotoFacts DEF UnderWay
  <2>4. SetsStatus(entry', e, t, "completed")
    BY <1>2 DEF SetsStatus, EntryTable, EntryRecord, UnderWay
  <2>5. PointOK("completed", x0, "done")
    BY DEF PointOK, InFlight, Executed3, Verified3
  <2> QED
    BY <2>2, <2>3, <2>4, <2>5, KeepingMove
<1> QED
  BY <1>1, <1>2 DEF Succeed

LEMMA AbortStep ==
    ASSUME NEW t, UnderWay(t), AbortAttempt(t)
    PROVE  AttemptMove(t)
<1> DEFINE s == IF Moves(entry, t, "stopped") THEN "stopped" ELSE entry[t].status
<1>1. /\ Attempt(t) \in AttemptRecord /\ entry[t].status \in TargetStatuses
      /\ SetsStatus(entry, entry, t, entry[t].status) /\ Writes(att, att, t, Attempt(t))
  BY HereFacts
<1>2. "stopped" \in TargetStatuses /\ "cancelled" \in OutcomeSet /\ "done" \in Points
  BY StatusSet DEF OutcomeSet, Points
<1>3. entry[t].status \notin {"blocked", "completed"} <=> Moves(entry, t, "stopped")
  BY <1>1, MayMove DEF Moves
<1>4. SetsStatus(entry', entry, t, s)
  BY <1>1, <1>2, MovedFacts DEF AbortAttempt, StopTarget, UnderWay
<1>5. att' = att \/ att' = Recorded(att, t, "outcome", "cancelled")
  BY DEF AbortAttempt, StopTarget
<1>6. KeepsRecords(att', att, t)
  BY <1>2, <1>5, KeepsFacts DEF UnderWay
<1>7. GoesTo(t, "done")
  BY <1>2, GotoFacts DEF AbortAttempt, StopTarget, UnderWay
<1>8. /\ StatusOK(entry[t].status, s, work[t].pc) /\ RecordOK(t, Attempt(t), Attempt(t), s, work[t].pc)
      /\ PointOK(s, Attempt(t), "done")
  BY <1>1, <1>3 DEF StatusOK, RecordOK, PointOK, InFlight, Resting, Executed3, Verified3
<1>9. UNCHANGED AttemptLeaves
  BY DEF AbortAttempt
<1> HIDE DEF s
<1> QED
  BY <1>1, <1>4, <1>6, <1>7, <1>8, <1>9, KeepingMove DEF UnderWay

LEMMA PreflightStep ==
    ASSUME NEW t, UnderWay(t), Preflight(t)
    PROVE  AttemptMove(t)
<1>1. UNCHANGED AttemptLeaves /\ work[t].pc = "plan"
  BY DEF Preflight, At
<1>2. CASE BlockTarget(t, entry, att)
  BY <1>1, <1>2, BlockMoveHere
<1>3. CASE AwaitApproval(t, "execute")
  BY <1>1, <1>3, ApprovalMove DEF Kinds
<1>4. CASE FailAttempt(t, entry)
  BY <1>1, <1>4, FailMove, HereFacts DEF UnderWay
<1>5. CASE /\ ~MustAsk(t) /\ Attempt(t).exec = "none" /\ att' = Recorded(att, t, "exec", "in_flight")
           /\ Goto(t, "executing") /\ UNCHANGED entry
  <2> DEFINE x == [Attempt(t) EXCEPT !.exec = "in_flight"]
  <2>1. "in_flight" \in RecordSet /\ "none" \in OutcomeSet /\ "executing" \in Points
    BY DEF RecordSet, OutcomeSet, Points
  <2>2. Writes(att', att, t, x)
    BY <1>5, <2>1, RecordedFacts DEF UnderWay, Attempt
  <2>3. /\ RecordOK(t, Attempt(t), x, entry[t].status, work[t].pc)
        /\ PointOK(entry[t].status, x, "executing")
    BY <1>5, HereFacts DEF RecordOK, PointOK, AttemptRecord, Executed3, Verified3
  <2> HIDE DEF x
  <2> QED
    BY <1>1, <1>5, <2>1, <2>2, <2>3, RecordMove
<1>6. CASE Attempt(t).exec # "none" /\ Goto(t, "executed") /\ UNCHANGED <<entry, att>>
  <2>1. PointOK(entry[t].status, Attempt(t), "executed")
    BY DEF PointOK, Executed3, Verified3
  <2>2. Writes(att', att, t, Attempt(t)) /\ "executed" \in Points
    BY <1>6, HereFacts DEF Points
  <2> QED
    BY <1>1, <1>6, <2>1, <2>2, HereFacts, RecordMove
<1> QED
  BY <1>2, <1>3, <1>4, <1>5, <1>6 DEF Preflight

LEMMA ExecuteReturnsStep ==
    ASSUME NEW t, UnderWay(t), ExecuteReturns(t)
    PROVE  AttemptMove(t)
<1>1. PICK r \in {"ok", "failed"} : att' = Recorded(att, t, "exec", r)
  BY DEF ExecuteReturns
<1> DEFINE x == [Attempt(t) EXCEPT !.exec = r]
<1>2. r \in RecordSet /\ "none" \in OutcomeSet /\ "executed" \in Points
  BY DEF RecordSet, OutcomeSet, Points
<1>3. Writes(att', att, t, x)
  BY <1>1, <1>2, RecordedFacts DEF UnderWay, Attempt
<1>4. /\ RecordOK(t, Attempt(t), x, entry[t].status, work[t].pc)
      /\ PointOK(entry[t].status, x, "executed")
  BY HereFacts DEF RecordOK, PointOK, AttemptRecord, Executed3, Verified3, ExecuteReturns, At
<1>5. UNCHANGED AttemptLeaves /\ entry' = entry /\ Goto(t, "executed")
  BY DEF ExecuteReturns
<1> HIDE DEF x
<1> QED
  BY <1>2, <1>3, <1>4, <1>5, RecordMove

LEMMA ExecutedStep ==
    ASSUME NEW t, UnderWay(t), Executed(t)
    PROVE  AttemptMove(t)
<1> DEFINE s == IF entry[t].status = "active" THEN "verifying" ELSE entry[t].status
           e == IF entry[t].status = "active" THEN Moved(entry, t, "verifying") ELSE entry
<1>1. UNCHANGED AttemptLeaves /\ entry[t].status \in TargetStatuses
  BY HereFacts DEF Executed
<1>2. "verifying" \in TargetStatuses /\ "verify" \in Points
  BY StatusSet DEF Points
<1>3. SetsStatus(e, entry, t, s)
  BY <1>1, <1>2, MovedFacts DEF UnderWay
<1>4. e \in EntryTable
  BY <1>3 DEF SetsStatus
<1>5. StatusOK(entry[t].status, s, work[t].pc)
  BY DEF StatusOK, InFlight, Resting
<1>6. RecordOK(t, Attempt(t), Attempt(t), s, work[t].pc)
  BY DEF RecordOK
<1>7. \/ Attempt(t).exec = "ok" /\ entry' = e /\ Goto(t, "verify") /\ att' = att
      \/ FailAttempt(t, e)
  BY DEF Executed
<1> HIDE DEF s, e
<1>8. CASE FailAttempt(t, e)
  BY <1>1, <1>3, <1>4, <1>5, <1>8, FailMove
<1>9. CASE Attempt(t).exec = "ok" /\ entry' = e /\ Goto(t, "verify") /\ att' = att
  <2>1. PointOK(s, Attempt(t), "verify")
    BY <1>9 DEF PointOK, Executed3, Verified3
  <2>2. GoesTo(t, "verify")
    BY <1>2, <1>9, GotoFacts DEF UnderWay
  <2>3. Writes(att', att, t, Attempt(t))
    BY <1>9, HereFacts
  <2>4. SetsStatus(entry', entry, t, s)
    BY <1>3, <1>9
  <2> QED
    BY <1>1, <1>5, <1>6, <2>1, <2>2, <2>3, <2>4, SimpleMove
<1> QED
  BY <1>7, <1>8, <1>9

LEMMA VerifyStep ==
    ASSUME NEW t, UnderWay(t), Verify(t)
    PROVE  AttemptMove(t)
<1>1. UNCHANGED AttemptLeaves /\ Attempt(t).exec = "ok"
  BY DEF Verify, At, UnderWay, PointOK, Executed3
<1>2. CASE BlockTarget(t, entry, att)
  BY <1>1, <1>2, BlockMoveHere
<1>3. CASE /\ Attempt(t).verify = "none" /\ att' = Recorded(att, t, "verify", "in_flight")
           /\ Goto(t, "verifying") /\ UNCHANGED entry
  <2> DEFINE x == [Attempt(t) EXCEPT !.verify = "in_flight"]
  <2>1. "in_flight" \in RecordSet /\ "none" \in OutcomeSet /\ "verifying" \in Points
    BY DEF RecordSet, OutcomeSet, Points
  <2>2. Writes(att', att, t, x)
    BY <1>3, <2>1, RecordedFacts DEF UnderWay, Attempt
  <2>3. /\ RecordOK(t, Attempt(t), x, entry[t].status, work[t].pc)
        /\ PointOK(entry[t].status, x, "verifying")
    BY <1>1, <1>3, HereFacts DEF RecordOK, PointOK, AttemptRecord, Executed3, Verified3
  <2> HIDE DEF x
  <2> QED
    BY <1>1, <1>3, <2>1, <2>2, <2>3, RecordMove
<1>4. CASE Attempt(t).verify = "ok" /\ Goto(t, "gate") /\ UNCHANGED <<entry, att>>
  <2>1. PointOK(entry[t].status, Attempt(t), "gate")
    BY <1>1, <1>4 DEF PointOK, Executed3, Verified3
  <2>2. Writes(att', att, t, Attempt(t)) /\ "gate" \in Points
    BY <1>4, HereFacts DEF Points
  <2> QED
    BY <1>1, <1>4, <2>1, <2>2, HereFacts, RecordMove
<1> QED
  BY <1>2, <1>3, <1>4 DEF Verify

LEMMA VerifyReturnsStep ==
    ASSUME NEW t, UnderWay(t), VerifyReturns(t)
    PROVE  AttemptMove(t)
<1> DEFINE x(r) == [Attempt(t) EXCEPT !.verify = r]
<1>1. UNCHANGED AttemptLeaves /\ Attempt(t).exec = "ok" /\ work[t].pc = "verifying"
  BY DEF VerifyReturns, At, UnderWay, PointOK, Executed3
<1>2. \A r \in {"ok", "failed"} : r \in RecordSet
  BY DEF RecordSet
<1>3. "none" \in OutcomeSet /\ "gate" \in Points
  BY DEF OutcomeSet, Points
<1>4. ASSUME NEW r \in {"ok", "failed"}
      PROVE  /\ Writes(Recorded(att, t, "verify", r), att, t, x(r))
             /\ RecordOK(t, Attempt(t), x(r), entry[t].status, work[t].pc)
             /\ x(r) \in AttemptRecord
             /\ x(r).exec = "ok" /\ x(r).verify = r
  <2>1. Writes(Recorded(att, t, "verify", r), att, t, x(r))
    BY <1>2, <1>3, RecordedFacts DEF UnderWay, Attempt
  <2> QED
    BY <1>1, <1>2, <2>1, HereFacts DEF RecordOK, AttemptRecord
<1> HIDE DEF x
<1>5. CASE att' = Recorded(att, t, "verify", "ok") /\ Goto(t, "gate") /\ UNCHANGED entry
  <2>1. PointOK(entry[t].status, x("ok"), "gate")
    BY <1>4 DEF PointOK, Executed3, Verified3
  <2>2. Writes(att', att, t, x("ok")) /\ RecordOK(t, Attempt(t), x("ok"), entry[t].status, work[t].pc)
    BY <1>4, <1>5
  <2> QED
    BY <1>1, <1>3, <1>5, <2>1, <2>2, RecordMove
<1>6. CASE BlockTarget(t, entry, Recorded(att, t, "verify", "failed"))
  <2> DEFINE a == Recorded(att, t, "verify", "failed")
             y == x("failed")
  <2>1. Writes(a, att, t, y) /\ y \in AttemptRecord /\ RecordOK(t, Attempt(t), y, entry[t].status, work[t].pc)
    BY <1>4
  <2>2. a \in AttemptTable
    BY <2>1 DEF Writes
  <2>3. BlockTarget(t, entry, a)
    BY <1>6
  <2> HIDE DEF a, y
  <2> QED
    BY <1>1, <2>1, <2>2, <2>3, HereFacts, BlockMove DEF UnderWay
<1> QED
  BY <1>5, <1>6 DEF VerifyReturns

\* The acceptance gate, decision by decision.
LEMMA GateStep ==
    ASSUME NEW t, UnderWay(t), Gate(t)
    PROVE  AttemptMove(t)
<1>1. /\ UNCHANGED AttemptLeaves /\ Attempt(t).exec = "ok" /\ Attempt(t).verify = "ok"
  BY DEF Gate, At, UnderWay, PointOK, Executed3, Verified3
<1>2. /\ Attempt(t) \in AttemptRecord /\ entry[t].status \in TargetStatuses
      /\ Writes(att, att, t, Attempt(t)) /\ SetsStatus(entry, entry, t, entry[t].status)
  BY HereFacts
<1>3. CASE BlockTarget(t, entry, att)
  BY <1>1, <1>3, BlockMoveHere
<1>4. CASE FailAttempt(t, entry)
  BY <1>1, <1>4, FailMove, HereFacts DEF UnderWay
<1>5. CASE /\ Attempt(t).commit = "none" /\ att' = Recorded(att, t, "commit", "in_flight")
           /\ Goto(t, "committing") /\ UNCHANGED entry
  <2> DEFINE x == [Attempt(t) EXCEPT !.commit = "in_flight"]
  <2>1. "in_flight" \in RecordSet /\ "none" \in OutcomeSet /\ "committing" \in Points
    BY DEF RecordSet, OutcomeSet, Points
  <2>2. Writes(att', att, t, x)
    BY <1>5, <2>1, RecordedFacts DEF UnderWay, Attempt
  <2>3. /\ RecordOK(t, Attempt(t), x, entry[t].status, work[t].pc)
        /\ PointOK(entry[t].status, x, "committing")
    BY <1>1, <1>2, <1>5 DEF RecordOK, PointOK, AttemptRecord, Executed3, Verified3
  <2> HIDE DEF x
  <2> QED
    BY <1>1, <1>5, <2>1, <2>2, <2>3, RecordMove
<1>6. CASE Attempt(t).commit = "ok" /\ Succeed(t, entry, att)
  <2>1. entry[t].status = "completed"
    BY <1>6 DEF UnderWay
  <2> QED
    BY <1>1, <1>2, <1>6, <2>1, HereFacts, SuccessMove DEF UnderWay
<1>7. CASE /\ entry' = IF entry[t].status = "verifying" THEN Moved(entry, t, "verified") ELSE entry
           /\ Goto(t, "signoff") /\ UNCHANGED att
  <2> DEFINE s == IF entry[t].status = "verifying" THEN "verified" ELSE entry[t].status
  <2>1. "verified" \in TargetStatuses /\ "signoff" \in Points
    BY StatusSet DEF Points
  <2>2. SetsStatus(entry', entry, t, s)
    BY <1>2, <1>7, <2>1, MovedFacts DEF UnderWay
  <2>3. GoesTo(t, "signoff")
    BY <1>7, <2>1, GotoFacts DEF UnderWay
  <2>4. /\ StatusOK(entry[t].status, s, work[t].pc) /\ RecordOK(t, Attempt(t), Attempt(t), s, work[t].pc)
        /\ PointOK(s, Attempt(t), "signoff")
    BY <1>1 DEF StatusOK, RecordOK, PointOK, InFlight, Resting, Executed3, Verified3
  <2>5. Writes(att', att, t, Attempt(t))
    BY <1>2, <1>7
  <2> HIDE DEF s
  <2> QED
    BY <1>1, <2>2, <2>3, <2>4, <2>5, SimpleMove
<1>8. CASE /\ Moves(entry, t, "awaiting_external") /\ entry' = Moved(entry, t, "awaiting_external")
           /\ Goto(t, "done") /\ UNCHANGED att
  <2>1. "awaiting_external" \in TargetStatuses /\ "done" \in Points
    BY StatusSet DEF Points
  <2>2. SetsStatus(entry', entry, t, "awaiting_external")
    BY <1>8, <2>1, MovedFacts DEF UnderWay
  <2>3. GoesTo(t, "done")
    BY <1>8, <2>1, GotoFacts DEF UnderWay
  <2>4. entry[t].status \in {"awaiting_external", "verifying", "verified"}
    BY <1>2, <1>8, MayMove DEF Moves
  <2>5. /\ StatusOK(entry[t].status, "awaiting_external", work[t].pc)
        /\ RecordOK(t, Attempt(t), Attempt(t), "awaiting_external", work[t].pc)
        /\ PointOK("awaiting_external", Attempt(t), "done")
    BY <2>4 DEF StatusOK, RecordOK, PointOK, InFlight, Resting, Executed3, Verified3
  <2>6. Writes(att', att, t, Attempt(t))
    BY <1>2, <1>8
  <2> QED
    BY <1>1, <2>2, <2>3, <2>5, <2>6, SimpleMove
<1>9. PICK d \in {"completed", "needs_approval", "awaiting_external", "blocked", "repair"} :
         CASE EnforceGate(t, d) = "completed" -> OnceCommit(t)
           [] EnforceGate(t, d) = "needs_approval" ->
                /\ entry' = IF entry[t].status = "verifying" THEN Moved(entry, t, "verified") ELSE entry
                /\ Goto(t, "signoff")
                /\ UNCHANGED att
           [] EnforceGate(t, d) = "awaiting_external" ->
                IF Moves(entry, t, "awaiting_external") /\ Attempt(t).outcome = "none"
                THEN /\ entry' = Moved(entry, t, "awaiting_external")
                     /\ Goto(t, "done")
                     /\ UNCHANGED att
                ELSE BlockTarget(t, entry, att)
           [] EnforceGate(t, d) = "blocked" -> BlockTarget(t, entry, att)
           [] OTHER -> FailAttempt(t, entry)
  BY DEF Gate
<1>10. CASE EnforceGate(t, d) = "completed"
  <2>1. OnceCommit(t)
    BY <1>9, <1>10
  <2> QED
    BY <1>3, <1>5, <1>6, <2>1 DEF OnceCommit
<1>11. CASE EnforceGate(t, d) # "completed"
  BY <1>3, <1>4, <1>7, <1>8, <1>9, <1>11
<1> QED
  BY <1>10, <1>11

LEMMA SignOffStep ==
    ASSUME NEW t, UnderWay(t), SignOff(t)
    PROVE  AttemptMove(t)
BY ApprovalMove DEF SignOff, At, Kinds

LEMMA AskedStep ==
    ASSUME NEW t, UnderWay(t), Asked(t)
    PROVE  AttemptMove(t)
<1>1. UNCHANGED AttemptLeaves /\ entry[t].status \notin InFlight
  BY DEF Asked, At, UnderWay, PointOK
<1>2. CASE BlockTarget(t, entry, att)
  BY <1>1, <1>2, BlockMoveHere
<1>3. CASE /\ att' = Recorded(att, t, "outcome", "awaiting_approval") /\ Goto(t, "done")
           /\ UNCHANGED entry
  <2>1. "awaiting_approval" \in OutcomeSet /\ "done" \in Points
    BY DEF OutcomeSet, Points
  <2>2. KeepsRecords(att', att, t)
    BY <1>3, <2>1, KeepsFacts DEF UnderWay
  <2>3. GoesTo(t, "done")
    BY <1>3, <2>1, GotoFacts DEF UnderWay
  <2>4. PointOK(entry[t].status, Attempt(t), "done")
    BY <1>1 DEF PointOK, Executed3, Verified3
  <2>5. SetsStatus(entry', entry, t, entry[t].status)
    BY <1>3, HereFacts
  <2> QED
    BY <1>1, <2>2, <2>3, <2>4, <2>5, HereFacts, KeepingMove DEF UnderWay
<1> QED
  BY <1>2, <1>3 DEF Asked

LEMMA CommitProgressStep ==
    ASSUME NEW t, UnderWay(t), CommitProgress(t)
    PROVE  AttemptMove(t)
<1> DEFINE x(r) == [Attempt(t) EXCEPT !.commit = r]
           a(r) == Recorded(att, t, "commit", r)
           e == Moved(entry, t, "completed")
<1>1. UNCHANGED AttemptLeaves /\ work[t].pc = "committing"
  BY DEF CommitProgress, At
<1>2. \A r \in {"ok", "failed"} : r \in RecordSet
  BY DEF RecordSet
<1>3. "none" \in OutcomeSet /\ "completed" \in TargetStatuses
  BY StatusSet DEF OutcomeSet
<1>4. ASSUME NEW r \in {"ok", "failed"}
      PROVE  /\ Writes(a(r), att, t, x(r)) /\ a(r) \in AttemptTable /\ x(r) \in AttemptRecord
             /\ \A s : (r = "ok" => s = "completed") => RecordOK(t, Attempt(t), x(r), s, work[t].pc)
  <2>1. Writes(a(r), att, t, x(r))
    BY <1>2, <1>3, RecordedFacts DEF UnderWay, Attempt
  <2> QED
    BY <1>1, <1>2, <2>1, HereFacts DEF RecordOK, AttemptRecord, Writes
<1>5. SetsStatus(e, entry, t, "completed") /\ e \in EntryTable
  <2>1. SetsStatus(e, entry, t, "completed")
    BY <1>3, MovedFacts DEF UnderWay
  <2> QED
    BY <2>1 DEF SetsStatus
<1>6. \/ /\ entry[t].status \in {"verifying", "verified", "completed"}
         /\ Succeed(t, e, a("ok"))
      \/ BlockTarget(t, entry, a("failed"))
  BY DEF CommitProgress
<1> HIDE DEF x, a, e
<1>7. CASE entry[t].status \in {"verifying", "verified", "completed"} /\ Succeed(t, e, a("ok"))
  <2>1. StatusOK(entry[t].status, "completed", work[t].pc)
    BY <1>1, <1>7 DEF StatusOK, InFlight, Resting
  <2>2. /\ Writes(a("ok"), att, t, x("ok")) /\ a("ok") \in AttemptTable /\ x("ok") \in AttemptRecord
        /\ RecordOK(t, Attempt(t), x("ok"), "completed", work[t].pc)
    BY <1>4
  <2> QED
    BY <1>1, <1>5, <1>7, <2>1, <2>2, SuccessMove
<1>8. CASE BlockTarget(t, entry, a("failed"))
  <2>1. /\ Writes(a("failed"), att, t, x("failed")) /\ a("failed") \in AttemptTable /\ x("failed") \in AttemptRecord
        /\ RecordOK(t, Attempt(t), x("failed"), entry[t].status, work[t].pc)
    BY <1>4
  <2> QED
    BY <1>1, <1>8, <2>1, HereFacts, BlockMove DEF UnderWay
<1> QED
  BY <1>6, <1>7, <1>8

LEMMA DiagnoseStep ==
    ASSUME NEW t, UnderWay(t), MaxRepairs \in Nat, Diagnose(t)
    PROVE  AttemptMove(t)
<1>1. UNCHANGED AttemptLeaves
  BY DEF Diagnose
<1>2. CASE BlockTarget(t, entry, att)
  BY <1>1, <1>2, BlockMoveHere
<1>3. CASE /\ entry[t].repairs < MaxRepairs /\ CanTransition(entry[t].status, "repairing")
           /\ entry' = [entry EXCEPT ![t].status = "repairing", ![t].repairs = @ + 1]
           /\ Goto(t, "done") /\ UNCHANGED att
  <2>1. "repairing" \in TargetStatuses /\ "done" \in Points
    BY StatusSet DEF Points
  <2>2. GoesTo(t, "done")
    BY <1>3, <2>1, GotoFacts DEF UnderWay
  <2>3. entry[t].status = "failed"
    BY <1>3, HereFacts, MayMove
  <2>4. /\ StatusOK(entry[t].status, "repairing", work[t].pc)
        /\ RecordOK(t, Attempt(t), Attempt(t), "repairing", work[t].pc)
        /\ PointOK("repairing", Attempt(t), "done")
    BY <2>3 DEF StatusOK, RecordOK, PointOK, InFlight, Resting, Executed3, Verified3
  <2>5. entry[t].repairs + 1 \in 0..MaxRepairs
    <3>1. entry[t].repairs \in 0..MaxRepairs
      BY DEF UnderWay, EntryTable, EntryRecord
    <3> QED
      BY <1>3, <3>1
  <2>6. /\ entry' \in EntryTable /\ \A u \in Targets \ {t} : entry'[u] = entry[u]
        /\ entry'[t].status = "repairing" /\ entry'[t].attempts = entry[t].attempts
        /\ entry'[t].granted = entry[t].granted /\ entry'[t].pending = entry[t].pending
    <3>1. entry \in EntryTable /\ t \in Targets
      BY DEF UnderWay
    <3> QED
      BY <1>3, <2>1, <2>5, <3>1 DEF EntryTable, EntryRecord
  <2> QED
    BY <1>1, <1>3, <2>2, <2>4, <2>6 DEF AttemptMove, GoesTo, UnderWay, Attempt
<1> QED
  BY <1>2, <1>3 DEF Diagnose
-----------------------------------------------------------------------------
(* A step of an attempt keeps the invariant *)

\* What the limits are, as the proofs use it.
LEMMA Limits ==
    /\ IsFiniteSet(Targets) /\ DependsOn \in [Targets -> SUBSET Targets]
    /\ RequiresApproval \subseteq Targets
    /\ MaxConcurrent \in Nat /\ MaxConcurrent > 0
    /\ MaxTasks \in Nat /\ MaxRepairs \in Nat /\ MaxEvents \in Nat
BY ControllerAssumption

\* Fewer targets in flight are no more.
LEMMA FlyingFewer ==
    ASSUME NEW F, NEW G \in SUBSET Targets, F \subseteq G, Cardinality(G) <= MaxConcurrent
    PROVE  Cardinality(F) <= MaxConcurrent
<1>1. IsFiniteSet(G) /\ MaxConcurrent \in Nat
  BY Limits, FS_Subset
<1>2. IsFiniteSet(F) /\ Cardinality(F) <= Cardinality(G)
  BY <1>1, FS_Subset
<1>3. Cardinality(F) \in Nat /\ Cardinality(G) \in Nat
  BY <1>1, <1>2, FS_CardinalityType
<1> QED
  BY <1>1, <1>2, <1>3

\* A step that starts no attempt keeps their number.
LEMMA CountKept ==
    ASSUME CountInv, tasks' = tasks, \A t \in Targets : entry'[t].attempts = entry[t].attempts
    PROVE  CountInv'
<1>1. StartedAttempts' = StartedAttempts
  BY DEF StartedAttempts
<1> QED
  BY <1>1 DEF CountInv

\* What a step of an attempt leaves of the targets' entries and records.
LEMMA MoveKeeps ==
    ASSUME IInv, NEW t \in Targets, UnderWay(t), AttemptMove(t)
    PROVE  \A u \in Targets :
             /\ entry'[u].attempts = entry[u].attempts
             /\ entry'[u].granted = entry[u].granted
             /\ VerifiedLast(u) => VerifiedLast(u)'
             /\ entry[u].status = "completed" => entry'[u].status = "completed"
             /\ entry'[u].status = "queued" <=> entry[u].status = "queued"
             /\ entry'[u].status \in InFlight => entry[u].status \in InFlight
<1>1. work[t].n = entry[t].attempts /\ work[t].n \in 1..MaxTasks
  BY DEF IInv, WorkInv, UnderWay, PointOK
<1>2. ASSUME VerifiedLast(t) PROVE VerifiedLast(t)'
  <2>1. Attempt(t).exec = "ok" /\ Attempt(t).verify = "ok"
    BY <1>1, <1>2 DEF VerifiedLast, Attempt
  <2>2. work[t].pc # "executing" /\ work[t].pc # "verifying"
    BY <2>1 DEF UnderWay, PointOK
  <2>3. att'[t][work[t].n].exec = "ok" /\ att'[t][work[t].n].verify = "ok"
    BY <2>1, <2>2 DEF AttemptMove, RecordOK
  <2> QED
    BY <1>1, <2>3 DEF VerifiedLast, AttemptMove
<1>3. ASSUME NEW u \in Targets, u # t PROVE VerifiedLast(u)' <=> VerifiedLast(u)
  BY <1>3 DEF VerifiedLast, AttemptMove
<1>4. ASSUME NEW u \in Targets
      PROVE  /\ entry'[u].attempts = entry[u].attempts
             /\ entry'[u].granted = entry[u].granted
             /\ entry[u].status = "completed" => entry'[u].status = "completed"
             /\ entry'[u].status = "queued" <=> entry[u].status = "queued"
             /\ entry'[u].status \in InFlight => entry[u].status \in InFlight
  BY DEF AttemptMove, StatusOK, UnderWay
<1> QED
  BY <1>2, <1>3, <1>4

LEMMA MoveKeepsEntries ==
    ASSUME IInv, NEW t \in Targets, UnderWay(t), AttemptMove(t)
    PROVE  EntryInv'
<1> SUFFICES ASSUME NEW u \in Targets
             PROVE /\ entry'[u].status \in InFlight => entry'[u].attempts > 0
                   /\ entry'[u].pending # "none" =>
                        /\ entry'[u].attempts > 0
                        /\ entry'[u].status \in {"needs_approval", "blocked", "stopped", "completed"}
                   /\ entry'[u].pending = "complete" => VerifiedLast(u)'
                   /\ entry'[u].status = "completed" => VerifiedLast(u)'
                   /\ \A n \in 1..MaxTasks : u \in Asking /\ att'[u][n].exec # "none" => <<"execute", n>> \in entry'[u].granted
                   /\ \A n \in 1..MaxTasks : att'[u][n].commit = "ok" => entry'[u].status = "completed"
  BY DEF EntryInv
<1>1. /\ entry'[u].attempts = entry[u].attempts /\ entry'[u].granted = entry[u].granted
      /\ VerifiedLast(u) => VerifiedLast(u)'
      /\ entry[u].status = "completed" => entry'[u].status = "completed"
      /\ entry'[u].status \in InFlight => entry[u].status \in InFlight
  BY MoveKeeps
<1>2. /\ entry[u].status \in InFlight => entry[u].attempts > 0
      /\ entry[u].pending # "none" =>
           entry[u].attempts > 0 /\ entry[u].status \in {"needs_approval", "blocked", "stopped", "completed"}
      /\ entry[u].pending = "complete" => VerifiedLast(u)
      /\ entry[u].status = "completed" => VerifiedLast(u)
      /\ \A n \in 1..MaxTasks : u \in Asking /\ att[u][n].exec # "none" => <<"execute", n>> \in entry[u].granted
      /\ \A n \in 1..MaxTasks : att[u][n].commit = "ok" => entry[u].status = "completed"
  BY DEF IInv, EntryInv
<1>3. CASE u # t
  BY <1>1, <1>2, <1>3 DEF AttemptMove
<1>4. CASE u = t
  <2>1. work[t].n = entry[t].attempts /\ work[t].n \in 1..MaxTasks
    BY DEF IInv, WorkInv, UnderWay, PointOK
  <2>2. work[t].pc \in Verified3 => VerifiedLast(t)
    BY <2>1 DEF VerifiedLast, UnderWay, PointOK, Executed3, Verified3, Attempt
  <2>3. entry'[t].pending = entry[t].pending
        \/ /\ entry'[t].status = "needs_approval" /\ entry'[t].pending \in Kinds
           /\ entry'[t].pending = "complete" => work[t].pc = "signoff"
    BY DEF AttemptMove
  <2>4. entry[t].status \in Resting => entry'[t].status \in Resting
    BY DEF AttemptMove, StatusOK
  <2>5. entry'[t].status = "completed" => entry[t].status = "completed" \/ work[t].pc = "committing"
    BY DEF AttemptMove, StatusOK
  <2>6. ASSUME NEW n \in 1..MaxTasks, t \in Asking, att'[t][n].exec # "none"
        PROVE  <<"execute", n>> \in entry'[t].granted
    <3>1. CASE n # work[t].n
      BY <1>1, <1>2, <1>4, <2>6, <3>1 DEF AttemptMove
    <3>2. CASE n = work[t].n /\ Attempt(t).exec # "none"
      BY <1>1, <1>2, <1>4, <2>6, <3>2 DEF Attempt
    <3>3. CASE n = work[t].n /\ Attempt(t).exec = "none"
      <4>1. ~MustAsk(t)
        BY <2>6, <3>3 DEF AttemptMove, RecordOK, UnderWay, PointOK
      <4> QED
        BY <1>1, <1>4, <2>6, <3>3, <4>1 DEF MustAsk, Granted
    <3> QED
      BY <3>1, <3>2, <3>3
  <2>7. entry[t].attempts > 0
    BY <2>1, Limits
  <2>8. ASSUME NEW n \in 1..MaxTasks, att'[t][n].commit = "ok"
        PROVE  entry'[t].status = "completed"
    <3>1. CASE n = work[t].n
      BY <1>1, <1>4, <2>8, <3>1 DEF AttemptMove, RecordOK, UnderWay
    <3>2. CASE n # work[t].n
      BY <1>1, <1>2, <1>4, <2>8, <3>2 DEF AttemptMove
    <3> QED
      BY <3>1, <3>2
  <2> QED
    BY <1>1, <1>2, <1>4, <2>2, <2>3, <2>4, <2>5, <2>6, <2>7, <2>8 DEF Resting, Verified3
<1> QED
  BY <1>3, <1>4

LEMMA MoveKeepsInv ==
    ASSUME IInv, NEW t \in Targets, UnderWay(t), AttemptMove(t)
    PROVE  IInv'
<1> DEFINE Keeps(u) ==
             /\ entry'[u].attempts = entry[u].attempts
             /\ entry'[u].granted = entry[u].granted
             /\ VerifiedLast(u) => VerifiedLast(u)'
             /\ entry[u].status = "completed" => entry'[u].status = "completed"
             /\ entry'[u].status = "queued" <=> entry[u].status = "queued"
             /\ entry'[u].status \in InFlight => entry[u].status \in InFlight
<1>1. \A u \in Targets : Keeps(u)
  BY MoveKeeps
<1>2. UNCHANGED <<status, tasks, up, loop, snap, todo, launched, wake, op, expired, events>>
  BY DEF AttemptMove, AttemptLeaves, passVars, boundVars
<1>3. work[t].pc \notin {"none", "committed"} /\ work'[t].pc \notin {"none", "committed"}
  BY DEF UnderWay, AttemptMove, PointOK
<1>4. \A u \in Targets \ {t} : entry'[u] = entry[u] /\ att'[u] = att[u] /\ work'[u] = work[u]
  BY DEF AttemptMove
<1>5. Busy' = Busy /\ Pending' = Pending /\ t \in Busy
  BY <1>3, <1>4 DEF Busy, Pending
<1>6. Flying(Statuses)' \subseteq Flying(Statuses) /\ Flying(Statuses) \in SUBSET Targets
  BY <1>1 DEF Flying, Statuses
<1>7. TypeOK'
  BY <1>2 DEF IInv, TypeOK, AttemptMove, EntryTable, AttemptTable
<1>8. CountInv'
  BY <1>1, <1>2, CountKept DEF IInv
<1>9. EntryInv'
  BY MoveKeepsEntries
<1>10. SnapInv'
  BY <1>1, <1>2 DEF IInv, SnapInv
<1>11. WorkInv'
  <2> SUFFICES ASSUME NEW u \in Targets, work'[u].pc # "none"
               PROVE  /\ entry'[u].status # "queued" /\ u \notin todo'
                      /\ work'[u].n = entry'[u].attempts /\ work'[u].n > 0
                      /\ work'[u].pc = "executing" => Attempt(u)'.exec = "in_flight"
                      /\ work'[u].pc \in Executed3 => Attempt(u)'.exec = "ok"
                      /\ work'[u].pc = "verifying" => Attempt(u)'.verify = "in_flight"
                      /\ work'[u].pc \in Verified3 => Attempt(u)'.verify = "ok"
                      /\ work'[u].pc \in {"asked", "diagnose", "done"} => entry'[u].status \notin InFlight
    BY DEF WorkInv
  <2>1. CASE u # t
    <3>1. entry'[u] = entry[u] /\ att'[u] = att[u] /\ work'[u] = work[u]
      BY <1>4, <2>1
    <3>2. Attempt(u)' = Attempt(u)
      BY <3>1 DEF Attempt
    <3> QED
      BY <1>2, <3>1, <3>2 DEF IInv, WorkInv
  <2>2. CASE u = t
    <3>1. Attempt(t)' = att'[t][work[t].n]
      BY DEF Attempt, AttemptMove
    <3>2. PointOK(entry'[t].status, Attempt(t)', work'[t].pc)
      BY <3>1 DEF AttemptMove
    <3>3. /\ entry[t].status # "queued" /\ t \notin todo
          /\ work[t].n = entry[t].attempts /\ work[t].n > 0
      BY <1>3 DEF IInv, WorkInv
    <3>4. work'[t].n = work[t].n
      BY DEF AttemptMove
    <3> QED
      BY <1>1, <1>2, <2>2, <3>2, <3>3, <3>4 DEF PointOK
  <2> QED
    BY <2>1, <2>2
<1>12. OpInv'
  <2>1. ASSUME NEW u \in Targets, entry[u].status \in {"needs_approval", "blocked", "stopped", "completed"}
        PROVE  entry'[u].status \in {"needs_approval", "blocked", "stopped", "completed"}
    BY <1>1, <1>4, <2>1 DEF AttemptMove, StatusOK, Resting
  <2> QED
    BY <1>1, <1>2, <2>1 DEF IInv, OpInv
<1>13. RunInv'
  BY <1>1, <1>2 DEF IInv, RunInv, CompletedMeansAll
<1>14. DependenciesFirst'
  BY <1>1, Limits DEF IInv, DependenciesFirst
<1>15. LoopInv'
  BY <1>2, <1>5 DEF IInv, LoopInv
<1>16. FlyingInv'
  <2>1. Cardinality(Flying(Statuses)') <= MaxConcurrent
    BY <1>6, FlyingFewer DEF IInv, FlyingInv
  <2>2. snap.targets' = snap.targets
    BY <1>2
  <2>3. Flying(snap.targets)' = Flying(snap.targets)
    BY <1>2 DEF Flying
  <2> QED
    BY <1>2, <1>5, <1>6, <2>1, <2>3 DEF IInv, FlyingInv
<1>17. IdleInv'
  <2>1. Flying(snap.targets)' = Flying(snap.targets)
    BY <1>2 DEF Flying
  <2> QED
    BY <1>2, <1>5, <2>1 DEF IInv, IdleInv
<1>18. WakeInv'
  BY <1>5 DEF WakeInv
<1> QED
  BY <1>7, <1>8, <1>9, <1>10, <1>11, <1>12, <1>13, <1>14, <1>15, <1>16, <1>17, <1>18 DEF IInv

\* No step takes a completed target back.
CompletedStays == \A t \in Targets : entry[t].status = "completed" => entry'[t].status = "completed"

\* The attempt leaves Driver.active.
LEMMA AttemptEndsStep ==
    ASSUME IInv, NEW t \in Targets, AttemptEnds(t)
    PROVE  IInv' /\ CompletedStays
<1>1. /\ UNCHANGED <<status, tasks, entry, att, up, loop, snap, todo, launched, op, expired, events>>
      /\ wake' = TRUE /\ work' = [work EXCEPT ![t] = NoWork] /\ work[t].pc = "done"
  BY DEF AttemptEnds, At, ledgerVars, passVars, boundVars
<1>2. TypeOK /\ work \in [Targets -> WorkRecord]
  BY DEF IInv, TypeOK
<1>3. NoWork \in WorkRecord
  BY Limits DEF NoWork, WorkRecord, Points
<1>4. work' \in [Targets -> WorkRecord] /\ work'[t].pc = "none" /\ \A u \in Targets \ {t} : work'[u] = work[u]
  BY <1>1, <1>2, <1>3 DEF NoWork
<1>5. Busy' = Busy \ {t} /\ Pending' = Pending /\ t \in Busy
  BY <1>1, <1>4 DEF Busy, Pending
<1>6. entry[t].status \notin InFlight
  BY <1>1 DEF IInv, WorkInv
<1>7. /\ Flying(Statuses)' = Flying(Statuses) /\ Flying(snap.targets)' = Flying(snap.targets)
      /\ t \notin Flying(Statuses)
  BY <1>1, <1>6 DEF Flying, Statuses
<1>8. TypeOK'
  BY <1>1, <1>2, <1>4 DEF TypeOK
<1>9. CountInv'
  BY <1>1, CountKept DEF IInv
<1>10. EntryInv' /\ SnapInv' /\ OpInv' /\ RunInv' /\ DependenciesFirst'
  BY <1>1 DEF IInv, EntryInv, SnapInv, OpInv, RunInv, DependenciesFirst, CompletedMeansAll, VerifiedLast
<1>11. WorkInv'
  BY <1>1, <1>4 DEF IInv, WorkInv, Attempt
<1>12. LoopInv'
  BY <1>1, <1>5 DEF IInv, LoopInv
<1>13. FlyingInv' /\ IdleInv'
  BY <1>1, <1>5, <1>7 DEF IInv, FlyingInv, IdleInv
<1>14. WakeInv'
  BY <1>1 DEF WakeInv
<1>15. CompletedStays
  BY <1>1 DEF CompletedStays
<1> QED
  BY <1>8, <1>9, <1>10, <1>11, <1>12, <1>13, <1>14, <1>15 DEF IInv

\* Every step of an attempt.
LEMMA AttemptStep ==
    ASSUME IInv, NEW t \in Targets, AttemptNext(t)
    PROVE  IInv' /\ CompletedStays
<1>1. CASE AttemptEnds(t)
  BY <1>1, AttemptEndsStep
<1>2. CASE ~AttemptEnds(t)
  <2>1. work[t].pc \notin {"none", "committed"}
    BY <1>2 DEF AttemptNext, AbortAttempt, Preflight, ExecuteReturns, Executed, Verify, VerifyReturns,
                Gate, SignOff, Asked, CommitProgress, Diagnose, At
  <2>2. UnderWay(t)
    BY <2>1, UnderWayFacts DEF IInv
  <2>3. AttemptMove(t)
    BY <1>2, <2>2, Limits, AbortStep, PreflightStep, ExecuteReturnsStep, ExecutedStep, VerifyStep,
       VerifyReturnsStep, GateStep, SignOffStep, AskedStep, CommitProgressStep, DiagnoseStep
       DEF AttemptNext
  <2> QED
    BY <2>2, <2>3, MoveKeeps, MoveKeepsInv DEF CompletedStays
<1> QED
  BY <1>1, <1>2
-----------------------------------------------------------------------------
(* Steps that leave the targets alone *)

\* The points of the attempts under way are kept, except that committed ones are launched.
SameWork ==
    \A u \in Targets : /\ work'[u].n = work[u].n
                       /\ \/ work'[u].pc = work[u].pc
                          \/ work[u].pc = "committed" /\ work'[u].pc = "plan"

\* A step of the loop, of a call or of the environment that leaves the targets alone.
Quiet ==
    /\ UNCHANGED <<tasks, entry, att>> /\ SameWork
    /\ todo' \in {todo, {}}
    /\ snap' \in {snap, NoSnap, Snapshot(status', entry)}

LEMMA QuietFacts ==
    ASSUME IInv, TypeOK', Quiet
    PROVE  /\ CountInv' /\ EntryInv' /\ SnapInv' /\ WorkInv' /\ DependenciesFirst'
           /\ op' = op => OpInv'
           /\ \A t \in Targets : VerifiedLast(t)' <=> VerifiedLast(t)
           /\ Busy' = Busy /\ Pending' \subseteq Pending
           /\ Flying(Statuses)' = Flying(Statuses) /\ Startable(Statuses)' = Startable(Statuses)
           /\ snap' = NoSnap => Flying(snap.targets)' = {} /\ snap'.status # "idle"
           /\ snap' = Snapshot(status', entry) =>
                 /\ Flying(snap.targets)' = Flying(Statuses) /\ snap'.status = status'
                 /\ Startable(snap.targets)' = Startable(Statuses)
           /\ snap' = snap => /\ Flying(snap.targets)' = Flying(snap.targets)
                              /\ Startable(snap.targets)' = Startable(snap.targets)
           /\ Cardinality(Flying(Statuses)') <= MaxConcurrent
           /\ Cardinality(Flying(snap.targets)') <= MaxConcurrent
           /\ CompletedStays
<1>1. UNCHANGED <<tasks, entry, att>> /\ SameWork /\ todo' \in {todo, {}}
      /\ snap' \in {snap, NoSnap, Snapshot(status', entry)}
  BY DEF Quiet
<1>2. CountInv'
  BY <1>1, CountKept DEF IInv
<1>3. \A t \in Targets : VerifiedLast(t)' <=> VerifiedLast(t)
  BY <1>1 DEF VerifiedLast
<1>4. EntryInv' /\ DependenciesFirst' /\ CompletedStays
  BY <1>1, <1>3 DEF IInv, EntryInv, DependenciesFirst, CompletedStays
<1>5. SnapInv'
  <2>1. CASE snap' = snap
    BY <1>1, <2>1 DEF IInv, SnapInv
  <2>2. CASE snap' = NoSnap
    BY <1>1, <2>2 DEF SnapInv, NoSnap, InFlight
  <2>3. CASE snap' = Snapshot(status', entry)
    BY <1>1, <2>3 DEF IInv, EntryInv, SnapInv, Snapshot
  <2> QED
    BY <1>1, <2>1, <2>2, <2>3
<1>6. WorkInv'
  <2>1. \A u \in Targets : Attempt(u)' = Attempt(u)
    BY <1>1 DEF Attempt, SameWork
  <2> QED
    BY <1>1, <2>1 DEF IInv, WorkInv, SameWork, Executed3, Verified3
<1>7. op' = op => OpInv'
  BY <1>1, <1>3 DEF IInv, OpInv
<1>8. Busy' = Busy /\ Pending' \subseteq Pending
  BY <1>1 DEF Busy, Pending, SameWork
<1>9. Statuses' = Statuses
  BY <1>1 DEF Statuses
<1>10. Flying(Statuses)' = Flying(Statuses) /\ Startable(Statuses)' = Startable(Statuses)
  BY <1>9 DEF Flying, Startable, EligibleTargets, DependenciesCompleted
<1>11. snap' = NoSnap => Flying(snap.targets)' = {} /\ snap'.status # "idle"
  BY DEF NoSnap, Flying, InFlight
<1>12. ASSUME snap' = Snapshot(status', entry)
       PROVE  /\ Flying(snap.targets)' = Flying(Statuses) /\ snap'.status = status'
              /\ Startable(snap.targets)' = Startable(Statuses)
  <2>1. snap'.targets = Statuses /\ snap'.status = status'
    BY <1>12 DEF Snapshot, Statuses
  <2> QED
    BY <2>1 DEF Flying, Startable, EligibleTargets, DependenciesCompleted
<1>13. snap' = snap => /\ Flying(snap.targets)' = Flying(snap.targets)
                       /\ Startable(snap.targets)' = Startable(snap.targets)
  BY DEF Flying, Startable, EligibleTargets, DependenciesCompleted
<1>14. Cardinality(Flying(Statuses)') <= MaxConcurrent
  BY <1>10 DEF IInv, FlyingInv
<1>15. Cardinality(Flying(snap.targets)') <= MaxConcurrent
  <2>1. Flying(snap.targets)' \in {{}, Flying(Statuses), Flying(snap.targets)}
    BY <1>1, <1>11, <1>12, <1>13
  <2>2. Cardinality({}) <= MaxConcurrent
    BY Limits, FS_EmptySet
  <2>3. Cardinality(Flying(Statuses)) <= MaxConcurrent /\ Cardinality(Flying(snap.targets)) <= MaxConcurrent
    BY DEF IInv, FlyingInv
  <2> QED
    BY <2>1, <2>2, <2>3
<1> QED
  BY <1>2, <1>3, <1>4, <1>5, <1>6, <1>7, <1>8, <1>10, <1>11, <1>12, <1>13, <1>14, <1>15

\* Driver.active lacks only the attempts that are committed and not launched.
LEMMA BusyActive == Busy = active \cup Pending /\ active \cap Pending = {}
BY DEF Busy, active, Pending

\* The pass is over.
LEMMA PassOver ==
    ASSUME IInv, TypeOK', Quiet, NEW exit \in BOOLEAN, PassEnds(exit),
           exit => wake' = wake, UNCHANGED <<op, up>>, loop # "off", Pending = {},
           status' = "completed" => AllCompleted(Statuses),
           status' = "idle" => /\ Busy = {} /\ Flying(Statuses) = {}
                               /\ exit /\ ~wake /\ op = NoOp => Startable(Statuses) = {}
    PROVE  IInv' /\ CompletedStays
<1>1. loop' \in {"off", "wait"} /\ snap' = NoSnap /\ (loop' = "off" => exit /\ ~wake /\ op = NoOp /\ active = {})
  BY DEF PassEnds
<1>2. /\ CountInv' /\ EntryInv' /\ SnapInv' /\ WorkInv' /\ DependenciesFirst' /\ OpInv'
      /\ Busy' = Busy /\ Pending' = {} /\ CompletedStays
      /\ Flying(Statuses)' = Flying(Statuses) /\ Startable(Statuses)' = Startable(Statuses)
      /\ Flying(snap.targets)' = {} /\ snap'.status # "idle"
      /\ Cardinality(Flying(Statuses)') <= MaxConcurrent
      /\ Cardinality(Flying(snap.targets)') <= MaxConcurrent
  BY <1>1, QuietFacts
<1>3. UNCHANGED entry
  BY DEF Quiet
<1>4. RunInv'
  BY <1>1, <1>3 DEF RunInv, CompletedMeansAll, AllCompleted, Statuses
<1>5. LoopInv'
  BY <1>1, <1>2, BusyActive DEF IInv, LoopInv
<1>6. FlyingInv'
  BY <1>1, <1>2 DEF IInv, FlyingInv
<1>7. IdleInv'
  BY <1>1, <1>2 DEF IdleInv
<1>8. WakeInv'
  BY <1>1, <1>2 DEF WakeInv
<1> QED
  BY <1>2, <1>4, <1>5, <1>6, <1>7, <1>8 DEF IInv
-----------------------------------------------------------------------------
(* The driver disappears *)

LEMMA SnapTypes ==
    /\ NoSnap \in [status : DOMAIN RunTransitions, targets : [Targets -> TargetStatuses]]
    /\ \A s \in DOMAIN RunTransitions : \A e \in EntryTable :
          Snapshot(s, e) \in [status : DOMAIN RunTransitions, targets : [Targets -> TargetStatuses]]
<1>1. "created" \in DOMAIN RunTransitions /\ "queued" \in TargetStatuses
  BY RunTable, StatusSet
<1>2. NoSnap \in [status : DOMAIN RunTransitions, targets : [Targets -> TargetStatuses]]
  BY <1>1 DEF NoSnap
<1>3. ASSUME NEW s \in DOMAIN RunTransitions, NEW e \in EntryTable
      PROVE  Snapshot(s, e) \in [status : DOMAIN RunTransitions, targets : [Targets -> TargetStatuses]]
  BY DEF Snapshot, EntryTable, EntryRecord
<1> QED
  BY <1>2, <1>3

\* The records when the effects have settled, or have been left in flight by a crash.
LEMMA SettledRecords ==
    ASSUME IInv, att' = att \/ EffectsSettle
    PROVE  /\ att' \in AttemptTable
           /\ \A t \in Targets : \A n \in 1..MaxTasks :
                 /\ att'[t][n].commit = "ok" => att[t][n].commit = "ok"
                 /\ att'[t][n].exec # "none" => att[t][n].exec # "none"
                 /\ n = entry[t].attempts /\ att[t][n].exec = "ok" => att'[t][n].exec = "ok"
                 /\ n = entry[t].attempts /\ att[t][n].verify = "ok" => att'[t][n].verify = "ok"
<1>1. att \in AttemptTable /\ work \in [Targets -> WorkRecord]
  BY DEF IInv, TypeOK, AttemptTable
<1>2. CASE att' = att
  BY <1>1, <1>2
<1>3. CASE EffectsSettle
  <2> DEFINE D == {t \in Targets : work[t].pc \in {"executing", "verifying"}}
             New(t, n, v) ==
               IF n # work[t].n THEN att[t][n]
               ELSE CASE work[t].pc = "executing"  -> [att[t][n] EXCEPT !.exec = v]
                      [] work[t].pc = "verifying"  -> [att[t][n] EXCEPT !.verify = v]
                      [] work[t].pc = "committing" -> [att[t][n] EXCEPT !.commit = "failed"]
                      [] OTHER -> att[t][n]
  <2>1. PICK r \in [D -> {"ok", "failed"}] :
           att' = [t \in Targets |-> [n \in 1..MaxTasks |-> New(t, n, r[t])]]
    BY <1>3 DEF EffectsSettle
  <2>2. ASSUME NEW t \in Targets, NEW n \in 1..MaxTasks
        PROVE  /\ New(t, n, r[t]) \in AttemptRecord
               /\ New(t, n, r[t]).commit = "ok" => att[t][n].commit = "ok"
               /\ New(t, n, r[t]).exec # "none" => att[t][n].exec # "none"
               /\ n = entry[t].attempts /\ att[t][n].exec = "ok" => New(t, n, r[t]).exec = "ok"
               /\ n = entry[t].attempts /\ att[t][n].verify = "ok" => New(t, n, r[t]).verify = "ok"
    <3>1. att[t][n] \in AttemptRecord
      BY <1>1 DEF AttemptTable
    <3>2. t \in D => r[t] \in RecordSet
      BY DEF RecordSet
    <3>3. "failed" \in RecordSet
      BY DEF RecordSet
    <3>4. CASE n # work[t].n
      BY <3>1, <3>4
    <3>5. CASE n = work[t].n /\ work[t].pc = "executing"
      <4>1. att[t][n].exec = "in_flight"
        BY <3>5 DEF IInv, WorkInv, Attempt
      <4> QED
        BY <3>1, <3>2, <3>5, <4>1 DEF AttemptRecord
    <3>6. CASE n = work[t].n /\ work[t].pc = "verifying"
      <4>1. att[t][n].verify = "in_flight"
        BY <3>6 DEF IInv, WorkInv, Attempt
      <4> QED
        BY <3>1, <3>2, <3>6, <4>1 DEF AttemptRecord
    <3>7. CASE n = work[t].n /\ work[t].pc = "committing"
      BY <3>1, <3>3, <3>7 DEF AttemptRecord
    <3>8. CASE n = work[t].n /\ work[t].pc \notin {"executing", "verifying", "committing"}
      BY <3>1, <3>8
    <3> QED
      BY <3>4, <3>5, <3>6, <3>7, <3>8
  <2> HIDE DEF New, D
  <2> QED
    BY <2>1, <2>2 DEF AttemptTable
<1> QED
  BY <1>2, <1>3

\* The driver is gone: nothing is under way any more, and a new driver takes over
\* from the ledger.  A loop that dies leaves no idle run behind.
LEMMA GoneStep ==
    ASSUME IInv, DriverGone, att' = att \/ EffectsSettle,
           up' \in BOOLEAN, expired' \in BOOLEAN, events' \in 0..MaxEvents,
           up' => status # "idle"
    PROVE  IInv' /\ CompletedStays
<1>1. /\ loop' = "off" /\ wake' = FALSE /\ snap' = NoSnap /\ todo' = {} /\ launched' = FALSE
      /\ work' = [t \in Targets |-> NoWork] /\ op' = NoOp /\ UNCHANGED <<status, tasks, entry>>
  BY DEF DriverGone
<1>2. att' \in AttemptTable
  BY SettledRecords
<1>3. NoWork \in WorkRecord /\ NoOp \in CallRecord
  BY Limits DEF NoWork, WorkRecord, Points, NoOp, CallRecord
<1>4. TypeOK'
  BY <1>1, <1>2, <1>3, SnapTypes DEF IInv, TypeOK, AttemptTable, LoopPoints
<1>5. \A t \in Targets : work'[t].pc = "none"
  BY <1>1 DEF NoWork
<1>6. Busy' = {} /\ Pending' = {}
  BY <1>5 DEF Busy, Pending
<1>7. Flying(Statuses)' = Flying(Statuses) /\ Flying(snap.targets)' = {} /\ snap'.status # "idle"
  BY <1>1 DEF Flying, Statuses, NoSnap, InFlight
<1>8. CountInv'
  BY <1>1, CountKept DEF IInv
<1>9. \A t \in Targets : VerifiedLast(t) => VerifiedLast(t)'
  <2> SUFFICES ASSUME NEW t \in Targets, VerifiedLast(t) PROVE VerifiedLast(t)'
    OBVIOUS
  <2>1. entry[t].attempts \in 1..MaxTasks
    <3>1. entry[t].attempts \in 0..MaxTasks /\ entry[t].attempts > 0
      BY DEF IInv, TypeOK, EntryRecord, VerifiedLast
    <3> QED
      BY <3>1, Limits
  <2> QED
    BY <1>1, <2>1, SettledRecords DEF VerifiedLast
<1>10. EntryInv'
  BY <1>1, <1>9, SettledRecords DEF IInv, EntryInv
<1>11. SnapInv' /\ WorkInv' /\ OpInv'
  BY <1>1, <1>5 DEF SnapInv, NoSnap, InFlight, WorkInv, OpInv, NoOp
<1>12. RunInv' /\ DependenciesFirst' /\ CompletedStays
  BY <1>1 DEF IInv, RunInv, CompletedMeansAll, DependenciesFirst, CompletedStays
<1>13. LoopInv'
  BY <1>1, <1>6 DEF LoopInv
<1>14. FlyingInv'
  <2>1. Cardinality(Flying(Statuses)') <= MaxConcurrent
    BY <1>7 DEF IInv, FlyingInv
  <2>2. Cardinality(Flying(snap.targets)') <= MaxConcurrent
    BY <1>7, Limits, FS_EmptySet
  <2> QED
    BY <1>1, <1>6, <2>1, <2>2 DEF FlyingInv
<1>15. IdleInv'
  BY <1>1, <1>6, <1>7 DEF IInv, IdleInv
<1>16. WakeInv'
  BY <1>1 DEF WakeInv
<1> QED
  BY <1>4, <1>8, <1>10, <1>11, <1>12, <1>13, <1>14, <1>15, <1>16 DEF IInv

\* An error ends the loop of a run that is not idle.
LEMMA LoopDiesStep ==
    ASSUME IInv, LoopDies, status # "idle"
    PROVE  IInv' /\ CompletedStays
<1>1. DriverGone /\ EffectsSettle /\ UNCHANGED <<up, expired, events>>
  BY DEF LoopDies, boundVars
<1>2. up' \in BOOLEAN /\ expired' \in BOOLEAN /\ events' \in 0..MaxEvents
  BY <1>1 DEF IInv, TypeOK
<1> QED
  BY <1>1, <1>2, GoneStep

\* The process stops.
LEMMA ProcessStops ==
    ASSUME IInv, Crash \/ Shutdown
    PROVE  IInv' /\ CompletedStays
<1>1. /\ DriverGone /\ (att' = att \/ EffectsSettle) /\ up' = FALSE /\ expired' = expired
      /\ events < MaxEvents /\ events' = events + 1
  BY DEF Crash, Shutdown
<1>2. expired \in BOOLEAN /\ events \in 0..MaxEvents
  BY DEF IInv, TypeOK
<1>3. events' \in 0..MaxEvents
  BY <1>1, <1>2, Limits
<1> QED
  BY <1>1, <1>2, <1>3, GoneStep

\* An idle run takes every status the loop asks for.
LEMMA IdleMay ==
    ASSUME NEW to \in {"running", "paused", "stopping", "stopped", "completed", "idle"}, ~RunMay(to)
    PROVE  status # "idle"
BY RunTable DEF RunMay
-----------------------------------------------------------------------------
(* The scheduling pass *)

\* A pass that has launched nothing yet has no attempt committed.
LEMMA NothingPending ==
    ASSUME IInv, loop # "launch"
    PROVE  Pending = {} /\ Busy = active
BY BusyActive DEF IInv, LoopInv

\* stop() and the deadline abort the attempts in flight, and move none.
LEMMA AbortWork ==
    ASSUME IInv, work' \in {work, [t \in Targets |-> [work[t] EXCEPT !.abort = t \in active]]}
    PROVE  SameWork /\ work' \in [Targets -> WorkRecord]
<1>1. work \in [Targets -> WorkRecord]
  BY DEF IInv, TypeOK
<1>2. CASE work' = work
  BY <1>1, <1>2 DEF SameWork
<1>3. CASE work' = [t \in Targets |-> [work[t] EXCEPT !.abort = t \in active]]
  <2>1. ASSUME NEW t \in Targets, NEW b \in BOOLEAN
        PROVE  /\ [work[t] EXCEPT !.abort = b] \in WorkRecord
               /\ [work[t] EXCEPT !.abort = b].n = work[t].n
               /\ [work[t] EXCEPT !.abort = b].pc = work[t].pc
    BY <1>1 DEF WorkRecord
  <2>2. \A t \in Targets : (t \in active) \in BOOLEAN
    OBVIOUS
  <2> QED
    BY <1>3, <2>1, <2>2 DEF SameWork
<1> QED
  BY <1>2, <1>3

LEMMA LoadStep ==
    ASSUME IInv, Load
    PROVE  IInv' /\ CompletedStays
<1>1. /\ loop = "wait" /\ wake /\ wake' = FALSE /\ todo' = {} /\ launched' = FALSE
      /\ UNCHANGED <<status, tasks, entry, att, up, op, expired, events>>
  BY DEF Load, ledgerVars, boundVars
<1>2. SameWork /\ work' \in [Targets -> WorkRecord]
  BY AbortWork DEF Load
<1>3. status \in DOMAIN RunTransitions /\ entry \in EntryTable
  BY DEF IInv, TypeOK, EntryTable
<1>4. /\ status \in TerminalRun \cup {"paused"} =>
            /\ loop' = IF op = NoOp /\ active = {} THEN "off" ELSE "wait"
            /\ snap' = NoSnap
      /\ status \in {"pausing", "stopping"} => loop' = (IF active = {} THEN status ELSE "wait") /\ snap' = NoSnap
      /\ status = "created" => loop' = "starting" /\ snap' = NoSnap
      /\ status \in {"idle", "running"} => loop' = "unlock" /\ snap' = Snapshot(status, entry)
  BY DEF Load, TerminalRun
<1>5. status \in TerminalRun \cup {"paused", "pausing", "stopping", "created", "idle", "running"}
  BY <1>3, RunTable DEF TerminalRun
<1>6. TypeOK'
  <2>1. loop' \in LoopPoints
    BY <1>4, <1>5 DEF LoopPoints
  <2>2. snap' \in [status : DOMAIN RunTransitions, targets : [Targets -> TargetStatuses]]
    BY <1>3, <1>4, <1>5, SnapTypes
  <2> QED
    BY <1>1, <1>2, <2>1, <2>2 DEF IInv, TypeOK
<1>7. Quiet
  BY <1>1, <1>2, <1>4, <1>5 DEF Quiet
<1>8. Pending = {} /\ Busy = active
  BY <1>1, NothingPending
<1>9. /\ CountInv' /\ EntryInv' /\ SnapInv' /\ WorkInv' /\ DependenciesFirst' /\ OpInv'
      /\ Busy' = Busy /\ Pending' = {} /\ CompletedStays
      /\ Flying(Statuses)' = Flying(Statuses) /\ Startable(Statuses)' = Startable(Statuses)
      /\ snap' = NoSnap => Flying(snap.targets)' = {} /\ snap'.status # "idle"
      /\ snap' = Snapshot(status', entry) =>
            /\ Flying(snap.targets)' = Flying(Statuses) /\ snap'.status = status'
            /\ Startable(snap.targets)' = Startable(Statuses)
      /\ Cardinality(Flying(Statuses)') <= MaxConcurrent
      /\ Cardinality(Flying(snap.targets)') <= MaxConcurrent
  BY <1>1, <1>6, <1>7, <1>8, QuietFacts
<1>10. loop' \notin {"select", "launch", "deadline", "budget", "idling", "completing"}
  BY <1>4, <1>5
<1>11. RunInv'
  BY <1>1, <1>10 DEF IInv, RunInv, CompletedMeansAll
<1>12. LoopInv'
  BY <1>1, <1>4, <1>5, <1>8, <1>9, <1>10 DEF IInv, LoopInv
<1>13. FlyingInv'
  <2>1. loop' = "unlock" => snap' = Snapshot(status', entry)
    BY <1>1, <1>4, <1>5
  <2> QED
    BY <1>1, <1>9, <1>10, <2>1 DEF IInv, FlyingInv
<1>14. IdleInv'
  BY <1>1, <1>4, <1>5, <1>9, <1>10 DEF IInv, IdleInv
<1>15. WakeInv'
  <2>1. loop' = "unlock" => snap' = Snapshot(status', entry)
    BY <1>1, <1>4, <1>5
  <2>2. loop' = "off" => status' # "idle"
    BY <1>1, <1>4, <1>5
  <2> QED
    BY <1>1, <1>9, <1>10, <2>1, <2>2 DEF WakeInv
<1> QED
  BY <1>6, <1>9, <1>11, <1>12, <1>13, <1>14, <1>15 DEF IInv

\* A change of status that ends the pass.
LEMMA StatusEndsPass ==
    ASSUME IInv, NEW to \in {"running", "paused", "stopped", "completed", "idle"},
           NEW exit \in BOOLEAN, RunMay(to), status' = to, PassEnds(exit), wake' \in BOOLEAN, exit => wake' = wake,
           UNCHANGED <<tasks, entry, att, up, work, op, expired, events>>,
           loop \notin {"off", "launch"},
           to = "completed" => AllCompleted(Statuses),
           to = "idle" => /\ Busy = {} /\ Flying(Statuses) = {}
                          /\ exit /\ ~wake /\ op = NoOp => Startable(Statuses) = {}
    PROVE  IInv' /\ CompletedStays
<1>1. loop' \in {"off", "wait"} /\ snap' = NoSnap /\ todo' = {} /\ launched' = FALSE
  BY DEF PassEnds
<1>2. TypeOK'
  BY <1>1, SnapTypes, RunTable DEF IInv, TypeOK, LoopPoints
<1>3. Quiet
  BY <1>1 DEF Quiet, SameWork
<1>4. Pending = {}
  BY NothingPending
<1> QED
  BY <1>2, <1>3, <1>4, PassOver

LEMMA SettleStep ==
    ASSUME IInv, Settle
    PROVE  IInv' /\ CompletedStays
<1>1. PICK to \in {"paused", "stopped", "running"} : \E exit \in BOOLEAN, w \in {wake, TRUE} :
         /\ exit => w = wake
         /\ loop \in {"pausing", "stopping", "starting"}
         /\ LoopSetsStatus(to, PassEnds(exit) /\ wake' = w)
  BY DEF Settle
<1>2. CASE ~RunMay(to)
  BY <1>1, <1>2, IdleMay, LoopDiesStep DEF LoopSetsStatus
<1>3. CASE RunMay(to)
  <2>1. PICK exit \in BOOLEAN, w \in {wake, TRUE} : PassEnds(exit) /\ wake' = w /\ (exit => w = wake)
    BY <1>1, <1>3 DEF LoopSetsStatus
  <2>2. status' = to /\ UNCHANGED <<tasks, entry, att, up, work, op, expired, events>>
    BY <1>1, <1>3 DEF LoopSetsStatus, boundVars
  <2>3. wake' \in BOOLEAN
    BY <2>1 DEF IInv, TypeOK
  <2> QED
    BY <1>1, <1>3, <2>1, <2>2, <2>3, StatusEndsPass
<1> QED
  BY <1>2, <1>3

LEMMA LeaveIdleStep ==
    ASSUME IInv, LeaveIdle
    PROVE  IInv' /\ CompletedStays
<1>1. CASE ~RunMay("running")
  BY <1>1, IdleMay, LoopDiesStep DEF LeaveIdle, LoopSetsStatus
<1>2. CASE RunMay("running")
  <2>1. /\ status' = "running" /\ snap' = Snapshot("running", entry)
        /\ UNCHANGED <<tasks, entry, att, up, loop, todo, launched, wake, work, op, expired, events>>
        /\ loop \in {"deadline", "budget", "launch"}
    BY <1>2 DEF LeaveIdle, LoopSetsStatus, boundVars
  <2>2. TypeOK'
    BY <2>1, SnapTypes, RunTable DEF IInv, TypeOK, EntryTable
  <2>3. Quiet
    BY <2>1 DEF Quiet, SameWork
  <2>4. Pending' = Pending
    BY <2>1 DEF Pending
  <2>5. /\ CountInv' /\ EntryInv' /\ SnapInv' /\ WorkInv' /\ DependenciesFirst' /\ OpInv'
        /\ Busy' = Busy /\ CompletedStays
        /\ Flying(Statuses)' = Flying(Statuses) /\ Startable(Statuses)' = Startable(Statuses)
        /\ Cardinality(Flying(Statuses)') <= MaxConcurrent
        /\ Cardinality(Flying(snap.targets)') <= MaxConcurrent
        /\ snap'.status = status'
    BY <2>1, <2>2, <2>3, QuietFacts
  <2>6. RunInv' /\ LoopInv'
    BY <2>1, <2>4, <2>5 DEF IInv, RunInv, CompletedMeansAll, LoopInv
  <2>7. FlyingInv' /\ IdleInv'
    BY <2>1, <2>5 DEF IInv, FlyingInv, IdleInv
  <2>8. WakeInv'
    BY <2>1, <2>5 DEF IInv, WakeInv
  <2> QED
    BY <2>2, <2>5, <2>6, <2>7, <2>8 DEF IInv
<1> QED
  BY <1>1, <1>2

\* With nothing in flight there is room.
LEMMA EmptyRoom == active = {} => Room > 0
BY Limits, FS_EmptySet DEF Room

LEMMA DecideStep ==
    ASSUME IInv, Decide
    PROVE  IInv' /\ CompletedStays
<1>1. /\ loop = "launch" /\ Pending = {} /\ (Room <= 0 \/ todo = {} \/ BudgetBlocked)
      /\ UNCHANGED <<status, tasks, entry, att, up, wake, work, op, expired, events>>
  BY DEF Decide, ledgerVars, boundVars
<1>2. Busy = active
  BY <1>1, BusyActive
<1>3. CASE launched \/ active # {}
  <2>1. PassEnds(FALSE)
    BY <1>3 DEF Decide
  <2>2. loop' \in {"off", "wait"} /\ snap' = NoSnap /\ todo' = {} /\ launched' = FALSE
    BY <2>1 DEF PassEnds
  <2>3. TypeOK'
    BY <1>1, <2>2, SnapTypes DEF IInv, TypeOK, LoopPoints
  <2>4. Quiet
    BY <1>1, <2>2 DEF Quiet, SameWork
  <2>5. status' = "completed" => AllCompleted(Statuses)
    BY <1>1 DEF IInv, RunInv, CompletedMeansAll, AllCompleted, Statuses
  <2>6. status' = "idle" => Busy = {} /\ Flying(Statuses) = {}
    BY <1>1 DEF IInv, IdleInv
  <2> QED
    BY <1>1, <2>1, <2>3, <2>4, <2>5, <2>6, PassOver
<1>4. CASE ~(launched \/ active # {})
  <2>1. /\ loop' \in {"completing", "budget", "idling"}
        /\ loop' = "completing" => AllCompleted(snap.targets)
        /\ loop' = "idling" => ~BudgetBlocked
        /\ UNCHANGED <<snap, todo, launched>>
    BY <1>4 DEF Decide, passVars
  <2>2. TypeOK'
    BY <1>1, <2>1 DEF IInv, TypeOK, LoopPoints
  <2>3. Quiet
    BY <1>1, <2>1 DEF Quiet, SameWork
  <2>4. /\ CountInv' /\ EntryInv' /\ SnapInv' /\ WorkInv' /\ DependenciesFirst' /\ OpInv'
        /\ Busy' = Busy /\ Pending' = {} /\ CompletedStays
        /\ Flying(Statuses)' = Flying(Statuses) /\ Startable(Statuses)' = Startable(Statuses)
        /\ Flying(snap.targets)' = Flying(snap.targets)
        /\ Cardinality(Flying(Statuses)') <= MaxConcurrent
        /\ Cardinality(Flying(snap.targets)') <= MaxConcurrent
    BY <1>1, <2>1, <2>2, <2>3, QuietFacts
  <2>5. RunInv'
    BY <1>1, <2>1 DEF IInv, RunInv, CompletedMeansAll, AllCompleted
  <2>6. LoopInv' /\ FlyingInv' /\ IdleInv'
    BY <1>1, <1>2, <1>4, <2>1, <2>4 DEF IInv, LoopInv, FlyingInv, IdleInv
  <2>7. WakeInv'
    <3>1. loop' = "idling" => todo = {}
      BY <1>1, <1>4, <2>1, EmptyRoom, Limits, FS_EmptySet DEF Room
    <3> QED
      BY <1>1, <2>1, <2>4, <3>1 DEF IInv, WakeInv
  <2> QED
    BY <2>2, <2>4, <2>5, <2>6, <2>7 DEF IInv
<1> QED
  BY <1>3, <1>4

\* The end of a pass that launched nothing.
LEMMA ConcludeStep ==
    ASSUME IInv, Conclude
    PROVE  IInv' /\ CompletedStays
<1>1. CASE loop = "completing" /\ LoopSetsStatus("completed", PassEnds(TRUE) /\ UNCHANGED wake)
  <2>1. CASE ~RunMay("completed")
    BY <1>1, <2>1, IdleMay, LoopDiesStep DEF LoopSetsStatus
  <2>2. CASE RunMay("completed")
    <3>1. AllCompleted(Statuses)
      BY <1>1 DEF IInv, RunInv, SnapInv, AllCompleted, Statuses
    <3>2. /\ status' = "completed" /\ PassEnds(TRUE) /\ wake' = wake
          /\ UNCHANGED <<tasks, entry, att, up, work, op, expired, events>>
      BY <1>1, <2>2 DEF LoopSetsStatus, boundVars
    <3>3. wake' \in BOOLEAN
      BY <3>2 DEF IInv, TypeOK
    <3> QED
      BY <1>1, <2>2, <3>1, <3>2, <3>3, StatusEndsPass
  <2> QED
    BY <2>1, <2>2
<1>2. CASE loop = "idling"
  <2>1. Busy = {} /\ Flying(Statuses) = {}
    BY <1>2 DEF IInv, LoopInv, FlyingInv
  <2>2. ~wake /\ op = NoOp => Startable(Statuses) = {}
    BY <1>2, <2>1 DEF IInv, WakeInv
  <2>3. wake \in BOOLEAN
    BY DEF IInv, TypeOK
  <2>4. CASE LoopSetsStatus("idle", PassEnds(TRUE) /\ UNCHANGED wake)
    <3>1. CASE ~RunMay("idle")
      BY <2>4, <3>1, IdleMay, LoopDiesStep DEF LoopSetsStatus
    <3>2. CASE RunMay("idle")
      <4>1. /\ status' = "idle" /\ PassEnds(TRUE) /\ wake' = wake
            /\ UNCHANGED <<tasks, entry, att, up, work, op, expired, events>>
        BY <2>4, <3>2 DEF LoopSetsStatus, boundVars
      <4> QED
        BY <1>2, <2>1, <2>2, <2>3, <3>2, <4>1, StatusEndsPass
    <3> QED
      BY <3>1, <3>2
  <2>5. CASE PassEnds(TRUE) /\ UNCHANGED <<ledgerVars, up, wake, work, op, boundVars>>
    <3>1. /\ UNCHANGED <<status, tasks, entry, att, up, wake, work, op, expired, events>>
          /\ loop' \in {"off", "wait"} /\ snap' = NoSnap /\ todo' = {} /\ launched' = FALSE
      BY <2>5 DEF ledgerVars, boundVars, PassEnds
    <3>2. TypeOK'
      BY <3>1, SnapTypes DEF IInv, TypeOK, LoopPoints
    <3>3. Quiet
      BY <3>1 DEF Quiet, SameWork
    <3>4. status' = "completed" => AllCompleted(Statuses)
      BY <3>1 DEF IInv, RunInv, CompletedMeansAll, AllCompleted, Statuses
    <3>5. Pending = {}
      BY <1>2, NothingPending
    <3> QED
      BY <1>2, <2>1, <2>2, <2>5, <3>1, <3>2, <3>3, <3>4, <3>5, PassOver
  <2> QED
    BY <1>2, <2>4, <2>5 DEF Conclude
<1>3. CASE loop = "budget" /\ LoopSetsStatus("stopping", loop' = "stopping" /\ UNCHANGED <<passVars, wake>>)
  <2>1. CASE ~RunMay("stopping")
    BY <1>3, <2>1, IdleMay, LoopDiesStep DEF LoopSetsStatus
  <2>2. CASE RunMay("stopping")
    <3>1. /\ status' = "stopping" /\ loop' = "stopping"
          /\ UNCHANGED <<tasks, entry, att, up, snap, todo, launched, wake, work, op, expired, events>>
      BY <1>3, <2>2 DEF LoopSetsStatus, passVars, boundVars
    <3>2. TypeOK'
      BY <3>1, RunTable DEF IInv, TypeOK, LoopPoints
    <3>3. Quiet
      BY <3>1 DEF Quiet, SameWork
    <3>4. Pending = {}
      BY <1>3, NothingPending
    <3>5. /\ CountInv' /\ EntryInv' /\ SnapInv' /\ WorkInv' /\ DependenciesFirst' /\ OpInv'
          /\ Busy' = Busy /\ Pending' = {} /\ CompletedStays
          /\ Flying(Statuses)' = Flying(Statuses)
          /\ Flying(snap.targets)' = Flying(snap.targets)
          /\ Cardinality(Flying(Statuses)') <= MaxConcurrent
          /\ Cardinality(Flying(snap.targets)') <= MaxConcurrent
      BY <3>1, <3>2, <3>3, <3>4, QuietFacts
    <3>6. RunInv' /\ WakeInv'
      BY <3>1 DEF RunInv, CompletedMeansAll, WakeInv
    <3>7. LoopInv' /\ FlyingInv' /\ IdleInv'
      BY <1>3, <3>1, <3>5 DEF IInv, LoopInv, FlyingInv, IdleInv
    <3> QED
      BY <3>2, <3>5, <3>6, <3>7 DEF IInv
  <2> QED
    BY <2>1, <2>2
<1> QED
  BY <1>1, <1>2, <1>3 DEF Conclude

LEMMA DeadlineStep ==
    ASSUME IInv, Deadline
    PROVE  IInv' /\ CompletedStays
<1>1. CASE ~RunMay("stopping")
  BY <1>1, IdleMay, LoopDiesStep DEF Deadline
<1>2. CASE RunMay("stopping")
  <2>1. /\ loop = "deadline" /\ status' = "stopping" /\ PassEnds(FALSE) /\ wake' = TRUE
        /\ work' = [t \in Targets |-> [work[t] EXCEPT !.abort = t \in active]]
        /\ UNCHANGED <<tasks, entry, att, up, op, expired, events>>
    BY <1>2 DEF Deadline, boundVars
  <2>2. SameWork /\ work' \in [Targets -> WorkRecord]
    BY <2>1, AbortWork
  <2>3. loop' \in {"off", "wait"} /\ snap' = NoSnap /\ todo' = {} /\ launched' = FALSE
    BY <2>1 DEF PassEnds
  <2>4. TypeOK'
    BY <2>1, <2>2, <2>3, SnapTypes, RunTable DEF IInv, TypeOK, LoopPoints
  <2>5. Quiet
    BY <2>1, <2>2, <2>3 DEF Quiet
  <2>6. Pending = {}
    BY <2>1, NothingPending
  <2> QED
    BY <2>1, <2>4, <2>5, <2>6, PassOver
<1> QED
  BY <1>1, <1>2
-----------------------------------------------------------------------------
(* Unlocking *)

\* Unlocking makes queued targets eligible whose dependencies are all completed, and
\* changes nothing else.
UnlockKeeps ==
    \A t \in Targets :
        /\ entry'[t].attempts = entry[t].attempts /\ entry'[t].granted = entry[t].granted
        /\ entry'[t].pending = entry[t].pending
        /\ \/ entry'[t].status = entry[t].status
           \/ /\ entry[t].status = "queued" /\ entry'[t].status = "eligible"
              /\ \A d \in DependsOn[t] : entry[d].status = "completed"

LEMMA UnlockedFacts ==
    ASSUME entry \in EntryTable, entry' = Unlocked(entry)
    PROVE  entry' \in EntryTable /\ UnlockKeeps
<1>1. "eligible" \in TargetStatuses
  BY StatusSet
<1>2. ASSUME NEW t \in Targets
      PROVE  /\ [entry[t] EXCEPT !.status = "eligible"] \in EntryRecord
             /\ entry'[t] = IF t \in NewlyUnlocked(Snapshot(status, entry).targets)
                            THEN [entry[t] EXCEPT !.status = "eligible"] ELSE entry[t]
             /\ entry[t] \in EntryRecord
  BY <1>1 DEF EntryTable, EntryRecord, Unlocked
<1>3. entry' \in EntryTable
  BY <1>2 DEF EntryTable, Unlocked
<1>4. ASSUME NEW t \in Targets, t \in NewlyUnlocked(Snapshot(status, entry).targets)
      PROVE  entry[t].status = "queued" /\ \A d \in DependsOn[t] : entry[d].status = "completed"
  BY <1>4, Limits DEF NewlyUnlocked, EligibleTargets, DependenciesCompleted, Snapshot
<1>5. ASSUME NEW t \in Targets
      PROVE  /\ entry'[t].attempts = entry[t].attempts /\ entry'[t].granted = entry[t].granted
             /\ entry'[t].pending = entry[t].pending
             /\ \/ entry'[t].status = entry[t].status
                \/ entry[t].status = "queued" /\ entry'[t].status = "eligible"
                   /\ t \in NewlyUnlocked(Snapshot(status, entry).targets)
  <2>1. CASE t \in NewlyUnlocked(Snapshot(status, entry).targets)
    BY <1>2, <1>4, <2>1 DEF EntryRecord
  <2>2. CASE t \notin NewlyUnlocked(Snapshot(status, entry).targets)
    BY <1>2, <2>2
  <2> QED
    BY <2>1, <2>2
<1> QED
  BY <1>3, <1>4, <1>5 DEF UnlockKeeps

\* Unlocking in a step that changes no attempt.
LEMMA UnlockFacts ==
    ASSUME IInv, UnlockKeeps, UNCHANGED <<status, tasks, att, work, todo>>,
           snap' \in {snap, Snapshot(status, entry')}
    PROVE  /\ CountInv' /\ EntryInv' /\ SnapInv' /\ WorkInv' /\ DependenciesFirst'
           /\ op' = op => OpInv'
           /\ CompletedMeansAll' /\ CompletedStays
           /\ Busy' = Busy /\ Pending' = Pending
           /\ Flying(Statuses)' = Flying(Statuses)
           /\ snap' = snap => Flying(snap.targets)' = Flying(snap.targets)
           /\ snap' = Snapshot(status, entry') =>
                 /\ Flying(snap.targets)' = Flying(Statuses) /\ snap'.status = status'
                 /\ Startable(snap.targets)' = Startable(Statuses)'
           /\ Cardinality(Flying(Statuses)') <= MaxConcurrent
           /\ Cardinality(Flying(snap.targets)') <= MaxConcurrent
<1>1. \A t \in Targets :
        /\ entry'[t].attempts = entry[t].attempts /\ entry'[t].granted = entry[t].granted
        /\ entry'[t].pending = entry[t].pending
        /\ \/ entry'[t].status = entry[t].status
           \/ entry[t].status = "queued" /\ entry'[t].status = "eligible"
  BY DEF UnlockKeeps
<1>2. CountInv'
  BY <1>1, CountKept DEF IInv
<1>3. \A t \in Targets : VerifiedLast(t)' <=> VerifiedLast(t)
  BY <1>1 DEF VerifiedLast
<1>4. EntryInv'
  BY <1>1, <1>3 DEF IInv, EntryInv, InFlight
<1>5. SnapInv'
  <2>1. CASE snap' = snap
    BY <1>1, <2>1 DEF IInv, SnapInv, InFlight
  <2>2. CASE snap' = Snapshot(status, entry')
    BY <1>4, <2>2 DEF EntryInv, SnapInv, Snapshot
  <2> QED
    BY <2>1, <2>2
<1>6. WorkInv'
  <2>1. \A t \in Targets : Attempt(t)' = Attempt(t)
    BY DEF Attempt
  <2> QED
    BY <1>1, <2>1 DEF IInv, WorkInv, InFlight
<1>7. DependenciesFirst'
  <2> SUFFICES ASSUME NEW t \in Targets, entry'[t].status # "queued", NEW d \in DependsOn[t]
               PROVE  entry'[d].status = "completed"
    BY DEF DependenciesFirst
  <2>1. d \in Targets
    BY Limits
  <2>2. entry[d].status = "completed"
    BY DEF IInv, DependenciesFirst, UnlockKeeps
  <2> QED
    BY <1>1, <2>1, <2>2
<1>8. op' = op => OpInv'
  BY <1>1, <1>3 DEF IInv, OpInv
<1>9. CompletedMeansAll' /\ CompletedStays
  BY <1>1 DEF IInv, RunInv, CompletedMeansAll, CompletedStays
<1>10. Busy' = Busy /\ Pending' = Pending
  BY DEF Busy, Pending
<1>11. Flying(Statuses)' = Flying(Statuses)
  BY <1>1 DEF Flying, Statuses, InFlight
<1>12. snap' = snap => Flying(snap.targets)' = Flying(snap.targets)
  BY DEF Flying
<1>13. ASSUME snap' = Snapshot(status, entry')
       PROVE  /\ Flying(snap.targets)' = Flying(Statuses) /\ snap'.status = status'
              /\ Startable(snap.targets)' = Startable(Statuses)'
  <2>1. snap'.targets = Statuses' /\ snap'.status = status
    BY <1>13 DEF Snapshot, Statuses
  <2>2. Flying(snap.targets)' = Flying(Statuses)'
    BY <2>1 DEF Flying
  <2>3. Startable(snap.targets)' = Startable(Statuses)'
    BY <2>1 DEF Startable, EligibleTargets, DependenciesCompleted
  <2> QED
    BY <1>11, <2>1, <2>2, <2>3
<1>14. Cardinality(Flying(Statuses)') <= MaxConcurrent
  BY <1>11 DEF IInv, FlyingInv
<1>15. Cardinality(Flying(snap.targets)') <= MaxConcurrent
  BY <1>12, <1>13 DEF IInv, FlyingInv
<1> QED
  BY <1>2, <1>4, <1>5, <1>6, <1>7, <1>8, <1>9, <1>10, <1>11, <1>12, <1>13, <1>14, <1>15

LEMMA UnlockStep ==
    ASSUME IInv, Unlock
    PROVE  IInv' /\ CompletedStays
<1>1. /\ loop = "unlock" /\ loop' = "select"
      /\ UNCHANGED <<status, tasks, att, up, todo, launched, wake, work, op, expired, events>>
  BY DEF Unlock, boundVars
<1>2. entry \in EntryTable /\ status \in DOMAIN RunTransitions
  BY DEF IInv, TypeOK, EntryTable
<1>3. CASE entry' = entry /\ snap' = snap
  <2>1. TypeOK'
    BY <1>1, <1>3 DEF IInv, TypeOK, LoopPoints
  <2>2. Quiet
    BY <1>1, <1>3 DEF Quiet, SameWork
  <2>3. /\ CountInv' /\ EntryInv' /\ SnapInv' /\ WorkInv' /\ DependenciesFirst' /\ OpInv'
        /\ Busy' = Busy /\ Pending' \subseteq Pending /\ CompletedStays
        /\ Flying(Statuses)' = Flying(Statuses) /\ Startable(Statuses)' = Startable(Statuses)
        /\ Flying(snap.targets)' = Flying(snap.targets)
        /\ Startable(snap.targets)' = Startable(snap.targets)
        /\ Cardinality(Flying(Statuses)') <= MaxConcurrent
        /\ Cardinality(Flying(snap.targets)') <= MaxConcurrent
    BY <1>1, <1>3, <2>1, <2>2, QuietFacts
  <2>4. RunInv' /\ LoopInv'
    BY <1>1, <1>3, <2>3 DEF IInv, RunInv, CompletedMeansAll, LoopInv
  <2>5. FlyingInv' /\ IdleInv' /\ WakeInv'
    BY <1>1, <1>3, <2>3 DEF IInv, FlyingInv, IdleInv, WakeInv
  <2> QED
    BY <2>1, <2>3, <2>4, <2>5 DEF IInv
<1>4. CASE entry' = Unlocked(entry) /\ snap' = Snapshot(status, entry')
  <2>1. entry' \in EntryTable /\ UnlockKeeps
    BY <1>2, <1>4, UnlockedFacts
  <2>2. TypeOK'
    BY <1>1, <1>2, <1>4, <2>1, SnapTypes DEF IInv, TypeOK, EntryTable, LoopPoints
  <2>3. /\ CountInv' /\ EntryInv' /\ SnapInv' /\ WorkInv' /\ DependenciesFirst' /\ OpInv'
        /\ CompletedMeansAll' /\ CompletedStays
        /\ Busy' = Busy /\ Pending' = Pending
        /\ Flying(Statuses)' = Flying(Statuses)
        /\ Flying(snap.targets)' = Flying(Statuses) /\ snap'.status = status'
        /\ Startable(snap.targets)' = Startable(Statuses)'
        /\ Cardinality(Flying(Statuses)') <= MaxConcurrent
        /\ Cardinality(Flying(snap.targets)') <= MaxConcurrent
    BY <1>1, <1>4, <2>1, UnlockFacts
  <2>4. RunInv' /\ LoopInv'
    BY <1>1, <2>3 DEF IInv, RunInv, LoopInv
  <2>5. FlyingInv' /\ IdleInv' /\ WakeInv'
    BY <1>1, <2>3 DEF IInv, FlyingInv, IdleInv, WakeInv
  <2> QED
    BY <2>2, <2>3, <2>4, <2>5 DEF IInv
<1> QED
  BY <1>3, <1>4 DEF Unlock

\* The end of startRun unlocks too.
LEMMA CommitUnlockStep ==
    ASSUME IInv, CommitUnlock
    PROVE  IInv' /\ CompletedStays
<1>1. /\ op.kind = "unlock" /\ entry' = Unlocked(entry) /\ op' = NoOp /\ wake' = TRUE
      /\ UNCHANGED <<status, tasks, att, up, loop, snap, todo, launched, work, expired, events>>
  BY DEF CommitUnlock, CallEnds, CallLeaves, passVars, boundVars
<1>2. entry \in EntryTable
  BY DEF IInv, TypeOK, EntryTable
<1>3. entry' \in EntryTable /\ UnlockKeeps
  BY <1>1, <1>2, UnlockedFacts
<1>4. NoOp \in CallRecord
  BY DEF NoOp, CallRecord
<1>5. TypeOK'
  BY <1>1, <1>3, <1>4 DEF IInv, TypeOK, EntryTable
<1>6. /\ CountInv' /\ EntryInv' /\ SnapInv' /\ WorkInv' /\ DependenciesFirst'
      /\ CompletedMeansAll' /\ CompletedStays
      /\ Busy' = Busy /\ Pending' = Pending
      /\ Flying(Statuses)' = Flying(Statuses) /\ Flying(snap.targets)' = Flying(snap.targets)
      /\ Cardinality(Flying(Statuses)') <= MaxConcurrent
      /\ Cardinality(Flying(snap.targets)') <= MaxConcurrent
  BY <1>1, <1>3, UnlockFacts
<1>7. OpInv' /\ WakeInv'
  BY <1>1 DEF OpInv, NoOp, WakeInv
<1>8. RunInv'
  BY <1>1, <1>6 DEF IInv, RunInv, AllCompleted
<1>9. LoopInv'
  BY <1>1, <1>6 DEF IInv, LoopInv, NoOp
<1>10. FlyingInv' /\ IdleInv'
  BY <1>1, <1>6 DEF IInv, FlyingInv, IdleInv
<1> QED
  BY <1>5, <1>6, <1>7, <1>8, <1>9, <1>10 DEF IInv
-----------------------------------------------------------------------------
(* Launching *)

\* A driver that runs nothing has room for everything the pass found in flight, and
\* resumes all of it.
LEMMA ResumesAll ==
    ASSUME IInv, active = {}, NEW S,
           Resumed(S, {t \in Targets \ active : snap.targets[t] \in InFlight})
    PROVE  S = Flying(snap.targets)
<1> DEFINE R == Flying(snap.targets)
<1>1. {t \in Targets \ active : snap.targets[t] \in InFlight} = R
  BY DEF Flying
<1>2. IsFiniteSet(R) /\ Cardinality(R) \in Nat /\ Cardinality(R) <= MaxConcurrent
  <2>1. R \in SUBSET Targets
    BY DEF Flying
  <2> QED
    BY <2>1, Limits, FS_Subset, FS_CardinalityType DEF IInv, FlyingInv
<1>3. Room = MaxConcurrent
  BY Limits, FS_EmptySet DEF Room
<1>4. Max({Room, 0}) = MaxConcurrent
  <2>1. MaxConcurrent \in {Room, 0} /\ \A y \in {Room, 0} : MaxConcurrent >= y
    BY <1>3, Limits
  <2>2. \A x \in {Room, 0} : (\A y \in {Room, 0} : x >= y) => x = MaxConcurrent
    BY <1>3, Limits
  <2> QED
    BY <2>1, <2>2 DEF Max
<1>5. Min({Cardinality(R), MaxConcurrent}) = Cardinality(R)
  <2> DEFINE c == Cardinality(R)
  <2> HIDE DEF c
  <2>1. c \in Nat /\ c <= MaxConcurrent
    BY <1>2 DEF c
  <2>2. c \in {c, MaxConcurrent} /\ \A y \in {c, MaxConcurrent} : c =< y
    BY <2>1, Limits
  <2>3. \A x \in {c, MaxConcurrent} : (\A y \in {c, MaxConcurrent} : x =< y) => x = c
    BY <2>1, Limits
  <2>4. Min({c, MaxConcurrent}) = c
    BY <2>2, <2>3 DEF Min
  <2> QED
    BY <2>4 DEF c
<1>6. S \subseteq R /\ Cardinality(S) = Cardinality(R)
  BY <1>1, <1>4, <1>5 DEF Resumed
<1> QED
  BY <1>2, <1>6, FS_Subset

\* A launched attempt is the last one of its target.
LEMMA LaunchedFacts ==
    ASSUME IInv, NEW S \in SUBSET Targets, \A t \in S : entry[t].attempts > 0, work' = Launched(S)
    PROVE  /\ work' \in [Targets -> WorkRecord]
           /\ \A t \in Targets \ S : work'[t] = work[t]
           /\ \A t \in S : work'[t].pc = "plan" /\ work'[t].n = entry[t].attempts
           /\ Busy' = Busy \cup S /\ Pending' = Pending \ S
<1>1. work \in [Targets -> WorkRecord] /\ entry \in [Targets -> EntryRecord]
  BY DEF IInv, TypeOK
<1>2. \A t \in Targets : [pc |-> "plan", n |-> entry[t].attempts, abort |-> FALSE] \in WorkRecord
  BY <1>1 DEF EntryRecord, WorkRecord, Points
<1>3. /\ work' \in [Targets -> WorkRecord]
      /\ \A t \in Targets \ S : work'[t] = work[t]
      /\ \A t \in S : work'[t].pc = "plan" /\ work'[t].n = entry[t].attempts
  BY <1>1, <1>2 DEF Launched
<1>4. Busy' = Busy \cup S /\ Pending' = Pending \ S
  BY <1>3 DEF Busy, Pending
<1> QED
  BY <1>3, <1>4

\* What a launch leaves of the attempts under way.
LEMMA LaunchKeepsWork ==
    ASSUME IInv, NEW S \in SUBSET Targets, work' = Launched(S), UNCHANGED <<entry, att>>,
           \A t \in S : entry[t].attempts > 0 /\ entry[t].status # "queued",
           todo' \cap (Busy \cup S) = {}
    PROVE  WorkInv'
<1> SUFFICES ASSUME NEW t \in Targets, work'[t].pc # "none"
             PROVE  /\ entry'[t].status # "queued" /\ t \notin todo'
                    /\ work'[t].n = entry'[t].attempts /\ work'[t].n > 0
                    /\ work'[t].pc = "executing" => Attempt(t)'.exec = "in_flight"
                    /\ work'[t].pc \in Executed3 => Attempt(t)'.exec = "ok"
                    /\ work'[t].pc = "verifying" => Attempt(t)'.verify = "in_flight"
                    /\ work'[t].pc \in Verified3 => Attempt(t)'.verify = "ok"
                    /\ work'[t].pc \in {"asked", "diagnose", "done"} => entry'[t].status \notin InFlight
  BY DEF WorkInv
<1>1. CASE t \in S
  BY <1>1, LaunchedFacts DEF Executed3, Verified3
<1>2. CASE t \notin S
  <2>1. work'[t] = work[t]
    BY <1>2, LaunchedFacts
  <2>2. Attempt(t)' = Attempt(t) /\ t \in Busy
    BY <2>1 DEF Attempt, Busy
  <2> QED
    BY <2>1, <2>2 DEF IInv, WorkInv
<1> QED
  BY <1>1, <1>2

\* SELECT_TARGET on what the pass has read.
LEMMA SelectStep ==
    ASSUME IInv, Select
    PROVE  IInv' /\ CompletedStays
<1>1. /\ loop = "select"
      /\ UNCHANGED <<status, tasks, entry, att, up, snap, wake, op, expired, events>>
  BY DEF Select, ledgerVars, boundVars
<1>2. Pending = {} /\ Busy = active
  BY <1>1, NothingPending
<1>3. CASE expired
  <2>1. loop' = "deadline" /\ UNCHANGED <<todo, launched, work>>
    BY <1>3 DEF Select
  <2>2. TypeOK'
    BY <1>1, <2>1 DEF IInv, TypeOK, LoopPoints
  <2>3. Quiet
    BY <1>1, <2>1 DEF Quiet, SameWork
  <2>4. /\ CountInv' /\ EntryInv' /\ SnapInv' /\ WorkInv' /\ DependenciesFirst' /\ OpInv'
        /\ Busy' = Busy /\ Pending' = {} /\ CompletedStays
        /\ Flying(Statuses)' = Flying(Statuses)
        /\ Flying(snap.targets)' = Flying(snap.targets)
        /\ Cardinality(Flying(Statuses)') <= MaxConcurrent
        /\ Cardinality(Flying(snap.targets)') <= MaxConcurrent
    BY <1>1, <1>2, <2>2, <2>3, QuietFacts
  <2>5. RunInv' /\ LoopInv'
    BY <1>1, <2>1, <2>4 DEF IInv, RunInv, CompletedMeansAll, LoopInv
  <2>6. FlyingInv' /\ IdleInv' /\ WakeInv'
    BY <1>1, <2>1, <2>4 DEF IInv, FlyingInv, IdleInv, WakeInv
  <2> QED
    BY <2>2, <2>4, <2>5, <2>6 DEF IInv
<1>4. CASE ~expired
  <2>1. PICK S \in SUBSET Targets :
           /\ Resumed(S, {t \in Targets \ active : snap.targets[t] \in InFlight})
           /\ work' = Launched(S) /\ launched' = (S # {})
    BY <1>4 DEF Select
  <2>2. /\ loop' = "launch"
        /\ todo' = {t \in Targets \ active : \/ snap.targets[t] = "repairing"
                                             \/ t \in EligibleTargets(snap.targets)}
    BY <1>4 DEF Select
  <2>3. S \subseteq Flying(snap.targets)
    BY <2>1 DEF Resumed, Flying
  <2>4. \A t \in S : entry[t].attempts > 0 /\ entry[t].status # "queued"
    BY <2>3 DEF Flying, IInv, SnapInv, InFlight
  <2>5. todo' \cap (Busy \cup S) = {}
    BY <1>2, <2>2, <2>3 DEF Flying, InFlight, EligibleTargets
  <2>6. WorkInv'
    BY <1>1, <2>1, <2>4, <2>5, LaunchKeepsWork
  <2>7. work' \in [Targets -> WorkRecord] /\ Busy' = Busy \cup S /\ Pending' = {}
    BY <1>2, <2>1, <2>4, LaunchedFacts
  <2>8. TypeOK'
    BY <1>1, <2>1, <2>2, <2>7 DEF IInv, TypeOK, LoopPoints
  <2>9. CountInv'
    BY <1>1, CountKept DEF IInv
  <2>10. EntryInv' /\ SnapInv' /\ OpInv' /\ DependenciesFirst' /\ CompletedStays
    BY <1>1 DEF IInv, EntryInv, SnapInv, OpInv, DependenciesFirst, VerifiedLast, CompletedStays
  <2>11. RunInv' /\ LoopInv'
    BY <1>1, <2>2, <2>7 DEF IInv, RunInv, CompletedMeansAll, LoopInv
  <2>12. Flying(Statuses)' = Flying(Statuses) /\ Flying(snap.targets)' = Flying(snap.targets)
    BY <1>1 DEF Flying, Statuses
  <2>13. Flying(Statuses) \subseteq Busy \cup S
    <3>1. CASE Flying(Statuses) \subseteq Busy
      BY <3>1
    <3>2. CASE Busy = {} /\ Flying(Statuses) \subseteq Flying(snap.targets)
      BY <1>2, <2>1, <3>2, ResumesAll
    <3> QED
      BY <1>1, <3>1, <3>2 DEF IInv, FlyingInv
  <2>14. FlyingInv'
    BY <2>7, <2>12, <2>13 DEF IInv, FlyingInv
  <2>15. IdleInv'
    <3>1. status = "idle" => S = {}
      BY <1>1, <2>3 DEF IInv, IdleInv
    <3> QED
      BY <1>1, <2>7, <2>12, <3>1 DEF IInv, IdleInv
  <2>16. WakeInv'
    <3>1. Startable(Statuses)' = Startable(Statuses)
      BY <1>1 DEF Startable, Statuses, EligibleTargets, DependenciesCompleted
    <3>2. Busy' = {} => Startable(snap.targets) \subseteq todo'
      BY <1>2, <2>2, <2>7 DEF Startable, EligibleTargets
    <3> QED
      BY <1>1, <2>2, <2>7, <3>1, <3>2 DEF IInv, WakeInv
  <2> QED
    BY <2>6, <2>8, <2>9, <2>10, <2>11, <2>14, <2>15, <2>16 DEF IInv
<1> QED
  BY <1>3, <1>4

\* The committed attempt is launched.
LEMMA LaunchStep ==
    ASSUME IInv, Launch
    PROVE  IInv' /\ CompletedStays
<1>1. /\ loop = "launch" /\ Pending # {} /\ work' = Launched(Pending) /\ launched' = TRUE
      /\ UNCHANGED <<status, tasks, entry, att, up, loop, snap, todo, wake, op, expired, events>>
  BY DEF Launch, ledgerVars, boundVars
<1>2. Pending \in SUBSET Targets /\ Pending \subseteq Busy
  BY DEF Pending, Busy
<1>3. \A t \in Pending : work[t].n = entry[t].attempts /\ entry[t].attempts > 0 /\ entry[t].status # "queued"
  BY DEF Pending, IInv, WorkInv
<1>4. /\ work' \in [Targets -> WorkRecord] /\ Busy' = Busy
      /\ \A t \in Targets \ Pending : work'[t] = work[t]
      /\ \A t \in Pending : work'[t].pc = "plan" /\ work'[t].n = entry[t].attempts
  BY <1>1, <1>2, <1>3, LaunchedFacts
<1>5. SameWork
  BY <1>3, <1>4 DEF SameWork, Pending
<1>6. TypeOK'
  BY <1>1, <1>4 DEF IInv, TypeOK
<1>7. Quiet
  BY <1>1, <1>5 DEF Quiet
<1>8. /\ CountInv' /\ EntryInv' /\ SnapInv' /\ WorkInv' /\ DependenciesFirst' /\ OpInv'
      /\ Pending' \subseteq Pending /\ CompletedStays
      /\ Flying(Statuses)' = Flying(Statuses)
      /\ Flying(snap.targets)' = Flying(snap.targets)
      /\ Cardinality(Flying(Statuses)') <= MaxConcurrent
      /\ Cardinality(Flying(snap.targets)') <= MaxConcurrent
  BY <1>1, <1>6, <1>7, QuietFacts
<1>9. RunInv' /\ LoopInv'
  BY <1>1, <1>4, <1>8 DEF IInv, RunInv, CompletedMeansAll, LoopInv
<1>10. FlyingInv' /\ IdleInv' /\ WakeInv'
  BY <1>1, <1>2, <1>4, <1>8 DEF IInv, FlyingInv, IdleInv, WakeInv
<1> QED
  BY <1>6, <1>8, <1>9, <1>10 DEF IInv
-----------------------------------------------------------------------------
(* Starting an attempt *)

\* No target has more attempts than were started in all.
LEMMA AttemptsCounted ==
    ASSUME IInv, NEW t \in Targets
    PROVE  entry[t].attempts <= tasks
<1> DEFINE n == entry[t].attempts
           A == {t} \X (1..n)
<1>1. n \in Nat
  BY DEF IInv, TypeOK, EntryRecord
<1> HIDE DEF n
<1>2. IsFiniteSet(1..n) /\ Cardinality(1..n) = n
  <2>1. IsFiniteSet(1..n) /\ Cardinality(1..n) = IF 1 > n THEN 0 ELSE n - 1 + 1
    BY <1>1, FS_Interval
  <2> QED
    BY <1>1, <2>1
<1>3. IsFiniteSet({t}) /\ Cardinality({t}) = 1
  BY FS_Singleton
<1>4. Cardinality(A) = 1 * n
  BY <1>2, <1>3, FS_Product
<1>5. A \subseteq StartedAttempts
  BY DEF StartedAttempts, n
<1>6. Cardinality(A) <= Cardinality(StartedAttempts) /\ tasks = Cardinality(StartedAttempts)
  BY <1>5, FS_Subset DEF IInv, CountInv
<1> QED
  BY <1>1, <1>4, <1>6 DEF n

\* The set of started attempts gains the new one.
LEMMA StartedGrows ==
    ASSUME NEW t \in Targets, entry[t].attempts \in Nat, entry'[t].attempts = entry[t].attempts + 1,
           \A u \in Targets \ {t} : entry'[u].attempts = entry[u].attempts
    PROVE  /\ StartedAttempts' = StartedAttempts \cup {<<t, entry[t].attempts + 1>>}
           /\ <<t, entry[t].attempts + 1>> \notin StartedAttempts
<1> DEFINE n == entry[t].attempts
           B == UNION {{u} \X (1..entry[u].attempts) : u \in Targets \ {t}}
<1>1. StartedAttempts = B \cup ({t} \X (1..n))
  BY DEF StartedAttempts
<1>2. StartedAttempts' = B \cup ({t} \X (1..(n + 1)))
  BY DEF StartedAttempts
<1>3. {t} \X (1..(n + 1)) = ({t} \X (1..n)) \cup {<<t, n + 1>>}
  <2>1. 1..(n + 1) = (1..n) \cup {n + 1}
    OBVIOUS
  <2> QED
    BY <2>1
<1>4. <<t, n + 1>> \notin B /\ <<t, n + 1>> \notin {t} \X (1..n)
  OBVIOUS
<1> HIDE DEF B, n
<1> QED
  BY <1>1, <1>2, <1>3, <1>4 DEF n

\* The attempt becomes active and is counted in the same commit.
LEMMA CommitsAttempt ==
    ASSUME IInv, NEW t \in Targets, StartAttempt(t), ~LoopDies
    PROVE  IInv' /\ CompletedStays
<1> DEFINE n == IF Reuses(t) THEN entry[t].attempts ELSE entry[t].attempts + 1
<1>1. /\ loop = "launch" /\ Pending = {} /\ Room > 0 /\ ~BudgetBlocked /\ todo # {}
      /\ snap.status # "idle" /\ t \in todo
      /\ CanTransition(entry[t].status, "active")
      /\ entry' = [entry EXCEPT ![t].status = "active", ![t].attempts = n]
      /\ work' = [work EXCEPT ![t] = [pc |-> "committed", n |-> n, abort |-> FALSE]]
      /\ tasks' = tasks + NewTask(t)
      /\ todo' = todo \ {t}
      /\ snap' = Snapshot(status, entry')
      /\ UNCHANGED <<status, att, up, loop, launched, wake, op, expired, events>>
  BY DEF StartAttempt, TakesFresh, boundVars
<1>2. /\ entry \in [Targets -> EntryRecord] /\ work \in [Targets -> WorkRecord]
      /\ tasks \in 0..MaxTasks /\ entry[t] \in EntryRecord /\ MaxTasks \in Nat
      /\ status \in DOMAIN RunTransitions
  BY Limits DEF IInv, TypeOK
<1>3. entry[t].status \in {"eligible", "repairing"} /\ entry[t].attempts \in Nat
  BY <1>1, <1>2, MayMove DEF EntryRecord
<1>4. work[t].pc = "none"
  BY <1>1 DEF IInv, WorkInv
<1>5. tasks < MaxTasks
  BY <1>1, <1>2 DEF BudgetBlocked, TakesFresh
<1>6. n \in 0..MaxTasks /\ n > 0 /\ n >= entry[t].attempts
  <2>1. CASE Reuses(t)
    <3>1. n = entry[t].attempts /\ n > 0
      BY <2>1 DEF Reuses
    <3> QED
      BY <1>2, <3>1 DEF EntryRecord
  <2>2. CASE ~Reuses(t)
    <3>1. n = entry[t].attempts + 1 /\ entry[t].attempts <= tasks
      BY <2>2, AttemptsCounted
    <3> QED
      BY <1>2, <1>3, <1>5, <3>1
  <2> QED
    BY <2>1, <2>2
<1>7. \/ n = entry[t].attempts /\ tasks' = tasks
      \/ n = entry[t].attempts + 1 /\ tasks' = tasks + 1
  BY <1>1, <1>2 DEF NewTask
<1> HIDE DEF n
<1>8. /\ entry' \in [Targets -> EntryRecord]
      /\ \A u \in Targets \ {t} : entry'[u] = entry[u]
      /\ entry'[t].status = "active" /\ entry'[t].attempts = n
      /\ entry'[t].granted = entry[t].granted /\ entry'[t].pending = entry[t].pending
  <2>1. "active" \in TargetStatuses
    BY StatusSet
  <2> QED
    BY <1>1, <1>2, <1>6, <2>1 DEF EntryRecord
<1>9. /\ work' \in [Targets -> WorkRecord]
      /\ \A u \in Targets \ {t} : work'[u] = work[u]
      /\ work'[t].pc = "committed" /\ work'[t].n = n
  BY <1>1, <1>2, <1>6 DEF WorkRecord, Points
<1>10. TypeOK'
  <2>1. tasks' \in 0..MaxTasks
    BY <1>2, <1>5, <1>7
  <2>2. snap' \in [status : DOMAIN RunTransitions, targets : [Targets -> TargetStatuses]]
    BY <1>1, <1>2, <1>8, SnapTypes DEF EntryTable
  <2>3. todo' \subseteq Targets
    BY <1>1 DEF IInv, TypeOK
  <2> QED
    BY <1>1, <1>8, <1>9, <2>1, <2>2, <2>3 DEF IInv, TypeOK
<1>11. CountInv'
  <2>1. CASE n = entry[t].attempts /\ tasks' = tasks
    BY <1>8, <2>1, CountKept DEF IInv
  <2>2. CASE n = entry[t].attempts + 1 /\ tasks' = tasks + 1
    <3> DEFINE x == <<t, entry[t].attempts + 1>>
    <3>1. StartedAttempts' = StartedAttempts \cup {x} /\ x \notin StartedAttempts
      BY <1>3, <1>8, <2>2, StartedGrows
    <3>2. IsFiniteSet(StartedAttempts) /\ tasks = Cardinality(StartedAttempts)
      BY DEF IInv, CountInv
    <3> HIDE DEF x
    <3>3. IsFiniteSet(StartedAttempts \cup {x}) /\ Cardinality(StartedAttempts \cup {x}) = tasks + 1
      BY <3>1, <3>2, FS_AddElement
    <3>4. tasks' = Cardinality(StartedAttempts)'
      BY <2>2, <3>1, <3>3
    <3> QED
      BY <3>1, <3>3, <3>4 DEF CountInv
  <2> QED
    BY <1>7, <2>1, <2>2
<1>12. \A u \in Targets \ {t} : VerifiedLast(u)' <=> VerifiedLast(u)
  BY <1>1, <1>8 DEF VerifiedLast
<1>13. CompletedStays
  BY <1>3, <1>8 DEF CompletedStays
<1>14. EntryInv'
  <2>1. entry'[t].pending = "none"
    BY <1>3, <1>8 DEF IInv, EntryInv
  <2>2. \A m \in 1..MaxTasks : att[t][m].commit # "ok"
    BY <1>3 DEF IInv, EntryInv
  <2> QED
    BY <1>1, <1>6, <1>8, <1>12, <2>1, <2>2 DEF IInv, EntryInv
<1>15. SnapInv'
  BY <1>1, <1>14 DEF SnapInv, Snapshot, EntryInv
<1>16. WorkInv'
  <2>1. \A u \in Targets \ {t} : Attempt(u)' = Attempt(u)
    BY <1>1, <1>9 DEF Attempt
  <2>2. ASSUME NEW u \in Targets \ {t}, work'[u].pc # "none"
        PROVE  entry'[u] = entry[u] /\ work'[u] = work[u] /\ Attempt(u)' = Attempt(u) /\ u \notin todo
    BY <1>8, <1>9, <2>1, <2>2 DEF IInv, WorkInv
  <2>3. t \notin todo'
    BY <1>1
  <2> QED
    BY <1>1, <1>6, <1>8, <1>9, <2>2, <2>3 DEF IInv, WorkInv, Executed3, Verified3
<1>17. OpInv'
  <2>1. \A u \in Targets : entry[u].attempts > 0 => entry'[u].attempts > 0
    BY <1>6, <1>8
  <2>2. \A u \in Targets : entry[u].status # "queued" => entry'[u].status # "queued"
    BY <1>8
  <2>3. op.kind \in {"grant", "complete"} => op.target # t
    BY <1>3 DEF IInv, OpInv
  <2>4. op.kind \in {"retry", "deny", "approve", "grant", "complete"} => op.target \in Targets
    BY DEF IInv, OpInv
  <2> QED
    BY <1>1, <1>8, <1>12, <2>1, <2>2, <2>3, <2>4 DEF IInv, OpInv
<1>18. RunInv'
  <2>1. status # "completed"
    BY <1>3 DEF IInv, RunInv, CompletedMeansAll
  <2> QED
    BY <1>1, <2>1 DEF RunInv, CompletedMeansAll
<1>19. DependenciesFirst'
  BY <1>3, <1>8, Limits DEF IInv, DependenciesFirst
<1>20. Busy' = Busy \cup {t} /\ t \notin Busy /\ Busy = active
  <2>1. Busy' = Busy \cup {t} /\ t \notin Busy
    BY <1>4, <1>9 DEF Busy
  <2> QED
    BY <1>1, <2>1, BusyActive
<1>21. LoopInv'
  BY <1>1, <1>20 DEF IInv, LoopInv
<1>22. Flying(Statuses)' \subseteq Busy' /\ Flying(snap.targets)' = Flying(Statuses)'
  <2>1. Flying(Statuses) \subseteq Busy
    BY <1>1 DEF IInv, FlyingInv
  <2>2. Flying(Statuses)' \subseteq Flying(Statuses) \cup {t}
    BY <1>8 DEF Flying, Statuses
  <2>3. Flying(snap.targets)' = Flying(Statuses)'
    BY <1>1 DEF Flying, Statuses, Snapshot
  <2> QED
    BY <1>20, <2>1, <2>2, <2>3
<1>23. FlyingInv'
  <2>1. active \in SUBSET Targets /\ Busy' \in SUBSET Targets
    BY <1>20 DEF active
  <2>2. IsFiniteSet(active) /\ Cardinality(active) \in Nat
    BY <2>1, Limits, FS_Subset, FS_CardinalityType
  <2>3. Cardinality(active \cup {t}) = Cardinality(active) + 1
    BY <1>20, <2>2, FS_AddElement
  <2>4. Cardinality(Busy') <= MaxConcurrent
    BY <1>1, <1>20, <2>2, <2>3, Limits DEF Room
  <2>5. Cardinality(Flying(Statuses)') <= MaxConcurrent
    BY <1>22, <2>1, <2>4, FlyingFewer
  <2>6. Cardinality(Flying(snap.targets)') <= MaxConcurrent
    BY <1>22, <2>5
  <2> QED
    BY <1>22, <2>5, <2>6 DEF FlyingInv
<1>24. IdleInv'
  <2>1. status # "idle"
    BY <1>1 DEF IInv, IdleInv
  <2> QED
    BY <1>1, <2>1 DEF IdleInv, Snapshot
<1>25. WakeInv'
  BY <1>20 DEF WakeInv
<1> QED
  BY <1>10, <1>11, <1>13, <1>14, <1>15, <1>16, <1>17, <1>18, <1>19, <1>21, <1>23, <1>24, <1>25 DEF IInv

LEMMA StartAttemptStep ==
    ASSUME IInv, NEW t \in Targets, StartAttempt(t)
    PROVE  IInv' /\ CompletedStays
<1>1. status # "idle"
  BY DEF StartAttempt, IInv, IdleInv
<1> QED
  BY <1>1, LoopDiesStep, CommitsAttempt
-----------------------------------------------------------------------------
(* The operator's calls *)

\* What an operator's call may ask for.
Asks(call) ==
    /\ OperatorCalls(call)
    /\ call.kind # "none"
    /\ call.kind = "status" => call.to \in {"running", "pausing", "paused", "stopping", "stopped"}
    /\ call.kind \notin {"start", "complete"}
    /\ call.kind \in {"retry", "deny", "approve", "grant"} =>
          call.target \in Targets /\ entry[call.target].status # "queued"
    /\ call.kind \in {"deny", "approve", "grant"} => entry[call.target].attempts > 0
    /\ call.kind = "grant" => /\ entry[call.target].status = "needs_approval"
                              /\ VerifiedLast(call.target)
    /\ work' \in {work, [t \in Targets |-> [work[t] EXCEPT !.abort = t \in active]]}

LEMMA CallKinds ==
    ASSUME IInv, OperatorNext
    PROVE  \E call \in CallRecord : Asks(call)
<1>1. ASSUME NEW to \in {"running", "pausing", "paused", "stopping", "stopped"}, OperatorCalls(ToStatus(to)),
             work' \in {work, [t \in Targets |-> [work[t] EXCEPT !.abort = t \in active]]}
      PROVE  \E call \in CallRecord : Asks(call)
  <2>1. ToStatus(to) \in CallRecord
    BY RunTable DEF ToStatus, CallRecord
  <2>2. Asks(ToStatus(to))
    BY <1>1 DEF ToStatus, Asks
  <2> QED
    BY <2>1, <2>2
<1>2. ASSUME NEW t \in Targets, NEW kind \in {"retry", "deny", "approve", "grant"},
             OperatorCalls(OnTarget(kind, t)), work' = work, entry[t].status # "queued",
             kind # "retry" => entry[t].attempts > 0,
             kind = "grant" => entry[t].status = "needs_approval" /\ VerifiedLast(t)
      PROVE  \E call \in CallRecord : Asks(call)
  <2>1. OnTarget(kind, t) \in CallRecord
    BY DEF OnTarget, CallRecord
  <2>2. Asks(OnTarget(kind, t))
    BY <1>2 DEF OnTarget, Asks
  <2> QED
    BY <2>1, <2>2
<1>3. CASE Pause \/ Resume \/ Stop \/ RunEligible
  <2>1. CASE Pause
    BY <1>1, <2>1 DEF Pause
  <2>2. CASE Resume
    BY <1>1, <2>2 DEF Resume
  <2>3. CASE Stop
    BY <1>1, <2>3 DEF Stop
  <2>4. CASE RunEligible
    BY <1>1, <2>4 DEF RunEligible
  <2> QED
    BY <1>3, <2>1, <2>2, <2>3, <2>4
<1>4. ASSUME NEW t \in Targets, RetryTarget(t)
      PROVE  \E call \in CallRecord : Asks(call)
  BY <1>2, <1>4 DEF RetryTarget
<1>5. ASSUME NEW t \in Targets, ResolveApproval(t)
      PROVE  \E call \in CallRecord : Asks(call)
  <2>1. PICK kind \in {"deny", IF entry[t].pending = "execute" THEN "approve" ELSE "grant"} :
           OperatorCalls(OnTarget(kind, t))
    BY <1>5 DEF ResolveApproval
  <2>2. entry[t].status = "needs_approval" /\ entry[t].pending # "none" /\ work' = work
    BY <1>5 DEF ResolveApproval
  <2>3. entry[t].pending \in Kinds
    BY <2>2 DEF IInv, TypeOK, EntryRecord
  <2>4. entry[t].attempts > 0 /\ (entry[t].pending = "complete" => VerifiedLast(t))
    BY <2>2 DEF IInv, EntryInv
  <2>5. kind = "grant" => VerifiedLast(t)
    BY <2>3, <2>4 DEF Kinds
  <2> QED
    BY <1>2, <2>1, <2>2, <2>4, <2>5
<1> QED
  BY <1>3, <1>4, <1>5 DEF OperatorNext

\* A call begins: a driver is started for it if there is none.
LEMMA OperatorStep ==
    ASSUME IInv, OperatorNext
    PROVE  IInv' /\ CompletedStays
<1>0. PICK call \in CallRecord : Asks(call)
  BY CallKinds
<1>1. /\ OperatorCalls(call) /\ call.kind # "none"
      /\ call.kind = "status" => call.to \in {"running", "pausing", "paused", "stopping", "stopped"}
      /\ call.kind \notin {"start", "complete"}
      /\ call.kind \in {"retry", "deny", "approve", "grant"} =>
            call.target \in Targets /\ entry[call.target].status # "queued"
      /\ call.kind \in {"deny", "approve", "grant"} => entry[call.target].attempts > 0
      /\ call.kind = "grant" => /\ entry[call.target].status = "needs_approval"
                                /\ VerifiedLast(call.target)
      /\ work' \in {work, [t \in Targets |-> [work[t] EXCEPT !.abort = t \in active]]}
  BY <1>0 DEF Asks
<1>2. /\ up /\ events < MaxEvents /\ events' = events + 1 /\ op' = call
      /\ loop' = (IF loop = "off" THEN "wait" ELSE loop) /\ wake' = (wake \/ loop = "off")
      /\ UNCHANGED <<status, tasks, entry, att, up, snap, todo, launched, expired>>
  BY <1>1 DEF OperatorCalls, ledgerVars, passVars
<1>3. SameWork /\ work' \in [Targets -> WorkRecord]
  BY <1>1, AbortWork
<1>4. events' \in 0..MaxEvents
  <2>1. events \in 0..MaxEvents
    BY DEF IInv, TypeOK
  <2> QED
    BY <1>2, <2>1, Limits
<1>5. TypeOK'
  <2>1. wake \in BOOLEAN /\ loop \in LoopPoints
    BY DEF IInv, TypeOK
  <2>2. wake' \in BOOLEAN /\ loop' \in LoopPoints
    BY <1>2, <2>1 DEF LoopPoints
  <2> QED
    BY <1>1, <1>2, <1>3, <1>4, <2>2 DEF IInv, TypeOK
<1>6. Quiet
  BY <1>2, <1>3 DEF Quiet
<1>7. /\ CountInv' /\ EntryInv' /\ SnapInv' /\ WorkInv' /\ DependenciesFirst'
      /\ Busy' = Busy /\ Pending' \subseteq Pending /\ CompletedStays
      /\ Flying(Statuses)' = Flying(Statuses)
      /\ Flying(snap.targets)' = Flying(snap.targets)
      /\ Cardinality(Flying(Statuses)') <= MaxConcurrent
      /\ Cardinality(Flying(snap.targets)') <= MaxConcurrent
      /\ \A t \in Targets : VerifiedLast(t)' <=> VerifiedLast(t)
  BY <1>2, <1>5, <1>6, QuietFacts
<1>8. OpInv'
  BY <1>1, <1>2, <1>7 DEF OpInv
<1>9. RunInv'
  BY <1>2 DEF IInv, RunInv, CompletedMeansAll, AllCompleted
<1>10. LoopInv'
  BY <1>2, <1>7 DEF IInv, LoopInv
<1>11. FlyingInv' /\ IdleInv'
  BY <1>2, <1>7 DEF IInv, FlyingInv, IdleInv
<1>12. WakeInv'
  BY <1>1, <1>2 DEF WakeInv, NoOp
<1> QED
  BY <1>5, <1>7, <1>8, <1>9, <1>10, <1>11, <1>12 DEF IInv

\* A call that goes on or ends.
LEMMA CallStepTypes ==
    ASSUME IInv, CallEnds \/ \E kind \in {"unlock", "after", "complete"} : CallGoesOn(kind)
    PROVE  /\ op' \in CallRecord /\ wake' \in BOOLEAN
           /\ wake' = TRUE \/ op'.kind # "none"
           /\ op'.kind \in {"none", "unlock", "after", "complete"}
           /\ op'.kind = "complete" => op'.target = op.target
<1>1. op \in CallRecord /\ wake \in BOOLEAN
  BY DEF IInv, TypeOK
<1>2. CASE CallEnds
  BY <1>2 DEF CallEnds, NoOp, CallRecord
<1>3. ASSUME NEW kind \in {"unlock", "after", "complete"}, CallGoesOn(kind)
      PROVE  /\ op' \in CallRecord /\ wake' \in BOOLEAN
             /\ op'.kind = kind /\ op'.target = op.target
  BY <1>1, <1>3 DEF CallGoesOn, CallRecord
<1> QED
  BY <1>2, <1>3

\* A call changes the status of the run.
LEMMA CallSetsStatus ==
    ASSUME IInv, CommitStatus \/ CommitAfter
    PROVE  IInv' /\ CompletedStays
<1>1. /\ UNCHANGED <<tasks, entry, att, up, loop, snap, todo, launched, work, expired, events>>
      /\ op.kind # "none"
  BY DEF CommitStatus, CommitAfter, CallLeaves, passVars, boundVars
<1>2. CallEnds \/ CallGoesOn("unlock")
  BY DEF CommitStatus, CommitAfter
<1>3. /\ op' \in CallRecord /\ wake' \in BOOLEAN
      /\ wake' = TRUE \/ op'.kind # "none"
      /\ op'.kind \in {"none", "unlock", "after", "complete"}
      /\ op'.kind # "complete"
  <2>1. op'.kind # "complete"
    BY <1>2 DEF IInv, TypeOK, CallRecord, CallEnds, CallGoesOn, NoOp
  <2> QED
    BY <1>2, <2>1, CallStepTypes
<1>4. /\ status' \in DOMAIN RunTransitions
      /\ status' = "completed" => status = "completed"
      /\ status' = "idle" => status = "idle"
  <2>1. status \in DOMAIN RunTransitions
    BY DEF IInv, TypeOK
  <2>2. CASE CommitStatus
    <3>1. op.to \in {"running", "pausing", "paused", "stopping", "stopped"}
      BY <2>2 DEF CommitStatus, IInv, OpInv
    <3> QED
      BY <2>1, <2>2, <3>1, RunTable DEF CommitStatus
  <2>3. CASE CommitAfter
    BY <2>1, <2>3, RunTable DEF CommitAfter
  <2> QED
    BY <2>2, <2>3
<1>5. TypeOK'
  BY <1>1, <1>3, <1>4 DEF IInv, TypeOK
<1>6. Quiet
  BY <1>1 DEF Quiet, SameWork
<1>7. /\ CountInv' /\ EntryInv' /\ SnapInv' /\ WorkInv' /\ DependenciesFirst'
      /\ Busy' = Busy /\ Pending' \subseteq Pending /\ CompletedStays
      /\ Flying(Statuses)' = Flying(Statuses)
      /\ Flying(snap.targets)' = Flying(snap.targets)
      /\ Cardinality(Flying(Statuses)') <= MaxConcurrent
      /\ Cardinality(Flying(snap.targets)') <= MaxConcurrent
  BY <1>1, <1>5, <1>6, QuietFacts
<1>8. OpInv' /\ WakeInv'
  BY <1>3 DEF OpInv, WakeInv, NoOp
<1>9. RunInv'
  BY <1>1, <1>4 DEF IInv, RunInv, CompletedMeansAll, AllCompleted
<1>10. loop # "off"
  BY <1>1 DEF IInv, LoopInv, NoOp
<1>11. LoopInv' /\ FlyingInv' /\ IdleInv'
  BY <1>1, <1>4, <1>7, <1>10 DEF IInv, LoopInv, FlyingInv, IdleInv
<1> QED
  BY <1>5, <1>7, <1>8, <1>9, <1>11 DEF IInv

\* A call that changes the entry of one target, or its records.
CallChanges(t) ==
    /\ UNCHANGED <<status, tasks, up, loop, snap, todo, launched, work, expired, events>>
    /\ entry' \in EntryTable /\ att' \in AttemptTable
    /\ \A u \in Targets \ {t} : entry'[u] = entry[u] /\ att'[u] = att[u]
    /\ entry'[t].attempts = entry[t].attempts
    /\ entry[t].granted \subseteq entry'[t].granted
    /\ \A n \in 1..MaxTasks : /\ att'[t][n].exec = att[t][n].exec
                              /\ att'[t][n].verify = att[t][n].verify
                              /\ att'[t][n].commit = "ok" => entry'[t].status = "completed"
    /\ entry[t].status # "queued" /\ entry'[t].status # "queued"
    /\ entry'[t].status \in InFlight => entry[t].status \in InFlight
    /\ entry[t].status = "completed" => entry'[t].status = "completed"
    /\ entry'[t].status = "completed" =>
          \/ entry[t].status = "completed"
          \/ VerifiedLast(t)
    /\ \/ entry'[t].pending = "none"
       \/ /\ entry'[t].pending = entry[t].pending
          /\ entry'[t].status \in {entry[t].status, "completed"}

LEMMA CallChangesStep ==
    ASSUME IInv, NEW t \in Targets, CallChanges(t), op # NoOp,
           CallEnds \/ \E kind \in {"after", "complete"} : CallGoesOn(kind),
           op'.kind = "complete" =>
              /\ op.target = t /\ entry[t].attempts > 0 /\ VerifiedLast(t)
              /\ entry'[t].status \in {"needs_approval", "blocked", "stopped", "completed"}
    PROVE  IInv' /\ CompletedStays
<1>1. /\ UNCHANGED <<status, tasks, up, loop, snap, todo, launched, work, expired, events>>
      /\ \A u \in Targets \ {t} : entry'[u] = entry[u] /\ att'[u] = att[u]
  BY DEF CallChanges
<1>2. /\ op' \in CallRecord /\ wake' \in BOOLEAN
      /\ wake' = TRUE \/ op'.kind # "none"
      /\ op'.kind \in {"none", "unlock", "after", "complete"}
      /\ op'.kind = "complete" => op'.target = op.target
  BY CallStepTypes
<1>3. TypeOK'
  BY <1>1, <1>2 DEF IInv, TypeOK, CallChanges, EntryTable, AttemptTable
<1>4. /\ \A u \in Targets : entry'[u].attempts = entry[u].attempts
      /\ \A u \in Targets : entry[u].granted \subseteq entry'[u].granted
      /\ \A u \in Targets : entry'[u].status = "queued" <=> entry[u].status = "queued"
      /\ \A u \in Targets : entry[u].status = "completed" => entry'[u].status = "completed"
      /\ \A u \in Targets : entry'[u].status \in InFlight => entry[u].status \in InFlight
  BY DEF CallChanges
<1>5. CountInv'
  BY <1>1, <1>4, CountKept DEF IInv
<1>6. \A u \in Targets : VerifiedLast(u)' <=> VerifiedLast(u)
  <2>1. ASSUME NEW u \in Targets, u # t PROVE VerifiedLast(u)' <=> VerifiedLast(u)
    BY <1>1, <2>1 DEF VerifiedLast
  <2>2. VerifiedLast(t)' <=> VerifiedLast(t)
    <3>1. entry[t].attempts \in 0..MaxTasks
      BY DEF IInv, TypeOK, EntryRecord
    <3>2. CASE entry[t].attempts > 0
      <4>1. entry[t].attempts \in 1..MaxTasks
        BY <3>1, <3>2, Limits
      <4> QED
        BY <4>1 DEF VerifiedLast, CallChanges
    <3>3. CASE ~(entry[t].attempts > 0)
      BY <1>4, <3>3 DEF VerifiedLast
    <3> QED
      BY <3>2, <3>3
  <2> QED
    BY <2>1, <2>2
<1>7. EntryInv'
  <2> SUFFICES ASSUME NEW u \in Targets
               PROVE /\ entry'[u].status \in InFlight => entry'[u].attempts > 0
                     /\ entry'[u].pending # "none" =>
                          /\ entry'[u].attempts > 0
                          /\ entry'[u].status \in {"needs_approval", "blocked", "stopped", "completed"}
                     /\ entry'[u].pending = "complete" => VerifiedLast(u)'
                     /\ entry'[u].status = "completed" => VerifiedLast(u)'
                     /\ \A n \in 1..MaxTasks : u \in Asking /\ att'[u][n].exec # "none" => <<"execute", n>> \in entry'[u].granted
                     /\ \A n \in 1..MaxTasks : att'[u][n].commit = "ok" => entry'[u].status = "completed"
    BY DEF EntryInv
  <2>1. CASE u # t
    BY <1>1, <1>6, <2>1 DEF IInv, EntryInv
  <2>2. CASE u = t
    <3>1. entry'[t].status \in InFlight => entry'[t].attempts > 0
      BY <1>4 DEF IInv, EntryInv
    <3>2. entry'[t].pending # "none" =>
            /\ entry'[t].attempts > 0
            /\ entry'[t].status \in {"needs_approval", "blocked", "stopped", "completed"}
      BY DEF IInv, EntryInv, CallChanges
    <3>3. entry'[t].pending = "complete" => VerifiedLast(t)'
      BY <1>6 DEF IInv, EntryInv, CallChanges
    <3>4. entry'[t].status = "completed" => VerifiedLast(t)'
      BY <1>6 DEF IInv, EntryInv, CallChanges
    <3>5. \A n \in 1..MaxTasks : t \in Asking /\ att'[t][n].exec # "none" => <<"execute", n>> \in entry'[t].granted
      BY <1>4 DEF IInv, EntryInv, CallChanges
    <3>6. \A n \in 1..MaxTasks : att'[t][n].commit = "ok" => entry'[t].status = "completed"
      BY DEF CallChanges
    <3> QED
      BY <2>2, <3>1, <3>2, <3>3, <3>4, <3>5, <3>6
  <2> QED
    BY <2>1, <2>2
<1>8. SnapInv'
  BY <1>1, <1>4 DEF IInv, SnapInv
<1>9. WorkInv'
  <2>1. ASSUME NEW u \in Targets, work[u].pc # "none"
        PROVE  Attempt(u)'.exec = Attempt(u).exec /\ Attempt(u)'.verify = Attempt(u).verify
    <3>1. work[u].n \in 0..MaxTasks /\ work[u].n > 0
      BY <2>1 DEF IInv, TypeOK, WorkRecord, WorkInv
    <3>2. work[u].n \in 1..MaxTasks
      BY <3>1, Limits
    <3>3. CASE u = t
      BY <1>1, <3>2, <3>3 DEF Attempt, CallChanges
    <3>4. CASE u # t
      BY <1>1, <3>4 DEF Attempt
    <3> QED
      BY <3>3, <3>4
  <2> QED
    BY <1>1, <1>4, <2>1 DEF IInv, WorkInv
<1>10. OpInv'
  BY <1>2, <1>4, <1>6 DEF OpInv
<1>11. RunInv' /\ CompletedStays
  BY <1>1, <1>4 DEF IInv, RunInv, CompletedMeansAll, AllCompleted, CompletedStays
<1>12. DependenciesFirst'
  BY <1>4, Limits DEF IInv, DependenciesFirst
<1>13. Busy' = Busy /\ Pending' = Pending /\ Flying(snap.targets)' = Flying(snap.targets)
  BY <1>1 DEF Busy, Pending, Flying
<1>14. Flying(Statuses)' \subseteq Flying(Statuses) /\ Flying(Statuses) \in SUBSET Targets
  BY <1>4 DEF Flying, Statuses
<1>15. LoopInv'
  BY <1>1, <1>13 DEF IInv, LoopInv
<1>16. FlyingInv'
  <2>1. Cardinality(Flying(Statuses)') <= MaxConcurrent
    BY <1>14, FlyingFewer DEF IInv, FlyingInv
  <2> QED
    BY <1>1, <1>13, <1>14, <2>1 DEF IInv, FlyingInv
<1>17. IdleInv'
  BY <1>1, <1>13, <1>14 DEF IInv, IdleInv
<1>18. WakeInv'
  BY <1>2 DEF WakeInv, NoOp
<1> QED
  BY <1>3, <1>5, <1>7, <1>8, <1>9, <1>10, <1>11, <1>12, <1>15, <1>16, <1>17, <1>18 DEF IInv

\* What is known of the target of a call.
LEMMA CallTarget ==
    ASSUME IInv, op.kind \in {"retry", "deny", "approve", "grant", "complete"}
    PROVE  /\ op.target \in Targets /\ entry[op.target] \in EntryRecord /\ op # NoOp
           /\ entry[op.target].status \in TargetStatuses /\ entry[op.target].status # "queued"
           /\ entry[op.target].repairs \in 0..MaxRepairs
           /\ entry[op.target].granted \subseteq Kinds \X (1..MaxTasks)
           /\ op.kind # "retry" => entry[op.target].attempts \in 1..MaxTasks
           /\ \A n \in 1..MaxTasks : att[op.target][n].commit = "ok" => entry[op.target].status = "completed"
           /\ entry \in EntryTable /\ att \in AttemptTable
<1>1. op.target \in Targets /\ entry[op.target].status # "queued"
  BY DEF IInv, OpInv
<1>2. entry \in EntryTable /\ att \in AttemptTable /\ entry[op.target] \in EntryRecord
  BY <1>1 DEF IInv, TypeOK, EntryTable, AttemptTable
<1>3. op.kind # "retry" => entry[op.target].attempts > 0
  BY DEF IInv, OpInv
<1>4. entry[op.target].attempts \in 0..MaxTasks
  BY <1>2 DEF EntryRecord
<1>5. op.kind # "retry" => entry[op.target].attempts \in 1..MaxTasks
  BY <1>3, <1>4, Limits
<1>6. \A n \in 1..MaxTasks : att[op.target][n].commit = "ok" => entry[op.target].status = "completed"
  BY <1>1 DEF IInv, EntryInv
<1> QED
  BY <1>1, <1>2, <1>5, <1>6 DEF EntryRecord, NoOp

\* A retry, a denied or a granted execute approval.
LEMMA CommitResolutionStep ==
    ASSUME IInv, CommitResolution
    PROVE  IInv' /\ CompletedStays
<1> DEFINE t == op.target
           n == entry[t].attempts
           to == IF op.kind = "deny" THEN "blocked" ELSE "eligible"
           g == IF op.kind = "approve" THEN entry[t].granted \cup {<<"execute", n>>} ELSE entry[t].granted
           r == IF op.kind = "retry" THEN 0 ELSE entry[t].repairs
<1>1. /\ op.kind \in {"retry", "deny", "approve"}
      /\ UNCHANGED <<status, att, tasks, up, loop, snap, todo, launched, work, expired, events>>
  BY DEF CommitResolution, CallLeaves, passVars, boundVars
<1>2. /\ t \in Targets /\ entry[t] \in EntryRecord /\ op # NoOp
      /\ entry[t].status \in TargetStatuses /\ entry[t].status # "queued"
      /\ entry[t].repairs \in 0..MaxRepairs
      /\ entry[t].granted \subseteq Kinds \X (1..MaxTasks)
      /\ op.kind # "retry" => n \in 1..MaxTasks
      /\ \A m \in 1..MaxTasks : att[t][m].commit = "ok" => entry[t].status = "completed"
      /\ entry \in EntryTable /\ att \in AttemptTable
  BY <1>1, CallTarget
<1>3. CASE entry[t].status # to /\ HumanCanTransition(entry[t].status, to)
  <2>1. entry' = [entry EXCEPT ![t].status = to, ![t].pending = "none", ![t].repairs = r, ![t].granted = g]
    BY <1>3 DEF CommitResolution
  <2>2. CallGoesOn("after")
    BY <1>3 DEF CommitResolution
  <2>3. to \in {"blocked", "eligible"} /\ to \in TargetStatuses
    BY StatusSet
  <2>4. entry[t].status # "completed"
    BY <1>2, <1>3, UserMayMove
  <2>5. g \subseteq Kinds \X (1..MaxTasks) /\ entry[t].granted \subseteq g
    BY <1>1, <1>2 DEF Kinds
  <2>6. r \in 0..MaxRepairs
    BY <1>2, Limits
  <2> HIDE DEF t, to, g, r, n
  <2>7. [entry[t] EXCEPT !.status = to, !.pending = "none", !.repairs = r, !.granted = g] \in EntryRecord
    BY <1>2, <2>3, <2>5, <2>6 DEF EntryRecord
  <2>8. /\ entry' \in EntryTable /\ \A u \in Targets \ {t} : entry'[u] = entry[u]
        /\ entry'[t].status = to /\ entry'[t].pending = "none" /\ entry'[t].granted = g
        /\ entry'[t].attempts = entry[t].attempts
    BY <1>2, <2>1, <2>7 DEF EntryTable, EntryRecord
  <2>9. CallChanges(t)
    BY <1>1, <1>2, <2>3, <2>4, <2>5, <2>8 DEF CallChanges, InFlight
  <2>10. op'.kind # "complete"
    BY <2>2 DEF IInv, TypeOK, CallRecord, CallGoesOn
  <2> QED
    BY <1>2, <2>2, <2>9, <2>10, CallChangesStep
<1>4. CASE ~(entry[t].status # to /\ HumanCanTransition(entry[t].status, to))
  <2>1. entry' = entry /\ (CallGoesOn("after") \/ CallEnds)
    BY <1>4 DEF CommitResolution
  <2> HIDE DEF t
  <2>2. CallChanges(t)
    BY <1>1, <1>2, <2>1 DEF CallChanges
  <2>3. op'.kind # "complete"
    BY <2>1 DEF IInv, TypeOK, CallRecord, CallGoesOn, CallEnds, NoOp
  <2> QED
    BY <1>2, <2>1, <2>2, <2>3, CallChangesStep
<1> QED
  BY <1>3, <1>4

\* A granted completion: the marker first.
LEMMA CommitGrantStep ==
    ASSUME IInv, CommitGrant
    PROVE  IInv' /\ CompletedStays
<1> DEFINE t == op.target
           n == entry[t].attempts
           g == entry[t].granted \cup {<<"complete", n>>}
<1>1. /\ op.kind = "grant" /\ CallGoesOn("complete")
      /\ entry' = [entry EXCEPT ![t].pending = "none", ![t].granted = g]
      /\ UNCHANGED <<status, att, tasks, up, loop, snap, todo, launched, work, expired, events>>
  BY DEF CommitGrant, CallLeaves, passVars, boundVars
<1>2. /\ t \in Targets /\ entry[t] \in EntryRecord /\ op # NoOp
      /\ entry[t].status \in TargetStatuses /\ entry[t].status # "queued"
      /\ entry[t].granted \subseteq Kinds \X (1..MaxTasks)
      /\ n \in 1..MaxTasks
      /\ \A m \in 1..MaxTasks : att[t][m].commit = "ok" => entry[t].status = "completed"
      /\ entry \in EntryTable /\ att \in AttemptTable
  BY <1>1, CallTarget
<1>3. /\ entry[t].status \in {"needs_approval", "blocked", "stopped", "completed"}
      /\ VerifiedLast(t) /\ entry[t].attempts > 0
  BY <1>1 DEF IInv, OpInv
<1>4. g \subseteq Kinds \X (1..MaxTasks) /\ entry[t].granted \subseteq g
  <2>1. <<"complete", n>> \in Kinds \X (1..MaxTasks)
    BY <1>2 DEF Kinds
  <2> HIDE DEF n
  <2> QED
    BY <1>2, <2>1
<1> HIDE DEF t, n, g
<1>5. [entry[t] EXCEPT !.pending = "none", !.granted = g] \in EntryRecord
  BY <1>2, <1>4 DEF EntryRecord
<1>6. /\ entry' \in EntryTable /\ \A u \in Targets \ {t} : entry'[u] = entry[u]
      /\ entry'[t].status = entry[t].status /\ entry'[t].pending = "none" /\ entry'[t].granted = g
      /\ entry'[t].attempts = entry[t].attempts
  BY <1>1, <1>2, <1>5 DEF EntryTable, EntryRecord
<1>7. CallChanges(t)
  BY <1>1, <1>2, <1>4, <1>6 DEF CallChanges
<1> QED
  BY <1>1, <1>2, <1>3, <1>4, <1>6, <1>7, CallChangesStep DEF t

\* Then the progress, in the operator's name.
LEMMA CommitCompletionStep ==
    ASSUME IInv, CommitCompletion
    PROVE  IInv' /\ CompletedStays
<1> DEFINE t == op.target
           n == entry[t].attempts
           a == att[t][n]
           legal == entry[t].status = "completed" \/ HumanCanTransition(entry[t].status, "completed")
           applies == a.commit = "none" /\ legal
           succeeds == (applies \/ a.commit = "ok") /\ ~Conflict(a, "succeeded")
           c == IF applies THEN "ok" ELSE IF a.commit = "none" THEN "failed" ELSE a.commit
           o == IF succeeds THEN "succeeded" ELSE a.outcome
<1>1. /\ op.kind = "complete"
      /\ entry' = IF applies THEN Moved(entry, t, "completed") ELSE entry
      /\ att' = [att EXCEPT ![t][n] = [a EXCEPT !.commit = c, !.outcome = o]]
      /\ CallGoesOn("after") \/ CallEnds
      /\ UNCHANGED <<status, tasks, up, loop, snap, todo, launched, work, expired, events>>
  BY DEF CommitCompletion, CallLeaves, passVars, boundVars
<1>2. /\ t \in Targets /\ entry[t] \in EntryRecord /\ op # NoOp
      /\ entry[t].status \in TargetStatuses /\ entry[t].status # "queued"
      /\ n \in 1..MaxTasks
      /\ \A m \in 1..MaxTasks : att[t][m].commit = "ok" => entry[t].status = "completed"
      /\ entry \in EntryTable /\ att \in AttemptTable
  BY <1>1, CallTarget
<1>3. VerifiedLast(t)
  BY <1>1 DEF IInv, OpInv
<1>4. a \in AttemptRecord /\ c \in RecordSet /\ o \in OutcomeSet /\ (c = "ok" => applies \/ a.commit = "ok")
  <2>1. a \in AttemptRecord
    BY <1>2 DEF AttemptTable
  <2> QED
    BY <2>1 DEF AttemptRecord, RecordSet, OutcomeSet
<1> HIDE DEF t, n, a, legal, applies, succeeds, c, o
<1>5. /\ [a EXCEPT !.commit = c, !.outcome = o] \in AttemptRecord
      /\ [a EXCEPT !.commit = c, !.outcome = o].commit = c
      /\ [a EXCEPT !.commit = c, !.outcome = o].exec = a.exec
      /\ [a EXCEPT !.commit = c, !.outcome = o].verify = a.verify
  BY <1>4 DEF AttemptRecord
<1>6. /\ att' \in AttemptTable /\ \A u \in Targets \ {t} : att'[u] = att[u]
      /\ \A m \in (1..MaxTasks) \ {n} : att'[t][m] = att[t][m]
      /\ att'[t][n].commit = c /\ att'[t][n].exec = a.exec /\ att'[t][n].verify = a.verify
  <2>1. att[t] \in [1..MaxTasks -> AttemptRecord]
    BY <1>2 DEF AttemptTable
  <2> QED
    BY <1>1, <1>2, <1>5, <2>1 DEF AttemptTable
<1>7. \A m \in 1..MaxTasks : att'[t][m].exec = att[t][m].exec /\ att'[t][m].verify = att[t][m].verify
  BY <1>2, <1>6 DEF a
<1>8. /\ entry' \in EntryTable /\ \A u \in Targets \ {t} : entry'[u] = entry[u]
      /\ entry'[t].attempts = entry[t].attempts /\ entry'[t].granted = entry[t].granted
      /\ entry'[t].pending = entry[t].pending
      /\ entry'[t].status = IF applies THEN "completed" ELSE entry[t].status
  <2>1. "completed" \in TargetStatuses
    BY StatusSet
  <2>2. CASE applies
    <3>1. SetsStatus(entry', entry, t, "completed")
      BY <1>1, <1>2, <2>1, <2>2, MovedFacts
    <3> QED
      BY <2>2, <3>1 DEF SetsStatus
  <2>3. CASE ~applies
    BY <1>1, <1>2, <2>3
  <2> QED
    BY <2>2, <2>3
<1>9. \A m \in 1..MaxTasks : att'[t][m].commit = "ok" => entry'[t].status = "completed"
  <2>1. a.commit = "ok" => entry[t].status = "completed"
    BY <1>2 DEF a
  <2> QED
    BY <1>2, <1>4, <1>6, <1>8, <2>1
<1>10. CallChanges(t)
  BY <1>1, <1>2, <1>3, <1>6, <1>7, <1>8, <1>9 DEF CallChanges, InFlight
<1>11. op'.kind # "complete"
  BY <1>1 DEF IInv, TypeOK, CallRecord, CallGoesOn, CallEnds, NoOp
<1> QED
  BY <1>1, <1>2, <1>10, <1>11, CallChangesStep
-----------------------------------------------------------------------------
(* The environment, and every step *)

LEMMA EnvironmentStep ==
    ASSUME IInv, DeadlinePasses \/ RecoverRuns
    PROVE  IInv' /\ CompletedStays
<1>1. CASE DeadlinePasses
  <2>1. /\ UNCHANGED <<status, tasks, entry, att, up, loop, snap, todo, launched, wake, work, op>>
        /\ expired' = TRUE /\ events < MaxEvents /\ events' = events + 1
    BY <1>1 DEF DeadlinePasses, ledgerVars, passVars
  <2>2. events' \in 0..MaxEvents
    <3>1. events \in 0..MaxEvents
      BY DEF IInv, TypeOK
    <3> QED
      BY <2>1, <3>1, Limits
  <2>3. TypeOK'
    BY <2>1, <2>2 DEF IInv, TypeOK
  <2>4. Quiet
    BY <2>1 DEF Quiet, SameWork
  <2>5. /\ CountInv' /\ EntryInv' /\ SnapInv' /\ WorkInv' /\ DependenciesFirst' /\ OpInv'
        /\ Busy' = Busy /\ Pending' \subseteq Pending /\ CompletedStays
        /\ Flying(Statuses)' = Flying(Statuses) /\ Startable(Statuses)' = Startable(Statuses)
        /\ Flying(snap.targets)' = Flying(snap.targets)
        /\ Startable(snap.targets)' = Startable(snap.targets)
        /\ Cardinality(Flying(Statuses)') <= MaxConcurrent
        /\ Cardinality(Flying(snap.targets)') <= MaxConcurrent
    BY <2>1, <2>3, <2>4, QuietFacts
  <2>6. RunInv' /\ LoopInv'
    BY <2>1, <2>5 DEF IInv, RunInv, CompletedMeansAll, AllCompleted, LoopInv
  <2>7. FlyingInv' /\ IdleInv' /\ WakeInv'
    BY <2>1, <2>5 DEF IInv, FlyingInv, IdleInv, WakeInv
  <2> QED
    BY <2>3, <2>5, <2>6, <2>7 DEF IInv
<1>2. CASE RecoverRuns
  <2>1. /\ UNCHANGED <<status, tasks, entry, att, snap, todo, launched, work, op, expired, events>>
        /\ ~up /\ up' = TRUE
        /\ \/ loop' = "wait" /\ wake' = TRUE
           \/ status # "idle" /\ loop' = loop /\ wake' = wake
    BY <1>2 DEF RecoverRuns, ledgerVars, passVars, boundVars
  <2>2. loop = "off" /\ Busy = {} /\ op = NoOp
    BY <2>1 DEF IInv, LoopInv
  <2>3. TypeOK'
    BY <2>1 DEF IInv, TypeOK, LoopPoints
  <2>4. Quiet
    BY <2>1 DEF Quiet, SameWork
  <2>5. /\ CountInv' /\ EntryInv' /\ SnapInv' /\ WorkInv' /\ DependenciesFirst' /\ OpInv'
        /\ Busy' = Busy /\ Pending' \subseteq Pending /\ CompletedStays
        /\ Flying(Statuses)' = Flying(Statuses)
        /\ Flying(snap.targets)' = Flying(snap.targets)
        /\ Cardinality(Flying(Statuses)') <= MaxConcurrent
        /\ Cardinality(Flying(snap.targets)') <= MaxConcurrent
    BY <2>1, <2>3, <2>4, QuietFacts
  <2>6. RunInv' /\ LoopInv'
    BY <2>1, <2>2, <2>5 DEF IInv, RunInv, CompletedMeansAll, LoopInv
  <2>7. FlyingInv' /\ IdleInv' /\ WakeInv'
    BY <2>1, <2>2, <2>5 DEF IInv, FlyingInv, IdleInv, WakeInv
  <2> QED
    BY <2>3, <2>5, <2>6, <2>7 DEF IInv
<1> QED
  BY <1>1, <1>2

LEMMA StutterStep ==
    ASSUME IInv, UNCHANGED vars
    PROVE  IInv' /\ CompletedStays
<1>1. UNCHANGED <<status, tasks, entry, att, up, loop, snap, todo, launched, wake, work, op, expired, events>>
  BY DEF vars, ledgerVars, passVars, boundVars
<1>2. Statuses' = Statuses /\ Busy' = Busy /\ Pending' = Pending /\ StartedAttempts' = StartedAttempts
  BY <1>1 DEF Statuses, Busy, Pending, StartedAttempts
<1>3. /\ Flying(Statuses)' = Flying(Statuses) /\ Startable(Statuses)' = Startable(Statuses)
      /\ Flying(snap.targets)' = Flying(snap.targets) /\ Startable(snap.targets)' = Startable(snap.targets)
  BY <1>1, <1>2 DEF Flying, Startable, EligibleTargets, DependenciesCompleted
<1>4. TypeOK' /\ CountInv' /\ CompletedStays
  BY <1>1, <1>2 DEF IInv, TypeOK, CountInv, CompletedStays
<1>5. EntryInv' /\ SnapInv' /\ WorkInv' /\ OpInv' /\ DependenciesFirst'
  BY <1>1 DEF IInv, EntryInv, SnapInv, WorkInv, OpInv, DependenciesFirst, VerifiedLast, Attempt
<1>6. RunInv' /\ LoopInv' /\ FlyingInv' /\ IdleInv' /\ WakeInv'
  BY <1>1, <1>2, <1>3 DEF IInv, RunInv, CompletedMeansAll, AllCompleted, LoopInv, FlyingInv, IdleInv, WakeInv
<1> QED
  BY <1>4, <1>5, <1>6 DEF IInv

LEMMA ControllerStep ==
    ASSUME IInv, [Next]_vars
    PROVE  IInv' /\ CompletedStays
<1>1. CASE LoopNext
  BY <1>1, LoadStep, SettleStep, UnlockStep, SelectStep, LeaveIdleStep, StartAttemptStep, LaunchStep,
     DecideStep, ConcludeStep, DeadlineStep DEF LoopNext
<1>2. CASE \E t \in Targets : AttemptNext(t)
  BY <1>2, AttemptStep
<1>3. CASE OperatorNext
  BY <1>3, OperatorStep
<1>4. CASE CallNext
  BY <1>4, CallSetsStatus, CommitUnlockStep, CommitResolutionStep, CommitGrantStep, CommitCompletionStep
     DEF CallNext
<1>5. CASE DeadlinePasses \/ RecoverRuns
  BY <1>5, EnvironmentStep
<1>6. CASE Crash \/ Shutdown
  BY <1>6, ProcessStops
<1>7. CASE UNCHANGED vars
  BY <1>7, StutterStep
<1> QED
  BY <1>1, <1>2, <1>3, <1>4, <1>5, <1>6, <1>7 DEF Next

LEMMA ControllerInit ==
    ASSUME Init
    PROVE  IInv
<1>1. /\ status = "created" /\ tasks = 0 /\ up = TRUE /\ loop = "wait" /\ snap = NoSnap /\ todo = {}
      /\ launched = FALSE /\ wake = TRUE /\ expired = FALSE /\ events = 0
      /\ op = [kind |-> "start", target |-> "none", to |-> "running"]
      /\ att = [t \in Targets |-> [n \in 1..MaxTasks |-> NoAttempt]]
      /\ work = [t \in Targets |-> NoWork]
  BY DEF Init
<1>2. \A t \in Targets : /\ entry[t].status \in {"queued", "eligible"} /\ entry[t].attempts = 0
                         /\ entry[t].pending = "none" /\ work[t].pc = "none"
                         /\ entry[t].status # "queued" => DependsOn[t] = {}
  BY DEF Init, NoWork
<1>3. TypeOK
  <2>1. entry \in [Targets -> EntryRecord]
    BY StatusSet, Limits DEF Init, EntryRecord
  <2>2. att \in [Targets -> [1..MaxTasks -> AttemptRecord]]
    BY <1>1 DEF NoAttempt, AttemptRecord, OutcomeSet, RecordSet
  <2>3. work \in [Targets -> WorkRecord]
    BY <1>1, Limits DEF NoWork, WorkRecord, Points
  <2>4. op \in CallRecord
    BY <1>1, RunTable DEF CallRecord
  <2>5. tasks \in 0..MaxTasks /\ events \in 0..MaxEvents
    BY <1>1, Limits
  <2> QED
    BY <1>1, <2>1, <2>2, <2>3, <2>4, <2>5, RunTable, SnapTypes DEF TypeOK, LoopPoints
<1>4. Busy = {} /\ Pending = {} /\ Flying(Statuses) = {} /\ Flying(snap.targets) = {}
  BY <1>1, <1>2 DEF Busy, Pending, Flying, Statuses, NoSnap, InFlight
<1>5. CountInv
  <2>1. \A t \in Targets : 1..entry[t].attempts = {}
    BY <1>2
  <2>2. StartedAttempts = {}
    BY <2>1 DEF StartedAttempts
  <2> QED
    BY <1>1, <2>2, FS_EmptySet DEF CountInv
<1>6. EntryInv
  BY <1>1, <1>2 DEF EntryInv, InFlight, NoAttempt
<1>7. SnapInv /\ WorkInv /\ DependenciesFirst
  BY <1>1, <1>2 DEF SnapInv, WorkInv, DependenciesFirst, NoSnap, InFlight
<1>8. OpInv /\ RunInv
  BY <1>1 DEF OpInv, RunInv, CompletedMeansAll
<1>9. LoopInv /\ IdleInv /\ WakeInv
  BY <1>1, <1>4 DEF LoopInv, IdleInv, WakeInv, NoSnap
<1>10. FlyingInv
  <2>1. Cardinality({}) <= MaxConcurrent
    BY Limits, FS_EmptySet
  <2> QED
    BY <1>4, <2>1 DEF FlyingInv
<1> QED
  BY <1>3, <1>5, <1>6, <1>7, <1>8, <1>9, <1>10 DEF IInv

\* The invariant holds of every state the controller reaches, whatever the graph, the
\* limits, the interleaving of its activities and the moments the process dies.
THEOREM ControllerInvariant == Spec => []IInv
<1>1. Init => IInv
  BY ControllerInit
<1>2. IInv /\ [Next]_vars => IInv'
  BY ControllerStep
<1> QED
  BY <1>1, <1>2, PTL DEF Spec
-----------------------------------------------------------------------------
(* What follows *)

\* Every variable keeps its type.
THEOREM ControllerTypeCorrect == Spec => []TypeOK
<1>1. IInv => TypeOK
  BY DEF IInv
<1> QED
  BY <1>1, ControllerInvariant, PTL

\* No target leaves the queue before its dependencies are completed
\* (eligibleTargets, newlyUnlockedTargets), although the pass, the resumed attempts and
\* the operator's calls act on what they have read before.
THEOREM ControllerDependenciesFirst == Spec => []DependenciesFirst
<1>1. IInv => DependenciesFirst
  BY DEF IInv
<1> QED
  BY <1>1, ControllerInvariant, PTL

\* A run is completed only when every target is (step's decision on a snapshot).
THEOREM ControllerCompletedMeansAll == Spec => []CompletedMeansAll
<1>1. IInv => CompletedMeansAll
  BY DEF IInv, RunInv
<1> QED
  BY <1>1, ControllerInvariant, PTL

\* tasksStarted is the number of attempts that were ever started, at most
\* maxTasksPerRun (startAttempt counts in the commit that activates the target).
THEOREM ControllerBudgetCounts == Spec => []BudgetCounts
<1>1. IInv => BudgetCounts
  BY Limits DEF IInv, CountInv, TypeOK, BudgetCounts
<1> QED
  BY <1>1, ControllerInvariant, PTL

\* Where governance asks, an attempt executes only on an execute approval granted for
\* this attempt (preflight's check of grantedApproval and startAttempt's reuse).
THEOREM ControllerExecutionIsApproved == Spec => []ExecutionIsApproved
<1>1. IInv => ExecutionIsApproved
  BY ControllerAssumption DEF IInv, EntryInv, ExecutionIsApproved
<1> QED
  BY <1>1, ControllerInvariant, PTL

\* A completed target was executed and verified in its last attempt, also when an
\* operator's approval completed it or a crash came in between (once, commitProgress).
THEOREM ControllerCompletedWasVerified == Spec => []CompletedWasVerified
<1>1. IInv => CompletedWasVerified
  BY DEF IInv, EntryInv, VerifiedLast, CompletedWasVerified
<1> QED
  BY <1>1, ControllerInvariant, PTL

\* An idle run has nothing in flight, and nothing the controller could start is left
\* behind by a driver that went away (withDriver, runLoop's wake-ups).
THEOREM ControllerIdleIsHonest == Spec => []IdleIsHonest
<1>1. ASSUME IInv PROVE IdleIsHonest
  <2>1. /\ snap.status = "idle" => \A t \in Targets : snap.targets[t] \notin InFlight
        /\ status = "idle" => \A t \in Targets : entry[t].status \notin InFlight
    BY <1>1 DEF IInv, IdleInv, Flying, Statuses
  <2>2. ASSUME status = "idle", loop = "off", up
        PROVE  /\ EligibleTargets(Snapshot(status, entry).targets) = {}
               /\ \A t \in Targets : entry[t].status # "repairing"
    <3>1. ~wake => Startable(Statuses) = {}
      BY <1>1, <2>2 DEF IInv, LoopInv, WakeInv
    <3>2. Snapshot(status, entry).targets = Statuses
      BY DEF Snapshot, Statuses
    <3>3. ~wake
      BY <1>1, <2>2 DEF IInv, LoopInv
    <3> QED
      BY <3>1, <3>2, <3>3 DEF Startable, Statuses
  <2> QED
    BY <2>1, <2>2 DEF IdleIsHonest, Snapshot
<1>2. IInv => IdleIsHonest
  BY <1>1
<1> QED
  BY <1>2, ControllerInvariant, PTL

\* A completed target stays completed: no stale snapshot, abort, failure, repetition or
\* retry takes it back.
THEOREM ControllerCompletedIsForever == Spec => CompletedIsForever
<1>1. IInv /\ [Next]_vars =>
        [\A t \in Targets : entry[t].status = "completed" => entry'[t].status = "completed"]_vars
  BY ControllerStep DEF CompletedStays
<1> QED
  BY <1>1, ControllerInvariant, PTL DEF Spec, CompletedIsForever
=============================================================================
