-------------------------- MODULE GoalLedgerProofs --------------------------
(***************************************************************************)
(* Proofs about GoalLedger for any number of processes, readers, targets,  *)
(* commits and transitions.                                                *)
(***************************************************************************)
EXTENDS GoalLedger, SequenceTheorems, TLAPS

(***************************************************************************)
(* The inductive invariant.  Leases: the stored lease always carries the   *)
(* newest epoch, and no two processes hold tokens of one epoch.            *)
(***************************************************************************)
LeaseInv ==
    /\ lease.epoch = maxEpoch
    /\ \A p \in Procs : token[p] <= maxEpoch
    /\ \A p, q \in Procs : token[p] = token[q] /\ token[p] # 0 => p = q

\* Where a batch says its transitions are is where the history has them.
BatchInHistory(b) ==
    /\ b.revision <= ledger.revision
    /\ \A n \in 1..Len(b.transitions) :
          /\ b.revision > 0
          /\ b.firstSeq + n - 1 <= transitionSeq
          /\ b.transitions[n] = Log[b.firstSeq + n - 1]

(***************************************************************************)
(* A process in the middle of a commit: its batch is part of the history,  *)
(* the part it has gone through is materialised, and while the revision is *)
(* still the one it read, the batch it materialises is the one its commit  *)
(* will replace.                                                           *)
(***************************************************************************)
JobOK(j) ==
    /\ BatchInHistory(j.batch)
    /\ \A n \in 1..Len(j.batch.transitions) :
          n < j.next => ~Missing(j.batch.firstSeq + n - 1)
    /\ j.absent => j.next <= Len(j.batch.transitions) /\ j.phase \in {"pre", "post"}
    /\ j.phase # "idle" => j.revision <= ledger.revision /\ j.revision > 0
    /\ j.phase \in {"pre", "cas"} /\ j.revision = ledger.revision => j.batch = lastBatch
    /\ j.phase = "cas" => j.next > Len(j.batch.transitions)

StoreInv ==
    /\ ledger.revision = 0 => transitionSeq = 0 /\ lastBatch = NoBatch
    /\ lastBatch.revision <= ledger.revision
    /\ Len(lastBatch.transitions) > 0 => lastBatch.revision > 0
    /\ NoTransitionLost
    /\ NothingUncommitted
    /\ \A p \in Procs : JobOK(job[p])

IInv == TypeOK /\ LeaseInv /\ StoreInv

-----------------------------------------------------------------------------
\* A commit's transition list is a sequence of at most MaxBatch transitions.
LEMMA BatchFacts ==
    ASSUME NEW ts \in Batches
    PROVE  /\ ts \in Seq(Transition)
           /\ Len(ts) \in 0..MaxBatch
           /\ DOMAIN ts = 1..Len(ts)
           /\ \A n \in 1..Len(ts) : ts[n] \in Transition
<1>1. PICK n \in 0..MaxBatch : ts \in [1..n -> Transition]
  BY DEF Batches
<1>2. n \in Nat
  BY <1>1, LedgerAssumption
<1>3. ts \in Seq(Transition) /\ Len(ts) = n
  BY <1>1, <1>2, IsASeq, LenProperties
<1> QED
  BY <1>1, <1>2, <1>3

\* An absent batch has the type of a batch.
LEMMA NoBatchType == NoBatch \in Batch /\ Len(NoBatch.transitions) = 0
<1>1. <<>> \in [1..0 -> Transition]
  OBVIOUS
<1>2. 0 \in 0..MaxBatch
  BY LedgerAssumption
<1>3. <<>> \in Batches
  BY <1>1, <1>2 DEF Batches
<1> QED
  BY <1>3, LedgerAssumption DEF NoBatch, Batch

\* The statuses of a run that does not exist are no statuses.
LEMMA NoStatusesFact == NoStatuses \notin [Targets -> Statuses]
<1>1. PICK t \in Targets : TRUE
  BY TargetsAssumption
<1>2. NoStatuses[t] = "absent" /\ "absent" \notin Statuses
  BY TargetsAssumption DEF NoStatuses
<1> QED
  BY <1>1, <1>2

LEMMA InitType == Init => TypeOK
<1> SUFFICES ASSUME Init PROVE TypeOK
  OBVIOUS
<1>1. NoJob \in Job
  BY NoBatchType, LedgerAssumption DEF NoJob, Job
<1>2. job \in [Procs -> Job]
  BY <1>1 DEF Init
<1>3. lastBatch \in Batch
  BY NoBatchType DEF Init
<1> QED
  BY <1>2, <1>3, NoStatusesFact, LedgerAssumption DEF Init, TypeOK, Exists, Seqs

\* Every step keeps the state well formed.
LEMMA TypeStep == IInv /\ [Next]_vars => TypeOK'
<1> SUFFICES ASSUME IInv, [Next]_vars PROVE TypeOK'
  OBVIOUS
<1> USE LedgerAssumption, TargetsAssumption
<1>j. NoJob \in Job
  BY NoBatchType DEF NoJob, Job
<1>1. CASE UNCHANGED vars
  BY <1>1 DEF IInv, TypeOK, vars, Exists, Seqs
<1>2. CASE CreateRun
  BY <1>2 DEF IInv, TypeOK, CreateRun, Exists, InitialStatuses, Seqs
<1>3. ASSUME NEW p \in Procs, AcquireLease(p) PROVE TypeOK'
  <2>1. lease.epoch \in Nat /\ maxEpoch \in Nat
    BY DEF IInv, TypeOK, StoredLease, NoLease
  <2>2. NextEpoch \in 1..MaxEpoch
    BY <1>3, <2>1 DEF AcquireLease, NextEpoch
  <2>3. clock[p] + Ttl \in 0..(MaxTime + Ttl)
    BY DEF IInv, TypeOK
  <2>4. lease' \in StoredLease
    BY <1>3, <2>2, <2>3 DEF AcquireLease, StoredLease
  <2>5. maxEpoch' \in 0..MaxEpoch /\ token' \in [Procs -> 0..MaxEpoch]
    BY <1>3, <2>2 DEF AcquireLease, IInv, TypeOK
  <2> QED
    BY <1>3, <2>4, <2>5 DEF IInv, TypeOK, AcquireLease, Exists, Seqs
<1>4. ASSUME NEW p \in Procs, RenewLease(p) \/ ReleaseLease(p) PROVE TypeOK'
  <2>1. lease \in StoredLease
    BY <1>4 DEF RenewLease, ReleaseLease, Owns, NoLease, IInv, TypeOK
  <2>2. clock[p] \in 0..(MaxTime + Ttl) /\ clock[p] + Ttl \in 0..(MaxTime + Ttl)
    BY DEF IInv, TypeOK
  <2>3. lease' \in StoredLease
    BY <1>4, <2>1, <2>2 DEF RenewLease, ReleaseLease, StoredLease
  <2> QED
    BY <1>4, <2>3 DEF IInv, TypeOK, RenewLease, ReleaseLease, Exists, Seqs
<1>6. ASSUME NEW p \in Procs, CommitStart(p) PROVE TypeOK'
  BY <1>6 DEF IInv, TypeOK, CommitStart, Job, Exists, Seqs, envelope
<1>7. ASSUME NEW p \in Procs, MaterialiseGet(p) PROVE TypeOK'
  <2>1. Len(job[p].batch.transitions) \in 0..MaxBatch
    BY BatchFacts DEF IInv, TypeOK, Job, Batch
  <2>j. job[p] \in Job
    BY DEF IInv, TypeOK
  <2>n. job[p].next \in 1..(MaxBatch + 1) /\ job[p].next <= Len(job[p].batch.transitions)
    BY <1>7, <2>j DEF MaterialiseGet, MoreToWrite, Job
  <2>2. job[p].next + 1 \in 1..(MaxBatch + 1)
    BY <2>1, <2>n
  <2>3. job' \in [Procs -> Job]
    <3>t. job \in [Procs -> Job]
      BY DEF IInv, TypeOK
    <3>1. CASE job' = [job EXCEPT ![p].absent = TRUE]
      <4>1. [job[p] EXCEPT !.absent = TRUE] \in Job
        BY <2>j DEF Job
      <4>2. job' = [job EXCEPT ![p] = [job[p] EXCEPT !.absent = TRUE]]
        BY <3>1
      <4> QED
        BY <3>t, <4>1, <4>2
    <3>2. CASE job' = [job EXCEPT ![p].next = @ + 1]
      <4>1. [job[p] EXCEPT !.next = @ + 1] \in Job
        BY <2>j, <2>2 DEF Job
      <4>2. job' = [job EXCEPT ![p] = [job[p] EXCEPT !.next = @ + 1]]
        BY <3>2
      <4> QED
        BY <3>t, <4>1, <4>2
    <3> QED
      BY <1>7, <3>1, <3>2 DEF MaterialiseGet
  <2> QED
    BY <1>7, <2>3 DEF IInv, TypeOK, MaterialiseGet, Exists, Seqs, envelope
<1>8. ASSUME NEW p \in Procs, MaterialisePut(p) PROVE TypeOK'
  <2>1. job[p] \in Job /\ job[p].absent /\ JobOK(job[p])
    BY <1>8 DEF IInv, TypeOK, StoreInv, MaterialisePut
  <2>b. job[p].batch \in Batch /\ job[p].batch.transitions \in Batches
    BY <2>1 DEF Job, Batch
  <2>l. Len(job[p].batch.transitions) \in 0..MaxBatch
    BY <2>b, BatchFacts
  <2>n. job[p].next \in 1..Len(job[p].batch.transitions)
    BY <2>1, <2>l DEF JobOK, Job
  <2>2. job' \in [Procs -> Job]
    <3>1. job[p].next + 1 \in 1..(MaxBatch + 1)
      BY <2>n, <2>l
    <3> QED
      BY <1>8, <3>1 DEF IInv, TypeOK, MaterialisePut, Job
  <2>3. [revision |-> job[p].batch.revision,
         transition |-> job[p].batch.transitions[job[p].next]] \in Key
    BY SMTT(40), <2>1, <2>b, <2>n, BatchFacts DEF JobOK, BatchInHistory, Batch, Key
  <2>4. keys' \in [Seqs -> Key \cup {NoKey}]
    BY <1>8, <2>3 DEF IInv, TypeOK, MaterialisePut
  <2> QED
    BY <1>8, <2>2, <2>4 DEF IInv, TypeOK, MaterialisePut, Exists, Seqs, envelope
<1>9. ASSUME NEW p \in Procs, MaterialiseDone(p) PROVE TypeOK'
  BY <1>9, <1>j DEF IInv, TypeOK, MaterialiseDone, Job, Exists, Seqs, envelope
<1>10. ASSUME NEW p \in Procs, MaterialiseFails(p) PROVE TypeOK'
  BY <1>10, <1>j DEF IInv, TypeOK, MaterialiseFails, Exists, Seqs, envelope
<1>11. ASSUME NEW p \in Procs, NEW ts \in Batches, NEW after \in [Targets -> Statuses],
              CommitApply(p, ts, after)
       PROVE  TypeOK'
  <2>1. Len(ts) \in 0..MaxBatch
    BY BatchFacts
  <2>2. job[p].revision \in 0..MaxRevision /\ job[p].revision + 1 \in 0..MaxRevision
    BY <1>11 DEF IInv, TypeOK, CommitApply, CasAllowed, Job
  <2>3. transitionSeq' \in 0..MaxSeq /\ transitionSeq + 1 \in 1..(MaxSeq + 1)
    BY <1>11, <2>1 DEF IInv, TypeOK, CommitApply
  <2>4. lastBatch' \in Batch
    BY <1>11, <2>2, <2>3 DEF CommitApply, Batch
  <2>5. job' \in [Procs -> Job]
    BY <1>11, <2>2, <2>4 DEF IInv, TypeOK, CommitApply, Job
  <2>6. ledger' = [revision |-> job[p].revision + 1, targets |-> after]
    BY <1>11 DEF CommitApply
  <2>7. /\ ledger' \in [revision : 0..MaxRevision, targets : {NoStatuses} \cup [Targets -> Statuses]]
        /\ Exists' /\ ledger'.targets \in [Targets -> Statuses]
    BY <2>2, <2>6 DEF Exists
  <2> QED
    BY <1>11, <2>3, <2>4, <2>5, <2>7 DEF IInv, TypeOK, CommitApply, Seqs
<1>12. ASSUME NEW p \in Procs, CommitRefused(p) PROVE TypeOK'
  BY <1>12, <1>j DEF IInv, TypeOK, CommitRefused, Exists, Seqs, envelope
<1>13. ASSUME NEW p \in Procs, Tick(p) PROVE TypeOK'
  BY <1>13 DEF IInv, TypeOK, Tick, Exists, Seqs, envelope
<1>14. ASSUME NEW p \in Procs, Crash(p) PROVE TypeOK'
  BY <1>14, <1>j DEF IInv, TypeOK, Crash, Exists, Seqs, envelope
<1>15. ASSUME NEW r \in Readers, ReadList(r) \/ ReadEnvelope(r) PROVE TypeOK'
  BY <1>15 DEF IInv, TypeOK, ReadList, ReadEnvelope, Exists, Seqs, envelope
<1> QED
  BY <1>1, <1>2, <1>3, <1>4, <1>6, <1>7, <1>8, <1>9, <1>10, <1>11, <1>12, <1>13,
     <1>14, <1>15 DEF Next, ProcNext

\* The lease keeps the newest epoch and tokens of one epoch stay unique.
LEMMA LeaseStep == TypeOK /\ LeaseInv /\ [Next]_vars => LeaseInv'
<1> SUFFICES ASSUME TypeOK, LeaseInv, [Next]_vars PROVE LeaseInv'
  OBVIOUS
<1> USE LedgerAssumption
<1>0. maxEpoch \in Nat /\ \A q \in Procs : token[q] \in Nat
  BY DEF TypeOK
<1>1. ASSUME NEW p \in Procs, AcquireLease(p) PROVE LeaseInv'
  <2>1. NextEpoch = maxEpoch + 1
    BY <1>0 DEF LeaseInv, NextEpoch
  <2>2. /\ lease'.epoch = maxEpoch + 1
        /\ maxEpoch' = maxEpoch + 1
        /\ token' = [token EXCEPT ![p] = maxEpoch + 1]
    BY <1>1, <2>1 DEF AcquireLease
  <2> QED
    BY <1>0, <2>2 DEF LeaseInv, TypeOK
<1>2. ASSUME NEW p \in Procs, RenewLease(p) \/ ReleaseLease(p) PROVE LeaseInv'
  <2>1. lease \in StoredLease
    BY <1>2 DEF RenewLease, ReleaseLease, Owns, NoLease, TypeOK
  <2>2. lease'.epoch = lease.epoch
    BY <1>2, <2>1 DEF RenewLease, ReleaseLease, StoredLease
  <2> QED
    BY <1>2, <2>2 DEF RenewLease, ReleaseLease, LeaseInv
<1>3. ASSUME NEW p \in Procs, Crash(p) PROVE LeaseInv'
  BY <1>0, <1>3 DEF Crash, envelope, LeaseInv, TypeOK
<1>4. CASE UNCHANGED <<lease, maxEpoch, token>>
  BY <1>4 DEF LeaseInv
<1> QED
  BY <1>1, <1>2, <1>3, <1>4
  DEF Next, ProcNext, vars, envelope, CreateRun, CommitStart, MaterialiseGet, MaterialisePut,
      MaterialiseDone, MaterialiseFails, CommitApply, CommitRefused, ReadList,
      ReadEnvelope, Tick

-----------------------------------------------------------------------------
\* A step that leaves the store alone keeps StoreInv if it keeps the jobs in order.
LEMMA StoreFrame ==
    ASSUME StoreInv, UNCHANGED <<ledger, transitionSeq, lastBatch, keys>>,
           \A q \in Procs : JobOK(job'[q])
    PROVE  StoreInv'
<1>1. Log' = Log
  BY DEF Log
<1>2. \A q \in Procs : JobOK(job[q])'
  BY <1>1 DEF JobOK, BatchInHistory, Missing
<1> QED
  BY <1>1, <1>2 DEF StoreInv, NoTransitionLost, NothingUncommitted, Missing

\* A process that is in no commit is in order.
LEMMA NoJobOK == ASSUME TypeOK PROVE JobOK(NoJob)
  BY NoBatchType, LedgerAssumption DEF TypeOK, JobOK, NoJob, NoBatch, BatchInHistory

\* A put writes what the history says, so the history reads the same afterwards.
LEMMA PutStep ==
    ASSUME IInv, NEW p \in Procs, MaterialisePut(p)
    PROVE  StoreInv' /\ Log' = Log
<1> DEFINE s == JobSeq(p)
           b == job[p].batch
<1> USE LedgerAssumption
<1>1. job[p] \in Job /\ b \in Batch /\ b.transitions \in Batches
  BY DEF IInv, TypeOK, Job, Batch
<1>2. Len(b.transitions) \in Nat /\ job[p].next \in 1..Len(b.transitions)
  BY <1>1, BatchFacts DEF MaterialisePut, IInv, StoreInv, JobOK, Job
<1>3. BatchInHistory(b)
  BY DEF IInv, StoreInv, JobOK
<1>4. /\ b.revision > 0 /\ b.revision <= ledger.revision
      /\ s \in 1..transitionSeq /\ s \in Seqs
      /\ b.transitions[job[p].next] = Log[s]
      /\ s = b.firstSeq + job[p].next - 1
  <2>1. s = b.firstSeq + job[p].next - 1
    BY DEF JobSeq
  <2>2. /\ b.revision > 0 /\ b.revision <= ledger.revision
        /\ b.firstSeq + job[p].next - 1 <= transitionSeq
        /\ b.transitions[job[p].next] = Log[b.firstSeq + job[p].next - 1]
    BY <1>2, <1>3 DEF BatchInHistory
  <2> QED
    <3>1. transitionSeq \in 0..MaxSeq /\ b.firstSeq \in Nat /\ b.firstSeq >= 1
      BY <1>1 DEF IInv, TypeOK, Batch
    <3> HIDE DEF s, b
    <3> QED
      BY <3>1, <2>1, <2>2, <1>2 DEF Seqs
<1>5. /\ keys' = [keys EXCEPT ![s] = [revision |-> b.revision, transition |-> Log[s]]]
      /\ job' = [job EXCEPT ![p].next = @ + 1, ![p].absent = FALSE]
      /\ UNCHANGED <<ledger, transitionSeq, lastBatch>>
  BY <1>4 DEF MaterialisePut, envelope
<1>6. \A x \in Seqs : /\ ~Missing(x) => keys'[x].revision # 0
                      /\ x # s => keys'[x] = keys[x]
  BY <1>1, <1>4, <1>5 DEF Missing, IInv, TypeOK, Batch
<1>7. keys'[s].transition = Log[s] /\ keys'[s].revision = b.revision /\ keys'[s].revision # 0
  BY <1>1, <1>4, <1>5 DEF Missing, IInv, TypeOK, Batch
<1>8. Log' = Log
  <2>1. \A x \in 1..transitionSeq : x < lastBatch.firstSeq => Log[x] = keys[x].transition
    BY DEF Log, IInv, TypeOK, Batch
  <2>2. \A x \in 1..transitionSeq : x \in Seqs
    BY DEF IInv, TypeOK, Seqs
  <2>3. \A x \in 1..transitionSeq : x < lastBatch.firstSeq => keys'[x].transition = keys[x].transition
    BY <2>1, <2>2, <1>6, <1>7
  <2> QED
    BY <2>3, <1>5 DEF Log, IInv, TypeOK, Batch
<1>9. ASSUME NEW q \in Procs PROVE JobOK(job[q])'
  <2>1. job[q] \in Job /\ JobOK(job[q]) /\ job[q].batch.transitions \in Batches
    BY DEF IInv, TypeOK, StoreInv, Job, Batch
  <2>2. BatchInHistory(job[q].batch)'
    <3>1. job'[q].batch = job[q].batch
      BY <1>5, <2>1 DEF IInv, TypeOK, Job
    <3> QED
      BY <3>1, <2>1, <1>5, <1>8 DEF BatchInHistory, JobOK
  <2>3. \A n \in 1..Len(job[q].batch.transitions) :
           /\ job[q].batch.firstSeq + n - 1 \in Seqs
           /\ n < job[q].next => keys'[job[q].batch.firstSeq + n - 1].revision # 0
    <3> DEFINE c == job[q].batch
    <3>1. /\ transitionSeq \in 0..MaxSeq /\ c.firstSeq \in Nat /\ c.firstSeq >= 1
          /\ Len(c.transitions) \in Nat
      <4>1. c \in Batch /\ transitionSeq \in 0..MaxSeq
        BY <2>1 DEF IInv, TypeOK, Job
      <4>2. Len(c.transitions) \in Nat
        BY <2>1, BatchFacts
      <4> QED
        BY <4>1, <4>2 DEF Batch
    <3>2. \A n \in 1..Len(c.transitions) :
             /\ c.firstSeq + n - 1 <= transitionSeq
             /\ n < job[q].next => ~Missing(c.firstSeq + n - 1)
      BY <2>1 DEF JobOK, BatchInHistory
    <3> HIDE DEF c
    <3>3. \A n \in 1..Len(c.transitions) : c.firstSeq + n - 1 \in Seqs
      BY <3>1, <3>2 DEF Seqs
    <3>4. \A n \in 1..Len(c.transitions) :
             n < job[q].next => keys'[c.firstSeq + n - 1].revision # 0
      BY <3>2, <3>3, <1>6
    <3> QED
      BY <3>3, <3>4 DEF c
  <2>4. CASE q = p
    <3>1. job'[q] = [job[q] EXCEPT !.next = @ + 1, !.absent = FALSE]
      BY <1>5, <2>4 DEF IInv, TypeOK
    <3>2. \A n \in 1..Len(b.transitions) : n < job[p].next + 1 => keys'[b.firstSeq + n - 1].revision # 0
      BY <2>3, <2>4, <1>1, <1>2, <1>4, <1>7 DEF Job
    <3>3. job[p].phase # "cas"
      BY DEF MaterialisePut, Materialising
    <3> QED
      BY <3>1, <3>2, <3>3, <2>1, <2>2, <2>4, <1>1, <1>5 DEF JobOK, Job, Missing
  <2>5. CASE q # p
    <3>1. job'[q] = job[q]
      BY <1>5, <2>5 DEF IInv, TypeOK
    <3> QED
      BY <3>1, <2>1, <2>2, <2>3, <1>5 DEF JobOK, Missing
  <2> QED
    BY <2>4, <2>5
<1>10. NoTransitionLost'
  <2>1. \A x \in 1..(lastBatch.firstSeq - 1) : x \in Seqs /\ ~Missing(x)
    BY DEF IInv, TypeOK, StoreInv, NoTransitionLost, Batch, Seqs
  <2>2. \A x \in 1..(lastBatch.firstSeq - 1) : keys'[x].revision # 0
    BY <2>1, <1>6
  <2> QED
    BY <2>2, <1>5 DEF IInv, StoreInv, NoTransitionLost, Missing
<1>11. NothingUncommitted'
  BY SMTT(40), <1>1, <1>4, <1>5, <1>6, <1>7, <1>8 DEF IInv, TypeOK, StoreInv, NothingUncommitted, Missing, Batch
<1> QED
  BY <1>5, <1>8, <1>9, <1>10, <1>11 DEF IInv, StoreInv

(***************************************************************************)
(* The compare-and-set.  The batch it replaces is the one the process has  *)
(* materialised, so every older transition has its key; the history grows  *)
(* at its end and nowhere else.                                            *)
(***************************************************************************)
LEMMA CommitFacts ==
    ASSUME IInv, NEW p \in Procs, NEW ts \in Batches, NEW after \in [Targets -> Statuses],
           CommitApply(p, ts, after)
    PROVE  /\ \A x \in 1..transitionSeq : ~Missing(x) /\ Log[x] = keys[x].transition
           /\ transitionSeq \in Nat /\ Len(ts) \in Nat
           /\ transitionSeq' = transitionSeq + Len(ts)
           /\ DOMAIN Log = 1..transitionSeq /\ DOMAIN Log' = 1..(transitionSeq + Len(ts))
           /\ \A x \in 1..transitionSeq : Log'[x] = Log[x]
           /\ \A n \in 1..Len(ts) : Log'[transitionSeq + n] = ts[n]
<1> USE LedgerAssumption
<1>1. /\ lastBatch \in Batch /\ transitionSeq \in 0..MaxSeq
      /\ Len(lastBatch.transitions) \in Nat /\ Len(ts) \in Nat
      /\ lastBatch.firstSeq \in 1..(MaxSeq + 1)
  BY BatchFacts DEF IInv, TypeOK, Batch
<1>2. job[p].batch = lastBatch /\ job[p].next > Len(lastBatch.transitions)
  BY DEF CommitApply, CasAllowed, IInv, StoreInv, JobOK
<1>3. \A n \in 1..Len(lastBatch.transitions) : ~Missing(lastBatch.firstSeq + n - 1)
  <2>1. JobOK(job[p]) /\ job[p].next \in Nat
    BY DEF IInv, TypeOK, StoreInv, Job
  <2> QED
    BY <2>1, <1>1, <1>2 DEF JobOK
<1>4. \A x \in 1..transitionSeq : ~Missing(x)
  <2> SUFFICES ASSUME NEW x \in 1..transitionSeq PROVE ~Missing(x)
    OBVIOUS
  <2>0. NoTransitionLost
    BY DEF IInv, StoreInv
  <2>1. CASE x < lastBatch.firstSeq
    BY <2>0, <2>1, <1>1 DEF NoTransitionLost
  <2>2. CASE x >= lastBatch.firstSeq
    <3>1. x - lastBatch.firstSeq + 1 \in 1..Len(lastBatch.transitions)
      BY <2>0, <2>2, <1>1 DEF NoTransitionLost
    <3>2. ~Missing(lastBatch.firstSeq + (x - lastBatch.firstSeq + 1) - 1)
      BY <3>1, <1>3
    <3>3. lastBatch.firstSeq + (x - lastBatch.firstSeq + 1) - 1 = x
      BY <1>1
    <3> QED
      BY <3>2, <3>3
  <2> QED
    BY <2>1, <2>2, <1>1
<1>5. \A x \in 1..transitionSeq : Log[x] = keys[x].transition
  BY <1>1, <1>4 DEF IInv, StoreInv, NothingUncommitted, Seqs
<1>6. /\ transitionSeq' = transitionSeq + Len(ts)
      /\ lastBatch' = [revision |-> job[p].revision + 1, firstSeq |-> transitionSeq + 1,
                       transitions |-> ts]
      /\ keys' = keys
  BY DEF CommitApply
<1>7. Log' = [x \in 1..(transitionSeq + Len(ts)) |->
                IF x >= transitionSeq + 1 THEN ts[x - (transitionSeq + 1) + 1]
                ELSE keys[x].transition]
  BY <1>6 DEF Log
<1>8. \A x \in 1..transitionSeq : Log'[x] = Log[x]
  BY <1>1, <1>5, <1>7
<1>9. \A n \in 1..Len(ts) : Log'[transitionSeq + n] = ts[n]
  <2> SUFFICES ASSUME NEW n \in 1..Len(ts) PROVE Log'[transitionSeq + n] = ts[n]
    OBVIOUS
  <2>1. /\ transitionSeq + n \in 1..(transitionSeq + Len(ts))
        /\ transitionSeq + n >= transitionSeq + 1
        /\ (transitionSeq + n) - (transitionSeq + 1) + 1 = n
    BY <1>1
  <2> QED
    BY <2>1, <1>7
<1> QED
  BY <1>1, <1>4, <1>5, <1>6, <1>7, <1>8, <1>9 DEF Log

LEMMA CommitStep ==
    ASSUME IInv, NEW p \in Procs, NEW ts \in Batches, NEW after \in [Targets -> Statuses],
           CommitApply(p, ts, after)
    PROVE  StoreInv'
<1> USE LedgerAssumption
<1>1. /\ \A x \in 1..transitionSeq : ~Missing(x) /\ Log[x] = keys[x].transition
      /\ transitionSeq \in Nat /\ Len(ts) \in Nat
      /\ transitionSeq' = transitionSeq + Len(ts)
      /\ \A x \in 1..transitionSeq : Log'[x] = Log[x]
      /\ \A n \in 1..Len(ts) : Log'[transitionSeq + n] = ts[n]
  BY CommitFacts
<1>2. /\ job[p].revision = ledger.revision /\ ledger.revision \in Nat
      /\ ledger'.revision = ledger.revision + 1
      /\ lastBatch' = [revision |-> ledger.revision + 1, firstSeq |-> transitionSeq + 1,
                       transitions |-> ts]
      /\ job' = [job EXCEPT ![p] = [phase |-> "post", revision |-> ledger.revision + 1,
                                    batch |-> lastBatch', next |-> 1, absent |-> FALSE]]
      /\ keys' = keys
  BY DEF CommitApply, CasAllowed, IInv, TypeOK
<1>f. /\ lastBatch'.firstSeq = transitionSeq + 1
      /\ lastBatch'.transitions = ts
      /\ lastBatch'.revision = ledger.revision + 1
  BY <1>2
<1>3. NoTransitionLost'
  <2>1. \A x \in 1..transitionSeq : keys'[x].revision # 0
    BY <1>1, <1>2 DEF Missing
  <2>2. (transitionSeq + 1) - 1 = transitionSeq
    BY <1>1
  <2>3. \A x \in 1..(lastBatch'.firstSeq - 1) : keys'[x].revision # 0
    BY <2>1, <2>2, <1>f
  <2>4. lastBatch'.firstSeq + Len(lastBatch'.transitions) = transitionSeq' + 1
    BY <1>1, <1>f
  <2> QED
    BY <2>3, <2>4 DEF NoTransitionLost, Missing
<1>4. NothingUncommitted'
  <2> SUFFICES ASSUME NEW x \in Seqs, keys[x].revision # 0
               PROVE  /\ x <= transitionSeq'
                      /\ keys[x].revision <= ledger'.revision
                      /\ keys[x].transition = Log'[x]
    BY <1>2 DEF NothingUncommitted, Missing
  <2>1. x <= transitionSeq /\ keys[x].revision <= ledger.revision
    BY DEF IInv, StoreInv, NothingUncommitted, Missing
  <2>2. keys[x].revision \in Nat
    BY DEF IInv, TypeOK, Key, NoKey
  <2> QED
    BY <2>1, <2>2, <1>1, <1>2 DEF Seqs
<1>5. ASSUME NEW q \in Procs PROVE JobOK(job[q])'
  <2>1. CASE q = p
    <3>1. job'[q] = [phase |-> "post", revision |-> ledger.revision + 1,
                     batch |-> lastBatch', next |-> 1, absent |-> FALSE]
      BY <1>2, <2>1 DEF IInv, TypeOK
    <3>2. \A n \in 1..Len(ts) : (transitionSeq + 1) + n - 1 = transitionSeq + n
      BY <1>1
    <3>3. BatchInHistory(lastBatch)'
      <4>1. \A n \in 1..Len(ts) : /\ (transitionSeq + 1) + n - 1 <= transitionSeq'
                                  /\ ts[n] = Log'[(transitionSeq + 1) + n - 1]
        BY <3>2, <1>1
      <4>2. ledger.revision + 1 > 0 /\ ledger.revision + 1 <= ledger'.revision
        BY <1>2
      <4> QED
        BY <4>1, <4>2, <1>f DEF BatchInHistory
    <3> QED
      BY <3>1, <3>3, <1>1, <1>2, <1>f DEF JobOK
  <2>2. CASE q # p
    <3> DEFINE c == job[q].batch
    <3>1. job'[q] = job[q] /\ job[q] \in Job /\ JobOK(job[q])
      BY <1>2, <2>2 DEF IInv, TypeOK, StoreInv
    <3>2. c \in Batch /\ Len(c.transitions) \in Nat /\ c.firstSeq \in Nat /\ c.firstSeq >= 1
          /\ c.revision \in Nat
      BY <3>1, BatchFacts DEF Job, Batch
    <3>b. /\ c.revision <= ledger.revision
          /\ \A n \in 1..Len(c.transitions) :
                /\ c.revision > 0
                /\ c.firstSeq + n - 1 <= transitionSeq
                /\ c.transitions[n] = Log[c.firstSeq + n - 1]
      BY <3>1 DEF JobOK, BatchInHistory
    <3>3. ASSUME NEW n \in 1..Len(c.transitions)
          PROVE  /\ c.revision > 0
                 /\ c.firstSeq + n - 1 \in 1..transitionSeq
                 /\ c.transitions[n] = Log[c.firstSeq + n - 1]
      <4>1. c.revision > 0 /\ c.transitions[n] = Log[c.firstSeq + n - 1]
            /\ c.firstSeq + n - 1 <= transitionSeq
        BY <3>b
      <4>2. n \in Nat /\ n >= 1
        BY <3>2
      <4> QED
        BY <4>1, <4>2, <3>2, <1>1
    <3>4. BatchInHistory(job[q].batch)'
      <4>1. c.revision <= ledger'.revision
        BY <3>b, <3>2, <1>2
      <4>2. ASSUME NEW n \in 1..Len(c.transitions)
            PROVE  /\ c.firstSeq + n - 1 <= transitionSeq'
                   /\ c.transitions[n] = Log'[c.firstSeq + n - 1]
        <5>1. /\ c.firstSeq + n - 1 \in 1..transitionSeq
              /\ c.transitions[n] = Log[c.firstSeq + n - 1]
          BY <3>3
        <5>2. Log'[c.firstSeq + n - 1] = Log[c.firstSeq + n - 1]
          BY <5>1, <1>1
        <5>3. c.firstSeq + n - 1 <= transitionSeq'
          BY <5>1, <1>1
        <5> QED
          BY <5>1, <5>2, <5>3
      <4> QED
        BY <4>1, <4>2, <3>1, <3>3 DEF BatchInHistory
    <3>5. job[q].phase # "idle" => job[q].revision < ledger'.revision /\ job[q].revision > 0
      BY <3>1, <1>2 DEF JobOK, Job
    <3> QED
      BY <3>1, <3>4, <3>5, <1>2 DEF JobOK, Missing, Job
  <2> QED
    BY <2>1, <2>2
<1>6. ledger'.revision # 0 /\ lastBatch'.revision <= ledger'.revision /\ lastBatch'.revision > 0
  BY <1>2, <1>f
<1> QED
  BY <1>3, <1>4, <1>5, <1>6 DEF StoreInv

\* Every step keeps the store in order.
LEMMA StoreStep == IInv /\ [Next]_vars => StoreInv'
<1> SUFFICES ASSUME IInv, [Next]_vars PROVE StoreInv'
  OBVIOUS
<1> USE LedgerAssumption
<1>0. TypeOK /\ StoreInv /\ job \in [Procs -> Job] /\ \A q \in Procs : JobOK(job[q])
  BY DEF IInv, TypeOK, StoreInv
<1>1. CASE UNCHANGED <<ledger, transitionSeq, lastBatch, keys, job>>
  BY <1>0, <1>1, StoreFrame
<1>2. CASE CreateRun
  <2>1. transitionSeq = 0 /\ lastBatch = NoBatch /\ ledger.revision = 0
    BY <1>0, <1>2 DEF CreateRun, Exists, StoreInv, TypeOK
  <2>2. Log' = Log
    BY <1>2 DEF CreateRun, Log
  <2>3. ASSUME NEW q \in Procs PROVE JobOK(job[q])'
    <3>1. job[q] \in Job /\ JobOK(job[q]) /\ job'[q] = job[q] /\ job[q].batch \in Batch
      BY <1>0, <1>2 DEF CreateRun, Job
    <3>2. /\ ledger'.revision = 1 /\ job[q].batch.revision \in Nat /\ job[q].revision \in Nat
          /\ UNCHANGED <<transitionSeq, lastBatch, keys>>
      BY <1>2, <3>1 DEF CreateRun, Job, Batch
    <3>3. job[q].phase = "idle"
      BY <3>1, <3>2, <2>1 DEF JobOK
    <3>4. BatchInHistory(job[q].batch)'
      BY <3>1, <3>2, <2>1, <2>2 DEF JobOK, BatchInHistory
    <3> QED
      BY <3>1, <3>2, <3>3, <3>4 DEF JobOK, Missing
  <2>4. NoTransitionLost' /\ NothingUncommitted'
    <3>1. \A x \in Seqs : keys[x].revision = 0
      BY <1>0, <2>1 DEF StoreInv, NothingUncommitted, Missing, Seqs
    <3>2. NoTransitionLost'
      BY <1>0, <1>2 DEF CreateRun, StoreInv, NoTransitionLost, Missing
    <3> QED
      BY <1>2, <3>1, <3>2 DEF CreateRun, NothingUncommitted, Missing
  <2> QED
    BY <1>0, <1>2, <2>1, <2>3, <2>4 DEF CreateRun, StoreInv, NoBatch
<1>3. ASSUME NEW p \in Procs, NEW j, JobOK(j), job' = [job EXCEPT ![p] = j],
             UNCHANGED <<ledger, transitionSeq, lastBatch, keys>>
      PROVE  StoreInv'
  <2>1. \A q \in Procs : JobOK(job'[q])
    BY <1>0, <1>3
  <2> QED
    BY <1>0, <1>3, <2>1, StoreFrame
<1>4. ASSUME NEW p \in Procs, CommitStart(p) PROVE StoreInv'
  <2> DEFINE j == [phase |-> "pre", revision |-> ledger.revision, batch |-> lastBatch,
                   next |-> 1, absent |-> FALSE]
  <2>1. BatchInHistory(lastBatch)
    <3>1. /\ lastBatch \in Batch /\ Len(lastBatch.transitions) \in Nat
          /\ transitionSeq \in Nat
      BY <1>0, BatchFacts DEF TypeOK, Batch
    <3> QED
      BY <1>0, <3>1 DEF StoreInv, NoTransitionLost, BatchInHistory, Log, Batch
  <2>2. JobOK(j)
    BY <1>0, <1>4, <2>1 DEF JobOK, CommitStart, Exists, TypeOK
  <2> QED
    BY <1>3, <1>4, <2>2 DEF CommitStart, envelope
<1>5. ASSUME NEW p \in Procs, MaterialiseGet(p) PROVE StoreInv'
  <2>0. job[p] \in Job /\ JobOK(job[p]) /\ Len(job[p].batch.transitions) \in Nat
    BY <1>0, BatchFacts DEF Job, Batch
  <2>1. CASE Missing(JobSeq(p))
    <3> DEFINE j == [job[p] EXCEPT !.absent = TRUE]
    <3>1. JobOK(j)
      BY <1>5, <2>0 DEF JobOK, Job, MaterialiseGet, MoreToWrite, Materialising
    <3> QED
      BY <1>0, <1>3, <1>5, <2>1, <3>1 DEF MaterialiseGet, envelope
  <2>2. CASE ~Missing(JobSeq(p))
    <3> DEFINE j == [job[p] EXCEPT !.next = @ + 1]
    <3>1. JobOK(j)
      BY SMTT(40), <1>5, <2>0, <2>2 DEF JobOK, Job, MaterialiseGet, MoreToWrite, Materialising, JobSeq
    <3> QED
      BY <1>0, <1>3, <1>5, <2>2, <3>1 DEF MaterialiseGet, envelope
  <2> QED
    BY <2>1, <2>2
<1>6. ASSUME NEW p \in Procs, MaterialisePut(p) PROVE StoreInv'
  BY <1>6, PutStep
<1>7. ASSUME NEW p \in Procs, MaterialiseDone(p) PROVE StoreInv'
  <2>1. CASE job[p].phase = "pre"
    <3> DEFINE j == [job[p] EXCEPT !.phase = "cas"]
    <3>0. job[p] \in Job /\ JobOK(job[p]) /\ Len(job[p].batch.transitions) \in Nat
      BY <1>0, BatchFacts DEF Job, Batch
    <3>1. JobOK(j)
      BY <1>7, <2>1, <3>0 DEF JobOK, Job, MaterialiseDone, MoreToWrite
    <3> QED
      BY <1>0, <1>3, <1>7, <2>1, <3>1 DEF MaterialiseDone, envelope
  <2>2. CASE job[p].phase # "pre"
    BY <1>0, <1>3, <1>7, <2>2, NoJobOK DEF MaterialiseDone, envelope
  <2> QED
    BY <2>1, <2>2
<1>8. ASSUME NEW p \in Procs, MaterialiseFails(p) \/ CommitRefused(p) \/ Crash(p)
      PROVE  StoreInv'
  BY <1>0, <1>3, <1>8, NoJobOK DEF MaterialiseFails, CommitRefused, Crash, envelope
<1>9. ASSUME NEW p \in Procs, NEW ts \in Batches, NEW after \in [Targets -> Statuses],
             CommitApply(p, ts, after)
      PROVE  StoreInv'
  BY <1>9, CommitStep
<1> QED
  BY <1>1, <1>2, <1>4, <1>5, <1>6, <1>7, <1>8, <1>9
  DEF Next, ProcNext, vars, envelope, AcquireLease, RenewLease, ReleaseLease, Tick,
      ReadList, ReadEnvelope

LEMMA InitIInv == Init => IInv
<1> SUFFICES ASSUME Init PROVE IInv
  OBVIOUS
<1>1. TypeOK
  BY InitType
<1>2. LeaseInv
  BY DEF Init, LeaseInv, NoLease
<1>3. NoTransitionLost
  BY NoBatchType DEF Init, NoTransitionLost, NoBatch
<1>4. NothingUncommitted
  BY DEF Init, NothingUncommitted, Missing, NoKey
<1>5. \A p \in Procs : JobOK(job[p])
  BY <1>1, NoJobOK DEF Init
<1>6. lastBatch.revision = 0 /\ Len(lastBatch.transitions) = 0
  BY NoBatchType DEF Init, NoBatch
<1> QED
  BY <1>1, <1>2, <1>3, <1>4, <1>5, <1>6 DEF IInv, StoreInv, Init

\* The inductive invariant holds in every reachable state.
THEOREM LedgerInvariant == Spec => []IInv
<1>1. Init => IInv
  BY InitIInv
<1>2. IInv /\ [Next]_vars => IInv'
  BY TypeStep, LeaseStep, StoreStep DEF IInv
<1> QED
  BY <1>1, <1>2, PTL DEF Spec

\* Type correctness of the ledger store.
THEOREM LedgerTypeCorrect == Spec => []TypeOK
  BY LedgerInvariant, PTL DEF IInv

\* At most one process can pass assertCurrentLease at a time, for any number of
\* processes, whatever holder ids they share and however their clocks differ.
THEOREM LedgerSoleCommitter == Spec => []SoleCommitter
<1>1. ASSUME IInv, NEW p \in Procs, NEW q \in Procs, CurrentLease(p), CurrentLease(q)
      PROVE  p = q
  <2>1. token[p] = token[q] /\ token[p] > 0
    BY <1>1 DEF CurrentLease, Owns
  <2>2. token[p] \in Nat
    BY <1>1 DEF IInv, TypeOK
  <2>3. token[p] # 0
    BY <2>1, <2>2
  <2> QED
    BY <1>1, <2>1, <2>3 DEF IInv, LeaseInv
<1>2. IInv => SoleCommitter
  BY <1>1 DEF SoleCommitter
<1> QED
  BY <1>2, LedgerInvariant, PTL

\* No committed transition is ever lost, whatever process crashes or fails where.
THEOREM LedgerNoTransitionLost == Spec => []NoTransitionLost
<1>1. IInv => NoTransitionLost
  BY DEF IInv, StoreInv
<1> QED
  BY <1>1, LedgerInvariant, PTL

\* No transition key is visible without the ledger write it belongs to.
THEOREM LedgerNothingUncommitted == Spec => []NothingUncommitted
<1>1. IInv => NothingUncommitted
  BY DEF IInv, StoreInv
<1> QED
  BY <1>1, LedgerInvariant, PTL

\* Fencing: a commit lands only under the newest epoch issued so far.
THEOREM LedgerFencedCommits == Spec => FencedCommits
<1>1. ASSUME IInv, [Next]_vars, NEW p \in Procs, job[p].phase = "cas", job'[p].phase = "post"
      PROVE  token[p] = maxEpoch /\ \A q \in Procs \ {p} : token[q] < token[p]
  <2>1. CurrentLease(p)
    <3>0. NoJob.phase = "idle"
      BY DEF NoJob
    <3>1. job \in [Procs -> Job] /\ NoJob.phase = "idle"
      BY <1>1, <3>0 DEF IInv, TypeOK
    <3>2. job' # job
      BY <1>1
    <3>3. PICK q \in Procs : ProcNext(q)
      BY <1>1, <3>2 DEF Next, vars, CreateRun, ReadList, ReadEnvelope
    <3>4. \A x \in Procs \ {q} : job'[x] = job[x]
      BY <3>1, <3>3
      DEF ProcNext, AcquireLease, RenewLease, ReleaseLease, CommitStart, MaterialiseGet,
          MaterialisePut, MaterialiseDone, MaterialiseFails, CommitApply, CommitRefused,
          Tick, Crash
    <3>5. q = p
      BY <1>1, <3>4
    <3> QED
      BY <1>1, <3>1, <3>3, <3>5
      DEF ProcNext, AcquireLease, RenewLease, ReleaseLease, CommitStart, MaterialiseGet,
          MaterialisePut, MaterialiseDone, MaterialiseFails, CommitApply, CommitRefused,
          Tick, Crash, Materialising, CasAllowed
  <2> QED
    BY <1>1, <2>1 DEF IInv, TypeOK, LeaseInv, CurrentLease, Owns
<1>2. IInv /\ [Next]_vars =>
        [\A p \in Procs : job[p].phase = "cas" /\ job'[p].phase = "post"
            => /\ token[p] = maxEpoch
               /\ \A q \in Procs \ {p} : token[q] < token[p]]_vars
  BY <1>1
<1> QED
  BY <1>2, LedgerInvariant, PTL DEF Spec, FencedCommits

-----------------------------------------------------------------------------
(***************************************************************************)
(* Explanations compose: a history that explains how the targets came from *)
(* h to m, followed by transitions that explain m to l, explains h to l.   *)
(***************************************************************************)
LEMMA ExplainsConcat ==
    ASSUME NEW h, NEW m, NEW l, NEW f \in Seq(Transition), NEW ts \in Seq(Transition),
           Explains(h, m, f), Explains(m, l, ts)
    PROVE  Explains(h, l, f \o ts)
<1> DEFINE n == Len(f)
           k == Len(ts)
           g == f \o ts
<1>a. /\ n \in Nat /\ k \in Nat
      /\ DOMAIN f = 1..n /\ DOMAIN ts = 1..k /\ DOMAIN g = 1..(n + k)
      /\ \A x \in 1..n : g[x] = f[x]
      /\ \A i \in 1..k : g[n + i] = ts[i]
  <2>1. n \in Nat /\ k \in Nat /\ DOMAIN f = 1..n /\ DOMAIN ts = 1..k
    BY LenProperties
  <2>2. g \in Seq(Transition) /\ Len(g) = n + k /\ DOMAIN g = 1..(n + k)
    BY ConcatProperties, LenProperties
  <2>3. \A x \in 1..n : g[x] = f[x]
    BY <2>1, ConcatProperties
  <2>4. ASSUME NEW i \in 1..k PROVE g[n + i] = ts[i]
    <3>1. n + i \in 1..(Len(f) + Len(ts)) /\ ~(n + i <= Len(f)) /\ (n + i) - Len(f) = i
      BY <2>1
    <3>2. \A x \in 1..(Len(f) + Len(ts)) :
             (f \o ts)[x] = IF x <= Len(f) THEN f[x] ELSE ts[x - Len(f)]
      BY ConcatProperties
    <3>3. (f \o ts)[n + i] = ts[(n + i) - Len(f)]
      BY <3>1, <3>2
    <3> QED
      BY <3>1, <3>3
  <2> QED
    BY <2>1, <2>2, <2>3, <2>4
<1>b. \A x \in 1..(n + k) : g[x].targetId \in Targets
  <2>1. \A x \in DOMAIN g : g[x] \in Transition
    BY ConcatProperties, ElementOfSeq, LenProperties
  <2> QED
    BY <2>1, <1>a DEF Transition
<1> HIDE DEF n, k, g
<1> USE <1>a, <1>b
<1>0. \A x \in 1..(n + k) : x > n => x - n \in 1..k /\ g[x] = ts[x - n]
  <2> SUFFICES ASSUME NEW x \in 1..(n + k), x > n PROVE x - n \in 1..k /\ g[x] = ts[x - n]
    OBVIOUS
  <2>1. x - n \in 1..k /\ n + (x - n) = x
    OBVIOUS
  <2> QED
    BY <2>1
<1>e. /\ \A i \in 1..k : FirstFor(ts, i) => ts[i].fromState = m[ts[i].targetId]
      /\ \A i, j \in 1..k : Precedes(ts, j, i) => ts[i].fromState = ts[j].toState
  BY DEF Explains
<1>1. ASSUME NEW x \in 1..(n + k), FirstFor(g, x) PROVE g[x].fromState = h[g[x].targetId]
  <2>1. CASE x <= n
    <3>1. x \in 1..n /\ FirstFor(f, x)
      BY <1>1, <2>1 DEF FirstFor
    <3> QED
      BY <3>1 DEF Explains
  <2>2. CASE x > n
    <3>1. x - n \in 1..k /\ g[x] = ts[x - n]
      BY <1>0, <2>2
    <3>2. FirstFor(ts, x - n)
      <4> SUFFICES ASSUME NEW i \in 1..k, i < x - n PROVE ts[i].targetId # ts[x - n].targetId
        BY DEF FirstFor
      <4>1. n + i \in 1..(n + k) /\ n + i < x
        BY <3>1
      <4> QED
        BY <1>1, <3>1, <4>1 DEF FirstFor
    <3>3. ASSUME NEW y \in 1..n PROVE f[y].targetId # g[x].targetId
      <4>1. y \in DOMAIN g /\ y < x /\ g[y] = f[y]
        BY <2>2
      <4> QED
        BY <1>1, <4>1 DEF FirstFor
    <3>4. m[g[x].targetId] = h[g[x].targetId]
      BY <3>3 DEF Explains
    <3>5. ts[x - n].fromState = m[ts[x - n].targetId]
      BY <3>1, <3>2, <1>e
    <3> QED
      BY <3>1, <3>4, <3>5
  <2> QED
    BY <2>1, <2>2
<1>2. ASSUME NEW x \in 1..(n + k), LastFor(g, x) PROVE g[x].toState = l[g[x].targetId]
  <2>1. CASE x > n
    <3>1. x - n \in 1..k /\ g[x] = ts[x - n]
      BY <1>0, <2>1
    <3>2. LastFor(ts, x - n)
      <4> SUFFICES ASSUME NEW i \in 1..k, x - n < i PROVE ts[i].targetId # ts[x - n].targetId
        BY DEF LastFor
      <4>1. n + i \in 1..(n + k) /\ x < n + i
        BY <3>1
      <4> QED
        BY <1>2, <3>1, <4>1 DEF LastFor
    <3> QED
      BY <3>1, <3>2 DEF Explains
  <2>2. CASE x <= n
    <3>1. x \in 1..n /\ LastFor(f, x)
      BY <1>2, <2>2 DEF LastFor
    <3>2. ASSUME NEW i \in 1..k PROVE ts[i].targetId # g[x].targetId
      <4>1. n + i \in 1..(n + k) /\ x < n + i
        BY <2>2
      <4> QED
        BY <1>2, <4>1 DEF LastFor
    <3>3. l[g[x].targetId] = m[g[x].targetId]
      BY <3>2 DEF Explains
    <3> QED
      BY SMTT(40), <3>1, <3>3 DEF Explains
  <2> QED
    BY <2>1, <2>2
<1>3. ASSUME NEW x \in 1..(n + k), NEW y \in 1..(n + k), Precedes(g, y, x)
      PROVE  g[x].fromState = g[y].toState
  <2>0. y < x /\ g[y].targetId = g[x].targetId
    BY <1>3 DEF Precedes
  <2>1. CASE x <= n
    <3>1. x \in 1..n /\ y \in 1..n /\ Precedes(f, y, x)
      BY <1>3, <2>0, <2>1 DEF Precedes
    <3> QED
      BY <3>1 DEF Explains
  <2>2. CASE y > n
    <3>1. /\ x - n \in 1..k /\ g[x] = ts[x - n]
          /\ y - n \in 1..k /\ g[y] = ts[y - n]
      BY <1>0, <2>0, <2>2
    <3>2. ASSUME NEW i \in 1..k, y - n < i, i < x - n PROVE ts[i].targetId # ts[x - n].targetId
      <4>1. n + i \in 1..(n + k) /\ y < n + i /\ n + i < x
        BY <3>1, <3>2
      <4> QED
        BY <1>3, <3>1, <4>1 DEF Precedes
    <3>3. Precedes(ts, y - n, x - n)
      BY <3>1, <3>2, <2>0 DEF Precedes
    <3> QED
      BY <3>1, <3>3, <1>e
  <2>3. CASE y <= n /\ x > n
    <3>1. y \in 1..n /\ LastFor(f, y)
      BY <1>3, <2>0, <2>3 DEF Precedes, LastFor
    <3>2. f[y].toState = m[f[y].targetId]
      BY <3>1 DEF Explains
    <3>3. x - n \in 1..k /\ g[x] = ts[x - n]
      BY <1>0, <2>3
    <3>4. FirstFor(ts, x - n)
      <4> SUFFICES ASSUME NEW i \in 1..k, i < x - n PROVE ts[i].targetId # ts[x - n].targetId
        BY DEF FirstFor
      <4>1. n + i \in 1..(n + k) /\ y < n + i /\ n + i < x
        BY <3>3, <2>3
      <4> QED
        BY <1>3, <3>3, <4>1 DEF Precedes
    <3>5. ts[x - n].fromState = m[ts[x - n].targetId]
      BY <3>3, <3>4 DEF Explains
    <3> QED
      BY <3>1, <3>2, <3>3, <3>5, <2>0
  <2> QED
    BY <2>1, <2>2, <2>3
<1>4. ASSUME NEW t \in Targets, \A x \in 1..(n + k) : g[x].targetId # t PROVE l[t] = h[t]
  <2>1. \A x \in 1..n : f[x].targetId # t
    BY <1>4
  <2>2. ASSUME NEW i \in 1..k PROVE ts[i].targetId # t
    <3>1. n + i \in 1..(n + k)
      OBVIOUS
    <3> QED
      BY <1>4, <3>1
  <2>3. m[t] = h[t]
    BY <2>1 DEF Explains
  <2>4. l[t] = m[t]
    BY <2>2 DEF Explains
  <2> QED
    BY <2>3, <2>4
<1> QED
  BY <1>1, <1>2, <1>3, <1>4 DEF Explains, g

\* Only the compare-and-set changes the history, only it and createRun the statuses.
LEMMA OtherSteps ==
    ASSUME IInv, [Next]_vars, ~CreateRun,
           ~\E p \in Procs, ts \in Batches, after \in [Targets -> Statuses] :
               CommitApply(p, ts, after)
    PROVE  ledger' = ledger /\ Log' = Log
<1>1. CASE UNCHANGED <<ledger, transitionSeq, lastBatch, keys>>
  BY <1>1 DEF Log
<1>2. ASSUME NEW p \in Procs, MaterialisePut(p) PROVE ledger' = ledger /\ Log' = Log
  BY <1>2, PutStep DEF MaterialisePut, envelope
<1> QED
  BY <1>1, <1>2
  DEF Next, ProcNext, vars, envelope, AcquireLease, RenewLease, ReleaseLease, CommitStart,
      MaterialiseGet, MaterialiseDone, MaterialiseFails, CommitRefused, ReadList,
      ReadEnvelope, Tick, Crash

\* The transitions the history holds are transitions of known targets.
LEMMA LogType ==
    ASSUME IInv
    PROVE  /\ transitionSeq \in Nat /\ DOMAIN Log = 1..transitionSeq
           /\ \A x \in 1..transitionSeq : Log[x] \in Transition
           /\ Log \in Seq(Transition) /\ Len(Log) = transitionSeq
<1> USE LedgerAssumption
<1>1. /\ transitionSeq \in 0..MaxSeq /\ lastBatch \in Batch
      /\ keys \in [Seqs -> Key \cup {NoKey}] /\ NoTransitionLost
  BY DEF IInv, TypeOK, StoreInv
<1>2. /\ lastBatch.firstSeq \in 1..(MaxSeq + 1) /\ Len(lastBatch.transitions) \in Nat
      /\ \A n \in 1..Len(lastBatch.transitions) : lastBatch.transitions[n] \in Transition
  BY <1>1, BatchFacts DEF Batch
<1>3. ASSUME NEW x \in 1..transitionSeq PROVE Log[x] \in Transition
  <2>1. CASE x >= lastBatch.firstSeq
    <3>1. x - lastBatch.firstSeq + 1 \in 1..Len(lastBatch.transitions)
      BY <1>1, <1>2, <2>1 DEF NoTransitionLost
    <3>2. Log[x] = lastBatch.transitions[x - lastBatch.firstSeq + 1]
      BY <2>1 DEF Log
    <3> QED
      BY <3>1, <3>2, <1>2
  <2>2. CASE ~(x >= lastBatch.firstSeq)
    <3>1. x \in Seqs /\ ~Missing(x)
      BY <1>1, <1>2, <2>2 DEF NoTransitionLost, Seqs
    <3>2. keys[x] \in Key
      BY <1>1, <3>1 DEF Missing, NoKey
    <3> QED
      BY <2>2, <3>2 DEF Log, Key
  <2> QED
    BY <2>1, <2>2
<1>4. transitionSeq \in Nat /\ Log \in [1..transitionSeq -> Transition]
  BY <1>1, <1>3 DEF Log
<1>5. Log \in Seq(Transition) /\ Len(Log) = transitionSeq
  BY <1>4, LenProperties
<1> QED
  BY <1>3, <1>4, <1>5

\* A commit appends its transitions to the history.
LEMMA CommitAppends ==
    ASSUME IInv, NEW p \in Procs, NEW ts \in Batches, NEW after \in [Targets -> Statuses],
           CommitApply(p, ts, after)
    PROVE  /\ ts \in Seq(Transition) /\ Log \in Seq(Transition)
           /\ Log' = Log \o ts
<1>1. /\ transitionSeq \in Nat /\ Len(ts) \in Nat
      /\ transitionSeq' = transitionSeq + Len(ts)
      /\ DOMAIN Log' = 1..(transitionSeq + Len(ts))
      /\ \A x \in 1..transitionSeq : Log'[x] = Log[x]
      /\ \A n \in 1..Len(ts) : Log'[transitionSeq + n] = ts[n]
  BY CommitFacts
<1>2. ts \in Seq(Transition) /\ Log \in Seq(Transition) /\ Len(Log) = transitionSeq
  BY BatchFacts, LogType
<1> DEFINE g == Log \o ts
<1>3. /\ g \in Seq(Transition) /\ Len(g) = transitionSeq + Len(ts)
      /\ \A x \in 1..(transitionSeq + Len(ts)) :
            g[x] = IF x <= transitionSeq THEN Log[x] ELSE ts[x - transitionSeq]
  BY <1>2, ConcatProperties
<1>4. DOMAIN g = 1..(transitionSeq + Len(ts))
  BY <1>3, LenProperties
<1>5. ASSUME NEW x \in 1..(transitionSeq + Len(ts)) PROVE Log'[x] = g[x]
  <2>1. CASE x <= transitionSeq
    BY <1>1, <1>3, <2>1
  <2>2. CASE ~(x <= transitionSeq)
    <3>1. x - transitionSeq \in 1..Len(ts) /\ transitionSeq + (x - transitionSeq) = x
      BY <1>1, <2>2
    <3>2. Log'[x] = ts[x - transitionSeq]
      BY <1>1, <3>1
    <3> QED
      BY <1>3, <2>2, <3>2
  <2> QED
    BY <2>1, <2>2
<1>6. Log' = [x \in 1..(transitionSeq + Len(ts)) |-> Log'[x]]
  BY <1>1 DEF Log
<1> HIDE DEF g
<1>7. g = [x \in DOMAIN g |-> g[x]]
  <2>1. g \in [1..Len(g) -> Transition]
    BY <1>3, LenProperties
  <2> QED
    BY <2>1
<1>8. Log' = g
  BY <1>4, <1>5, <1>6, <1>7
<1> QED
  BY <1>2, <1>8 DEF g

\* All commits together explain the statuses the ledger shows.
THEOREM LedgerHistoryExplains == Spec => []HistoryExplainsLedger
<1>1. Init => HistoryExplainsLedger
  BY DEF Init, HistoryExplainsLedger, Exists
<1>2. ASSUME IInv, IInv', HistoryExplainsLedger, [Next]_vars PROVE HistoryExplainsLedger'
  <2>1. CASE CreateRun
    <3>1. transitionSeq' = 0 /\ ledger'.targets = InitialStatuses
      BY <1>2, <2>1, LedgerAssumption DEF IInv, TypeOK, StoreInv, CreateRun, Exists
    <3>2. DOMAIN Log' = {}
      BY <3>1 DEF Log
    <3> QED
      BY <3>1, <3>2 DEF HistoryExplainsLedger, Explains
  <2>2. ASSUME NEW p \in Procs, NEW ts \in Batches, NEW after \in [Targets -> Statuses],
               CommitApply(p, ts, after)
        PROVE  HistoryExplainsLedger'
    <3>1. ts \in Seq(Transition) /\ Log \in Seq(Transition) /\ Log' = Log \o ts
      BY <1>2, <2>2, CommitAppends
    <3>4. Explains(InitialStatuses, ledger.targets, Log)
      BY <1>2, <2>2 DEF HistoryExplainsLedger, CommitApply, CasAllowed, CurrentLease, IInv,
                        TypeOK, StoreInv, JobOK, Exists
    <3>5. Explains(ledger.targets, after, ts) /\ ledger'.targets = after
      BY <2>2 DEF CommitApply, ValidCommit
    <3>6. Explains(InitialStatuses, after, Log')
      BY <3>1, <3>4, <3>5, ExplainsConcat
    <3> QED
      BY <3>5, <3>6 DEF HistoryExplainsLedger
  <2>3. CASE ledger' = ledger /\ Log' = Log
    BY <1>2, <2>3 DEF HistoryExplainsLedger, Exists
  <2> QED
    BY <1>2, <2>1, <2>2, <2>3, OtherSteps
<1> QED
  BY <1>1, <1>2, LedgerInvariant, PTL DEF Spec

(***************************************************************************)
(* The ledger implements the abstract run history.                         *)
(***************************************************************************)
THEOREM LedgerRefinesHistory == Spec => HistoryRefined
<1>1. Init => History!HInit
  <2> SUFFICES ASSUME Init PROVE History!HInit
    OBVIOUS
  <2>1. ledger.targets = NoStatuses /\ transitionSeq = 0
    BY DEF Init
  <2>2. Log = <<>>
    BY <2>1 DEF Log
  <2> QED
    BY <2>1, <2>2 DEF History!HInit, History!NoStatuses, NoStatuses
<1>2. ASSUME IInv, IInv', [Next]_vars PROVE [History!HNext]_(History!hvars)
  <2>1. CASE CreateRun
    <3>1. ledger.targets = NoStatuses /\ ledger'.targets = InitialStatuses
      BY <1>2, <2>1 DEF CreateRun, Exists, IInv, TypeOK
    <3>2. Log' = Log
      BY <2>1 DEF CreateRun, Log
    <3> QED
      BY <3>1, <3>2
      DEF History!HNext, History!HCreate, History!NoStatuses, History!InitialStatuses,
          NoStatuses, InitialStatuses
  <2>2. ASSUME NEW p \in Procs, NEW ts \in Batches, NEW after \in [Targets -> Statuses],
               CommitApply(p, ts, after)
        PROVE  History!HNext
    <3>1. ts \in Seq(Transition) /\ Log \in Seq(Transition) /\ Log' = Log \o ts
      BY <1>2, <2>2, CommitAppends
    <3>2. Log' \in Seq(Transition) /\ Len(Log') = Len(Log) + Len(ts)
      BY <3>1, ConcatProperties
    <3>3. SubSeq(Log', Len(Log) + 1, Len(Log')) = ts
      <4> DEFINE n == Len(Log)
                 g == Log'
                 u == SubSeq(g, n + 1, n + Len(ts))
      <4>1. n \in Nat /\ Len(ts) \in Nat /\ \A x \in 1..Len(ts) : ts[x] \in Transition
        BY <3>1, LenProperties
      <4>2. \A x \in (n + 1)..(n + Len(ts)) : g[x] \in Transition
        BY <3>1, <3>2, <4>1, LenProperties
      <4>3. \A x \in 1..Len(ts) : g[n + x] = ts[x]
        <5> SUFFICES ASSUME NEW x \in 1..Len(ts) PROVE g[n + x] = ts[x]
          OBVIOUS
        <5>1. n + x \in 1..(n + Len(ts)) /\ ~(n + x <= n) /\ (n + x) - n = x
          BY <4>1
        <5>2. (Log \o ts)[n + x] = ts[(n + x) - n]
          BY <5>1, <3>1, ConcatProperties
        <5> QED
          BY <5>1, <5>2, <3>1
      <4> HIDE DEF g, n
      <4>4. /\ u \in Seq(Transition)
            /\ Len(u) = IF n + 1 <= n + Len(ts) THEN n + Len(ts) - (n + 1) + 1 ELSE 0
            /\ \A x \in 1..(n + Len(ts) - (n + 1) + 1) : u[x] = g[n + 1 + x - 1]
        BY <4>1, <4>2, SubSeqProperties
      <4>5. Len(u) = Len(ts)
        BY <4>1, <4>4
      <4>6. \A x \in 1..Len(ts) : u[x] = ts[x]
        <5> SUFFICES ASSUME NEW x \in 1..Len(ts) PROVE u[x] = ts[x]
          OBVIOUS
        <5>1. x \in 1..(n + Len(ts) - (n + 1) + 1) /\ n + 1 + x - 1 = n + x
          BY <4>1
        <5> QED
          BY <5>1, <4>3, <4>4
      <4> HIDE DEF u
      <4>7. u \in [1..Len(ts) -> Transition] /\ ts \in [1..Len(ts) -> Transition]
        BY <3>1, <4>4, <4>5, LenProperties
      <4>8. u = ts
        BY <4>6, <4>7
      <4> QED
        BY <4>8, <3>2 DEF u, g, n
    <3>4. Explains(ledger.targets, after, ts) /\ ledger'.targets = after
      BY <2>2 DEF CommitApply, ValidCommit
    <3>5. ledger.targets # NoStatuses
      <4>1. Exists
        BY <1>2, <2>2 DEF CommitApply, CasAllowed, IInv, StoreInv, JobOK, Exists, TypeOK
      <4> QED
        BY <1>2, <4>1, NoStatusesFact DEF IInv, TypeOK
    <3>6. History!Explains(ledger.targets, ledger'.targets, ts)
      BY <3>4
      DEF Explains, FirstFor, LastFor, Precedes, History!Explains, History!FirstFor,
          History!LastFor, History!Precedes
    <3> QED
      BY <3>1, <3>2, <3>3, <3>4, <3>5, <3>6
      DEF History!HNext, History!HCommit, History!NoStatuses, NoStatuses,
          History!Transition, Transition
  <2>3. CASE ledger' = ledger /\ Log' = Log
    BY <2>3 DEF History!hvars
  <2> QED
    BY <1>2, <2>1, <2>2, <2>3, OtherSteps
<1> QED
  BY <1>1, <1>2, LedgerInvariant, PTL DEF Spec, HistoryRefined, History!HSpec
-----------------------------------------------------------------------------
(* Readers *)

\* A transitions() call has the fields it has, whatever it has read.
ReadShape ==
    /\ DOMAIN reading = Readers
    /\ \A r \in Readers :
          DOMAIN reading[r] = {"phase", "listed", "revision", "limit", "result"}

(***************************************************************************)
(* A call that has listed the keys has every transition below the batch of *)
(* the envelope, as long as no commit has replaced that batch, which only  *)
(* a newer revision does.                                                  *)
(***************************************************************************)
ReadOK(x) ==
    /\ x.phase = "listed" =>
          /\ x.revision \in 0..ledger.revision
          /\ DOMAIN x.listed \subseteq Seqs
          /\ x.revision = ledger.revision => 1..(lastBatch.firstSeq - 1) \subseteq DOMAIN x.listed
    /\ x.phase = "done" /\ x.revision > 0 => DOMAIN x.result = 1..x.limit

ReadInv == ReadShape /\ \A r \in Readers : ReadOK(reading[r])

LEMMA InitReadInv == Init => ReadInv
  BY DEF Init, NoRead, ReadInv, ReadShape, ReadOK

\* A revision is never written twice: a step that leaves the revision alone leaves
\* the batch of the envelope alone.
LEMMA BatchOfRevision ==
    ASSUME IInv, [Next]_vars
    PROVE  \/ ledger'.revision = ledger.revision /\ lastBatch' = lastBatch
           \/ ledger'.revision = ledger.revision + 1
<1>1. CASE CreateRun
  BY <1>1 DEF CreateRun, Exists, IInv, TypeOK
<1>2. ASSUME NEW p \in Procs, NEW ts \in Batches, NEW after \in [Targets -> Statuses],
             CommitApply(p, ts, after)
      PROVE  ledger'.revision = ledger.revision + 1
  BY <1>2 DEF CommitApply, CasAllowed
<1>3. CASE UNCHANGED <<ledger, lastBatch>>
  BY <1>3
<1>4. ASSUME NEW p \in Procs, ProcNext(p),
             ~ \E ts \in Batches, after \in [Targets -> Statuses] : CommitApply(p, ts, after)
      PROVE  UNCHANGED <<ledger, lastBatch>>
  BY <1>4 DEF ProcNext, AcquireLease, RenewLease, ReleaseLease, CommitStart, MaterialiseGet,
              MaterialisePut, MaterialiseDone, MaterialiseFails, CommitRefused, Tick, Crash, envelope
<1>5. ASSUME NEW r \in Readers, ReadList(r) \/ ReadEnvelope(r) PROVE UNCHANGED <<ledger, lastBatch>>
  BY <1>5 DEF ReadList, ReadEnvelope, envelope
<1>6. CASE UNCHANGED vars
  BY <1>6 DEF vars
<1> QED
  BY <1>1, <1>2, <1>3, <1>4, <1>5, <1>6 DEF Next

\* A step that is not a reader's keeps what the readers have.
LEMMA ReadersKept ==
    ASSUME IInv, ReadInv, [Next]_vars, reading' = reading
    PROVE  ReadInv'
<1>1. ledger.revision \in Nat
  BY LedgerAssumption DEF IInv, TypeOK
<1>2. ASSUME NEW r \in Readers PROVE ReadOK(reading[r])'
  <2>1. ReadOK(reading[r])
    BY DEF ReadInv
  <2>2. CASE ledger'.revision = ledger.revision /\ lastBatch' = lastBatch
    BY <2>1, <2>2 DEF ReadOK
  <2>3. CASE ledger'.revision = ledger.revision + 1
    <3>1. reading[r].phase = "listed" =>
            /\ reading[r].revision \in 0..ledger'.revision
            /\ reading[r].revision # ledger'.revision
      BY <1>1, <2>1, <2>3 DEF ReadOK
    <3> QED
      BY <2>1, <3>1 DEF ReadOK
  <2> QED
    BY <2>2, <2>3, BatchOfRevision
<1> QED
  BY <1>2 DEF ReadInv, ReadShape

\* Every step keeps what the readers have.
LEMMA ReadStep == IInv /\ ReadInv /\ [Next]_vars => ReadInv'
<1> SUFFICES ASSUME IInv, ReadInv, [Next]_vars PROVE ReadInv'
  OBVIOUS
<1>1. /\ ledger.revision \in Nat /\ transitionSeq \in Nat
      /\ lastBatch.firstSeq \in Nat \ {0} /\ Len(lastBatch.transitions) \in Nat
      /\ lastBatch.firstSeq + Len(lastBatch.transitions) = transitionSeq + 1
      /\ \A s \in 1..(lastBatch.firstSeq - 1) : ~Missing(s)
      /\ transitionSeq \in 0..MaxSeq /\ MaxSeq \in Nat
  <2>1. Len(lastBatch.transitions) \in 0..MaxBatch
    BY BatchFacts DEF IInv, TypeOK, Batch
  <2> QED
    BY <2>1, LedgerAssumption DEF IInv, StoreInv, NoTransitionLost, TypeOK, Batch
<1>2. ASSUME NEW r \in Readers, NEW x, UNCHANGED envelope,
             reading' = [reading EXCEPT ![r] = x], ReadOK(x),
             DOMAIN x = {"phase", "listed", "revision", "limit", "result"}
      PROVE  ReadInv'
  <2>1. /\ reading'[r] = x /\ \A q \in Readers \ {r} : reading'[q] = reading[q]
        /\ DOMAIN reading' = Readers
    BY <1>2 DEF ReadInv, ReadShape
  <2>2. ledger' = ledger /\ lastBatch' = lastBatch
    BY <1>2 DEF envelope
  <2>3. \A q \in Readers : ReadOK(reading[q])'
    BY <1>2, <2>1, <2>2 DEF ReadInv, ReadOK
  <2> QED
    BY <1>2, <2>1, <2>3 DEF ReadInv, ReadShape
<1>3. ASSUME NEW r \in Readers, ReadList(r) PROVE ReadInv'
  <2> DEFINE D == {n \in Seqs : ~Missing(n)}
             x == [phase |-> "listed", listed |-> [s \in D |-> keys[s].transition],
                   revision |-> ledger.revision, limit |-> 0, result |-> <<>>]
  <2>1. reading' = [reading EXCEPT ![r] = x] /\ UNCHANGED envelope
    BY <1>3 DEF ReadList
  <2>2. 1..(lastBatch.firstSeq - 1) \subseteq D
    BY <1>1 DEF Seqs
  <2>3. ReadOK(x)
    BY <1>1, <2>2 DEF ReadOK
  <2>4. DOMAIN x = {"phase", "listed", "revision", "limit", "result"}
    OBVIOUS
  <2> HIDE DEF x
  <2> QED
    BY <1>2, <2>1, <2>3, <2>4
<1>4. ASSUME NEW r \in Readers, ReadEnvelope(r) PROVE ReadInv'
  <2> DEFINE old == reading[r]
             found == {s \in DOMAIN old.listed \cup BatchSeqs(lastBatch) : s <= transitionSeq}
             all == [s \in found |-> IF s \in BatchSeqs(lastBatch)
                                     THEN lastBatch.transitions[s - lastBatch.firstSeq + 1]
                                     ELSE old.listed[s]]
             n == IF old.revision = ledger.revision THEN old.revision ELSE 0
             x == [old EXCEPT !.phase = "done", !.limit = transitionSeq, !.result = all, !.revision = n]
  <2>1. old.phase = "listed" /\ UNCHANGED envelope
    BY <1>4 DEF ReadEnvelope
  <2>2. /\ reading' = [reading EXCEPT ![r].phase = "done", ![r].limit = transitionSeq,
                                      ![r].result = all, ![r].revision = n]
        /\ DOMAIN reading = Readers
        /\ DOMAIN old = {"phase", "listed", "revision", "limit", "result"}
    BY <1>4 DEF ReadEnvelope, ReadInv, ReadShape
  <2>3. n > 0 => found = 1..transitionSeq
    <3> SUFFICES ASSUME n > 0 PROVE found = 1..transitionSeq
      OBVIOUS
    <3>1. old.revision = ledger.revision
      BY <1>1
    <3>2. DOMAIN old.listed \subseteq Seqs /\ 1..(lastBatch.firstSeq - 1) \subseteq DOMAIN old.listed
      BY <2>1, <3>1 DEF ReadInv, ReadOK
    <3>3. BatchSeqs(lastBatch) = lastBatch.firstSeq..transitionSeq
      BY <1>1 DEF BatchSeqs
    <3>4. \A s \in 1..transitionSeq : s \in found
      BY <1>1, <3>2, <3>3
    <3>5. \A s \in found : s \in 1..transitionSeq
      BY <1>1, <3>2, <3>3 DEF Seqs
    <3> QED
      BY <3>4, <3>5
  <2>4. /\ x.phase = "done" /\ x.limit = transitionSeq /\ x.result = all /\ x.revision = n
        /\ DOMAIN x = {"phase", "listed", "revision", "limit", "result"}
    <3> HIDE DEF all, n, old
    <3> QED
      BY <2>2
  <2>5. ReadOK(x)
    <3>1. DOMAIN all = found
      OBVIOUS
    <3> HIDE DEF all, found, n, x
    <3> QED
      BY <2>3, <2>4, <3>1 DEF ReadOK
  <2>6. reading' = [reading EXCEPT ![r] = x]
    <3> HIDE DEF all, n
    <3> QED
      BY <2>2
  <2> HIDE DEF x
  <2> QED
    BY <1>2, <2>1, <2>4, <2>5, <2>6
<1>5. CASE reading' = reading
  BY <1>5, ReadersKept
<1>6. ASSUME NEW p \in Procs, ProcNext(p) PROVE reading' = reading
  BY <1>6 DEF ProcNext, AcquireLease, RenewLease, ReleaseLease, CommitStart, MaterialiseGet,
              MaterialisePut, MaterialiseDone, MaterialiseFails, CommitApply, CommitRefused,
              Tick, Crash
<1>7. CASE CreateRun
  BY <1>5, <1>7 DEF CreateRun
<1>8. CASE UNCHANGED vars
  BY <1>5, <1>8 DEF vars
<1> QED
  BY <1>3, <1>4, <1>5, <1>6, <1>7, <1>8 DEF Next

\* A transitions() call of the ledger that no commit overlapped returns the whole
\* history, whatever crashed, failed or materialised while it was reading.
THEOREM LedgerQuietReadIsWhole == Spec => []QuietReadIsWhole
<1>1. ReadInv => QuietReadIsWhole
  BY DEF ReadInv, ReadOK, QuietReadIsWhole
<1> QED
  BY <1>1, InitReadInv, ReadStep, LedgerInvariant, PTL DEF Spec
=============================================================================
