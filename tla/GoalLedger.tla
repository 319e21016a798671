----------------------------- MODULE GoalLedger -----------------------------
(***************************************************************************)
(* The durable ledger of one goal run (packages/goals/src/ledger/          *)
(* ledgerStore.ts): the run envelope with its lease, compare-and-set       *)
(* commits, the two places a committed transition lives in (the envelope's *)
(* last batch and its own key), and readers of the history.                *)
(*                                                                         *)
(* The store is shared by several processes.  Every access to it is one    *)
(* step: a get, a put, a list, or an atomicUpdate (atomic on every backend *)
(* the ledger supports).  A process may crash between any two of them.     *)
(* Each process reads its own clock; the clocks are not synchronised.      *)
(***************************************************************************)
EXTENDS TransitionChains, FiniteSets

CONSTANTS
    Procs,        \* processes sharing the store
    Holders,      \* holder ids
    HolderOf,     \* HolderOf[p]: the holder id p uses; a restarted process keeps it
    Readers,      \* callers of transitions()
    Ttl,          \* lease time to live, in clock ticks
    MaxTime,      \* bound on the clocks
    MaxEpoch,     \* bound on the epochs issued
    MaxRevision,  \* bound on the ledger revisions written
    MaxSeq,       \* bound on the transitions committed
    MaxBatch      \* bound on the transitions of one commit

ASSUME LedgerAssumption ==
    /\ HolderOf \in [Procs -> Holders]
    /\ Ttl \in Nat \ {0}
    /\ MaxTime \in Nat /\ MaxEpoch \in Nat /\ MaxRevision \in Nat \ {0}
    /\ MaxSeq \in Nat /\ MaxBatch \in Nat

Seqs == 1..MaxSeq

\* The transition lists a commit may carry.
Batches == UNION {[1..n -> Transition] : n \in 0..MaxBatch}

NoLease == [holderId |-> "none", epoch |-> 0, expiresAt |-> 0, released |-> TRUE]

StoredLease ==
    [holderId : Holders, epoch : 1..MaxEpoch, expiresAt : 0..(MaxTime + Ttl),
     released : BOOLEAN]

\* An absent batch behaves as an empty one: materialise has nothing to write.
NoBatch == [revision |-> 0, firstSeq |-> 1, transitions |-> <<>>]

\* A transition key that has not been written.
NoKey == [revision |-> 0, transition |-> "none"]

NoJob == [phase |-> "idle", revision |-> 0, batch |-> NoBatch, next |-> 1,
          absent |-> FALSE]

NoRead == [phase |-> "idle", listed |-> <<>>, revision |-> 0, limit |-> 0,
           result |-> <<>>]

VARIABLES
    ledger,       \* envelope.ledger: [revision, targets]; revision 0: no such run
    lease,        \* envelope.lease
    maxEpoch,     \* envelope.maxEpoch
    transitionSeq,\* envelope.transitionSeq
    lastBatch,    \* envelope.lastBatch
    keys,         \* goals/transitions/<runId>/<seq>, seq by seq
    clock,        \* clock[p]: the time p reads
    token,        \* token[p]: the epoch of the RunLease p holds in memory, or 0
    job,          \* job[p]: the commit p is in the middle of
    reading       \* reading[r]: the transitions() call r is in the middle of

envelope == <<ledger, lease, maxEpoch, transitionSeq, lastBatch>>
vars == <<ledger, lease, maxEpoch, transitionSeq, lastBatch, keys, clock,
          token, job, reading>>

-----------------------------------------------------------------------------
Init ==
    /\ ledger = [revision |-> 0, targets |-> NoStatuses]
    /\ lease = NoLease
    /\ maxEpoch = 0
    /\ transitionSeq = 0
    /\ lastBatch = NoBatch
    /\ keys = [s \in Seqs |-> NoKey]
    /\ clock = [p \in Procs |-> 0]
    /\ token = [p \in Procs |-> 0]
    /\ job = [p \in Procs |-> NoJob]
    /\ reading = [r \in Readers |-> NoRead]

Exists == ledger.revision > 0

\* createRun: refused as DUPLICATE when the key is already there.
CreateRun ==
    /\ ~Exists
    /\ ledger' = [revision |-> 1, targets |-> InitialStatuses]
    /\ UNCHANGED <<lease, maxEpoch, transitionSeq, lastBatch, keys, clock, token,
                   job, reading>>

-----------------------------------------------------------------------------
(* Leases *)

\* acquireLease leaves a lease alone that is held, live and someone else's.
HeldByOther(p) ==
    /\ lease.epoch > 0
    /\ ~lease.released
    /\ lease.expiresAt > clock[p]
    /\ lease.holderId # HolderOf[p]

\* Every acquisition, a re-acquire by the same holder id included, has a new epoch.
NextEpoch == (IF lease.epoch > maxEpoch THEN lease.epoch ELSE maxEpoch) + 1

AcquireLease(p) ==
    /\ Exists
    /\ ~HeldByOther(p)
    /\ NextEpoch <= MaxEpoch
    /\ lease' = [holderId |-> HolderOf[p], epoch |-> NextEpoch,
                 expiresAt |-> clock[p] + Ttl, released |-> FALSE]
    /\ maxEpoch' = NextEpoch
    /\ token' = [token EXCEPT ![p] = NextEpoch]
    /\ UNCHANGED <<ledger, transitionSeq, lastBatch, keys, clock, job, reading>>

\* The stored lease is the one p holds a token of.
Owns(p) ==
    /\ lease.epoch > 0
    /\ lease.epoch = token[p]
    /\ lease.holderId = HolderOf[p]

\* An expired lease nobody has taken over may be renewed.
RenewLease(p) ==
    /\ Owns(p)
    /\ ~lease.released
    /\ lease' = [lease EXCEPT !.expiresAt = clock[p] + Ttl]
    /\ UNCHANGED <<ledger, maxEpoch, transitionSeq, lastBatch, keys, clock, token,
                   job, reading>>

\* Releasing a superseded or released lease is a no-op.  The caller keeps its
\* token object: nothing stops it from presenting the token again.
ReleaseLease(p) ==
    /\ Owns(p)
    /\ ~lease.released
    /\ lease' = [lease EXCEPT !.released = TRUE, !.expiresAt = clock[p]]
    /\ UNCHANGED <<ledger, maxEpoch, transitionSeq, lastBatch, keys, clock, token,
                   job, reading>>

\* assertCurrentLease: p's token is of the current, unreleased, unexpired lease.
CurrentLease(p) ==
    /\ Owns(p)
    /\ ~lease.released
    /\ lease.expiresAt > clock[p]

-----------------------------------------------------------------------------
(* commit: pre-check, materialise the previous batch, compare-and-set,       *)
(* materialise the new batch.  materialise is a get and, when the key is     *)
(* missing, a put for every transition of the batch.                         *)

\* Mutant: the previous batch is not materialised before it is replaced.
CommitStartEager(p) ==
    /\ job[p].phase = "idle"
    /\ Exists
    /\ CurrentLease(p)
    /\ job' = [job EXCEPT ![p] = [phase |-> "cas", revision |-> ledger.revision,
                                  batch |-> lastBatch, next |-> 1, absent |-> FALSE]]
    /\ UNCHANGED <<envelope, keys, clock, token, reading>>

CommitStart(p) ==
    /\ job[p].phase = "idle"
    /\ Exists
    /\ CurrentLease(p)
    /\ job' = [job EXCEPT ![p] = [phase |-> "pre", revision |-> ledger.revision,
                                  batch |-> lastBatch, next |-> 1, absent |-> FALSE]]
    /\ UNCHANGED <<envelope, keys, clock, token, reading>>

Missing(s) == keys[s].revision = 0

Materialising(p) == job[p].phase \in {"pre", "post"}

MoreToWrite(p) == job[p].next <= Len(job[p].batch.transitions)

JobSeq(p) == job[p].batch.firstSeq + job[p].next - 1

\* store.get of the next transition key: a key that is there is skipped.
MaterialiseGet(p) ==
    /\ Materialising(p)
    /\ MoreToWrite(p)
    /\ ~job[p].absent
    /\ IF Missing(JobSeq(p))
       THEN job' = [job EXCEPT ![p].absent = TRUE]
       ELSE job' = [job EXCEPT ![p].next = @ + 1]
    /\ UNCHANGED <<envelope, keys, clock, token, reading>>

\* store.put of a key the get found missing, whatever is there by now.
MaterialisePut(p) ==
    /\ Materialising(p)
    /\ job[p].absent
    /\ keys' = [keys EXCEPT ![JobSeq(p)] =
                  [revision |-> job[p].batch.revision,
                   transition |-> job[p].batch.transitions[job[p].next]]]
    /\ job' = [job EXCEPT ![p].next = @ + 1, ![p].absent = FALSE]
    /\ UNCHANGED <<envelope, clock, token, reading>>

\* The loop over the batch ends: on to the compare-and-set, or back to the caller.
MaterialiseDone(p) ==
    /\ Materialising(p)
    /\ ~MoreToWrite(p)
    /\ job' = [job EXCEPT ![p] = IF job[p].phase = "pre" THEN [@ EXCEPT !.phase = "cas"]
                                 ELSE NoJob]
    /\ UNCHANGED <<envelope, keys, clock, token, reading>>

\* A store access throws: commit rejects, or returns when the write was best effort.
MaterialiseFails(p) ==
    /\ Materialising(p)
    /\ MoreToWrite(p)
    /\ job' = [job EXCEPT ![p] = NoJob]
    /\ UNCHANGED <<envelope, keys, clock, token, reading>>

\* Mutant: the lease was checked before the lock and that will do.
CasByRevision(p) == ledger.revision = job[p].revision

\* Both checks again, inside the atomic update of the envelope.
CasAllowed(p) ==
    /\ CurrentLease(p)
    /\ ledger.revision = job[p].revision

\* Mutant: only where the transitions end is checked, not where they start.
ValidEnds(ts, after) ==
    /\ \A i \in DOMAIN ts : LastFor(ts, i) => ts[i].toState = after[ts[i].targetId]
    /\ \A t \in Targets :
          (\A i \in DOMAIN ts : ts[i].targetId # t) => after[t] = ledger.targets[t]

\* validateTransitions: the transitions account for what the mutation changed.
ValidCommit(ts, after) == Explains(ledger.targets, after, ts)

CommitApply(p, ts, after) ==
    /\ job[p].phase = "cas"
    /\ CasAllowed(p)
    /\ ledger.revision < MaxRevision
    /\ transitionSeq + Len(ts) <= MaxSeq
    /\ ValidCommit(ts, after)
    /\ ledger' = [revision |-> job[p].revision + 1, targets |-> after]
    /\ transitionSeq' = transitionSeq + Len(ts)
    /\ lastBatch' = [revision |-> job[p].revision + 1, firstSeq |-> transitionSeq + 1,
                     transitions |-> ts]
    /\ job' = [job EXCEPT ![p] = [phase |-> "post", revision |-> job[p].revision + 1,
                                  batch |-> lastBatch', next |-> 1, absent |-> FALSE]]
    /\ UNCHANGED <<lease, maxEpoch, keys, clock, token, reading>>

\* STALE_LEASE or LEDGER_CONFLICT under the lock, or a mutation that is refused
\* as VALIDATION: the envelope stays as it is.
CommitRefused(p) ==
    /\ job[p].phase = "cas"
    /\ job' = [job EXCEPT ![p] = NoJob]
    /\ UNCHANGED <<envelope, keys, clock, token, reading>>

-----------------------------------------------------------------------------
(* transitions(): list the keys, then read the envelope. *)

ReadList(r) ==
    /\ reading[r].phase # "listed"
    /\ reading' = [reading EXCEPT ![r] =
                     [phase |-> "listed",
                      listed |-> [s \in {n \in Seqs : ~Missing(n)} |-> keys[s].transition],
                      revision |-> ledger.revision, limit |-> 0, result |-> <<>>]]
    /\ UNCHANGED <<envelope, keys, clock, token, job>>

\* Mutant: the batch in the envelope is not laid over the keys.
BatchSeqsNone(b) == {}

BatchSeqs(b) == b.firstSeq .. (b.firstSeq + Len(b.transitions) - 1)

\* The batch of the envelope is laid over the listed keys and nothing past the
\* committed sequence is returned.
ReadEnvelope(r) ==
    /\ reading[r].phase = "listed"
    /\ LET found == {s \in DOMAIN reading[r].listed \cup BatchSeqs(lastBatch) :
                        s <= transitionSeq}
       IN  reading' = [reading EXCEPT
             ![r].phase = "done",
             ![r].limit = transitionSeq,
             ![r].result = [s \in found |->
                 IF s \in BatchSeqs(lastBatch)
                 THEN lastBatch.transitions[s - lastBatch.firstSeq + 1]
                 ELSE reading[r].listed[s]],
             \* bookkeeping of the model: 0 unless no commit came in between
             ![r].revision = IF @ = ledger.revision THEN @ ELSE 0]
    /\ UNCHANGED <<envelope, keys, clock, token, job>>

-----------------------------------------------------------------------------
(* Environment *)

Tick(p) ==
    /\ clock[p] < MaxTime
    /\ clock' = [clock EXCEPT ![p] = @ + 1]
    /\ UNCHANGED <<envelope, keys, token, job, reading>>

\* The process dies (the AFTER_LEDGER_COMMIT fault point is one such moment) and
\* restarts without its memory; the store keeps what was written.
Crash(p) ==
    /\ job[p] # NoJob \/ token[p] # 0
    /\ job' = [job EXCEPT ![p] = NoJob]
    /\ token' = [token EXCEPT ![p] = 0]
    /\ UNCHANGED <<envelope, keys, clock, reading>>

ProcNext(p) ==
    \/ AcquireLease(p) \/ RenewLease(p) \/ ReleaseLease(p)
    \/ CommitStart(p)
    \/ MaterialiseGet(p) \/ MaterialisePut(p) \/ MaterialiseDone(p) \/ MaterialiseFails(p)
    \/ \E ts \in Batches, after \in [Targets -> Statuses] : CommitApply(p, ts, after)
    \/ CommitRefused(p)
    \/ Tick(p) \/ Crash(p)

Next ==
    \/ CreateRun
    \/ \E p \in Procs : ProcNext(p)
    \/ \E r \in Readers : ReadList(r) \/ ReadEnvelope(r)

Spec == Init /\ [][Next]_vars

-----------------------------------------------------------------------------
(* Properties *)

Key == [revision : 1..MaxRevision, transition : Transition]

Batch == [revision : 0..MaxRevision, firstSeq : 1..(MaxSeq + 1),
          transitions : Batches]

Job == [phase : {"idle", "pre", "cas", "post"}, revision : 0..MaxRevision,
        batch : Batch, next : 1..(MaxBatch + 1), absent : BOOLEAN]

\* The envelope, the transition keys and what every process keeps in memory are
\* well formed; a run that exists has a real status for every target and only
\* transitions of known targets and statuses are ever stored.
TypeOK ==
    /\ ledger \in [revision : 0..MaxRevision, targets : {NoStatuses} \cup [Targets -> Statuses]]
    /\ Exists <=> ledger.targets \in [Targets -> Statuses]
    /\ lease \in StoredLease \cup {NoLease}
    /\ maxEpoch \in 0..MaxEpoch
    /\ transitionSeq \in 0..MaxSeq
    /\ lastBatch \in Batch
    /\ keys \in [Seqs -> Key \cup {NoKey}]
    /\ clock \in [Procs -> 0..MaxTime]
    /\ token \in [Procs -> 0..MaxEpoch]
    /\ job \in [Procs -> Job]
    /\ DOMAIN reading = Readers

\* The history as it can be put together from the store: the last batch comes
\* from the envelope, anything older from its own key.
Log ==
    [s \in 1..transitionSeq |->
        IF s >= lastBatch.firstSeq
        THEN lastBatch.transitions[s - lastBatch.firstSeq + 1]
        ELSE keys[s].transition]

\* No committed transition is ever lost: whatever crashed or failed between the
\* compare-and-set and the key writes, every sequence number below the current
\* batch has its key (commit materialises the old batch before replacing it).
NoTransitionLost ==
    /\ lastBatch.firstSeq + Len(lastBatch.transitions) = transitionSeq + 1
    /\ \A s \in 1..(lastBatch.firstSeq - 1) : ~Missing(s)

\* No transition is visible in a key without the ledger write it belongs to.
NothingUncommitted ==
    \A s \in Seqs : ~Missing(s) =>
        /\ s <= transitionSeq
        /\ keys[s].revision <= ledger.revision
        /\ keys[s].transition = Log[s]

\* Taken together, all commits ever made explain how every target came from the
\* status createRun gave it to the status the ledger shows (validateTransitions
\* checks each commit only against the one before).
HistoryExplainsLedger ==
    Exists => Explains(InitialStatuses, ledger.targets, Log)

\* Of all the processes holding a token, whatever their clocks say, at most one
\* could get a commit past assertCurrentLease.
SoleCommitter ==
    \A p, q \in Procs : CurrentLease(p) /\ CurrentLease(q) => p = q

\* A commit lands only under the newest epoch ever issued: once another
\* acquisition succeeded, in-flight commits of older tokens are all refused.
FencedCommits ==
    [][\A p \in Procs :
          job[p].phase = "cas" /\ job'[p].phase = "post"
            => /\ token[p] = maxEpoch
               /\ \A q \in Procs \ {p} : token[q] < token[p]]_vars

\* The ledger implements the abstract run history: every step of every process is
\* the run's creation, one appended and explained commit, or invisible.
History == INSTANCE RunHistory WITH statuses <- ledger.targets, history <- Log

HistoryRefined == History!HSpec

\* A transitions() call that no commit overlapped returns the whole history.
QuietReadIsWhole ==
    \A r \in Readers :
        reading[r].phase = "done" /\ reading[r].revision > 0
          => DOMAIN reading[r].result = 1..reading[r].limit

=============================================================================
