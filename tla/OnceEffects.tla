---------------------------- MODULE OnceEffects ----------------------------
(***************************************************************************)
(* once(key, effect) and reconcileEffect for one idempotency key           *)
(* (packages/goals/src/ledger/ledgerStore.ts).  Several ledger instances,  *)
(* one per process, share the record of the key; each keeps a map of the   *)
(* promises it is running itself.  Calls are separate asynchronous         *)
(* activities of their instance: a step ends at the call's next await on   *)
(* the store or on the effect.                                             *)
(***************************************************************************)
EXTENDS Integers, FiniteSets

CONSTANTS
    Insts,        \* ledger instances, one per process
    HostOf,       \* HostOf[i]: the host instance i runs on
    Calls,        \* activities that call once
    InstOf,       \* InstOf[c]: the instance call c is made on
    Reconcilers,  \* the instances reconcileEffect is called on
    OnlyDeadOwners, \* operators reconcile only what pendingEffects reports as dead
    NoInst,       \* no owner
    NoCall,       \* no promise, no value
    MaxRuns       \* bound on the number of times the effect is started

ASSUME OnceAssumption ==
    /\ NoInst \notin Insts /\ NoCall \notin Calls
    /\ InstOf \in [Calls -> Insts]
    /\ HostOf \in [Insts -> STRING]
    /\ Reconcilers \subseteq Insts
    /\ OnlyDeadOwners \in BOOLEAN
    /\ MaxRuns \in Nat

VARIABLES
    rec,      \* the IdempotencyRecord: [state, owner, runs, result]
    alive,    \* alive[i]: the process of instance i runs
    inflight, \* inflight[i]: the call whose promise instance i's map holds
    pc,       \* pc[c]: where call c is
    local,    \* local[c]: the call whose promise c waits for
    out,      \* out[c]: how c ended
    val,      \* val[c]: the value c returned
    applied,  \* how many times the effect has really happened
    plan      \* plan[i]: the resolution a reconcileEffect call carries

vars == <<rec, alive, inflight, pc, local, out, val, applied, plan>>

\* The value a reconciliation as applied records; any other is the call's own.
Reconciled == "reconciled"

Init ==
    /\ rec = [state |-> "none", owner |-> NoInst, runs |-> 0, result |-> NoCall]
    /\ alive = [i \in Insts |-> TRUE]
    /\ inflight = [i \in Insts |-> NoCall]
    /\ pc = [c \in Calls |-> "idle"]
    /\ local = [c \in Calls |-> NoCall]
    /\ out = [c \in Calls |-> "none"]
    /\ val = [c \in Calls |-> NoCall]
    /\ applied = 0
    /\ plan = [i \in Insts |-> "none"]

\* Mutants: a failed key, or a finished one, may be claimed.
FreeOrFailed == rec.state \in {"none", "released", "failed"}
FreeWhenDone == rec.state \in {"none", "released", "done"}

\* A key nobody has claimed, or one that was given back.
Free == rec.state \in {"none", "released"}

\* Mutants: a process of another host, or any process at all, is taken for dead.
OwnerAliveNoHost(i, o) == IF HostOf[o] = HostOf[i] /\ alive[o] /\ o # i THEN "yes" ELSE "no"
OwnerAliveNever(i, o) == "no"

\* ownerAlive as instance i sees it.  Its own record with no promise behind it, or
\* a process of this host that is gone, is dead; another host cannot be probed.
OwnerAlive(i, o) ==
    IF o = i THEN "no"
    ELSE IF HostOf[o] # HostOf[i] THEN "unknown"
    ELSE IF alive[o] THEN "yes" ELSE "no"

\* replay: what a caller is told about a key that is not free.
ReplayOutcome(i) ==
    CASE rec.state = "done"   -> "ok"
      [] rec.state = "failed" -> "failed"
      [] OTHER -> IF OwnerAlive(i, rec.owner) = "no" THEN "orphan" ELSE "busy"

\* The calls in cs end with one outcome.
End(cs, o, v) ==
    /\ pc' = [c \in Calls |-> IF c \in cs THEN "end" ELSE pc[c]]
    /\ out' = [c \in Calls |-> IF c \in cs THEN o ELSE out[c]]
    /\ val' = [c \in Calls |-> IF c \in cs THEN v ELSE val[c]]

\* Mutant: the calls that joined the promise are left waiting.
SettleOwn(c, o, v) ==
    /\ End({c}, o, v)
    /\ inflight' = [inflight EXCEPT ![InstOf[c]] = NoCall]

\* The promise of call c settles: c and the calls that joined it end alike, and the
\* finally block of c drops whatever promise the map holds by now.
Settle(c, o, v) ==
    /\ End({c} \cup {d \in Calls : pc[d] = "join" /\ local[d] = c}, o, v)
    /\ inflight' = [inflight EXCEPT ![InstOf[c]] = NoCall]

-----------------------------------------------------------------------------
\* once: join the promise this instance is running, or read the record.  A call
\* that has ended may be made again.
CallStart(c) ==
    /\ alive[InstOf[c]]
    /\ pc[c] \in {"idle", "end"}
    /\ out' = [out EXCEPT ![c] = "none"]
    /\ val' = [val EXCEPT ![c] = NoCall]
    /\ local' = [local EXCEPT ![c] = inflight[InstOf[c]]]
    /\ pc' = [pc EXCEPT ![c] = IF inflight[InstOf[c]] = NoCall THEN "status" ELSE "join"]
    /\ UNCHANGED <<rec, alive, inflight, applied, plan>>

\* effectStatus has answered: replay, or start the claim and put its promise into
\* the map (over one that got there since the map was looked at).
ReadStatus(c) ==
    /\ pc[c] = "status"
    /\ IF Free
       THEN /\ pc' = [pc EXCEPT ![c] = "claim"]
            /\ inflight' = [inflight EXCEPT ![InstOf[c]] = c]
            /\ UNCHANGED <<out, val>>
       ELSE /\ End({c}, ReplayOutcome(InstOf[c]), rec.result)
            /\ UNCHANGED inflight
    /\ UNCHANGED <<rec, alive, local, applied, plan>>

\* The atomic claim: the marker is durable before the effect starts.
Claim(c) ==
    /\ pc[c] = "claim"
    /\ IF Free
       THEN /\ rec.runs < MaxRuns
            /\ rec' = [state |-> "in_flight", owner |-> InstOf[c], runs |-> rec.runs + 1,
                       result |-> NoCall]
            /\ pc' = [pc EXCEPT ![c] = "run"]
            /\ UNCHANGED <<inflight, out, val>>
       ELSE /\ Settle(c, ReplayOutcome(InstOf[c]), rec.result)
            /\ UNCHANGED rec
    /\ UNCHANGED <<alive, local, applied, plan>>

\* The effect returns.
EffectReturns(c) ==
    /\ pc[c] = "run"
    /\ applied' = applied + 1
    /\ pc' = [pc EXCEPT ![c] = "record"]
    /\ UNCHANGED <<rec, alive, inflight, local, out, val, plan>>

\* The effect throws a retryable failure: its own statement that nothing happened.
\* (The last run the bound allows does not, so that the bound blocks no caller.)
EffectRefuses(c) ==
    /\ pc[c] = "run"
    /\ rec.runs < MaxRuns
    /\ pc' = [pc EXCEPT ![c] = "release"]
    /\ UNCHANGED <<rec, alive, inflight, local, out, val, applied, plan>>

\* The effect throws anything else: it may or may not have happened.
EffectThrows(c) ==
    /\ pc[c] = "run"
    /\ applied' \in {applied, applied + 1}
    /\ pc' = [pc EXCEPT ![c] = "fail"]
    /\ UNCHANGED <<rec, alive, inflight, local, out, val, plan>>

Mine(c) == rec.state = "in_flight" /\ rec.owner = InstOf[c]

\* The result is recorded only over this instance's own in-flight marker.
Record(c) ==
    /\ pc[c] = "record"
    /\ IF Mine(c)
       THEN /\ rec' = [rec EXCEPT !.state = "done", !.result = c]
            /\ Settle(c, "ok", c)
       ELSE /\ Settle(c, "unrecorded", NoCall)
            /\ UNCHANGED rec
    /\ UNCHANGED <<alive, local, applied, plan>>

\* The write of the outcome throws: the marker stays behind.
RecordLost(c) ==
    /\ pc[c] \in {"record", "release", "fail"}
    /\ Settle(c, "lost", NoCall)
    /\ UNCHANGED <<rec, alive, local, applied, plan>>

\* recordFailure releases the key after a retryable failure, else keeps the failure.
RecordFailure(c) ==
    /\ pc[c] \in {"release", "fail"}
    /\ rec' = IF Mine(c)
              THEN [rec EXCEPT !.state = IF pc[c] = "release" THEN "released" ELSE "failed"]
              ELSE rec
    /\ Settle(c, "failed", NoCall)
    /\ UNCHANGED <<alive, local, applied, plan>>

\* The process dies; an effect it was running may have happened or not.
Crash(i) ==
    /\ alive[i]
    /\ alive' = [alive EXCEPT ![i] = FALSE]
    /\ inflight' = [inflight EXCEPT ![i] = NoCall]
    /\ pc' = [c \in Calls |-> IF InstOf[c] = i /\ pc[c] # "end" THEN "dead" ELSE pc[c]]
    /\ plan' = [plan EXCEPT ![i] = "none"]
    /\ applied' \in {applied, applied + 1}
    /\ applied' = applied + 1 => \E c \in Calls : InstOf[c] = i /\ pc[c] = "run"
    /\ UNCHANGED <<rec, local, out, val>>

-----------------------------------------------------------------------------
\* An operator finds the key among pendingEffects and establishes, truthfully as
\* of now, whether the effect has happened.
GatherEvidence(i) ==
    /\ i \in Reconcilers /\ alive[i]
    /\ plan[i] = "none"
    /\ rec.state = "in_flight" /\ inflight[i] = NoCall
    /\ OnlyDeadOwners => OwnerAlive(i, rec.owner) = "no"
    /\ plan' = [plan EXCEPT ![i] = IF applied > 0 THEN "applied" ELSE "not_applied"]
    /\ UNCHANGED <<rec, alive, inflight, pc, local, out, val, applied>>

\* reconcileEffect: refused while this process or another live one of this host
\* runs the effect.
ReconcileCheck(i) ==
    /\ plan[i] \in {"applied", "not_applied"}
    /\ LET refused == \/ inflight[i] # NoCall
                      \/ rec.state = "in_flight" /\ OwnerAlive(i, rec.owner) = "yes"
           checked == IF plan[i] = "applied" THEN "write_applied" ELSE "write_not_applied"
       IN  plan' = [plan EXCEPT ![i] = IF refused THEN "none" ELSE checked]
    /\ UNCHANGED <<rec, alive, inflight, pc, local, out, val, applied>>

\* The atomic update looks at the state again, and at nothing else.
ReconcileWrite(i) ==
    /\ plan[i] \in {"write_applied", "write_not_applied"}
    /\ rec.runs < MaxRuns \/ plan[i] = "write_applied"
    /\ rec' = IF rec.state # "in_flight"         THEN rec
              ELSE IF plan[i] = "write_applied" THEN [rec EXCEPT !.state = "done", !.result = Reconciled]
              ELSE [rec EXCEPT !.state = "released"]
    /\ plan' = [plan EXCEPT ![i] = "none"]
    /\ UNCHANGED <<alive, inflight, pc, local, out, val, applied>>

-----------------------------------------------------------------------------
CallStep(c) ==
    \/ ReadStatus(c) \/ Claim(c)
    \/ EffectReturns(c) \/ EffectRefuses(c) \/ EffectThrows(c)
    \/ Record(c) \/ RecordLost(c) \/ RecordFailure(c)

Next ==
    \/ \E c \in Calls : CallStart(c) \/ CallStep(c)
    \/ \E i \in Insts : Crash(i) \/ GatherEvidence(i) \/ ReconcileCheck(i) \/ ReconcileWrite(i)

Spec == Init /\ [][Next]_vars

\* Awaits are answered: the store answers and the effect settles.
Fairness == \A c \in Calls : WF_vars(CallStep(c))

FairSpec == Spec /\ Fairness

-----------------------------------------------------------------------------
(* Properties *)

Values == Calls \cup {NoCall, Reconciled}

EffectRecord == [state : {"none", "in_flight", "done", "failed", "released"},
                 owner : Insts \cup {NoInst}, runs : 0..MaxRuns, result : Values]

Points == {"idle", "join", "status", "claim", "run", "record", "release", "fail", "end", "dead"}

Outcomes == {"none", "ok", "failed", "busy", "orphan", "unrecorded", "lost"}

Plans == {"none", "applied", "not_applied", "write_applied", "write_not_applied"}

\* The record, the promise maps and the calls are well formed, and the record
\* names an owner exactly when the effect has been started.
TypeOK ==
    /\ rec \in EffectRecord
    /\ rec.owner = NoInst <=> rec.state = "none"
    /\ alive \in [Insts -> BOOLEAN]
    /\ inflight \in [Insts -> Calls \cup {NoCall}]
    /\ pc \in [Calls -> Points]
    /\ local \in [Calls -> Calls \cup {NoCall}]
    /\ out \in [Calls -> Outcomes]
    /\ val \in [Calls -> Values]
    /\ applied \in Nat
    /\ plan \in [Insts -> Plans]

Running(c) == pc[c] \in {"run", "record", "release", "fail"}

\* The effect happens at most once, crashes, retries and reconciliations included.
AppliedAtMostOnce == applied <= 1

\* All callers that get a value get the one that is recorded, whoever ran the
\* effect and whatever was reconciled meanwhile.
Agreement ==
    \A c \in Calls : out[c] = "ok" => rec.state = "done" /\ rec.result = val[c]

\* A recorded outcome is never overwritten and its key never claimed again.
OutcomeIsFinal ==
    [][rec.state \in {"done", "failed"} => rec' = rec]_vars

\* The refusal reconcileEffect announces ("still owned by live process"): no
\* reconciliation resolves an effect that is running on the same host.
NeverReconciledAlive ==
    [][\A i \in Insts : plan[i] \in {"write_applied", "write_not_applied"} /\ rec' # rec
          => \A c \in Calls : Running(c) => HostOf[InstOf[c]] # HostOf[i]]_vars

\* Every call is answered unless its process dies.
CallsAreAnswered ==
    \A c \in Calls : pc[c] \notin {"idle", "end"} ~> pc[c] \in {"end", "dead"}
=============================================================================
