------------------------- MODULE OnceEffectsProofs -------------------------
(***************************************************************************)
(* Proofs about OnceEffects for any number of instances, hosts, calls and  *)
(* runs of the effect.                                                     *)
(***************************************************************************)
EXTENDS OnceEffects, TLAPS

(***************************************************************************)
(* The conditions under which reconciliation is safe: at most one instance *)
(* is used for it, it looks only at what pendingEffects reports as dead,   *)
(* and it makes no overlapping calls with this key itself.  The code       *)
(* enforces none of them.                                                  *)
(***************************************************************************)
OneCarefulOperator ==
    /\ OnlyDeadOwners \/ Reconcilers = {}
    /\ \A i, j \in Reconcilers : i = j
    /\ \A c, d \in Calls : InstOf[c] = InstOf[d] /\ InstOf[c] \in Reconcilers => c = d

\* Calls under way are of live processes.
LiveInv == \A c \in Calls : pc[c] \notin {"idle", "end", "dead"} => alive[InstOf[c]]

\* The record names the one call that is running the effect or writing its outcome.
RunInv ==
    /\ \A c \in Calls : Running(c) => rec.state = "in_flight" /\ rec.owner = InstOf[c]
    /\ \A c, d \in Calls : Running(c) /\ Running(d) => c = d

\* The operator's instance has the promise of its own call in its map.
MapInv ==
    \A c \in Calls : InstOf[c] \in Reconcilers /\ (pc[c] = "claim" \/ Running(c))
                        => inflight[InstOf[c]] = c

\* A reconciliation under way is of an effect nobody runs, and its evidence is true.
PlanInv ==
    \A i \in Insts : plan[i] # "none" =>
        /\ i \in Reconcilers
        /\ rec.state = "in_flight"
        /\ \A c \in Calls : ~Running(c)
        /\ plan[i] \in {"not_applied", "write_not_applied"} => applied = 0

\* A key that can be claimed, and an effect that has not ended or has refused, is
\* one that has not happened.
AppliedInv ==
    /\ applied <= 1
    /\ Free => applied = 0
    /\ \A c \in Calls : pc[c] \in {"run", "release"} => applied = 0

EffectInv == LiveInv /\ RunInv /\ MapInv /\ PlanInv /\ AppliedInv
-----------------------------------------------------------------------------
(* Types, and what the operators leave behind *)

\* What a caller is told about a key that is not free.
LEMMA ReplayFacts ==
    ASSUME NEW i
    PROVE  /\ ReplayOutcome(i) \in {"ok", "failed", "busy", "orphan"}
           /\ ReplayOutcome(i) = "ok" => rec.state = "done"
BY DEF ReplayOutcome

\* Calls end, the others go on.
LEMMA EndFacts ==
    ASSUME TypeOK, NEW cs, NEW o \in Outcomes, NEW v \in Values, End(cs, o, v)
    PROVE  /\ pc' \in [Calls -> Points] /\ out' \in [Calls -> Outcomes] /\ val' \in [Calls -> Values]
           /\ \A d \in Calls : d \in cs => pc'[d] = "end" /\ out'[d] = o /\ val'[d] = v
           /\ \A d \in Calls : d \notin cs => pc'[d] = pc[d] /\ out'[d] = out[d] /\ val'[d] = val[d]
<1>1. "end" \in Points
  BY DEF Points
<1> QED
  BY <1>1 DEF End, TypeOK

\* A promise settles: its call has ended, joined ones too, and the map is empty.
LEMMA SettleFacts ==
    ASSUME TypeOK, NEW c \in Calls, NEW o \in Outcomes, NEW v \in Values, Settle(c, o, v)
    PROVE  /\ pc' \in [Calls -> Points] /\ out' \in [Calls -> Outcomes] /\ val' \in [Calls -> Values]
           /\ inflight' \in [Insts -> Calls \cup {NoCall}]
           /\ pc'[c] = "end"
           /\ \A d \in Calls : \/ pc'[d] = pc[d] /\ out'[d] = out[d] /\ val'[d] = val[d]
                               \/ pc'[d] = "end" /\ out'[d] = o /\ val'[d] = v
           /\ \A i \in Insts \ {InstOf[c]} : inflight'[i] = inflight[i]
<1> DEFINE cs == {c} \cup {d \in Calls : pc[d] = "join" /\ local[d] = c}
<1>1. End(cs, o, v) /\ inflight' = [inflight EXCEPT ![InstOf[c]] = NoCall]
  BY DEF Settle
<1>2. c \in cs
  OBVIOUS
<1> HIDE DEF cs
<1>3. /\ pc' \in [Calls -> Points] /\ out' \in [Calls -> Outcomes] /\ val' \in [Calls -> Values]
      /\ \A d \in Calls : d \in cs => pc'[d] = "end" /\ out'[d] = o /\ val'[d] = v
      /\ \A d \in Calls : d \notin cs => pc'[d] = pc[d] /\ out'[d] = out[d] /\ val'[d] = val[d]
  BY <1>1, EndFacts
<1>4. /\ inflight' \in [Insts -> Calls \cup {NoCall}]
      /\ \A i \in Insts \ {InstOf[c]} : inflight'[i] = inflight[i]
  BY <1>1 DEF TypeOK
<1>5. \A d \in Calls : \/ pc'[d] = pc[d] /\ out'[d] = out[d] /\ val'[d] = val[d]
                       \/ pc'[d] = "end" /\ out'[d] = o /\ val'[d] = v
  BY <1>3
<1>6. pc'[c] = "end"
  BY <1>2, <1>3
<1> QED
  BY <1>3, <1>4, <1>5, <1>6

\* What the write of a reconciliation does to the record.
LEMMA ReconcileFacts ==
    ASSUME NEW i, ReconcileWrite(i)
    PROVE  \/ rec' = rec
           \/ /\ rec.state = "in_flight" /\ plan[i] = "write_applied"
              /\ rec' = [rec EXCEPT !.state = "done", !.result = Reconciled]
           \/ /\ rec.state = "in_flight" /\ plan[i] = "write_not_applied"
              /\ rec' = [rec EXCEPT !.state = "released"]
<1> HIDE DEF Reconciled
<1>1. CASE rec.state # "in_flight"
  BY <1>1 DEF ReconcileWrite
<1>2. CASE rec.state = "in_flight" /\ plan[i] = "write_applied"
  BY <1>2 DEF ReconcileWrite
<1>3. CASE rec.state = "in_flight" /\ plan[i] = "write_not_applied"
  BY <1>3 DEF ReconcileWrite
<1>4. plan[i] \in {"write_applied", "write_not_applied"}
  BY DEF ReconcileWrite
<1> QED
  BY <1>1, <1>2, <1>3, <1>4

\* Every step keeps the types.
LEMMA TypeStep == TypeOK /\ [Next]_vars => TypeOK'
<1> SUFFICES ASSUME TypeOK, [Next]_vars PROVE TypeOK'
  OBVIOUS
<1>i. \A c \in Calls : InstOf[c] \in Insts
  BY OnceAssumption
<1>r. rec \in EffectRecord /\ rec.result \in Values /\ rec.runs \in 0..MaxRuns
  BY DEF TypeOK, EffectRecord
<1>v. \A c \in Calls : c \in Values /\ NoCall \in Values /\ Reconciled \in Values
  BY DEF Values
<1>o. \A c \in Calls : ReplayOutcome(InstOf[c]) \in Outcomes
  BY ReplayFacts DEF Outcomes
<1>p. {"status", "join", "claim", "run", "record", "release", "fail", "dead", "end"} \subseteq Points
  BY DEF Points
<1>1. ASSUME NEW c \in Calls, CallStart(c) PROVE TypeOK'
  <2>1. out' \in [Calls -> Outcomes]
    BY <1>1 DEF CallStart, TypeOK, Outcomes
  <2>2. val' \in [Calls -> Values] /\ local' \in [Calls -> Calls \cup {NoCall}]
    BY <1>1, <1>i, <1>v DEF CallStart, TypeOK
  <2>3. pc' \in [Calls -> Points]
    BY <1>1, <1>p DEF CallStart, TypeOK
  <2> QED
    BY <1>1, <2>1, <2>2, <2>3 DEF CallStart, TypeOK
<1>2. ASSUME NEW c \in Calls, ReadStatus(c) PROVE TypeOK'
  <2>1. CASE Free
    BY <1>2, <1>i, <1>p, <2>1 DEF ReadStatus, TypeOK
  <2>2. CASE ~Free
    <3>1. End({c}, ReplayOutcome(InstOf[c]), rec.result) /\ UNCHANGED inflight
      BY <1>2, <2>2 DEF ReadStatus
    <3>2. pc' \in [Calls -> Points] /\ out' \in [Calls -> Outcomes] /\ val' \in [Calls -> Values]
      BY <1>o, <1>r, <3>1, EndFacts
    <3> QED
      BY <1>2, <3>1, <3>2 DEF ReadStatus, TypeOK
  <2> QED
    BY <2>1, <2>2
<1>3. ASSUME NEW c \in Calls, Claim(c) PROVE TypeOK'
  <2>1. CASE Free
    <3>1. rec' = [state |-> "in_flight", owner |-> InstOf[c], runs |-> rec.runs + 1, result |-> NoCall]
          /\ rec.runs < MaxRuns
      BY <1>3, <2>1 DEF Claim
    <3>2. rec.runs + 1 \in 0..MaxRuns
      BY <1>r, <3>1, OnceAssumption
    <3>3. rec' \in EffectRecord /\ rec'.state = "in_flight" /\ rec'.owner = InstOf[c]
      BY <1>i, <1>v, <3>1, <3>2 DEF EffectRecord
    <3>4. rec'.owner # NoInst
      BY <1>i, <3>3, OnceAssumption
    <3>5. pc' \in [Calls -> Points]
      BY <1>3, <1>p, <2>1 DEF Claim, TypeOK
    <3> QED
      BY <1>3, <2>1, <3>3, <3>4, <3>5 DEF Claim, TypeOK
  <2>2. CASE ~Free
    <3>1. Settle(c, ReplayOutcome(InstOf[c]), rec.result) /\ UNCHANGED rec
      BY <1>3, <2>2 DEF Claim
    <3>2. /\ pc' \in [Calls -> Points] /\ out' \in [Calls -> Outcomes] /\ val' \in [Calls -> Values]
          /\ inflight' \in [Insts -> Calls \cup {NoCall}]
      BY <1>o, <1>r, <3>1, SettleFacts
    <3> QED
      BY <1>3, <3>1, <3>2 DEF Claim, TypeOK
  <2> QED
    BY <2>1, <2>2
<1>4. ASSUME NEW c \in Calls, EffectReturns(c) \/ EffectRefuses(c) \/ EffectThrows(c) PROVE TypeOK'
  <2>1. pc' \in [Calls -> Points]
    BY <1>4, <1>p DEF EffectReturns, EffectRefuses, EffectThrows, TypeOK
  <2>2. applied' \in Nat
    BY <1>4 DEF EffectReturns, EffectRefuses, EffectThrows, TypeOK
  <2> QED
    BY <1>4, <2>1, <2>2 DEF EffectReturns, EffectRefuses, EffectThrows, TypeOK
<1>5. ASSUME NEW c \in Calls, Record(c) \/ RecordLost(c) \/ RecordFailure(c) PROVE TypeOK'
  <2>1. PICK o \in {"ok", "unrecorded", "lost", "failed"}, v \in Values : Settle(c, o, v)
    BY <1>5, <1>v DEF Record, RecordLost, RecordFailure
  <2>2. o \in Outcomes
    BY DEF Outcomes
  <2>3. /\ pc' \in [Calls -> Points] /\ out' \in [Calls -> Outcomes] /\ val' \in [Calls -> Values]
        /\ inflight' \in [Insts -> Calls \cup {NoCall}]
    BY <2>1, <2>2, SettleFacts
  <2>4. \/ rec' = rec
        \/ rec.state = "in_flight" /\ rec' = [rec EXCEPT !.state = "done", !.result = c]
        \/ rec.state = "in_flight" /\ \E s \in {"released", "failed"} : rec' = [rec EXCEPT !.state = s]
    BY <1>5 DEF Record, RecordLost, RecordFailure, Mine
  <2>5. rec' \in EffectRecord /\ (rec'.owner = NoInst <=> rec'.state = "none")
    <3>1. CASE rec' = rec
      BY <3>1 DEF TypeOK
    <3>2. CASE rec.state = "in_flight" /\ rec' = [rec EXCEPT !.state = "done", !.result = c]
      BY <1>r, <1>v, <3>2 DEF TypeOK, EffectRecord
    <3>3. ASSUME NEW s \in {"released", "failed"}, rec.state = "in_flight",
                 rec' = [rec EXCEPT !.state = s]
          PROVE  rec' \in EffectRecord /\ (rec'.owner = NoInst <=> rec'.state = "none")
      BY <1>r, <3>3 DEF TypeOK, EffectRecord
    <3> QED
      BY <2>4, <3>1, <3>2, <3>3
  <2> QED
    BY <1>5, <2>3, <2>5 DEF Record, RecordLost, RecordFailure, TypeOK
<1>6. ASSUME NEW i \in Insts, Crash(i) PROVE TypeOK'
  <2>1. pc' \in [Calls -> Points]
    BY <1>6, <1>p DEF Crash, TypeOK
  <2>2. plan' \in [Insts -> Plans]
    BY <1>6 DEF Crash, TypeOK, Plans
  <2>3. applied' \in Nat
    BY <1>6 DEF Crash, TypeOK
  <2>4. alive' \in [Insts -> BOOLEAN] /\ inflight' \in [Insts -> Calls \cup {NoCall}]
    BY <1>6 DEF Crash, TypeOK
  <2> QED
    BY <1>6, <2>1, <2>2, <2>3, <2>4 DEF Crash, TypeOK
<1>7. ASSUME NEW i \in Insts, GatherEvidence(i) \/ ReconcileCheck(i) PROVE TypeOK'
  <2>1. plan' \in [Insts -> Plans]
    BY <1>7 DEF GatherEvidence, ReconcileCheck, TypeOK, Plans
  <2> QED
    BY <1>7, <2>1 DEF GatherEvidence, ReconcileCheck, TypeOK
<1>8. ASSUME NEW i \in Insts, ReconcileWrite(i) PROVE TypeOK'
  <2>1. plan' \in [Insts -> Plans]
    BY <1>8 DEF ReconcileWrite, TypeOK, Plans
  <2>2. \/ rec' = rec
        \/ rec.state = "in_flight" /\ rec' = [rec EXCEPT !.state = "done", !.result = Reconciled]
        \/ rec.state = "in_flight" /\ rec' = [rec EXCEPT !.state = "released"]
    BY <1>8, ReconcileFacts
  <2>3. rec' \in EffectRecord /\ (rec'.owner = NoInst <=> rec'.state = "none")
    <3>1. Reconciled \in Values
      BY DEF Values
    <3> HIDE DEF Reconciled
    <3> QED
      BY <1>r, <2>2, <3>1 DEF TypeOK, EffectRecord
  <2> QED
    BY <1>8, <2>1, <2>3 DEF ReconcileWrite, TypeOK
<1>9. CASE UNCHANGED vars
  BY <1>9 DEF vars, TypeOK
<1> QED
  BY <1>1, <1>2, <1>3, <1>4, <1>5, <1>6, <1>7, <1>8, <1>9 DEF Next, CallStep
-----------------------------------------------------------------------------
(* The effect happens at most once *)

\* A step that lets no further call run the effect, and leaves the record, the plans
\* and the count alone, keeps what is known of the runner and of the plans.
LEMMA QuietStep ==
    ASSUME TypeOK, EffectInv, UNCHANGED <<rec, applied, plan>>,
           \A d \in Calls : Running(d)' => Running(d) /\ pc'[d] = pc[d]
    PROVE  RunInv' /\ PlanInv' /\ AppliedInv'
<1>1. RunInv'
  BY DEF EffectInv, RunInv
<1>2. PlanInv'
  BY DEF EffectInv, PlanInv
<1>3. AppliedInv'
  BY DEF EffectInv, AppliedInv, Free, Running
<1> QED
  BY <1>1, <1>2, <1>3

\* When call c settles, the calls under way are the ones that were, without c, and
\* the operator's map still has the promise of its own call.
LEMMA SettleStep ==
    ASSUME OneCarefulOperator, TypeOK, EffectInv, UNCHANGED alive,
           NEW c \in Calls, NEW o \in Outcomes, NEW v \in Values, Settle(c, o, v)
    PROVE  /\ LiveInv' /\ MapInv'
           /\ pc'[c] = "end"
           /\ \A d \in Calls : pc'[d] # "end" => pc'[d] = pc[d] /\ d # c
<1>1. pc'[c] = "end" /\ \A d \in Calls : pc'[d] # "end" => pc'[d] = pc[d] /\ d # c
  BY SettleFacts
<1>2. \A i \in Insts \ {InstOf[c]} : inflight'[i] = inflight[i]
  BY SettleFacts
<1>3. LiveInv'
  BY <1>1 DEF EffectInv, LiveInv
<1>4. MapInv'
  <2> SUFFICES ASSUME NEW d \in Calls, InstOf[d] \in Reconcilers, (pc[d] = "claim" \/ Running(d))'
               PROVE  inflight'[InstOf[d]] = d
    BY DEF MapInv
  <2>1. d # c /\ pc'[d] = pc[d]
    BY <1>1 DEF Running
  <2>2. InstOf[d] \in Insts \ {InstOf[c]}
    BY <2>1, OnceAssumption DEF OneCarefulOperator
  <2>3. inflight[InstOf[d]] = d
    BY <2>1 DEF EffectInv, MapInv, Running
  <2> QED
    BY <1>2, <2>2, <2>3
<1> QED
  BY <1>1, <1>3, <1>4

\* A call that runs the effect owns the record and is the only one, and no
\* reconciliation is under way.
LEMMA RunnerFacts ==
    ASSUME EffectInv, NEW c \in Calls, Running(c)
    PROVE  /\ rec.state = "in_flight" /\ Mine(c)
           /\ \A d \in Calls : Running(d) => d = c
           /\ \A i \in Insts : plan[i] = "none"
BY DEF EffectInv, RunInv, PlanInv, Mine

\* Every step keeps the invariant.
LEMMA EffectStep ==
    ASSUME OneCarefulOperator
    PROVE  TypeOK /\ EffectInv /\ [Next]_vars => EffectInv'
<1> SUFFICES ASSUME TypeOK, EffectInv, [Next]_vars PROVE EffectInv'
  OBVIOUS
<1>i. \A c \in Calls : InstOf[c] \in Insts
  BY OnceAssumption
<1>n. \A c \in Calls : c # NoCall
  BY OnceAssumption
<1>v. rec.result \in Values /\ \A c \in Calls : c \in Values /\ NoCall \in Values
  BY DEF TypeOK, EffectRecord, Values
<1>o. \A c \in Calls : ReplayOutcome(InstOf[c]) \in Outcomes
  BY ReplayFacts DEF Outcomes
<1>1. ASSUME NEW c \in Calls, CallStart(c) PROVE EffectInv'
  <2>1. /\ alive[InstOf[c]] /\ pc'[c] \in {"status", "join"}
        /\ \A d \in Calls \ {c} : pc'[d] = pc[d]
    BY <1>1 DEF CallStart, TypeOK
  <2>2. UNCHANGED <<rec, alive, inflight, applied, plan>>
    BY <1>1 DEF CallStart
  <2>3. \A d \in Calls : Running(d)' => Running(d) /\ pc'[d] = pc[d]
    BY <2>1 DEF Running
  <2>4. LiveInv'
    BY <2>1, <2>2 DEF EffectInv, LiveInv
  <2>5. MapInv'
    BY <2>1, <2>2, <2>3 DEF EffectInv, MapInv
  <2> QED
    BY <2>2, <2>3, <2>4, <2>5, QuietStep DEF EffectInv
<1>2. ASSUME NEW c \in Calls, ReadStatus(c) PROVE EffectInv'
  <2>1. UNCHANGED <<rec, alive, applied, plan>> /\ pc[c] = "status"
    BY <1>2 DEF ReadStatus
  <2>2. CASE Free
    <3>1. /\ pc'[c] = "claim" /\ inflight'[InstOf[c]] = c
          /\ \A d \in Calls \ {c} : pc'[d] = pc[d]
          /\ \A i \in Insts \ {InstOf[c]} : inflight'[i] = inflight[i]
      BY <1>2, <1>i, <2>2 DEF ReadStatus, TypeOK
    <3>2. \A d \in Calls : Running(d)' => Running(d) /\ pc'[d] = pc[d]
      BY <3>1 DEF Running
    <3>3. LiveInv'
      BY <2>1, <3>1 DEF EffectInv, LiveInv
    <3>4. MapInv'
      <4> SUFFICES ASSUME NEW d \in Calls, InstOf[d] \in Reconcilers, (pc[d] = "claim" \/ Running(d))',
                          d # c
                   PROVE  inflight'[InstOf[d]] = d
        BY <3>1 DEF MapInv
      <4>1. InstOf[d] \in Insts \ {InstOf[c]}
        BY <1>i DEF OneCarefulOperator
      <4>2. inflight[InstOf[d]] = d
        BY <3>1 DEF EffectInv, MapInv, Running
      <4> QED
        BY <3>1, <4>1, <4>2
    <3> QED
      BY <2>1, <3>2, <3>3, <3>4, QuietStep DEF EffectInv
  <2>3. CASE ~Free
    <3>1. End({c}, ReplayOutcome(InstOf[c]), rec.result) /\ UNCHANGED inflight
      BY <1>2, <2>3 DEF ReadStatus
    <3>2. \A d \in Calls : /\ d \in {c} => pc'[d] = "end"
                           /\ d \notin {c} => pc'[d] = pc[d]
      BY <3>1 DEF End
    <3>3. \A d \in Calls : Running(d)' => Running(d) /\ pc'[d] = pc[d]
      BY <3>2 DEF Running
    <3>4. LiveInv' /\ MapInv'
      BY <2>1, <3>1, <3>2, <3>3 DEF EffectInv, LiveInv, MapInv
    <3> QED
      BY <2>1, <3>3, <3>4, QuietStep DEF EffectInv
  <2> QED
    BY <2>2, <2>3
<1>3. ASSUME NEW c \in Calls, Claim(c) PROVE EffectInv'
  <2>1. UNCHANGED <<alive, applied, plan>> /\ pc[c] = "claim"
    BY <1>3 DEF Claim
  <2>2. CASE Free
    <3>1. /\ rec'.state = "in_flight" /\ rec'.owner = InstOf[c]
          /\ pc'[c] = "run" /\ \A d \in Calls \ {c} : pc'[d] = pc[d]
          /\ UNCHANGED inflight
      BY <1>3, <2>2 DEF Claim, TypeOK
    <3>2. rec.state # "in_flight"
      BY <2>2 DEF Free
    <3>3. /\ \A d \in Calls : ~Running(d)
          /\ \A i \in Insts : plan[i] = "none"
          /\ applied = 0
      BY <2>2, <3>2 DEF EffectInv, RunInv, PlanInv, AppliedInv
    <3>4. \A d \in Calls \ {c} : ~Running(d)'
      BY <3>1, <3>3 DEF Running
    <3>5. RunInv'
      BY <3>1, <3>4 DEF RunInv
    <3>6. LiveInv'
      BY <2>1, <3>1 DEF EffectInv, LiveInv
    <3>7. MapInv'
      BY <2>1, <3>1, <3>4 DEF EffectInv, MapInv
    <3>8. PlanInv'
      BY <2>1, <3>3 DEF PlanInv
    <3>9. AppliedInv'
      BY <2>1, <3>1, <3>3 DEF AppliedInv, Free
    <3> QED
      BY <3>5, <3>6, <3>7, <3>8, <3>9 DEF EffectInv
  <2>3. CASE ~Free
    <3>1. Settle(c, ReplayOutcome(InstOf[c]), rec.result) /\ UNCHANGED rec
      BY <1>3, <2>3 DEF Claim
    <3>2. LiveInv' /\ MapInv' /\ \A d \in Calls : pc'[d] # "end" => pc'[d] = pc[d]
      BY <1>o, <1>v, <2>1, <3>1, SettleStep
    <3>3. \A d \in Calls : Running(d)' => Running(d) /\ pc'[d] = pc[d]
      BY <3>2 DEF Running
    <3> QED
      BY <2>1, <3>1, <3>2, <3>3, QuietStep DEF EffectInv
  <2> QED
    BY <2>2, <2>3
<1>4. ASSUME NEW c \in Calls, EffectReturns(c) \/ EffectRefuses(c) \/ EffectThrows(c) PROVE EffectInv'
  <2>1. /\ UNCHANGED <<rec, alive, inflight, plan>>
        /\ pc[c] = "run" /\ pc'[c] \in {"record", "release", "fail"}
        /\ \A d \in Calls \ {c} : pc'[d] = pc[d]
        /\ applied' \in {applied, applied + 1}
        /\ pc'[c] = "release" => applied' = applied
    BY <1>4 DEF EffectReturns, EffectRefuses, EffectThrows, TypeOK
  <2>2. Running(c) /\ applied = 0
    BY <2>1 DEF Running, EffectInv, AppliedInv
  <2>3. /\ rec.state = "in_flight" /\ \A d \in Calls : Running(d) => d = c
        /\ \A i \in Insts : plan[i] = "none"
    BY <2>2, RunnerFacts
  <2>4. \A d \in Calls : Running(d)' => d = c
    BY <2>1, <2>3 DEF Running
  <2>5. LiveInv' /\ MapInv'
    BY <2>1, <2>2, <2>4 DEF EffectInv, LiveInv, MapInv
  <2>6. RunInv'
    BY <2>1, <2>2, <2>4 DEF EffectInv, RunInv
  <2>7. PlanInv'
    BY <2>1, <2>3 DEF PlanInv
  <2>8. AppliedInv'
    BY <2>1, <2>2, <2>3, <2>4 DEF AppliedInv, Free, Running
  <2> QED
    BY <2>5, <2>6, <2>7, <2>8 DEF EffectInv
<1>5. ASSUME NEW c \in Calls, Record(c) \/ RecordLost(c) \/ RecordFailure(c) PROVE EffectInv'
  <2>1. PICK o \in {"ok", "unrecorded", "lost", "failed"}, v \in Values : Settle(c, o, v)
    BY <1>5, <1>v DEF Record, RecordLost, RecordFailure
  <2>2. o \in Outcomes
    BY DEF Outcomes
  <2>3. UNCHANGED <<alive, applied, plan>> /\ Running(c)
    BY <1>5 DEF Record, RecordLost, RecordFailure, Running
  <2>4. /\ LiveInv' /\ MapInv' /\ pc'[c] = "end"
        /\ \A d \in Calls : pc'[d] # "end" => pc'[d] = pc[d] /\ d # c
    BY <2>1, <2>2, <2>3, SettleStep
  <2>5. /\ rec.state = "in_flight" /\ Mine(c) /\ \A d \in Calls : Running(d) => d = c
        /\ \A i \in Insts : plan[i] = "none"
    BY <2>3, RunnerFacts
  <2>6. \A d \in Calls : ~Running(d)'
    BY <2>4, <2>5 DEF Running
  <2>7. rec'.state \in {"in_flight", "done", "failed"} \/ pc[c] = "release"
    BY <1>5, <2>5 DEF Record, RecordLost, RecordFailure, TypeOK, EffectRecord
  <2>8. AppliedInv'
    BY <2>3, <2>6, <2>7 DEF EffectInv, AppliedInv, Free, Running
  <2>9. RunInv' /\ PlanInv'
    BY <2>3, <2>5, <2>6 DEF RunInv, PlanInv
  <2> QED
    BY <2>4, <2>8, <2>9 DEF EffectInv
<1>6. ASSUME NEW i \in Insts, Crash(i) PROVE EffectInv'
  <2>1. /\ UNCHANGED rec
        /\ \A d \in Calls : pc'[d] = IF InstOf[d] = i /\ pc[d] # "end" THEN "dead" ELSE pc[d]
        /\ \A j \in Insts \ {i} : alive'[j] = alive[j] /\ inflight'[j] = inflight[j] /\ plan'[j] = plan[j]
        /\ plan'[i] = "none"
    BY <1>6 DEF Crash, TypeOK
  <2>2. \A d \in Calls : pc'[d] \notin {"end", "dead"} => pc'[d] = pc[d] /\ InstOf[d] \in Insts \ {i}
    BY <1>i, <2>1
  <2>3. \A d \in Calls : Running(d)' => Running(d) /\ InstOf[d] # i /\ pc'[d] = pc[d]
    BY <2>2 DEF Running
  <2>4. LiveInv'
    BY <2>1, <2>2 DEF EffectInv, LiveInv
  <2>5. MapInv'
    BY <2>1, <2>2 DEF EffectInv, MapInv, Running
  <2>6. RunInv'
    BY <2>1, <2>3 DEF EffectInv, RunInv
  <2>7. CASE applied' = applied
    <3>1. PlanInv'
      BY <2>1, <2>3, <2>7 DEF EffectInv, PlanInv
    <3>2. AppliedInv'
      BY <2>1, <2>2, <2>7 DEF EffectInv, AppliedInv, Free
    <3> QED
      BY <2>4, <2>5, <2>6, <3>1, <3>2 DEF EffectInv
  <2>8. CASE applied' = applied + 1
    <3>1. PICK c \in Calls : InstOf[c] = i /\ pc[c] = "run"
      BY <1>6, <2>8 DEF Crash
    <3>2. Running(c) /\ applied = 0
      BY <3>1 DEF Running, EffectInv, AppliedInv
    <3>3. /\ rec.state = "in_flight" /\ \A d \in Calls : Running(d) => d = c
          /\ \A j \in Insts : plan[j] = "none"
      BY <3>2, RunnerFacts
    <3>4. \A d \in Calls : ~Running(d)'
      BY <2>3, <3>1, <3>3
    <3>5. PlanInv'
      BY <2>1, <3>3 DEF PlanInv
    <3>6. AppliedInv'
      BY <2>1, <2>8, <3>2, <3>3, <3>4 DEF AppliedInv, Free, Running
    <3> QED
      BY <2>4, <2>5, <2>6, <3>5, <3>6 DEF EffectInv
  <2> QED
    BY <1>6, <2>7, <2>8 DEF Crash
<1>7. ASSUME NEW i \in Insts, GatherEvidence(i) PROVE EffectInv'
  <2>1. /\ UNCHANGED <<rec, alive, inflight, pc, applied>>
        /\ i \in Reconcilers /\ rec.state = "in_flight" /\ inflight[i] = NoCall
        /\ plan'[i] = (IF applied > 0 THEN "applied" ELSE "not_applied")
        /\ \A j \in Insts \ {i} : plan'[j] = plan[j]
    BY <1>7 DEF GatherEvidence, TypeOK
  <2>2. OwnerAlive(i, rec.owner) = "no"
    BY <1>7, <2>1 DEF GatherEvidence, OneCarefulOperator
  <2>3. rec.owner = i \/ ~alive[rec.owner]
    BY <2>2 DEF OwnerAlive
  <2>4. \A c \in Calls : ~Running(c)
    BY <1>n, <2>1, <2>3 DEF EffectInv, RunInv, LiveInv, MapInv, Running
  <2>5. PlanInv'
    BY <2>1, <2>4 DEF EffectInv, PlanInv, Running, TypeOK
  <2>6. LiveInv' /\ RunInv' /\ MapInv' /\ AppliedInv'
    BY <2>1 DEF EffectInv, LiveInv, RunInv, MapInv, AppliedInv, Running, Free
  <2> QED
    BY <2>5, <2>6 DEF EffectInv
<1>8. ASSUME NEW i \in Insts, ReconcileCheck(i) PROVE EffectInv'
  <2>1. /\ UNCHANGED <<rec, alive, inflight, pc, applied>>
        /\ plan[i] # "none"
        /\ \A j \in Insts \ {i} : plan'[j] = plan[j]
        /\ \/ plan'[i] = "none"
           \/ plan[i] = "applied" /\ plan'[i] = "write_applied"
           \/ plan[i] = "not_applied" /\ plan'[i] = "write_not_applied"
    BY <1>8 DEF ReconcileCheck, TypeOK
  <2>2. PlanInv'
    BY <2>1 DEF EffectInv, PlanInv, Running
  <2>3. LiveInv' /\ RunInv' /\ MapInv' /\ AppliedInv'
    BY <2>1 DEF EffectInv, LiveInv, RunInv, MapInv, AppliedInv, Running, Free
  <2> QED
    BY <2>2, <2>3 DEF EffectInv
<1>9. ASSUME NEW i \in Insts, ReconcileWrite(i) PROVE EffectInv'
  <2>1. /\ UNCHANGED <<alive, inflight, pc, applied>>
        /\ plan[i] # "none" /\ plan'[i] = "none"
        /\ \A j \in Insts \ {i} : plan'[j] = plan[j]
    BY <1>9 DEF ReconcileWrite, TypeOK
  <2>2. /\ i \in Reconcilers /\ rec.state = "in_flight"
        /\ \A c \in Calls : ~Running(c)
        /\ plan[i] = "write_not_applied" => applied = 0
    BY <2>1 DEF EffectInv, PlanInv
  <2>3. \A j \in Insts : plan'[j] = "none"
    BY <2>1, <2>2 DEF EffectInv, PlanInv, OneCarefulOperator
  <2>4. rec'.state \in {"in_flight", "done"} \/ plan[i] = "write_not_applied"
    BY <1>9, <2>2, ReconcileFacts DEF TypeOK, EffectRecord
  <2>5. AppliedInv'
    BY <2>1, <2>2, <2>4 DEF EffectInv, AppliedInv, Free
  <2>6. LiveInv' /\ RunInv' /\ MapInv'
    BY <2>1, <2>2 DEF EffectInv, LiveInv, RunInv, MapInv, Running
  <2>7. PlanInv'
    BY <2>3 DEF PlanInv
  <2> QED
    BY <2>5, <2>6, <2>7 DEF EffectInv
<1>10. CASE UNCHANGED vars
  BY <1>10 DEF vars, EffectInv, LiveInv, RunInv, MapInv, PlanInv, AppliedInv, Running, Free
<1> QED
  BY <1>1, <1>2, <1>3, <1>4, <1>5, <1>6, <1>7, <1>8, <1>9, <1>10 DEF Next, CallStep
-----------------------------------------------------------------------------
(* The recorded outcome *)

\* Every step keeps a recorded outcome.
LEMMA FinalStep ==
    TypeOK /\ [Next]_vars => (rec.state \in {"done", "failed"} => rec' = rec)
<1> SUFFICES ASSUME TypeOK, [Next]_vars, rec.state \in {"done", "failed"} PROVE rec' = rec
  OBVIOUS
<1>1. ~Free /\ rec.state # "in_flight"
  BY DEF Free
<1>2. ASSUME NEW c \in Calls, CallStart(c) \/ ReadStatus(c) \/ Claim(c) PROVE rec' = rec
  BY <1>1, <1>2 DEF CallStart, ReadStatus, Claim
<1>3. ASSUME NEW c \in Calls, EffectReturns(c) \/ EffectRefuses(c) \/ EffectThrows(c) PROVE rec' = rec
  BY <1>3 DEF EffectReturns, EffectRefuses, EffectThrows
<1>4. ASSUME NEW c \in Calls, Record(c) \/ RecordLost(c) \/ RecordFailure(c) PROVE rec' = rec
  BY <1>1, <1>4 DEF Record, RecordLost, RecordFailure, Mine
<1>5. ASSUME NEW i \in Insts, Crash(i) \/ GatherEvidence(i) \/ ReconcileCheck(i) PROVE rec' = rec
  BY <1>5 DEF Crash, GatherEvidence, ReconcileCheck
<1>6. ASSUME NEW i \in Insts, ReconcileWrite(i) PROVE rec' = rec
  BY <1>1, <1>6, ReconcileFacts
<1>7. CASE UNCHANGED vars
  BY <1>7 DEF vars
<1> QED
  BY <1>2, <1>3, <1>4, <1>5, <1>6, <1>7 DEF Next, CallStep

\* Every step keeps the agreement: a caller is told "ok" only with the recorded
\* value, and once there is one it stays.
LEMMA AgreementStep == TypeOK /\ Agreement /\ [Next]_vars => Agreement'
<1> SUFFICES ASSUME TypeOK, Agreement, [Next]_vars PROVE Agreement'
  OBVIOUS
<1>f. rec.state = "done" => rec' = rec
  BY FinalStep
<1>v. rec.result \in Values /\ \A c \in Calls : c \in Values /\ NoCall \in Values
  BY DEF TypeOK, EffectRecord, Values
<1>k. ASSUME \A d \in Calls : out'[d] = "ok" => out[d] = "ok" /\ val'[d] = val[d]
      PROVE  Agreement'
  BY <1>f, <1>k DEF Agreement
<1>1. ASSUME NEW c \in Calls, CallStart(c) PROVE Agreement'
  <2>1. \A d \in Calls : out'[d] = "ok" => out[d] = "ok" /\ val'[d] = val[d]
    BY <1>1 DEF CallStart, TypeOK
  <2> QED
    BY <1>k, <2>1
<1>2. ASSUME NEW c \in Calls, ReadStatus(c) \/ Claim(c) PROVE Agreement'
  <2>1. CASE Free
    BY <1>2, <1>k, <2>1 DEF ReadStatus, Claim
  <2>2. CASE ~Free
    <3>1. /\ UNCHANGED rec
          /\ \/ End({c}, ReplayOutcome(InstOf[c]), rec.result)
             \/ Settle(c, ReplayOutcome(InstOf[c]), rec.result)
      BY <1>2, <2>2 DEF ReadStatus, Claim
    <3>2. \A d \in Calls : \/ out'[d] = out[d] /\ val'[d] = val[d]
                           \/ out'[d] = ReplayOutcome(InstOf[c]) /\ val'[d] = rec.result
      BY <3>1 DEF Settle, End
    <3>3. ReplayOutcome(InstOf[c]) = "ok" => rec.state = "done"
      BY ReplayFacts
    <3> QED
      BY <3>1, <3>2, <3>3 DEF Agreement
  <2> QED
    BY <2>1, <2>2
<1>3. ASSUME NEW c \in Calls, EffectReturns(c) \/ EffectRefuses(c) \/ EffectThrows(c) PROVE Agreement'
  BY <1>3, <1>k DEF EffectReturns, EffectRefuses, EffectThrows
<1>4. ASSUME NEW c \in Calls, Record(c), Mine(c) PROVE Agreement'
  <2>1. rec'.state = "done" /\ rec'.result = c /\ Settle(c, "ok", c)
    BY <1>4 DEF Record, TypeOK, EffectRecord
  <2>2. \A d \in Calls : \/ out'[d] = out[d] /\ val'[d] = val[d]
                         \/ out'[d] = "ok" /\ val'[d] = c
    BY <2>1 DEF Settle, End
  <2>3. \A d \in Calls : out[d] # "ok"
    BY <1>4 DEF Mine, Agreement
  <2> QED
    BY <2>1, <2>2, <2>3 DEF Agreement
<1>5. ASSUME NEW c \in Calls, (Record(c) /\ ~Mine(c)) \/ RecordLost(c) \/ RecordFailure(c)
      PROVE  Agreement'
  <2>1. PICK o \in {"unrecorded", "lost", "failed"} : Settle(c, o, NoCall)
    BY <1>5 DEF Record, RecordLost, RecordFailure
  <2>2. \A d \in Calls : \/ out'[d] = out[d] /\ val'[d] = val[d]
                         \/ out'[d] = o
    BY <2>1 DEF Settle, End
  <2> QED
    BY <1>k, <2>2
<1>6. ASSUME NEW i \in Insts, Crash(i) \/ GatherEvidence(i) \/ ReconcileCheck(i) \/ ReconcileWrite(i)
      PROVE  Agreement'
  BY <1>6, <1>k DEF Crash, GatherEvidence, ReconcileCheck, ReconcileWrite
<1>7. CASE UNCHANGED vars
  BY <1>7, <1>k DEF vars
<1> QED
  BY <1>1, <1>2, <1>3, <1>4, <1>5, <1>6, <1>7 DEF Next, CallStep
-----------------------------------------------------------------------------
(* Theorems *)

\* The record, the promise maps and the calls of once() are well formed in every
\* reachable state.
THEOREM OnceTypeCorrect == Spec => []TypeOK
<1>1. Init => TypeOK
  BY OnceAssumption DEF Init, TypeOK, EffectRecord, Values, Points, Outcomes, Plans
<1> QED
  BY <1>1, TypeStep, PTL DEF Spec

\* Whatever crashes, operators reconcile and processes overlap, every caller once()
\* answers with a value has the value that is recorded.
THEOREM OnceAgreement == Spec => []Agreement
<1>1. Init => Agreement
  BY DEF Init, Agreement
<1> QED
  BY <1>1, OnceTypeCorrect, AgreementStep, PTL DEF Spec

\* A recorded result or failure is never overwritten, and its key is never claimed
\* again, also by an operator who reconciles without care.
THEOREM OnceOutcomeIsFinal == Spec => OutcomeIsFinal
<1>1. TypeOK /\ [Next]_vars => [rec.state \in {"done", "failed"} => rec' = rec]_vars
  BY FinalStep
<1> QED
  BY <1>1, OnceTypeCorrect, PTL DEF Spec, OutcomeIsFinal

\* With one careful operator, a call that runs the effect owns the record, and a
\* reconciliation under way is of an effect nobody runs.
THEOREM OnceEffectInvariant ==
    ASSUME OneCarefulOperator
    PROVE  Spec => []EffectInv
<1>1. Init => EffectInv
  BY DEF Init, EffectInv, LiveInv, RunInv, MapInv, PlanInv, AppliedInv, Running, Free
<1> QED
  BY <1>1, OnceTypeCorrect, EffectStep, PTL DEF Spec

\* With one careful operator the effect behind once() happens at most once, whatever
\* crashes between its start and the record of its outcome.
THEOREM OnceAppliedAtMostOnce ==
    ASSUME OneCarefulOperator
    PROVE  Spec => []AppliedAtMostOnce
<1>1. EffectInv => AppliedAtMostOnce
  BY DEF EffectInv, AppliedInv, AppliedAtMostOnce
<1> QED
  BY <1>1, OnceEffectInvariant, PTL

\* With one careful operator, no reconciliation resolves an effect that a live
\* process of its host is running.
THEOREM OnceNeverReconciledAlive ==
    ASSUME OneCarefulOperator
    PROVE  Spec => NeverReconciledAlive
<1> DEFINE Refused == \A i \in Insts : plan[i] \in {"write_applied", "write_not_applied"} /\ rec' # rec
                          => \A c \in Calls : Running(c) => HostOf[InstOf[c]] # HostOf[i]
<1>1. EffectInv => Refused
  BY DEF EffectInv, PlanInv
<1>2. EffectInv /\ [Next]_vars => [Refused]_vars
  BY <1>1
<1> QED
  BY <1>2, OnceEffectInvariant, PTL DEF Spec, NeverReconciledAlive
=============================================================================
