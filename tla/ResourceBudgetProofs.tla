------------------------ MODULE ResourceBudgetProofs ------------------------
(***************************************************************************)
(* Proofs about ResourceBudget for any number of processes, requests and   *)
(* accounts, and any limits, leases and clock.                             *)
(***************************************************************************)
EXTENDS ResourceBudget, TLAPS

\* What recoverExpired has won is expired or, meanwhile, settled by its own request,
\* and it is only held on to inside an admission.
WonInv ==
    \A r \in Requests :
        /\ call[r].at # "admitting" => call[r].won = {}
        /\ \A q \in call[r].won : res[q].status \in {"expired", "settled"}

\* A request in flight has a reservation that it has not closed itself.
FlyingInv ==
    \A r \in Requests :
        call[r].at \in {"flying", "failing"} => res[r].status \in {"active", "expired", "settled"}

StateInv == StatusAgrees /\ ExpiredIsOwed /\ EndedHoldsNothing /\ WonInv /\ FlyingInv

IInv == TypeOK /\ StateInv
-----------------------------------------------------------------------------
(* What the operations leave behind *)

\* A call that goes on has nothing left from the recovery.
LEMMA GotoFacts ==
    ASSUME TypeOK, NEW r \in Requests, NEW point \in Points, Goto(r, point)
    PROVE  /\ call' \in [Requests -> CallState]
           /\ call'[r].at = point /\ call'[r].won = {}
           /\ \A s \in Requests \ {r} : call'[s] = call[s]
<1> DEFINE c == [Idle EXCEPT !.at = point]
<1>1. call' = [call EXCEPT ![r] = c]
  BY DEF Goto
<1>2. c \in CallState /\ c.at = point /\ c.won = {}
  BY DEF Idle, CallState
<1> HIDE DEF c
<1> QED
  BY <1>1, <1>2 DEF TypeOK

\* An admission starts with the rows that are due.
LEMMA RecoveringFacts ==
    ASSUME TypeOK, NEW r \in Requests, Recovering(r)
    PROVE  /\ call' \in [Requests -> CallState]
           /\ call'[r].at = "admitting" /\ call'[r].won = {}
           /\ \A s \in Requests \ {r} : call'[s] = call[s]
<1> DEFINE due == {q \in Requests : Due(q, now)}
           c == [Idle EXCEPT !.at = "admitting", !.since = now, !.rows = due]
<1>1. call' = [call EXCEPT ![r] = c]
  BY DEF Recovering
<1>2. now \in Nat /\ due \subseteq Requests
  BY BudgetAssumption DEF TypeOK
<1> HIDE DEF due
<1>3. c \in CallState /\ c.at = "admitting" /\ c.won = {}
  BY <1>2 DEF Idle, CallState, Points
<1> HIDE DEF c
<1> QED
  BY <1>1, <1>3 DEF TypeOK

\* The fields a call changes in the middle of a recovery or a failure.
LEMMA CallFacts ==
    ASSUME NEW c \in CallState, NEW rows \in SUBSET Requests, NEW won \in SUBSET Requests,
           NEW partial \in Nat \cup {NoUsage}
    PROVE  /\ [c EXCEPT !.rows = rows] \in CallState
           /\ [c EXCEPT !.rows = rows, !.won = won] \in CallState
           /\ [c EXCEPT !.at = "failing", !.partial = partial] \in CallState
<1> DEFINE Units == Nat \cup {NoUsage}
           Sets == SUBSET Requests
<1>1. CallState = [at: Points, rows: Sets, won: Sets, since: Nat, partial: Units]
  BY DEF CallState
<1>2. "failing" \in Points
  BY DEF Points
<1>3. rows \in Sets /\ won \in Sets /\ partial \in Units
  OBVIOUS
<1> HIDE DEF Units, Sets
<1>4. [c EXCEPT !.rows = rows] \in CallState
  BY <1>1, <1>3
<1>5. [c EXCEPT !.rows = rows, !.won = won] \in CallState
  BY <1>1, <1>3
<1>6. [c EXCEPT !.at = "failing", !.partial = partial] \in CallState
  BY <1>1, <1>2, <1>3
<1> QED
  BY <1>4, <1>5, <1>6

\* A closed reservation is a reservation.
LEMMA ClosedFacts ==
    ASSUME NEW status \in Statuses
    PROVE  Closed(status) \in Reservation /\ Closed(status).status = status
BY DEF Closed, Reservation

\* settle() leaves the request settled and charged, by this settle or an earlier one.
LEMMA SettleFacts ==
    ASSUME TypeOK, StatusAgrees, NEW q \in Requests, NEW units \in Nat,
           res[q].status \in {"active", "expired", "settled"}, Settle(q, units)
    PROVE  /\ res' \in [Requests -> Reservation]
           /\ usage' \in [Requests -> Nat \cup {NoUsage}]
           /\ res'[q].status = "settled" /\ usage'[q] # NoUsage
           /\ \A s \in Requests \ {q} : res'[s] = res[s] /\ usage'[s] = usage[s]
           /\ \A s \in Requests : usage[s] # NoUsage => usage'[s] = usage[s]
<1>1. CASE usage[q] # NoUsage
  BY <1>1 DEF Settle, TypeOK, StatusAgrees
<1>2. CASE usage[q] = NoUsage
  <2>1. res[q].status \in {"active", "expired"}
    BY <1>2 DEF StatusAgrees
  <2>2. res' = [res EXCEPT ![q] = Closed("settled")] /\ usage' = [usage EXCEPT ![q] = units]
    BY <1>2, <2>1 DEF Settle
  <2>3. Closed("settled") \in Reservation /\ Closed("settled").status = "settled"
    BY ClosedFacts DEF Statuses
  <2> QED
    BY <1>2, <2>2, <2>3, BudgetAssumption DEF TypeOK
<1> QED
  BY <1>1, <1>2

\* A step of a call that leaves the tables alone and is not in the middle of a recovery.
LEMMA QuietStep ==
    ASSUME StateInv, NEW r \in Requests, UNCHANGED <<res, usage, up, torn>>,
           \A s \in Requests \ {r} : call'[s] = call[s],
           call[r].won = {}, call'[r].won = {},
           call'[r].at \notin {"flying", "ended"},
           call'[r].at = "failing" => call[r].at = "flying"
    PROVE  StateInv'
<1>1. StatusAgrees'
  BY DEF StateInv, StatusAgrees
<1>2. ExpiredIsOwed'
  <2> SUFFICES ASSUME NEW q \in Requests, res'[q].status = "expired", q \notin torn'
               PROVE  \E s \in Requests : Alive(s)' /\ call'[s].won = {q}
    BY DEF ExpiredIsOwed
  <2>1. PICK s \in Requests : Alive(s) /\ call[s].won = {q}
    BY DEF StateInv, ExpiredIsOwed
  <2>2. s # r
    BY <2>1
  <2> QED
    BY <2>1, <2>2 DEF Alive
<1>3. EndedHoldsNothing'
  BY DEF StateInv, EndedHoldsNothing
<1>4. WonInv'
  BY DEF StateInv, WonInv
<1>5. FlyingInv'
  BY DEF StateInv, FlyingInv
<1> QED
  BY <1>1, <1>2, <1>3, <1>4, <1>5 DEF StateInv

\* A request in flight charges itself and ends.
LEMMA SettleStep ==
    ASSUME TypeOK, StateInv, NEW r \in Requests, call[r].at \in {"flying", "failing"},
           NEW units \in Nat, Settle(r, units), Goto(r, "ended"), UNCHANGED <<up, torn>>
    PROVE  StateInv'
<1>1. res[r].status \in {"active", "expired", "settled"}
  BY DEF StateInv, FlyingInv
<1>2. /\ res'[r].status = "settled" /\ usage'[r] # NoUsage
      /\ \A s \in Requests \ {r} : res'[s] = res[s] /\ usage'[s] = usage[s]
  BY <1>1, SettleFacts DEF StateInv
<1>3. /\ call'[r].at = "ended" /\ call'[r].won = {}
      /\ \A s \in Requests \ {r} : call'[s] = call[s]
  BY GotoFacts DEF Points
<1>4. call[r].won = {}
  BY DEF StateInv, WonInv
<1>5. StatusAgrees'
  BY <1>2 DEF StateInv, StatusAgrees
<1>6. ExpiredIsOwed'
  <2> SUFFICES ASSUME NEW q \in Requests, res'[q].status = "expired", q \notin torn'
               PROVE  \E s \in Requests : Alive(s)' /\ call'[s].won = {q}
    BY DEF ExpiredIsOwed
  <2>1. res[q].status = "expired"
    BY <1>2
  <2>2. PICK s \in Requests : Alive(s) /\ call[s].won = {q}
    BY <2>1 DEF StateInv, ExpiredIsOwed
  <2>3. s # r
    BY <1>4, <2>2
  <2> QED
    BY <1>3, <2>2, <2>3 DEF Alive
<1>7. EndedHoldsNothing'
  BY <1>2, <1>3 DEF StateInv, EndedHoldsNothing
<1>8. WonInv'
  <2>1. \A s \in Requests : call'[s].at # "admitting" => call'[s].won = {}
    BY <1>3 DEF StateInv, WonInv
  <2>2. \A s \in Requests : \A q \in call'[s].won : res'[q].status \in {"expired", "settled"}
    <3> SUFFICES ASSUME NEW s \in Requests, NEW q \in call'[s].won
                 PROVE  res'[q].status \in {"expired", "settled"}
      OBVIOUS
    <3>1. s # r /\ q \in call[s].won /\ q \in Requests
      BY <1>3 DEF TypeOK, CallState
    <3> QED
      BY <1>2, <3>1 DEF StateInv, WonInv
  <2> QED
    BY <2>1, <2>2 DEF WonInv
<1>9. FlyingInv'
  BY <1>2, <1>3 DEF StateInv, FlyingInv
<1> QED
  BY <1>5, <1>6, <1>7, <1>8, <1>9 DEF StateInv

-----------------------------------------------------------------------------
(* Types *)

\* Every step keeps the types.
LEMMA TypeStep == TypeOK /\ StateInv /\ [Next]_vars => TypeOK'
<1> SUFFICES ASSUME TypeOK, StateInv, [Next]_vars PROVE TypeOK'
  OBVIOUS
<1>n. now \in Nat
  BY BudgetAssumption DEF TypeOK
<1>c. \A r \in Requests : call[r] \in CallState
  BY DEF TypeOK
<1>e. \A r \in Requests : Estimate[r] \in Nat /\ AccountOf[r] \in Accounts
  BY BudgetAssumption
<1>s. StatusAgrees /\ WonInv /\ FlyingInv
  BY DEF StateInv
<1>i. Incident => incidents' \in 0 .. MaxIncidents
  BY BudgetAssumption DEF Incident, TypeOK
<1>h. Cooldown \in Health
  BY <1>n DEF Cooldown, Health
<1>1. ASSUME NEW r \in Requests, Admit(r) \/ Retry(r) PROVE TypeOK'
  BY <1>1, RecoveringFacts DEF Admit, Retry, TypeOK
<1>2. ASSUME NEW r \in Requests, Defer(r) \/ Deny(r) \/ QueueTimeOut(r) PROVE TypeOK'
  <2>1. Goto(r, "queued") \/ Goto(r, "denied")
    BY <1>2 DEF Defer, Deny, QueueTimeOut
  <2>2. call' \in [Requests -> CallState]
    BY <2>1, GotoFacts DEF Points
  <2> QED
    BY <1>2, <2>2 DEF Defer, Deny, QueueTimeOut, TypeOK
<1>3. ASSUME NEW r \in Requests, NEW q \in Requests, RecoverExpired(r, q) PROVE TypeOK'
  <2> DEFINE rows == call[r].rows \ {q}
             won == {q}
  <2>2. \/ call' = [call EXCEPT ![r] = [call[r] EXCEPT !.rows = rows, !.won = won]]
        \/ call' = [call EXCEPT ![r] = [call[r] EXCEPT !.rows = rows]]
    BY <1>3 DEF RecoverExpired
  <2>0. rows \subseteq Requests /\ won \subseteq Requests
    BY <1>c DEF CallState
  <2> HIDE DEF rows, won
  <2>1. /\ [call[r] EXCEPT !.rows = rows, !.won = won] \in CallState
        /\ [call[r] EXCEPT !.rows = rows] \in CallState
    BY <1>c, <2>0, CallFacts, BudgetAssumption
  <2>3. call' \in [Requests -> CallState]
    BY <2>1, <2>2 DEF TypeOK
  <2>4. Closed("expired") \in Reservation
    BY ClosedFacts DEF Statuses
  <2>5. res' \in [Requests -> Reservation]
    BY <1>3, <2>4 DEF RecoverExpired, TypeOK
  <2> QED
    BY <1>3, <2>3, <2>5 DEF RecoverExpired, TypeOK
<1>4. ASSUME NEW r \in Requests, RecoverCharge(r) PROVE TypeOK'
  <2>1. PICK q \in call[r].won : Settle(q, Estimate[q])
    BY <1>4 DEF RecoverCharge
  <2>2. q \in Requests
    BY <1>c, <2>1 DEF CallState
  <2>3. res[q].status \in {"expired", "settled"}
    BY <1>s, <2>1 DEF WonInv
  <2>4. res' \in [Requests -> Reservation] /\ usage' \in [Requests -> Nat \cup {NoUsage}]
    BY <1>e, <1>s, <2>1, <2>2, <2>3, SettleFacts
  <2>5. [call[r] EXCEPT !.won = {}] \in CallState
    BY <1>c DEF CallState
  <2>6. call' = [call EXCEPT ![r] = [call[r] EXCEPT !.won = {}]]
    BY <1>4 DEF RecoverCharge
  <2>7. call' \in [Requests -> CallState]
    BY <2>5, <2>6 DEF TypeOK
  <2> QED
    BY <1>4, <2>4, <2>7 DEF RecoverCharge, TypeOK
<1>5. ASSUME NEW r \in Requests, Reserve(r) PROVE TypeOK'
  <2>1. call' \in [Requests -> CallState]
    BY <1>5, GotoFacts DEF Reserve, Points
  <2>2. [status |-> "active", lease |-> now + LeaseTime] \in Reservation
    BY <1>n, BudgetAssumption DEF Reservation, Statuses
  <2>3. res' \in [Requests -> Reservation]
    BY <1>5, <2>2 DEF Reserve, TypeOK
  <2> QED
    BY <1>5, <2>1, <2>3 DEF Reserve, TypeOK
<1>6. ASSUME NEW r \in Requests, RenewLease(r) PROVE TypeOK'
  <2>1. [res[r] EXCEPT !.lease = now + LeaseTime] \in Reservation
    BY <1>n, BudgetAssumption DEF Reservation, TypeOK
  <2>2. res' = [res EXCEPT ![r] = [res[r] EXCEPT !.lease = now + LeaseTime]]
    BY <1>6 DEF RenewLease
  <2>3. res' \in [Requests -> Reservation]
    BY <2>1, <2>2 DEF TypeOK
  <2> QED
    BY <1>6, <2>3 DEF RenewLease, TypeOK
<1>7. ASSUME NEW r \in Requests, Complete(r) PROVE TypeOK'
  <2>1. PICK units \in Actuals : Settle(r, units)
    BY <1>7 DEF Complete
  <2>2. units \in Nat
    BY <2>1, BudgetAssumption
  <2>3. res[r].status \in {"active", "expired", "settled"}
    BY <1>7, <1>s DEF Complete, At, FlyingInv
  <2>4. res' \in [Requests -> Reservation] /\ usage' \in [Requests -> Nat \cup {NoUsage}]
    BY <1>s, <2>1, <2>2, <2>3, SettleFacts
  <2>5. call' \in [Requests -> CallState]
    BY <1>7, GotoFacts DEF Complete, Points
  <2> QED
    BY <1>7, <2>4, <2>5 DEF Complete, TypeOK
<1>8. ASSUME NEW r \in Requests, FailAccount(r) \/ Fail(r) PROVE TypeOK'
  <2>1. PICK partial \in Ambiguous :
            call' = [call EXCEPT ![r] = [call[r] EXCEPT !.at = "failing", !.partial = partial]]
    BY <1>8 DEF FailAccount, Fail
  <2>2. partial \in Nat \cup {NoUsage}
    BY BudgetAssumption DEF Ambiguous
  <2>3. [call[r] EXCEPT !.at = "failing", !.partial = partial] \in CallState
    BY <1>c, <2>2, CallFacts
  <2>4. call' \in [Requests -> CallState]
    BY <2>1, <2>3 DEF TypeOK
  <2>5. [health |-> "auth_blocked", until |-> 0] \in Health
    BY DEF Health
  <2>6. health' \in [Accounts -> Health]
    BY <1>8, <1>h, <2>5 DEF FailAccount, Fail, TypeOK
  <2>7. incidents' \in 0 .. MaxIncidents
    BY <1>8, <1>i DEF FailAccount, Fail, TypeOK
  <2> QED
    BY <1>8, <2>4, <2>6, <2>7 DEF FailAccount, Fail, TypeOK
<1>9. ASSUME NEW r \in Requests, Close(r) PROVE TypeOK'
  <2>1. call' \in [Requests -> CallState]
    BY <1>9, GotoFacts DEF Close, Points
  <2>2. CASE call[r].partial # NoUsage
    <3>1. call[r].partial \in Nat
      BY <1>c, <2>2 DEF CallState
    <3>2. Larger(call[r].partial, Estimate[r]) \in Nat
      BY <1>e, <3>1 DEF Larger
    <3>3. res[r].status \in {"active", "expired", "settled"}
      BY <1>9, <1>s DEF Close, At, FlyingInv
    <3>4. Settle(r, Larger(call[r].partial, Estimate[r]))
      BY <1>9, <2>2 DEF Close
    <3>5. res' \in [Requests -> Reservation] /\ usage' \in [Requests -> Nat \cup {NoUsage}]
      BY <1>s, <3>2, <3>3, <3>4, SettleFacts
    <3> QED
      BY <1>9, <2>1, <3>5 DEF Close, TypeOK
  <2>3. CASE call[r].partial = NoUsage
    <3>1. Closed("released") \in Reservation
      BY ClosedFacts DEF Statuses
    <3>2. Release(r) /\ usage' = usage
      BY <1>9, <2>3 DEF Close
    <3>3. res' \in [Requests -> Reservation]
      BY <3>1, <3>2 DEF Release, TypeOK
    <3> QED
      BY <1>9, <2>1, <3>2, <3>3 DEF Close, TypeOK
  <2> QED
    BY <2>2, <2>3
<1>10. ASSUME NEW r \in Requests, HeadersExhausted(r) PROVE TypeOK'
  BY <1>10, <1>e, <1>h, <1>i DEF HeadersExhausted, TypeOK
<1>11. ASSUME NEW p \in Procs, Crash(p) PROVE TypeOK'
  <2>1. \A r \in Requests : call[r].won \subseteq Requests
    BY <1>c DEF CallState
  <2>2. torn' \subseteq Requests
    BY <1>11, <2>1 DEF Crash, TypeOK
  <2> QED
    BY <1>11, <1>i, <2>2 DEF Crash, TypeOK
<1>12. ASSUME NEW a \in Accounts, ResetHealth(a) PROVE TypeOK'
  <2>1. [health |-> "ok", until |-> 0] \in Health
    BY DEF Health
  <2> QED
    BY <1>12, <2>1 DEF ResetHealth, TypeOK
<1>13. CASE EmergencyStop \/ Resume
  BY <1>13, <1>i DEF EmergencyStop, Resume, TypeOK
<1>14. CASE Tick
  BY <1>14, BudgetAssumption DEF Tick, TypeOK
<1>15. CASE UNCHANGED vars
  BY <1>15 DEF vars, TypeOK
<1> QED
  BY <1>1, <1>2, <1>3, <1>4, <1>5, <1>6, <1>7, <1>8, <1>9, <1>10, <1>11, <1>12, <1>13, <1>14,
     <1>15
  DEF Next, RequestStep

-----------------------------------------------------------------------------
(* The reservations *)

\* Whoever comes first charges a reservation; whoever has marked one expired will.
LEMMA StateStep == TypeOK /\ StateInv /\ [Next]_vars => StateInv'
<1> SUFFICES ASSUME TypeOK, StateInv, [Next]_vars PROVE StateInv'
  OBVIOUS
<1>c. \A r \in Requests : call[r] \in CallState
  BY DEF TypeOK
<1>e. \A r \in Requests : Estimate[r] \in Nat
  BY BudgetAssumption
<1>s. StatusAgrees /\ ExpiredIsOwed /\ EndedHoldsNothing /\ WonInv /\ FlyingInv
  BY DEF StateInv
<1>1. ASSUME NEW r \in Requests, Admit(r) \/ Retry(r) PROVE StateInv'
  <2>1. /\ UNCHANGED <<res, usage, up, torn>> /\ Recovering(r)
        /\ call[r].at \in {"new", "queued"}
    BY <1>1 DEF Admit, Retry, At
  <2>2. call[r].won = {}
    BY <1>s, <2>1 DEF WonInv
  <2>3. /\ call'[r].at = "admitting" /\ call'[r].won = {}
        /\ \A s \in Requests \ {r} : call'[s] = call[s]
    BY <2>1, RecoveringFacts
  <2> QED
    BY <2>1, <2>2, <2>3, QuietStep
<1>2. ASSUME NEW r \in Requests, Defer(r) \/ Deny(r) \/ QueueTimeOut(r) PROVE StateInv'
  <2>1. UNCHANGED <<res, usage, up, torn>> /\ (Goto(r, "queued") \/ Goto(r, "denied"))
    BY <1>2 DEF Defer, Deny, QueueTimeOut
  <2>2. call[r].won = {}
    BY <1>2, <1>s DEF Defer, Deny, QueueTimeOut, Evaluating, At, WonInv
  <2>3. /\ call'[r].at \in {"queued", "denied"} /\ call'[r].won = {}
        /\ \A s \in Requests \ {r} : call'[s] = call[s]
    BY <2>1, GotoFacts DEF Points
  <2> QED
    BY <2>1, <2>2, <2>3, QuietStep
<1>3. ASSUME NEW r \in Requests, NEW q \in Requests, RecoverExpired(r, q) PROVE StateInv'
  <2>1. /\ UNCHANGED <<usage, up, torn>> /\ Alive(r)
        /\ call[r].at = "admitting" /\ call[r].won = {}
        /\ \A s \in Requests \ {r} : call'[s] = call[s]
    BY <1>3 DEF RecoverExpired, At, TypeOK
  <2>2. CASE ~Due(q, call[r].since)
    <3>1. UNCHANGED res /\ call'[r].at = "admitting" /\ call'[r].won = {}
      BY <1>3, <1>c, <2>1, <2>2 DEF RecoverExpired, CallState, TypeOK
    <3> QED
      BY <2>1, <3>1, QuietStep
  <2>3. CASE Due(q, call[r].since)
    <3>1. res[q].status = "active"
      BY <2>3 DEF Due
    <3>2. res' = [res EXCEPT ![q] = Closed("expired")]
      BY <1>3, <2>3 DEF RecoverExpired
    <3>3. res'[q].status = "expired" /\ \A s \in Requests \ {q} : res'[s] = res[s]
      BY <3>2, ClosedFacts DEF Statuses, TypeOK
    <3>4. call'[r].at = "admitting" /\ call'[r].won = {q}
      BY <1>3, <1>c, <2>1, <2>3 DEF RecoverExpired, CallState, TypeOK
    <3>5. StatusAgrees'
      BY <1>s, <2>1, <3>1, <3>3 DEF StatusAgrees
    <3>6. ExpiredIsOwed'
      <4> SUFFICES ASSUME NEW x \in Requests, res'[x].status = "expired", x \notin torn'
                   PROVE  \E s \in Requests : Alive(s)' /\ call'[s].won = {x}
        BY DEF ExpiredIsOwed
      <4>1. CASE x = q
        BY <2>1, <3>4, <4>1 DEF Alive
      <4>2. CASE x # q
        <5>1. PICK s \in Requests : Alive(s) /\ call[s].won = {x}
          BY <1>s, <2>1, <3>3, <4>2 DEF ExpiredIsOwed
        <5>2. s # r
          BY <2>1, <5>1
        <5> QED
          BY <2>1, <5>1, <5>2 DEF Alive
      <4> QED
        BY <4>1, <4>2
    <3>7. EndedHoldsNothing'
      BY <1>s, <2>1, <3>3, <3>4 DEF EndedHoldsNothing
    <3>8. WonInv'
      <4>1. \A s \in Requests : call'[s].at # "admitting" => call'[s].won = {}
        BY <1>s, <2>1, <3>4 DEF WonInv
      <4>2. \A s \in Requests : \A x \in call'[s].won : res'[x].status \in {"expired", "settled"}
        <5> SUFFICES ASSUME NEW s \in Requests, NEW x \in call'[s].won, x # q
                     PROVE  res'[x].status \in {"expired", "settled"}
          BY <3>3
        <5>1. s # r
          BY <3>4
        <5>2. x \in call[s].won /\ x \in Requests
          BY <1>c, <2>1, <5>1 DEF CallState
        <5> QED
          BY <1>s, <3>3, <5>2 DEF WonInv
      <4> QED
        BY <4>1, <4>2 DEF WonInv
    <3>9. FlyingInv'
      BY <1>s, <2>1, <3>3, <3>4 DEF FlyingInv
    <3> QED
      BY <3>5, <3>6, <3>7, <3>8, <3>9 DEF StateInv
  <2> QED
    BY <2>2, <2>3
<1>4. ASSUME NEW r \in Requests, RecoverCharge(r) PROVE StateInv'
  <2>1. /\ UNCHANGED <<up, torn>> /\ call[r].at = "admitting"
        /\ \A s \in Requests \ {r} : call'[s] = call[s]
    BY <1>4 DEF RecoverCharge, At, TypeOK
  <2>2. call'[r].at = "admitting" /\ call'[r].won = {}
    BY <1>4, <1>c, <2>1 DEF RecoverCharge, CallState, TypeOK
  <2>3. PICK q \in call[r].won : Settle(q, Estimate[q])
    BY <1>4 DEF RecoverCharge
  <2>4. q \in Requests /\ res[q].status \in {"expired", "settled"}
    BY <1>c, <1>s, <2>3 DEF CallState, WonInv
  <2>5. /\ res'[q].status = "settled" /\ usage'[q] # NoUsage
        /\ \A s \in Requests \ {q} : res'[s] = res[s] /\ usage'[s] = usage[s]
    BY <1>e, <1>s, <2>3, <2>4, SettleFacts
  <2>6. StatusAgrees'
    BY <1>s, <2>5 DEF StatusAgrees
  <2>7. ExpiredIsOwed'
    <3> SUFFICES ASSUME NEW x \in Requests, res'[x].status = "expired", x \notin torn'
                 PROVE  \E s \in Requests : Alive(s)' /\ call'[s].won = {x}
      BY DEF ExpiredIsOwed
    <3>1. x # q /\ res[x].status = "expired"
      BY <2>5
    <3>2. PICK s \in Requests : Alive(s) /\ call[s].won = {x}
      BY <1>s, <2>1, <3>1 DEF ExpiredIsOwed
    <3>3. s # r
      BY <2>3, <3>1, <3>2
    <3> QED
      BY <2>1, <3>2, <3>3 DEF Alive
  <2>8. EndedHoldsNothing'
    BY <1>s, <2>1, <2>2, <2>5 DEF EndedHoldsNothing
  <2>9. WonInv'
    <3>1. \A s \in Requests : call'[s].at # "admitting" => call'[s].won = {}
      BY <1>s, <2>1, <2>2 DEF WonInv
    <3>2. \A s \in Requests : \A x \in call'[s].won : res'[x].status \in {"expired", "settled"}
      <4> SUFFICES ASSUME NEW s \in Requests, NEW x \in call'[s].won
                   PROVE  res'[x].status \in {"expired", "settled"}
        OBVIOUS
      <4>1. s # r /\ x \in call[s].won /\ x \in Requests
        BY <1>c, <2>1, <2>2 DEF CallState
      <4> QED
        BY <1>s, <2>5, <4>1 DEF WonInv
    <3> QED
      BY <3>1, <3>2 DEF WonInv
  <2>10. FlyingInv'
    BY <1>s, <2>1, <2>2, <2>5 DEF FlyingInv
  <2> QED
    BY <2>6, <2>7, <2>8, <2>9, <2>10 DEF StateInv
<1>5. ASSUME NEW r \in Requests, Reserve(r) PROVE StateInv'
  <2>1. UNCHANGED <<usage, up, torn>> /\ res[r].status = "none" /\ call[r].won = {}
    BY <1>5 DEF Reserve, Evaluating
  <2>2. res'[r].status = "active" /\ \A s \in Requests \ {r} : res'[s] = res[s]
    BY <1>5 DEF Reserve, TypeOK
  <2>3. /\ call'[r].at = "flying" /\ call'[r].won = {}
        /\ \A s \in Requests \ {r} : call'[s] = call[s]
    BY <1>5, GotoFacts DEF Reserve, Points
  <2>4. StatusAgrees'
    BY <1>s, <2>1, <2>2 DEF StatusAgrees
  <2>5. ExpiredIsOwed'
    <3> SUFFICES ASSUME NEW x \in Requests, res'[x].status = "expired", x \notin torn'
                 PROVE  \E s \in Requests : Alive(s)' /\ call'[s].won = {x}
      BY DEF ExpiredIsOwed
    <3>1. PICK s \in Requests : Alive(s) /\ call[s].won = {x}
      BY <1>s, <2>1, <2>2 DEF ExpiredIsOwed
    <3>2. s # r
      BY <2>1, <3>1
    <3> QED
      BY <2>1, <2>3, <3>1, <3>2 DEF Alive
  <2>6. EndedHoldsNothing'
    BY <1>s, <2>2, <2>3 DEF EndedHoldsNothing
  <2>7. WonInv'
    <3>1. \A s \in Requests : call'[s].at # "admitting" => call'[s].won = {}
      BY <1>s, <2>3 DEF WonInv
    <3>2. \A s \in Requests : \A x \in call'[s].won : res'[x].status \in {"expired", "settled"}
      <4> SUFFICES ASSUME NEW s \in Requests, NEW x \in call'[s].won
                   PROVE  res'[x].status \in {"expired", "settled"}
        OBVIOUS
      <4>1. s # r /\ x \in call[s].won /\ x \in Requests
        BY <1>c, <2>3 DEF CallState
      <4>2. res[x].status \in {"expired", "settled"}
        BY <1>s, <4>1 DEF WonInv
      <4> QED
        BY <2>1, <2>2, <4>1, <4>2
    <3> QED
      BY <3>1, <3>2 DEF WonInv
  <2>8. FlyingInv'
    BY <1>s, <2>2, <2>3 DEF FlyingInv
  <2> QED
    BY <2>4, <2>5, <2>6, <2>7, <2>8 DEF StateInv
<1>6. ASSUME NEW r \in Requests, RenewLease(r) PROVE StateInv'
  <2>1. UNCHANGED <<usage, call, up, torn>>
    BY <1>6 DEF RenewLease
  <2>2. \A s \in Requests : res'[s].status = res[s].status
    BY <1>6 DEF RenewLease, TypeOK, Reservation
  <2>3. \A s \in Requests : call[s].won \subseteq Requests
    BY <1>c DEF CallState
  <2> QED
    BY <1>s, <2>1, <2>2, <2>3
    DEF StateInv, StatusAgrees, ExpiredIsOwed, EndedHoldsNothing, WonInv, FlyingInv, Alive
<1>7. ASSUME NEW r \in Requests, Complete(r) PROVE StateInv'
  <2>1. PICK units \in Actuals : Settle(r, units)
    BY <1>7 DEF Complete
  <2>2. units \in Nat
    BY <2>1, BudgetAssumption
  <2>3. call[r].at = "flying" /\ Goto(r, "ended") /\ UNCHANGED <<up, torn>>
    BY <1>7 DEF Complete, At
  <2> QED
    BY <2>1, <2>2, <2>3, SettleStep
<1>8. ASSUME NEW r \in Requests, FailAccount(r) \/ Fail(r) PROVE StateInv'
  <2>1. UNCHANGED <<res, usage, up, torn>> /\ call[r].at = "flying"
    BY <1>8 DEF FailAccount, Fail, At
  <2>2. call[r].won = {}
    BY <1>s, <2>1 DEF WonInv
  <2>3. PICK partial \in Ambiguous :
            call' = [call EXCEPT ![r] = [call[r] EXCEPT !.at = "failing", !.partial = partial]]
    BY <1>8 DEF FailAccount, Fail
  <2>4. /\ call'[r].at = "failing" /\ call'[r].won = {}
        /\ \A s \in Requests \ {r} : call'[s] = call[s]
    BY <1>c, <2>2, <2>3 DEF CallState, TypeOK
  <2> QED
    BY <2>1, <2>2, <2>4, QuietStep
<1>9. ASSUME NEW r \in Requests, Close(r) PROVE StateInv'
  <2>1. call[r].at = "failing" /\ Goto(r, "ended") /\ UNCHANGED <<up, torn>>
    BY <1>9 DEF Close, At
  <2>2. CASE call[r].partial # NoUsage
    <3>1. call[r].partial \in Nat
      BY <1>c, <2>2 DEF CallState
    <3>2. Larger(call[r].partial, Estimate[r]) \in Nat
      BY <1>e, <3>1 DEF Larger
    <3>3. Settle(r, Larger(call[r].partial, Estimate[r]))
      BY <1>9, <2>2 DEF Close
    <3> QED
      BY <2>1, <3>2, <3>3, SettleStep
  <2>3. CASE call[r].partial = NoUsage
    <3>1. Release(r) /\ usage' = usage
      BY <1>9, <2>3 DEF Close
    <3>2. res[r].status \in {"active", "expired", "settled"} /\ call[r].won = {}
      BY <1>s, <2>1 DEF FlyingInv, WonInv
    <3>3. /\ res[r].status = "active" => res'[r].status = "released"
          /\ res[r].status # "active" => res'[r] = res[r]
          /\ \A s \in Requests \ {r} : res'[s] = res[s]
      BY <3>1, ClosedFacts DEF Release, Statuses, TypeOK
    <3>4. /\ call'[r].at = "ended" /\ call'[r].won = {}
          /\ \A s \in Requests \ {r} : call'[s] = call[s]
      BY <2>1, GotoFacts DEF Points
    <3>5. \A s \in Requests :
              res[s].status \in {"expired", "settled"} => res'[s].status \in {"expired", "settled"}
      BY <3>2, <3>3
    <3>6. StatusAgrees'
      BY <1>s, <3>1, <3>3 DEF StatusAgrees
    <3>7. ExpiredIsOwed'
      <4> SUFFICES ASSUME NEW x \in Requests, res'[x].status = "expired", x \notin torn'
                   PROVE  \E s \in Requests : Alive(s)' /\ call'[s].won = {x}
        BY DEF ExpiredIsOwed
      <4>1. res[x].status = "expired"
        BY <3>2, <3>3
      <4>2. PICK s \in Requests : Alive(s) /\ call[s].won = {x}
        BY <1>s, <2>1, <4>1 DEF ExpiredIsOwed
      <4>3. s # r
        BY <3>2, <4>2
      <4> QED
        BY <2>1, <3>4, <4>2, <4>3 DEF Alive
    <3>8. EndedHoldsNothing'
      BY <1>s, <3>2, <3>3, <3>4 DEF EndedHoldsNothing
    <3>9. WonInv'
      <4>1. \A s \in Requests : call'[s].at # "admitting" => call'[s].won = {}
        BY <1>s, <3>4 DEF WonInv
      <4>2. \A s \in Requests : \A x \in call'[s].won : res'[x].status \in {"expired", "settled"}
        <5> SUFFICES ASSUME NEW s \in Requests, NEW x \in call'[s].won
                     PROVE  res'[x].status \in {"expired", "settled"}
          OBVIOUS
        <5>1. s # r /\ x \in call[s].won /\ x \in Requests
          BY <1>c, <3>4 DEF CallState
        <5> QED
          BY <1>s, <3>5, <5>1 DEF WonInv
      <4> QED
        BY <4>1, <4>2 DEF WonInv
    <3>10. FlyingInv'
      BY <1>s, <3>3, <3>4 DEF FlyingInv
    <3> QED
      BY <3>6, <3>7, <3>8, <3>9, <3>10 DEF StateInv
  <2> QED
    BY <2>2, <2>3
<1>10. ASSUME NEW p \in Procs, Crash(p) PROVE StateInv'
  <2>1. UNCHANGED <<res, usage, call>>
    BY <1>10 DEF Crash
  <2>2. ExpiredIsOwed'
    <3> SUFFICES ASSUME NEW x \in Requests, res'[x].status = "expired", x \notin torn'
                 PROVE  \E s \in Requests : Alive(s)' /\ call'[s].won = {x}
      BY DEF ExpiredIsOwed
    <3>1. x \notin torn
      BY <1>10 DEF Crash
    <3>2. PICK s \in Requests : Alive(s) /\ call[s].won = {x}
      BY <1>s, <2>1, <3>1 DEF ExpiredIsOwed
    <3>3. ProcOf[s] # p
      BY <1>10, <3>2 DEF Crash
    <3> QED
      BY <1>10, <2>1, <3>2, <3>3 DEF Crash, Alive
  <2> QED
    BY <1>s, <2>1, <2>2 DEF StateInv, StatusAgrees, EndedHoldsNothing, WonInv, FlyingInv
<1>11. CASE UNCHANGED <<res, usage, call, up, torn>>
  BY <1>s, <1>11
  DEF StateInv, StatusAgrees, ExpiredIsOwed, EndedHoldsNothing, WonInv, FlyingInv, Alive
<1>12. ASSUME NEW r \in Requests, HeadersExhausted(r) PROVE UNCHANGED <<res, usage, call, up, torn>>
  BY <1>12 DEF HeadersExhausted
<1>13. ASSUME NEW a \in Accounts, ResetHealth(a) PROVE UNCHANGED <<res, usage, call, up, torn>>
  BY <1>13 DEF ResetHealth
<1>14. EmergencyStop \/ Resume \/ Tick \/ UNCHANGED vars => UNCHANGED <<res, usage, call, up, torn>>
  BY DEF EmergencyStop, Resume, Tick, vars
<1> QED
  BY <1>1, <1>2, <1>3, <1>4, <1>5, <1>6, <1>7, <1>8, <1>9, <1>10, <1>11, <1>12, <1>13, <1>14
  DEF Next, RequestStep

-----------------------------------------------------------------------------
(* The theorems *)

\* Nothing is reserved, charged or under way at first.
LEMMA InitHolds == Init => IInv
<1> SUFFICES ASSUME Init PROVE IInv
  OBVIOUS
<1>1. Idle \in CallState /\ Idle.at = "new" /\ Idle.won = {}
  BY DEF Idle, CallState, Points
<1>2. TypeOK
  <2>1. /\ [status |-> "none", lease |-> 0] \in Reservation
        /\ [health |-> "ok", until |-> 0] \in Health
    BY DEF Reservation, Statuses, Health
  <2>2. /\ res \in [Requests -> Reservation] /\ health \in [Accounts -> Health]
        /\ call \in [Requests -> CallState] /\ usage \in [Requests -> Nat \cup {NoUsage}]
    <3>1. res \in [Requests -> Reservation] /\ health \in [Accounts -> Health]
      BY <2>1 DEF Init
    <3>2. call \in [Requests -> CallState]
      BY <1>1 DEF Init
    <3>3. usage \in [Requests -> Nat \cup {NoUsage}]
      BY DEF Init
    <3> QED
      BY <3>1, <3>2, <3>3
  <2>3. /\ now \in 0 .. MaxTime /\ incidents \in 0 .. MaxIncidents
    BY BudgetAssumption DEF Init
  <2>4. stopped \in BOOLEAN /\ up \subseteq Procs /\ torn \subseteq Requests
    BY DEF Init
  <2> QED
    BY <2>2, <2>3, <2>4 DEF TypeOK
<1>3. \A r \in Requests : call[r] = Idle /\ res[r].status = "none" /\ usage[r] = NoUsage
  BY DEF Init
<1>4. StateInv
  BY <1>1, <1>3 DEF StateInv, StatusAgrees, ExpiredIsOwed, EndedHoldsNothing, WonInv, FlyingInv
<1> QED
  BY <1>2, <1>4 DEF IInv

\* The inductive invariant: types, and the state of every reservation against the
\* usage table, the recoveries under way and where its request is.
THEOREM BudgetInvariant == Spec => []IInv
<1>1. IInv /\ [Next]_vars => IInv'
  BY TypeStep, StateStep DEF IInv
<1> QED
  BY InitHolds, <1>1, PTL DEF Spec

\* The tables and the calls keep their types.
THEOREM BudgetTypeCorrect == Spec => []TypeOK
<1>1. IInv => TypeOK
  BY DEF IInv
<1> QED
  BY <1>1, BudgetInvariant, PTL

\* settle and release: a reservation is settled exactly when its usage is recorded.
THEOREM BudgetStatusAgrees == Spec => []StatusAgrees
<1>1. IInv => StatusAgrees
  BY DEF IInv, StateInv
<1> QED
  BY <1>1, BudgetInvariant, PTL

\* recoverExpired: an expired reservation that is not charged is about to be, or was
\* left by a process that died.
THEOREM BudgetExpiredIsOwed == Spec => []ExpiredIsOwed
<1>1. IInv => ExpiredIsOwed
  BY DEF IInv, StateInv
<1> QED
  BY <1>1, BudgetInvariant, PTL

\* governedGenerate: a request that has ended holds no units.
THEOREM BudgetEndedHoldsNothing == Spec => []EndedHoldsNothing
<1>1. IInv => EndedHoldsNothing
  BY DEF IInv, StateInv
<1> QED
  BY <1>1, BudgetInvariant, PTL

\* settle: a charge is never changed, whoever settles a request a second time.
THEOREM BudgetChargedOnce == Spec => ChargedOnce
<1> DEFINE Keeps == \A q \in Requests : usage[q] # NoUsage => usage'[q] = usage[q]
<1>1. IInv /\ [Next]_vars => [Keeps]_vars
  <2> SUFFICES ASSUME IInv, Next PROVE Keeps
    OBVIOUS
  <2>1. ASSUME NEW q \in Requests, NEW units, Settle(q, units) PROVE Keeps
    BY <2>1 DEF Settle, IInv, TypeOK
  <2>2. ASSUME NEW r \in Requests, RecoverCharge(r) PROVE Keeps
    <3>1. PICK q \in call[r].won : Settle(q, Estimate[q])
      BY <2>2 DEF RecoverCharge
    <3>2. q \in Requests
      BY <3>1 DEF IInv, TypeOK, CallState
    <3> QED
      BY <2>1, <3>1, <3>2
  <2>3. ASSUME NEW r \in Requests, Complete(r) PROVE Keeps
    BY <2>1, <2>3 DEF Complete
  <2>4. ASSUME NEW r \in Requests, Close(r) PROVE Keeps
    BY <2>1, <2>4 DEF Close
  <2>5. \/ \E r \in Requests : RecoverCharge(r) \/ Complete(r) \/ Close(r)
        \/ UNCHANGED usage
    BY DEF Next, RequestStep, RecoverExpired, Reserve, Defer, Deny, Retry, Admit, QueueTimeOut,
           RenewLease, Fail, FailAccount, HeadersExhausted, Crash, ResetHealth, EmergencyStop,
           Resume, Tick
  <2> QED
    BY <2>2, <2>3, <2>4, <2>5
<1> QED
  BY <1>1, BudgetInvariant, PTL DEF Spec, ChargedOnce
=============================================================================
