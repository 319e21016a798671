--------------------------- MODULE ResourceBudget ---------------------------
(***************************************************************************)
(* Admission and accounting of model requests: TokenBudgetManager and      *)
(* ResourceLedger of packages/core/src/resources, and the life of a        *)
(* request in governedAdapter.ts.                                          *)
(*                                                                         *)
(* Several processes send requests on one SQLite file.  A transaction, and *)
(* a statement outside of one, is a step: the calls are synchronous inside *)
(* a process and interleave with other processes between their statements. *)
(* The accounts share one quota group with one limit in one unit and one   *)
(* window; the ceilings per task and on spending are the same sum over the *)
(* same tables.                                                            *)
(***************************************************************************)
EXTENDS Naturals, FiniteSets, FiniteSetsExt

CONSTANTS
    Procs,
    Requests,
    ProcOf,
    Accounts,       \* the members of one quota group
    LocalAccounts,  \* those of kind 'local'
    AccountOf,
    Estimate,       \* the units each request reserves
    Actuals,        \* the units a provider may report
    Limit,          \* the hard limit of the window
    MaxConcurrent,
    LeaseTime,
    MaxTime,        \* bound on the clock
    MaxIncidents,   \* bound on crashes, health changes and emergency stops
    NoUsage         \* no row in the usage table

ASSUME BudgetAssumption ==
    /\ LocalAccounts \subseteq Accounts
    /\ ProcOf \in [Requests -> Procs]
    /\ AccountOf \in [Requests -> Accounts]
    /\ Estimate \in [Requests -> Nat]
    /\ Actuals \subseteq Nat
    /\ Limit \in Nat /\ MaxConcurrent \in Nat /\ MaxTime \in Nat /\ MaxIncidents \in Nat
    /\ LeaseTime \in Nat \ {0}
    /\ NoUsage \notin Nat

VARIABLES
    now,      \* ledger.now(), the one clock of the machine
    res,      \* the reservations table: status and lease_expires_at
    usage,    \* the usage table: the units charged to each request
    health,   \* the account_health table
    stopped,  \* meta 'emergency_stop'
    call,     \* per request: where its governedGenerate is
    up,       \* the processes that are alive
    torn,     \* ghost: reservations marked expired by a process that then died
    incidents \* bound: crashes, health changes and emergency stops so far

vars == <<now, res, usage, health, stopped, call, up, torn, incidents>>

Statuses == {"none", "active", "settled", "released", "expired"}

Points == {"new", "admitting", "queued", "flying", "failing", "ended", "denied"}

\* rows: selected by recoverExpired; won: marked expired and not yet charged;
\* since: the time of the selection; partial: the units a failed request is charged.
Idle == [at |-> "new", rows |-> {}, won |-> {}, since |-> 0, partial |-> NoUsage]

Reservation == [status: Statuses, lease: Nat]

Health == [health: {"ok", "auth_blocked", "cooldown"}, until: Nat]

CallState == [at: Points, rows: SUBSET Requests, won: SUBSET Requests,
              since: Nat, partial: Nat \cup {NoUsage}]

TypeOK ==
    /\ now \in 0 .. MaxTime
    /\ res \in [Requests -> Reservation]
    /\ usage \in [Requests -> Nat \cup {NoUsage}]
    /\ health \in [Accounts -> Health]
    /\ stopped \in BOOLEAN
    /\ call \in [Requests -> CallState]
    /\ up \subseteq Procs
    /\ torn \subseteq Requests
    /\ incidents \in 0 .. MaxIncidents

Init ==
    /\ now = 0
    /\ res = [r \in Requests |-> [status |-> "none", lease |-> 0]]
    /\ usage = [r \in Requests |-> NoUsage]
    /\ health = [a \in Accounts |-> [health |-> "ok", until |-> 0]]
    /\ stopped = FALSE
    /\ call = [r \in Requests |-> Idle]
    /\ up = Procs
    /\ torn = {}
    /\ incidents = 0

Alive(r) == ProcOf[r] \in up

\* Inside a synchronous call of admit() or fail().
Synchronous == {"admitting", "failing"}

At(r, point) ==
    /\ Alive(r)
    /\ call[r].at = point
    /\ \A q \in Requests \ {r} : ProcOf[q] = ProcOf[r] => call[q].at \notin Synchronous

Goto(r, point) == call' = [call EXCEPT ![r] = [Idle EXCEPT !.at = point]]

Incident == incidents < MaxIncidents /\ incidents' = incidents + 1

-----------------------------------------------------------------------------
(* ResourceLedger *)

\* Mutant: leases are not looked at.
LiveForever(q, t) == res[q].status = "active"

\* A reservation that counts at time t.
Live(q, t) == res[q].status = "active" /\ res[q].lease > t

\* One that recoverExpired would select.
Due(q, t) == res[q].status = "active" /\ ~Live(q, t)

Sum(f(_), S) == MapThenSumSet(f, S)

UsedSince == Sum(LAMBDA q : usage[q], {q \in Requests : usage[q] # NoUsage})

ReservedNow(t) == Sum(LAMBDA q : Estimate[q], {q \in Requests : Live(q, t)})

InFlight(t) == Cardinality({q \in Requests : Live(q, t)})

\* The lease of a reservation that is not active is not looked at again.
Closed(status) == [status |-> status, lease |-> 0]

\* Mutant: an expired reservation keeps its status.
SettleActive(q, units) ==
    IF usage[q] # NoUsage THEN UNCHANGED <<usage, res>>
    ELSE /\ usage' = [usage EXCEPT ![q] = units]
         /\ res' = [res EXCEPT ![q] = IF @.status = "active" THEN Closed("settled") ELSE @]

\* settle: the first one to settle a request charges it.
Settle(q, units) ==
    IF usage[q] # NoUsage THEN UNCHANGED <<usage, res>>
    ELSE /\ usage' = [usage EXCEPT ![q] = units]
         /\ res' = [res EXCEPT ![q] = IF @.status \in {"active", "expired"} THEN Closed("settled") ELSE @]

Release(q) ==
    res' = [res EXCEPT ![q] = IF @.status = "active" THEN Closed("released") ELSE @]

-----------------------------------------------------------------------------
(* admit: recoverExpired, then evaluate *)

\* The SELECT of recoverExpired, at the start of every admission.
Recovering(r) ==
    call' = [call EXCEPT ![r] = [Idle EXCEPT !.at = "admitting", !.since = now,
                                             !.rows = {q \in Requests : Due(q, now)}]]

Admit(r) ==
    /\ At(r, "new")
    /\ Recovering(r)
    /\ UNCHANGED <<now, res, usage, health, stopped, up, torn, incidents>>

\* Mutant: the row is marked and left at that.
RecoverMarked(r, q) ==
    /\ At(r, "admitting")
    /\ q \in call[r].rows
    /\ res' = [res EXCEPT ![q] = IF Due(q, call[r].since) THEN Closed("expired") ELSE @]
    /\ call' = [call EXCEPT ![r].rows = @ \ {q}]
    /\ UNCHANGED <<now, usage, health, stopped, up, torn, incidents>>

\* UPDATE ... WHERE status = 'active' AND lease_expires_at <= now: the row is won or
\* passed over.
RecoverExpired(r, q) ==
    /\ At(r, "admitting")
    /\ call[r].won = {}
    /\ q \in call[r].rows
    /\ IF Due(q, call[r].since)
       THEN /\ res' = [res EXCEPT ![q] = Closed("expired")]
            /\ call' = [call EXCEPT ![r].rows = @ \ {q}, ![r].won = {q}]
       ELSE /\ call' = [call EXCEPT ![r].rows = @ \ {q}]
            /\ UNCHANGED res
    /\ UNCHANGED <<now, usage, health, stopped, up, torn, incidents>>

\* The conservative charge, in a transaction of its own.
RecoverCharge(r) ==
    /\ At(r, "admitting")
    /\ \E q \in call[r].won : Settle(q, Estimate[q])
    /\ call' = [call EXCEPT ![r].won = {}]
    /\ UNCHANGED <<now, health, stopped, up, torn, incidents>>

Healthy(a) ==
    \/ health[a].health = "ok"
    \/ health[a].health = "cooldown" /\ health[a].until <= now

Dispatchable(r) ==
    /\ AccountOf[r] \in LocalAccounts \/ ~stopped
    /\ Healthy(AccountOf[r])

\* Mutant: the limit is checked before the request is added.
WithinLimitBefore(r) == UsedSince + ReservedNow(now) <= Limit

WithinLimit(r) == UsedSince + ReservedNow(now) + Estimate[r] <= Limit

\* The recovery of this admission is over.
Evaluating(r) == At(r, "admitting") /\ call[r].rows = {} /\ call[r].won = {}

\* evaluate and insertReservation, in one transaction.
Reserve(r) ==
    /\ Evaluating(r)
    /\ Dispatchable(r)
    /\ InFlight(now) < MaxConcurrent
    /\ WithinLimit(r)
    /\ now + LeaseTime <= MaxTime
    /\ res[r].status = "none"
    /\ res' = [res EXCEPT ![r] = [status |-> "active", lease |-> now + LeaseTime]]
    /\ Goto(r, "flying")
    /\ UNCHANGED <<now, usage, health, stopped, up, torn, incidents>>

\* The concurrency limit: a local account's request queues, others are deferred.
Defer(r) ==
    /\ Evaluating(r)
    /\ Dispatchable(r)
    /\ InFlight(now) >= MaxConcurrent
    /\ Goto(r, IF AccountOf[r] \in LocalAccounts THEN "queued" ELSE "denied")
    /\ UNCHANGED <<now, res, usage, health, stopped, up, torn, incidents>>

\* Every other refusal; those for the configuration (workload, context, paid
\* account, conservation modes) may always come.
Deny(r) ==
    /\ Evaluating(r)
    /\ Goto(r, "denied")
    /\ UNCHANGED <<now, res, usage, health, stopped, up, torn, incidents>>

\* The queue of governedGenerate: sleep and ask again.
Retry(r) ==
    /\ At(r, "queued")
    /\ Recovering(r)
    /\ UNCHANGED <<now, res, usage, health, stopped, up, torn, incidents>>

\* localQueueTimeoutMs is over.
QueueTimeOut(r) ==
    /\ At(r, "queued")
    /\ Goto(r, "denied")
    /\ UNCHANGED <<now, res, usage, health, stopped, up, torn, incidents>>

-----------------------------------------------------------------------------
(* The request in flight *)

\* holdLease: the timer of a running request.
RenewLease(r) ==
    /\ At(r, "flying")
    /\ res[r].status = "active"
    /\ res[r].lease < now + LeaseTime
    /\ now + LeaseTime <= MaxTime
    /\ res' = [res EXCEPT ![r].lease = now + LeaseTime]
    /\ UNCHANGED <<now, usage, health, stopped, call, up, torn, incidents>>

\* 'completed', or the consumer stops after output: reconcile.
Complete(r) ==
    /\ At(r, "flying")
    /\ \E units \in Actuals : Settle(r, units)
    /\ Goto(r, "ended")
    /\ UNCHANGED <<now, health, stopped, up, torn, incidents>>

Cooldown == [health |-> "cooldown", until |-> now + 1]

Ambiguous == Actuals \cup {NoUsage}

\* fail, its first part: the account's health.  A quota block is a cooldown here.
FailAccount(r) ==
    /\ At(r, "flying")
    /\ Incident
    /\ \E h \in {[health |-> "auth_blocked", until |-> 0], Cooldown} :
           health' = [health EXCEPT ![AccountOf[r]] = h]
    /\ \E partial \in Ambiguous :
           call' = [call EXCEPT ![r].at = "failing", ![r].partial = partial]
    /\ UNCHANGED <<now, res, usage, stopped, up, torn>>

\* Any other failure class.
Fail(r) ==
    /\ At(r, "flying")
    /\ \E partial \in Ambiguous :
           call' = [call EXCEPT ![r].at = "failing", ![r].partial = partial]
    /\ UNCHANGED <<now, res, usage, health, stopped, up, torn, incidents>>

Larger(a, b) == IF a > b THEN a ELSE b

\* fail, its second part: charged if the provider may have done the work.
Close(r) ==
    /\ At(r, "failing")
    /\ IF call[r].partial # NoUsage THEN Settle(r, Larger(call[r].partial, Estimate[r]))
       ELSE Release(r) /\ UNCHANGED usage
    /\ Goto(r, "ended")
    /\ UNCHANGED <<now, health, stopped, up, torn, incidents>>

\* The headers of a running request report nothing remaining.
HeadersExhausted(r) ==
    /\ At(r, "flying")
    /\ Incident
    /\ health' = [health EXCEPT ![AccountOf[r]] = Cooldown]
    /\ UNCHANGED <<now, res, usage, stopped, call, up, torn>>

-----------------------------------------------------------------------------
(* The operator and the environment *)

ResetHealth(a) ==
    /\ health[a].health # "ok"
    /\ health' = [health EXCEPT ![a] = [health |-> "ok", until |-> 0]]
    /\ UNCHANGED <<now, res, usage, stopped, call, up, torn, incidents>>

EmergencyStop ==
    /\ ~stopped
    /\ Incident
    /\ stopped' = TRUE
    /\ UNCHANGED <<now, res, usage, health, call, up, torn>>

Resume ==
    /\ stopped
    /\ stopped' = FALSE
    /\ UNCHANGED <<now, res, usage, health, call, up, torn, incidents>>

Tick ==
    /\ now < MaxTime
    /\ now' = now + 1
    /\ UNCHANGED <<res, usage, health, stopped, call, up, torn, incidents>>

Crash(p) ==
    /\ p \in up
    /\ Incident
    /\ up' = up \ {p}
    /\ torn' = torn \cup UNION {call[r].won : r \in {q \in Requests : ProcOf[q] = p}}
    /\ UNCHANGED <<now, res, usage, health, stopped, call>>

RequestStep(r) ==
    \/ \E q \in Requests : RecoverExpired(r, q)
    \/ RecoverCharge(r) \/ Reserve(r) \/ Defer(r) \/ Deny(r) \/ Retry(r)
    \/ Complete(r) \/ Close(r)

Next ==
    \/ \E r \in Requests :
        RequestStep(r) \/ Admit(r) \/ QueueTimeOut(r) \/ RenewLease(r) \/ Fail(r) \/ FailAccount(r)
            \/ HeadersExhausted(r)
    \/ \E p \in Procs : Crash(p)
    \/ \E a \in Accounts : ResetHealth(a)
    \/ EmergencyStop \/ Resume
    \/ Tick

Spec == Init /\ [][Next]_vars

\* A process goes on with its request, the provider answers, time passes.
FairSpec ==
    /\ Spec
    /\ \A r \in Requests : WF_vars(RequestStep(r))
    /\ WF_vars(Tick)
-----------------------------------------------------------------------------
(* Properties *)

\* ledger.ts:208-211: nothing is charged twice, whoever comes second: a late answer
\* after a conservative charge, two recoveries, a recovery and the request itself.
ChargedOnce ==
    [][\A q \in Requests : usage[q] # NoUsage => usage'[q] = usage[q]]_vars

\* A reservation is settled exactly when its usage is recorded: released requests
\* are never charged, and nothing that is charged goes on holding units.
StatusAgrees ==
    \A q \in Requests : res[q].status = "settled" <=> usage[q] # NoUsage

\* What has been admitted and not released, at its charge or else its estimate.
Owed ==
    Sum(LAMBDA q : IF usage[q] # NoUsage THEN usage[q] ELSE Estimate[q],
        {q \in Requests : res[q].status \in {"active", "expired", "settled"}})

\* A lease ran out during this admission, or a reservation is marked expired and
\* not yet charged: the two moments in which a request is in neither sum.
InNeitherSum(r) ==
    \E q \in Requests :
        \/ res[q].status = "expired"
        \/ res[q].status = "active" /\ call[r].since < res[q].lease /\ res[q].lease <= now

\* ledger.ts:104-106: concurrent processes cannot both pass the check and spend
\* twice: everything admitted before counts when a request is admitted, dead
\* requests included, unless one is in neither sum.
AdmissionCounts ==
    [][\A r \in Requests :
        (call[r].at = "admitting" /\ call'[r].at = "flying") =>
            \/ InNeitherSum(r)
            \/ /\ Owed + Estimate[r] <= Limit
               /\ Cardinality({q \in Requests : res[q].status = "active"}) < MaxConcurrent]_vars

\* ledger.ts:252-254: an expired reservation is charged: as long as it is not,
\* a living process is about to, or the one that was has died.
ExpiredIsOwed ==
    \A q \in Requests : res[q].status = "expired" =>
        q \in torn \/ \E r \in Requests : Alive(r) /\ call[r].won = {q}

\* governedAdapter.ts:136-145: a request that has ended holds nothing any more.
EndedHoldsNothing ==
    \A r \in Requests : call[r].at = "ended" => res[r].status \in {"settled", "released", "expired"}

\* governedAdapter.ts:46-56: the queue moves, also when the requests before it die
\* in flight: a queued request is admitted or refused, unless its process dies.
QueueMoves ==
    \A r \in Requests : call[r].at = "queued" ~> (call[r].at \in {"flying", "denied"} \/ ~Alive(r))
=============================================================================
