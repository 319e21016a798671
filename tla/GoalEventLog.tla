---------------------------- MODULE GoalEventLog ----------------------------
(***************************************************************************)
(* The durable event log of one run (packages/goals/src/ledger/            *)
(* eventLog.ts): a head with the last sequence number and a window of the  *)
(* most recent events, one key per event, appenders that overlap and       *)
(* crash, and subscriptions that drain the log by polling and by           *)
(* notification.                                                           *)
(*                                                                         *)
(* An event is its sequence number and the append call it comes from.  A   *)
(* step ends at the next await on the store.                               *)
(***************************************************************************)
EXTENDS Integers, FiniteSets

CONSTANTS
    Appenders,    \* append() calls that may overlap
    Subs,         \* subscriptions
    Procs,        \* processes
    ProcOf,       \* ProcOf[x]: the process of appender or subscription x
    Window,       \* RECENT_WINDOW
    ReadLimit,    \* DEFAULT_READ_LIMIT
    NoAppender,   \* content of a key that is not there
    MaxSeq        \* bound on the events appended

ASSUME EventLogAssumption ==
    /\ IsFiniteSet(Appenders)
    /\ NoAppender \notin Appenders
    /\ ProcOf \in [Appenders \cup Subs -> Procs]
    /\ Window \in Nat \ {0}
    /\ ReadLimit \in Nat \ {0}
    /\ MaxSeq \in Nat

Seqs == 1..MaxSeq

\* The sequence numbers of the recent window when n is the last one.
Recent(n) == {s \in 1..n : s > n - Window}

NoEvents == [s \in {} |-> NoAppender]

VARIABLES
    head,  \* goals/event-heads/<runId>: [seq, recent]; seq 0: not there
    keys,  \* goals/events/<runId>/<seq>, seq by seq
    job,   \* job[p]: the append p is in the middle of
    sub,   \* sub[u]: the Subscription
    start, \* start[u]: the seq after which u is owed every event
    got    \* got[u][s]: how often the listener of u was called with event s

vars == <<head, keys, job, sub, start, got>>

NoJob == [phase |-> "idle", known |-> 0, from |-> NoEvents, todo |-> {},
          absent |-> FALSE, seq |-> 0]

NoSub == [phase |-> "off", base |-> 0, lastSeq |-> 0, early |-> {}, draining |-> "no",
          again |-> FALSE, seen |-> [seq |-> 0, recent |-> NoEvents]]

Init ==
    /\ head = [seq |-> 0, recent |-> NoEvents]
    /\ keys = [s \in Seqs |-> NoAppender]
    /\ job = [p \in Appenders |-> NoJob]
    /\ sub = [u \in Subs |-> NoSub]
    /\ start = [u \in Subs |-> 0]
    /\ got = [u \in Subs |-> [s \in Seqs |-> 0]]

Missing(s) == keys[s] = NoAppender

Least(S) == CHOOSE s \in S : \A r \in S : s <= r

-----------------------------------------------------------------------------
(* Subscriptions, as the operations on one Subscription record *)

\* drain: a drain that is under way goes round once more.
Drained(u) ==
    IF u.phase # "on" THEN u
    ELSE IF u.draining # "no" THEN [u EXCEPT !.again = TRUE]
    ELSE [u EXCEPT !.draining = "head", !.again = FALSE]

\* notify: remembered by a subscription that does not know its position yet.
Notified(u, s) ==
    CASE u.phase = "init" -> [u EXCEPT !.early = @ \cup {s}]
      [] u.phase = "on" /\ s > u.lastSeq -> Drained(u)
      [] OTHER -> u

\* The loop of drain after a page was delivered.
DrainedAgain(u) ==
    [u EXCEPT !.draining = IF u.again THEN "head" ELSE "no", !.again = FALSE]

-----------------------------------------------------------------------------
(* append *)

\* readHead: what the window holds is materialised first.
AppendStart(p) ==
    /\ job[p].phase = "idle"
    /\ job' = [job EXCEPT ![p] = [NoJob EXCEPT !.phase = "pre", !.known = head.seq,
                                     !.from = head.recent, !.todo = DOMAIN head.recent]]
    /\ UNCHANGED <<head, keys, sub, start, got>>

MaterialiseGet(p) ==
    /\ job[p].phase = "pre"
    /\ job[p].todo # {}
    /\ ~job[p].absent
    /\ LET s == Least(job[p].todo)
       IN  IF Missing(s)
           THEN job' = [job EXCEPT ![p].absent = TRUE]
           ELSE job' = [job EXCEPT ![p].todo = @ \ {s}]
    /\ UNCHANGED <<head, keys, sub, start, got>>

\* Mutant: the event written is the appender's own.
MaterialiseOwn(p) ==
    /\ job[p].phase = "pre"
    /\ job[p].absent
    /\ LET s == Least(job[p].todo)
       IN  /\ keys' = [keys EXCEPT ![s] = p]
           /\ job' = [job EXCEPT ![p].todo = @ \ {s}, ![p].absent = FALSE]
    /\ UNCHANGED <<head, sub, start, got>>

MaterialisePut(p) ==
    /\ job[p].phase = "pre"
    /\ job[p].absent
    /\ LET s == Least(job[p].todo)
       IN  /\ keys' = [keys EXCEPT ![s] = job[p].from[s]]
           /\ job' = [job EXCEPT ![p].todo = @ \ {s}, ![p].absent = FALSE]
    /\ UNCHANGED <<head, sub, start, got>>

\* A store access before the allocation throws: append rejects.
AppendFails(p) ==
    /\ job[p].phase = "pre"
    /\ job' = [job EXCEPT ![p] = NoJob]
    /\ UNCHANGED <<head, keys, sub, start, got>>

\* The atomic update of the head takes the next number and slides the window.
Allocate(p) ==
    /\ job[p].phase = "pre"
    /\ job[p].todo = {}
    /\ head.seq < MaxSeq
    /\ head' = [seq |-> head.seq + 1,
                recent |-> [s \in Recent(head.seq + 1) |->
                              IF s = head.seq + 1 THEN p ELSE head.recent[s]]]
    /\ job' = [job EXCEPT ![p] = [NoJob EXCEPT !.phase = "put", !.seq = head.seq + 1]]
    /\ UNCHANGED <<keys, sub, start, got>>

\* The event's own key is written, or the write fails and is let go; either way the
\* subscriptions of this process are notified.
PutEvent(p, written) ==
    /\ job[p].phase = "put"
    /\ keys' = IF written THEN [keys EXCEPT ![job[p].seq] = p] ELSE keys
    /\ job' = [job EXCEPT ![p] = NoJob]
    /\ sub' = [u \in Subs |-> IF ProcOf[u] = ProcOf[p] THEN Notified(sub[u], job[p].seq)
                              ELSE sub[u]]
    /\ UNCHANGED <<head, start, got>>

-----------------------------------------------------------------------------
(* subscribe, subscribeFrom, read and the drain loop *)

\* A first subscription from a sequence number the client names.
SubscribeFrom(u, after) ==
    /\ sub[u].phase = "off"
    /\ sub' = [sub EXCEPT ![u] = Drained([NoSub EXCEPT !.phase = "on", !.lastSeq = after])]
    /\ start' = [start EXCEPT ![u] = after]
    /\ UNCHANGED <<head, keys, job, got>>

\* A client that was cut off comes back with the last number it was given.
Resume(u) ==
    /\ sub[u].phase = "closed"
    /\ sub' = [sub EXCEPT ![u] =
                 Drained([NoSub EXCEPT !.phase = "on", !.lastSeq = sub[u].lastSeq])]
    /\ UNCHANGED <<head, keys, job, start, got>>

\* subscribe: the position is known once the head has been read.
Subscribe(u) ==
    /\ sub[u].phase = "off"
    /\ sub' = [sub EXCEPT ![u] = [NoSub EXCEPT !.phase = "init", !.draining = "base"]]
    /\ UNCHANGED <<head, keys, job, start, got>>

SubscribeRead(u) ==
    /\ sub[u].phase = "init" /\ sub[u].draining = "base"
    /\ sub' = [sub EXCEPT ![u] = [@ EXCEPT !.base = head.seq, !.draining = "no"]]
    /\ UNCHANGED <<head, keys, job, start, got>>

\* The position: the head, or before the first append of this process that raced it.
Earliest(u) ==
    IF u.early # {} /\ Least(u.early) - 1 < u.base THEN Least(u.early) - 1 ELSE u.base

SubscribeReady(u) ==
    /\ sub[u].phase = "init" /\ sub[u].draining = "no"
    /\ sub' = [sub EXCEPT ![u] = Drained([@ EXCEPT !.phase = "on", !.lastSeq = Earliest(sub[u])])]
    /\ start' = [start EXCEPT ![u] = Earliest(sub[u])]
    /\ UNCHANGED <<head, keys, job, got>>

\* The head could not be read: from the beginning.
SubscribeFails(u) ==
    /\ sub[u].phase = "init" /\ sub[u].draining = "base"
    /\ sub' = [sub EXCEPT ![u] = Drained([@ EXCEPT !.phase = "on", !.draining = "no"])]
    /\ start' = [start EXCEPT ![u] = 0]
    /\ UNCHANGED <<head, keys, job, got>>

\* The poll timer.
Poll(u) ==
    /\ sub[u].phase = "on"
    /\ sub' = [sub EXCEPT ![u] = Drained(@)]
    /\ UNCHANGED <<head, keys, job, start, got>>

\* read: the head first ...
ReadHead(u) ==
    /\ sub[u].phase = "on" /\ sub[u].draining = "head"
    /\ sub' = [sub EXCEPT ![u] = [@ EXCEPT !.seen = head, !.draining = "list"]]
    /\ UNCHANGED <<head, keys, job, start, got>>

\* Mutant: read looks at the keys only.
FoundKeys(u) == {s \in 1..u.seen.seq : s > u.lastSeq /\ ~Missing(s)}

\* What read finds: the keys, the window of the head it read, up to that head.
Found(u) ==
    {s \in 1..u.seen.seq : s > u.lastSeq /\ (~Missing(s) \/ s \in DOMAIN u.seen.recent)}

\* slice(0, limit) of what was found.
Page(S) == {s \in S : Cardinality({r \in S : r < s}) < ReadLimit}

\* ... then the list; every event of the page goes to the listener, in order.
ReadList(u) ==
    /\ sub[u].phase = "on" /\ sub[u].draining = "list"
    /\ LET page == Page(Found(sub[u]))
           last == IF page = {} THEN sub[u].lastSeq ELSE CHOOSE s \in page : \A r \in page : r <= s
       IN  /\ got' = [got EXCEPT ![u] = [s \in Seqs |-> IF s \in page THEN @[s] + 1 ELSE @[s]]]
           /\ sub' = [sub EXCEPT ![u] = DrainedAgain([@ EXCEPT !.lastSeq = last])]
    /\ UNCHANGED <<head, keys, job, start>>

\* Mutant: a failed read leaves the subscription marked as draining.
ReadFailsStuck(u) ==
    /\ sub[u].phase = "on" /\ sub[u].draining # "no"
    /\ sub' = [sub EXCEPT ![u] = [@ EXCEPT !.draining = "lost"]]
    /\ UNCHANGED <<head, keys, job, start, got>>

\* A read throws: the next append or poll tries again.
ReadFails(u) ==
    /\ sub[u].phase = "on" /\ sub[u].draining # "no"
    /\ sub' = [sub EXCEPT ![u] = [@ EXCEPT !.draining = "no"]]
    /\ UNCHANGED <<head, keys, job, start, got>>

\* A subscription that ends before it knew its position leaves nothing behind.
Closed(u) ==
    CASE u.phase = "on"   -> [NoSub EXCEPT !.phase = "closed", !.lastSeq = u.lastSeq]
      [] u.phase = "init" -> NoSub
      [] OTHER            -> u

Unsubscribe(u) ==
    /\ sub[u].phase \in {"init", "on"}
    /\ sub' = [sub EXCEPT ![u] = Closed(@)]
    /\ UNCHANGED <<head, keys, job, start, got>>

\* A process dies: its appends end where they are, its subscriptions are cut off.
Crash(q) ==
    /\ job' = [p \in Appenders |-> IF ProcOf[p] = q THEN NoJob ELSE job[p]]
    /\ sub' = [u \in Subs |-> IF ProcOf[u] = q THEN Closed(sub[u]) ELSE sub[u]]
    /\ UNCHANGED <<head, keys, start, got>>

-----------------------------------------------------------------------------
AppenderNext(p) ==
    \/ AppendStart(p) \/ MaterialiseGet(p) \/ MaterialisePut(p) \/ AppendFails(p)
    \/ Allocate(p)
    \/ \E written \in BOOLEAN : PutEvent(p, written)

SubNext(u) ==
    \/ \E after \in 0..head.seq : SubscribeFrom(u, after)
    \/ Resume(u) \/ Subscribe(u) \/ SubscribeRead(u) \/ SubscribeReady(u) \/ SubscribeFails(u)
    \/ Poll(u) \/ ReadHead(u) \/ ReadList(u) \/ ReadFails(u) \/ Unsubscribe(u)

Next ==
    \/ \E p \in Appenders : AppenderNext(p)
    \/ \E u \in Subs : SubNext(u)
    \/ \E q \in Procs : Crash(q)

Spec == Init /\ [][Next]_vars

\* The poll timer fires and store reads fail only for a while.
Fairness ==
    \A u \in Subs : WF_vars(Poll(u)) /\ SF_vars(ReadHead(u)) /\ SF_vars(ReadList(u))

FairSpec == Spec /\ Fairness

-----------------------------------------------------------------------------
(* Properties *)

\* The head holds the events of its window and nothing else; keys hold events; the
\* jobs and subscriptions are well formed.
TypeOK ==
    /\ head.seq \in 0..MaxSeq
    /\ head = [seq |-> head.seq, recent |-> head.recent]
    /\ head.recent \in [Recent(head.seq) -> Appenders]
    /\ keys \in [Seqs -> Appenders \cup {NoAppender}]
    /\ \A p \in Appenders :
          /\ job[p].phase \in {"idle", "pre", "put"}
          /\ job[p].known \in 0..head.seq
          /\ job[p].todo \subseteq DOMAIN job[p].from
    /\ \A u \in Subs :
          /\ sub[u].lastSeq \in 0..MaxSeq
          /\ sub[u].seen.seq \in 0..head.seq
          /\ start[u] \in 0..MaxSeq

\* The events as they can be put together from the store.
Stream ==
    [s \in 1..head.seq |-> IF s \in DOMAIN head.recent THEN head.recent[s] ELSE keys[s]]

\* The log implements an append-only stream: nothing an overlapping, late or
\* repeated write does ever changes an event that has been appended.
Abstract == INSTANCE EventStream WITH Payloads <- Appenders, stream <- Stream

StreamRefined == Abstract!StreamSpec

\* Every subscription has been given each event after its starting point exactly
\* once and in order, reconnections included; it has skipped none.
DeliveredExactlyOnce ==
    \A u \in Subs : \A s \in Seqs :
        got[u][s] = IF s > start[u] /\ s <= sub[u].lastSeq /\ sub[u].phase \in {"on", "closed"}
                    THEN 1 ELSE 0

\* An event is delivered to every subscription it is owed to that stays open.
EventuallyDelivered ==
    \A u \in Subs : \A s \in Seqs :
        sub[u].phase = "on" /\ s > start[u] /\ s <= head.seq
            ~> got[u][s] > 0 \/ sub[u].phase # "on"
=============================================================================
