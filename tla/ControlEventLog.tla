-------------------------- MODULE ControlEventLog --------------------------
(***************************************************************************)
(* The event log the API server wires (apps/api/src/goalStudio/            *)
(* controlEventLog.ts) together with the event-stream route that serves it *)
(* to clients (streamRunEvents in controlRoutes.ts).                       *)
(*                                                                         *)
(* A process appends one event at a time (its promise chain per run).  A   *)
(* number is taken from the head first and the event stored under it       *)
(* afterwards; listeners are called in the process of the append only.     *)
(***************************************************************************)
EXTENDS Integers, Sequences, FiniteSets

CONSTANTS
    Procs,       \* API processes sharing the store
    Clients,     \* event-stream clients
    ProcOf,      \* ProcOf[c]: the process client c is connected to
    AtomicStore, \* the store offers an atomic update
    PageSize,    \* pageSize of the route
    NoEvent,     \* content of a key that is not there
    MaxSeq,      \* bound on the numbers taken
    MaxCuts      \* bound on the times a client is cut off

ASSUME ControlLogAssumption ==
    /\ NoEvent \notin Procs
    /\ ProcOf \in [Clients -> Procs]
    /\ AtomicStore \in BOOLEAN
    /\ PageSize \in Nat \ {0} /\ MaxSeq \in Nat /\ MaxCuts \in Nat

Seqs == 1..MaxSeq

VARIABLES
    head,    \* goals/events/<runId>: the last number taken, 0 when it is not there
    keys,    \* goals/events/<runId>/<seq>: the process whose event it is
    append,  \* append[p]: the appendNow process p is in the middle of
    conn,    \* conn[c]: the stream of client c, its cursor and its promise chain
    frames,  \* frames[c]: the ids of the frames client c has received, in order
    cuts,    \* how often a client or process was cut off
    late     \* the numbers stored when a higher one already was

vars == <<head, keys, append, conn, frames, cuts, late>>

NoAppend == [step |-> "idle", existing |-> 0, floor |-> 0, seq |-> 0]

NoConn == [open |-> FALSE, cursor |-> 0, chain |-> <<>>, reading |-> FALSE, failed |-> FALSE]

\* The replay task; any other task carries the number of a live event.
Replay == 0

Init ==
    /\ head = 0
    /\ keys = [s \in Seqs |-> NoEvent]
    /\ append = [p \in Procs |-> NoAppend]
    /\ conn = [c \in Clients |-> NoConn]
    /\ frames = [c \in Clients |-> <<>>]
    /\ cuts = 0
    /\ late = {}

Persisted == {s \in Seqs : keys[s] # NoEvent}

Largest(S) == IF S = {} THEN 0 ELSE CHOOSE s \in S : \A r \in S : r <= s

Larger(m, n) == IF m > n THEN m ELSE n

-----------------------------------------------------------------------------
(* append *)

\* nextSeq reads the head; only a missing one is rebuilt from the events.
GetHead(p) ==
    /\ append[p].step = "idle"
    /\ append' = [append EXCEPT ![p] = [NoAppend EXCEPT
                    !.step = IF head = 0 THEN "floor" ELSE "take", !.existing = head]]
    /\ UNCHANGED <<head, keys, conn, frames, cuts, late>>

\* lastPersistedSeq
ReadFloor(p) ==
    /\ append[p].step = "floor"
    /\ append' = [append EXCEPT ![p].step = "take", ![p].floor = Largest(Persisted)]
    /\ UNCHANGED <<head, keys, conn, frames, cuts, late>>

\* Mutant: the head read before the update counts.
TakenStale(p) == Larger(append[p].existing, append[p].floor) + 1

\* The next number, from the head as it is now when the store is atomic and as it
\* was read otherwise.
TakenSeq(p) ==
    Larger(IF AtomicStore THEN head ELSE append[p].existing, append[p].floor) + 1

TakeSeq(p) ==
    /\ append[p].step = "take"
    /\ TakenSeq(p) <= MaxSeq
    /\ head' = TakenSeq(p)
    /\ append' = [append EXCEPT ![p].step = "put", ![p].seq = TakenSeq(p)]
    /\ UNCHANGED <<keys, conn, frames, cuts, late>>

\* Mutant: the listeners are not called.
PutEventQuietly(p) ==
    /\ append[p].step = "put"
    /\ keys' = [keys EXCEPT ![append[p].seq] = p]
    /\ append' = [append EXCEPT ![p] = NoAppend]
    /\ late' = IF \E s \in Persisted : s > append[p].seq THEN late \cup {append[p].seq} ELSE late
    /\ UNCHANGED <<head, conn, frames, cuts>>

\* The event is stored, then every listener of this process queues it.
PutEvent(p) ==
    /\ append[p].step = "put"
    /\ keys' = [keys EXCEPT ![append[p].seq] = p]
    /\ append' = [append EXCEPT ![p] = NoAppend]
    /\ conn' = [c \in Clients |->
                  IF ProcOf[c] = p /\ conn[c].open
                  THEN [conn[c] EXCEPT !.chain = Append(@, append[p].seq)]
                  ELSE conn[c]]
    /\ late' = IF \E s \in Persisted : s > append[p].seq THEN late \cup {append[p].seq} ELSE late
    /\ UNCHANGED <<head, frames, cuts>>

\* A store access throws: the append rejects and the next one of the chain goes on.
AppendFails(p) ==
    /\ append[p].step # "idle"
    /\ append' = [append EXCEPT ![p] = NoAppend]
    /\ UNCHANGED <<head, keys, conn, frames, cuts, late>>

-----------------------------------------------------------------------------
(* streamRunEvents *)

\* A client connects, or comes back with the id of the last frame it received.  The
\* listener is registered and the replay queued before anything is awaited.
Connect(c) ==
    /\ ~conn[c].open
    /\ conn' = [conn EXCEPT ![c] = [open |-> TRUE, cursor |-> @.cursor, chain |-> <<Replay>>,
                                    reading |-> FALSE, failed |-> FALSE]]
    /\ UNCHANGED <<head, keys, append, frames, cuts, late>>

Cut(k) == [k EXCEPT !.open = FALSE, !.chain = <<>>, !.reading = FALSE]

Disconnect(c) ==
    /\ conn[c].open
    /\ cuts < MaxCuts
    /\ conn' = [conn EXCEPT ![c] = Cut(@)]
    /\ cuts' = cuts + 1
    /\ UNCHANGED <<head, keys, append, frames, late>>

Task(c) == Head(conn[c].chain)

\* The next task of the chain: an event already sent is dropped, the immediate
\* successor is sent at once, anything else is a reason to read the log.
StartTask(c) ==
    /\ conn[c].open /\ ~conn[c].reading
    /\ conn[c].chain # <<>>
    /\ LET isEvent == Task(c) # Replay
           done == [conn[c] EXCEPT !.chain = Tail(@)]
       IN  \/ /\ isEvent /\ Task(c) <= conn[c].cursor
              /\ conn' = [conn EXCEPT ![c] = done]
              /\ UNCHANGED frames
           \/ /\ isEvent /\ Task(c) = conn[c].cursor + 1
              /\ conn' = [conn EXCEPT ![c] = [done EXCEPT !.cursor = Task(c)]]
              /\ frames' = [frames EXCEPT ![c] = Append(@, Task(c))]
           \/ /\ isEvent => Task(c) > conn[c].cursor + 1
              /\ conn' = [conn EXCEPT ![c].reading = TRUE]
              /\ UNCHANGED frames
    /\ UNCHANGED <<head, keys, append, cuts, late>>

\* Mutants: the page is the end of the log, or starts with the cursor itself.
PageOfLast(c) ==
    LET later == {s \in Persisted : s > conn[c].cursor}
    IN  {s \in later : Cardinality({r \in later : r > s}) < PageSize}

PageFromCursor(c) ==
    LET later == {s \in Persisted : s >= conn[c].cursor}
    IN  {s \in later : Cardinality({r \in later : r < s}) < PageSize}

\* events.read(runId, cursor, pageSize)
Page(c) ==
    LET later == {s \in Persisted : s > conn[c].cursor}
    IN  {s \in later : Cardinality({r \in later : r < s}) < PageSize}

Sorted(S) == [i \in 1..Cardinality(S) |-> CHOOSE s \in S : Cardinality({r \in S : r < s}) = i - 1]

\* A page is sent; a full one is followed by another read, a short one by the event
\* the task was about (unless the pages had it already).
ReadPage(c) ==
    /\ conn[c].reading
    /\ LET page  == Page(c)
           last  == Larger(conn[c].cursor, Largest(page))
           final == Cardinality(page) < PageSize
           own   == final /\ Task(c) > last
       IN  /\ frames' = [frames EXCEPT ![c] = @ \o Sorted(page) \o (IF own THEN <<Task(c)>> ELSE <<>>)]
           /\ conn' = [conn EXCEPT ![c].cursor = IF own THEN Task(c) ELSE last,
                                   ![c].chain = IF final THEN Tail(@) ELSE @,
                                   ![c].reading = ~final]
    /\ UNCHANGED <<head, keys, append, cuts, late>>

\* The read throws: the task is given up with a comment frame.
ReadFails(c) ==
    /\ conn[c].reading
    /\ conn' = [conn EXCEPT ![c].chain = Tail(@), ![c].reading = FALSE, ![c].failed = TRUE]
    /\ UNCHANGED <<head, keys, append, frames, cuts, late>>

\* A process dies and restarts: its append and its streams are gone.
Crash(p) ==
    /\ cuts < MaxCuts
    /\ append' = [append EXCEPT ![p] = NoAppend]
    /\ conn' = [c \in Clients |-> IF ProcOf[c] = p THEN Cut(conn[c]) ELSE conn[c]]
    /\ cuts' = cuts + 1
    /\ UNCHANGED <<head, keys, frames, late>>

\* The store is restored without its head while no process appends.
RestoreWithoutHead ==
    /\ cuts < MaxCuts
    /\ \A p \in Procs : append[p].step = "idle"
    /\ head' = 0
    /\ cuts' = cuts + 1
    /\ UNCHANGED <<keys, append, conn, frames, late>>

-----------------------------------------------------------------------------
ProcNext(p) ==
    GetHead(p) \/ ReadFloor(p) \/ TakeSeq(p) \/ PutEvent(p) \/ AppendFails(p) \/ Crash(p)

StreamNext(c) == StartTask(c) \/ ReadPage(c)

ClientNext(c) == Connect(c) \/ Disconnect(c) \/ StreamNext(c) \/ ReadFails(c)

Next ==
    \/ \E p \in Procs : ProcNext(p)
    \/ \E c \in Clients : ClientNext(c)
    \/ RestoreWithoutHead

Spec == Init /\ [][Next]_vars

\* The event loop runs the tasks of a chain and the store answers.
Fairness == \A c \in Clients : WF_vars(StreamNext(c))

FairSpec == Spec /\ Fairness

-----------------------------------------------------------------------------
(* Properties *)

\* Numbers, keys, chains and cursors are well formed; a read belongs to a task of
\* an open stream.
TypeOK ==
    /\ head \in 0..MaxSeq
    /\ keys \in [Seqs -> Procs \cup {NoEvent}]
    /\ append \in [Procs -> [step : {"idle", "floor", "take", "put"}, existing : 0..MaxSeq,
                             floor : 0..MaxSeq, seq : 0..MaxSeq]]
    /\ \A c \in Clients :
          /\ conn[c].cursor \in 0..MaxSeq
          /\ conn[c].chain \in Seq(0..MaxSeq)
          /\ conn[c].reading => conn[c].open /\ conn[c].chain # <<>>

\* No number is given to two events: a stored event is never replaced, whichever
\* processes rebuild a missing head at the same time.
NeverReplaced ==
    [][\A s \in Persisted : keys'[s] = keys[s]]_vars

\* Frames go out strictly in seq order, without duplicates, across reconnections
\* and whatever order replay, live events and pages come in.
FramesInOrder ==
    \A c \in Clients : \A i, j \in DOMAIN frames[c] : i < j => frames[c][i] < frames[c][j]

Received(c, s) == \E i \in DOMAIN frames[c] : frames[c][i] = s

\* Whatever fails, dies or reconnects, the only stored events a client is not given
\* are those that another process overtook between their number and their put.
OnlyLateSkipped ==
    \A c \in Clients : \A s \in Persisted \ late : s <= conn[c].cursor => Received(c, s)

\* An event stored by the client's own process, in its turn, is sent to a client that
\* stays connected, unless the log could not be read on that connection.
OwnEventsSent ==
    \A c \in Clients : \A s \in Seqs :
        conn[c].open /\ s \in Persisted \ late /\ keys[s] = ProcOf[c]
            ~> ~conn[c].open \/ conn[c].failed \/ Received(c, s)
=============================================================================
