------------------------------ MODULE FileStore ------------------------------
(***************************************************************************)
(* The JSON file store of packages/shared/src/store.ts: several processes, *)
(* each with one JsonFileStore on the same file, read-modify-write the     *)
(* whole file under a lock file.                                           *)
(*                                                                         *)
(* A step ends at an await at which another activity can change what is    *)
(* looked at afterwards: every system call on the lock file or on the data *)
(* file is a step of its own.  Every call of update() adds its own name to *)
(* the value under its key, so that an update that is lost, or that shows  *)
(* up although it failed, can be seen in the file.                         *)
(***************************************************************************)
EXTENDS Naturals, FiniteSets

CONSTANTS
    Procs,      \* operating-system processes
    Calls,      \* calls of update(), each made once
    ProcOf,     \* the process of each call
    Keys,
    KeyOf,      \* the key each call updates
    Reading,    \* processes that also call get() or list()
    MaxFails,   \* bound on processes in which writes fail before their rename
    MaxCrashes, \* bound on processes that die
    NoLock      \* the lock file does not exist

ASSUME FileStoreAssumption ==
    /\ ProcOf \in [Calls -> Procs]
    /\ KeyOf \in [Calls -> Keys]
    /\ Reading \subseteq Procs
    /\ MaxFails \in Nat /\ MaxCrashes \in Nat
    /\ NoLock \notin Calls
    /\ NoLock \notin [by: Calls, written: BOOLEAN, old: BOOLEAN]

VARIABLES
    lock,    \* NoLock, or who created the lock file, whether its token is
             \* written, and whether it is older than LOCK_STALE_AFTER_MS
    file,    \* the data file: a stamp for what fstat tells apart, the content
    mem,     \* per process: this.data, rawJsonByKey, lastStat and loaded
    call,    \* per call: where it is, what it has read, what it will write
    reader,  \* per process: its get() in progress
    up,      \* the processes that are alive
    broken,  \* ghost: the processes in which a write has failed
    raced,   \* ghost: a live holder's lock has been moved away by a call that had
             \* not seen it, or had seen no other process's token in it
    reused   \* ghost: a process has written again after a failed write

vars == <<lock, file, mem, call, reader, up, broken, raced, reused>>

\* A document: the value of each key, {} where the key is absent.
Document == [Keys -> SUBSET Calls]

Empty == [k \in Keys |-> {}]

Points == {"idle", "open", "token", "inspect", "steal", "locked", "read", "mutate",
           "rename", "restat", "release", "unlink", "done", "failed"}

\* Inside withFileLock's fn.
Critical == {"locked", "read", "mutate", "rename", "restat"}

Ended == {"done", "failed"}

Inside(c) == call[c].at \in Critical

Alive(c) == ProcOf[c] \in up

Lock == [by: Calls, written: BOOLEAN, old: BOOLEAN]

Memory == [data: Document, raw: Document, stat: Nat, loaded: BOOLEAN]

\* old and saw: the lock file as inspected; stat, data, out: what persist() will use.
Call == [at: Points, old: BOOLEAN, saw: Calls \cup {NoLock}, stat: Nat,
         data: Document, out: Document, ok: BOOLEAN]

Reader == [at: {"idle", "read", "parse"}, stat: Nat, data: Document]

TypeOK ==
    /\ lock \in {NoLock} \cup Lock
    /\ file \in [stamp: Nat, content: Document]
    /\ mem \in [Procs -> Memory]
    /\ call \in [Calls -> Call]
    /\ reader \in [Procs -> Reader]
    /\ up \subseteq Procs
    /\ broken \subseteq Procs
    /\ raced \in BOOLEAN /\ reused \in BOOLEAN

\* Nothing is loaded; the file has stamp 1.
Init ==
    /\ lock = NoLock
    /\ file = [stamp |-> 1, content |-> Empty]
    /\ mem = [p \in Procs |-> [data |-> Empty, raw |-> Empty, stat |-> 0, loaded |-> FALSE]]
    /\ call = [c \in Calls |-> [at |-> "idle", old |-> FALSE, saw |-> NoLock, stat |-> 0,
                                data |-> Empty, out |-> Empty, ok |-> TRUE]]
    /\ reader = [p \in Procs |-> [at |-> "idle", stat |-> 0, data |-> Empty]]
    /\ up = Procs
    /\ broken = {}
    /\ raced = FALSE /\ reused = FALSE

\* A call that has returned or thrown; nothing of what it had read matters any more.
Finished(ok) == [at |-> IF ok THEN "done" ELSE "failed", old |-> FALSE, saw |-> NoLock,
                 stat |-> 0, data |-> Empty, out |-> Empty, ok |-> ok]

At(c, point) == call[c].at = point /\ Alive(c)

Goto(c, point) == call' = [call EXCEPT ![c].at = point]

-----------------------------------------------------------------------------
(* withFileLock *)

Begin(c) ==
    /\ At(c, "idle")
    /\ Goto(c, "open")
    /\ UNCHANGED <<lock, file, mem, reader, up, broken, raced, reused>>

\* open(lockFile, 'wx') creates the file, still empty.
OpenNew(c) ==
    /\ At(c, "open")
    /\ lock = NoLock
    /\ lock' = [by |-> c, written |-> FALSE, old |-> FALSE]
    /\ Goto(c, "token")
    /\ UNCHANGED <<file, mem, reader, up, broken, raced, reused>>

\* The token goes to the file that was opened, wherever it has been moved to.
WriteToken(c) ==
    /\ At(c, "token")
    /\ lock' = IF lock # NoLock /\ lock.by = c THEN [lock EXCEPT !.written = TRUE] ELSE lock
    /\ Goto(c, "locked")
    /\ UNCHANGED <<file, mem, reader, up, broken, raced, reused>>

\* EEXIST, and the stat after it.
OpenBusy(c) ==
    /\ At(c, "open")
    /\ lock # NoLock
    /\ call' = [call EXCEPT ![c].at = "inspect", ![c].old = lock.old]
    /\ UNCHANGED <<lock, file, mem, reader, up, broken, raced, reused>>

\* inspectForeignHolder: a file without a token, and one of the own process,
\* tell nothing.
Foreign(c) == lock # NoLock /\ lock.written /\ ProcOf[lock.by] # ProcOf[c]
ForeignLive(c) == Foreign(c) /\ Alive(lock.by)
ForeignDead(c) == Foreign(c) /\ ~Alive(lock.by)

\* Mutants: age alone decides; only a dead process's token does.
MayStealOld(c) == ForeignDead(c) \/ call[c].old
MayStealDead(c) == ForeignDead(c)

MaySteal(c) == ForeignDead(c) \/ (call[c].old /\ ~ForeignLive(c))

Inspect(c) ==
    /\ At(c, "inspect")
    /\ call' = [call EXCEPT ![c].at = IF MaySteal(c) THEN "steal" ELSE "open",
                            ![c].old = FALSE,
                            ![c].saw = IF MaySteal(c) /\ Foreign(c) THEN lock.by ELSE NoLock]
    /\ UNCHANGED <<lock, file, mem, reader, up, broken, raced, reused>>

\* rename(lockFile, stolen): it moves whatever lock file is there by now.
Steal(c) ==
    /\ At(c, "steal")
    /\ lock' = NoLock
    /\ call' = [call EXCEPT ![c].at = "open", ![c].saw = NoLock]
    /\ raced' = (raced \/ (lock # NoLock /\ Alive(lock.by) /\ lock.by # call[c].saw))
    /\ UNCHANGED <<file, mem, reader, up, broken, reused>>

\* LOCK_MAX_WAIT_MS is over when there is nothing to steal.
TimeOut(c) ==
    /\ \/ At(c, "inspect") /\ ~MaySteal(c)
       \/ At(c, "steal") /\ lock = NoLock
    /\ call' = [call EXCEPT ![c] = Finished(FALSE)]
    /\ UNCHANGED <<lock, file, mem, reader, up, broken, raced, reused>>

\* The finally block reads the lock file, and deletes it if the token is its own.
ReleaseRead(c) ==
    /\ At(c, "release")
    /\ call' = [call EXCEPT ![c] = IF lock # NoLock /\ lock.by = c /\ lock.written
                                   THEN [@ EXCEPT !.at = "unlink"]
                                   ELSE Finished(@.ok)]
    /\ UNCHANGED <<lock, file, mem, reader, up, broken, raced, reused>>

Unlink(c) ==
    /\ At(c, "unlink")
    /\ lock' = NoLock
    /\ call' = [call EXCEPT ![c] = Finished(@.ok)]
    /\ UNCHANGED <<file, mem, reader, up, broken, raced, reused>>

-----------------------------------------------------------------------------
(* JsonFileStore: withLock, readFromDisk, persist *)

StatMatches(p) == mem[p].loaded /\ mem[p].stat = file.stamp

\* Mutant: a writer trusts what it has loaded once.
CheckStatOnce(c) ==
    /\ At(c, "locked")
    /\ LET p == ProcOf[c] IN
        call' = IF mem[p].loaded
                THEN [call EXCEPT ![c].at = "mutate", ![c].data = mem[p].data]
                ELSE [call EXCEPT ![c].at = "read", ![c].stat = file.stamp]
    /\ UNCHANGED <<lock, file, mem, reader, up, broken, raced, reused>>

\* currentStat under the lock: the memory is taken if it is that file's.
CheckStat(c) ==
    /\ At(c, "locked")
    /\ LET p == ProcOf[c] IN
        call' = IF StatMatches(p)
                THEN [call EXCEPT ![c].at = "mutate", ![c].data = mem[p].data]
                ELSE [call EXCEPT ![c].at = "read", ![c].stat = file.stamp]
    /\ UNCHANGED <<lock, file, mem, reader, up, broken, raced, reused>>

\* readFromDisk: lastStat is the new file's from here on; this.data is not, until
\* Restat.
ReadFromDisk(c) ==
    /\ At(c, "read")
    /\ mem' = [mem EXCEPT ![ProcOf[c]].raw = Empty, ![ProcOf[c]].stat = call[c].stat]
    /\ call' = [call EXCEPT ![c].at = "mutate", ![c].data = file.content, ![c].stat = 0]
    /\ UNCHANGED <<lock, file, reader, up, broken, raced, reused>>

\* serializeMap: the line of the mutated key is made anew, the lines of absent
\* keys are dropped, other lines are reused as they were last written.
Serialize(raw, data, key) ==
    [k \in Keys |-> IF data[k] # {} /\ k # key /\ raw[k] # {} THEN raw[k] ELSE data[k]]

Mutate(c) ==
    /\ At(c, "mutate")
    /\ LET p == ProcOf[c]
           data == [call[c].data EXCEPT ![KeyOf[c]] = @ \cup {c}]
           lines == Serialize(mem[p].raw, data, KeyOf[c])
       IN /\ mem' = [mem EXCEPT ![p].raw = lines]
          /\ call' = [call EXCEPT ![c].at = "rename", ![c].data = data, ![c].out = lines]
    /\ UNCHANGED <<lock, file, reader, up, broken, raced, reused>>

Rename(c) ==
    /\ At(c, "rename")
    /\ file' = [stamp |-> file.stamp + 1, content |-> call[c].out]
    /\ Goto(c, "restat")
    /\ reused' = (reused \/ ProcOf[c] \in broken)
    /\ UNCHANGED <<lock, mem, reader, up, broken, raced>>

\* Mutant: an error after the rename is passed on.
WriteFailsLate(c) ==
    /\ At(c, "rename")
    /\ Cardinality(broken) < MaxFails
    /\ broken' = broken \cup {ProcOf[c]}
    /\ file' = [stamp |-> file.stamp + 1, content |-> call[c].out]
    /\ call' = [call EXCEPT ![c] = [Finished(FALSE) EXCEPT !.at = "release"]]
    /\ UNCHANGED <<lock, mem, reader, up, raced, reused>>

\* No space, an injected DURING_STORE_WRITE fault, a rename that keeps failing.
WriteFails(c) ==
    /\ At(c, "rename")
    /\ Cardinality(broken) < MaxFails
    /\ broken' = broken \cup {ProcOf[c]}
    /\ call' = [call EXCEPT ![c] = [Finished(FALSE) EXCEPT !.at = "release"]]
    /\ UNCHANGED <<lock, file, mem, reader, up, raced, reused>>

Restat(c) ==
    /\ At(c, "restat")
    /\ mem' = [mem EXCEPT ![ProcOf[c]].stat = file.stamp, ![ProcOf[c]].data = call[c].data,
                          ![ProcOf[c]].loaded = TRUE]
    /\ call' = [call EXCEPT ![c].at = "release", ![c].data = Empty, ![c].out = Empty]
    /\ UNCHANGED <<lock, file, reader, up, broken, raced, reused>>

-----------------------------------------------------------------------------
(* get() and list(): reloadFromDisk, without the lock *)

GetStat(p) ==
    /\ p \in Reading \cap up
    /\ reader[p].at = "idle"
    /\ ~StatMatches(p)
    /\ reader' = [reader EXCEPT ![p].at = "read", ![p].stat = file.stamp]
    /\ UNCHANGED <<lock, file, mem, call, up, broken, raced, reused>>

GetRead(p) ==
    /\ p \in up
    /\ reader[p].at = "read"
    /\ reader' = [reader EXCEPT ![p].at = "parse", ![p].data = file.content]
    /\ UNCHANGED <<lock, file, mem, call, up, broken, raced, reused>>

\* Mutant: the stat is taken after the file has been read.
GetParseLate(p) ==
    /\ p \in up
    /\ reader[p].at = "parse"
    /\ mem' = [mem EXCEPT ![p] = [data |-> reader[p].data, raw |-> Empty, stat |-> file.stamp,
                                  loaded |-> TRUE]]
    /\ reader' = [reader EXCEPT ![p] = [at |-> "idle", stat |-> 0, data |-> Empty]]
    /\ UNCHANGED <<lock, file, call, up, broken, raced, reused>>

GetParse(p) ==
    /\ p \in up
    /\ reader[p].at = "parse"
    /\ mem' = [mem EXCEPT ![p] = [data |-> reader[p].data, raw |-> Empty, stat |-> reader[p].stat,
                                  loaded |-> TRUE]]
    /\ reader' = [reader EXCEPT ![p] = [at |-> "idle", stat |-> 0, data |-> Empty]]
    /\ UNCHANGED <<lock, file, call, up, broken, raced, reused>>

-----------------------------------------------------------------------------
(* The environment *)

\* LOCK_STALE_AFTER_MS go by while the lock file stays as it is.
Age ==
    /\ lock # NoLock
    /\ lock' = [lock EXCEPT !.old = TRUE]
    /\ UNCHANGED <<file, mem, call, reader, up, broken, raced, reused>>

\* A process dies, leaving its lock file behind.
Crash(p) ==
    /\ p \in up
    /\ Cardinality(Procs \ up) < MaxCrashes
    /\ up' = up \ {p}
    /\ UNCHANGED <<lock, file, mem, call, reader, broken, raced, reused>>

CallStep(c) ==
    \/ OpenNew(c) \/ WriteToken(c) \/ OpenBusy(c) \/ Inspect(c)
    \/ Steal(c) \/ ReleaseRead(c) \/ Unlink(c)
    \/ CheckStat(c) \/ ReadFromDisk(c) \/ Mutate(c) \/ Rename(c) \/ Restat(c)

\* The behaviour is followed up to the first such race: two writers then overwrite
\* each other, and no property is about what comes after.
Next ==
    /\ ~raced
    /\ \/ \E c \in Calls : CallStep(c) \/ Begin(c) \/ TimeOut(c) \/ WriteFails(c)
       \/ \E p \in Procs : GetStat(p) \/ GetRead(p) \/ GetParse(p) \/ Crash(p)
       \/ Age

Spec == Init /\ [][Next]_vars

\* Promises settle and time passes; nothing makes a call begin, fail or time out.
FairSpec ==
    /\ Spec
    /\ \A c \in Calls : WF_vars(~raced /\ CallStep(c))
    /\ WF_vars(~raced /\ Age)

-----------------------------------------------------------------------------
(* Properties *)

\* store.ts:22-26: two writers are never inside the critical section, because a
\* live holder's lock is not stolen, as long as no rename has hit a newer lock
\* than the one inspected, or one that names no other process.
MutualExclusion ==
    ~raced => \A c, d \in Calls : (Inside(c) /\ Alive(c) /\ Inside(d) /\ Alive(d)) => c = d

Undisturbed == ~raced /\ ~reused

\* store.ts:177-183: racing writers cannot drop each other's update: whatever has
\* been acknowledged is in the file, over crashes, failed writes and reads in
\* between, until a process whose write failed writes again.
NoLostUpdate ==
    Undisturbed => \A c \in Calls : call[c].at = "done" => c \in file.content[KeyOf[c]]

\* A call that has failed, timed out included, has not changed the file, under the
\* same conditions.
FailedStaysOut ==
    Undisturbed => \A c \in Calls : call[c].at = "failed" => c \notin file.content[KeyOf[c]]

\* The shortcut of withLock and reloadFromDisk: a process in which no write is
\* under way or has failed, and whose lastStat is the file's, has the file's
\* content in memory, also after get() and writes have overlapped in it.
CacheCoherent ==
    ~raced => \A p \in up :
        (/\ StatMatches(p)
         /\ p \notin broken
         /\ \A c \in Calls : ProcOf[c] = p => ~Inside(c))
        => mem[p].data = file.content

\* store.ts:19-23: the store never deadlocks on a dead holder: every call that has
\* begun ends, unless its own process dies.
CallsEnd ==
    \A c \in Calls : call[c].at = "open" ~> (call[c].at \in Ended \/ ~Alive(c) \/ raced)
=============================================================================
