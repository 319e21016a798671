-------------------------- MODULE FileStoreProofs --------------------------
(***************************************************************************)
(* Proofs about FileStore for any number of processes, calls, keys, failed *)
(* writes and crashes.                                                     *)
(***************************************************************************)
EXTENDS FileStore, TLAPS

\* From the creation of the lock file to its deletion.
Holding == Critical \cup {"token", "release", "unlink"}

(***************************************************************************)
(* The lock: whoever is between its creation and its deletion finds its    *)
(* own lock file there, and a steal is only under way against a process    *)
(* that was seen dead, or against a file nobody's token was seen in.       *)
(***************************************************************************)
LockInv ==
    ~raced =>
        /\ \A c \in Calls : Alive(c) /\ call[c].at \in Holding => lock # NoLock /\ lock.by = c
        /\ \A c \in Calls : call[c].at = "steal" /\ call[c].saw # NoLock => ~Alive(call[c].saw)

\* Stats are of this file or of an earlier one.
Stamps ==
    /\ \A p \in Procs : mem[p].stat <= file.stamp /\ reader[p].stat <= file.stamp
    /\ \A c \in Calls : call[c].stat <= file.stamp

\* What a get() has read is what its stat says, unless the file has changed since.
Reads ==
    \A p \in Procs : reader[p].at = "parse" /\ reader[p].stat = file.stamp
                        => reader[p].data = file.content

\* Reusing p's lines gives the document doc.
RawAgrees(p, doc) == \A k \in Keys : mem[p].raw[k] # {} => mem[p].raw[k] = doc[k]

\* The content after c's update.
Added(c) == [file.content EXCEPT ![KeyOf[c]] = @ \cup {c}]

\* What a writer works on is the file, and what it will write is the file and its update.
WorkOK(c) ==
    /\ call[c].at = "mutate" =>
          call[c].data = file.content /\ RawAgrees(ProcOf[c], file.content)
    /\ call[c].at = "rename" =>
          /\ call[c].data = Added(c) /\ call[c].out = Added(c)
          /\ RawAgrees(ProcOf[c], call[c].data)
    /\ call[c].at = "restat" =>
          call[c].data = file.content /\ RawAgrees(ProcOf[c], file.content)

Working == \A c \in Calls : Alive(c) /\ ProcOf[c] \notin broken => WorkOK(c)

\* No call of p is between readFromDisk() and its rename.
Unwritten(p) == \A c \in Calls : ProcOf[c] = p => call[c].at \notin {"mutate", "rename"}

Cached ==
    \A p \in up : p \notin broken /\ StatMatches(p) /\ Unwritten(p)
                     => mem[p].data = file.content /\ RawAgrees(p, file.content)

CacheInv == ~raced => Stamps /\ Reads /\ Working /\ Cached

\* c's rename has happened, and c has not failed.
Landed(c) ==
    \/ call[c].at \in {"restat", "done"}
    \/ call[c].at \in {"release", "unlink"} /\ call[c].ok

\* The file holds exactly the updates that have landed.
FileInv ==
    /\ \A c \in Calls : ~call[c].ok => call[c].at \in {"release", "unlink", "failed"}
    /\ \A c \in Calls : call[c].at = "failed" => ~call[c].ok
    /\ Undisturbed => \A c \in Calls : c \in file.content[KeyOf[c]] <=> Landed(c)

IInv == TypeOK /\ LockInv /\ CacheInv /\ FileInv
-----------------------------------------------------------------------------
(* Types *)

\* The empty document is a document.
LEMMA EmptyType == Empty \in Document
BY DEF Empty, Document

\* What a call becomes when it ends.
LEMMA FinishedFacts ==
    ASSUME NEW ok \in BOOLEAN
    PROVE  /\ Finished(ok) \in Call
           /\ Finished(ok).at = (IF ok THEN "done" ELSE "failed")
           /\ Finished(ok).ok = ok
           /\ Finished(ok).saw = NoLock
           /\ Finished(ok).stat = 0
BY EmptyType DEF Finished, Points, Call

\* Reusing lines gives a document.
LEMMA SerializeType ==
    ASSUME NEW raw \in Document, NEW data \in Document, NEW key \in Keys
    PROVE  Serialize(raw, data, key) \in Document
BY DEF Serialize, Document

\* Every step keeps the types.
LEMMA TypeStep == TypeOK /\ [Next]_vars => TypeOK'
<1> SUFFICES ASSUME TypeOK, [Next]_vars PROVE TypeOK'
  OBVIOUS
<1>c. \A c \in Calls : call[c] \in Call
  BY DEF TypeOK
<1>m. \A p \in Procs : mem[p] \in Memory
  BY DEF TypeOK
<1>r. \A p \in Procs : reader[p] \in Reader
  BY DEF TypeOK
<1>f. file.content \in Document /\ file.stamp \in Nat
  BY DEF TypeOK
<1>1. ASSUME NEW c \in Calls, Begin(c) PROVE TypeOK'
  <2> DEFINE r == [call[c] EXCEPT !.at = "open"]
  <2>1. call' = [call EXCEPT ![c] = r]
    BY <1>1 DEF Begin, Goto
  <2>2. r \in Call
    BY <1>c DEF Call, Points
  <2> HIDE DEF r
  <2>3. call' \in [Calls -> Call]
    BY <2>1, <2>2 DEF TypeOK
  <2> QED
    BY <1>1, <2>3 DEF TypeOK, Begin
<1>2. ASSUME NEW c \in Calls, OpenNew(c) PROVE TypeOK'
  <2> DEFINE r == [call[c] EXCEPT !.at = "token"]
  <2>1. call' = [call EXCEPT ![c] = r]
    BY <1>2 DEF OpenNew, Goto
  <2>2. r \in Call
    BY <1>c DEF Call, Points
  <2> HIDE DEF r
  <2>3. call' \in [Calls -> Call]
    BY <2>1, <2>2 DEF TypeOK
  <2>4. lock' \in Lock
    BY <1>2 DEF OpenNew, Lock
  <2> QED
    BY <1>2, <2>3, <2>4 DEF TypeOK, OpenNew
<1>3. ASSUME NEW c \in Calls, WriteToken(c) PROVE TypeOK'
  <2> DEFINE r == [call[c] EXCEPT !.at = "locked"]
  <2>1. call' = [call EXCEPT ![c] = r]
    BY <1>3 DEF WriteToken, Goto
  <2>2. r \in Call
    BY <1>c DEF Call, Points
  <2> HIDE DEF r
  <2>3. call' \in [Calls -> Call]
    BY <2>1, <2>2 DEF TypeOK
  <2>4. lock \in Lock => [lock EXCEPT !.written = TRUE] \in Lock
    BY DEF Lock
  <2>5. lock' \in {NoLock} \cup Lock
    BY <1>3, <2>4 DEF WriteToken, TypeOK
  <2> QED
    BY <1>3, <2>3, <2>5 DEF TypeOK, WriteToken
<1>4. ASSUME NEW c \in Calls, OpenBusy(c) PROVE TypeOK'
  <2> DEFINE r == [call[c] EXCEPT !.at = "inspect", !.old = lock.old]
  <2>1. call' = [call EXCEPT ![c] = r]
    BY <1>4 DEF OpenBusy, Goto
  <2>4. lock.old \in BOOLEAN
    BY <1>4 DEF OpenBusy, TypeOK, Lock
  <2>2. r \in Call
    BY <1>c, <2>4 DEF Call, Points
  <2> HIDE DEF r
  <2>3. call' \in [Calls -> Call]
    BY <2>1, <2>2 DEF TypeOK
  <2> QED
    BY <1>4, <2>3 DEF TypeOK, OpenBusy
<1>5. ASSUME NEW c \in Calls, Inspect(c) PROVE TypeOK'
  <2> DEFINE r == [call[c] EXCEPT
                      !.at = IF MaySteal(c) THEN "steal" ELSE "open",
                      !.old = FALSE,
                      !.saw = IF MaySteal(c) /\ Foreign(c) THEN lock.by ELSE NoLock]
  <2>1. call' = [call EXCEPT ![c] = r]
    BY <1>5 DEF Inspect, Goto
  <2>4. (IF MaySteal(c) /\ Foreign(c) THEN lock.by ELSE NoLock) \in Calls \cup {NoLock}
    BY DEF TypeOK, Foreign, Lock
  <2>2. r \in Call
    BY <1>c, <2>4 DEF Call, Points
  <2> HIDE DEF r
  <2>3. call' \in [Calls -> Call]
    BY <2>1, <2>2 DEF TypeOK
  <2> QED
    BY <1>5, <2>3 DEF TypeOK, Inspect
<1>6. ASSUME NEW c \in Calls, Steal(c) PROVE TypeOK'
  <2> DEFINE r == [call[c] EXCEPT !.at = "open", !.saw = NoLock]
  <2>1. call' = [call EXCEPT ![c] = r]
    BY <1>6 DEF Steal, Goto
  <2>2. r \in Call
    BY <1>c DEF Call, Points
  <2> HIDE DEF r
  <2>3. call' \in [Calls -> Call]
    BY <2>1, <2>2 DEF TypeOK
  <2> QED
    BY <1>6, <2>3 DEF TypeOK, Steal
<1>7. ASSUME NEW c \in Calls, TimeOut(c) PROVE TypeOK'
  <2> DEFINE r == Finished(FALSE)
  <2>1. call' = [call EXCEPT ![c] = r]
    BY <1>7 DEF TimeOut, Goto
  <2>2. r \in Call
    BY <1>c, FinishedFacts
  <2> HIDE DEF r
  <2>3. call' \in [Calls -> Call]
    BY <2>1, <2>2 DEF TypeOK
  <2> QED
    BY <1>7, <2>3 DEF TypeOK, TimeOut
<1>8. ASSUME NEW c \in Calls, ReleaseRead(c) PROVE TypeOK'
  <2> DEFINE r == IF lock # NoLock /\ lock.by = c /\ lock.written
                  THEN [call[c] EXCEPT !.at = "unlink"] ELSE Finished(call[c].ok)
  <2>1. call' = [call EXCEPT ![c] = r]
    BY <1>8 DEF ReleaseRead, Goto
  <2>4. call[c].ok \in BOOLEAN
    BY <1>c DEF Call
  <2>2. r \in Call
    BY <1>c, <2>4, FinishedFacts DEF Call, Points
  <2> HIDE DEF r
  <2>3. call' \in [Calls -> Call]
    BY <2>1, <2>2 DEF TypeOK
  <2> QED
    BY <1>8, <2>3 DEF TypeOK, ReleaseRead
<1>9. ASSUME NEW c \in Calls, Unlink(c) PROVE TypeOK'
  <2> DEFINE r == Finished(call[c].ok)
  <2>1. call' = [call EXCEPT ![c] = r]
    BY <1>9 DEF Unlink, Goto
  <2>4. call[c].ok \in BOOLEAN
    BY <1>c DEF Call
  <2>2. r \in Call
    BY <1>c, <2>4, FinishedFacts
  <2> HIDE DEF r
  <2>3. call' \in [Calls -> Call]
    BY <2>1, <2>2 DEF TypeOK
  <2> QED
    BY <1>9, <2>3 DEF TypeOK, Unlink
<1>10. ASSUME NEW c \in Calls, CheckStat(c) PROVE TypeOK'
  <2> DEFINE r == IF StatMatches(ProcOf[c])
                  THEN [call[c] EXCEPT !.at = "mutate", !.data = mem[ProcOf[c]].data]
                  ELSE [call[c] EXCEPT !.at = "read", !.stat = file.stamp]
  <2>1. call' = [call EXCEPT ![c] = r]
    BY <1>10 DEF CheckStat, Goto
  <2>4. mem[ProcOf[c]].data \in Document
    BY <1>m, FileStoreAssumption DEF Memory
  <2>2. r \in Call
    BY <1>c, <1>f, <2>4 DEF Call, Points
  <2> HIDE DEF r
  <2>3. call' \in [Calls -> Call]
    BY <2>1, <2>2 DEF TypeOK
  <2> QED
    BY <1>10, <2>3 DEF TypeOK, CheckStat
<1>11. ASSUME NEW c \in Calls, ReadFromDisk(c) PROVE TypeOK'
  <2> DEFINE r == [call[c] EXCEPT !.at = "mutate", !.data = file.content, !.stat = 0]
  <2>1. call' = [call EXCEPT ![c] = r]
    BY <1>11 DEF ReadFromDisk, Goto
  <2>2. r \in Call
    BY <1>c, <1>f DEF Call, Points
  <2> HIDE DEF r
  <2>3. call' \in [Calls -> Call]
    BY <2>1, <2>2 DEF TypeOK
  <2>4. call[c].stat \in Nat
    BY <1>c DEF Call
  <2>5. [mem[ProcOf[c]] EXCEPT !.raw = Empty, !.stat = call[c].stat] \in Memory
    BY <1>m, <2>4, EmptyType, FileStoreAssumption DEF Memory
  <2>6. mem' = [mem EXCEPT ![ProcOf[c]] =
                    [mem[ProcOf[c]] EXCEPT !.raw = Empty, !.stat = call[c].stat]]
    BY <1>11 DEF ReadFromDisk
  <2>7. mem' \in [Procs -> Memory]
    BY <2>5, <2>6 DEF TypeOK
  <2> QED
    BY <1>11, <2>3, <2>7 DEF TypeOK, ReadFromDisk
<1>12. ASSUME NEW c \in Calls, Mutate(c) PROVE TypeOK'
  <2> DEFINE data == [call[c].data EXCEPT ![KeyOf[c]] = @ \cup {c}]
             lines == Serialize(mem[ProcOf[c]].raw, data, KeyOf[c])
             r == [call[c] EXCEPT !.at = "rename", !.data = data, !.out = lines]
  <2>1. /\ mem' = [mem EXCEPT ![ProcOf[c]] = [mem[ProcOf[c]] EXCEPT !.raw = lines]]
        /\ call' = [call EXCEPT ![c] = r]
    BY <1>12 DEF Mutate
  <2>2. call[c].data \in Document /\ mem[ProcOf[c]].raw \in Document
    BY <1>c, <1>m, FileStoreAssumption DEF Call, Memory
  <2>3. data \in Document
    BY <2>2, FileStoreAssumption DEF Document
  <2>4. lines \in Document
    BY <2>2, <2>3, SerializeType, FileStoreAssumption
  <2> HIDE DEF data, lines
  <2>5. r \in Call
    BY <1>c, <2>3, <2>4 DEF Call, Points
  <2>6. [mem[ProcOf[c]] EXCEPT !.raw = lines] \in Memory
    BY <1>m, <2>4, FileStoreAssumption DEF Memory
  <2> HIDE DEF r
  <2>7. call' \in [Calls -> Call] /\ mem' \in [Procs -> Memory]
    BY <2>1, <2>5, <2>6 DEF TypeOK
  <2> QED
    BY <1>12, <2>7 DEF TypeOK, Mutate
<1>13. ASSUME NEW c \in Calls, Rename(c) PROVE TypeOK'
  <2> DEFINE r == [call[c] EXCEPT !.at = "restat"]
  <2>1. call' = [call EXCEPT ![c] = r]
    BY <1>13 DEF Rename, Goto
  <2>2. r \in Call
    BY <1>c DEF Call, Points
  <2> HIDE DEF r
  <2>3. call' \in [Calls -> Call]
    BY <2>1, <2>2 DEF TypeOK
  <2>4. call[c].out \in Document
    BY <1>c DEF Call
  <2>5. file' \in [stamp: Nat, content: Document]
    BY <1>13, <1>f, <2>4 DEF Rename
  <2>6. reused' \in BOOLEAN
    BY <1>13 DEF Rename, TypeOK
  <2> QED
    BY <1>13, <2>3, <2>5, <2>6 DEF TypeOK, Rename
<1>14. ASSUME NEW c \in Calls, WriteFails(c) PROVE TypeOK'
  <2> DEFINE r == [Finished(FALSE) EXCEPT !.at = "release"]
  <2>1. call' = [call EXCEPT ![c] = r]
    BY <1>14 DEF WriteFails, Goto
  <2>2. r \in Call
    BY <1>c, FinishedFacts DEF Call, Points
  <2> HIDE DEF r
  <2>3. call' \in [Calls -> Call]
    BY <2>1, <2>2 DEF TypeOK
  <2> QED
    BY <1>14, <2>3, FileStoreAssumption DEF TypeOK, WriteFails
<1>15. ASSUME NEW c \in Calls, Restat(c) PROVE TypeOK'
  <2> DEFINE r == [call[c] EXCEPT !.at = "release", !.data = Empty, !.out = Empty]
  <2>1. call' = [call EXCEPT ![c] = r]
    BY <1>15 DEF Restat, Goto
  <2>2. r \in Call
    BY <1>c, EmptyType DEF Call, Points
  <2> HIDE DEF r
  <2>3. call' \in [Calls -> Call]
    BY <2>1, <2>2 DEF TypeOK
  <2>4. call[c].data \in Document
    BY <1>c DEF Call
  <2>5. [mem[ProcOf[c]] EXCEPT !.stat = file.stamp, !.data = call[c].data,
                                     !.loaded = TRUE] \in Memory
    BY <1>m, <1>f, <2>4, FileStoreAssumption DEF Memory
  <2>6. mem' = [mem EXCEPT ![ProcOf[c]] =
                    [mem[ProcOf[c]] EXCEPT !.stat = file.stamp, !.data = call[c].data,
                                           !.loaded = TRUE]]
    BY <1>15 DEF Restat
  <2>7. mem' \in [Procs -> Memory]
    BY <2>5, <2>6 DEF TypeOK
  <2> QED
    BY <1>15, <2>3, <2>7 DEF TypeOK, Restat
<1>16. ASSUME NEW p \in Procs, GetStat(p) PROVE TypeOK'
  <2> DEFINE r == [reader[p] EXCEPT !.at = "read", !.stat = file.stamp]
  <2>1. reader' = [reader EXCEPT ![p] = r]
    BY <1>16 DEF GetStat
  <2>2. r \in Reader
    BY <1>r, <1>f, EmptyType DEF Reader
  <2> HIDE DEF r
  <2>3. reader' \in [Procs -> Reader]
    BY <2>1, <2>2 DEF TypeOK
  <2> QED
    BY <1>16, <2>3 DEF TypeOK, GetStat
<1>17. ASSUME NEW p \in Procs, GetRead(p) PROVE TypeOK'
  <2> DEFINE r == [reader[p] EXCEPT !.at = "parse", !.data = file.content]
  <2>1. reader' = [reader EXCEPT ![p] = r]
    BY <1>17 DEF GetRead
  <2>2. r \in Reader
    BY <1>r, <1>f, EmptyType DEF Reader
  <2> HIDE DEF r
  <2>3. reader' \in [Procs -> Reader]
    BY <2>1, <2>2 DEF TypeOK
  <2> QED
    BY <1>17, <2>3 DEF TypeOK, GetRead
<1>18. ASSUME NEW p \in Procs, GetParse(p) PROVE TypeOK'
  <2> DEFINE r == [at |-> "idle", stat |-> 0, data |-> Empty]
  <2>1. reader' = [reader EXCEPT ![p] = r]
    BY <1>18 DEF GetParse
  <2>2. r \in Reader
    BY <1>r, <1>f, EmptyType DEF Reader
  <2> HIDE DEF r
  <2>3. reader' \in [Procs -> Reader]
    BY <2>1, <2>2 DEF TypeOK
  <2> DEFINE m == [data |-> reader[p].data, raw |-> Empty, stat |-> reader[p].stat,
                    loaded |-> TRUE]
  <2>4. m \in Memory
    BY <1>r, EmptyType DEF Reader, Memory
  <2>5. mem' = [mem EXCEPT ![p] = m]
    BY <1>18 DEF GetParse
  <2> HIDE DEF m
  <2>6. mem' \in [Procs -> Memory]
    BY <2>4, <2>5 DEF TypeOK
  <2> QED
    BY <1>18, <2>3, <2>6 DEF TypeOK, GetParse
<1>19. ASSUME NEW p \in Procs, Crash(p) PROVE TypeOK'
  BY <1>19 DEF TypeOK, Crash
<1>20. CASE Age
  <2>1. lock \in Lock
    BY <1>20 DEF Age, TypeOK
  <2>2. lock' \in Lock
    BY <1>20, <2>1 DEF Age, Lock
  <2> QED
    BY <1>20, <2>2 DEF TypeOK, Age
<1>21. CASE UNCHANGED vars
  BY <1>21 DEF TypeOK, vars
<1> QED
  BY <1>1, <1>2, <1>3, <1>4, <1>5, <1>6, <1>7, <1>8, <1>9, <1>10, <1>11,
     <1>12, <1>13, <1>14, <1>15, <1>16, <1>17, <1>18, <1>19, <1>20, <1>21 DEF Next, CallStep

-----------------------------------------------------------------------------
(* The lock *)

\* A steal under way is against the dead, so a holder keeps its lock file.
LEMMA LockStep == TypeOK /\ LockInv /\ [Next]_vars => LockInv'
<1> SUFFICES ASSUME TypeOK, LockInv, [Next]_vars, ~raced' PROVE LockInv'
  BY DEF LockInv
<1>0. ~raced
  BY DEF Next, vars
<1>c. \A c \in Calls : call[c] \in Call
  BY DEF TypeOK
<1>l. lock # NoLock => lock.by \in Calls
  BY DEF TypeOK, Lock
<1> USE <1>0 DEF LockInv, Alive
<1>1. ASSUME NEW c \in Calls, Begin(c) PROVE LockInv'
  BY <1>1, <1>c, <1>l, FinishedFacts DEF Begin, At, Goto, Call, Holding, Critical, TypeOK
<1>2. ASSUME NEW c \in Calls, OpenNew(c) PROVE LockInv'
  <2>1. lock' \in Lock /\ lock'.by = c
    BY <1>2 DEF OpenNew, Lock
  <2>2. lock' # NoLock
    BY <2>1, FileStoreAssumption DEF Lock
  <2>3. \A d \in Calls : Alive(d) => call[d].at \notin Holding
    BY <1>2 DEF OpenNew
  <2>4. /\ \A d \in Calls \ {c} : call'[d] = call[d]
        /\ call'[c].at = "token"
        /\ up' = up
    BY <1>2, <1>c DEF OpenNew, Goto, TypeOK, Call
  <2> QED
    BY <2>1, <2>2, <2>3, <2>4
<1>3. ASSUME NEW c \in Calls, WriteToken(c) PROVE LockInv'
  <2>1. lock # NoLock /\ lock.by = c /\ lock \in Lock
    BY <1>3 DEF WriteToken, At, Holding, TypeOK
  <2>2. lock' = [lock EXCEPT !.written = TRUE]
    BY <1>3, <2>1 DEF WriteToken
  <2>3. lock' \in Lock /\ lock'.by = c
    BY <2>1, <2>2 DEF Lock
  <2>4. lock' # NoLock
    BY <2>3, FileStoreAssumption DEF Lock
  <2>5. /\ \A d \in Calls \ {c} : call'[d] = call[d]
        /\ call'[c].at = "locked"
        /\ up' = up
    BY <1>3, <1>c DEF WriteToken, Goto, TypeOK, Call
  <2>6. \A d \in Calls \ {c} : Alive(d) => call[d].at \notin Holding
    BY <2>1
  <2> QED
    BY <2>3, <2>4, <2>5, <2>6
<1>4. ASSUME NEW c \in Calls, OpenBusy(c) PROVE LockInv'
  BY <1>4, <1>c, <1>l, FinishedFacts DEF OpenBusy, At, Goto, Call, Holding, Critical, TypeOK
<1>5. ASSUME NEW c \in Calls, CheckStat(c) PROVE LockInv'
  BY <1>5, <1>c, <1>l, FinishedFacts DEF CheckStat, At, Goto, Call, Holding, Critical, TypeOK
<1>6. ASSUME NEW c \in Calls, ReadFromDisk(c) PROVE LockInv'
  BY <1>6, <1>c, <1>l, FinishedFacts DEF ReadFromDisk, At, Goto, Call, Holding, Critical, TypeOK
<1>7. ASSUME NEW c \in Calls, Mutate(c) PROVE LockInv'
  BY <1>7, <1>c, <1>l, FinishedFacts DEF Mutate, At, Goto, Call, Holding, Critical, TypeOK
<1>8. ASSUME NEW c \in Calls, Rename(c) PROVE LockInv'
  BY <1>8, <1>c, <1>l, FinishedFacts DEF Rename, At, Goto, Call, Holding, Critical, TypeOK
<1>9. ASSUME NEW c \in Calls, Restat(c) PROVE LockInv'
  BY <1>9, <1>c, <1>l, FinishedFacts DEF Restat, At, Goto, Call, Holding, Critical, TypeOK
<1>10. ASSUME NEW c \in Calls, Unlink(c) PROVE LockInv'
  BY <1>10, <1>c, <1>l, FinishedFacts DEF Unlink, At, Goto, Call, Holding, Critical, TypeOK
<1>11. ASSUME NEW c \in Calls, TimeOut(c) PROVE LockInv'
  BY <1>11, <1>c, <1>l, FinishedFacts DEF TimeOut, At, Goto, Call, Holding, Critical, TypeOK
<1>12. ASSUME NEW c \in Calls, ReleaseRead(c) PROVE LockInv'
  BY <1>12, <1>c, <1>l, FinishedFacts DEF ReleaseRead, At, Goto, Call, Holding, Critical, TypeOK
<1>13. ASSUME NEW c \in Calls, WriteFails(c) PROVE LockInv'
  <2> DEFINE z == [Finished(FALSE) EXCEPT !.at = "release"]
  <2>1. z.at = "release" /\ z.saw = NoLock
    BY FinishedFacts DEF Call
  <2>2. call' = [call EXCEPT ![c] = z] /\ call[c].at = "rename" /\ UNCHANGED <<lock, up, raced>>
    BY <1>13 DEF WriteFails, At
  <2> HIDE DEF z
  <2>3. call'[c] = z /\ \A d \in Calls \ {c} : call'[d] = call[d]
    BY <2>2 DEF TypeOK
  <2> QED
    BY <1>c, <1>l, <2>1, <2>2, <2>3 DEF Holding, Critical
<1>14. ASSUME NEW c \in Calls, Inspect(c) PROVE LockInv'
  BY <1>14, <1>c, <1>l DEF Inspect, At, Call, Holding, Critical, TypeOK, MaySteal, ForeignLive,
     ForeignDead, Foreign
<1>15. ASSUME NEW c \in Calls, Steal(c) PROVE LockInv'
  <2>1. lock = NoLock \/ ~Alive(lock.by)
    <3>1. lock = NoLock \/ ~Alive(lock.by) \/ lock.by = call[c].saw
      BY <1>15 DEF Steal
    <3>2. lock # NoLock => lock.by # NoLock
      BY <1>l, FileStoreAssumption
    <3>3. call[c].saw # NoLock => ~Alive(call[c].saw)
      BY <1>15 DEF Steal, At
    <3> QED
      BY <3>1, <3>2, <3>3
  <2>2. \A d \in Calls : Alive(d) => call[d].at \notin Holding
    BY <2>1
  <2>3. /\ \A d \in Calls \ {c} : call'[d] = call[d]
        /\ call'[c].at = "open"
        /\ up' = up
    BY <1>15, <1>c DEF Steal, TypeOK, Call
  <2> QED
    BY <2>2, <2>3 DEF Holding, Critical
<1>16. ASSUME NEW p \in Procs, GetStat(p) PROVE LockInv'
  BY <1>16 DEF GetStat
<1>17. ASSUME NEW p \in Procs, GetRead(p) PROVE LockInv'
  BY <1>17 DEF GetRead
<1>18. ASSUME NEW p \in Procs, GetParse(p) PROVE LockInv'
  BY <1>18 DEF GetParse
<1>19. ASSUME NEW p \in Procs, Crash(p) PROVE LockInv'
  BY <1>19 DEF Crash
<1>20. CASE Age
  <2>1. lock \in Lock
    BY <1>20 DEF Age, TypeOK
  <2>2. lock' \in Lock /\ lock'.by = lock.by
    BY <1>20, <2>1 DEF Age, Lock
  <2>3. lock' # NoLock
    BY <2>2, FileStoreAssumption DEF Lock
  <2> QED
    BY <1>20, <2>2, <2>3 DEF Age
<1> QED
  BY <1>1, <1>2, <1>3, <1>4, <1>5, <1>6, <1>7, <1>8, <1>9, <1>10, <1>11, <1>12, <1>13,
     <1>14, <1>15, <1>16, <1>17, <1>18, <1>19, <1>20
  DEF Next, CallStep, vars

\* Two live calls are never between creating and deleting the lock file.
LEMMA Exclusion ==
    ASSUME LockInv, ~raced, NEW c \in Calls, NEW d \in Calls,
           Alive(c), Alive(d), call[c].at \in Holding, call[d].at \in Holding
    PROVE  c = d
BY DEF LockInv

-----------------------------------------------------------------------------
(* The caches *)

\* A step of a call that has nothing to do with the data.
LEMMA QuietStep ==
    ASSUME CacheInv, ~raced, NEW c \in Calls,
           UNCHANGED <<file, mem, reader, up, broken>>,
           \A d \in Calls \ {c} : call'[d] = call[d],
           call[c].at \notin {"mutate", "rename"},
           call'[c].at \notin {"mutate", "rename", "restat"},
           call'[c].stat <= file.stamp
    PROVE  CacheInv'
<1>1. Stamps' /\ Reads'
  BY DEF CacheInv, Stamps, Reads
<1>2. Working'
  <2> SUFFICES ASSUME NEW d \in Calls, Alive(d)', (ProcOf[d] \notin broken)' PROVE WorkOK(d)'
    BY DEF Working
  <2>1. CASE d = c
    BY <2>1 DEF WorkOK
  <2>2. CASE d # c
    <3>1. WorkOK(d)
      BY DEF CacheInv, Working, Alive
    <3> QED
      BY <2>2, <3>1 DEF WorkOK, RawAgrees, Added
  <2> QED
    BY <2>1, <2>2
<1>3. Cached'
  <2> SUFFICES ASSUME NEW p \in up', (p \notin broken)', StatMatches(p)', Unwritten(p)'
               PROVE  (mem[p].data = file.content)' /\ RawAgrees(p, file.content)'
    BY DEF Cached
  <2>1. StatMatches(p) /\ Unwritten(p)
    BY DEF StatMatches, Unwritten
  <2> QED
    BY <2>1 DEF CacheInv, Cached, RawAgrees
<1> QED
  BY <1>1, <1>2, <1>3 DEF CacheInv

\* Reusing lines that agree with the document changes nothing.
LEMMA SerializeAgrees ==
    ASSUME NEW raw \in Document, NEW doc \in Document, NEW key \in Keys, NEW c \in Calls,
           \A k \in Keys : raw[k] # {} => raw[k] = doc[k]
    PROVE  Serialize(raw, [doc EXCEPT ![key] = @ \cup {c}], key) = [doc EXCEPT ![key] = @ \cup {c}]
BY DEF Serialize, Document

\* Only the call inside the lock has work whose result matters.
LEMMA OnlyWriter ==
    ASSUME LockInv, ~raced, NEW c \in Calls, Alive(c), call[c].at \in Critical,
           \A d \in Calls \ {c} : call'[d] = call[d],
           up' = up, broken \subseteq broken',
           ProcOf[c] \notin broken' => WorkOK(c)'
    PROVE  Working'
<1> SUFFICES ASSUME NEW d \in Calls, Alive(d)', (ProcOf[d] \notin broken)' PROVE WorkOK(d)'
  BY DEF Working
<1>1. CASE d = c
  BY <1>1
<1>2. CASE d # c
  <2>1. Alive(d)
    BY DEF Alive
  <2>2. call[d].at \notin Critical
    BY <1>2, <2>1, Exclusion DEF Holding
  <2> QED
    BY <1>2, <2>2 DEF WorkOK, Critical
<1> QED
  BY <1>1, <1>2

\* A step of c leaves the caches of the other processes as they are.
LEMMA OtherCaches ==
    ASSUME Cached, NEW c \in Calls,
           \A d \in Calls \ {c} : call'[d] = call[d],
           \A q \in Procs \ {ProcOf[c]} : mem'[q] = mem[q],
           up \subseteq Procs, file' = file, up' = up, broken \subseteq broken',
           NEW q \in up', q # ProcOf[c], q \notin broken', StatMatches(q)', Unwritten(q)'
    PROVE  (mem[q].data = file.content)' /\ RawAgrees(q, file.content)'
<1>1. StatMatches(q) /\ q \in up /\ q \notin broken /\ mem'[q] = mem[q]
  BY DEF StatMatches
<1>2. Unwritten(q)
  BY DEF Unwritten
<1> QED
  BY <1>1, <1>2 DEF Cached, RawAgrees

\* No step makes a cache, or what a writer has read, differ from the file.
LEMMA CacheStep == TypeOK /\ LockInv /\ CacheInv /\ [Next]_vars => CacheInv'
<1> SUFFICES ASSUME TypeOK, LockInv, CacheInv, [Next]_vars, ~raced' PROVE CacheInv'
  BY DEF CacheInv
<1>0. ~raced
  BY DEF Next, vars
<1>c. \A c \in Calls : call[c] \in Call
  BY DEF TypeOK
<1>p. \A c \in Calls : ProcOf[c] \in Procs
  BY FileStoreAssumption
<1>m. \A p \in Procs : mem[p] \in Memory
  BY DEF TypeOK
<1>r. \A p \in Procs : reader[p] \in Reader
  BY DEF TypeOK
<1>f. file.content \in Document /\ file.stamp \in Nat
  BY DEF TypeOK
<1>i. Stamps /\ Reads /\ Working /\ Cached
  BY <1>0 DEF CacheInv
<1>x. ASSUME NEW c \in Calls, Alive(c), call[c].at \in Critical
      PROVE  \A d \in Calls \ {c} : Alive(d) => call[d].at \notin Critical
  BY <1>0, <1>x, Exclusion DEF Holding
<1>1. ASSUME NEW c \in Calls,
             Begin(c) \/ OpenNew(c) \/ WriteToken(c) \/ OpenBusy(c) \/ Inspect(c) \/ Steal(c)
      PROVE  CacheInv'
  <2>1. UNCHANGED <<file, mem, reader, up, broken>>
    BY <1>1 DEF Begin, OpenNew, WriteToken, OpenBusy, Inspect, Steal
  <2>2. /\ \A d \in Calls \ {c} : call'[d] = call[d]
        /\ call[c].at \in {"idle", "open", "token", "inspect", "steal"}
        /\ call'[c].at \in {"open", "token", "inspect", "steal", "locked"}
        /\ call'[c].stat = call[c].stat
    BY <1>1, <1>c DEF Begin, OpenNew, WriteToken, OpenBusy, Inspect, Steal, At, Goto, Call, TypeOK
  <2> QED
    BY <1>0, <1>i, <2>1, <2>2, QuietStep DEF Stamps
<1>2. ASSUME NEW c \in Calls, TimeOut(c) \/ ReleaseRead(c) \/ Unlink(c)
      PROVE  CacheInv'
  <2>1. UNCHANGED <<file, mem, reader, up, broken>>
    BY <1>2 DEF TimeOut, ReleaseRead, Unlink
  <2>2. call[c].ok \in BOOLEAN /\ call[c].stat \in Nat
    BY <1>c DEF Call
  <2>3. /\ \A d \in Calls \ {c} : call'[d] = call[d]
        /\ call[c].at \in {"inspect", "steal", "release", "unlink"}
    BY <1>2 DEF TimeOut, ReleaseRead, Unlink, At, TypeOK
  <2>4. \/ call'[c] = Finished(FALSE)
        \/ call'[c] = Finished(call[c].ok)
        \/ call'[c] = [call[c] EXCEPT !.at = "unlink"]
    BY <1>2 DEF TimeOut, ReleaseRead, Unlink, TypeOK
  <2>5. /\ call'[c].at \in {"done", "failed", "unlink"}
        /\ call'[c].stat \in {0, call[c].stat}
    BY <1>c, <2>2, <2>4, FinishedFacts DEF Call
  <2> QED
    BY <1>0, <1>f, <1>i, <2>1, <2>3, <2>5, QuietStep DEF Stamps
<1>3. ASSUME NEW c \in Calls, CheckStat(c) PROVE CacheInv'
  <2> DEFINE p == ProcOf[c]
  <2>1. /\ UNCHANGED <<file, mem, reader, up, broken>>
        /\ \A d \in Calls \ {c} : call'[d] = call[d]
        /\ Alive(c) /\ call[c].at = "locked"
    BY <1>3 DEF CheckStat, At, TypeOK
  <2>2. CASE ~StatMatches(p)
    <3>1. call'[c].at = "read" /\ call'[c].stat = file.stamp
      BY <1>3, <1>c, <2>2 DEF CheckStat, Call, TypeOK
    <3> QED
      BY <1>0, <1>f, <2>1, <3>1, QuietStep
  <2>3. CASE StatMatches(p)
    <3>1. call'[c].at = "mutate" /\ call'[c].data = mem[p].data /\ call'[c].stat = call[c].stat
      BY <1>3, <1>c, <2>3 DEF CheckStat, Call, TypeOK
    <3>2. Stamps' /\ Reads'
      BY <1>i, <2>1, <3>1 DEF Stamps, Reads
    <3>3. Working'
      <4> SUFFICES ASSUME NEW d \in Calls, Alive(d)', (ProcOf[d] \notin broken)' PROVE WorkOK(d)'
        BY DEF Working
      <4>1. Alive(d) /\ ProcOf[d] \notin broken
        BY <2>1 DEF Alive
      <4>2. CASE d # c
        BY <1>x, <2>1, <4>1, <4>2 DEF WorkOK, Critical
      <4>3. CASE d = c
        <5>1. Unwritten(p)
          BY <1>x, <2>1 DEF Unwritten, Alive, Critical
        <5>2. mem[p].data = file.content /\ RawAgrees(p, file.content)
          BY <1>i, <2>3, <4>1, <4>3, <5>1 DEF Cached, Alive
        <5> QED
          BY <2>1, <3>1, <4>3, <5>2 DEF WorkOK, RawAgrees
      <4> QED
        BY <4>2, <4>3
    <3>4. Cached'
      <4> SUFFICES ASSUME NEW q \in up', (q \notin broken)', StatMatches(q)', Unwritten(q)'
                   PROVE  (mem[q].data = file.content)' /\ RawAgrees(q, file.content)'
        BY DEF Cached
      <4>1. StatMatches(q) /\ Unwritten(q)
        BY <2>1, <3>1 DEF StatMatches, Unwritten
      <4> QED
        BY <1>i, <2>1, <4>1 DEF Cached, RawAgrees
    <3> QED
      BY <3>2, <3>3, <3>4 DEF CacheInv
  <2> QED
    BY <2>2, <2>3
<1>u. up \subseteq Procs
  BY DEF TypeOK
<1>4. ASSUME NEW c \in Calls, ReadFromDisk(c) PROVE CacheInv'
  <2> DEFINE p == ProcOf[c]
             m == [mem[p] EXCEPT !.raw = Empty, !.stat = call[c].stat]
  <2>1. /\ UNCHANGED <<file, reader, up, broken>>
        /\ \A d \in Calls \ {c} : call'[d] = call[d]
        /\ Alive(c) /\ call[c].at \in Critical
    BY <1>4 DEF ReadFromDisk, At, TypeOK, Critical
  <2>2. call'[c].at = "mutate" /\ call'[c].data = file.content /\ call'[c].stat = 0
    BY <1>4, <1>c DEF ReadFromDisk, Call, TypeOK
  <2>3. mem' = [mem EXCEPT ![p] = m]
    BY <1>4 DEF ReadFromDisk
  <2>4. m.raw = Empty /\ m.stat = call[c].stat
    BY <1>m, <1>p DEF Memory
  <2> HIDE DEF m
  <2>5. mem'[p] = m /\ \A q \in Procs \ {p} : mem'[q] = mem[q]
    BY <1>p, <2>3 DEF TypeOK
  <2>6. Stamps' /\ Reads'
    BY <1>f, <1>i, <2>1, <2>2, <2>4, <2>5 DEF Stamps, Reads
  <2>7. WorkOK(c)'
    BY <2>1, <2>2, <2>4, <2>5 DEF WorkOK, RawAgrees, Empty
  <2>8. Working'
    BY <1>0, <2>1, <2>7, OnlyWriter
  <2>9. Cached'
    <3> SUFFICES ASSUME NEW q \in up', (q \notin broken)', StatMatches(q)', Unwritten(q)'
                 PROVE  (mem[q].data = file.content)' /\ RawAgrees(q, file.content)'
      BY DEF Cached
    <3>1. q # p
      BY <2>2 DEF Unwritten
    <3> QED
      BY <1>i, <1>u, <2>1, <2>5, <3>1, OtherCaches
  <2> QED
    BY <2>6, <2>8, <2>9 DEF CacheInv
<1>5. ASSUME NEW c \in Calls, Mutate(c) PROVE CacheInv'
  <2> DEFINE p == ProcOf[c]
             data == [call[c].data EXCEPT ![KeyOf[c]] = @ \cup {c}]
             lines == Serialize(mem[p].raw, data, KeyOf[c])
             m == [mem[p] EXCEPT !.raw = lines]
  <2>1. /\ UNCHANGED <<file, reader, up, broken>>
        /\ \A d \in Calls \ {c} : call'[d] = call[d]
        /\ Alive(c) /\ call[c].at = "mutate"
    BY <1>5 DEF Mutate, At, TypeOK
  <2>2. /\ mem' = [mem EXCEPT ![p] = m]
        /\ call' = [call EXCEPT ![c] =
                       [call[c] EXCEPT !.at = "rename", !.data = data, !.out = lines]]
    BY <1>5 DEF Mutate
  <2>3. p \notin broken => data = Added(c) /\ lines = Added(c)
    <3> SUFFICES ASSUME p \notin broken PROVE data = Added(c) /\ lines = Added(c)
      OBVIOUS
    <3>1. call[c].data = file.content /\ RawAgrees(p, file.content)
      BY <1>i, <2>1 DEF Working, WorkOK
    <3>2. mem[p].raw \in Document /\ KeyOf[c] \in Keys
      BY <1>m, <1>p, FileStoreAssumption DEF Memory
    <3> QED
      BY <1>f, <3>1, <3>2, SerializeAgrees DEF Added, RawAgrees
  <2> HIDE DEF data, lines
  <2>4. m.raw = lines /\ m.stat = mem[p].stat
    BY <1>m, <1>p DEF Memory
  <2>5. /\ call'[c].at = "rename" /\ call'[c].data = data
        /\ call'[c].out = lines /\ call'[c].stat = call[c].stat
    BY <1>c, <2>2 DEF Call, TypeOK
  <2> HIDE DEF m
  <2>6. mem'[p] = m /\ \A q \in Procs \ {p} : mem'[q] = mem[q]
    BY <1>p, <2>2 DEF TypeOK
  <2>7. Stamps' /\ Reads'
    BY <1>i, <1>p, <2>1, <2>4, <2>5, <2>6 DEF Stamps, Reads
  <2>8. p \notin broken' => WorkOK(c)'
    <3> SUFFICES ASSUME p \notin broken' PROVE WorkOK(c)'
      OBVIOUS
    <3>1. Added(c)' = Added(c)
      BY <2>1 DEF Added
    <3>2. mem'[p].raw = call'[c].data
      BY <2>1, <2>3, <2>4, <2>5, <2>6
    <3> QED
      BY <2>1, <2>3, <2>5, <3>1, <3>2 DEF WorkOK, RawAgrees
  <2>9. Working'
    BY <1>0, <2>1, <2>8, OnlyWriter DEF Critical
  <2>10. Cached'
    <3> SUFFICES ASSUME NEW q \in up', (q \notin broken)', StatMatches(q)', Unwritten(q)'
                 PROVE  (mem[q].data = file.content)' /\ RawAgrees(q, file.content)'
      BY DEF Cached
    <3>1. q # p
      BY <2>5 DEF Unwritten
    <3> QED
      BY <1>i, <1>u, <2>1, <2>6, <3>1, OtherCaches
  <2> QED
    BY <2>7, <2>9, <2>10 DEF CacheInv
<1>6. ASSUME NEW c \in Calls, Rename(c) PROVE CacheInv'
  <2> DEFINE p == ProcOf[c]
  <2>1. /\ UNCHANGED <<mem, reader, up, broken>>
        /\ \A d \in Calls \ {c} : call'[d] = call[d]
        /\ Alive(c) /\ call[c].at = "rename"
    BY <1>6 DEF Rename, Goto, At, TypeOK
  <2>2. call'[c].at = "restat" /\ call'[c].data = call[c].data /\ call'[c].stat = call[c].stat
    BY <1>6, <1>c DEF Rename, Goto, Call, TypeOK
  <2>3. file'.stamp = file.stamp + 1 /\ file'.content = call[c].out
    BY <1>6 DEF Rename
  <2>4. /\ \A q \in Procs : mem[q].stat \in Nat /\ reader[q].stat \in Nat
        /\ \A d \in Calls : call[d].stat \in Nat
    BY <1>c, <1>m, <1>r DEF Call, Memory, Reader
  <2>5. Stamps' /\ Reads'
    BY <1>f, <1>i, <2>1, <2>2, <2>3, <2>4 DEF Stamps, Reads
  <2>6. p \notin broken' => WorkOK(c)'
    <3> SUFFICES ASSUME p \notin broken' PROVE WorkOK(c)'
      OBVIOUS
    <3>1. call[c].data = call[c].out /\ RawAgrees(p, call[c].data)
      BY <1>i, <2>1 DEF Working, WorkOK
    <3> QED
      BY <2>1, <2>2, <2>3, <3>1 DEF WorkOK, RawAgrees
  <2>7. Working'
    BY <1>0, <2>1, <2>6, OnlyWriter DEF Critical
  <2>8. Cached'
    BY <1>f, <1>i, <1>u, <2>1, <2>3, <2>4 DEF Cached, StatMatches, Stamps
  <2> QED
    BY <2>5, <2>7, <2>8 DEF CacheInv
<1>7. ASSUME NEW c \in Calls, WriteFails(c) PROVE CacheInv'
  <2> DEFINE p == ProcOf[c]
  <2>1. /\ UNCHANGED <<file, mem, reader, up>>
        /\ broken' = broken \cup {p}
        /\ \A d \in Calls \ {c} : call'[d] = call[d]
        /\ Alive(c) /\ call[c].at = "rename"
    BY <1>7 DEF WriteFails, At, TypeOK
  <2>2. call'[c].stat = 0
    BY <1>7, FinishedFacts DEF WriteFails, Call, TypeOK
  <2>3. Stamps' /\ Reads'
    BY <1>f, <1>i, <2>1, <2>2 DEF Stamps, Reads
  <2>4. Working'
    BY <1>0, <2>1, OnlyWriter DEF Critical
  <2>5. Cached'
    <3> SUFFICES ASSUME NEW q \in up', (q \notin broken)', StatMatches(q)', Unwritten(q)'
                 PROVE  (mem[q].data = file.content)' /\ RawAgrees(q, file.content)'
      BY DEF Cached
    <3>1. q # p
      BY <2>1
    <3> QED
      BY <1>i, <1>u, <2>1, <3>1, OtherCaches
  <2> QED
    BY <2>3, <2>4, <2>5 DEF CacheInv
<1>8. ASSUME NEW c \in Calls, Restat(c) PROVE CacheInv'
  <2> DEFINE p == ProcOf[c]
             m == [mem[p] EXCEPT !.stat = file.stamp, !.data = call[c].data, !.loaded = TRUE]
  <2>1. /\ UNCHANGED <<file, reader, up, broken>>
        /\ \A d \in Calls \ {c} : call'[d] = call[d]
        /\ Alive(c) /\ call[c].at = "restat"
    BY <1>8 DEF Restat, At, TypeOK
  <2>2. mem' = [mem EXCEPT ![p] = m]
    BY <1>8 DEF Restat
  <2>3. m.raw = mem[p].raw /\ m.stat = file.stamp /\ m.data = call[c].data
    BY <1>m, <1>p DEF Memory
  <2>4. call'[c].at = "release" /\ call'[c].stat = call[c].stat
    BY <1>8, <1>c DEF Restat, Call, TypeOK
  <2> HIDE DEF m
  <2>5. mem'[p] = m /\ \A q \in Procs \ {p} : mem'[q] = mem[q]
    BY <1>p, <2>2 DEF TypeOK
  <2>6. Stamps' /\ Reads'
    BY <1>f, <1>i, <1>p, <2>1, <2>3, <2>4, <2>5 DEF Stamps, Reads
  <2>7. Working'
    BY <1>0, <2>1, <2>4, OnlyWriter DEF Critical, WorkOK
  <2>8. Cached'
    <3> SUFFICES ASSUME NEW q \in up', (q \notin broken)', StatMatches(q)', Unwritten(q)'
                 PROVE  (mem[q].data = file.content)' /\ RawAgrees(q, file.content)'
      BY DEF Cached
    <3>1. CASE q # p
      BY <1>i, <1>u, <2>1, <2>5, <3>1, OtherCaches
    <3>2. CASE q = p
      <4>1. call[c].data = file.content /\ RawAgrees(p, file.content)
        BY <1>i, <2>1, <3>2 DEF Working, WorkOK
      <4> QED
        BY <2>1, <2>3, <2>5, <3>2, <4>1 DEF RawAgrees
    <3> QED
      BY <3>1, <3>2
  <2> QED
    BY <2>6, <2>7, <2>8 DEF CacheInv
<1>9. ASSUME NEW p \in Procs, GetStat(p) PROVE CacheInv'
  <2>1. UNCHANGED <<file, mem, call, up, broken>>
    BY <1>9 DEF GetStat
  <2>2. /\ reader'[p].at = "read" /\ reader'[p].stat = file.stamp
        /\ \A q \in Procs \ {p} : reader'[q] = reader[q]
    BY <1>9, <1>r DEF GetStat, Reader, TypeOK
  <2>3. Stamps' /\ Reads'
    BY <1>f, <1>i, <2>1, <2>2 DEF Stamps, Reads
  <2> QED
    BY <1>i, <2>1, <2>3 DEF CacheInv, Working, WorkOK, Cached, RawAgrees, Added, Alive,
       StatMatches, Unwritten
<1>10. ASSUME NEW p \in Procs, GetRead(p) PROVE CacheInv'
  <2>1. UNCHANGED <<file, mem, call, up, broken>>
    BY <1>10 DEF GetRead
  <2>2. /\ reader'[p].data = file.content /\ reader'[p].stat = reader[p].stat
        /\ \A q \in Procs \ {p} : reader'[q] = reader[q]
    BY <1>10, <1>r DEF GetRead, Reader, TypeOK
  <2>3. Stamps' /\ Reads'
    BY <1>f, <1>i, <2>1, <2>2 DEF Stamps, Reads
  <2> QED
    BY <1>i, <2>1, <2>3 DEF CacheInv, Working, WorkOK, Cached, RawAgrees, Added, Alive,
       StatMatches, Unwritten
<1>11. ASSUME NEW p \in Procs, GetParse(p) PROVE CacheInv'
  <2>1. UNCHANGED <<file, call, up, broken>> /\ reader[p].at = "parse"
    BY <1>11 DEF GetParse
  <2>2. /\ reader'[p].at = "idle" /\ reader'[p].stat = 0
        /\ \A q \in Procs \ {p} : reader'[q] = reader[q]
    BY <1>11 DEF GetParse, TypeOK
  <2>3. /\ mem'[p].data = reader[p].data /\ mem'[p].raw = Empty /\ mem'[p].stat = reader[p].stat
        /\ \A q \in Procs \ {p} : mem'[q] = mem[q]
    BY <1>11 DEF GetParse, TypeOK
  <2>4. Stamps' /\ Reads'
    BY <1>f, <1>i, <2>1, <2>2, <2>3 DEF Stamps, Reads
  <2>6. Working'
    <3> SUFFICES ASSUME NEW d \in Calls, Alive(d)', (ProcOf[d] \notin broken)' PROVE WorkOK(d)'
      BY DEF Working
    <3>1. WorkOK(d)
      BY <1>i, <2>1 DEF Working, Alive
    <3> QED
      BY <1>p, <2>1, <2>3, <3>1 DEF WorkOK, Added, RawAgrees, Empty
  <2>7. Cached'
    <3> SUFFICES ASSUME NEW q \in up', (q \notin broken)', StatMatches(q)', Unwritten(q)'
                 PROVE  (mem[q].data = file.content)' /\ RawAgrees(q, file.content)'
      BY DEF Cached
    <3>1. CASE q = p
      <4>1. reader[p].stat = file.stamp
        BY <2>1, <2>3, <3>1 DEF StatMatches
      <4> QED
        BY <1>i, <2>1, <2>3, <3>1, <4>1 DEF Reads, RawAgrees, Empty
    <3>2. CASE q # p
      <4>1. q \in up /\ q \notin broken /\ StatMatches(q) /\ Unwritten(q) /\ mem'[q] = mem[q]
        BY <1>u, <2>1, <2>3, <3>2 DEF StatMatches, Unwritten
      <4> QED
        BY <1>i, <2>1, <4>1 DEF Cached, RawAgrees
    <3> QED
      BY <3>1, <3>2
  <2> QED
    BY <2>4, <2>6, <2>7 DEF CacheInv
<1>12. ASSUME NEW p \in Procs, Crash(p) PROVE CacheInv'
  <2>1. UNCHANGED <<file, mem, call, reader, broken>> /\ up' \subseteq up
    BY <1>12 DEF Crash
  <2>2. Stamps' /\ Reads'
    BY <1>i, <2>1 DEF Stamps, Reads
  <2>3. Working'
    BY <1>i, <2>1 DEF Working, WorkOK, RawAgrees, Added, Alive
  <2>4. Cached'
    BY <1>i, <2>1 DEF Cached, RawAgrees, StatMatches, Unwritten
  <2> QED
    BY <2>2, <2>3, <2>4 DEF CacheInv
<1>13. CASE Age \/ UNCHANGED vars
  <2>1. UNCHANGED <<file, mem, call, reader, up, broken>>
    BY <1>13 DEF Age, vars
  <2> QED
    BY <1>i, <2>1 DEF CacheInv, Stamps, Reads, Working, WorkOK, Cached, RawAgrees, Added, Alive,
                      StatMatches, Unwritten
<1> QED
  BY <1>1, <1>2, <1>3, <1>4, <1>5, <1>6, <1>7, <1>8, <1>9, <1>10, <1>11, <1>12, <1>13 DEF Next,
     CallStep

-----------------------------------------------------------------------------
(* The file *)

\* A step of a call that neither writes the file nor changes whether it has landed.
LEMMA StillStep ==
    ASSUME FileInv, NEW c \in Calls, file' = file,
           \A d \in Calls \ {c} : call'[d] = call[d],
           Undisturbed' => Undisturbed,
           Landed(c)' <=> Landed(c),
           ~call'[c].ok => call'[c].at \in {"release", "unlink", "failed"},
           call'[c].at = "failed" => ~call'[c].ok
    PROVE  FileInv'
<1>1. \A d \in Calls : Landed(d)' <=> Landed(d)
  BY DEF Landed
<1>2. Undisturbed' => \A d \in Calls : (d \in file.content[KeyOf[d]] <=> Landed(d))'
  BY <1>1 DEF FileInv
<1>3. \A d \in Calls : ~call'[d].ok => call'[d].at \in {"release", "unlink", "failed"}
  BY DEF FileInv
<1>4. \A d \in Calls : call'[d].at = "failed" => ~call'[d].ok
  BY DEF FileInv
<1> QED
  BY <1>2, <1>3, <1>4 DEF FileInv

\* A rename adds exactly the renaming call's update; a failed call renames nothing.
LEMMA FileStep == TypeOK /\ CacheInv /\ FileInv /\ [Next]_vars => FileInv'
<1> SUFFICES ASSUME TypeOK, CacheInv, FileInv, [Next]_vars PROVE FileInv'
  OBVIOUS
<1>c. \A c \in Calls : call[c] \in Call
  BY DEF TypeOK
<1>f. file.content \in Document
  BY DEF TypeOK
<1>k. \A c \in Calls : KeyOf[c] \in Keys /\ ProcOf[c] \in Procs
  BY FileStoreAssumption
<1>1. ASSUME NEW c \in Calls,
             \/ Begin(c) \/ OpenNew(c) \/ WriteToken(c) \/ OpenBusy(c) \/ Inspect(c) \/ Steal(c)
             \/ CheckStat(c) \/ ReadFromDisk(c) \/ Mutate(c)
      PROVE  FileInv'
  <2> DEFINE Early == {"idle", "open", "token", "inspect", "steal",
                       "locked", "read", "mutate", "rename"}
  <2>1. file' = file /\ (Undisturbed' => Undisturbed)
    <3>1. CASE Steal(c)
      BY <3>1 DEF Steal, Undisturbed
    <3>2. CASE ~Steal(c)
      <4>1. UNCHANGED <<file, raced, reused>>
        BY <1>1, <3>2 DEF Begin, OpenNew, WriteToken, OpenBusy, Inspect, CheckStat,
           ReadFromDisk, Mutate
      <4> QED
        BY <4>1 DEF Undisturbed
    <3> QED
      BY <3>1, <3>2
  <2>2. \A d \in Calls \ {c} : call'[d] = call[d]
    BY <1>1 DEF Begin, OpenNew, WriteToken, OpenBusy, Inspect, Steal, CheckStat, ReadFromDisk,
       Mutate,
                At, Goto, TypeOK
  <2>3. call[c].at \in Early
    BY <1>1 DEF Begin, OpenNew, WriteToken, OpenBusy, Inspect, Steal, CheckStat, ReadFromDisk,
       Mutate, At
  <2>4. call'[c].at \in Early /\ call'[c].ok = call[c].ok
    <3>1. CASE Begin(c) \/ OpenNew(c) \/ WriteToken(c) \/ OpenBusy(c) \/ Inspect(c) \/ Steal(c)
      BY <1>c, <3>1 DEF Begin, OpenNew, WriteToken, OpenBusy, Inspect, Steal, Goto, Call, TypeOK
    <3>2. CASE CheckStat(c)
      BY <1>c, <3>2 DEF CheckStat, Call, TypeOK
    <3>3. CASE ReadFromDisk(c)
      BY <1>c, <3>3 DEF ReadFromDisk, Call, TypeOK
    <3>4. CASE Mutate(c)
      BY <1>c, <3>4 DEF Mutate, Call, TypeOK
    <3> QED
      BY <1>1, <3>1, <3>2, <3>3, <3>4
  <2>5. call[c].ok
    BY <2>3 DEF FileInv
  <2> QED
    BY <2>1, <2>2, <2>3, <2>4, <2>5, StillStep DEF Landed
<1>2. ASSUME NEW c \in Calls, TimeOut(c) PROVE FileInv'
  <2>1. /\ UNCHANGED <<file, raced, reused>>
        /\ \A d \in Calls \ {c} : call'[d] = call[d]
        /\ call[c].at \in {"inspect", "steal"}
        /\ call'[c] = Finished(FALSE)
    BY <1>2 DEF TimeOut, At, TypeOK
  <2>2. call'[c].at = "failed" /\ ~call'[c].ok
    BY <2>1, FinishedFacts
  <2> QED
    BY <2>1, <2>2, StillStep DEF Landed, Undisturbed
<1>3. ASSUME NEW c \in Calls, ReleaseRead(c) \/ Unlink(c) PROVE FileInv'
  <2>1. /\ UNCHANGED <<file, raced, reused>>
        /\ \A d \in Calls \ {c} : call'[d] = call[d]
        /\ call[c].at \in {"release", "unlink"}
        /\ call'[c] \in {Finished(call[c].ok), [call[c] EXCEPT !.at = "unlink"]}
    BY <1>3 DEF ReleaseRead, Unlink, At, TypeOK
  <2>2. call[c].ok \in BOOLEAN
    BY <1>c DEF Call
  <2>3. /\ call'[c].ok = call[c].ok
        /\ call'[c].at \in {"unlink", IF call[c].ok THEN "done" ELSE "failed"}
    BY <1>c, <2>1, <2>2, FinishedFacts DEF Call
  <2>4. CASE call[c].ok
    <3>1. call'[c].ok /\ call'[c].at \in {"unlink", "done"}
      BY <2>3, <2>4
    <3> QED
      BY <2>1, <2>4, <3>1, StillStep DEF Landed, Undisturbed
  <2>5. CASE ~call[c].ok
    <3>1. ~call'[c].ok /\ call'[c].at \in {"unlink", "failed"}
      BY <2>3, <2>5
    <3> QED
      BY <2>1, <2>5, <3>1, StillStep DEF Landed, Undisturbed
  <2> QED
    BY <2>4, <2>5
<1>4. ASSUME NEW c \in Calls, WriteFails(c) PROVE FileInv'
  <2>1. /\ UNCHANGED <<file, raced, reused>>
        /\ \A d \in Calls \ {c} : call'[d] = call[d]
        /\ call[c].at = "rename"
        /\ call'[c] = [Finished(FALSE) EXCEPT !.at = "release"]
    BY <1>4 DEF WriteFails, At, TypeOK
  <2>2. call'[c].at = "release" /\ ~call'[c].ok
    BY <2>1, FinishedFacts DEF Call
  <2> QED
    BY <2>1, <2>2, StillStep DEF Landed, Undisturbed
<1>5. ASSUME NEW c \in Calls, Restat(c) PROVE FileInv'
  <2>1. /\ UNCHANGED <<file, raced, reused>>
        /\ \A d \in Calls \ {c} : call'[d] = call[d]
        /\ call[c].at = "restat"
    BY <1>5 DEF Restat, At, TypeOK
  <2>2. call'[c].at = "release" /\ call'[c].ok = call[c].ok
    BY <1>5, <1>c DEF Restat, Call, TypeOK
  <2>3. call[c].ok
    BY <2>1 DEF FileInv
  <2> QED
    BY <2>1, <2>2, <2>3, StillStep DEF Landed, Undisturbed
<1>6. ASSUME NEW c \in Calls, Rename(c) PROVE FileInv'
  <2>1. /\ \A d \in Calls \ {c} : call'[d] = call[d]
        /\ Alive(c) /\ call[c].at = "rename"
        /\ UNCHANGED raced /\ reused' = (reused \/ ProcOf[c] \in broken)
    BY <1>6 DEF Rename, Goto, At, TypeOK
  <2>2. call'[c].at = "restat" /\ call'[c].ok = call[c].ok
    BY <1>6, <1>c DEF Rename, Goto, Call, TypeOK
  <2>3. \A d \in Calls : ~call'[d].ok => call'[d].at \in {"release", "unlink", "failed"}
    BY <2>1, <2>2 DEF FileInv
  <2>4. \A d \in Calls : call'[d].at = "failed" => ~call'[d].ok
    BY <2>1, <2>2 DEF FileInv
  <2>5. ASSUME Undisturbed', NEW d \in Calls
        PROVE  (d \in file.content[KeyOf[d]] <=> Landed(d))'
    <3>1. Undisturbed /\ ProcOf[c] \notin broken
      BY <2>1, <2>5 DEF Undisturbed
    <3>2. file'.content = Added(c)
      BY <1>6, <2>1, <3>1 DEF Rename, CacheInv, Working, WorkOK, Undisturbed
    <3>3. CASE d = c
      BY <1>f, <1>k, <2>2, <3>2, <3>3 DEF Added, Landed, Document
    <3>4. CASE d # c
      <4>1. d \in Added(c)[KeyOf[d]] <=> d \in file.content[KeyOf[d]]
        BY <1>f, <1>k, <3>4 DEF Added, Document
      <4>2. Landed(d)' <=> Landed(d)
        BY <2>1, <3>4 DEF Landed
      <4> QED
        BY <3>1, <3>2, <4>1, <4>2 DEF FileInv
    <3> QED
      BY <3>3, <3>4
  <2> QED
    BY <2>3, <2>4, <2>5 DEF FileInv
<1>7. CASE UNCHANGED <<file, call, raced, reused>>
  BY <1>7 DEF FileInv, Landed, Undisturbed
<1>8. ASSUME NEW p \in Procs, GetStat(p) \/ GetRead(p) \/ GetParse(p) \/ Crash(p)
      PROVE  UNCHANGED <<file, call, raced, reused>>
  BY <1>8 DEF GetStat, GetRead, GetParse, Crash
<1>9. Age \/ UNCHANGED vars => UNCHANGED <<file, call, raced, reused>>
  BY DEF Age, vars
<1> QED
  BY <1>1, <1>2, <1>3, <1>4, <1>5, <1>6, <1>7, <1>8, <1>9 DEF Next, CallStep

-----------------------------------------------------------------------------
(* The theorems *)

\* Nothing is loaded, held or written at first.
LEMMA InitHolds == Init => IInv
<1> SUFFICES ASSUME Init PROVE IInv
  OBVIOUS
<1>1. TypeOK
  BY EmptyType, FileStoreAssumption DEF Init, TypeOK, Memory, Call, Reader, Points
<1>2. LockInv
  BY DEF Init, LockInv, Holding, Critical
<1>3. CacheInv
  <2>1. Stamps /\ Reads /\ Working
    BY DEF Init, Stamps, Reads, Working, WorkOK
  <2>2. Cached
    BY DEF Init, Cached, StatMatches
  <2> QED
    BY <2>1, <2>2 DEF CacheInv
<1>4. FileInv
  BY FileStoreAssumption DEF Init, FileInv, Landed, Empty
<1> QED
  BY <1>1, <1>2, <1>3, <1>4 DEF IInv

\* The inductive invariant: types, the lock, the caches and the file's content.
THEOREM FileStoreInvariant == Spec => []IInv
<1>1. IInv /\ [Next]_vars => IInv'
  BY TypeStep, LockStep, CacheStep, FileStep DEF IInv
<1> QED
  BY InitHolds, <1>1, PTL DEF Spec

\* The variables of the store keep their types.
THEOREM FileStoreTypeCorrect == Spec => []TypeOK
<1>1. IInv => TypeOK
  BY DEF IInv
<1> QED
  BY <1>1, FileStoreInvariant, PTL

\* withFileLock: two live calls are never inside its fn at once, however many
\* processes write and die, unless a steal has hit a live holder's lock unseen.
THEOREM FileStoreMutualExclusion == Spec => []MutualExclusion
<1>1. IInv => MutualExclusion
  BY Exclusion DEF IInv, MutualExclusion, Inside, Holding
<1> QED
  BY <1>1, FileStoreInvariant, PTL

\* withLock and persist: what update() has acknowledged is in the file.
THEOREM FileStoreNoLostUpdate == Spec => []NoLostUpdate
<1>1. IInv => NoLostUpdate
  BY DEF IInv, FileInv, NoLostUpdate, Landed
<1> QED
  BY <1>1, FileStoreInvariant, PTL

\* A call of update() that has thrown has not changed the file.
THEOREM FileStoreFailedStaysOut == Spec => []FailedStaysOut
<1>1. IInv => FailedStaysOut
  BY DEF IInv, FileInv, FailedStaysOut, Landed
<1> QED
  BY <1>1, FileStoreInvariant, PTL

\* currentStat: a process whose lastStat is the file's has the file in memory.
THEOREM FileStoreCacheCoherent == Spec => []CacheCoherent
<1>1. IInv => CacheCoherent
  BY DEF IInv, CacheInv, Cached, CacheCoherent, Unwritten, Inside, Critical
<1> QED
  BY <1>1, FileStoreInvariant, PTL
=============================================================================
