------------------------- MODULE GoalEventLogProofs -------------------------
(***************************************************************************)
(* Proofs about GoalEventLog for any number of subscriptions, processes    *)
(* and events, and for as many overlapping appenders as the window of the  *)
(* head has places.                                                        *)
(***************************************************************************)
EXTENDS GoalEventLog, FiniteSetTheorems, SequenceTheorems, WellFoundedInduction, TLAPS

\* A window of the head, as an append or a read may have it in its hands.
Windows == UNION {[Recent(n) -> Appenders] : n \in 0..MaxSeq}

AppendRecord == [phase : {"idle", "pre", "put"}, known : 0..MaxSeq, from : Windows,
                 todo : SUBSET Seqs, absent : BOOLEAN, seq : 0..MaxSeq]

SubRecord == [phase : {"off", "init", "on", "closed"}, base : 0..MaxSeq, lastSeq : 0..MaxSeq,
              early : SUBSET Seqs, draining : {"no", "base", "head", "list"}, again : BOOLEAN,
              seen : [seq : 0..MaxSeq, recent : Windows]]

HeadType ==
    /\ head.seq \in 0..MaxSeq
    /\ head = [seq |-> head.seq, recent |-> head.recent]
    /\ head.recent \in [Recent(head.seq) -> Appenders]

Types ==
    /\ HeadType
    /\ keys \in [Seqs -> Appenders \cup {NoAppender}]
    /\ job \in [Appenders -> AppendRecord]
    /\ sub \in [Subs -> SubRecord]
    /\ start \in [Subs -> 0..MaxSeq]
    /\ got \in [Subs -> [Seqs -> Nat]]

\* A key that is there holds the event of its number.
StoredInv == \A s \in Seqs : ~Missing(s) => s <= head.seq /\ keys[s] = Stream[s]

\* An append on its way to its allocation holds events of the stream, of which it has
\* gone through those it no longer has to do; one past it holds its own number.
AppendOK(j, p) ==
    /\ j.phase = "pre" =>
          /\ j.known <= head.seq /\ j.from \in [Recent(j.known) -> Appenders]
          /\ j.todo \subseteq Recent(j.known) /\ (j.absent => j.todo # {})
          /\ \A s \in Recent(j.known) : j.from[s] = Stream[s] /\ (s \notin j.todo => ~Missing(s))
    /\ j.phase = "put" => j.seq \in 1..head.seq /\ Stream[j.seq] = p
    /\ j.phase # "pre" => j.known = 0 /\ j.todo = {} /\ ~j.absent

AppendInv == \A p \in Appenders : AppendOK(job[p], p)

\* The appends that will not have materialised event s when they allocate.
Behind(s) == {p \in Appenders : job[p].phase = "pre" /\ job[p].known < s}

(***************************************************************************)
(* An event without a key is followed by few others: each of those was     *)
(* allocated by an append that had begun before the event was there, and   *)
(* which its appender cannot repeat.  The appender of the event itself is  *)
(* none of them.                                                           *)
(***************************************************************************)
WindowInv ==
    \A s \in 1..head.seq :
        Missing(s) => (head.seq - s) + Cardinality(Behind(s)) < Cardinality(Appenders)

\* What a read of the head has not shown has a key; who has no position has none yet.
SubOK(x) ==
    /\ x.phase \in {"off", "init"} => x.lastSeq = 0
    /\ x.seen.seq <= head.seq
    /\ \A s \in 1..x.seen.seq : s \notin DOMAIN x.seen.recent => ~Missing(s)

\* How often a subscription in state x that started after n has been given event s.
Owed(x, n, s) == IF s > n /\ s <= x.lastSeq /\ x.phase \in {"on", "closed"} THEN 1 ELSE 0

\* g, what it was given, is what it is owed: each event after n up to its position.
Given(x, n, g) ==
    /\ x.phase \in {"on", "closed"} => n <= x.lastSeq
    /\ \A s \in Seqs : g[s] = Owed(x, n, s)

SubInv == \A u \in Subs : SubOK(sub[u]) /\ Given(sub[u], start[u], got[u])

IInv == Types /\ StoredInv /\ AppendInv /\ WindowInv /\ SubInv

\* No more appends overlap than the window has places.
FewAppenders == Cardinality(Appenders) <= Window
-----------------------------------------------------------------------------
(* Numbers and windows *)

\* A non-empty set of natural numbers has a least one.
LEMMA LeastFacts ==
    ASSUME NEW T, T \subseteq Nat, T # {}
    PROVE  Least(T) \in T /\ \A y \in T : Least(T) <= y
<1> DEFINE R == OpToRel(<, Nat)
<1>1. IsWellFoundedOn(R, Nat)
  BY NatLessThanWellFounded, Zenon
<1>2. \E x \in T : \A y \in T : ~ (<<y, x>> \in R)
  <2> HIDE DEF R
  <2> QED
    BY <1>1, WFMin
<1>3. PICK x \in T : \A y \in T : ~ (<<y, x>> \in R)
  BY <1>2
<1>4. \A y \in T : ~ (y < x)
  BY <1>3 DEF OpToRel
<1>5. \A y \in T : x <= y
  BY <1>4
<1> QED
  BY <1>5 DEF Least

\* The window at n is made of numbers up to n, and empty at the start.
LEMMA RecentFacts ==
    /\ MaxSeq \in Nat /\ Window \in Nat \ {0}
    /\ \A n \in 0..MaxSeq : /\ Recent(n) \in SUBSET Seqs
                            /\ \A s \in Recent(n) : s \in 1..n /\ s > n - Window
    /\ Recent(0) = {}
<1>1. MaxSeq \in Nat /\ Window \in Nat \ {0}
  BY EventLogAssumption
<1> QED
  BY <1>1 DEF Recent, Seqs

\* The empty values have their types.
LEMMA EmptyTypes ==
    /\ NoEvents \in [Recent(0) -> Appenders] /\ NoEvents \in Windows
    /\ NoJob \in AppendRecord /\ NoSub \in SubRecord
<1>1. NoEvents \in [Recent(0) -> Appenders]
  BY RecentFacts DEF NoEvents
<1>2. 0 \in 0..MaxSeq
  BY RecentFacts
<1>3. NoEvents \in Windows
  BY <1>1, <1>2 DEF Windows
<1>4. NoJob \in AppendRecord
  BY <1>2, <1>3 DEF NoJob, AppendRecord
<1>5. [seq |-> 0, recent |-> NoEvents] \in [seq : 0..MaxSeq, recent : Windows]
  BY <1>2, <1>3
<1>6. NoSub \in SubRecord
  BY <1>2, <1>5 DEF NoSub, SubRecord
<1> QED
  BY <1>1, <1>3, <1>4, <1>6

\* The appends behind an event are finitely many.
LEMMA BehindFinite ==
    ASSUME NEW s
    PROVE  /\ IsFiniteSet(Behind(s)) /\ Cardinality(Behind(s)) \in Nat
           /\ Cardinality(Appenders) \in Nat
<1>1. Behind(s) \subseteq Appenders /\ IsFiniteSet(Appenders)
  BY EventLogAssumption DEF Behind
<1>2. IsFiniteSet(Behind(s))
  BY <1>1, FS_Subset
<1> QED
  BY <1>1, <1>2, FS_CardinalityType

\* With few appenders, an event outside the window has its key.
LEMMA OutsideWindow ==
    ASSUME FewAppenders, Types, WindowInv, NEW s \in 1..head.seq, s \notin Recent(head.seq)
    PROVE  ~Missing(s)
<1> SUFFICES ASSUME Missing(s) PROVE FALSE
  OBVIOUS
<1>1. (head.seq - s) + Cardinality(Behind(s)) < Cardinality(Appenders)
  BY DEF WindowInv
<1>2. /\ Cardinality(Behind(s)) \in Nat /\ Cardinality(Appenders) \in Nat
      /\ Cardinality(Appenders) <= Window
  BY BehindFinite DEF FewAppenders
<1>3. head.seq \in Nat /\ Window \in Nat
  BY RecentFacts DEF Types, HeadType
<1>4. s > head.seq - Window
  BY <1>1, <1>2, <1>3
<1> QED
  BY <1>4 DEF Recent

-----------------------------------------------------------------------------
(* Subscriptions *)

\* y is where x is in the stream.
Like(x, y) ==
    /\ y \in SubRecord
    /\ y.lastSeq = x.lastSeq
    /\ y.phase \in {"on", "closed"} <=> x.phase \in {"on", "closed"}
    /\ y.seen = x.seen \/ y.seen.seq = 0

LEMMA LikeKeeps ==
    ASSUME HeadType, NEW x \in SubRecord, NEW y, SubOK(x), Like(x, y)
    PROVE  /\ SubOK(y)
           /\ \A n, g : Given(x, n, g) => Given(y, n, g)
<1>1. y.phase \in {"off", "init"} => x.phase \in {"off", "init"}
  BY DEF Like, SubRecord
<1>2. y.seen.seq = 0 => y.seen.seq <= head.seq /\ 1..y.seen.seq = {}
  <2>1. head.seq \in Nat
    BY RecentFacts DEF HeadType
  <2> QED
    BY <2>1
<1>3. SubOK(y)
  BY <1>1, <1>2 DEF Like, SubOK
<1>4. \A n, s : Owed(y, n, s) = Owed(x, n, s)
  BY DEF Like, Owed
<1> QED
  BY <1>3, <1>4 DEF Like, Given

\* Draining, being notified and being closed move nobody in the stream.
LEMMA LikeFacts ==
    ASSUME NEW x \in SubRecord
    PROVE  /\ Like(x, Drained(x)) /\ Like(x, DrainedAgain(x))
           /\ \A s \in Seqs : Like(x, Notified(x, s))
           /\ SubOK(x) => Like(x, Closed(x))
<1>1. Like(x, x)
  BY DEF Like
<1>2. Like(x, Drained(x))
  <2>1. CASE x.phase # "on"
    BY <1>1, <2>1 DEF Drained
  <2>2. CASE x.phase = "on" /\ x.draining # "no"
    BY <2>2 DEF Drained, Like, SubRecord
  <2>3. CASE x.phase = "on" /\ x.draining = "no"
    BY <2>3 DEF Drained, Like, SubRecord
  <2> QED
    BY <2>1, <2>2, <2>3
<1>3. Like(x, DrainedAgain(x))
  <2> DEFINE d == IF x.again THEN "head" ELSE "no"
  <2>1. d \in {"no", "base", "head", "list"}
    OBVIOUS
  <2>2. DrainedAgain(x) = [x EXCEPT !.draining = d, !.again = FALSE]
    BY DEF DrainedAgain
  <2> HIDE DEF d
  <2> QED
    BY <2>1, <2>2 DEF Like, SubRecord
<1>4. ASSUME NEW s \in Seqs PROVE Like(x, Notified(x, s))
  <2>1. CASE x.phase = "init"
    <3>1. Notified(x, s) = [x EXCEPT !.early = @ \cup {s}]
      BY <2>1 DEF Notified
    <3> QED
      BY <3>1 DEF Like, SubRecord
  <2>2. CASE x.phase # "init"
    BY <1>1, <1>2, <2>2 DEF Notified
  <2> QED
    BY <2>1, <2>2
<1>5. ASSUME SubOK(x) PROVE Like(x, Closed(x))
  <2>1. CASE x.phase = "on"
    <3>1. Closed(x) = [NoSub EXCEPT !.phase = "closed", !.lastSeq = x.lastSeq]
      BY <2>1 DEF Closed
    <3>2. NoSub \in SubRecord /\ NoSub.seen.seq = 0
      BY EmptyTypes DEF NoSub
    <3> QED
      BY <2>1, <3>1, <3>2 DEF Like, SubRecord
  <2>2. CASE x.phase = "init"
    <3>1. Closed(x) = NoSub /\ x.lastSeq = 0
      BY <1>5, <2>2 DEF Closed, SubOK
    <3>2. NoSub \in SubRecord /\ NoSub.phase = "off" /\ NoSub.lastSeq = 0 /\ NoSub.seen.seq = 0
      BY EmptyTypes DEF NoSub
    <3> QED
      BY <2>2, <3>1, <3>2 DEF Like
  <2>3. CASE x.phase \notin {"on", "init"}
    BY <1>1, <2>3 DEF Closed
  <2> QED
    BY <2>1, <2>2, <2>3
<1> QED
  BY <1>2, <1>3, <1>4, <1>5

-----------------------------------------------------------------------------
(* Steps that leave the head alone *)

\* Keys may be written with the events the stream has.
KeysKept ==
    \A s \in Seqs : \/ keys'[s] = keys[s]
                    \/ s <= head.seq /\ keys'[s] = Stream[s]

LEMMA StreamKept ==
    ASSUME IInv, head' = head, keys' \in [Seqs -> Appenders \cup {NoAppender}], KeysKept
    PROVE  /\ Stream' = Stream /\ StoredInv'
           /\ \A s \in Seqs : ~Missing(s) => ~Missing(s)'
<1>1. head.seq \in 0..MaxSeq /\ DOMAIN head.recent = Recent(head.seq)
  BY DEF IInv, Types, HeadType
<1>2. 1..head.seq \subseteq Seqs
  BY <1>1, RecentFacts DEF Seqs
<1>3. \A s \in 1..head.seq : s \notin DOMAIN head.recent => Stream[s] = keys[s]
  BY DEF Stream
<1>4. \A s \in 1..head.seq : s \notin DOMAIN head.recent => keys'[s] = keys[s]
  BY <1>2, <1>3 DEF KeysKept
<1>5. Stream' = Stream
  BY <1>4 DEF Stream
<1>6. \A s \in Seqs : ~Missing(s) => keys'[s] = keys[s]
  BY DEF KeysKept, IInv, StoredInv
<1>7. \A s \in Seqs : ~Missing(s) => ~Missing(s)'
  BY <1>6 DEF Missing
<1>8. ASSUME NEW s \in Seqs, ~Missing(s)' PROVE s <= head.seq /\ keys'[s] = Stream[s]
  BY <1>8 DEF KeysKept, IInv, StoredInv, Missing
<1> QED
  BY <1>5, <1>7, <1>8 DEF StoredInv

\* What a step that leaves the head alone has to show of appends and subscriptions.
LEMMA SameHead ==
    ASSUME IInv, Types', head' = head, KeysKept,
           \A p \in Appenders : job'[p] = job[p] \/ AppendOK(job[p], p)',
           \A p \in Appenders : job'[p].phase = "pre" /\ job'[p].known < head.seq
                                  => job[p].phase = "pre" /\ job[p].known = job'[p].known,
           \A u \in Subs : \/ Like(sub[u], sub'[u]) /\ start'[u] = start[u] /\ got'[u] = got[u]
                           \/ SubOK(sub[u])' /\ Given(sub[u], start[u], got[u])'
    PROVE  IInv' /\ Stream' = Stream
<1>1. /\ Stream' = Stream /\ StoredInv'
      /\ \A s \in Seqs : ~Missing(s) => ~Missing(s)'
  BY StreamKept DEF Types
<1>2. head.seq \in 0..MaxSeq /\ 1..head.seq \subseteq Seqs
  BY RecentFacts DEF IInv, Types, HeadType, Seqs
<1>3. ASSUME NEW p \in Appenders PROVE AppendOK(job[p], p)'
  <2>1. CASE job'[p] = job[p]
    <3>1. AppendOK(job[p], p) /\ job[p] \in AppendRecord
      BY DEF IInv, AppendInv, Types
    <3>2. Recent(job[p].known) \subseteq Seqs
      BY <3>1, RecentFacts DEF AppendRecord
    <3> QED
      BY <1>1, <2>1, <3>1, <3>2 DEF AppendOK
  <2> QED
    BY <2>1
<1>4. ASSUME NEW s \in 1..head.seq, Missing(s)'
      PROVE  (head.seq - s) + Cardinality(Behind(s)') < Cardinality(Appenders)
  <2>1. Missing(s)
    BY <1>1, <1>2, <1>4
  <2>2. Behind(s)' \subseteq Behind(s)
    <3>1. \A p \in Appenders : job'[p].known \in Int
      BY RecentFacts DEF Types, AppendRecord
    <3>2. \A p \in Behind(s)' : job'[p].known < head.seq
      BY <1>2, <3>1 DEF Behind
    <3> QED
      BY <3>2 DEF Behind
  <2>3. Cardinality(Behind(s)') \in Nat /\ Cardinality(Behind(s)') <= Cardinality(Behind(s))
    <3>1. IsFiniteSet(Behind(s)')
      BY <2>2, BehindFinite, FS_Subset
    <3> QED
      BY <2>2, <3>1, BehindFinite, FS_Subset, FS_CardinalityType
  <2>4. (head.seq - s) + Cardinality(Behind(s)) < Cardinality(Appenders)
    BY <2>1 DEF IInv, WindowInv
  <2>5. head.seq - s \in Int
    BY <1>2
  <2> QED
    BY <2>3, <2>4, <2>5, BehindFinite
<1>5. WindowInv'
  BY <1>4 DEF WindowInv
<1>6. ASSUME NEW u \in Subs
      PROVE  SubOK(sub[u])' /\ Given(sub[u], start[u], got[u])'
  <2>1. CASE Like(sub[u], sub'[u]) /\ start'[u] = start[u] /\ got'[u] = got[u]
    <3>1. sub[u] \in SubRecord /\ SubOK(sub[u]) /\ sub'[u] \in SubRecord
      BY DEF IInv, Types, SubInv
    <3>2. /\ SubOK(sub'[u])
          /\ Given(sub[u], start[u], got[u]) => Given(sub'[u], start[u], got[u])
      BY <2>1, <3>1, LikeKeeps DEF IInv, Types
    <3>3. sub'[u].seen.seq \in 0..MaxSeq /\ sub'[u].seen.seq <= head.seq
      BY <3>1, <3>2 DEF SubRecord, SubOK
    <3>4. 1..sub'[u].seen.seq \subseteq Seqs
      BY <3>3, RecentFacts DEF Seqs
    <3>5. SubOK(sub[u])'
      BY <1>1, <3>2, <3>4 DEF SubOK
    <3>6. Given(sub'[u], start'[u], got'[u])
      BY <2>1, <3>2 DEF IInv, SubInv
    <3> QED
      BY <3>5, <3>6 DEF Given, Owed
  <2> QED
    BY <2>1
<1> QED
  BY <1>1, <1>3, <1>5, <1>6 DEF IInv, AppendInv, SubInv

\* The same for a step of one append; p may write the key of an event the stream has.
LEMMA AppendMove ==
    ASSUME IInv, NEW p \in Appenders, UNCHANGED <<head, start, got>>,
           keys' \in [Seqs -> Appenders \cup {NoAppender}], KeysKept,
           job' \in [Appenders -> AppendRecord], sub' \in [Subs -> SubRecord],
           \A r \in Appenders : r # p => job'[r] = job[r],
           AppendOK(job[p], p)',
           job'[p].phase = "pre" => \/ job[p].phase = "pre" /\ job[p].known = job'[p].known
                                    \/ job'[p].known = head.seq,
           \A u \in Subs : Like(sub[u], sub'[u])
    PROVE  IInv' /\ Stream' = Stream
<1>1. Types'
  BY DEF IInv, Types, HeadType
<1>2. \A r \in Appenders : job'[r] = job[r] \/ AppendOK(job[r], r)'
  OBVIOUS
<1>3. ASSUME NEW r \in Appenders, job'[r].phase = "pre", job'[r].known < head.seq
      PROVE  job[r].phase = "pre" /\ job[r].known = job'[r].known
  <2>1. CASE r = p
    <3>1. head.seq \in Int /\ ~(head.seq < head.seq)
      BY RecentFacts DEF IInv, Types, HeadType
    <3> QED
      BY <1>3, <2>1, <3>1
  <2> QED
    BY <1>3, <2>1
<1>4. \A u \in Subs : start'[u] = start[u] /\ got'[u] = got[u]
  OBVIOUS
<1> QED
  BY <1>1, <1>2, <1>3, <1>4, SameHead

\* ... and for a step of one subscription.
LEMMA SubMove ==
    ASSUME IInv, NEW u \in Subs, UNCHANGED <<head, keys, job>>, Types',
           \A w \in Subs : w # u => sub'[w] = sub[w] /\ start'[w] = start[w] /\ got'[w] = got[w],
           SubOK(sub[u])', Given(sub[u], start[u], got[u])'
    PROVE  IInv' /\ Stream' = Stream
<1>1. KeysKept
  BY DEF KeysKept
<1>2. \A w \in Subs : Like(sub[w], sub[w])
  BY DEF Like, IInv, Types
<1>3. \A w \in Subs : \/ Like(sub[w], sub'[w]) /\ start'[w] = start[w] /\ got'[w] = got[w]
                      \/ SubOK(sub[w])' /\ Given(sub[w], start[w], got[w])'
  <2> TAKE w \in Subs
  <2>1. CASE w = u
    BY <2>1
  <2> QED
    BY <1>2, <2>1
<1>4. /\ \A p \in Appenders : job'[p] = job[p] \/ AppendOK(job[p], p)'
      /\ \A p \in Appenders : job'[p].phase = "pre" /\ job'[p].known < head.seq
                                => job[p].phase = "pre" /\ job[p].known = job'[p].known
  OBVIOUS
<1> QED
  BY <1>1, <1>3, <1>4, SameHead

\* A subscription that does not move in the stream.
LEMMA SubStays ==
    ASSUME IInv, NEW u \in Subs, NEW y, Like(sub[u], y), UNCHANGED <<head, keys, job, start, got>>,
           sub' = [sub EXCEPT ![u] = y]
    PROVE  IInv' /\ Stream' = Stream
<1>1. /\ y \in SubRecord /\ sub \in [Subs -> SubRecord]
      /\ \A w \in Subs : Like(sub[w], sub[w])
  BY DEF Like, IInv, Types
<1>2. /\ sub' \in [Subs -> SubRecord] /\ \A w \in Subs : Like(sub[w], sub'[w])
  BY <1>1
<1>3. Types' /\ KeysKept
  BY <1>2 DEF IInv, Types, HeadType, KeysKept
<1>4. /\ \A p \in Appenders : job'[p] = job[p] \/ AppendOK(job[p], p)'
      /\ \A p \in Appenders : job'[p].phase = "pre" /\ job'[p].known < head.seq
                                => job[p].phase = "pre" /\ job[p].known = job'[p].known
      /\ \A w \in Subs : start'[w] = start[w] /\ got'[w] = got[w]
  OBVIOUS
<1> QED
  BY <1>2, <1>3, <1>4, SameHead

-----------------------------------------------------------------------------
(* Appends *)

\* The events of the head's window are the stream's; those before it have keys.
LEMMA HeadFacts ==
    ASSUME IInv
    PROVE  /\ head.seq \in 0..MaxSeq /\ DOMAIN head.recent = Recent(head.seq)
           /\ head.recent \in Windows
           /\ Recent(head.seq) \subseteq 1..head.seq
           /\ \A s \in Recent(head.seq) : head.recent[s] = Stream[s]
           /\ \A p \in Appenders : AppendOK(job[p], p) /\ job[p] \in AppendRecord
           /\ \A u \in Subs : sub[u] \in SubRecord /\ SubOK(sub[u]) /\ Like(sub[u], sub[u])
<1>1. head.seq \in 0..MaxSeq /\ head.recent \in [Recent(head.seq) -> Appenders]
  BY DEF IInv, Types, HeadType
<1>2. Recent(head.seq) \subseteq 1..head.seq
  BY <1>1 DEF Recent
<1>3. \A s \in Recent(head.seq) : head.recent[s] = Stream[s]
  BY <1>1, <1>2 DEF Stream
<1>4. head.recent \in Windows
  BY <1>1 DEF Windows
<1>5. \A u \in Subs : sub[u] \in SubRecord /\ SubOK(sub[u]) /\ Like(sub[u], sub[u])
  BY DEF IInv, Types, SubInv, Like
<1>6. \A p \in Appenders : AppendOK(job[p], p) /\ job[p] \in AppendRecord
  BY DEF IInv, Types, AppendInv
<1> QED
  BY <1>1, <1>2, <1>3, <1>4, <1>5, <1>6

LEMMA AppendStartKeeps ==
    ASSUME IInv, NEW p \in Appenders, AppendStart(p)
    PROVE  IInv' /\ Stream' = Stream
<1> DEFINE j == [NoJob EXCEPT !.phase = "pre", !.known = head.seq,
                              !.from = head.recent, !.todo = DOMAIN head.recent]
<1>1. /\ job' = [job EXCEPT ![p] = j] /\ UNCHANGED <<head, keys, sub, start, got>>
  BY DEF AppendStart
<1>2. /\ j.phase = "pre" /\ j.known = head.seq /\ j.from = head.recent
      /\ j.todo = DOMAIN head.recent /\ ~j.absent
  BY DEF NoJob
<1>3. Recent(head.seq) \in SUBSET Seqs /\ 0 \in 0..MaxSeq
  BY HeadFacts, RecentFacts
<1>4. j \in AppendRecord
  BY <1>3, HeadFacts, EmptyTypes DEF AppendRecord
<1> HIDE DEF j
<1>5. KeysKept /\ Stream' = Stream
  BY <1>1 DEF KeysKept, Stream
<1>9. /\ job' \in [Appenders -> AppendRecord] /\ job'[p] = j
      /\ \A r \in Appenders : r # p => job'[r] = job[r]
  BY <1>1, <1>4 DEF IInv, Types
<1>6. AppendOK(job[p], p)'
  <2>1. /\ head.recent \in [Recent(head.seq) -> Appenders] /\ head.seq <= head.seq
        /\ head' = head
    BY <1>1, HeadFacts DEF IInv, Types, HeadType
  <2> QED
    BY <1>2, <1>5, <1>9, <2>1, HeadFacts DEF AppendOK
<1>7. /\ keys' \in [Seqs -> Appenders \cup {NoAppender}] /\ sub' \in [Subs -> SubRecord]
      /\ \A u \in Subs : Like(sub[u], sub'[u])
  BY <1>1, HeadFacts DEF IInv, Types
<1>8. j.known = head.seq
  BY <1>2
<1> QED
  BY <1>1, <1>5, <1>6, <1>7, <1>8, <1>9, AppendMove

\* The event an append materialises next is one of the window it read.
LEMMA NextTodo ==
    ASSUME IInv, NEW p \in Appenders, job[p].phase = "pre", job[p].todo # {}
    PROVE  /\ Least(job[p].todo) \in job[p].todo
           /\ Least(job[p].todo) \in Recent(job[p].known)
           /\ Least(job[p].todo) \in Seqs /\ Least(job[p].todo) \in 1..head.seq
           /\ job[p].from[Least(job[p].todo)] = Stream[Least(job[p].todo)]
           /\ job[p].from[Least(job[p].todo)] \in Appenders
<1>1. AppendOK(job[p], p) /\ job[p] \in AppendRecord /\ head.seq \in 0..MaxSeq
  BY HeadFacts
<1>2. job[p].todo \subseteq Nat
  BY <1>1, RecentFacts DEF AppendRecord, Seqs
<1>3. Least(job[p].todo) \in job[p].todo
  BY <1>2, LeastFacts
<1> DEFINE s == Least(job[p].todo)
<1> HIDE DEF s
<1>4. s \in job[p].todo
  BY <1>3 DEF s
<1>5. s \in Recent(job[p].known) /\ s \in Seqs /\ job[p].known \in 0..head.seq
  BY <1>1, <1>4 DEF AppendOK, AppendRecord
<1>6. s \in 1..head.seq
  BY <1>1, <1>5, RecentFacts
<1>7. job[p].from[s] = Stream[s] /\ job[p].from[s] \in Appenders
  BY <1>1, <1>5 DEF AppendOK
<1> QED
  BY <1>4, <1>5, <1>6, <1>7 DEF s

LEMMA MaterialiseGetKeeps ==
    ASSUME IInv, NEW p \in Appenders, MaterialiseGet(p)
    PROVE  IInv' /\ Stream' = Stream
<1> DEFINE s == Least(job[p].todo)
<1>1. /\ job[p].phase = "pre" /\ job[p].todo # {}
      /\ UNCHANGED <<head, keys, sub, start, got>>
      /\ Missing(s) => job' = [job EXCEPT ![p].absent = TRUE]
      /\ ~Missing(s) => job' = [job EXCEPT ![p].todo = @ \ {s}]
  BY DEF MaterialiseGet
<1> HIDE DEF s
<1>2. AppendOK(job[p], p) /\ job[p] \in AppendRecord
  BY HeadFacts
<1>3. KeysKept /\ Stream' = Stream
  BY <1>1 DEF KeysKept, Stream
<1>4. /\ keys' \in [Seqs -> Appenders \cup {NoAppender}] /\ sub' \in [Subs -> SubRecord]
      /\ \A u \in Subs : Like(sub[u], sub'[u])
  BY <1>1, HeadFacts DEF IInv, Types
<1>5. CASE Missing(s)
  <2> DEFINE j == [job[p] EXCEPT !.absent = TRUE]
  <2>1. job' = [job EXCEPT ![p] = j]
    BY <1>1, <1>5
  <2>2. j \in AppendRecord
    BY <1>2 DEF AppendRecord
  <2>3. /\ j.phase = "pre" /\ j.known = job[p].known /\ j.from = job[p].from
        /\ j.todo = job[p].todo
    BY <1>1, <1>2 DEF AppendRecord
  <2> HIDE DEF j
  <2>5. /\ job' \in [Appenders -> AppendRecord] /\ job'[p] = j
        /\ \A r \in Appenders : r # p => job'[r] = job[r]
    BY <2>1, <2>2 DEF IInv, Types
  <2>4. AppendOK(job[p], p)'
    BY <1>1, <1>2, <1>3, <2>3, <2>5 DEF AppendOK, Missing
  <2> QED
    BY <1>1, <1>3, <1>4, <2>3, <2>4, <2>5, AppendMove
<1>6. CASE ~Missing(s)
  <2> DEFINE j == [job[p] EXCEPT !.todo = @ \ {s}]
  <2>1. job' = [job EXCEPT ![p] = j]
    BY <1>1, <1>6
  <2>2. j \in AppendRecord
    BY <1>2 DEF AppendRecord
  <2>3. /\ j.phase = "pre" /\ j.known = job[p].known /\ j.from = job[p].from
        /\ j.todo = job[p].todo \ {s} /\ j.absent = job[p].absent
    BY <1>1, <1>2 DEF AppendRecord
  <2>0. ~job[p].absent
    BY DEF MaterialiseGet
  <2> HIDE DEF j
  <2>5. /\ job' \in [Appenders -> AppendRecord] /\ job'[p] = j
        /\ \A r \in Appenders : r # p => job'[r] = job[r]
    BY <2>1, <2>2 DEF IInv, Types
  <2>4. AppendOK(job[p], p)'
    BY <1>1, <1>2, <1>3, <1>6, <2>0, <2>3, <2>5 DEF AppendOK, Missing
  <2> QED
    BY <1>1, <1>3, <1>4, <2>3, <2>4, <2>5, AppendMove
<1> QED
  BY <1>5, <1>6

LEMMA MaterialisePutKeeps ==
    ASSUME IInv, NEW p \in Appenders, MaterialisePut(p)
    PROVE  IInv' /\ Stream' = Stream
<1> DEFINE s == Least(job[p].todo)
           j == [job[p] EXCEPT !.todo = @ \ {s}, !.absent = FALSE]
<1>1. /\ job[p].phase = "pre" /\ job[p].absent /\ UNCHANGED <<head, sub, start, got>>
      /\ keys' = [keys EXCEPT ![s] = job[p].from[s]]
      /\ job' = [job EXCEPT ![p].todo = @ \ {s}, ![p].absent = FALSE]
  BY DEF MaterialisePut
<1>2. AppendOK(job[p], p) /\ job[p] \in AppendRecord
  BY HeadFacts
<1>3. job[p].todo # {}
  BY <1>1, <1>2 DEF AppendOK
<1>4. /\ s \in Seqs /\ s \in 1..head.seq /\ job[p].from[s] = Stream[s] /\ job[p].from[s] \in Appenders
      /\ s \in Recent(job[p].known)
  BY <1>1, <1>3, NextTodo
<1> HIDE DEF s
<1>5. job' = [job EXCEPT ![p] = j]
  BY <1>1, <1>2 DEF IInv, Types
<1>6. j \in AppendRecord
  BY <1>2 DEF AppendRecord
<1>7. /\ j.phase = "pre" /\ j.known = job[p].known /\ j.from = job[p].from
      /\ j.todo = job[p].todo \ {s} /\ ~j.absent
  BY <1>1, <1>2 DEF AppendRecord
<1> HIDE DEF j
<1>8. /\ keys \in [Seqs -> Appenders \cup {NoAppender}]
      /\ keys' \in [Seqs -> Appenders \cup {NoAppender}]
  BY <1>1, <1>4 DEF IInv, Types
<1>9. /\ sub' \in [Subs -> SubRecord] /\ \A u \in Subs : Like(sub[u], sub'[u])
  BY <1>1, HeadFacts DEF IInv, Types
<1>10. KeysKept
  <2>1. s <= head.seq
    BY <1>4, HeadFacts
  <2> QED
    BY <1>1, <1>4, <1>8, <2>1 DEF KeysKept
<1>11. Stream' = Stream /\ \A r \in Seqs : ~Missing(r) => ~Missing(r)'
  BY <1>1, <1>8, <1>10, StreamKept
<1>12. keys'[s] # NoAppender
  BY <1>1, <1>4, <1>8, EventLogAssumption
<1>13. Recent(job[p].known) \subseteq Seqs
  BY <1>2, RecentFacts DEF AppendRecord
<1>15. /\ job' \in [Appenders -> AppendRecord] /\ job'[p] = j
       /\ \A r \in Appenders : r # p => job'[r] = job[r]
  BY <1>5, <1>6 DEF IInv, Types
<1>14. AppendOK(job[p], p)'
  BY <1>1, <1>2, <1>7, <1>11, <1>12, <1>13, <1>15 DEF AppendOK, Missing
<1> QED
  BY <1>1, <1>7, <1>8, <1>9, <1>10, <1>14, <1>15, AppendMove

\* An append that is not under way asks for nothing.
LEMMA NoJobOK ==
    ASSUME NEW p
    PROVE  NoJob \in AppendRecord /\ NoJob.phase = "idle" /\ AppendOK(NoJob, p) /\ AppendOK(NoJob, p)'
<1>1. NoJob.phase = "idle" /\ NoJob.known = 0 /\ NoJob.todo = {} /\ ~NoJob.absent
  BY DEF NoJob
<1> QED
  BY <1>1, EmptyTypes DEF AppendOK

LEMMA AppendFailsKeeps ==
    ASSUME IInv, NEW p \in Appenders, AppendFails(p)
    PROVE  IInv' /\ Stream' = Stream
<1>1. job' = [job EXCEPT ![p] = NoJob] /\ UNCHANGED <<head, keys, sub, start, got>>
  BY DEF AppendFails
<1>2. /\ keys' \in [Seqs -> Appenders \cup {NoAppender}] /\ sub' \in [Subs -> SubRecord]
      /\ \A u \in Subs : Like(sub[u], sub'[u])
  BY <1>1, HeadFacts DEF IInv, Types
<1>3. KeysKept
  BY <1>1 DEF KeysKept
<1>4. /\ job' \in [Appenders -> AppendRecord] /\ job'[p] = NoJob
      /\ \A r \in Appenders : r # p => job'[r] = job[r]
  BY <1>1, EmptyTypes DEF IInv, Types
<1>5. AppendOK(job[p], p)' /\ job'[p].phase # "pre"
  <2>1. AppendOK(NoJob, p)' /\ NoJob.phase = "idle"
    BY NoJobOK
  <2> QED
    BY <1>4, <2>1
<1> QED
  BY <1>1, <1>2, <1>3, <1>4, <1>5, AppendMove

LEMMA PutEventKeeps ==
    ASSUME IInv, NEW p \in Appenders, NEW written \in BOOLEAN, PutEvent(p, written)
    PROVE  IInv' /\ Stream' = Stream
<1> DEFINE s == job[p].seq
<1>1. /\ job[p].phase = "put" /\ job' = [job EXCEPT ![p] = NoJob] /\ UNCHANGED <<head, start, got>>
      /\ keys' = IF written THEN [keys EXCEPT ![s] = p] ELSE keys
      /\ sub' = [u \in Subs |-> IF ProcOf[u] = ProcOf[p] THEN Notified(sub[u], s) ELSE sub[u]]
  BY DEF PutEvent
<1>2. /\ s \in 1..head.seq /\ Stream[s] = p /\ head.seq \in 0..MaxSeq
  BY <1>1, HeadFacts DEF AppendOK
<1> HIDE DEF s
<1>3. s \in Seqs /\ s <= head.seq
  BY <1>2, RecentFacts DEF Seqs
<1>4. keys \in [Seqs -> Appenders \cup {NoAppender}]
  BY DEF IInv, Types
<1>5. keys' \in [Seqs -> Appenders \cup {NoAppender}] /\ KeysKept
  BY <1>1, <1>2, <1>3, <1>4 DEF KeysKept
<1>6. \A u \in Subs : Like(sub[u], sub'[u])
  <2> TAKE u \in Subs
  <2>1. sub[u] \in SubRecord /\ Like(sub[u], sub[u])
    BY HeadFacts
  <2>2. Like(sub[u], Notified(sub[u], s))
    BY <1>3, <2>1, LikeFacts
  <2> QED
    BY <1>1, <2>1, <2>2
<1>7. sub' \in [Subs -> SubRecord]
  BY <1>1, <1>6 DEF Like
<1>8. /\ job' \in [Appenders -> AppendRecord] /\ job'[p] = NoJob
      /\ \A r \in Appenders : r # p => job'[r] = job[r]
  BY <1>1, EmptyTypes DEF IInv, Types
<1>9. AppendOK(job[p], p)' /\ job'[p].phase # "pre"
  <2>1. AppendOK(NoJob, p)' /\ NoJob.phase = "idle"
    BY NoJobOK
  <2> QED
    BY <1>8, <2>1
<1> QED
  BY <1>1, <1>5, <1>6, <1>7, <1>8, <1>9, AppendMove

LEMMA CrashKeeps ==
    ASSUME IInv, NEW q \in Procs, Crash(q)
    PROVE  IInv' /\ Stream' = Stream
<1>1. /\ job' = [p \in Appenders |-> IF ProcOf[p] = q THEN NoJob ELSE job[p]]
      /\ sub' = [u \in Subs |-> IF ProcOf[u] = q THEN Closed(sub[u]) ELSE sub[u]]
      /\ UNCHANGED <<head, keys, start, got>>
  BY DEF Crash
<1>2. \A u \in Subs : Like(sub[u], sub'[u])
  <2> TAKE u \in Subs
  <2>1. sub[u] \in SubRecord /\ Like(sub[u], sub[u]) /\ SubOK(sub[u])
    BY HeadFacts
  <2>2. Like(sub[u], Closed(sub[u]))
    BY <2>1, LikeFacts
  <2> QED
    BY <1>1, <2>1, <2>2
<1>3. \A p \in Appenders : job'[p] = job[p] \/ job'[p] = NoJob
  BY <1>1
<1>4. job' \in [Appenders -> AppendRecord] /\ sub' \in [Subs -> SubRecord]
  <2>1. \A p \in Appenders : job'[p] \in AppendRecord
    BY <1>3, HeadFacts, EmptyTypes
  <2> QED
    BY <1>1, <1>2, <2>1 DEF Like
<1>5. Types' /\ KeysKept
  BY <1>1, <1>4 DEF IInv, Types, HeadType, KeysKept
<1>6. \A p \in Appenders : job'[p] = job[p] \/ AppendOK(job[p], p)'
  <2> TAKE p \in Appenders
  <2>1. AppendOK(NoJob, p)'
    BY NoJobOK
  <2> QED
    BY <1>3, <2>1
<1>7. \A p \in Appenders : job'[p].phase = "pre" /\ job'[p].known < head.seq
                             => job[p].phase = "pre" /\ job[p].known = job'[p].known
  BY <1>3, NoJobOK
<1> QED
  BY <1>1, <1>2, <1>5, <1>6, <1>7, SameHead

-----------------------------------------------------------------------------
(* Subscriptions *)

\* A subscription gets its position.
LEMMA SubBegins ==
    ASSUME IInv, NEW u \in Subs, sub[u].phase \in {"off", "init"},
           NEW z \in SubRecord, z.phase = "on", SubOK(z), UNCHANGED <<head, keys, job, got>>,
           sub' = [sub EXCEPT ![u] = Drained(z)], start' = [start EXCEPT ![u] = z.lastSeq]
    PROVE  IInv' /\ Stream' = Stream
<1>1. /\ sub \in [Subs -> SubRecord] /\ start \in [Subs -> 0..MaxSeq]
      /\ got \in [Subs -> [Seqs -> Nat]] /\ HeadType
  BY DEF IInv, Types
<1>2. Drained(z) \in SubRecord /\ Like(z, Drained(z))
  BY LikeFacts DEF Like
<1>3. z.lastSeq \in 0..MaxSeq
  BY DEF SubRecord
<1>4. /\ sub'[u] = Drained(z) /\ start'[u] = z.lastSeq /\ got'[u] = got[u]
      /\ \A w \in Subs : w # u => sub'[w] = sub[w] /\ start'[w] = start[w] /\ got'[w] = got[w]
  BY <1>1
<1>5. Types'
  <2>1. sub' \in [Subs -> SubRecord] /\ start' \in [Subs -> 0..MaxSeq]
    BY <1>1, <1>2, <1>3
  <2> QED
    BY <2>1 DEF IInv, Types, HeadType
<1>6. Given(z, z.lastSeq, got[u])
  <2>1. \A s \in Seqs : got[u][s] = 0
    BY DEF IInv, SubInv, Given, Owed
  <2>2. \A s \in Seqs : Owed(z, z.lastSeq, s) = 0
    BY <1>3, RecentFacts DEF Owed, Seqs
  <2> QED
    BY <1>3, <2>1, <2>2, RecentFacts DEF Given
<1>7. SubOK(Drained(z)) /\ Given(Drained(z), z.lastSeq, got[u])
  BY <1>1, <1>2, <1>6, LikeKeeps
<1>8. SubOK(sub[u])' /\ Given(sub[u], start[u], got[u])'
  BY <1>4, <1>7 DEF SubOK, Missing, Given, Owed
<1> QED
  BY <1>4, <1>5, <1>8, SubMove

\* A subscription that begins has read no head.
LEMMA FreshSub ==
    ASSUME HeadType, NEW n \in 0..MaxSeq
    PROVE  /\ [NoSub EXCEPT !.phase = "on", !.lastSeq = n] \in SubRecord
           /\ [NoSub EXCEPT !.phase = "on", !.lastSeq = n].phase = "on"
           /\ [NoSub EXCEPT !.phase = "on", !.lastSeq = n].lastSeq = n
           /\ [NoSub EXCEPT !.phase = "on", !.lastSeq = n].seen.seq = 0
           /\ SubOK([NoSub EXCEPT !.phase = "on", !.lastSeq = n])
<1> DEFINE z == [NoSub EXCEPT !.phase = "on", !.lastSeq = n]
<1>1. z \in SubRecord
  BY EmptyTypes DEF SubRecord
<1>2. z.phase = "on" /\ z.lastSeq = n /\ z.seen.seq = 0
  BY DEF NoSub
<1> HIDE DEF z
<1>3. head.seq \in Nat /\ 1..0 = {}
  BY RecentFacts DEF HeadType
<1>4. SubOK(z)
  BY <1>2, <1>3 DEF SubOK
<1> QED
  BY <1>1, <1>2, <1>4 DEF z

LEMMA SubscribeFromKeeps ==
    ASSUME IInv, NEW u \in Subs, NEW after \in 0..head.seq, SubscribeFrom(u, after)
    PROVE  IInv' /\ Stream' = Stream
<1> DEFINE z == [NoSub EXCEPT !.phase = "on", !.lastSeq = after]
<1>1. HeadType /\ after \in 0..MaxSeq
  BY RecentFacts DEF IInv, Types, HeadType
<1>2. z \in SubRecord /\ z.phase = "on" /\ SubOK(z) /\ z.lastSeq = after
  BY <1>1, FreshSub
<1>3. /\ sub[u].phase \in {"off", "init"} /\ UNCHANGED <<head, keys, job, got>>
      /\ sub' = [sub EXCEPT ![u] = Drained(z)] /\ start' = [start EXCEPT ![u] = after]
  BY DEF SubscribeFrom
<1> HIDE DEF z
<1> QED
  BY <1>2, <1>3, SubBegins

LEMMA ResumeKeeps ==
    ASSUME IInv, NEW u \in Subs, Resume(u)
    PROVE  IInv' /\ Stream' = Stream
<1> DEFINE z == [NoSub EXCEPT !.phase = "on", !.lastSeq = sub[u].lastSeq]
<1>1. /\ HeadType /\ sub[u].lastSeq \in 0..MaxSeq
  BY HeadFacts DEF IInv, Types, SubRecord
<1>2. z \in SubRecord /\ z.phase = "on" /\ z.lastSeq = sub[u].lastSeq /\ z.seen.seq = 0
  BY <1>1, FreshSub
<1>3. /\ sub[u].phase = "closed" /\ UNCHANGED <<head, keys, job, start, got>>
      /\ sub' = [sub EXCEPT ![u] = Drained(z)]
  BY DEF Resume
<1> HIDE DEF z
<1>4. Like(z, Drained(z))
  BY <1>2, LikeFacts
<1>5. Like(sub[u], Drained(z))
  BY <1>2, <1>3, <1>4 DEF Like
<1> QED
  BY <1>3, <1>5, SubStays

LEMMA SubscribeKeeps ==
    ASSUME IInv, NEW u \in Subs, Subscribe(u)
    PROVE  IInv' /\ Stream' = Stream
<1> DEFINE y == [NoSub EXCEPT !.phase = "init", !.draining = "base"]
<1>1. /\ sub[u].phase = "off" /\ UNCHANGED <<head, keys, job, start, got>>
      /\ sub' = [sub EXCEPT ![u] = y]
  BY DEF Subscribe
<1>2. y \in SubRecord
  BY EmptyTypes DEF SubRecord
<1>3. y.phase = "init" /\ y.lastSeq = 0 /\ y.seen.seq = 0
  BY DEF NoSub
<1> HIDE DEF y
<1>4. sub[u].lastSeq = 0
  BY <1>1, HeadFacts DEF SubOK
<1>5. Like(sub[u], y)
  BY <1>1, <1>2, <1>3, <1>4 DEF Like
<1> QED
  BY <1>1, <1>5, SubStays

LEMMA SubscribeReadKeeps ==
    ASSUME IInv, NEW u \in Subs, SubscribeRead(u)
    PROVE  IInv' /\ Stream' = Stream
<1> DEFINE y == [sub[u] EXCEPT !.base = head.seq, !.draining = "no"]
<1>1. sub[u] \in SubRecord /\ head.seq \in 0..MaxSeq /\ sub \in [Subs -> SubRecord]
  BY HeadFacts DEF IInv, Types
<1>2. UNCHANGED <<head, keys, job, start, got>> /\ sub' = [sub EXCEPT ![u] = y]
  BY <1>1 DEF SubscribeRead
<1>3. Like(sub[u], y)
  BY <1>1 DEF Like, SubRecord
<1> HIDE DEF y
<1> QED
  BY <1>2, <1>3, SubStays

LEMMA SubscribeReadyKeeps ==
    ASSUME IInv, NEW u \in Subs, SubscribeReady(u)
    PROVE  IInv' /\ Stream' = Stream
<1> DEFINE z == [sub[u] EXCEPT !.phase = "on", !.lastSeq = Earliest(sub[u])]
<1>1. sub[u] \in SubRecord /\ sub \in [Subs -> SubRecord] /\ SubOK(sub[u])
  BY HeadFacts DEF IInv, Types
<1>2. /\ sub[u].phase = "init" /\ UNCHANGED <<head, keys, job, got>>
      /\ sub' = [sub EXCEPT ![u] = Drained(z)] /\ start' = [start EXCEPT ![u] = Earliest(sub[u])]
  BY <1>1 DEF SubscribeReady
<1>3. Earliest(sub[u]) \in 0..MaxSeq
  <2>1. sub[u].early \subseteq Seqs /\ sub[u].base \in 0..MaxSeq
    BY <1>1 DEF SubRecord
  <2>2. sub[u].early \subseteq Nat
    BY <2>1, RecentFacts DEF Seqs
  <2>3. sub[u].early # {} => Least(sub[u].early) \in Seqs
    BY <2>1, <2>2, LeastFacts
  <2> QED
    BY <2>1, <2>3, RecentFacts DEF Earliest, Seqs
<1>4. z \in SubRecord
  BY <1>1, <1>3 DEF SubRecord
<1>5. z.phase = "on" /\ z.lastSeq = Earliest(sub[u]) /\ z.seen = sub[u].seen
  BY <1>1 DEF SubRecord
<1> HIDE DEF z
<1>6. SubOK(z)
  BY <1>1, <1>5 DEF SubOK
<1> QED
  BY <1>2, <1>4, <1>5, <1>6, SubBegins

LEMMA SubscribeFailsKeeps ==
    ASSUME IInv, NEW u \in Subs, SubscribeFails(u)
    PROVE  IInv' /\ Stream' = Stream
<1> DEFINE z == [sub[u] EXCEPT !.phase = "on", !.draining = "no"]
<1>1. sub[u] \in SubRecord /\ sub \in [Subs -> SubRecord] /\ SubOK(sub[u])
  BY HeadFacts DEF IInv, Types
<1>2. /\ sub[u].phase = "init" /\ UNCHANGED <<head, keys, job, got>>
      /\ sub' = [sub EXCEPT ![u] = Drained(z)] /\ start' = [start EXCEPT ![u] = 0]
  BY <1>1 DEF SubscribeFails
<1>3. z \in SubRecord
  BY <1>1 DEF SubRecord
<1>4. z.phase = "on" /\ z.lastSeq = 0 /\ z.seen = sub[u].seen
  BY <1>1, <1>2 DEF SubRecord, SubOK
<1> HIDE DEF z
<1>5. SubOK(z)
  BY <1>1, <1>4 DEF SubOK
<1> QED
  BY <1>2, <1>3, <1>4, <1>5, SubBegins

LEMMA SmallSubKeeps ==
    ASSUME IInv, NEW u \in Subs, Poll(u) \/ ReadFails(u) \/ Unsubscribe(u)
    PROVE  IInv' /\ Stream' = Stream
<1>1. sub[u] \in SubRecord /\ sub \in [Subs -> SubRecord] /\ SubOK(sub[u])
  BY HeadFacts DEF IInv, Types
<1>2. CASE Poll(u)
  <2>1. UNCHANGED <<head, keys, job, start, got>> /\ sub' = [sub EXCEPT ![u] = Drained(sub[u])]
    BY <1>1, <1>2 DEF Poll
  <2> QED
    BY <1>1, <2>1, LikeFacts, SubStays
<1>3. CASE ReadFails(u)
  <2> DEFINE y == [sub[u] EXCEPT !.draining = "no"]
  <2>1. UNCHANGED <<head, keys, job, start, got>> /\ sub' = [sub EXCEPT ![u] = y]
    BY <1>1, <1>3 DEF ReadFails
  <2>2. Like(sub[u], y)
    BY <1>1 DEF Like, SubRecord
  <2> HIDE DEF y
  <2> QED
    BY <2>1, <2>2, SubStays
<1>4. CASE Unsubscribe(u)
  <2>1. UNCHANGED <<head, keys, job, start, got>> /\ sub' = [sub EXCEPT ![u] = Closed(sub[u])]
    BY <1>1, <1>4 DEF Unsubscribe
  <2> QED
    BY <1>1, <2>1, LikeFacts, SubStays
<1> QED
  BY <1>2, <1>3, <1>4

\* The head a read holds covers the events without a key: there are few appenders.
LEMMA ReadHeadKeeps ==
    ASSUME FewAppenders, IInv, NEW u \in Subs, ReadHead(u)
    PROVE  IInv' /\ Stream' = Stream
<1> DEFINE y == [sub[u] EXCEPT !.seen = head, !.draining = "list"]
<1>1. sub[u] \in SubRecord /\ sub \in [Subs -> SubRecord] /\ SubOK(sub[u])
  BY HeadFacts DEF IInv, Types
<1>2. UNCHANGED <<head, keys, job, start, got>> /\ sub' = [sub EXCEPT ![u] = y]
  BY <1>1 DEF ReadHead
<1>3. head \in [seq : 0..MaxSeq, recent : Windows]
  BY HeadFacts DEF IInv, Types, HeadType
<1>4. y \in SubRecord
  BY <1>1, <1>3 DEF SubRecord
<1>5. y.phase = sub[u].phase /\ y.lastSeq = sub[u].lastSeq /\ y.seen = head
  BY <1>1 DEF SubRecord
<1> HIDE DEF y
<1>6. /\ sub'[u] = y /\ start'[u] = start[u] /\ got'[u] = got[u]
      /\ \A w \in Subs : w # u => sub'[w] = sub[w] /\ start'[w] = start[w] /\ got'[w] = got[w]
  BY <1>1, <1>2
<1>7. Types'
  <2>1. sub' \in [Subs -> SubRecord]
    BY <1>1, <1>2, <1>4
  <2> QED
    BY <1>2, <2>1 DEF IInv, Types, HeadType
<1>8. SubOK(sub[u])'
  <2>1. \A s \in 1..head.seq : s \notin DOMAIN head.recent => ~Missing(s)
    BY HeadFacts, OutsideWindow DEF IInv
  <2>2. head.seq <= head.seq
    BY HeadFacts
  <2> QED
    BY <1>1, <1>2, <1>5, <1>6, <2>1, <2>2 DEF SubOK, Missing
<1>9. Given(sub[u], start[u], got[u])'
  BY <1>5, <1>6 DEF IInv, SubInv, Given, Owed
<1> QED
  BY <1>2, <1>6, <1>7, <1>8, <1>9, SubMove

\* A page of everything after a up to b is what follows a, without a gap.
LEMMA PageFacts ==
    ASSUME NEW a \in Nat, NEW b \in Nat
    PROVE  \E c \in Nat : /\ a <= c /\ (c = a \/ c <= b)
                          /\ Page({s \in 1..b : s > a}) = (a + 1)..c
<1> DEFINE S == {s \in 1..b : s > a}
           c == IF b <= a THEN a ELSE IF b <= a + ReadLimit THEN b ELSE a + ReadLimit
<1>1. ReadLimit \in Nat \ {0}
  BY EventLogAssumption
<1>2. c \in Nat /\ a <= c /\ (c = a \/ c <= b)
  BY <1>1
<1>3. S = (a + 1)..b
  OBVIOUS
<1>4. ASSUME NEW s \in S PROVE Cardinality({r \in S : r < s}) < ReadLimit <=> s <= c
  <2>1. s \in Int /\ a + 1 \in Int /\ s - 1 \in Int /\ a + 1 <= s /\ s <= b
    BY <1>3, <1>4
  <2>2. {r \in S : r < s} = (a + 1)..(s - 1)
    BY <2>1
  <2>3. Cardinality((a + 1)..(s - 1)) = IF a + 1 > s - 1 THEN 0 ELSE (s - 1) - (a + 1) + 1
    BY <2>1, FS_Interval
  <2>4. Cardinality({r \in S : r < s}) = s - 1 - a
    <3> DEFINE k == Cardinality((a + 1)..(s - 1))
    <3>1. Cardinality({r \in S : r < s}) = k
      BY <2>2
    <3> HIDE DEF S, k
    <3>2. k = IF a + 1 > s - 1 THEN 0 ELSE (s - 1) - (a + 1) + 1
      BY <2>3 DEF k
    <3>3. k = s - 1 - a
      BY <2>1, <3>2
    <3> QED
      BY <3>1, <3>3
  <2> HIDE DEF S
  <2> QED
    BY <1>1, <2>1, <2>4
<1>5. Page(S) = {s \in S : s <= c}
  <2> HIDE DEF S, c
  <2> QED
    BY <1>4 DEF Page
<1>6. {s \in (a + 1)..b : s <= c} = (a + 1)..c
  BY <1>2
<1>7. Page(S) = (a + 1)..c
  <2> HIDE DEF S, c
  <2> QED
    BY <1>3, <1>5, <1>6
<1> QED
  <2> HIDE DEF c
  <2> QED
    BY <1>2, <1>7

LEMMA ReadListKeeps ==
    ASSUME IInv, NEW u \in Subs, ReadList(u)
    PROVE  IInv' /\ Stream' = Stream
<1> DEFINE a == sub[u].lastSeq
           page == Page(Found(sub[u]))
           last == IF page = {} THEN a ELSE CHOOSE s \in page : \A r \in page : r <= s
           z == [sub[u] EXCEPT !.lastSeq = last]
           g == [s \in Seqs |-> IF s \in page THEN got[u][s] + 1 ELSE got[u][s]]
<1>1. /\ sub[u] \in SubRecord /\ sub \in [Subs -> SubRecord] /\ SubOK(sub[u])
      /\ start[u] \in 0..MaxSeq /\ got[u] \in [Seqs -> Nat] /\ got \in [Subs -> [Seqs -> Nat]]
      /\ Given(sub[u], start[u], got[u]) /\ HeadType
  BY HeadFacts DEF IInv, Types, SubInv
<1>2. /\ sub[u].phase = "on" /\ UNCHANGED <<head, keys, job, start>>
      /\ got' = [got EXCEPT ![u] = g] /\ sub' = [sub EXCEPT ![u] = DrainedAgain(z)]
  BY <1>1 DEF ReadList
<1>3. a \in Nat /\ a \in 0..MaxSeq /\ sub[u].seen.seq \in Nat /\ sub[u].seen.seq \in 0..MaxSeq
  BY <1>1, RecentFacts DEF SubRecord
<1>4. Found(sub[u]) = {s \in 1..sub[u].seen.seq : s > a}
  BY <1>1 DEF Found, SubOK
<1>5. PICK c \in Nat : /\ a <= c /\ (c = a \/ c <= sub[u].seen.seq)
                       /\ page = (a + 1)..c
  BY <1>3, <1>4, PageFacts
<1>6. last = c
  <2>1. CASE page = {}
    <3>0. a + 1 <= c => a + 1 \in (a + 1)..c
      BY <1>3, <1>5
    <3>1. ~(a + 1 <= c)
      BY <1>5, <2>1, <3>0
    <3> QED
      BY <1>3, <1>5, <2>1, <3>1
  <2>2. CASE page # {}
    <3>1. c \in page /\ \A r \in page : r <= c
      BY <1>3, <1>5, <2>2
    <3>2. \A s \in page : (\A r \in page : r <= s) => s = c
      BY <1>3, <1>5, <3>1
    <3> HIDE DEF page
    <3> QED
      BY <2>2, <3>1, <3>2
  <2> QED
    BY <2>1, <2>2
<1>7. c \in 0..MaxSeq
  BY <1>3, <1>5, RecentFacts
<1> HIDE DEF page, last
<1>8. z \in SubRecord /\ z.phase = "on" /\ z.lastSeq = c /\ z.seen = sub[u].seen
  BY <1>1, <1>2, <1>6, <1>7 DEF SubRecord
<1>9. g \in [Seqs -> Nat]
  BY <1>1
<1> HIDE DEF z
<1>10. SubOK(z)
  BY <1>1, <1>8 DEF SubOK
<1>11. Given(z, start[u], g)
  <2>1. start[u] <= a /\ \A s \in Seqs : got[u][s] = Owed(sub[u], start[u], s)
    BY <1>1, <1>2 DEF Given
  <2>2. start[u] \in Nat
    BY <1>1, RecentFacts
  <2>3. ASSUME NEW s \in Seqs PROVE g[s] = Owed(z, start[u], s)
    <3>1. s \in Nat /\ (s \in page <=> a + 1 <= s /\ s <= c)
      BY <1>3, <1>5, RecentFacts DEF Seqs
    <3>2. got[u][s] = IF s > start[u] /\ s <= a THEN 1 ELSE 0
      BY <1>2, <2>1 DEF Owed
    <3>3. Owed(z, start[u], s) = IF s > start[u] /\ s <= c THEN 1 ELSE 0
      BY <1>8 DEF Owed
    <3>4. g[s] = IF s \in page THEN got[u][s] + 1 ELSE got[u][s]
      OBVIOUS
    <3> HIDE DEF g
    <3> QED
      BY <1>3, <1>5, <2>1, <2>2, <3>1, <3>2, <3>3, <3>4
  <2>4. start[u] <= c
    BY <1>3, <1>5, <2>1, <2>2
  <2> HIDE DEF g
  <2> QED
    BY <1>8, <2>3, <2>4 DEF Given
<1> HIDE DEF g
<1>12. DrainedAgain(z) \in SubRecord /\ Like(z, DrainedAgain(z))
  BY <1>8, LikeFacts DEF Like
<1>13. SubOK(DrainedAgain(z)) /\ Given(DrainedAgain(z), start[u], g)
  BY <1>1, <1>8, <1>10, <1>11, <1>12, LikeKeeps
<1>14. /\ sub'[u] = DrainedAgain(z) /\ start'[u] = start[u] /\ got'[u] = g
       /\ \A w \in Subs : w # u => sub'[w] = sub[w] /\ start'[w] = start[w] /\ got'[w] = got[w]
  BY <1>1, <1>2
<1>15. Types'
  <2>1. sub' \in [Subs -> SubRecord] /\ got' \in [Subs -> [Seqs -> Nat]]
    BY <1>1, <1>2, <1>9, <1>12
  <2> QED
    BY <1>2, <2>1 DEF IInv, Types, HeadType
<1>16. SubOK(sub[u])' /\ Given(sub[u], start[u], got[u])'
  BY <1>2, <1>13, <1>14 DEF SubOK, Missing, Given, Owed
<1> QED
  BY <1>2, <1>14, <1>15, <1>16, SubMove

-----------------------------------------------------------------------------
(* The allocation *)

\* The appender that allocates has materialised what it knew of; so it is behind every
\* event without a key.
LEMMA AllocatorBehind ==
    ASSUME FewAppenders, IInv, NEW p \in Appenders, Allocate(p), NEW s \in 1..head.seq, Missing(s)
    PROVE  p \in Behind(s) /\ s \in Recent(head.seq)
<1>1. /\ job[p].phase = "pre" /\ job[p].todo = {}
  BY DEF Allocate
<1>2. AppendOK(job[p], p) /\ job[p].known \in 0..MaxSeq /\ head.seq \in 0..MaxSeq
  BY HeadFacts DEF AppendRecord
<1>3. s \in Recent(head.seq)
  BY OutsideWindow DEF IInv
<1>4. job[p].known < s
  <2> SUFFICES ASSUME ~(job[p].known < s) PROVE FALSE
    OBVIOUS
  <2>1. s > head.seq - Window /\ job[p].known <= head.seq
    BY <1>1, <1>2, <1>3, RecentFacts DEF AppendOK
  <2>2. s \in 1..job[p].known /\ s > job[p].known - Window
    BY <1>2, <2>1, RecentFacts
  <2>3. s \in Recent(job[p].known)
    BY <2>2 DEF Recent
  <2> QED
    BY <1>1, <1>2, <2>3 DEF AppendOK
<1> QED
  BY <1>1, <1>3, <1>4 DEF Behind

\* Nothing that has been published changes: the event that leaves the window has its key.
LEMMA AllocateStream ==
    ASSUME FewAppenders, IInv, NEW p \in Appenders, Allocate(p)
    PROVE  /\ head'.seq = head.seq + 1 /\ head.seq + 1 \in Seqs
           /\ HeadType'
           /\ Stream' = [s \in 1..(head.seq + 1) |-> IF s = head.seq + 1 THEN p ELSE Stream[s]]
<1> DEFINE n == head.seq
<1>1. /\ head.seq < MaxSeq /\ keys' = keys
      /\ head' = [seq |-> head.seq + 1,
                  recent |-> [s \in Recent(head.seq + 1) |->
                                IF s = head.seq + 1 THEN p ELSE head.recent[s]]]
  BY DEF Allocate
<1>2. /\ n \in Nat /\ n + 1 \in 0..MaxSeq /\ MaxSeq \in Nat /\ Window \in Nat \ {0}
      /\ n + 1 \in Seqs /\ head.recent \in [Recent(n) -> Appenders]
  BY <1>1, RecentFacts DEF IInv, Types, HeadType, Seqs
<1>3. /\ head'.seq = n + 1
      /\ head'.recent = [s \in Recent(n + 1) |-> IF s = n + 1 THEN p ELSE head.recent[s]]
      /\ head' = [seq |-> head'.seq, recent |-> head'.recent]
  BY <1>1
<1>4. \A s \in Recent(n + 1) : s # n + 1 => s \in Recent(n)
  BY <1>2 DEF Recent
<1>5. HeadType'
  <2>1. head'.recent \in [Recent(n + 1) -> Appenders]
    BY <1>2, <1>3, <1>4
  <2> QED
    BY <1>2, <1>3, <2>1 DEF HeadType
<1>6. n + 1 \in Recent(n + 1)
  BY <1>2 DEF Recent
<1>7. Stream' = [s \in 1..(n + 1) |-> IF s \in Recent(n + 1) THEN head'.recent[s] ELSE keys[s]]
  BY <1>1, <1>3 DEF Stream
<1>8. ASSUME NEW s \in 1..(n + 1)
      PROVE  (IF s \in Recent(n + 1) THEN head'.recent[s] ELSE keys[s])
                = IF s = n + 1 THEN p ELSE Stream[s]
  <2>1. CASE s = n + 1
    BY <1>3, <1>6, <2>1
  <2>2. CASE s # n + 1 /\ s \in Recent(n + 1)
    <3>1. s \in Recent(n) /\ head.recent[s] = Stream[s]
      BY <1>4, <2>2, HeadFacts
    <3> QED
      BY <1>3, <2>2, <3>1
  <2>3. CASE s # n + 1 /\ s \notin Recent(n + 1)
    <3>1. s \in 1..head.seq /\ s \in Seqs
      BY <1>2, <2>3 DEF Seqs
    <3>2. ~Missing(s)
      <4> SUFFICES ASSUME Missing(s) PROVE FALSE
        OBVIOUS
      <4>1. (n - s) + Cardinality(Behind(s)) < Cardinality(Appenders)
        BY <3>1 DEF IInv, WindowInv
      <4>2. Behind(s) # {} /\ s \in Recent(n)
        BY <3>1, AllocatorBehind
      <4>3. Cardinality(Behind(s)) # 0
        BY <4>2, BehindFinite, FS_EmptySet
      <4>4. ~(s > (n + 1) - Window)
        BY <1>2, <2>3, <3>1 DEF Recent
      <4> QED
        BY <1>2, <3>1, <4>1, <4>3, <4>4, BehindFinite DEF FewAppenders
    <3>3. keys[s] = Stream[s]
      BY <3>1, <3>2 DEF IInv, StoredInv
    <3> QED
      BY <2>3, <3>3
  <2> QED
    BY <2>1, <2>2, <2>3
<1> QED
  BY <1>2, <1>3, <1>5, <1>7, <1>8

LEMMA AllocateKeeps ==
    ASSUME FewAppenders, IInv, NEW p \in Appenders, Allocate(p)
    PROVE  IInv'
<1> DEFINE n == head.seq
           j == [NoJob EXCEPT !.phase = "put", !.seq = head.seq + 1]
<1>1. /\ job[p].phase = "pre" /\ job' = [job EXCEPT ![p] = j] /\ UNCHANGED <<keys, sub, start, got>>
  BY DEF Allocate
<1>2. /\ head'.seq = n + 1 /\ n + 1 \in Seqs /\ HeadType'
      /\ Stream' = [s \in 1..(n + 1) |-> IF s = n + 1 THEN p ELSE Stream[s]]
  BY AllocateStream
<1>3. n \in Nat /\ n + 1 \in 0..MaxSeq /\ MaxSeq \in Nat
  BY <1>2, RecentFacts DEF Seqs, IInv, Types, HeadType
<1>4. /\ \A s \in 1..n : Stream'[s] = Stream[s]
      /\ Stream'[n + 1] = p
  BY <1>2, <1>3
<1>5. j \in AppendRecord
  BY <1>3, EmptyTypes DEF AppendRecord
<1>6. j.phase = "put" /\ j.seq = n + 1 /\ j.known = 0 /\ j.todo = {} /\ ~j.absent
  BY DEF NoJob
<1> HIDE DEF j
<1>7. /\ job' \in [Appenders -> AppendRecord] /\ job'[p] = j
      /\ \A r \in Appenders : r # p => job'[r] = job[r]
  BY <1>1, <1>5 DEF IInv, Types
<1>8. Types'
  BY <1>1, <1>2, <1>7 DEF IInv, Types
<1>9. StoredInv'
  <2> SUFFICES ASSUME NEW s \in Seqs, ~Missing(s)' PROVE s <= n + 1 /\ keys[s] = Stream'[s]
    BY <1>1, <1>2 DEF StoredInv
  <2>1. ~Missing(s)
    BY <1>1 DEF Missing
  <2>2. s <= n /\ keys[s] = Stream[s]
    BY <2>1 DEF IInv, StoredInv
  <2>3. s \in 1..n
    BY <1>3, <2>2 DEF Seqs
  <2> QED
    BY <1>3, <1>4, <2>2, <2>3
<1>10. ASSUME NEW r \in Appenders PROVE AppendOK(job[r], r)'
  <2>1. CASE r = p
    <3>1. n + 1 \in 1..(n + 1)
      BY <1>3
    <3> QED
      BY <1>2, <1>4, <1>6, <1>7, <2>1, <3>1 DEF AppendOK
  <2>2. CASE r # p
    <3>1. AppendOK(job[r], r) /\ job[r].known \in 0..MaxSeq /\ job'[r] = job[r]
      BY <1>7, <2>2, HeadFacts DEF AppendRecord
    <3>2. CASE job[r].phase = "pre"
      <4>1. job[r].known <= n /\ job[r].known <= n + 1
        BY <1>3, <3>1, <3>2 DEF AppendOK
      <4>2. \A s \in Recent(job[r].known) : s \in 1..n
        BY <1>3, <3>1, <4>1, RecentFacts
      <4>3. \A s \in Recent(job[r].known) : Stream'[s] = Stream[s] /\ (Missing(s)' <=> Missing(s))
        BY <1>1, <1>4, <4>2 DEF Missing
      <4> QED
        BY <1>2, <3>1, <3>2, <4>1, <4>3 DEF AppendOK
    <3>3. CASE job[r].phase = "put"
      <4>1. job[r].seq \in 1..n /\ Stream[job[r].seq] = r
        BY <3>1, <3>3 DEF AppendOK
      <4>2. job[r].seq \in 1..(n + 1) /\ Stream'[job[r].seq] = r
        BY <1>3, <1>4, <4>1
      <4> QED
        BY <1>2, <3>1, <3>3, <4>2 DEF AppendOK
    <3>4. CASE job[r].phase \notin {"pre", "put"}
      BY <3>1, <3>4 DEF AppendOK
    <3> QED
      BY <3>2, <3>3, <3>4
  <2> QED
    BY <2>1, <2>2
<1>11. ASSUME NEW s \in 1..(n + 1), Missing(s)'
       PROVE  ((n + 1) - s) + Cardinality(Behind(s)') < Cardinality(Appenders)
  <2>1. CASE s = n + 1
    <3>1. Behind(s)' \subseteq Appenders \ {p}
      BY <1>6, <1>7 DEF Behind
    <3>2. /\ IsFiniteSet(Appenders \ {p})
          /\ Cardinality(Appenders \ {p}) = Cardinality(Appenders) - 1
      BY FS_RemoveElement, EventLogAssumption
    <3>3. /\ Cardinality(Behind(s)') <= Cardinality(Appenders \ {p})
          /\ Cardinality(Behind(s)') \in Nat
      BY <3>1, <3>2, FS_Subset, FS_CardinalityType
    <3>4. (n + 1) - s = 0 /\ Cardinality(Appenders) \in Nat
      BY <1>3, <2>1, BehindFinite
    <3> HIDE DEF n
    <3> QED
      BY <3>2, <3>3, <3>4
  <2>2. CASE s # n + 1
    <3>1. s \in 1..head.seq /\ Missing(s)
      BY <1>1, <1>3, <1>11, <2>2 DEF Missing
    <3>2. p \in Behind(s)
      BY <3>1, AllocatorBehind
    <3>3. Behind(s)' = Behind(s) \ {p}
      BY <1>6, <1>7 DEF Behind
    <3>4. Cardinality(Behind(s) \ {p}) = Cardinality(Behind(s)) - 1
      BY <3>2, BehindFinite, FS_RemoveElement
    <3>5. (n - s) + Cardinality(Behind(s)) < Cardinality(Appenders)
      BY <3>1 DEF IInv, WindowInv
    <3> QED
      BY <1>3, <3>3, <3>4, <3>5, BehindFinite
  <2> QED
    BY <2>1, <2>2
<1>12. WindowInv'
  BY <1>2, <1>11 DEF WindowInv
<1>13. SubInv'
  <2> SUFFICES ASSUME NEW u \in Subs PROVE SubOK(sub[u])' /\ Given(sub[u], start[u], got[u])'
    BY DEF SubInv
  <2>1. SubOK(sub[u]) /\ sub[u].seen.seq \in 0..MaxSeq /\ Given(sub[u], start[u], got[u])
    BY HeadFacts DEF SubRecord, IInv, SubInv
  <2>2. sub[u].seen.seq <= n + 1
    BY <1>3, <2>1 DEF SubOK
  <2> QED
    BY <1>1, <1>2, <2>1, <2>2 DEF SubOK, Missing, Given, Owed
<1> QED
  BY <1>8, <1>9, <1>10, <1>12, <1>13 DEF IInv, AppendInv

-----------------------------------------------------------------------------
(* The theorems *)

LEMMA InitIInv == ASSUME Init PROVE IInv /\ Stream = <<>>
<1>1. /\ head = [seq |-> 0, recent |-> NoEvents] /\ keys = [s \in Seqs |-> NoAppender]
      /\ job = [p \in Appenders |-> NoJob] /\ sub = [u \in Subs |-> NoSub]
      /\ start = [u \in Subs |-> 0] /\ got = [u \in Subs |-> [s \in Seqs |-> 0]]
  BY DEF Init
<1>2. head.seq = 0 /\ head.recent = NoEvents /\ 1..0 = {} /\ 0 \in 0..MaxSeq
  BY <1>1, RecentFacts
<1>3. Types
  <2>1. HeadType
    BY <1>1, <1>2, EmptyTypes DEF HeadType
  <2>2. got \in [Subs -> [Seqs -> Nat]]
    BY <1>1
  <2> QED
    BY <1>1, <1>2, <2>1, <2>2, EmptyTypes DEF Types
<1>4. StoredInv /\ WindowInv
  BY <1>1, <1>2 DEF StoredInv, WindowInv, Missing
<1>5. AppendInv
  BY <1>1, NoJobOK DEF AppendInv
<1>6. SubInv
  <2>1. NoSub.phase = "off" /\ NoSub.lastSeq = 0 /\ NoSub.seen.seq = 0
    BY DEF NoSub
  <2>2. SubOK(NoSub)
    BY <1>2, <2>1 DEF SubOK
  <2> QED
    BY <1>1, <2>1, <2>2 DEF SubInv, Given, Owed
<1>7. Stream = <<>>
  BY <1>2 DEF Stream
<1> QED
  BY <1>3, <1>4, <1>5, <1>6, <1>7 DEF IInv

\* A step keeps the stream, or it is an allocation.
LEMMA StepKeeps ==
    ASSUME FewAppenders, IInv, [Next]_vars
    PROVE  IInv' /\ (Stream' = Stream \/ \E p \in Appenders : Allocate(p))
<1>1. ASSUME NEW p \in Appenders, AppenderNext(p)
      PROVE  IInv' /\ (Stream' = Stream \/ Allocate(p))
  <2>1. CASE AppendStart(p)
    BY <2>1, AppendStartKeeps
  <2>2. CASE MaterialiseGet(p)
    BY <2>2, MaterialiseGetKeeps
  <2>3. CASE MaterialisePut(p)
    BY <2>3, MaterialisePutKeeps
  <2>4. CASE AppendFails(p)
    BY <2>4, AppendFailsKeeps
  <2>5. CASE Allocate(p)
    BY <2>5, AllocateKeeps
  <2>6. CASE \E written \in BOOLEAN : PutEvent(p, written)
    BY <2>6, PutEventKeeps
  <2> QED
    BY <1>1, <2>1, <2>2, <2>3, <2>4, <2>5, <2>6 DEF AppenderNext
<1>2. ASSUME NEW u \in Subs, SubNext(u) PROVE IInv' /\ Stream' = Stream
  <2>1. CASE \E after \in 0..head.seq : SubscribeFrom(u, after)
    BY <2>1, SubscribeFromKeeps
  <2>2. CASE Resume(u)
    BY <2>2, ResumeKeeps
  <2>3. CASE Subscribe(u)
    BY <2>3, SubscribeKeeps
  <2>4. CASE SubscribeRead(u)
    BY <2>4, SubscribeReadKeeps
  <2>5. CASE SubscribeReady(u)
    BY <2>5, SubscribeReadyKeeps
  <2>6. CASE SubscribeFails(u)
    BY <2>6, SubscribeFailsKeeps
  <2>7. CASE Poll(u) \/ ReadFails(u) \/ Unsubscribe(u)
    BY <2>7, SmallSubKeeps
  <2>8. CASE ReadHead(u)
    BY <2>8, ReadHeadKeeps
  <2>9. CASE ReadList(u)
    BY <2>9, ReadListKeeps
  <2> QED
    BY <1>2, <2>1, <2>2, <2>3, <2>4, <2>5, <2>6, <2>7, <2>8, <2>9 DEF SubNext
<1>3. ASSUME NEW q \in Procs, Crash(q) PROVE IInv' /\ Stream' = Stream
  BY <1>3, CrashKeeps
<1>4. CASE UNCHANGED vars
  <2>1. Types' /\ KeysKept
    BY <1>4 DEF IInv, Types, HeadType, vars, KeysKept
  <2>2. \A u \in Subs : Like(sub[u], sub'[u]) /\ start'[u] = start[u] /\ got'[u] = got[u]
    BY <1>4, HeadFacts DEF vars
  <2>3. head' = head /\ job' = job
    BY <1>4 DEF vars
  <2> QED
    BY <2>1, <2>2, <2>3, SameHead
<1> QED
  BY <1>1, <1>2, <1>3, <1>4 DEF Next

(***************************************************************************)
(* With at most as many overlapping appenders as the head's window has     *)
(* places, the invariant above holds whatever the crashes, failed writes   *)
(* and failed reads: in particular no event is ever outside the window     *)
(* without having its own key (WindowInv).                                 *)
(***************************************************************************)
THEOREM EventLogInvariant == ASSUME FewAppenders PROVE Spec => []IInv
<1>1. Init => IInv
  BY InitIInv
<1>2. IInv /\ [Next]_vars => IInv'
  BY StepKeeps
<1> QED
  BY <1>1, <1>2, PTL DEF Spec

\* The head's window is the last Window events; jobs and subscriptions are well formed.
THEOREM EventLogTypeCorrect == ASSUME FewAppenders PROVE Spec => []TypeOK
<1>1. ASSUME IInv PROVE TypeOK
  <2>1. ASSUME NEW p \in Appenders
        PROVE  /\ job[p].phase \in {"idle", "pre", "put"} /\ job[p].known \in 0..head.seq
               /\ job[p].todo \subseteq DOMAIN job[p].from
    <3>1. AppendOK(job[p], p) /\ job[p] \in AppendRecord /\ head.seq \in 0..MaxSeq
      BY <1>1, HeadFacts
    <3>2. job[p].phase \in {"idle", "pre", "put"} /\ job[p].known \in 0..MaxSeq
      BY <3>1 DEF AppendRecord
    <3> QED
      BY <3>1, <3>2, RecentFacts DEF AppendOK
  <2>2. ASSUME NEW u \in Subs
        PROVE  /\ sub[u].lastSeq \in 0..MaxSeq /\ sub[u].seen.seq \in 0..head.seq
               /\ start[u] \in 0..MaxSeq
    <3>1. sub[u] \in SubRecord /\ SubOK(sub[u]) /\ head.seq \in 0..MaxSeq
      BY <1>1, HeadFacts
    <3>2. sub[u].seen.seq \in 0..MaxSeq /\ sub[u].lastSeq \in 0..MaxSeq /\ start[u] \in 0..MaxSeq
      BY <1>1, <3>1 DEF SubRecord, IInv, Types
    <3> QED
      BY <3>1, <3>2, RecentFacts DEF SubOK
  <2> QED
    BY <1>1, <2>1, <2>2 DEF TypeOK, IInv, Types, HeadType
<1> QED
  BY <1>1, EventLogInvariant, PTL

(***************************************************************************)
(* Every subscription has been given each event after its starting point   *)
(* exactly once and in order, whatever it lost to crashes, failed reads    *)
(* and reconnections.                                                      *)
(***************************************************************************)
THEOREM EventLogDeliveredExactlyOnce == ASSUME FewAppenders PROVE Spec => []DeliveredExactlyOnce
<1>1. IInv => DeliveredExactlyOnce
  BY DEF IInv, SubInv, Given, Owed, DeliveredExactlyOnce
<1> QED
  BY <1>1, EventLogInvariant, PTL

(***************************************************************************)
(* The log implements the append-only stream: an allocation publishes one  *)
(* event, and no other step changes what has been published.               *)
(***************************************************************************)
THEOREM EventLogRefinesStream == ASSUME FewAppenders PROVE Spec => StreamRefined
<1>1. Init => Abstract!StreamInit
  BY InitIInv DEF Abstract!StreamInit
<1>2. ASSUME IInv, [Next]_vars PROVE [Abstract!Publish]_Stream
  <2>1. CASE \E p \in Appenders : Allocate(p)
    <3>1. PICK p \in Appenders : Allocate(p)
      BY <2>1
    <3>2. /\ Stream' = [s \in 1..(head.seq + 1) |-> IF s = head.seq + 1 THEN p ELSE Stream[s]]
      BY <1>2, <3>1, AllocateStream
    <3>3. head.seq \in Nat /\ Stream \in Seq(Appenders) /\ Len(Stream) = head.seq
      <4>1. head.seq \in Nat /\ 1..head.seq \subseteq Seqs
        BY <1>2, HeadFacts, RecentFacts DEF Seqs
      <4>2. ASSUME NEW s \in 1..head.seq PROVE Stream[s] \in Appenders
        <5>1. CASE s \in Recent(head.seq)
          BY <1>2, <5>1, HeadFacts DEF IInv, Types, HeadType
        <5>2. CASE s \notin Recent(head.seq)
          <6>1. ~Missing(s) /\ Stream[s] = keys[s]
            BY <1>2, <5>2, OutsideWindow, HeadFacts DEF IInv, Stream
          <6> QED
            BY <1>2, <4>1, <6>1 DEF Missing, IInv, Types
        <5> QED
          BY <5>1, <5>2
      <4>3. Stream \in [1..head.seq -> Appenders]
        BY <4>2 DEF Stream
      <4> QED
        BY <4>1, <4>3
    <3>4. Stream' = Append(Stream, p)
      <4> DEFINE a == Append(Stream, p)
                 b == Stream'
                 n == head.seq
      <4>1. /\ a \in Seq(Appenders) /\ Len(a) = n + 1 /\ a[n + 1] = p
            /\ \A s \in 1..n : a[s] = Stream[s]
        BY <3>3, AppendProperties
      <4>2. /\ DOMAIN b = 1..(n + 1) /\ b[n + 1] = p
            /\ \A s \in 1..n : b[s] = Stream[s]
            /\ b = [s \in 1..(n + 1) |-> b[s]]
        BY <3>2, <3>3
      <4>3. n \in Nat /\ \A s \in 1..n : Stream[s] \in Appenders
        BY <3>3, LenProperties
      <4> HIDE DEF a, b, n
      <4>4. ASSUME NEW s \in 1..(n + 1) PROVE b[s] = a[s] /\ b[s] \in Appenders
        <5>1. s = n + 1 \/ s \in 1..n
          BY <4>3
        <5> QED
          BY <4>1, <4>2, <4>3, <5>1
      <4>5. b \in Seq(Appenders) /\ Len(b) = n + 1
        <5>1. b \in [1..(n + 1) -> Appenders]
          BY <4>2, <4>4
        <5>2. n + 1 \in Nat
          BY <4>3
        <5> DEFINE m == n + 1
        <5> HIDE DEF m
        <5>3. b \in [1..m -> Appenders] /\ m \in Nat
          BY <5>1, <5>2 DEF m
        <5>4. b \in Seq(Appenders) /\ Len(b) = m
          BY <5>3
        <5> QED
          BY <5>4 DEF m
      <4>6. a = b
        BY <4>1, <4>4, <4>5, SeqEqual
      <4> QED
        BY <4>6 DEF a, b
    <3> QED
      BY <3>4 DEF Abstract!Publish
  <2>2. CASE Stream' = Stream
    BY <2>2
  <2> QED
    BY <1>2, <2>1, <2>2, StepKeeps
<1> QED
  BY <1>1, <1>2, EventLogInvariant, PTL DEF Spec, StreamRefined, Abstract!StreamSpec
=============================================================================
