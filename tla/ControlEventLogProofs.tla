----------------------- MODULE ControlEventLogProofs -----------------------
(***************************************************************************)
(* Proofs about ControlEventLog for any number of API processes, clients   *)
(* and events: first the numbers, over a store with an atomic update, then *)
(* what the streams send, over any store.                                  *)
(***************************************************************************)
EXTENDS ControlEventLog, WellFoundedInduction, FiniteSetTheorems, TLAPS

Step == {"idle", "floor", "take", "put"}

AppendState == [step : Step, existing : 0..MaxSeq, floor : 0..MaxSeq, seq : 0..MaxSeq]

\* The part of the state the numbers depend on is well formed.
NumberTypes ==
    /\ head \in 0..MaxSeq
    /\ keys \in [Seqs -> Procs \cup {NoEvent}]
    /\ append \in [Procs -> AppendState]

Putting(p) == append[p].step = "put"

\* A head that is there is past every number in use.  While it is missing nobody has
\* a number, and who is about to take one has seen all events that are stored.
HeadInv ==
    /\ head # 0 => /\ \A s \in Persisted : s <= head
                   /\ \A p \in Procs : Putting(p) => append[p].seq <= head
    /\ head = 0 => \A p \in Procs : /\ ~Putting(p)
                                    /\ append[p].step = "take" => \A s \in Persisted : s <= append[p].floor

\* A number that was taken is nobody else's, and nothing is stored under it.
TakenInv ==
    \A p \in Procs : Putting(p) =>
        /\ append[p].seq \in Seqs \ Persisted
        /\ \A q \in Procs : Putting(q) /\ append[q].seq = append[p].seq => p = q

IInv == NumberTypes /\ HeadInv /\ TakenInv
-----------------------------------------------------------------------------
\* The largest of a set of numbers up to a bound is one of them, and none is larger.
LEMMA LargestFacts ==
    ASSUME NEW n \in Nat, NEW S, S \subseteq 1..n
    PROVE  /\ Largest(S) \in 0..n /\ \A s \in S : s <= Largest(S)
           /\ S # {} => Largest(S) \in S
<1>1. CASE S = {}
  BY <1>1 DEF Largest
<1>2. CASE S # {}
  <2> DEFINE T == {k \in Nat : n - k \in S}
             R == OpToRel(<, Nat)
  <2>1. T \subseteq Nat
    OBVIOUS
  <2>2. T # {}
    <3>1. PICK s \in S : TRUE
      BY <1>2
    <3>2. s \in 1..n
      OBVIOUS
    <3>3. n - s \in Nat /\ n - (n - s) = s
      BY <3>2
    <3>4. n - s \in T
      BY <3>1, <3>3
    <3> QED
      BY <3>4
  <2>3. IsWellFoundedOn(R, Nat)
    BY NatLessThanWellFounded, Zenon
  <2>4. \E x \in T : \A y \in T : ~ (<<y, x>> \in R)
    <3> HIDE DEF T, R
    <3> QED
      BY <2>1, <2>2, <2>3, WFMin
  <2>5. PICK x \in T : \A y \in T : ~ (y < x)
    BY <2>4 DEF OpToRel
  <2>6. \A r \in S : r <= n - x
    <3> SUFFICES ASSUME NEW r \in S PROVE r <= n - x
      OBVIOUS
    <3>1. r \in 1..n
      OBVIOUS
    <3>2. n - r \in Nat /\ n - (n - r) = r
      BY <3>1
    <3>3. n - r \in T
      BY <3>2
    <3>4. ~ (n - r < x)
      BY <2>5, <3>3
    <3> QED
      BY <3>1, <3>4
  <2>7. n - x \in S
    OBVIOUS
  <2>8. Largest(S) \in S /\ \A r \in S : r <= Largest(S)
    <3> HIDE DEF T
    <3> QED
      BY <1>2, <2>6, <2>7 DEF Largest
  <2>9. Largest(S) \in 1..n
    BY <2>8
  <2> HIDE DEF T, R
  <2> QED
    BY <2>8, <2>9
<1> QED
  BY <1>1, <1>2

\* The initial state.
LEMMA InitIInv == Init => IInv
<1> SUFFICES ASSUME Init PROVE IInv
  OBVIOUS
<1>1. 0 \in 0..MaxSeq
  BY ControlLogAssumption
<1>2. NumberTypes
  BY <1>1 DEF Init, NumberTypes, NoAppend, AppendState, Step
<1>3. Persisted = {}
  BY DEF Init, Persisted
<1>4. \A p \in Procs : append[p].step = "idle"
  BY DEF Init, NoAppend
<1> QED
  BY <1>2, <1>3, <1>4 DEF Init, IInv, HeadInv, TakenInv, Putting

\* An append that ends, or begins without a number, takes none.
LEMMA WithoutNumber ==
    ASSUME IInv, NEW p \in Procs, NEW a \in AppendState, UNCHANGED <<head, keys>>,
           append' = [append EXCEPT ![p] = a], a.step # "put",
           head = 0 /\ a.step = "take" => \A s \in Persisted : s <= a.floor
    PROVE  IInv'
<1>1. append'[p] = a /\ \A q \in Procs \ {p} : append'[q] = append[q]
  BY DEF IInv, NumberTypes
<1>2. NumberTypes'
  BY DEF IInv, NumberTypes
<1>3. Persisted' = Persisted
  BY DEF Persisted
<1>4. ~Putting(p)' /\ \A q \in Procs \ {p} : Putting(q)' <=> Putting(q)
  BY <1>1 DEF Putting
<1>5. HeadInv'
  BY <1>1, <1>3, <1>4 DEF IInv, HeadInv
<1>6. TakenInv'
  BY <1>1, <1>3, <1>4 DEF IInv, TakenInv
<1> QED
  BY <1>2, <1>5, <1>6 DEF IInv

\* Every step keeps the invariant and replaces no event.
LEMMA NumbersStep ==
    ASSUME AtomicStore, IInv, [Next]_vars
    PROVE  IInv' /\ \A s \in Persisted : keys'[s] = keys[s]
<1> DEFINE Kept == \A s \in Persisted : keys'[s] = keys[s]
<1>m. MaxSeq \in Nat
  BY ControlLogAssumption
<1>a. NoAppend \in AppendState /\ NoAppend.step = "idle"
  BY <1>m DEF NoAppend, AppendState, Step
<1>t. head \in 0..MaxSeq /\ \A p \in Procs : append[p] \in AppendState
  BY DEF IInv, NumberTypes
<1>s. Persisted \subseteq 1..MaxSeq
  BY DEF Persisted, Seqs
<1>1. ASSUME NEW p \in Procs, GetHead(p) PROVE IInv' /\ Kept
  <2> DEFINE a == [NoAppend EXCEPT !.step = IF head = 0 THEN "floor" ELSE "take", !.existing = head]
  <2>1. a \in AppendState /\ a.step \in {"floor", "take"} /\ (a.step = "take" => head # 0)
    <3>1. 0 \in 0..MaxSeq
      BY <1>m
    <3>2. ASSUME NEW st \in {"floor", "take"}
          PROVE  LET b == [NoAppend EXCEPT !.step = st, !.existing = head]
                 IN  b \in AppendState /\ b.step = st
      BY <1>t, <3>1 DEF NoAppend, AppendState, Step
    <3>3. CASE head = 0
      BY <3>2, <3>3
    <3>4. CASE head # 0
      BY <3>2, <3>4
    <3> QED
      BY <3>3, <3>4
  <2>2. append' = [append EXCEPT ![p] = a] /\ UNCHANGED <<head, keys>>
    BY <1>1 DEF GetHead
  <2> HIDE DEF a
  <2> QED
    BY <2>1, <2>2, WithoutNumber
<1>2. ASSUME NEW p \in Procs, ReadFloor(p) PROVE IInv' /\ Kept
  <2> DEFINE a == [append[p] EXCEPT !.step = "take", !.floor = Largest(Persisted)]
  <2>1. Largest(Persisted) \in 0..MaxSeq /\ \A s \in Persisted : s <= Largest(Persisted)
    BY <1>m, <1>s, LargestFacts
  <2>2. a \in AppendState /\ a.step = "take" /\ a.floor = Largest(Persisted)
    BY <1>t, <2>1 DEF AppendState, Step
  <2>3. append' = [append EXCEPT ![p] = a] /\ UNCHANGED <<head, keys>>
    BY <1>2 DEF ReadFloor
  <2> HIDE DEF a
  <2> QED
    BY <2>1, <2>2, <2>3, WithoutNumber
<1>3. ASSUME NEW p \in Procs, TakeSeq(p) PROVE IInv' /\ Kept
  <2> DEFINE n == TakenSeq(p)
  <2>1. /\ append[p].step = "take" /\ n <= MaxSeq /\ head' = n /\ keys' = keys
        /\ append' = [append EXCEPT ![p].step = "put", ![p].seq = n]
    BY <1>3 DEF TakeSeq
  <2>2. append[p].floor \in 0..MaxSeq
    BY <1>t DEF AppendState
  <2>3. n \in 1..MaxSeq /\ head < n /\ append[p].floor < n
    BY <1>m, <1>t, <2>1, <2>2 DEF TakenSeq, Larger
  <2> HIDE DEF n
  <2>4. /\ append'[p].step = "put" /\ append'[p].seq = n /\ append'[p] \in AppendState
        /\ \A q \in Procs \ {p} : append'[q] = append[q]
        /\ append' \in [Procs -> AppendState]
    <3>1. [append[p] EXCEPT !.step = "put", !.seq = n] \in AppendState
      <4>1. n \in 0..MaxSeq
        BY <2>3
      <4> QED
        BY <1>t, <4>1 DEF AppendState, Step
    <3> QED
      BY <1>t, <2>1, <3>1 DEF IInv, NumberTypes, AppendState
  <2>5. NumberTypes'
    BY <1>m, <2>1, <2>3, <2>4 DEF IInv, NumberTypes
  <2>6. Persisted' = Persisted
    BY <2>1 DEF Persisted
  <2>7. \A s \in Persisted : s < n
    BY <1>s, <1>t, <2>1, <2>2, <2>3 DEF IInv, HeadInv
  <2>8. \A q \in Procs : Putting(q) => append[q].seq < n
    <3> SUFFICES ASSUME NEW q \in Procs, Putting(q) PROVE append[q].seq < n
      OBVIOUS
    <3>1. append[q].seq \in 0..MaxSeq
      BY <1>t DEF AppendState
    <3>2. append[q].seq <= head
      BY DEF IInv, HeadInv
    <3> QED
      BY <1>t, <2>3, <3>1, <3>2
  <2>9. Putting(p)' /\ \A q \in Procs \ {p} : Putting(q)' <=> Putting(q)
    BY <2>4 DEF Putting
  <2>10. \A q \in Procs : append[q].seq \in 0..MaxSeq
    BY <1>t DEF AppendState
  <2>11. HeadInv'
    BY <1>m, <1>s, <2>1, <2>3, <2>4, <2>6, <2>7, <2>8, <2>9, <2>10 DEF HeadInv
  <2>12. TakenInv'
    <3>1. n \in Seqs \ Persisted
      BY <1>m, <2>3, <2>7 DEF Seqs
    <3>2. \A q \in Procs \ {p} : Putting(q)' => append'[q].seq # n
      BY <2>3, <2>4, <2>8, <2>9, <2>10
    <3> QED
      BY <2>4, <2>6, <2>9, <3>1, <3>2 DEF IInv, TakenInv
  <2> QED
    BY <2>1, <2>5, <2>11, <2>12 DEF IInv
<1>4. ASSUME NEW p \in Procs, PutEvent(p) PROVE IInv' /\ Kept
  <2> DEFINE n == append[p].seq
  <2>1. /\ Putting(p) /\ head' = head /\ keys' = [keys EXCEPT ![n] = p]
        /\ append' = [append EXCEPT ![p] = NoAppend]
    BY <1>4 DEF PutEvent, Putting
  <2>2. /\ n \in Seqs \ Persisted /\ head # 0 /\ n <= head
        /\ \A q \in Procs : Putting(q) /\ append[q].seq = n => p = q
    BY <2>1 DEF IInv, TakenInv, HeadInv
  <2>3. Kept
    BY <2>1, <2>2 DEF IInv, NumberTypes, Persisted
  <2>4. Persisted' = Persisted \cup {n}
    <3>1. p # NoEvent
      BY ControlLogAssumption
    <3> QED
      BY <2>1, <2>2, <3>1 DEF IInv, NumberTypes, Persisted
  <2>5. append'[p] = NoAppend /\ \A q \in Procs \ {p} : append'[q] = append[q]
    BY <2>1 DEF IInv, NumberTypes
  <2>6. NumberTypes'
    BY <1>a, <2>1, <2>2 DEF IInv, NumberTypes
  <2>7. ~Putting(p)' /\ \A q \in Procs \ {p} : Putting(q)' <=> Putting(q)
    BY <1>a, <2>5 DEF Putting
  <2>8. HeadInv'
    BY <2>1, <2>2, <2>4, <2>5, <2>7 DEF IInv, HeadInv
  <2>9. TakenInv'
    BY <2>2, <2>4, <2>5, <2>7 DEF IInv, TakenInv
  <2> QED
    BY <2>3, <2>6, <2>8, <2>9 DEF IInv
<1>5. ASSUME NEW p \in Procs, AppendFails(p) \/ Crash(p) PROVE IInv' /\ Kept
  <2>1. append' = [append EXCEPT ![p] = NoAppend] /\ UNCHANGED <<head, keys>>
    BY <1>5 DEF AppendFails, Crash
  <2> QED
    BY <1>a, <2>1, WithoutNumber
<1>6. ASSUME NEW c \in Clients, ClientNext(c) PROVE IInv' /\ Kept
  <2>1. UNCHANGED <<head, keys, append>>
    BY <1>6 DEF ClientNext, StreamNext, Connect, Disconnect, StartTask, ReadPage, ReadFails
  <2> QED
    BY <2>1 DEF IInv, NumberTypes, HeadInv, TakenInv, Putting, Persisted
<1>7. CASE RestoreWithoutHead
  <2>1. /\ head' = 0 /\ UNCHANGED <<keys, append>>
        /\ \A p \in Procs : append[p].step = "idle"
    BY <1>7 DEF RestoreWithoutHead
  <2> QED
    BY <1>m, <2>1 DEF IInv, NumberTypes, HeadInv, TakenInv, Putting, Persisted
<1>8. CASE UNCHANGED vars
  BY <1>8 DEF vars, IInv, NumberTypes, HeadInv, TakenInv, Putting, Persisted
<1> QED
  BY <1>1, <1>2, <1>3, <1>4, <1>5, <1>6, <1>7, <1>8 DEF Next, ProcNext
-----------------------------------------------------------------------------
\* Over a store with an atomic update, the numbers that appends hold are distinct
\* and unused, and a head that is there is past them all.
THEOREM StreamNumbersInvariant ==
    ASSUME AtomicStore
    PROVE  Spec => []IInv
<1>1. IInv /\ [Next]_vars => IInv'
  BY NumbersStep
<1> QED
  BY <1>1, InitIInv, PTL DEF Spec

\* Over a store with an atomic update, no event of ControlEventLog is ever replaced by
\* another, whichever processes rebuild a missing head, fail or die meanwhile.
THEOREM StreamNeverReplaced ==
    ASSUME AtomicStore
    PROVE  Spec => NeverReplaced
<1>1. IInv /\ [Next]_vars => [\A s \in Persisted : keys'[s] = keys[s]]_vars
  BY NumbersStep
<1> QED
  BY <1>1, StreamNumbersInvariant, PTL DEF Spec, NeverReplaced
-----------------------------------------------------------------------------
(* Pages *)

\* A non-empty set of natural numbers has a least one.
LEMMA LeastNumber ==
    ASSUME NEW T, T \subseteq Nat, T # {}
    PROVE  \E x \in T : \A y \in T : x <= y
<1> DEFINE R == OpToRel(<, Nat)
<1>1. IsWellFoundedOn(R, Nat)
  BY NatLessThanWellFounded, Zenon
<1>2. \E x \in T : \A y \in T : ~ (<<y, x>> \in R)
  <2> HIDE DEF R
  <2> QED
    BY <1>1, WFMin
<1>3. PICK x \in T : \A y \in T : ~ (<<y, x>> \in R)
  BY <1>2
<1>4. \A y \in T : ~ (y < x)
  BY <1>3 DEF OpToRel
<1> QED
  BY <1>4

\* The elements of S below s.
Below(S, s) == {r \in S : r < s}

\* The first k elements of S.
FirstOf(S, k) == {s \in S : Cardinality(Below(S, s)) < k}

\* The numbers of the elements grow with them.
LEMMA BelowFacts ==
    ASSUME NEW S, S \subseteq Nat, IsFiniteSet(S), NEW s \in S
    PROVE  /\ IsFiniteSet(Below(S, s))
           /\ Cardinality(Below(S, s)) \in 0..Cardinality(S) - 1
           /\ \A r \in S : r < s => Cardinality(Below(S, r)) < Cardinality(Below(S, s))
<1>1. ASSUME NEW T, NEW U, IsFiniteSet(U), T \subseteq U, NEW x \in U, x \notin T
      PROVE  IsFiniteSet(T) /\ Cardinality(T) \in Nat /\ Cardinality(T) < Cardinality(U)
  <2>1. IsFiniteSet(T) /\ Cardinality(T) <= Cardinality(U) /\ (Cardinality(U) = Cardinality(T) => U = T)
    BY <1>1, FS_Subset
  <2>2. Cardinality(T) \in Nat /\ Cardinality(U) \in Nat
    BY <1>1, <2>1, FS_CardinalityType
  <2> QED
    BY <1>1, <2>1, <2>2
<1>2. Cardinality(S) \in Nat
  BY FS_CardinalityType
<1>3. /\ IsFiniteSet(Below(S, s)) /\ Cardinality(Below(S, s)) \in Nat
      /\ Cardinality(Below(S, s)) < Cardinality(S)
  <2>1. Below(S, s) \subseteq S /\ s \notin Below(S, s)
    BY DEF Below
  <2> QED
    BY <1>1, <2>1
<1>4. ASSUME NEW r \in S, r < s PROVE Cardinality(Below(S, r)) < Cardinality(Below(S, s))
  <2>1. /\ Below(S, r) \subseteq Below(S, s)
        /\ r \in Below(S, s) /\ r \notin Below(S, r)
    <3>1. r \in Nat /\ s \in Nat
      OBVIOUS
    <3>2. ASSUME NEW q \in S, q < r PROVE q < s
      BY <1>4, <3>1, <3>2
    <3>3. ~ (r < r)
      BY <3>1
    <3> QED
      BY <1>4, <3>2, <3>3 DEF Below
  <2> QED
    BY <1>1, <1>3, <2>1
<1> QED
  BY <1>2, <1>3, <1>4

\* The sorted sequence of a finite set has its elements, in their order.
LEMMA SortedFacts ==
    ASSUME NEW S, S \subseteq Nat, IsFiniteSet(S)
    PROVE  /\ Cardinality(S) \in Nat
           /\ Sorted(S) \in [1..Cardinality(S) -> S]
           /\ \A i, j \in 1..Cardinality(S) : i < j => Sorted(S)[i] < Sorted(S)[j]
           /\ \A s \in S : \E i \in 1..Cardinality(S) : Sorted(S)[i] = s
<1> DEFINE n == Cardinality(S)
           rank == [s \in S |-> Cardinality(Below(S, s))]
<1>1. n \in Nat
  BY FS_CardinalityType
<1>2. /\ \A s \in S : rank[s] \in 0..n - 1
      /\ \A r, s \in S : r < s => rank[r] < rank[s]
  BY BelowFacts
<1>3. rank \in [S -> 0..n - 1]
  BY <1>2
<1>4. \A r, s \in S : rank[r] = rank[s] => r = s
  <2> HIDE DEF rank, n
  <2> SUFFICES ASSUME NEW r \in S, NEW s \in S, rank[r] = rank[s], r # s PROVE FALSE
    OBVIOUS
  <2>1. r \in Nat /\ s \in Nat /\ rank[r] \in 0..n - 1
    BY <1>2
  <2>2. CASE r < s
    BY <1>1, <1>2, <2>1, <2>2
  <2>3. CASE s < r
    BY <1>1, <1>2, <2>1, <2>3
  <2> QED
    BY <2>1, <2>2, <2>3
<1>5. rank \in Injection(S, 0..n - 1)
  <2> HIDE DEF rank, n
  <2> QED
    BY <1>3, <1>4 DEF Injection, IsInjective
<1>6. IsFiniteSet(0..n - 1) /\ Cardinality(0..n - 1) = n
  <2> HIDE DEF rank, n
  <2>1. 0 \in Int /\ n - 1 \in Int
    BY <1>1
  <2> QED
    BY <1>1, <2>1, FS_Interval
<1>7. rank \in Surjection(S, 0..n - 1)
  <2> HIDE DEF rank
  <2> QED
    BY <1>5, <1>6, FS_Injection
<1>8. \A k \in 0..n - 1 : \E s \in S : rank[s] = k
  <2> HIDE DEF rank, n
  <2> QED
    BY <1>7 DEF Surjection
<1>9. \A i \in 1..n : Sorted(S)[i] \in S /\ rank[Sorted(S)[i]] = i - 1
  <2> SUFFICES ASSUME NEW i \in 1..n PROVE Sorted(S)[i] \in S /\ rank[Sorted(S)[i]] = i - 1
    OBVIOUS
  <2>1. i - 1 \in 0..n - 1
    BY <1>1
  <2>2. PICK s \in S : rank[s] = i - 1
    BY <1>8, <2>1
  <2>3. Cardinality({r \in S : r < s}) = i - 1
    BY <2>2 DEF Below
  <2>4. Sorted(S)[i] = CHOOSE x \in S : Cardinality({r \in S : r < x}) = i - 1
    BY DEF Sorted
  <2>5. Sorted(S)[i] \in S /\ Cardinality({r \in S : r < Sorted(S)[i]}) = i - 1
    BY <2>3, <2>4
  <2> QED
    BY <2>5 DEF Below
<1>10. Sorted(S) \in [1..n -> S]
  BY <1>9 DEF Sorted
<1>11. ASSUME NEW i \in 1..n, NEW j \in 1..n, i < j PROVE Sorted(S)[i] < Sorted(S)[j]
  <2> HIDE DEF rank
  <2>0. /\ Sorted(S)[i] \in S /\ rank[Sorted(S)[i]] = i - 1
        /\ Sorted(S)[j] \in S /\ rank[Sorted(S)[j]] = j - 1
    BY <1>9
  <2>1. /\ Sorted(S)[i] \in Nat /\ Sorted(S)[j] \in Nat
        /\ rank[Sorted(S)[i]] < rank[Sorted(S)[j]]
    <3> HIDE DEF n
    <3>1. i \in Int /\ j \in Int
      BY <1>1
    <3>2. i - 1 < j - 1
      BY <1>11, <3>1
    <3> QED
      BY <2>0, <3>2
  <2>2. rank[Sorted(S)[i]] \in Int /\ rank[Sorted(S)[j]] \in Int
    <3> HIDE DEF n
    <3> QED
      BY <1>1, <2>0
  <2>3. CASE Sorted(S)[j] < Sorted(S)[i]
    BY <1>2, <1>9, <2>1, <2>2, <2>3
  <2>4. CASE Sorted(S)[j] = Sorted(S)[i]
    BY <2>1, <2>2, <2>4
  <2> QED
    BY <2>1, <2>3, <2>4
<1>12. ASSUME NEW s \in S PROVE \E i \in 1..n : Sorted(S)[i] = s
  <2> HIDE DEF rank
  <2>1. rank[s] \in 0..n - 1
    BY <1>2
  <2>2. rank[s] + 1 \in 1..n /\ (rank[s] + 1) - 1 = rank[s]
    BY <1>1, <2>1
  <2>3. Sorted(S)[rank[s] + 1] = s
    BY <1>4, <1>9, <2>2
  <2> QED
    BY <2>2, <2>3
<1> QED
  BY <1>1, <1>10, <1>11, <1>12

\* A page begins with the smallest elements, and a short one has them all.
LEMMA FirstOfFacts ==
    ASSUME NEW S, S \subseteq Nat, IsFiniteSet(S), NEW k \in Nat
    PROVE  /\ FirstOf(S, k) \subseteq S /\ IsFiniteSet(FirstOf(S, k))
           /\ \A s \in FirstOf(S, k), r \in S : r < s => r \in FirstOf(S, k)
           /\ Cardinality(FirstOf(S, k)) < k => FirstOf(S, k) = S
<1>1. FirstOf(S, k) \subseteq S /\ IsFiniteSet(FirstOf(S, k))
  <2>1. FirstOf(S, k) \subseteq S
    BY DEF FirstOf
  <2> QED
    BY <2>1, FS_Subset
<1>2. ASSUME NEW s \in FirstOf(S, k), NEW r \in S, r < s PROVE r \in FirstOf(S, k)
  <2>1. s \in S /\ Cardinality(Below(S, s)) < k
    BY DEF FirstOf
  <2>2. /\ Cardinality(Below(S, r)) < Cardinality(Below(S, s))
        /\ Cardinality(Below(S, r)) \in Int /\ Cardinality(Below(S, s)) \in Int
    <3>1. Cardinality(S) \in Nat
      BY FS_CardinalityType
    <3>2. Cardinality(Below(S, r)) \in 0..Cardinality(S) - 1
      BY BelowFacts
    <3>3. /\ Cardinality(Below(S, s)) \in 0..Cardinality(S) - 1
          /\ Cardinality(Below(S, r)) < Cardinality(Below(S, s))
      BY <1>2, <2>1, BelowFacts
    <3> QED
      BY <3>1, <3>2, <3>3
  <2> QED
    BY <2>1, <2>2 DEF FirstOf
<1>3. ASSUME FirstOf(S, k) # S PROVE ~ (Cardinality(FirstOf(S, k)) < k)
  <2>1. S \ FirstOf(S, k) # {} /\ S \ FirstOf(S, k) \subseteq Nat
    BY <1>1, <1>3
  <2>2. PICK x \in S \ FirstOf(S, k) : \A y \in S \ FirstOf(S, k) : x <= y
    <3> DEFINE T == S \ FirstOf(S, k)
    <3>1. T # {} /\ T \subseteq Nat
      BY <2>1
    <3>2. \E x \in T : \A y \in T : x <= y
      <4> HIDE DEF T
      <4> QED
        BY <3>1, LeastNumber
    <3> QED
      BY <3>2
  <2>3. Below(S, x) \subseteq FirstOf(S, k)
    <3> SUFFICES ASSUME NEW r \in S, r < x, r \notin FirstOf(S, k) PROVE FALSE
      BY DEF Below
    <3>1. x <= r /\ x \in Nat /\ r \in Nat
      BY <2>2
    <3> QED
      BY <3>1
  <2>4. Cardinality(Below(S, x)) <= Cardinality(FirstOf(S, k))
    BY <1>1, <2>3, FS_Subset
  <2>5. ~ (Cardinality(Below(S, x)) < k)
    BY <2>2 DEF FirstOf
  <2>6. Cardinality(Below(S, x)) \in Int /\ Cardinality(FirstOf(S, k)) \in Int
    <3>1. Cardinality(Below(S, x)) \in 0..Cardinality(S) - 1 /\ Cardinality(S) \in Nat
      BY <2>2, BelowFacts, FS_CardinalityType
    <3> QED
      BY <1>1, <3>1, FS_CardinalityType
  <2> QED
    BY <2>4, <2>5, <2>6
<1> QED
  BY <1>1, <1>2, <1>3
-----------------------------------------------------------------------------
(* The streams *)

ConnState == [open : BOOLEAN, cursor : 0..MaxSeq, chain : Seq(0..MaxSeq),
              reading : BOOLEAN, failed : BOOLEAN]

StreamTypes ==
    /\ NumberTypes
    /\ \A p \in Procs : Putting(p) => append[p].seq \in Seqs
    /\ conn \in [Clients -> ConnState]
    /\ frames \in [Clients -> Seq(Seqs)]

\* Events are announced, and sent, only after they were stored.
StoredOnly(k) ==
    /\ k.cursor \in Persisted \cup {0}
    /\ \A i \in DOMAIN k.chain : k.chain[i] \in Persisted \cup {Replay}

InOrder(f) == \A i, j \in DOMAIN f : i < j => f[i] < f[j]

UpTo(f, n) == \A i \in DOMAIN f : f[i] <= n

Has(f, s) == \E i \in DOMAIN f : f[i] = s

\* What a connection in state k and the frames f its client has agree on.
ClientOK(k, f) ==
    /\ k.reading => k.open /\ k.chain # <<>>
    /\ StoredOnly(k)
    /\ InOrder(f) /\ UpTo(f, k.cursor)
    /\ \A s \in Persisted \ late : s <= k.cursor => Has(f, s)

StreamInv == StreamTypes /\ \A c \in Clients : ClientOK(conn[c], frames[c])

\* Frames that follow the cursor in order keep everything in order.
LEMMA FramesExtend ==
    ASSUME NEW f \in Seq(Seqs), NEW g \in Seq(Seqs), NEW n \in Nat, NEW m \in Nat, n <= m,
           InOrder(f), UpTo(f, n), InOrder(g), UpTo(g, m), \A i \in DOMAIN g : n < g[i]
    PROVE  /\ f \o g \in Seq(Seqs) /\ InOrder(f \o g) /\ UpTo(f \o g, m)
           /\ \A s : Has(f, s) \/ Has(g, s) => Has(f \o g, s)
<1> DEFINE h == f \o g
<1>1. /\ h \in Seq(Seqs) /\ DOMAIN h = 1..Len(f) + Len(g)
      /\ Len(f) \in Nat /\ DOMAIN f = 1..Len(f) /\ Len(g) \in Nat /\ DOMAIN g = 1..Len(g)
  OBVIOUS
<1>2. \A i \in DOMAIN f : i \in DOMAIN h /\ h[i] = f[i]
  OBVIOUS
<1>3. \A i \in DOMAIN g : i + Len(f) \in DOMAIN h /\ h[i + Len(f)] = g[i]
  OBVIOUS
<1>4. \A i \in DOMAIN h : \/ i \in DOMAIN f
                          \/ i - Len(f) \in DOMAIN g /\ h[i] = g[i - Len(f)] /\ i > Len(f)
  OBVIOUS
<1>0. Seqs \subseteq Nat
  BY DEF Seqs
<1>5. \A i \in DOMAIN f : f[i] \in Nat
  <2>1. \A i \in DOMAIN f : f[i] \in Seqs
    OBVIOUS
  <2> QED
    BY <1>0, <2>1
<1>6. \A i \in DOMAIN g : g[i] \in Nat
  <2>1. \A i \in DOMAIN g : g[i] \in Seqs
    OBVIOUS
  <2> QED
    BY <1>0, <2>1
<1> HIDE DEF h
<1>7. InOrder(h)
  <2> SUFFICES ASSUME NEW i \in DOMAIN h, NEW j \in DOMAIN h, i < j PROVE h[i] < h[j]
    BY DEF InOrder
  <2>1. CASE i \in DOMAIN f /\ j \in DOMAIN f
    BY <1>2, <2>1 DEF InOrder
  <2>2. CASE i \in DOMAIN f /\ j \notin DOMAIN f
    <3>1. f[i] <= n /\ h[i] = f[i] /\ f[i] \in Nat
      BY <1>2, <1>5, <2>2 DEF UpTo
    <3>2. j - Len(f) \in DOMAIN g /\ h[j] = g[j - Len(f)] /\ n < g[j - Len(f)] /\ g[j - Len(f)] \in Nat
      BY <1>4, <1>6, <2>2
    <3> QED
      BY <3>1, <3>2
  <2>3. CASE i \notin DOMAIN f /\ j \notin DOMAIN f
    <3>1. i - Len(f) \in DOMAIN g /\ h[i] = g[i - Len(f)]
      BY <1>4, <2>3
    <3>2. j - Len(f) \in DOMAIN g /\ h[j] = g[j - Len(f)]
      BY <1>4, <2>3
    <3>3. i - Len(f) < j - Len(f)
      BY <1>1
    <3> QED
      BY <3>1, <3>2, <3>3 DEF InOrder
  <2>4. CASE i \notin DOMAIN f /\ j \in DOMAIN f
    BY <1>1, <2>4
  <2> QED
    BY <2>1, <2>2, <2>3, <2>4
<1>8. UpTo(h, m)
  <2> SUFFICES ASSUME NEW i \in DOMAIN h PROVE h[i] <= m
    BY DEF UpTo
  <2>1. CASE i \in DOMAIN f
    BY <1>2, <1>5, <2>1 DEF UpTo
  <2>2. CASE i \notin DOMAIN f
    BY <1>4, <2>2 DEF UpTo
  <2> QED
    BY <2>1, <2>2
<1>9. \A s : Has(f, s) \/ Has(g, s) => Has(h, s)
  BY <1>2, <1>3 DEF Has
<1> QED
  BY <1>1, <1>7, <1>8, <1>9 DEF h

\* The same for one frame.
LEMMA FrameAppended ==
    ASSUME NEW f \in Seq(Seqs), NEW n \in Nat, NEW s \in Seqs, n < s, InOrder(f), UpTo(f, n)
    PROVE  /\ Append(f, s) \in Seq(Seqs) /\ InOrder(Append(f, s)) /\ UpTo(Append(f, s), s)
           /\ \A r : Has(f, r) \/ r = s => Has(Append(f, s), r)
<1>1. Append(f, s) = f \o <<s>> /\ <<s>> \in Seq(Seqs)
  OBVIOUS
<1>2. s \in Nat
  BY DEF Seqs
<1>3. DOMAIN <<s>> = {1} /\ <<s>>[1] = s
  OBVIOUS
<1>4. InOrder(<<s>>) /\ UpTo(<<s>>, s) /\ Has(<<s>>, s) /\ \A i \in DOMAIN <<s>> : n < <<s>>[i]
  BY <1>2, <1>3 DEF InOrder, UpTo, Has
<1>5. n <= s
  BY <1>2
<1>6. /\ f \o <<s>> \in Seq(Seqs) /\ InOrder(f \o <<s>>) /\ UpTo(f \o <<s>>, s)
      /\ \A r : Has(f, r) \/ Has(<<s>>, r) => Has(f \o <<s>>, r)
  BY <1>1, <1>2, <1>4, <1>5, FramesExtend
<1> QED
  BY <1>1, <1>4, <1>6

\* A step of one stream is right when its client is left right.
LEMMA ClientMoves ==
    ASSUME StreamInv, NEW c \in Clients, NEW k \in ConnState, NEW f \in Seq(Seqs),
           UNCHANGED <<head, keys, append, late>>, ClientOK(k, f),
           conn' = [conn EXCEPT ![c] = k], frames' = [frames EXCEPT ![c] = f]
    PROVE  StreamInv'
<1>1. Persisted' = Persisted
  BY DEF Persisted
<1>2. StreamTypes'
  BY DEF StreamInv, StreamTypes, NumberTypes, Putting
<1>3. conn'[c] = k /\ frames'[c] = f
  BY DEF StreamInv, StreamTypes
<1>4. \A d \in Clients \ {c} : conn'[d] = conn[d] /\ frames'[d] = frames[d]
  BY DEF StreamInv, StreamTypes
<1>5. ASSUME NEW d \in Clients PROVE ClientOK(conn[d], frames[d])' 
  <2>1. CASE d = c
    BY <1>1, <1>3, <2>1 DEF ClientOK, StoredOnly, InOrder, UpTo, Has
  <2>2. CASE d # c
    <3>1. ClientOK(conn[d], frames[d]) /\ conn'[d] = conn[d] /\ frames'[d] = frames[d]
      BY <1>4, <2>2 DEF StreamInv
    <3> QED
      BY <1>1, <3>1 DEF ClientOK, StoredOnly, InOrder, UpTo, Has
  <2> QED
    BY <2>1, <2>2
<1> QED
  BY <1>2, <1>5 DEF StreamInv

\* A step that sends nothing and leaves the events alone, such as a cut, keeps each
\* client right when it only empties its chain.
LEMMA StreamsCut ==
    ASSUME StreamInv, StreamTypes', UNCHANGED <<keys, frames, late>>,
           \A c \in Clients : conn'[c] \in {conn[c], Cut(conn[c])}
    PROVE  StreamInv'
<1>1. Persisted' = Persisted
  BY DEF Persisted
<1>2. ASSUME NEW c \in Clients PROVE ClientOK(conn[c], frames[c])'
  <2>1. ClientOK(conn[c], frames[c]) /\ conn[c] \in ConnState /\ frames'[c] = frames[c]
    BY DEF StreamInv, StreamTypes
  <2>2. CASE conn'[c] = conn[c]
    BY <1>1, <2>1, <2>2 DEF ClientOK, StoredOnly, InOrder, UpTo, Has
  <2>3. CASE conn'[c] = Cut(conn[c])
    <3>1. conn'[c].cursor = conn[c].cursor /\ conn'[c].chain = <<>> /\ ~conn'[c].reading
      BY <2>1, <2>3 DEF Cut, ConnState
    <3> QED
      BY <1>1, <2>1, <3>1 DEF ClientOK, StoredOnly, InOrder, UpTo, Has
  <2> QED
    BY <2>2, <2>3
<1> QED
  BY <1>2 DEF StreamInv

LEMMA InitStreamInv == Init => StreamInv
<1> SUFFICES ASSUME Init PROVE StreamInv
  OBVIOUS
<1>1. MaxSeq \in Nat
  BY ControlLogAssumption
<1>2. NumberTypes
  BY InitIInv DEF IInv
<1>3. NoConn \in ConnState
  BY <1>1 DEF NoConn, ConnState
<1>4. \A p \in Procs : ~Putting(p)
  BY DEF Init, NoAppend, Putting
<1>5. StreamTypes
  BY <1>2, <1>3, <1>4 DEF Init, StreamTypes
<1>6. Persisted = {}
  BY DEF Init, Persisted
<1>7. \A c \in Clients : ClientOK(conn[c], frames[c])
  BY <1>6 DEF Init, NoConn, ClientOK, StoredOnly, InOrder, UpTo, Has
<1> QED
  BY <1>5, <1>7 DEF StreamInv

\* A task is put at the end of a chain.
LEMMA AppendFacts ==
    ASSUME NEW S, NEW f \in Seq(S), NEW x \in S
    PROVE  /\ Append(f, x) \in Seq(S) /\ Append(f, x) # <<>>
           /\ \A i \in DOMAIN Append(f, x) :
                 Append(f, x)[i] = x \/ (i \in DOMAIN f /\ Append(f, x)[i] = f[i])
<1> DEFINE g == Append(f, x)
<1>1. g \in Seq(S) /\ Len(g) = Len(f) + 1 /\ Len(f) \in Nat
  OBVIOUS
<1>2. DOMAIN g = 1..Len(f) + 1 /\ DOMAIN f = 1..Len(f)
  BY <1>1
<1>3. \A i \in 1..Len(f) : g[i] = f[i]
  OBVIOUS
<1>4. g[Len(f) + 1] = x
  OBVIOUS
<1>5. g # <<>>
  BY <1>1
<1> HIDE DEF g
<1>6. \A i \in DOMAIN g : i \in 1..Len(f) \/ i = Len(f) + 1
  BY <1>1, <1>2
<1>7. \A i \in DOMAIN g : g[i] = x \/ (i \in DOMAIN f /\ g[i] = f[i])
  BY <1>2, <1>3, <1>4, <1>6
<1> QED
  BY <1>1, <1>5, <1>7 DEF g

\* An event is stored, and announced in its own process.
LEMMA PutKeepsStreams ==
    ASSUME StreamInv, NEW p \in Procs, PutEvent(p)
    PROVE  StreamInv'
<1> DEFINE n == append[p].seq
<1>m. MaxSeq \in Nat /\ p # NoEvent
  BY ControlLogAssumption
<1>1. /\ n \in Seqs /\ head' = head /\ frames' = frames
      /\ keys' = [keys EXCEPT ![n] = p] /\ append' = [append EXCEPT ![p] = NoAppend]
      /\ late' = IF \E s \in Persisted : s > n THEN late \cup {n} ELSE late
  BY DEF PutEvent, StreamInv, StreamTypes, Putting
<1>2. conn' = [c \in Clients |-> IF ProcOf[c] = p /\ conn[c].open
                                 THEN [conn[c] EXCEPT !.chain = Append(@, n)] ELSE conn[c]]
  BY DEF PutEvent
<1> HIDE DEF n
<1>3. Persisted' = Persisted \cup {n}
  BY <1>m, <1>1 DEF StreamInv, StreamTypes, NumberTypes, Persisted
<1>4. NoAppend \in AppendState /\ NoAppend.step = "idle"
  BY <1>m DEF NoAppend, AppendState, Step
<1>5. append'[p] = NoAppend /\ \A q \in Procs \ {p} : append'[q] = append[q]
  BY <1>1 DEF StreamInv, StreamTypes, NumberTypes
<1>6. n \in 0..MaxSeq
  BY <1>m, <1>1 DEF Seqs
<1>7. ASSUME NEW c \in Clients
      PROVE  /\ conn'[c] \in ConnState /\ conn'[c].cursor = conn[c].cursor
             /\ conn'[c].open = conn[c].open /\ conn'[c].reading = conn[c].reading
             /\ conn[c].chain # <<>> => conn'[c].chain # <<>>
             /\ \A i \in DOMAIN conn'[c].chain :
                   \/ conn'[c].chain[i] = n
                   \/ i \in DOMAIN conn[c].chain /\ conn'[c].chain[i] = conn[c].chain[i]
  <2>1. conn[c] \in ConnState
    BY DEF StreamInv, StreamTypes
  <2>2. CASE ProcOf[c] = p /\ conn[c].open
    <3>1. conn'[c] = [conn[c] EXCEPT !.chain = Append(@, n)]
      BY <1>2, <2>2
    <3>2. conn[c].chain \in Seq(0..MaxSeq)
      BY <2>1 DEF ConnState
    <3>3. /\ Append(conn[c].chain, n) \in Seq(0..MaxSeq) /\ Append(conn[c].chain, n) # <<>>
          /\ \A i \in DOMAIN Append(conn[c].chain, n) :
                \/ Append(conn[c].chain, n)[i] = n
                \/ i \in DOMAIN conn[c].chain /\ Append(conn[c].chain, n)[i] = conn[c].chain[i]
      BY <1>6, <3>2, AppendFacts
    <3>4. /\ conn'[c].chain = Append(conn[c].chain, n) /\ conn'[c] \in ConnState
          /\ conn'[c].cursor = conn[c].cursor
          /\ conn'[c].open = conn[c].open /\ conn'[c].reading = conn[c].reading
      BY <2>1, <3>1, <3>3 DEF ConnState
    <3> QED
      BY <3>3, <3>4
  <2>3. CASE ~(ProcOf[c] = p /\ conn[c].open)
    <3>1. conn'[c] = conn[c]
      BY <1>2, <2>3
    <3> QED
      BY <2>1, <3>1
  <2> QED
    BY <2>2, <2>3
<1>8. StreamTypes'
  <2>1. NumberTypes'
    BY <1>1, <1>4 DEF StreamInv, StreamTypes, NumberTypes
  <2>2. \A q \in Procs : Putting(q)' => append'[q].seq \in Seqs
    BY <1>4, <1>5 DEF StreamInv, StreamTypes, Putting
  <2>3. conn' \in [Clients -> ConnState]
    BY <1>2, <1>7
  <2> QED
    BY <1>1, <2>1, <2>2, <2>3 DEF StreamInv, StreamTypes
<1>9. ASSUME NEW c \in Clients PROVE ClientOK(conn[c], frames[c])'
  <2>1. ClientOK(conn[c], frames[c]) /\ conn[c] \in ConnState /\ frames'[c] = frames[c]
    BY <1>1 DEF StreamInv, StreamTypes
  <2>2. conn'[c].reading => conn'[c].open /\ conn'[c].chain # <<>>
    BY <1>7, <2>1 DEF ClientOK
  <2>3. StoredOnly(conn[c])'
    BY <1>3, <1>7, <2>1 DEF ClientOK, StoredOnly
  <2>4. InOrder(frames'[c]) /\ UpTo(frames'[c], conn'[c].cursor)
    BY <1>7, <2>1 DEF ClientOK
  <2>5. ASSUME NEW s \in Persisted' \ late', s <= conn'[c].cursor PROVE Has(frames'[c], s)
    <3>1. s <= conn[c].cursor /\ s \notin late
      BY <1>1, <1>7, <2>5
    <3>2. CASE s \in Persisted
      BY <2>1, <3>1, <3>2 DEF ClientOK
    <3>3. CASE s \notin Persisted
      <4>1. s = n /\ ~ \E r \in Persisted : r > n
        BY <1>1, <1>3, <2>5, <3>3
      <4>2. conn[c].cursor \in Persisted \cup {0} /\ conn[c].cursor \in Nat
        BY <2>1, <1>m DEF ClientOK, StoredOnly, ConnState
      <4>3. n \in Nat /\ n # 0
        BY <1>1 DEF Seqs
      <4>4. conn[c].cursor # 0
        BY <3>1, <4>1, <4>2, <4>3
      <4>5. conn[c].cursor \in Persisted /\ conn[c].cursor # n
        BY <3>3, <4>1, <4>2, <4>4
      <4>6. conn[c].cursor > n
        BY <3>1, <4>1, <4>2, <4>3, <4>5
      <4> QED
        BY <4>1, <4>5, <4>6
    <3> QED
      BY <3>2, <3>3
  <2> QED
    BY <2>2, <2>3, <2>4, <2>5 DEF ClientOK, InOrder, UpTo, Has
<1> QED
  BY <1>8, <1>9 DEF StreamInv

\* The rest of a chain is part of it.
LEMMA TailFacts ==
    ASSUME NEW S, NEW q \in Seq(S), q # <<>>
    PROVE  Tail(q) \in Seq(S) /\ \A i \in DOMAIN Tail(q) : \E j \in DOMAIN q : Tail(q)[i] = q[j]
<1>1. Tail(q) \in Seq(S) /\ Len(q) \in Nat \ {0} /\ DOMAIN q = 1..Len(q)
  OBVIOUS
<1>2. DOMAIN Tail(q) = 1..Len(q) - 1
  BY <1>1
<1>3. \A i \in 1..Len(q) - 1 : Tail(q)[i] = q[i + 1] /\ i + 1 \in 1..Len(q)
  BY <1>1
<1> QED
  BY <1>1, <1>2, <1>3

\* A task begins: it is dropped, sent at once, or makes the stream read the log.
LEMMA StartKeepsStreams ==
    ASSUME StreamInv, NEW c \in Clients, StartTask(c)
    PROVE  StreamInv'
<1> DEFINE k == conn[c]
           f == frames[c]
           done == [k EXCEPT !.chain = Tail(@)]
<1>m. MaxSeq \in Nat
  BY ControlLogAssumption
<1>1. /\ k \in ConnState /\ f \in Seq(Seqs) /\ ClientOK(k, f)
      /\ conn \in [Clients -> ConnState] /\ frames \in [Clients -> Seq(Seqs)]
  BY DEF StreamInv, StreamTypes
<1>2. k.open /\ ~k.reading /\ k.chain # <<>> /\ UNCHANGED <<head, keys, append, late>>
  BY DEF StartTask
<1>3. k.cursor \in Nat /\ k.chain \in Seq(0..MaxSeq)
  BY <1>1, <1>m DEF ConnState
<1>4. /\ Tail(k.chain) \in Seq(0..MaxSeq)
      /\ \A i \in DOMAIN Tail(k.chain) : \E j \in DOMAIN k.chain : Tail(k.chain)[i] = k.chain[j]
  BY <1>2, <1>3, TailFacts
<1>5. Task(c) \in Persisted \cup {Replay}
  <2>1. 1 \in DOMAIN k.chain /\ Task(c) = k.chain[1]
    BY <1>2, <1>3 DEF Task
  <2> QED
    BY <1>1, <2>1 DEF ClientOK, StoredOnly
<1>6. /\ done \in ConnState /\ done.cursor = k.cursor /\ ~done.reading
      /\ done.chain = Tail(k.chain)
  BY <1>1, <1>2, <1>4 DEF ConnState
<1>7. frames = [frames EXCEPT ![c] = f]
  BY <1>1
<1>8. ASSUME NEW x \in ConnState, NEW g \in Seq(Seqs), ClientOK(x, g),
             conn' = [conn EXCEPT ![c] = x], frames' = [frames EXCEPT ![c] = g]
      PROVE  StreamInv'
  BY <1>2, <1>8, ClientMoves
<1>9. CASE /\ Task(c) # Replay /\ Task(c) <= k.cursor
           /\ conn' = [conn EXCEPT ![c] = done] /\ frames' = frames
  <2>1. ClientOK(done, f)
    BY <1>1, <1>4, <1>6 DEF ClientOK, StoredOnly
  <2> QED
    BY <1>1, <1>6, <1>7, <1>8, <1>9, <2>1
<1>10. CASE /\ Task(c) # Replay /\ Task(c) = k.cursor + 1
            /\ conn' = [conn EXCEPT ![c] = [done EXCEPT !.cursor = Task(c)]]
            /\ frames' = [frames EXCEPT ![c] = Append(@, Task(c))]
  <2> DEFINE x == [done EXCEPT !.cursor = Task(c)]
             n == Task(c)
  <2>1. n \in Persisted /\ n \in Seqs /\ n \in 0..MaxSeq /\ k.cursor < n
    BY <1>3, <1>5, <1>10, <1>m DEF Persisted, Seqs
  <2>2. x \in ConnState /\ x.cursor = n /\ ~x.reading /\ x.chain = Tail(k.chain)
    BY <1>6, <2>1 DEF ConnState
  <2>3. /\ Append(f, n) \in Seq(Seqs) /\ InOrder(Append(f, n)) /\ UpTo(Append(f, n), n)
        /\ \A r : Has(f, r) \/ r = n => Has(Append(f, n), r)
    <3>1. InOrder(f) /\ UpTo(f, k.cursor)
      BY <1>1 DEF ClientOK
    <3> HIDE DEF n, f, k
    <3> QED
      BY <1>1, <1>3, <2>1, <3>1, FrameAppended
  <2>4. StoredOnly(x)
    BY <1>1, <1>4, <2>1, <2>2 DEF ClientOK, StoredOnly
  <2>5. ASSUME NEW s \in Persisted \ late, s <= n PROVE Has(Append(f, n), s)
    <3>1. s \in Nat
      BY <1>m DEF Persisted, Seqs
    <3>2. s <= k.cursor \/ s = n
      BY <1>3, <1>10, <2>5, <3>1
    <3> QED
      BY <1>1, <2>3, <3>2 DEF ClientOK
  <2>6. ClientOK(x, Append(f, n))
    BY <2>2, <2>3, <2>4, <2>5 DEF ClientOK
  <2>7. conn' = [conn EXCEPT ![c] = x] /\ frames' = [frames EXCEPT ![c] = Append(f, n)]
    BY <1>10
  <2> HIDE DEF x, n, f, k, done
  <2> QED
    BY <1>8, <2>2, <2>3, <2>6, <2>7
<1>11. CASE conn' = [conn EXCEPT ![c].reading = TRUE] /\ frames' = frames
  <2> DEFINE x == [k EXCEPT !.reading = TRUE]
  <2>1. x \in ConnState /\ x.cursor = k.cursor /\ x.chain = k.chain /\ x.open
    BY <1>1, <1>2 DEF ConnState
  <2>2. ClientOK(x, f)
    BY <1>1, <1>2, <2>1 DEF ClientOK, StoredOnly
  <2>3. conn' = [conn EXCEPT ![c] = x]
    BY <1>11
  <2> HIDE DEF x
  <2> QED
    BY <1>1, <1>7, <1>8, <1>11, <2>1, <2>2, <2>3
<1> HIDE DEF k, f, done
<1> QED
  BY <1>9, <1>10, <1>11 DEF StartTask, k, f, done

\* A page is read and sent.  The event a live task is about was stored before the task
\* was queued, so that the pages have it: it is never sent a second time.
LEMMA PageKeepsStreams ==
    ASSUME StreamInv, NEW c \in Clients, ReadPage(c)
    PROVE  StreamInv'
<1> DEFINE k == conn[c]
           f == frames[c]
           later == {s \in Persisted : s > k.cursor}
           page == Page(c)
           last == Larger(k.cursor, Largest(page))
           final == Cardinality(page) < PageSize
           own == final /\ Task(c) > last
           x == [k EXCEPT !.cursor = IF own THEN Task(c) ELSE last,
                          !.chain = IF final THEN Tail(@) ELSE @, !.reading = ~final]
           sent == Sorted(page)
<1>m. MaxSeq \in Nat /\ PageSize \in Nat
  BY ControlLogAssumption
<1>1. /\ k \in ConnState /\ f \in Seq(Seqs) /\ ClientOK(k, f)
      /\ conn \in [Clients -> ConnState] /\ frames \in [Clients -> Seq(Seqs)]
  BY DEF StreamInv, StreamTypes
<1>2. /\ k.reading /\ UNCHANGED <<head, keys, append, late>>
      /\ frames' = [frames EXCEPT ![c] = f \o sent \o (IF own THEN <<Task(c)>> ELSE <<>>)]
      /\ conn' = [conn EXCEPT ![c] = x]
  BY <1>1 DEF ReadPage
<1>3. k.cursor \in Nat /\ k.cursor \in 0..MaxSeq /\ k.chain \in Seq(0..MaxSeq) /\ k.open /\ k.chain # <<>>
  BY <1>1, <1>2, <1>m DEF ConnState, ClientOK
<1>4. later \subseteq Seqs /\ later \subseteq Nat /\ IsFiniteSet(later)
  <2>1. IsFiniteSet(Seqs)
    BY <1>m, FS_Interval DEF Seqs
  <2>2. later \subseteq Seqs
    BY DEF Persisted
  <2>3. Seqs \subseteq Nat
    BY DEF Seqs
  <2> HIDE DEF later
  <2> QED
    BY <2>1, <2>2, <2>3, FS_Subset
<1>5. page = FirstOf(later, PageSize)
  BY DEF Page, FirstOf, Below
<1>6. /\ page \subseteq later /\ IsFiniteSet(page)
      /\ \A s \in page, r \in later : r < s => r \in page
      /\ final => page = later
  <2> HIDE DEF later, page
  <2> QED
    BY <1>4, <1>5, <1>m, FirstOfFacts
<1>7. page \subseteq Seqs /\ page \subseteq Nat /\ \A s \in page : s > k.cursor
  BY <1>4, <1>6
<1>8. /\ Largest(page) \in 0..MaxSeq /\ \A s \in page : s <= Largest(page)
      /\ page # {} => Largest(page) \in page
  <2>1. page \subseteq 1..MaxSeq
    BY <1>7 DEF Seqs
  <2> HIDE DEF page
  <2> QED
    BY <1>m, <2>1, LargestFacts
<1>9. /\ last \in 0..MaxSeq /\ k.cursor <= last /\ \A s \in page : s <= last
      /\ last = k.cursor \/ last \in page
  <2> HIDE DEF page, k
  <2>1. CASE page = {}
    <3>1. Largest(page) = 0
      BY <2>1 DEF Largest
    <3>2. last = k.cursor
      BY <1>3, <3>1 DEF Larger
    <3> QED
      BY <1>3, <2>1, <3>2
  <2>2. CASE page # {}
    <3>1. Largest(page) > k.cursor /\ Largest(page) \in page
      BY <1>7, <1>8, <2>2
    <3>2. last = Largest(page)
      BY <1>3, <1>8, <3>1 DEF Larger
    <3> HIDE DEF last
    <3> QED
      BY <1>3, <1>8, <3>1, <3>2
  <2> QED
    BY <2>1, <2>2
<1>10. ~own
  <2> SUFFICES ASSUME final, Task(c) > last PROVE FALSE
    OBVIOUS
  <2>1. Task(c) \in Persisted \cup {Replay}
    <3>1. 1 \in DOMAIN k.chain /\ Task(c) = k.chain[1]
      BY <1>3 DEF Task
    <3> QED
      BY <1>1, <3>1 DEF ClientOK, StoredOnly
  <2>2. Task(c) \in Nat
    BY <2>1, <1>m DEF Replay, Persisted, Seqs
  <2>3. last \in Nat
    BY <1>9, <1>m
  <2>4. Task(c) # 0 /\ Task(c) > k.cursor
    <3> HIDE DEF last, k
    <3> QED
      BY <1>3, <1>9, <2>2, <2>3
  <2>5. Task(c) \in later
    BY <2>1, <2>4 DEF Replay
  <2>6. Task(c) \in page
    BY <1>6, <2>5
  <2>7. Task(c) <= last
    BY <1>9, <2>6
  <2> HIDE DEF last
  <2> QED
    BY <2>2, <2>3, <2>7
<1>11. /\ sent \in Seq(Seqs) /\ InOrder(sent) /\ UpTo(sent, last)
       /\ \A i \in DOMAIN sent : k.cursor < sent[i]
       /\ \A s \in page : Has(sent, s)
  <2> HIDE DEF page, last, k
  <2>1. /\ Cardinality(page) \in Nat /\ sent \in [1..Cardinality(page) -> page]
        /\ \A i, j \in 1..Cardinality(page) : i < j => sent[i] < sent[j]
        /\ \A s \in page : \E i \in 1..Cardinality(page) : sent[i] = s
    BY <1>6, <1>7, SortedFacts
  <2> HIDE DEF sent
  <2>2. sent \in Seq(Seqs) /\ DOMAIN sent = 1..Cardinality(page)
    <3>1. sent \in [1..Cardinality(page) -> Seqs]
      BY <1>7, <2>1
    <3> DEFINE n == Cardinality(page)
    <3>2. n \in Nat /\ sent \in [1..n -> Seqs]
      BY <2>1, <3>1
    <3> HIDE DEF n
    <3>3. sent \in Seq(Seqs) /\ DOMAIN sent = 1..n
      BY <3>2
    <3> QED
      BY <3>3 DEF n
  <2>3. \A i \in DOMAIN sent : sent[i] \in page
    BY <2>1, <2>2
  <2> QED
    BY <1>7, <1>9, <2>1, <2>2, <2>3 DEF InOrder, UpTo, Has
<1>12. /\ f \o sent \in Seq(Seqs) /\ InOrder(f \o sent) /\ UpTo(f \o sent, last)
       /\ \A s : Has(f, s) \/ Has(sent, s) => Has(f \o sent, s)
  <2>1. InOrder(f) /\ UpTo(f, k.cursor)
    BY <1>1 DEF ClientOK
  <2>2. last \in Nat
    BY <1>9, <1>m
  <2> HIDE DEF f, sent, last, k
  <2> QED
    BY <1>1, <1>3, <1>9, <1>11, <2>1, <2>2, FramesExtend
<1>13. frames' = [frames EXCEPT ![c] = f \o sent]
  <2>1. (f \o sent) \o <<>> = f \o sent
    <3> DEFINE g == f \o sent
    <3>1. g \in Seq(Seqs)
      BY <1>12
    <3> HIDE DEF g
    <3>2. g \o <<>> = g
      BY <3>1
    <3> QED
      BY <3>2 DEF g
  <2> HIDE DEF f, sent, own
  <2> QED
    BY <1>2, <1>10, <2>1
<1>14. /\ x \in ConnState /\ x.cursor = last /\ x.reading = ~final /\ x.open
       /\ x.chain = IF final THEN Tail(k.chain) ELSE k.chain
  <2>1. Tail(k.chain) \in Seq(0..MaxSeq)
    BY <1>3, TailFacts
  <2>2. (IF final THEN Tail(k.chain) ELSE k.chain) \in Seq(0..MaxSeq)
    BY <1>3, <2>1
  <2>3. (IF own THEN Task(c) ELSE last) = last /\ (~final) \in BOOLEAN
    BY <1>10
  <2>4. x = [k EXCEPT !.cursor = last, !.chain = IF final THEN Tail(@) ELSE @, !.reading = ~final]
    BY <2>3
  <2> HIDE DEF final, last, own, x
  <2> QED
    BY <1>1, <1>3, <1>9, <2>2, <2>3, <2>4 DEF ConnState
<1>15. StoredOnly(x)
  <2>1. x.cursor \in Persisted \cup {0}
    <3>1. k.cursor \in Persisted \cup {0}
      BY <1>1 DEF ClientOK, StoredOnly
    <3>2. page \subseteq Persisted
      BY <1>6
    <3> HIDE DEF x, k, page, last
    <3> QED
      BY <1>9, <1>14, <3>1, <3>2
  <2>2. \A i \in DOMAIN k.chain : k.chain[i] \in Persisted \cup {Replay}
    BY <1>1 DEF ClientOK, StoredOnly
  <2>3. \A i \in DOMAIN Tail(k.chain) : Tail(k.chain)[i] \in Persisted \cup {Replay}
    BY <1>3, <2>2, TailFacts
  <2>4. \A i \in DOMAIN x.chain : x.chain[i] \in Persisted \cup {Replay}
    <3> HIDE DEF x, k, final
    <3> QED
      BY <1>14, <2>2, <2>3
  <2> QED
    BY <2>1, <2>4 DEF StoredOnly
<1>16. ASSUME NEW s \in Persisted \ late, s <= last PROVE Has(f \o sent, s)
  <2>1. s \in Nat /\ last \in Nat
    BY <1>9, <1>m DEF Persisted, Seqs
  <2>2. CASE s <= k.cursor
    BY <1>1, <1>12, <2>2 DEF ClientOK
  <2>3. CASE s > k.cursor
    <3>1. s \in later
      BY <2>3
    <3>2. last \in page
      <4> HIDE DEF last, k, page
      <4> QED
        BY <1>3, <1>9, <1>16, <2>1, <2>3
    <3>3. s \in page
      <4>1. CASE s = last
        BY <3>2, <4>1
      <4>2. CASE s < last
        BY <1>6, <3>1, <3>2, <4>2
      <4> HIDE DEF last
      <4> QED
        BY <1>16, <2>1, <4>1, <4>2
    <3> QED
      BY <1>11, <1>12, <3>3
  <2> QED
    BY <1>3, <2>1, <2>2, <2>3
<1>17. ClientOK(x, f \o sent)
  <2>1. x.chain # <<>> \/ final
    BY <1>3, <1>14
  <2> HIDE DEF x, sent, last, final, f
  <2> QED
    BY <1>12, <1>14, <1>15, <1>16, <2>1 DEF ClientOK
<1> HIDE DEF x, sent, f
<1> QED
  BY <1>2, <1>12, <1>13, <1>14, <1>17, ClientMoves

\* Every step keeps the streams right.
LEMMA StreamStep == StreamInv /\ [Next]_vars => StreamInv'
<1> SUFFICES ASSUME StreamInv, [Next]_vars PROVE StreamInv'
  OBVIOUS
<1>m. MaxSeq \in Nat
  BY ControlLogAssumption
<1>a. /\ NoAppend \in AppendState /\ NoAppend.step = "idle"
      /\ \A p \in Procs : append[p] \in AppendState
      /\ \A c \in Clients : conn[c] \in ConnState /\ Cut(conn[c]) \in ConnState
  <2>1. NoAppend \in AppendState /\ NoAppend.step = "idle"
    BY <1>m DEF NoAppend, AppendState, Step
  <2>2. \A c \in Clients : conn[c] \in ConnState
    BY DEF StreamInv, StreamTypes
  <2>3. ASSUME NEW k \in ConnState PROVE Cut(k) \in ConnState
    <3>1. <<>> \in Seq(0..MaxSeq)
      OBVIOUS
    <3> QED
      BY <3>1 DEF Cut, ConnState
  <2> QED
    BY <2>1, <2>2, <2>3 DEF StreamInv, StreamTypes, NumberTypes
\* A step of an append that stores nothing.
<1>b. ASSUME NEW p \in Procs, NEW a \in AppendState, a.step = "put" => a.seq \in Seqs,
             append' = [append EXCEPT ![p] = a], head' \in 0..MaxSeq,
             UNCHANGED <<keys, frames, late>>,
             conn' = conn \/ conn' = [c \in Clients |-> IF ProcOf[c] = p THEN Cut(conn[c]) ELSE conn[c]]
      PROVE  StreamInv'
  <2>1. append'[p] = a /\ \A q \in Procs \ {p} : append'[q] = append[q]
    BY <1>b DEF StreamInv, StreamTypes, NumberTypes
  <2>2. \A q \in Procs : Putting(q)' => append'[q].seq \in Seqs
    BY <1>b, <2>1 DEF StreamInv, StreamTypes, Putting
  <2>3. NumberTypes'
    BY <1>b DEF StreamInv, StreamTypes, NumberTypes
  <2>4. conn' \in [Clients -> ConnState] /\ \A c \in Clients : conn'[c] \in {conn[c], Cut(conn[c])}
    BY <1>a, <1>b DEF StreamInv, StreamTypes
  <2>5. StreamTypes'
    BY <1>b, <2>2, <2>3, <2>4 DEF StreamInv, StreamTypes
  <2> QED
    BY <1>b, <2>4, <2>5, StreamsCut
<1>h. head \in 0..MaxSeq
  BY DEF StreamInv, StreamTypes, NumberTypes
<1>1. ASSUME NEW p \in Procs, GetHead(p) PROVE StreamInv'
  <2> DEFINE a == [NoAppend EXCEPT !.step = IF head = 0 THEN "floor" ELSE "take", !.existing = head]
  <2>1. a.step \in {"floor", "take"} /\ a \in AppendState
    <3>1. (IF head = 0 THEN "floor" ELSE "take") \in {"floor", "take"} /\ 0 \in 0..MaxSeq
      BY <1>m
    <3>2. ASSUME NEW st \in {"floor", "take"}
          PROVE  LET b == [NoAppend EXCEPT !.step = st, !.existing = head]
                 IN  b \in AppendState /\ b.step = st
      BY <1>h, <3>1 DEF NoAppend, AppendState, Step
    <3> QED
      BY <3>1, <3>2
  <2>2. append' = [append EXCEPT ![p] = a] /\ UNCHANGED <<head, keys, conn, frames, late>>
    BY <1>1 DEF GetHead
  <2> HIDE DEF a
  <2> QED
    BY <1>b, <1>h, <2>1, <2>2
<1>2. ASSUME NEW p \in Procs, ReadFloor(p) PROVE StreamInv'
  <2> DEFINE a == [append[p] EXCEPT !.step = "take", !.floor = Largest(Persisted)]
  <2>1. Largest(Persisted) \in 0..MaxSeq
    <3>1. Persisted \subseteq 1..MaxSeq
      BY DEF Persisted, Seqs
    <3> QED
      BY <1>m, <3>1, LargestFacts
  <2>2. a \in AppendState /\ a.step = "take"
    BY <1>a, <2>1 DEF AppendState, Step
  <2>3. append' = [append EXCEPT ![p] = a] /\ UNCHANGED <<head, keys, conn, frames, late>>
    BY <1>2 DEF ReadFloor
  <2> HIDE DEF a
  <2> QED
    BY <1>b, <1>h, <2>2, <2>3
<1>3. ASSUME NEW p \in Procs, TakeSeq(p) PROVE StreamInv'
  <2> DEFINE n == TakenSeq(p)
             a == [append[p] EXCEPT !.step = "put", !.seq = n]
  <2>1. /\ n <= MaxSeq /\ head' = n /\ UNCHANGED <<keys, conn, frames, late>>
        /\ append' = [append EXCEPT ![p].step = "put", ![p].seq = n]
    BY <1>3 DEF TakeSeq
  <2>2. append[p].floor \in 0..MaxSeq /\ append[p].existing \in 0..MaxSeq
    BY <1>a DEF AppendState
  <2>3. n \in Seqs /\ n \in 0..MaxSeq
    BY <1>m, <1>h, <2>1, <2>2 DEF TakenSeq, Larger, Seqs
  <2> HIDE DEF n
  <2>4. a \in AppendState /\ a.step = "put" /\ a.seq = n
    BY <1>a, <2>3 DEF AppendState, Step
  <2>5. append' = [append EXCEPT ![p] = a]
    BY <2>1 DEF StreamInv, StreamTypes, NumberTypes
  <2> HIDE DEF a
  <2> QED
    BY <1>b, <2>1, <2>3, <2>4, <2>5
<1>4. ASSUME NEW p \in Procs, AppendFails(p) \/ Crash(p) PROVE StreamInv'
  <2>1. /\ append' = [append EXCEPT ![p] = NoAppend] /\ UNCHANGED <<head, keys, frames, late>>
        /\ conn' = conn \/ conn' = [c \in Clients |-> IF ProcOf[c] = p THEN Cut(conn[c]) ELSE conn[c]]
    BY <1>4 DEF AppendFails, Crash
  <2> QED
    BY <1>a, <1>b, <1>h, <2>1
<1>5. ASSUME NEW p \in Procs, PutEvent(p) PROVE StreamInv'
  BY <1>5, PutKeepsStreams
<1>6. ASSUME NEW c \in Clients, Connect(c) PROVE StreamInv'
  <2> DEFINE k == conn[c]
             x == [open |-> TRUE, cursor |-> k.cursor, chain |-> <<Replay>>,
                   reading |-> FALSE, failed |-> FALSE]
  <2>1. conn' = [conn EXCEPT ![c] = x] /\ UNCHANGED <<head, keys, append, frames, late>>
    BY <1>6 DEF Connect
  <2>2. ClientOK(k, frames[c]) /\ k \in ConnState /\ frames[c] \in Seq(Seqs)
    BY DEF StreamInv, StreamTypes
  <2>3. <<Replay>> \in Seq(0..MaxSeq) /\ DOMAIN <<Replay>> = {1} /\ <<Replay>>[1] = Replay
    BY <1>m DEF Replay
  <2>4. x \in ConnState /\ x.cursor = k.cursor /\ x.chain = <<Replay>> /\ ~x.reading
    BY <2>2, <2>3 DEF ConnState
  <2>5. ClientOK(x, frames[c])
    <3> HIDE DEF x, k
    <3> QED
      BY <2>2, <2>3, <2>4 DEF ClientOK, StoredOnly
  <2>6. frames' = [frames EXCEPT ![c] = frames[c]]
    BY <2>1 DEF StreamInv, StreamTypes
  <2> HIDE DEF x
  <2> QED
    BY <2>1, <2>2, <2>4, <2>5, <2>6, ClientMoves
<1>7. ASSUME NEW c \in Clients, Disconnect(c) PROVE StreamInv'
  <2>1. conn' = [conn EXCEPT ![c] = Cut(@)] /\ UNCHANGED <<head, keys, append, frames, late>>
    BY <1>7 DEF Disconnect
  <2>2. conn' \in [Clients -> ConnState] /\ \A d \in Clients : conn'[d] \in {conn[d], Cut(conn[d])}
    BY <1>a, <2>1 DEF StreamInv, StreamTypes
  <2>3. StreamTypes'
    BY <2>1, <2>2 DEF StreamInv, StreamTypes, NumberTypes, Putting
  <2> QED
    BY <2>1, <2>2, <2>3, StreamsCut
<1>8. ASSUME NEW c \in Clients, StreamNext(c) PROVE StreamInv'
  BY <1>8, StartKeepsStreams, PageKeepsStreams DEF StreamNext
<1>9. ASSUME NEW c \in Clients, ReadFails(c) PROVE StreamInv'
  <2> DEFINE k == conn[c]
             x == [k EXCEPT !.chain = Tail(@), !.reading = FALSE, !.failed = TRUE]
  <2>1. /\ k.reading /\ conn' = [conn EXCEPT ![c] = x]
        /\ UNCHANGED <<head, keys, append, frames, late>>
    BY <1>9 DEF ReadFails, StreamInv, StreamTypes
  <2>2. ClientOK(k, frames[c]) /\ k \in ConnState /\ frames[c] \in Seq(Seqs)
    BY DEF StreamInv, StreamTypes
  <2>3. k.chain \in Seq(0..MaxSeq) /\ k.chain # <<>>
    BY <2>1, <2>2 DEF ClientOK, ConnState
  <2>4. /\ Tail(k.chain) \in Seq(0..MaxSeq)
        /\ \A i \in DOMAIN Tail(k.chain) : \E j \in DOMAIN k.chain : Tail(k.chain)[i] = k.chain[j]
    <3> HIDE DEF k
    <3> QED
      BY <2>3, TailFacts
  <2>5. x \in ConnState /\ x.cursor = k.cursor /\ x.chain = Tail(k.chain) /\ ~x.reading
    BY <2>2, <2>4 DEF ConnState
  <2>6. ClientOK(x, frames[c])
    <3> HIDE DEF x, k
    <3> QED
      BY <2>2, <2>4, <2>5 DEF ClientOK, StoredOnly
  <2>7. frames' = [frames EXCEPT ![c] = frames[c]]
    BY <2>1 DEF StreamInv, StreamTypes
  <2> HIDE DEF x
  <2> QED
    BY <2>1, <2>2, <2>5, <2>6, <2>7, ClientMoves
<1>10. CASE RestoreWithoutHead
  <2>1. head' = 0 /\ UNCHANGED <<keys, append, conn, frames, late>>
    BY <1>10 DEF RestoreWithoutHead
  <2>2. StreamTypes'
    BY <1>m, <2>1 DEF StreamInv, StreamTypes, NumberTypes, Putting
  <2> QED
    BY <2>1, <2>2, StreamsCut
<1>11. CASE UNCHANGED vars
  <2>1. UNCHANGED <<head, keys, append, conn, frames, late>>
    BY <1>11 DEF vars
  <2>2. StreamTypes'
    BY <2>1 DEF StreamInv, StreamTypes, NumberTypes, Putting
  <2> QED
    BY <2>1, <2>2, StreamsCut
<1> QED
  BY <1>1, <1>2, <1>3, <1>4, <1>5, <1>6, <1>7, <1>8, <1>9, <1>10, <1>11
     DEF Next, ProcNext, ClientNext

\* The inductive invariant of the streams, over any store: events are announced and
\* sent only after they were stored, each client has what its cursor says, in order.
THEOREM StreamInvariant == Spec => []StreamInv
<1> QED
  BY InitStreamInv, StreamStep, PTL DEF Spec

\* Type correctness of ControlEventLog.
THEOREM StreamTypeCorrect == Spec => []TypeOK
<1>1. StreamInv => TypeOK
  BY DEF StreamInv, StreamTypes, NumberTypes, AppendState, Step, ConnState, ClientOK, TypeOK
<1> QED
  BY <1>1, StreamInvariant, PTL

\* The frames of every client are in the order of the events' numbers, without
\* duplicates, whatever order replay, live events, pages and reconnections come in.
THEOREM StreamFramesInOrder == Spec => []FramesInOrder
<1>1. StreamInv => FramesInOrder
  BY DEF StreamInv, ClientOK, InOrder, FramesInOrder
<1> QED
  BY <1>1, StreamInvariant, PTL

\* A client whose cursor is past a stored event has received it, unless the event was
\* stored after a later number already had been.
THEOREM StreamOnlyLateSkipped == Spec => []OnlyLateSkipped
<1>1. StreamInv => OnlyLateSkipped
  BY DEF StreamInv, ClientOK, Has, OnlyLateSkipped, Received
<1> QED
  BY <1>1, StreamInvariant, PTL
=============================================================================
