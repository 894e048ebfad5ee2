-------------------------- MODULE SchedulerProofs --------------------------
(***************************************************************************)
(* Type correctness of the scheduler, and the two facts everything else in *)
(* the kernel rests on: a process runs on at most one CPU, and its stack   *)
(* is not freed under a CPU that still uses it.  Then fork(), exit(),      *)
(* wait() and kill(): the parent of a process can always still wait for    *)
(* it, no exit is missed by a process asleep in wait(), and kill() reaches *)
(* it there.  The run queues: each runnable process waits once, where its  *)
(* level says, and a dispatch passes over none of a better level; a quantum*)
(* is never overdrawn; and the MoQ holds its sleepers.                     *)
(***************************************************************************)
EXTENDS Scheduler, FiniteSetTheorems, SequenceTheorems, TLAPS

(***************************************************************************)
(* The operators of the run queues, for every size of the table: a scan    *)
(* of the table visits each slot of a set once, in ascending order, and    *)
(* what the operators return has the type of a run queue.                  *)
(***************************************************************************)

LEMMA ProcFinite ==
  /\ IsFiniteSet(Proc)
  /\ \A S \in SUBSET Proc : IsFiniteSet(S) /\ Cardinality(S) \in Nat
<1>1. IsFiniteSet(Proc)
  BY FS_Interval, NPROCAssumption DEF Proc
<1>2. ASSUME NEW S \in SUBSET Proc PROVE IsFiniteSet(S) /\ Cardinality(S) \in Nat
  BY <1>1, FS_Subset, FS_CardinalityType
<1> QED
  BY <1>1, <1>2

-----------------------------------------------------------------------------
\* the ranks of the slots of S are 0 .. Cardinality(S) - 1, each taken once
LEMMA RankBijection ==
  ASSUME NEW S \in SUBSET Proc
  PROVE  [p \in S |-> RankIn(S, p)] \in Bijection(S, 0 .. Cardinality(S) - 1)
<1> DEFINE Below(p) == {x \in S : x < p}
<1> DEFINE N == Cardinality(S)
<1> DEFINE rank == [p \in S |-> RankIn(S, p)]
<1>1. IsFiniteSet(S) /\ N \in Nat /\ S \subseteq Int
  BY ProcFinite, NPROCAssumption DEF Proc
<1>2. ASSUME NEW p \in S PROVE RankIn(S, p) \in 0 .. N - 1
  <2>1. Below(p) \in SUBSET (S \ {p})
    BY <1>1
  <2>2. IsFiniteSet(S \ {p}) /\ Cardinality(S \ {p}) = N - 1
    BY <1>1, FS_RemoveElement
  <2>3. Cardinality(Below(p)) <= N - 1 /\ Cardinality(Below(p)) \in Nat
    BY <2>1, <2>2, FS_Subset, FS_CardinalityType
  <2> QED
    BY <1>1, <2>3 DEF RankIn
<1>3. ASSUME NEW p \in S, NEW q \in S, p < q PROVE RankIn(S, p) < RankIn(S, q)
  <2>1. Below(p) \in SUBSET Below(q) /\ Below(p) # Below(q)
    <3>1. p \in Below(q) /\ p \notin Below(p)
      BY <1>1, <1>3
    <3>2. ASSUME NEW x \in Below(p) PROVE x \in Below(q)
      BY <1>1, <1>3, <3>2
    <3> QED
      BY <3>1, <3>2
  <2>2. IsFiniteSet(Below(q)) /\ IsFiniteSet(Below(p))
    BY <1>1, FS_Subset
  <2>3. /\ Cardinality(Below(p)) <= Cardinality(Below(q))
        /\ Cardinality(Below(p)) # Cardinality(Below(q))
    <3> HIDE DEF Below
    <3> QED
      BY <2>1, <2>2, FS_Subset
  <2>4. Cardinality(Below(p)) \in Nat /\ Cardinality(Below(q)) \in Nat
    BY <2>2, FS_CardinalityType
  <2> QED
    BY <2>3, <2>4 DEF RankIn
<1>4. rank \in Injection(S, 0 .. N - 1)
  <2>1. rank \in [S -> 0 .. N - 1]
    BY <1>2
  <2>2. ASSUME NEW p \in S, NEW q \in S, p # q PROVE rank[p] # rank[q]
    <3>1. p < q \/ q < p
      BY <1>1, <2>2
    <3> QED
      BY <1>2, <1>3, <3>1
  <2> QED
    BY <2>1, <2>2 DEF Injection, IsInjective
<1>5. IsFiniteSet(0 .. N - 1) /\ Cardinality(0 .. N - 1) = N
  BY <1>1, FS_Interval
<1>6. rank \in Surjection(S, 0 .. N - 1)
  BY <1>4, <1>5, FS_Injection
<1> QED
  BY <1>4, <1>6 DEF Bijection

\* a scan of the table visits each slot of S at the place of its rank
LEMMA SlotOrderAt ==
  ASSUME NEW S \in SUBSET Proc
  PROVE  /\ SlotOrder(S) \in Seq(S)
         /\ Len(SlotOrder(S)) = Cardinality(S)
         /\ \A i \in 1 .. Cardinality(S) : RankIn(S, SlotOrder(S)[i]) = i - 1
<1> DEFINE N == Cardinality(S)
<1>1. N \in Nat
  BY ProcFinite
<1>2. ASSUME NEW i \in 1 .. N PROVE \E p \in S : RankIn(S, p) = i - 1
  <2>1. [p \in S |-> RankIn(S, p)] \in Surjection(S, 0 .. N - 1)
    BY RankBijection DEF Bijection
  <2>2. i - 1 \in 0 .. N - 1
    BY <1>1
  <2> QED
    BY <2>1, <2>2 DEF Surjection
<1>3. ASSUME NEW i \in 1 .. N
      PROVE  SlotOrder(S)[i] \in S /\ RankIn(S, SlotOrder(S)[i]) = i - 1
  BY <1>2 DEF SlotOrder
<1>4. SlotOrder(S) \in [1 .. N -> S]
  BY <1>3 DEF SlotOrder
<1> QED
  BY <1>1, <1>3, <1>4

\* a scan that stops at the first slot of a set finds one
LEMMA LeastSlot ==
  ASSUME NEW S \in SUBSET Proc, S # {}
  PROVE  \E p \in S : \A q \in S : p <= q
<1>1. IsFiniteSet(S) /\ Cardinality(S) \in Nat \ {0} /\ S \subseteq Int
  BY ProcFinite, FS_EmptySet, NPROCAssumption DEF Proc
<1>2. PICK p \in S : RankIn(S, p) = 0
  <2>1. [x \in S |-> RankIn(S, x)] \in Surjection(S, 0 .. Cardinality(S) - 1)
    BY RankBijection DEF Bijection
  <2>2. 0 \in 0 .. Cardinality(S) - 1
    BY <1>1
  <2> QED
    BY <2>1, <2>2 DEF Surjection
<1>3. {x \in S : x < p} = {}
  <2>1. IsFiniteSet({x \in S : x < p})
    BY <1>1, FS_Subset
  <2> QED
    BY <1>2, <2>1, FS_EmptySet DEF RankIn
<1> QED
  BY <1>1, <1>3

-----------------------------------------------------------------------------
\* a queue stays a queue of slots, within its capacity
LEMMA EnqueueAllType ==
  ASSUME NEW q \in Seq(Proc), NEW s \in Seq(Proc)
  PROVE  EnqueueAll(q, s) \in Seq(Proc) /\ Len(EnqueueAll(q, s)) <= QueueCapacity
<1> DEFINE all == q \o s
<1> DEFINE n == IF Len(all) > QueueCapacity THEN QueueCapacity ELSE Len(all)
<1>1. all \in Seq(Proc) /\ Len(all) \in Nat
  OBVIOUS
<1>2. n \in Nat /\ n <= Len(all) /\ n <= QueueCapacity
  BY <1>1, NPROCAssumption DEF QueueCapacity
<1>3. EnqueueAll(q, s) = [i \in 1 .. n |-> all[i]]
  BY DEF EnqueueAll
<1>4. ASSUME NEW i \in 1 .. n PROVE all[i] \in Proc
  <2> HIDE DEF all, n
  <2>1. i \in 1 .. Len(all)
    BY <1>1, <1>2
  <2> QED
    BY <1>1, <2>1
<1> HIDE DEF all, n
<1>5. [i \in 1 .. n |-> all[i]] \in [1 .. n -> Proc]
  BY <1>4
<1> QED
  BY <1>2, <1>3, <1>5

LEMMA EnqueueType ==
  ASSUME NEW q \in Seq(Proc), NEW p \in Proc
  PROVE  Enqueue(q, p) \in Seq(Proc)
<1>1. <<p>> \in Seq(Proc)
  OBVIOUS
<1> QED
  BY <1>1, EnqueueAllType DEF Enqueue

LEMMA EmptyMlfqType == EmptyMlfq \in Mlfq
<1>1. [l \in QLevel |-> <<>>] \in [QLevel -> Seq(Proc)]
  OBVIOUS
<1>2. [p \in Proc |-> 0] \in [Proc -> Nat]
  OBVIOUS
<1> QED
  BY <1>1, <1>2 DEF EmptyMlfq, Mlfq

LEMMA InsertMlfqType ==
  ASSUME NEW m \in Mlfq, NEW W \in SUBSET Proc, NEW lev
  PROVE  InsertMlfq(m, W, lev) \in Mlfq
<1> DEFINE leveled(l) == {p \in W : lev[p] = l}
<1> DEFINE heaped == {p \in W : lev[p] \notin QLevel}
<1> DEFINE fit == {p \in heaped : RankIn(heaped, p) < NPROC - HeapSize(m)}
<1>1. ASSUME NEW l \in QLevel
      PROVE  EnqueueAll(m.q[l], SlotOrder(leveled(l))) \in Seq(Proc)
  <2>1. m.q[l] \in Seq(Proc)
    BY DEF Mlfq
  <2>2. leveled(l) \in SUBSET Proc
    OBVIOUS
  <2>3. SlotOrder(leveled(l)) \in Seq(Proc)
    <3> HIDE DEF leveled
    <3> QED
      BY <2>2, SlotOrderAt
  <2> QED
    BY <2>1, <2>3, EnqueueAllType
<1>2. ASSUME NEW p \in Proc
      PROVE  m.cnt[p] + (IF p \in fit THEN 1 ELSE 0) \in Nat
  <2>1. m.cnt[p] \in Nat
    BY DEF Mlfq
  <2> HIDE DEF fit
  <2> QED
    BY <2>1
<1>3. InsertMlfq(m, W, lev) =
        [q   |-> [l \in QLevel |-> EnqueueAll(m.q[l], SlotOrder(leveled(l)))],
         cnt |-> [p \in Proc |-> m.cnt[p] + (IF p \in fit THEN 1 ELSE 0)]]
  BY DEF InsertMlfq
<1> HIDE DEF leveled, fit
<1> QED
  BY <1>1, <1>2, <1>3 DEF Mlfq

LEMMA DropHeadType ==
  ASSUME NEW m \in Mlfq, NEW l \in QLevel, m.q[l] # <<>>
  PROVE  /\ DropHead(m, l) \in Mlfq
         /\ Head(m.q[l]) \in Proc
<1>1. m.q[l] \in Seq(Proc)
  BY DEF Mlfq
<1>2. Tail(m.q[l]) \in Seq(Proc) /\ Head(m.q[l]) \in Proc
  BY <1>1, HeadTailProperties
<1>3. [m.q EXCEPT ![l] = Tail(m.q[l])] \in [QLevel -> Seq(Proc)]
  BY <1>2 DEF Mlfq
<1> QED
  BY <1>2, <1>3 DEF DropHead, Mlfq

LEMMA HeapRemoveType ==
  ASSUME NEW m \in Mlfq, NEW p \in HeapMembers(m)
  PROVE  HeapRemove(m, p) \in Mlfq
<1>1. m.cnt \in [Proc -> Nat] /\ p \in Proc /\ m.cnt[p] > 0
  BY DEF Mlfq, HeapMembers
<1>2. [m.cnt EXCEPT ![p] = m.cnt[p] - 1] \in [Proc -> Nat]
  BY <1>1
<1> QED
  BY <1>2 DEF HeapRemove, Mlfq

-----------------------------------------------------------------------------
(* Who waits where: as long as no queue is full, nothing is dropped *)

Once(s) == \A i, j \in 1 .. Len(s) : s[i] = s[j] => i = j
Holds(s, p) == \E i \in 1 .. Len(s) : s[i] = p

\* p waits in the MLFQ at level l, 3 being the heap
Waits(m, p, l) == (l \in QLevel /\ Holds(m.q[l], p)) \/ (l = 3 /\ m.cnt[p] > 0)
Level == 0 .. 3

\* no process waits twice
Single(m) ==
  /\ \A l \in QLevel : Once(m.q[l])
  /\ \A p \in Proc : m.cnt[p] <= 1
  /\ \A p \in Proc : \A l, k \in Level : Waits(m, p, l) /\ Waits(m, p, k) => l = k

\* a queue without repetitions is no longer than the set its members are from
LEMMA OnceShort ==
  ASSUME NEW T \in SUBSET Proc, NEW s \in Seq(Proc), Once(s),
         \A i \in 1 .. Len(s) : s[i] \in T
  PROVE  Len(s) <= Cardinality(T)
<1>1. s \in Injection(1 .. Len(s), T)
  <2>1. s \in [1 .. Len(s) -> T]
    OBVIOUS
  <2> QED
    BY <2>1 DEF Once, Injection, IsInjective
<1>2. IsFiniteSet(T) /\ Cardinality(T) \in Nat
  BY ProcFinite
<1>3. Cardinality(1 .. Len(s)) = Len(s)
  <2>1. Len(s) \in Nat
    OBVIOUS
  <2> QED
    BY <2>1, FS_Interval
<1> QED
  BY <1>1, <1>2, <1>3, FS_Injection

\* a scan of the table visits each slot of S, and none twice
LEMMA SlotOrderOnce ==
  ASSUME NEW S \in SUBSET Proc
  PROVE  /\ SlotOrder(S) \in Seq(Proc) /\ Once(SlotOrder(S))
         /\ \A p \in Proc : Holds(SlotOrder(S), p) <=> p \in S
<1> DEFINE s == SlotOrder(S)
<1>1. /\ s \in Seq(S) /\ Len(s) = Cardinality(S) /\ Cardinality(S) \in Nat
      /\ \A i \in 1 .. Len(s) : RankIn(S, s[i]) = i - 1
  BY SlotOrderAt, ProcFinite
<1> HIDE DEF s
<1>2. s \in Seq(Proc) /\ \A i \in 1 .. Len(s) : s[i] \in S
  BY <1>1
<1>3. Once(s)
  <2> SUFFICES ASSUME NEW i \in 1 .. Len(s), NEW j \in 1 .. Len(s), s[i] = s[j] PROVE i = j
    BY DEF Once
  <2>1. i - 1 = j - 1
    BY <1>1
  <2> QED
    BY <1>1, <2>1
<1>4. ASSUME NEW p \in S PROVE Holds(s, p)
  <2>1. /\ RankIn(S, p) \in 0 .. Cardinality(S) - 1
        /\ \A x \in S : RankIn(S, x) = RankIn(S, p) => x = p
    <3>1. PICK r : r = [x \in S |-> RankIn(S, x)]
      OBVIOUS
    <3>2. r \in Injection(S, 0 .. Cardinality(S) - 1)
      BY <3>1, RankBijection DEF Bijection
    <3>3. r \in [S -> 0 .. Cardinality(S) - 1] /\ \A x, y \in S : r[x] = r[y] => x = y
      BY <3>2 DEF Injection, IsInjective
    <3> QED
      BY <3>1, <3>3
  <2>2. PICK i \in 1 .. Len(s) : i = RankIn(S, p) + 1
    BY <1>1, <2>1
  <2>3. RankIn(S, s[i]) = RankIn(S, p) /\ s[i] \in S
    BY <1>1, <1>2, <2>1, <2>2
  <2> QED
    BY <2>1, <2>3 DEF Holds
<1> QED
  BY <1>2, <1>3, <1>4 DEF Holds, s

\* insertqueue(), called for members that are not in the queue, inserts them all as long
\* as one process stays outside
LEMMA EnqueueAllOnce ==
  ASSUME NEW q \in Seq(Proc), NEW s \in Seq(Proc), Once(q), Once(s),
         \A p \in Proc : ~ (Holds(q, p) /\ Holds(s, p)),
         NEW u \in Proc, ~ Holds(q, u), ~ Holds(s, u)
  PROVE  /\ Once(EnqueueAll(q, s))
         /\ \A p \in Proc : Holds(EnqueueAll(q, s), p) <=> Holds(q, p) \/ Holds(s, p)
<1> DEFINE all == q \o s
<1>1. /\ all \in Seq(Proc) /\ Len(all) = Len(q) + Len(s) /\ Len(q) \in Nat /\ Len(s) \in Nat
      /\ \A i \in 1 .. Len(q) : all[i] = q[i]
      /\ \A i \in 1 .. Len(s) : all[Len(q) + i] = s[i]
      /\ \A i \in 1 .. Len(all) : i \in 1 .. Len(q) \/ i - Len(q) \in 1 .. Len(s)
      /\ \A i \in 1 .. Len(all) : i \notin 1 .. Len(q) => all[i] = s[i - Len(q)]
  OBVIOUS
<1> HIDE DEF all
<1>2. \A p \in Proc : Holds(all, p) <=> Holds(q, p) \/ Holds(s, p)
  <2> SUFFICES ASSUME NEW p \in Proc PROVE Holds(all, p) <=> Holds(q, p) \/ Holds(s, p)
    OBVIOUS
  <2>1. ASSUME NEW i \in 1 .. Len(q), q[i] = p PROVE Holds(all, p)
    <3>1. i \in 1 .. Len(all) /\ all[i] = p
      BY <1>1, <2>1
    <3> QED
      BY <3>1 DEF Holds
  <2>2. ASSUME NEW i \in 1 .. Len(s), s[i] = p PROVE Holds(all, p)
    <3>1. Len(q) + i \in 1 .. Len(all) /\ all[Len(q) + i] = p
      BY <1>1, <2>2
    <3> QED
      BY <3>1 DEF Holds
  <2>3. ASSUME NEW i \in 1 .. Len(all), all[i] = p PROVE Holds(q, p) \/ Holds(s, p)
    BY <1>1, <2>3 DEF Holds
  <2> QED
    BY <2>1, <2>2, <2>3 DEF Holds
<1>3. Once(all)
  <2> SUFFICES ASSUME NEW i \in 1 .. Len(all), NEW j \in 1 .. Len(all), all[i] = all[j]
               PROVE  i = j
    BY DEF Once
  <2>0. all[i] \in Proc /\ i \in Int /\ j \in Int
    BY <1>1
  <2>1. CASE i \in 1 .. Len(q) /\ j \in 1 .. Len(q)
    BY <1>1, <2>1 DEF Once
  <2>2. CASE i \notin 1 .. Len(q) /\ j \notin 1 .. Len(q)
    <3>1. PICK k, n : k = i - Len(q) /\ n = j - Len(q)
      OBVIOUS
    <3>2. k \in 1 .. Len(s) /\ n \in 1 .. Len(s) /\ s[k] = s[n]
      BY <1>1, <2>2, <3>1
    <3>3. k = n
      BY <3>2 DEF Once
    <3> QED
      BY <1>1, <2>0, <3>1, <3>3
  <2>3. CASE i \in 1 .. Len(q) /\ j \notin 1 .. Len(q)
    <3>1. Holds(q, all[i]) /\ Holds(s, all[i])
      BY <1>1, <2>3 DEF Holds
    <3> QED
      BY <2>0, <3>1
  <2>4. CASE i \notin 1 .. Len(q) /\ j \in 1 .. Len(q)
    <3>1. Holds(q, all[i]) /\ Holds(s, all[i])
      BY <1>1, <2>4 DEF Holds
    <3> QED
      BY <2>0, <3>1
  <2> QED
    BY <2>1, <2>2, <2>3, <2>4
<1>4. Len(all) <= QueueCapacity
  <2>1. \A i \in 1 .. Len(all) : all[i] \in Proc \ {u}
    BY <1>1, <1>2 DEF Holds
  <2>2. Cardinality(Proc \ {u}) = NPROC - 1
    <3>1. Cardinality(Proc) = NPROC
      BY FS_Interval, NPROCAssumption DEF Proc
    <3> QED
      BY <3>1, ProcFinite, FS_RemoveElement
  <2>3. Len(all) <= Cardinality(Proc \ {u})
    BY <1>1, <1>3, <2>1, OnceShort
  <2> QED
    BY <2>2, <2>3 DEF QueueCapacity
<1>5. EnqueueAll(q, s) = all
  <2>1. EnqueueAll(q, s) = [i \in 1 .. Len(all) |-> all[i]]
    BY <1>1, <1>4, NPROCAssumption DEF EnqueueAll, QueueCapacity, all
  <2> QED
    BY <1>1, <2>1
<1> QED
  BY <1>2, <1>3, <1>5

\* the size of the heap is the number of its members, when none is in it twice
LEMMA HeapSizeIs ==
  ASSUME NEW m \in Mlfq, \A p \in Proc : m.cnt[p] <= 1
  PROVE  HeapSize(m) = Cardinality(HeapMembers(m))
<1> DEFINE E == {e \in Proc \X (1 .. NPROC) : e[2] <= m.cnt[e[1]]}
<1> DEFINE f == [p \in HeapMembers(m) |-> <<p, 1>>]
<1>1. \A p \in Proc : m.cnt[p] \in {0, 1}
  BY DEF Mlfq
<1>2. IsFiniteSet(HeapMembers(m))
  BY ProcFinite DEF HeapMembers
<1>3. ASSUME NEW p \in HeapMembers(m) PROVE <<p, 1>> \in E
  BY <1>1, <1>3, NPROCAssumption DEF HeapMembers
<1>4. ASSUME NEW e \in E PROVE e[1] \in HeapMembers(m) /\ e = <<e[1], 1>>
  BY <1>1, <1>4, NPROCAssumption DEF HeapMembers
<1> HIDE DEF E
<1>5. f \in Injection(HeapMembers(m), E)
  <2>1. f \in [HeapMembers(m) -> E]
    BY <1>3
  <2> QED
    BY <2>1 DEF Injection, IsInjective
<1>6. f \in Surjection(HeapMembers(m), E)
  <2>1. ASSUME NEW e \in E PROVE \E p \in HeapMembers(m) : f[p] = e
    BY <1>4
  <2> QED
    BY <1>3, <2>1 DEF Surjection
<1>7. ExistsBijection(HeapMembers(m), E)
  BY <1>5, <1>6 DEF ExistsBijection, Bijection
<1> QED
  BY <1>2, <1>7, FS_Bijection DEF HeapSize, E

\* the heap has room for every process that is not in it
LEMMA HeapHasRoom ==
  ASSUME NEW m \in Mlfq, \A p \in Proc : m.cnt[p] <= 1, NEW S \in SUBSET Proc,
         S \cap HeapMembers(m) = {}, NEW p \in S
  PROVE  RankIn(S, p) < NPROC - HeapSize(m)
<1> DEFINE B == {x \in S : x < p}
<1> DEFINE H == HeapMembers(m)
<1>1. /\ B \in SUBSET (Proc \ {p}) /\ H \in SUBSET (Proc \ {p}) /\ B \cap H = {}
  <2>1. p \in Int /\ ~ (p < p)
    BY NPROCAssumption DEF Proc
  <2>2. B \in SUBSET (Proc \ {p}) /\ p \notin H
    BY <2>1
  <2>3. H \in SUBSET Proc
    BY Zenon DEF HeapMembers
  <2> QED
    BY <2>2, <2>3
<1>2. Cardinality(Proc \ {p}) = NPROC - 1 /\ IsFiniteSet(Proc \ {p})
  <2>1. Cardinality(Proc) = NPROC
    BY FS_Interval, NPROCAssumption DEF Proc
  <2> QED
    BY <2>1, ProcFinite, FS_RemoveElement
<1>3. /\ IsFiniteSet(B) /\ Cardinality(B) \in Nat
      /\ IsFiniteSet(H) /\ Cardinality(H) \in Nat
  BY <1>1, ProcFinite
<1>4. HeapSize(m) = Cardinality(H)
  BY HeapSizeIs
<1>5. RankIn(S, p) = Cardinality(B)
  BY DEF RankIn
<1> HIDE DEF B, H
<1>6. Cardinality(B \cup H) = Cardinality(B) + Cardinality(H)
  <2>1. Cardinality(B \cap H) = 0
    BY <1>1, FS_EmptySet
  <2>2. Cardinality(B \cup H) = Cardinality(B) + Cardinality(H) - Cardinality(B \cap H)
    BY <1>3, FS_Union, Zenon
  <2> QED
    BY <1>3, <2>1, <2>2
<1>7. Cardinality(B \cup H) <= NPROC - 1
  <2>1. B \cup H \in SUBSET (Proc \ {p})
    BY <1>1
  <2> QED
    BY <1>2, <2>1, FS_Subset
<1> QED
  BY <1>3, <1>4, <1>5, <1>6, <1>7, NPROCAssumption

\* insertmlfq() of processes that do not wait yet puts each at its level, once
LEMMA InsertMlfqSingle ==
  ASSUME NEW m \in Mlfq, Single(m), NEW W \in SUBSET Proc, NEW lev,
         \A p \in W : lev[p] \in Level,
         \A p \in W : \A l \in Level : ~ Waits(m, p, l),
         NEW u \in Proc, u \notin W, \A l \in Level : ~ Waits(m, u, l)
  PROVE  /\ Single(InsertMlfq(m, W, lev))
         /\ \A p \in Proc, l \in Level :
              Waits(InsertMlfq(m, W, lev), p, l) <=> Waits(m, p, l) \/ (p \in W /\ lev[p] = l)
<1> DEFINE on(l) == {p \in W : lev[p] = l}
<1> DEFINE heaped == {p \in W : lev[p] \notin QLevel}
<1> DEFINE fit == {p \in heaped : RankIn(heaped, p) < NPROC - HeapSize(m)}
<1> DEFINE n == InsertMlfq(m, W, lev)
<1>1. n = [q   |-> [l \in QLevel |-> EnqueueAll(m.q[l], SlotOrder(on(l)))],
           cnt |-> [p \in Proc |-> m.cnt[p] + (IF p \in fit THEN 1 ELSE 0)]]
  BY DEF InsertMlfq
<1>2. QLevel \subseteq Level /\ 3 \in Level /\ \A l \in Level : l \in QLevel <=> l # 3
  BY DEF QLevel, Level
<1>3. m.q \in [QLevel -> Seq(Proc)] /\ m.cnt \in [Proc -> Nat]
  BY DEF Mlfq
<1>4. ASSUME NEW l \in QLevel
      PROVE  /\ Once(n.q[l])
             /\ \A p \in Proc : Holds(n.q[l], p) <=> Holds(m.q[l], p) \/ p \in on(l)
  <2>1. on(l) \in SUBSET Proc
    OBVIOUS
  <2>2. /\ SlotOrder(on(l)) \in Seq(Proc) /\ Once(SlotOrder(on(l)))
        /\ \A p \in Proc : Holds(SlotOrder(on(l)), p) <=> p \in on(l)
    <3> HIDE DEF on
    <3> QED
      BY <2>1, SlotOrderOnce
  <2>3. \A p \in Proc : ~ (Holds(m.q[l], p) /\ p \in on(l))
    BY <1>2 DEF Waits
  <2>4. ~ Holds(m.q[l], u) /\ u \notin on(l)
    BY <1>2 DEF Waits
  <2>5. m.q[l] \in Seq(Proc) /\ Once(m.q[l])
    BY <1>3 DEF Single
  <2>6. n.q[l] = EnqueueAll(m.q[l], SlotOrder(on(l)))
    BY <1>1
  <2> HIDE DEF on, n
  <2> QED
    BY <2>2, <2>3, <2>4, <2>5, <2>6, EnqueueAllOnce
<1>5. fit = heaped
  <2>1. heaped \in SUBSET Proc /\ heaped \cap HeapMembers(m) = {}
    <3>1. ASSUME NEW p \in heaped PROVE p \notin HeapMembers(m)
      BY <1>2, <3>1 DEF Waits, HeapMembers
    <3> QED
      BY <3>1
  <2>2. \A p \in Proc : m.cnt[p] <= 1
    BY DEF Single
  <2> HIDE DEF heaped
  <2> QED
    BY <2>1, <2>2, HeapHasRoom
<1>6. \A p \in heaped : lev[p] = 3
  BY <1>2
<1>7. ASSUME NEW p \in Proc
      PROVE  n.cnt[p] \in {0, 1} /\ (n.cnt[p] > 0 <=> m.cnt[p] > 0 \/ (p \in W /\ lev[p] = 3))
  <2>1. n.cnt[p] = m.cnt[p] + (IF p \in heaped THEN 1 ELSE 0)
    <3> HIDE DEF heaped, fit
    <3> QED
      BY <1>1, <1>5
  <2>2. m.cnt[p] \in {0, 1}
    BY <1>3 DEF Single
  <2>3. p \in heaped <=> p \in W /\ lev[p] = 3
    BY <1>2, <1>6
  <2>4. p \in W => m.cnt[p] = 0
    BY <1>2, <2>2 DEF Waits
  <2> HIDE DEF heaped, fit, n
  <2> QED
    BY <2>1, <2>2, <2>3, <2>4
<1> HIDE DEF n
<1>8. ASSUME NEW p \in Proc, NEW l \in Level
      PROVE  Waits(n, p, l) <=> Waits(m, p, l) \/ (p \in W /\ lev[p] = l)
  BY <1>2, <1>4, <1>7 DEF Waits
<1>9. ASSUME NEW p \in Proc, NEW l \in Level, NEW k \in Level, Waits(n, p, l), Waits(n, p, k)
      PROVE  l = k
  <2>1. CASE p \in W
    BY <1>8, <1>9, <2>1
  <2>2. CASE p \notin W
    BY <1>8, <1>9, <2>2 DEF Single
  <2> QED
    BY <2>1, <2>2
<1>10. Single(n)
  BY <1>4, <1>7, <1>9 DEF Single
<1> QED
  BY <1>8, <1>10 DEF n

LEMMA EmptySingle ==
  Single(EmptyMlfq) /\ \A p \in Proc, l \in Level : ~ Waits(EmptyMlfq, p, l)
<1>1. \A l \in QLevel : EmptyMlfq.q[l] = <<>>
  BY DEF EmptyMlfq
<1>2. \A p \in Proc : EmptyMlfq.cnt[p] = 0
  BY DEF EmptyMlfq
<1>3. \A p \in Proc, l \in Level : ~ Waits(EmptyMlfq, p, l)
  BY <1>1, <1>2 DEF Waits, Holds
<1>4. \A l \in QLevel : Once(EmptyMlfq.q[l])
  BY <1>1 DEF Once
<1> QED
  BY <1>2, <1>3, <1>4 DEF Single

\* the head of a queue leaves it, the others keep their places
LEMMA DropHeadSingle ==
  ASSUME NEW m \in Mlfq, Single(m), NEW l \in QLevel, m.q[l] # <<>>
  PROVE  /\ Single(DropHead(m, l)) /\ Waits(m, Head(m.q[l]), l)
         /\ \A p \in Proc, k \in Level :
              Waits(DropHead(m, l), p, k) <=> Waits(m, p, k) /\ p # Head(m.q[l])
<1> DEFINE s == m.q[l]
<1> DEFINE n == DropHead(m, l)
<1>1. /\ m.q \in [QLevel -> Seq(Proc)] /\ m.cnt \in [Proc -> Nat]
      /\ s \in Seq(Proc) /\ s # <<>> /\ Once(s)
  BY DEF Mlfq, Single
<1>2. n.q = [m.q EXCEPT ![l] = Tail(s)] /\ n.cnt = m.cnt
  BY DEF DropHead, Mlfq
<1>3. n.q[l] = Tail(s) /\ \A k \in QLevel : k # l => n.q[k] = m.q[k]
  BY <1>1, <1>2
<1> HIDE DEF s, n
<1>4. /\ Len(s) \in Nat /\ Len(s) > 0 /\ Len(Tail(s)) = Len(s) - 1 /\ Head(s) = s[1]
      /\ \A i \in 1 .. Len(Tail(s)) : Tail(s)[i] = s[i + 1]
  BY <1>1
<1>5. Once(Tail(s))
  <2> SUFFICES ASSUME NEW i \in 1 .. Len(Tail(s)), NEW j \in 1 .. Len(Tail(s)),
                      Tail(s)[i] = Tail(s)[j]
               PROVE  i = j
    BY DEF Once
  <2>1. i + 1 \in 1 .. Len(s) /\ j + 1 \in 1 .. Len(s) /\ s[i + 1] = s[j + 1]
    BY <1>4
  <2>2. i + 1 = j + 1
    BY <1>1, <2>1 DEF Once
  <2> QED
    BY <2>2
<1>6. ASSUME NEW p \in Proc PROVE Holds(Tail(s), p) <=> Holds(s, p) /\ p # Head(s)
  <2>1. ASSUME NEW i \in 1 .. Len(Tail(s)), Tail(s)[i] = p PROVE Holds(s, p) /\ p # Head(s)
    <3>1. i + 1 \in 1 .. Len(s) /\ s[i + 1] = p /\ i + 1 # 1 /\ 1 \in 1 .. Len(s)
      BY <1>4, <2>1
    <3> QED
      BY <1>1, <1>4, <3>1 DEF Holds, Once
  <2>2. ASSUME NEW i \in 1 .. Len(s), s[i] = p, p # Head(s) PROVE Holds(Tail(s), p)
    <3>1. i - 1 \in 1 .. Len(Tail(s)) /\ Tail(s)[i - 1] = p
      BY <1>4, <2>2
    <3> QED
      BY <3>1 DEF Holds
  <2> QED
    BY <2>1, <2>2 DEF Holds
<1>7. Waits(m, Head(s), l) /\ Head(s) \in Proc
  BY <1>1, <1>4 DEF Waits, Holds, s
<1>8. QLevel \subseteq Level /\ l \in Level /\ l # 3
  BY DEF QLevel, Level
<1>9. ASSUME NEW p \in Proc, NEW k \in Level
      PROVE  Waits(n, p, k) <=> Waits(m, p, k) /\ p # Head(s)
  <2>1. CASE k = l
    BY <1>3, <1>6, <1>8, <2>1 DEF Waits, s
  <2>2. CASE k # l
    <3>1. Waits(n, p, k) <=> Waits(m, p, k)
      BY <1>2, <1>3, <2>2 DEF Waits
    <3>2. Waits(m, p, k) => p # Head(s)
      BY <1>7, <1>8, <2>2 DEF Single
    <3> QED
      BY <3>1, <3>2
  <2> QED
    BY <2>1, <2>2
<1>10. Single(n)
  <2>1. \A k \in QLevel : Once(n.q[k])
    BY <1>3, <1>5 DEF Single
  <2> QED
    BY <1>2, <1>9, <2>1 DEF Single
<1> QED
  BY <1>7, <1>9, <1>10 DEF n, s

\* the same for a member of the heap
LEMMA HeapRemoveSingle ==
  ASSUME NEW m \in Mlfq, Single(m), NEW r \in HeapMembers(m)
  PROVE  /\ Single(HeapRemove(m, r)) /\ Waits(m, r, 3)
         /\ \A p \in Proc, k \in Level :
              Waits(HeapRemove(m, r), p, k) <=> Waits(m, p, k) /\ p # r
<1> DEFINE n == HeapRemove(m, r)
<1>1. m.cnt \in [Proc -> Nat] /\ r \in Proc /\ m.cnt[r] = 1
  BY DEF Mlfq, HeapMembers, Single
<1>2. n.q = m.q /\ n.cnt = [m.cnt EXCEPT ![r] = m.cnt[r] - 1]
  BY DEF HeapRemove, Mlfq
<1>3. \A p \in Proc : n.cnt[p] = IF p = r THEN 0 ELSE m.cnt[p]
  BY <1>1, <1>2
<1>4. Waits(m, r, 3) /\ 3 \in Level /\ 3 \notin QLevel
  BY <1>1 DEF Waits, Level, QLevel
<1> HIDE DEF n
<1>5. ASSUME NEW p \in Proc, NEW k \in Level PROVE Waits(n, p, k) <=> Waits(m, p, k) /\ p # r
  <2>1. CASE k = 3
    BY <1>3, <1>4, <2>1 DEF Waits
  <2>2. CASE k # 3
    <3>1. Waits(n, p, k) <=> Waits(m, p, k)
      BY <1>2, <2>2 DEF Waits
    <3>2. Waits(m, p, k) => p # r
      BY <1>1, <1>4, <2>2 DEF Single
    <3> QED
      BY <3>1, <3>2
  <2> QED
    BY <2>1, <2>2
<1>6. Single(n)
  <2>1. \A p \in Proc : n.cnt[p] <= 1
    BY <1>3 DEF Single
  <2> QED
    BY <1>2, <1>5, <2>1 DEF Single
<1> QED
  BY <1>4, <1>5, <1>6 DEF n

\* the number of entries of a process, from where it waits
LEMMA EntriesIs ==
  ASSUME NEW m \in Mlfq, Single(m), NEW u \in Proc, \A l \in Level : ~ Waits(m, u, l),
         NEW p \in Proc
  PROVE  /\ (\E l \in Level : Waits(m, p, l)) => Entries(m, p) = 1
         /\ (\A l \in Level : ~ Waits(m, p, l)) => Entries(m, p) = 0
         /\ \A e \in QueueEntries(m, p) : Waits(m, p, e[1])
<1> DEFINE E == QueueEntries(m, p)
<1>1. QLevel \subseteq Level /\ 3 \in Level /\ 3 \notin QLevel /\ \A l \in Level : l = 3 \/ l \in QLevel
  BY DEF QLevel, Level
<1>2. m.q \in [QLevel -> Seq(Proc)] /\ m.cnt \in [Proc -> Nat]
  BY DEF Mlfq
<1>3. ASSUME NEW e \in E PROVE /\ e = <<e[1], e[2]>> /\ e[1] \in QLevel /\ Waits(m, p, e[1])
                               /\ e[2] \in 1 .. Len(m.q[e[1]]) /\ m.q[e[1]][e[2]] = p
  <2>1. /\ e \in QLevel \X (1 .. QueueCapacity)
        /\ e[2] <= Len(m.q[e[1]]) /\ m.q[e[1]][e[2]] = p
    BY <1>3 DEF QueueEntries
  <2>2. e[2] \in Nat /\ e[2] >= 1 /\ Len(m.q[e[1]]) \in Nat /\ e[1] \in QLevel
    BY <1>2, <2>1, NPROCAssumption DEF QueueCapacity
  <2> QED
    BY <2>1, <2>2 DEF Waits, Holds
<1>4. ASSUME \A l \in QLevel : ~ Waits(m, p, l) PROVE Cardinality(E) = 0
  <2>1. E = {}
    BY <1>3, <1>4
  <2> QED
    BY <2>1, FS_EmptySet
<1>5. ASSUME NEW l \in QLevel, Waits(m, p, l) PROVE Cardinality(E) = 1 /\ m.cnt[p] = 0
  <2>1. PICK i \in 1 .. Len(m.q[l]) : m.q[l][i] = p
    BY <1>1, <1>5 DEF Waits, Holds
  <2>2. Len(m.q[l]) <= QueueCapacity
    <3>1. \A j \in 1 .. Len(m.q[l]) : m.q[l][j] \in Proc \ {u}
      BY <1>1, <1>2 DEF Waits, Holds
    <3>2. Cardinality(Proc \ {u}) = NPROC - 1
      <4>1. Cardinality(Proc) = NPROC
        BY FS_Interval, NPROCAssumption DEF Proc
      <4> QED
        BY <4>1, ProcFinite, FS_RemoveElement
    <3>3. m.q[l] \in Seq(Proc) /\ Once(m.q[l])
      BY <1>2 DEF Single
    <3> QED
      BY <3>1, <3>2, <3>3, OnceShort DEF QueueCapacity
  <2>3. <<l, i>> \in E
    <3>1. Len(m.q[l]) \in Nat /\ QueueCapacity \in Nat
      BY <1>2, NPROCAssumption DEF QueueCapacity
    <3>2. i \in 1 .. QueueCapacity /\ i <= Len(m.q[l])
      BY <2>1, <2>2, <3>1
    <3> QED
      BY <2>1, <3>2 DEF QueueEntries
  <2>4. ASSUME NEW e \in E PROVE e = <<l, i>>
    <3>1. e[1] = l
      BY <1>1, <1>3, <1>5, <2>4 DEF Single
    <3>2. e[2] = i
      BY <1>3, <2>1, <2>4, <3>1 DEF Single, Once
    <3> QED
      BY <1>3, <2>4, <3>1, <3>2
  <2>5. E = {<<l, i>>}
    BY <2>3, <2>4
  <2>6. m.cnt[p] = 0
    <3>1. ~ Waits(m, p, 3)
      BY <1>1, <1>5 DEF Single
    <3> QED
      BY <1>2, <3>1 DEF Waits
  <2> QED
    BY <2>5, <2>6, FS_Singleton
<1>6. Entries(m, p) = Cardinality(E) + m.cnt[p]
  BY DEF Entries
<1>7. m.cnt[p] \in {0, 1} /\ (m.cnt[p] = 1 <=> Waits(m, p, 3))
  <2>1. m.cnt[p] \in Nat /\ m.cnt[p] <= 1
    BY <1>2 DEF Single
  <2> QED
    BY <1>1, <2>1 DEF Waits
<1> HIDE DEF E
<1>8. ASSUME NEW l \in Level, Waits(m, p, l) PROVE Entries(m, p) = 1
  <2>1. CASE l = 3
    <3>1. \A k \in QLevel : ~ Waits(m, p, k)
      BY <1>1, <1>8, <2>1 DEF Single
    <3> QED
      BY <1>4, <1>6, <1>7, <1>8, <2>1, <3>1
  <2>2. CASE l \in QLevel
    BY <1>5, <1>6, <1>8, <2>2
  <2> QED
    BY <1>1, <2>1, <2>2
<1>9. ASSUME \A l \in Level : ~ Waits(m, p, l) PROVE Entries(m, p) = 0
  BY <1>1, <1>4, <1>6, <1>7, <1>9
<1> QED
  BY <1>3, <1>8, <1>9 DEF E

-----------------------------------------------------------------------------
(* The scheduler *)

\* What a CPU is doing, its process and the lock: a process that is given up by
\* its CPU stays with it until the scheduler has got ptable.lock back.
CpuInv ==
  /\ \A c \in CPUS : cproc[c] = NoProc <=> cpc[c] \in {"loop", "tickwake"}
  /\ \A c, d \in CPUS : c # d /\ cproc[c] = cproc[d] => cproc[c] = NoProc
  /\ \A c \in CPUS : cpc[c] \in {"resume", "run"} => state[cproc[c]] = "RUNNING"
  /\ \A c \in CPUS :
       cpc[c] = "back" => state[cproc[c]] \in {"RUNNABLE", "SLEEPING", "ZOMBIE"}
  /\ \A c \in CPUS : cpc[c] \in {"resume", "back"} => lock = c
  /\ \A p \in Proc :
       state[p] = "RUNNING" =>
         \E c \in CPUS : cproc[c] = p /\ cpc[c] \in {"resume", "run"}

\* The slot a fork() has allocated is its own until it is finished.
ForkInv ==
  /\ \A p \in Proc : at[p] = "fork" => np[p] \in Proc /\ state[np[p]] = "EMBRYO"
  /\ \A p, q \in Proc :
       p # q /\ at[p] = "fork" /\ at[q] = "fork" => np[p] # np[q]

Inv == TypeOK /\ CpuInv /\ ForkInv

-----------------------------------------------------------------------------
(* The type of what the actions compute *)

LEMMA ProcFacts ==
  /\ InitProc \in Proc
  /\ NoProc \notin Proc
  /\ Proc \subseteq Int
BY NPROCAssumption DEF Proc, InitProc, NoProc

\* a scan that stops at the first slot of a nonempty set stops in the set
LEMMA FirstSlotIn ==
  ASSUME NEW S \in SUBSET Proc, S # {}
  PROVE  FirstSlot(S) \in S
BY LeastSlot DEF FirstSlot

\* priorityboosting() leaves queues of slots, whatever states it reads
LEMMA BoostMlfqType == ASSUME NEW st PROVE BoostMlfq(st) \in Mlfq
<1>1. Boosted(st) \in SUBSET Proc
  BY DEF Boosted
<1> QED
  BY <1>1, EmptyMlfqType, InsertMlfqType DEF BoostMlfq

\* and sets the level and the quantum of the boosted slots to 0
LEMMA BoostFieldType ==
  ASSUME NEW st
  PROVE  /\ \A f \in [Proc -> Levels] : BoostField(st, f) \in [Proc -> Levels]
         /\ \A f \in [Proc -> Nat] : BoostField(st, f) \in [Proc -> Nat]
<1>1. 0 \in Levels
  BY DEF Levels
<1> QED
  BY <1>1 DEF BoostField

LEMMA RequeueType ==
  ASSUME NEW m \in Mlfq, NEW S \in SUBSET Proc
  PROVE  Requeue(m, S) \in Mlfq
<1>1. {p \in S : monopoly[p] = 0} \in SUBSET Proc
  OBVIOUS
<1> QED
  BY <1>1, InsertMlfqType DEF Requeue

LEMMA AfterQueuesType == ASSUME TypeOK PROVE AfterQueues \in Mlfq
<1>1. mlfq \in Mlfq
  BY DEF TypeOK
<1>2. ASSUME NEW l \in QLevel
      PROVE  (IF FirstQueue(l) THEN Tail(mlfq.q[l]) ELSE mlfq.q[l]) \in Seq(Proc)
  <2>1. mlfq.q[l] \in Seq(Proc)
    BY <1>1 DEF Mlfq
  <2>2. mlfq.q[l] # <<>> => Tail(mlfq.q[l]) \in Seq(Proc)
    BY <2>1, HeadTailProperties
  <2> QED
    BY <2>1, <2>2 DEF FirstQueue
<1> QED
  BY <1>1, <1>2 DEF AfterQueues, Mlfq

-----------------------------------------------------------------------------
(* CpuInv and ForkInv across the steps that do not concern them *)

\* the moves of a process that no CPU notices: a sleeper is woken, a slot that
\* is not in use yet is allocated, given back or made ready
QuietMove(p) ==
  \/ state'[p] = state[p]
  \/ state[p] = "SLEEPING" /\ state'[p] = "RUNNABLE"
  \/ state[p] \in {"UNUSED", "EMBRYO"} /\ state'[p] \in {"UNUSED", "EMBRYO", "RUNNABLE"}

LEMMA CpuQuiet ==
  ASSUME TypeOK, CpuInv, UNCHANGED <<lock, cpc, cproc>>,
         \A p \in Proc : QuietMove(p)
  PROVE  CpuInv'
<1>1. \A c \in CPUS : cproc[c] \in Proc \/ cproc[c] = NoProc
  BY DEF TypeOK
<1>2. ASSUME NEW c \in CPUS, cproc[c] # NoProc
      PROVE  /\ cpc[c] \in {"resume", "run"} => state'[cproc[c]] = "RUNNING"
             /\ cpc[c] = "back" => state'[cproc[c]] \in {"RUNNABLE", "SLEEPING", "ZOMBIE"}
  BY <1>1, <1>2 DEF CpuInv, QuietMove
<1>3. \A p \in Proc : state'[p] = "RUNNING" => state[p] = "RUNNING"
  BY DEF QuietMove
<1> QED
  BY <1>2, <1>3 DEF CpuInv

LEMMA ForkQuiet ==
  ASSUME ForkInv,
         \A p \in Proc : state[p] = "EMBRYO" => state'[p] = "EMBRYO",
         \A p \in Proc : at'[p] = "fork" => at[p] = "fork" /\ np'[p] = np[p]
  PROVE  ForkInv'
BY DEF ForkInv

-----------------------------------------------------------------------------
(* What the handovers of ptable.lock do to CpuInv *)

\* nobody is between a swtch() and the release of ptable.lock if it is free,
\* and only its holder is if it is not
LEMMA LockHolder ==
  ASSUME TypeOK, CpuInv
  PROVE  /\ LockFree => \A d \in CPUS : cpc[d] \notin {"resume", "back"}
         /\ \A c, d \in CPUS : lock = c /\ c # d => cpc[d] \notin {"resume", "back"}
BY CPUSAssumption DEF CpuInv, LockFree

LEMMA DispatchCpu ==
  ASSUME TypeOK, CpuInv, NEW c \in CPUS, NEW p \in Proc, NEW b,
         cpc[c] = "loop", LockFree, state[p] = "RUNNABLE", Dispatch(c, p, b)
  PROVE  CpuInv'
<1>1. \A d \in CPUS : cproc[d] # p
  <2>1. \A d \in CPUS : cpc[d] \notin {"resume", "back"}
    BY LockHolder
  <2>2. \A d \in CPUS : cpc[d] \in {"loop", "tickwake", "resume", "run", "back"}
    BY DEF TypeOK
  <2> QED
    BY <2>1, <2>2, ProcFacts DEF CpuInv
<1>2. /\ state' = [state EXCEPT ![p] = "RUNNING"] /\ state \in [Proc -> States]
      /\ cproc' = [cproc EXCEPT ![c] = p] /\ cproc \in [CPUS -> Proc \cup {NoProc}]
      /\ cpc' = [cpc EXCEPT ![c] = "resume"] /\ DOMAIN cpc = CPUS
      /\ lock' = c
  BY DEF Dispatch, TypeOK
<1>3. \A d \in CPUS : d # c => cpc[d] \notin {"resume", "back"}
  BY LockHolder
<1>4. p # NoProc
  BY ProcFacts
<1> QED
  BY <1>1, <1>2, <1>3, <1>4 DEF CpuInv

\* sched(): the process of c gives it up
LEMMA SwitchCpu ==
  ASSUME TypeOK, CpuInv, NEW c \in CPUS, NEW p \in Proc,
         cproc[c] = p, cpc[c] \in {"resume", "run"}, LockFree \/ lock = c,
         SwitchToScheduler(c), UNCHANGED cproc,
         state'[p] \in {"RUNNABLE", "SLEEPING", "ZOMBIE"},
         \A q \in Proc \ {p} : QuietMove(q)
  PROVE  CpuInv'
<1>1. /\ cpc' = [cpc EXCEPT ![c] = "back"] /\ DOMAIN cpc = CPUS /\ lock' = c
      /\ cproc \in [CPUS -> Proc \cup {NoProc}] /\ p # NoProc
  BY ProcFacts DEF SwitchToScheduler, TypeOK
<1>2. \A d \in CPUS : d # c => cpc[d] \notin {"resume", "back"} /\ cproc[d] # p
  <2>1. \A d \in CPUS : d # c => cpc[d] \notin {"resume", "back"}
    BY LockHolder
  <2> QED
    BY <2>1, ProcFacts DEF CpuInv
<1>3. \A d \in CPUS : d # c /\ cpc[d] = "run" => state'[cproc[d]] = "RUNNING"
  <2> SUFFICES ASSUME NEW d \in CPUS, d # c, cpc[d] = "run"
               PROVE  state'[cproc[d]] = "RUNNING"
    OBVIOUS
  <2>1. cproc[d] \in Proc \ {p} /\ state[cproc[d]] = "RUNNING"
    BY <1>1, <1>2 DEF CpuInv
  <2> QED
    BY <2>1 DEF QuietMove
<1>4. \A q \in Proc : state'[q] = "RUNNING" => q # p /\ state[q] = "RUNNING"
  BY DEF QuietMove
<1>5. \A d \in CPUS : cpc'[d] = IF d = c THEN "back" ELSE cpc[d]
  BY <1>1
<1>6. \A q \in Proc :
        state'[q] = "RUNNING" =>
          \E d \in CPUS : cproc[d] = q /\ d # c /\ cpc[d] \in {"resume", "run"}
  BY <1>4 DEF CpuInv
<1> QED
  BY <1>1, <1>2, <1>3, <1>5, <1>6 DEF CpuInv

\* the process c has switched to releases ptable.lock, and may reap a zombie
\* before it does
LEMMA ResumeCpu ==
  ASSUME TypeOK, CpuInv, NEW c \in CPUS,
         cpc[c] \in {"resume", "run"}, LockFree \/ lock = c,
         lock' = NoCpu, cpc' = [cpc EXCEPT ![c] = "run"], UNCHANGED cproc,
         \A q \in Proc : QuietMove(q) \/ (state[q] = "ZOMBIE" /\ state'[q] = "UNUSED")
  PROVE  CpuInv'
<1>1. /\ DOMAIN cpc = CPUS /\ cproc \in [CPUS -> Proc \cup {NoProc}]
      /\ cpc \in [CPUS -> {"loop", "tickwake", "resume", "run", "back"}]
  BY DEF TypeOK
<1>2. \A d \in CPUS : d # c => cpc[d] \notin {"resume", "back"}
  BY LockHolder
<1>3. \A d \in CPUS : cpc'[d] = IF d = c THEN "run" ELSE cpc[d]
  BY <1>1
<1>4. \A d \in CPUS : cpc'[d] = "run" => cproc[d] \in Proc /\ state[cproc[d]] = "RUNNING"
  BY <1>1, <1>3 DEF CpuInv
<1>5. \A q \in Proc : state'[q] = "RUNNING" <=> state[q] = "RUNNING"
  BY DEF QuietMove
<1> QED
  BY <1>1, <1>2, <1>3, <1>4, <1>5 DEF CpuInv

-----------------------------------------------------------------------------
(* Type correctness *)

\* the loop of scheduler() and the switches keep the types
LEMMA TypeScheduler ==
  ASSUME TypeOK, NEW c \in CPUS, SchedulerStep(c)
  PROVE  TypeOK'
<1>0. mlfq \in Mlfq /\ moq \in Seq(Proc)
  BY DEF TypeOK
<1>1. CASE PickQueue(c)
  <2>1. PICK l \in QLevel :
          /\ FirstQueue(l) /\ mlfq' = DropHead(mlfq, l)
          /\ Dispatch(c, Head(mlfq.q[l]), "mlfq")
    BY <1>1 DEF PickQueue
  <2>2. mlfq' \in Mlfq /\ Head(mlfq.q[l]) \in Proc
    BY <1>0, <2>1, DropHeadType DEF FirstQueue
  <2>3. UNCHANGED moq
    BY <1>1 DEF PickQueue
  <2> QED
    BY <2>1, <2>2, <2>3
    DEF TypeOK, Dispatch, States, procVars, schedVars, stackVars
<1>2. CASE PickHeap(c)
  <2>1. PICK p \in HeapMembers(mlfq) :
          mlfq' = HeapRemove(AfterQueues, p) /\ Dispatch(c, p, "mlfq")
    BY <1>2 DEF PickHeap
  <2>2. p \in Proc /\ p \in HeapMembers(AfterQueues)
    BY <1>0 DEF HeapMembers, AfterQueues, Mlfq
  <2>3. mlfq' \in Mlfq
    BY <2>1, <2>2, AfterQueuesType, HeapRemoveType
  <2>4. UNCHANGED moq
    BY <1>2 DEF PickHeap
  <2> QED
    BY <2>1, <2>2, <2>3, <2>4
    DEF TypeOK, Dispatch, States, procVars, schedVars, stackVars
<1>3. CASE PickHeapStale(c)
  <2>1. PICK p \in HeapMembers(mlfq) : mlfq' = HeapRemove(AfterQueues, p)
    BY <1>3 DEF PickHeapStale
  <2>2. p \in HeapMembers(AfterQueues)
    BY <1>0 DEF HeapMembers, AfterQueues, Mlfq
  <2>3. mlfq' \in Mlfq
    BY <2>1, <2>2, AfterQueuesType, HeapRemoveType
  <2> QED
    BY <1>3, <2>3
    DEF TypeOK, PickHeapStale, procVars, schedVars, cpuVars, stackVars
<1>4. CASE PickNone(c)
  <2>1. BoostMlfq(state) \in Mlfq /\ AfterQueues \in Mlfq
    BY BoostMlfqType, AfterQueuesType
  <2>2. /\ BoostField(state, level) \in [Proc -> Levels]
        /\ BoostField(state, tq) \in [Proc -> Nat]
    BY BoostFieldType DEF TypeOK
  <2> QED
    BY <1>4, <2>1, <2>2, BoundsAssumption
    DEF TypeOK, PickNone, procVars, cpuVars, stackVars
<1>5. CASE PickMoq(c)
  <2>1. Head(moq) \in Proc /\ Tail(moq) \in Seq(Proc)
    BY <1>0, <1>5, HeadTailProperties DEF PickMoq
  <2> QED
    BY <1>5, <2>1
    DEF TypeOK, PickMoq, Dispatch, States, procVars, schedVars, stackVars
<1>6. CASE RotateMoq(c)
  <2>1. Head(moq) \in Proc /\ Tail(moq) \in Seq(Proc)
    BY <1>0, <1>6, HeadTailProperties DEF RotateMoq
  <2>2. moq' \in Seq(Proc)
    BY <1>6, <2>1, EnqueueType DEF RotateMoq
  <2> QED
    BY <1>6, <2>2
    DEF TypeOK, RotateMoq, procVars, schedVars, cpuVars, stackVars
<1>7. CASE PickMoqEmpty(c)
  BY <1>7, BoundsAssumption
  DEF TypeOK, PickMoqEmpty, procVars, schedVars, queueVars, stackVars
<1>8. CASE AcquirePanic(c)
  BY <1>8
  DEF TypeOK, AcquirePanic, procVars, schedVars, queueVars, cpuVars, stackVars
<1>9. CASE SchedBack(c)
  <2>1. BoostMlfq(state) \in Mlfq
    BY BoostMlfqType
  <2>2. /\ BoostField(state, level) \in [Proc -> Levels]
        /\ BoostField(state, tq) \in [Proc -> Nat]
    BY BoostFieldType DEF TypeOK
  <2> QED
    BY <1>9, <2>1, <2>2, BoundsAssumption
    DEF TypeOK, SchedBack, procVars, stackVars
<1> QED
  BY <1>1, <1>2, <1>3, <1>4, <1>5, <1>6, <1>7, <1>8, <1>9 DEF SchedulerStep

\* yield() keeps the types, wherever it is called from
LEMMA TypeYield ==
  ASSUME TypeOK, NEW c \in CPUS, NEW p \in Proc, Yield(c, p)
  PROVE  TypeOK'
<1> DEFINE st == [state EXCEPT ![p] = "RUNNABLE"]
<1>1. st \in [Proc -> States] /\ NewTq(p) \in [Proc -> Nat]
  BY DEF TypeOK, States, NewTq
<1>2. BoostMlfq(st) \in Mlfq /\ Requeue(mlfq, {p}) \in Mlfq
  BY BoostMlfqType, RequeueType DEF TypeOK
<1>3. /\ BoostField(st, level) \in [Proc -> Levels]
      /\ BoostField(st, NewTq(p)) \in [Proc -> Nat]
  BY <1>1, BoostFieldType DEF TypeOK
<1>4. level' \in [Proc -> Levels] /\ tq' \in [Proc -> Nat] /\ ticks' \in 0 .. BoostPeriod
  <2>1. CASE cmono[c] = 0 /\ AtPeriod
    <3>1. level' = BoostField(st, level) /\ tq' = BoostField(st, NewTq(p)) /\ ticks' = 0
      BY <2>1 DEF Yield
    <3>2. 0 \in 0 .. BoostPeriod
      BY BoundsAssumption
    <3> HIDE DEF st
    <3> QED
      BY <1>3, <3>1, <3>2
  <2>2. CASE ~ (cmono[c] = 0 /\ AtPeriod)
    BY <1>1, <2>2 DEF TypeOK, Yield
  <2> QED
    BY <2>1, <2>2
<1>5. state' \in [Proc -> States] /\ mlfq' \in Mlfq
  BY <1>1, <1>2 DEF Yield
<1> QED
  BY <1>4, <1>5 DEF TypeOK, Yield, SwitchToScheduler, procVars, stackVars

\* wakeup(&ticks) keeps the types
LEMMA TypeWakeup ==
  ASSUME TypeOK, WakeupTicks
  PROVE  /\ state' \in [Proc -> States]
         /\ mlfq' \in Mlfq
<1>1. TickSleepers \in SUBSET Proc
  BY DEF TickSleepers
<1>2. mlfq' \in Mlfq
  BY <1>1, RequeueType DEF TypeOK, WakeupTicks
<1> QED
  BY <1>2 DEF TypeOK, WakeupTicks, Woken, States

\* the count of a quantum keeps the types
LEMMA TypeCount ==
  ASSUME TypeOK, NEW p \in Proc, Count(p)
  PROVE  /\ tq' \in [Proc -> Nat]
         /\ trap' \in [Proc -> Traps]
         /\ loclevel' \in [Proc -> Levels]
<1>1. tq' \in [Proc -> Nat]
  BY DEF TypeOK, Count
<1>2. CASE tq[p] + 1 >= Quantum(level[p])
  BY <1>1, <1>2 DEF TypeOK, Count, Traps
<1>3. CASE ~ (tq[p] + 1 >= Quantum(level[p]))
  BY <1>1, <1>3 DEF TypeOK, Count, Traps
<1> QED
  BY <1>2, <1>3

\* the timer interrupt keeps the types
LEMMA TypeTimer ==
  ASSUME TypeOK, NEW c \in CPUS, NEW p \in Proc,
         Timer(c, p) \/ TrapStep(c, p) \/ IdleTick(c) \/ IdleTickWakeup(c)
  PROVE  TypeOK'
<1>0. NextTick \in 0 .. BoostPeriod
  BY BoundsAssumption DEF TypeOK, NextTick
<1>1. CASE Tick(c, p)
  BY <1>0, <1>1
  DEF TypeOK, Tick, Traps, procVars, schedVars, queueVars, cpuVars
<1>2. CASE OtherTimer(c, p)
  BY <1>2 DEF TypeOK, OtherTimer, AfterIrq, Traps, Points, procVars, schedVars,
              queueVars, cpuVars
<1>3. CASE Resume(c, p)
  BY <1>3 DEF TypeOK, Resume, Traps, Points, procVars, schedVars, queueVars
<1>4. CASE TickWakeup(c, p)
  <2>1. state' \in [Proc -> States] /\ mlfq' \in Mlfq
    BY <1>4, TypeWakeup DEF TickWakeup
  <2> QED
    BY <1>4, <2>1 DEF TypeOK, TickWakeup, WakeupTicks, AfterIrq, Traps, Points,
                      procVars, schedVars
<1>5. CASE TrapAccount(c, p)
  <2>1. /\ tq' \in [Proc -> Nat] /\ trap' \in [Proc -> Traps]
        /\ loclevel' \in [Proc -> Levels]
    BY <1>5, TypeCount DEF TypeOK, TrapAccount, Traps
  <2> QED
    BY <1>5, <2>1 DEF TypeOK, TrapAccount, procVars, queueVars, cpuVars
<1>6. CASE TrapCount(c, p)
  <2>1. /\ tq' \in [Proc -> Nat] /\ trap' \in [Proc -> Traps]
        /\ loclevel' \in [Proc -> Levels]
    BY <1>6, TypeCount DEF TrapCount
  <2> QED
    BY <1>6, <2>1 DEF TypeOK, TrapCount, procVars, queueVars, cpuVars
<1>7. CASE TrapExpire(c, p)
  <2>1. NextLevel(p) \in Levels
    BY DEF TypeOK, NextLevel, Levels
  <2> QED
    BY <1>7, <2>1
    DEF TypeOK, TrapExpire, Traps, Levels, procVars, queueVars, cpuVars
<1>8. CASE TrapYield(c, p)
  BY <1>8, TypeYield DEF TrapYield
<1>9. CASE IdleTick(c)
  BY <1>0, <1>9 DEF TypeOK, IdleTick, procVars, schedVars, queueVars, stackVars
<1>10. CASE IdleTickWakeup(c)
  <2>1. state' \in [Proc -> States] /\ mlfq' \in Mlfq
    BY <1>10, TypeWakeup DEF IdleTickWakeup
  <2> QED
    BY <1>10, <2>1
    DEF TypeOK, IdleTickWakeup, WakeupTicks, procVars, schedVars
<1> QED
  BY <1>1, <1>2, <1>3, <1>4, <1>5, <1>6, <1>7, <1>8, <1>9, <1>10 DEF Timer, TrapStep

\* fork() keeps the types; what it completes is the slot it has allocated
LEMMA TypeFork ==
  ASSUME TypeOK, ForkInv, NEW c \in CPUS, NEW p \in Proc,
         SysFork(c, p) \/ ForkFail(c, p) \/ ForkDone(c, p)
  PROVE  TypeOK'
<1>1. CASE SysFork(c, p)
  <2> DEFINE q == FirstSlot({x \in Proc : state[x] = "UNUSED"})
  <2>1. q \in Proc
    BY <1>1, FirstSlotIn DEF SysFork
  <2>2. /\ state' = [state EXCEPT ![q] = "EMBRYO"]
        /\ pid' = [pid EXCEPT ![q] = nextpid]
        /\ level' = [level EXCEPT ![q] = 0]
        /\ tq' = [tq EXCEPT ![q] = 0]
        /\ np' = [np EXCEPT ![p] = q]
        /\ at' = [at EXCEPT ![p] = "fork", ![q] = "forkret"]
        /\ nextpid' = nextpid + 1
    BY <1>1 DEF SysFork
  <2> HIDE DEF q
  <2>3. /\ state' \in [Proc -> States] /\ level' \in [Proc -> Levels]
        /\ at' \in [Proc -> Points]
    <3>1. at' \in [Proc -> Points]
      BY <2>2 DEF TypeOK, Points
    <3>2. state' \in [Proc -> States]
      BY <2>2 DEF TypeOK, States
    <3>3. level' \in [Proc -> Levels]
      <4>1. 0 \in Levels
        BY DEF Levels
      <4> QED
        BY <2>2, <4>1 DEF TypeOK
    <3> QED
      BY <3>1, <3>2, <3>3
  <2>4. /\ pid' \in [Proc -> Nat] /\ tq' \in [Proc -> Nat] /\ nextpid' \in Nat
        /\ np' \in [Proc -> Proc \cup {NoProc}]
    BY <2>1, <2>2 DEF TypeOK
  <2>5. UNCHANGED <<parent, chan, killed, monopoly, ticks, queueVars, lock,
                    cpuVars, trapVars, panicked>>
    BY <1>1 DEF SysFork
  <2> QED
    BY <2>3, <2>4, <2>5 DEF TypeOK, queueVars, cpuVars, trapVars
<1>2. CASE ForkFail(c, p)
  BY <1>2 DEF TypeOK, ForkFail, States, Points, procVars, schedVars, queueVars,
              cpuVars, trapVars
<1>3. CASE ForkDone(c, p)
  <2>1. np[p] \in Proc
    BY <1>3 DEF ForkDone, Running, ForkInv
  <2>2. mlfq' \in Mlfq
    <3>1. {np[p]} \in SUBSET Proc
      BY <2>1
    <3> QED
      BY <1>3, <3>1, InsertMlfqType DEF TypeOK, ForkDone
  <2> QED
    BY <1>3, <2>1, <2>2
    DEF TypeOK, ForkDone, ForkedLevel, States, Levels, Points, cpuVars, trapVars
<1> QED
  BY <1>1, <1>2, <1>3

\* so do exit() ...
LEMMA TypeExit ==
  ASSUME TypeOK, NEW c \in CPUS, NEW p \in Proc, Exit(c, p)
  PROVE  TypeOK'
<1>1. CASE p = InitProc
  BY <1>1 DEF TypeOK, Exit, schedVars, stackVars
<1>2. CASE p # InitProc
  <2> DEFINE woken1 == Waiting(parent[p])
  <2> DEFINE woken2 == InitWoken(p) \ woken1
  <2>1. woken1 \in SUBSET Proc /\ woken2 \in SUBSET Proc
    BY ProcFacts DEF TypeOK, Waiting, InitWoken
  <2>2. /\ state' = [Woken(state, woken1 \cup woken2) EXCEPT ![p] = "ZOMBIE"]
        /\ mlfq' = Requeue(Requeue(mlfq, woken1), woken2)
    BY <1>2 DEF Exit
  <2> HIDE DEF woken1, woken2
  <2>3. mlfq' \in Mlfq
    BY <2>1, <2>2, RequeueType DEF TypeOK
  <2>4. state' \in [Proc -> States]
    BY <2>1, <2>2 DEF TypeOK, Woken, States
  <2>5. parent' \in [Proc -> Proc \cup {NoProc}]
    BY <1>2, ProcFacts DEF TypeOK, Exit, Reparented
  <2> QED
    BY <1>2, <2>3, <2>4, <2>5
    DEF TypeOK, Exit, SwitchToScheduler, schedVars, stackVars
<1> QED
  BY <1>1, <1>2

\* ... the scan of wait() ...
LEMMA TypeWait ==
  ASSUME TypeOK, NEW c \in CPUS, NEW p \in Proc, WaitScan(c, p)
  PROVE  TypeOK'
<1>1. CASE Reap(c, p)
  <2> DEFINE z == FirstSlot({x \in Children(p) : state[x] = "ZOMBIE"})
  <2>1. z \in Proc
    <3>1. {x \in Children(p) : state[x] = "ZOMBIE"} \in SUBSET Proc
      BY DEF Children
    <3> QED
      BY <1>1, <3>1, FirstSlotIn DEF Reap
  <2>2. /\ pid' = [pid EXCEPT ![z] = 0]
        /\ parent' = [parent EXCEPT ![z] = NoProc]
        /\ killed' = [killed EXCEPT ![z] = 0]
        /\ state' = [state EXCEPT ![z] = "UNUSED"]
    BY <1>1 DEF Reap
  <2> HIDE DEF z
  <2>3. /\ state' \in [Proc -> States] /\ pid' \in [Proc -> Nat]
        /\ parent' \in [Proc -> Proc \cup {NoProc}]
        /\ killed' \in [Proc -> {0, 1}]
    BY <2>2 DEF TypeOK, States
  <2>4. /\ at' \in [Proc -> Points] /\ chan' \in [Proc -> {"none", "ticks", "self"}]
        /\ lock' \in CPUS \cup {NoCpu}
        /\ cpc' \in [CPUS -> {"loop", "tickwake", "resume", "run", "back"}]
        /\ UNCHANGED moq
    BY <1>1 DEF TypeOK, Reap, Points
  <2>5. UNCHANGED <<schedVars, nextpid, ticks, mlfq, cproc, cmono, cbranch,
                    trapVars, np, panicked>>
    BY DEF WaitScan
  <2> QED
    BY <2>3, <2>4, <2>5 DEF TypeOK, schedVars, trapVars
<1>2. CASE NoChild(c, p)
  BY <1>2 DEF TypeOK, WaitScan, NoChild, Points, schedVars, trapVars
<1>3. CASE WaitSleep(c, p)
  <2>1. moq' \in Seq(Proc)
    BY <1>3, EnqueueType DEF TypeOK, WaitSleep, GoToSleep
  <2> QED
    BY <1>3, <2>1 DEF TypeOK, WaitScan, WaitSleep, GoToSleep, SwitchToScheduler,
                      States, Points, schedVars, trapVars
<1> QED
  BY <1>1, <1>2, <1>3 DEF WaitScan

\* ... and the calls that act on the process with a given pid, or on the CPU
LEMMA TypeByPid ==
  ASSUME TypeOK, NEW c \in CPUS, NEW p \in Proc,
         \/ SysKill(c, p) \/ SysSetMonopoly(c, p)
         \/ SysMonopolize(c, p) \/ SysUnmonopolize(c, p)
  PROVE  TypeOK'
<1>0. ASSUME NEW x, WithPid(x) # {} PROVE FirstSlot(WithPid(x)) \in Proc
  BY <1>0, FirstSlotIn DEF WithPid
<1>1. CASE SysKill(c, p)
  <2>1. PICK q \in Proc :
          /\ killed' = [killed EXCEPT ![q] = 1]
          /\ state' = [state EXCEPT ![q] = IF @ = "SLEEPING" THEN "RUNNABLE" ELSE @]
    BY <1>0, <1>1 DEF SysKill
  <2>2. UNCHANGED <<procVars, chan, schedVars, nextpid, ticks, queueVars, lock,
                    cpuVars, stackVars, panicked>>
    BY <1>1 DEF SysKill
  <2> QED
    BY <2>1, <2>2
    DEF TypeOK, States, procVars, schedVars, queueVars, cpuVars, stackVars
<1>2. CASE SysSetMonopoly(c, p)
  <2>1. PICK x \in PidArgs :
          /\ WithPid(x) # {}
          /\ LET q == FirstSlot(WithPid(x))
             IN  /\ monopoly' = [monopoly EXCEPT ![q] = 1]
                 /\ level' = [level EXCEPT ![q] = Monopoly]
                 /\ moq' = Enqueue(moq, q)
          /\ at' = [at EXCEPT ![p] = IF pid[p] = x THEN "setmono" ELSE "user"]
          /\ UNCHANGED <<state, procVars, chan, killed, tq, nextpid, ticks, mlfq,
                         lock, cpuVars, trapVars, np, panicked>>
    BY <1>2 DEF SysSetMonopoly
  <2>2. moq' \in Seq(Proc)
    BY <1>0, <2>1, EnqueueType DEF TypeOK
  <2> QED
    BY <1>0, <2>1, <2>2
    DEF TypeOK, Levels, Monopoly, Points, procVars, cpuVars, trapVars
<1>3. CASE SysMonopolize(c, p)
  BY <1>3 DEF TypeOK, SysMonopolize, SetCpuMonopoly, procVars, schedVars,
              queueVars, stackVars
<1>4. CASE SysUnmonopolize(c, p)
  BY <1>4, BoundsAssumption
  DEF TypeOK, SysUnmonopolize, SetCpuMonopoly, procVars, schedVars, queueVars,
      stackVars
<1> QED
  BY <1>1, <1>2, <1>3, <1>4

\* the rest of the calls
LEMMA TypeCalls ==
  ASSUME TypeOK, ForkInv, NEW c \in CPUS, NEW p \in Proc,
         CallStep(c, p) \/ SystemCall(c, p)
  PROVE  TypeOK'
<1>1. CASE KilledExit(c, p)
  BY <1>1 DEF TypeOK, KilledExit, Points, procVars, schedVars, queueVars, cpuVars
<1>2. CASE SysExit(c, p)
  BY <1>2 DEF TypeOK, SysExit, Points, procVars, schedVars, queueVars, cpuVars,
              trapVars
<1>3. CASE SysSleep(c, p) \/ SleepAgain(c, p)
  BY <1>3 DEF TypeOK, SysSleep, SleepAgain, SleepLock, Points, procVars,
              schedVars, queueVars, cpuVars, trapVars
<1>4. CASE SleepCheck(c, p)
  BY <1>4 DEF TypeOK, SleepCheck, Points, procVars, schedVars, queueVars,
              cpuVars, trapVars
<1>5. CASE SleepOnTicks(c, p)
  <2>1. moq' \in Seq(Proc)
    BY <1>5, EnqueueType DEF TypeOK, SleepOnTicks, GoToSleep
  <2> QED
    BY <1>5, <2>1 DEF TypeOK, SleepOnTicks, GoToSleep, SwitchToScheduler, States,
                      Points, procVars, schedVars, trapVars
<1>6. CASE SysYield(c, p) \/ SetMonopolyYield(c, p)
  BY <1>6, TypeYield DEF SysYield, SetMonopolyYield
<1>7. CASE SysWait(c, p) \/ WaitAgain(c, p)
  BY <1>7, TypeWait DEF SysWait, WaitAgain
<1> QED
  BY <1>1, <1>2, <1>3, <1>4, <1>5, <1>6, <1>7, TypeFork, TypeExit, TypeByPid
  DEF CallStep, SystemCall

LEMMA TypeStep ==
  ASSUME TypeOK, ForkInv, Next
  PROVE  TypeOK'
<1>1. PICK c \in CPUS : Step(c)
  BY DEF Next
<1>2. CASE SchedulerStep(c)
  BY <1>2, TypeScheduler
<1>3. CASE IdleTick(c) \/ IdleTickWakeup(c)
  BY <1>3, TypeTimer, ProcFacts
<1>4. CASE \E p \in Proc : ProcessStep(c, p)
  BY <1>4, TypeTimer, TypeCalls DEF ProcessStep
<1> QED
  BY <1>1, <1>2, <1>3, <1>4 DEF Step

-----------------------------------------------------------------------------
(* CPUs and forks *)

LEMMA CpuForkScheduler ==
  ASSUME TypeOK, CpuInv, ForkInv, NEW c \in CPUS, SchedulerStep(c)
  PROVE  CpuInv' /\ ForkInv'
<1>1. ASSUME NEW p \in Proc, NEW b, cpc[c] = "loop", LockFree,
             state[p] = "RUNNABLE", Dispatch(c, p, b)
      PROVE  CpuInv' /\ ForkInv'
  <2>1. CpuInv'
    BY <1>1, DispatchCpu
  <2>2. /\ \A q \in Proc : state[q] = "EMBRYO" => state'[q] = "EMBRYO"
        /\ at' = at /\ np' = np
    BY <1>1 DEF Dispatch, TypeOK, stackVars
  <2> QED
    BY <2>1, <2>2, ForkQuiet
<1>2. ASSUME UNCHANGED <<state, cpc, cproc, at, np>>,
             \A d \in CPUS : cpc[d] \in {"resume", "back"} => lock' = lock
      PROVE  CpuInv' /\ ForkInv'
  BY <1>2 DEF CpuInv, ForkInv
<1>3. CASE PickQueue(c)
  <2>1. PICK l \in QLevel :
          /\ FirstQueue(l) /\ ~ Stale(Head(mlfq.q[l]))
          /\ Dispatch(c, Head(mlfq.q[l]), "mlfq")
    BY <1>3 DEF PickQueue
  <2>2. Head(mlfq.q[l]) \in Proc
    BY <2>1, DropHeadType DEF FirstQueue, TypeOK
  <2> QED
    BY <1>1, <1>3, <2>1, <2>2 DEF PickQueue, InScheduler, Stale
<1>4. CASE PickHeap(c)
  BY <1>1, <1>4 DEF PickHeap, InScheduler, Stale, HeapMembers
<1>5. CASE PickMoq(c)
  <2>1. Head(moq) \in Proc
    BY <1>5, HeadTailProperties DEF PickMoq, TypeOK
  <2> QED
    BY <1>1, <1>5, <2>1 DEF PickMoq, InScheduler
<1>6. CASE PickHeapStale(c)
  <2>1. \A d \in CPUS : cpc[d] \notin {"resume", "back"}
    BY <1>6, LockHolder DEF PickHeapStale, InScheduler
  <2> QED
    BY <1>2, <1>6, <2>1 DEF PickHeapStale, cpuVars, stackVars
<1>7. CASE PickNone(c) \/ RotateMoq(c) \/ PickMoqEmpty(c) \/ AcquirePanic(c)
  BY <1>2, <1>7 DEF PickNone, RotateMoq, PickMoqEmpty, AcquirePanic, cpuVars,
                    stackVars
<1>8. CASE SchedBack(c)
  <2>1. /\ cpc' = [cpc EXCEPT ![c] = "loop"]
        /\ cproc' = [cproc EXCEPT ![c] = NoProc]
        /\ lock' = NoCpu /\ cpc[c] = "back"
        /\ UNCHANGED <<state, at, np>>
    BY <1>8 DEF SchedBack, stackVars
  <2>2. DOMAIN cpc = CPUS /\ DOMAIN cproc = CPUS
    BY DEF TypeOK
  <2>3. \A d \in CPUS : d # c => cpc[d] \notin {"resume", "back"}
    <3>1. lock = c
      BY <2>1 DEF CpuInv
    <3> QED
      BY <3>1, LockHolder
  <2>4. \A d \in CPUS :
          /\ cpc'[d] = IF d = c THEN "loop" ELSE cpc[d]
          /\ cproc'[d] = IF d = c THEN NoProc ELSE cproc[d]
    BY <2>1, <2>2
  <2>5. CpuInv'
    BY <2>1, <2>3, <2>4, ProcFacts DEF CpuInv
  <2>6. ForkInv'
    BY <2>1 DEF ForkInv
  <2> QED
    BY <2>5, <2>6
<1> QED
  BY <1>3, <1>4, <1>5, <1>6, <1>7, <1>8 DEF SchedulerStep

\* a process that runs, and is not back in the scheduler, is RUNNING
LEMMA RunningState ==
  ASSUME CpuInv, NEW c \in CPUS, NEW p \in Proc, cproc[c] = p,
         cpc[c] \in {"resume", "run"}
  PROVE  state[p] = "RUNNING"
BY DEF CpuInv

LEMMA CpuForkYield ==
  ASSUME TypeOK, CpuInv, ForkInv, NEW c \in CPUS, NEW p \in Proc,
         cpc[c] = "run", cproc[c] = p, Yield(c, p)
  PROVE  CpuInv' /\ ForkInv'
<1>1. /\ state' = [state EXCEPT ![p] = "RUNNABLE"] /\ DOMAIN state = Proc
      /\ LockFree /\ SwitchToScheduler(c) /\ UNCHANGED <<cproc, at, np>>
  BY DEF Yield, TypeOK, stackVars
<1>2. state[p] = "RUNNING"
  BY RunningState
<1>3. /\ \A q \in Proc \ {p} : QuietMove(q)
      /\ state'[p] = "RUNNABLE"
  BY <1>1 DEF QuietMove
<1>4. CpuInv'
  BY <1>1, <1>3, SwitchCpu
<1>5. \A q \in Proc : state[q] = "EMBRYO" => state'[q] = "EMBRYO"
  BY <1>1, <1>2
<1> QED
  BY <1>1, <1>4, <1>5, ForkQuiet

LEMMA CpuForkTimer ==
  ASSUME TypeOK, CpuInv, ForkInv, NEW c \in CPUS, NEW p \in Proc,
         Timer(c, p) \/ TrapStep(c, p) \/ IdleTick(c) \/ IdleTickWakeup(c)
  PROVE  CpuInv' /\ ForkInv'
<1>1. ASSUME WakeupTicks
      PROVE  /\ \A q \in Proc : QuietMove(q)
             /\ \A q \in Proc : state[q] = "EMBRYO" => state'[q] = "EMBRYO"
             /\ UNCHANGED <<lock, cproc, np>>
  BY <1>1 DEF WakeupTicks, Woken, TickSleepers, QuietMove
<1>2. ASSUME AfterIrq(p) PROVE \A q \in Proc : at'[q] = "fork" => at[q] = "fork"
  BY <1>2 DEF AfterIrq, TypeOK
<1>3. CASE Tick(c, p) \/ TrapAccount(c, p) \/ TrapCount(c, p) \/ TrapExpire(c, p)
  BY <1>3 DEF Tick, TrapAccount, TrapCount, TrapExpire, cpuVars, CpuInv, ForkInv
<1>4. CASE OtherTimer(c, p)
  <2>1. UNCHANGED <<state, lock, cpc, cproc, np>>
    BY <1>4 DEF OtherTimer, cpuVars
  <2>2. ForkInv'
    BY <1>2, <1>4, <2>1, ForkQuiet DEF OtherTimer
  <2> QED
    BY <2>1, <2>2 DEF CpuInv
<1>5. CASE Resume(c, p)
  <2>1. /\ cpc[c] = "resume" /\ cproc[c] = p /\ lock' = NoCpu
        /\ cpc' = [cpc EXCEPT ![c] = "run"] /\ UNCHANGED <<state, cproc, np>>
    BY <1>5 DEF Resume
  <2>2. lock = c
    BY <2>1 DEF CpuInv
  <2>3. CpuInv'
    BY <2>1, <2>2, ResumeCpu DEF QuietMove
  <2>4. \A q \in Proc : at'[q] = "fork" => at[q] = "fork"
    BY <1>5 DEF Resume, TypeOK
  <2> QED
    BY <2>1, <2>3, <2>4, ForkQuiet
<1>6. CASE TickWakeup(c, p)
  <2>1. CpuInv'
    BY <1>1, <1>6, CpuQuiet DEF TickWakeup
  <2>2. ForkInv'
    BY <1>1, <1>2, <1>6, ForkQuiet DEF TickWakeup
  <2> QED
    BY <2>1, <2>2
<1>7. CASE TrapYield(c, p)
  BY <1>7, CpuForkYield DEF TrapYield, InTrap
<1>8. ASSUME NEW b \in {"loop", "tickwake"}, cpc[c] \in {"loop", "tickwake"},
             cpc' = [cpc EXCEPT ![c] = b], UNCHANGED <<lock, cproc>>,
             \A q \in Proc : QuietMove(q)
      PROVE  CpuInv'
  <2>1. \A d \in CPUS : cpc'[d] = IF d = c THEN b ELSE cpc[d]
    BY <1>8 DEF TypeOK
  <2>2. \A d \in CPUS : cpc[d] \in {"resume", "run", "back"} => cproc[d] \in Proc
    <3>1. \A d \in CPUS : cproc[d] \in Proc \cup {NoProc}
      BY DEF TypeOK
    <3> QED
      BY <3>1 DEF CpuInv
  <2>3. \A d \in CPUS :
          /\ cpc[d] \in {"resume", "run"} => state'[cproc[d]] = "RUNNING"
          /\ cpc[d] = "back" => state'[cproc[d]] \in {"RUNNABLE", "SLEEPING", "ZOMBIE"}
    BY <1>8, <2>2 DEF CpuInv, QuietMove
  <2>4. \A q \in Proc : state'[q] = "RUNNING" => state[q] = "RUNNING"
    BY <1>8 DEF QuietMove
  <2>5. \A q \in Proc :
          state'[q] = "RUNNING" =>
            \E d \in CPUS : cproc[d] = q /\ d # c /\ cpc[d] \in {"resume", "run"}
    BY <1>8, <2>4 DEF CpuInv
  <2> QED
    BY <1>8, <2>1, <2>3, <2>5 DEF CpuInv
<1>9. CASE IdleTick(c)
  <2>1. CpuInv'
    BY <1>8, <1>9 DEF IdleTick, QuietMove
  <2> QED
    BY <1>9, <2>1 DEF IdleTick, stackVars, ForkInv
<1>10. CASE IdleTickWakeup(c)
  <2>1. CpuInv'
    BY <1>1, <1>8, <1>10 DEF IdleTickWakeup
  <2>2. ForkInv'
    BY <1>1, <1>10, ForkQuiet DEF IdleTickWakeup
  <2> QED
    BY <2>1, <2>2
<1> QED
  BY <1>3, <1>4, <1>5, <1>6, <1>7, <1>9, <1>10 DEF Timer, TrapStep

LEMMA CpuForkFork ==
  ASSUME TypeOK, CpuInv, ForkInv, NEW c \in CPUS, NEW p \in Proc, cproc[c] = p,
         SysFork(c, p) \/ ForkFail(c, p) \/ ForkDone(c, p)
  PROVE  CpuInv' /\ ForkInv'
<1>1. CASE SysFork(c, p)
  <2> DEFINE q == FirstSlot({x \in Proc : state[x] = "UNUSED"})
  <2>1. q \in Proc /\ state[q] = "UNUSED"
    <3>1. q \in {x \in Proc : state[x] = "UNUSED"}
      BY <1>1, FirstSlotIn DEF SysFork
    <3> QED
      BY <3>1
  <2>2. /\ state' = [state EXCEPT ![q] = "EMBRYO"]
        /\ np' = [np EXCEPT ![p] = q]
        /\ at' = [at EXCEPT ![p] = "fork", ![q] = "forkret"]
        /\ UNCHANGED <<lock, cpc, cproc>>
    BY <1>1 DEF SysFork, cpuVars
  <2> HIDE DEF q
  <2>3. /\ \A x \in Proc : state'[x] = IF x = q THEN "EMBRYO" ELSE state[x]
        /\ \A x \in Proc : np'[x] = IF x = p THEN q ELSE np[x]
        /\ \A x \in Proc : at'[x] = "fork" => x = p \/ at[x] = "fork"
    BY <2>2 DEF TypeOK
  <2>4. CpuInv'
    <3>1. \A x \in Proc : QuietMove(x)
      BY <2>1, <2>3 DEF QuietMove
    <3> QED
      BY <2>2, <3>1, CpuQuiet
  <2>5. ForkInv'
    BY <2>1, <2>3 DEF ForkInv
  <2> QED
    BY <2>4, <2>5
<1>2. CASE ForkFail(c, p) \/ ForkDone(c, p)
  <2>1. at[p] = "fork"
    BY <1>2 DEF ForkFail, ForkDone, Running
  <2>2. np[p] \in Proc /\ state[np[p]] = "EMBRYO"
    BY <2>1 DEF ForkInv
  <2>3. /\ \/ state' = [state EXCEPT ![np[p]] = "UNUSED"]
           \/ state' = [state EXCEPT ![np[p]] = "RUNNABLE"]
        /\ np' = [np EXCEPT ![p] = NoProc]
        /\ at' = [at EXCEPT ![p] = "user"]
        /\ UNCHANGED <<lock, cpc, cproc>>
    BY <1>2 DEF ForkFail, ForkDone, cpuVars
  <2>4. /\ \A x \in Proc : x # np[p] => state'[x] = state[x]
        /\ state'[np[p]] \in {"UNUSED", "RUNNABLE"}
        /\ \A x \in Proc : at'[x] = "fork" => x # p /\ at[x] = "fork" /\ np'[x] = np[x]
    BY <2>2, <2>3 DEF TypeOK
  <2>5. CpuInv'
    <3>1. \A x \in Proc : QuietMove(x)
      BY <2>2, <2>4 DEF QuietMove
    <3> QED
      BY <2>3, <3>1, CpuQuiet
  <2>6. ForkInv'
    BY <2>1, <2>4 DEF ForkInv
  <2> QED
    BY <2>5, <2>6
<1> QED
  BY <1>1, <1>2

\* the calls that give up the CPU: exit() and sleep()
LEMMA CpuForkExit ==
  ASSUME TypeOK, CpuInv, ForkInv, NEW c \in CPUS, NEW p \in Proc, cproc[c] = p,
         Exit(c, p)
  PROVE  CpuInv' /\ ForkInv'
<1>1. CASE p = InitProc
  BY <1>1 DEF Exit, CpuInv, ForkInv, stackVars
<1>2. CASE p # InitProc
  <2> DEFINE S == Waiting(parent[p]) \cup (InitWoken(p) \ Waiting(parent[p]))
  <2>1. /\ state' = [Woken(state, S) EXCEPT ![p] = "ZOMBIE"]
        /\ LockFree /\ SwitchToScheduler(c) /\ cpc[c] = "run"
        /\ UNCHANGED <<cproc, at, np>>
    BY <1>2 DEF Exit, Running, stackVars
  <2>2. \A q \in S : state[q] = "SLEEPING"
    BY DEF Waiting, InitWoken
  <2> HIDE DEF S
  <2>3. /\ \A q \in Proc \ {p} :
             state'[q] = state[q] \/ (state[q] = "SLEEPING" /\ state'[q] = "RUNNABLE")
        /\ state'[p] = "ZOMBIE"
    BY <2>1, <2>2 DEF Woken
  <2>4. CpuInv'
    BY <2>1, <2>3, SwitchCpu DEF QuietMove
  <2>5. state[p] = "RUNNING"
    BY <2>1, RunningState
  <2>6. \A q \in Proc : state[q] = "EMBRYO" => state'[q] = "EMBRYO"
    BY <2>3, <2>5
  <2> QED
    BY <2>1, <2>4, <2>6, ForkQuiet
<1> QED
  BY <1>1, <1>2

LEMMA CpuForkSleep ==
  ASSUME TypeOK, CpuInv, ForkInv, NEW c \in CPUS, NEW p \in Proc, NEW ch,
         cproc[c] = p, cpc[c] \in {"resume", "run"}, LockFree \/ lock = c,
         GoToSleep(c, p, ch), UNCHANGED <<cproc, np>>,
         \A q \in Proc : at'[q] = "fork" => at[q] = "fork"
  PROVE  CpuInv' /\ ForkInv'
<1>1. state' = [state EXCEPT ![p] = "SLEEPING"] /\ SwitchToScheduler(c)
  BY DEF GoToSleep
<1>2. state[p] = "RUNNING"
  BY RunningState
<1>3. /\ \A q \in Proc \ {p} : QuietMove(q)
      /\ state'[p] = "SLEEPING"
  BY <1>1 DEF QuietMove, TypeOK
<1>4. CpuInv'
  BY <1>1, <1>3, SwitchCpu
<1>5. \A q \in Proc : state[q] = "EMBRYO" => state'[q] = "EMBRYO"
  BY <1>1, <1>2 DEF TypeOK
<1> QED
  BY <1>4, <1>5, ForkQuiet

LEMMA CpuForkWait ==
  ASSUME TypeOK, CpuInv, ForkInv, NEW c \in CPUS, NEW p \in Proc, cproc[c] = p,
         cpc[c] \in {"resume", "run"}, LockFree \/ lock = c, WaitScan(c, p)
  PROVE  CpuInv' /\ ForkInv'
<1>1. UNCHANGED <<cproc, np>>
  BY DEF WaitScan
<1>2. \A q \in Proc : at'[q] = "fork" => at[q] = "fork"
  BY DEF WaitScan, Reap, NoChild, WaitSleep, TypeOK
<1>3. CASE Reap(c, p)
  <2> DEFINE z == FirstSlot({x \in Children(p) : state[x] = "ZOMBIE"})
  <2>1. z \in Proc /\ state[z] = "ZOMBIE"
    <3>1. {x \in Children(p) : state[x] = "ZOMBIE"} \in SUBSET Proc
      BY DEF Children
    <3>2. z \in {x \in Children(p) : state[x] = "ZOMBIE"}
      BY <1>3, <3>1, FirstSlotIn DEF Reap
    <3> QED
      BY <3>1, <3>2
  <2>2. /\ state' = [state EXCEPT ![z] = "UNUSED"]
        /\ lock' = NoCpu /\ cpc' = [cpc EXCEPT ![c] = "run"]
    BY <1>3 DEF Reap
  <2> HIDE DEF z
  <2>3. \A q \in Proc : QuietMove(q) \/ (state[q] = "ZOMBIE" /\ state'[q] = "UNUSED")
    BY <2>1, <2>2 DEF QuietMove, TypeOK
  <2>4. CpuInv'
    BY <1>1, <2>2, <2>3, ResumeCpu
  <2>5. \A q \in Proc : state[q] = "EMBRYO" => state'[q] = "EMBRYO"
    BY <2>1, <2>2 DEF TypeOK
  <2> QED
    BY <1>1, <1>2, <2>4, <2>5, ForkQuiet
<1>4. CASE NoChild(c, p)
  <2>1. UNCHANGED state /\ lock' = NoCpu /\ cpc' = [cpc EXCEPT ![c] = "run"]
    BY <1>4 DEF NoChild
  <2>2. CpuInv'
    BY <1>1, <2>1, ResumeCpu DEF QuietMove
  <2> QED
    BY <1>1, <1>2, <2>1, <2>2, ForkQuiet
<1>5. CASE WaitSleep(c, p)
  BY <1>1, <1>2, <1>5, CpuForkSleep DEF WaitSleep
<1> QED
  BY <1>3, <1>4, <1>5 DEF WaitScan

LEMMA CpuForkCalls ==
  ASSUME TypeOK, CpuInv, ForkInv, NEW c \in CPUS, NEW p \in Proc, cproc[c] = p,
         CallStep(c, p) \/ SystemCall(c, p)
  PROVE  CpuInv' /\ ForkInv'
<1>1. ASSUME UNCHANGED <<state, lock, cpc, cproc, np>>,
             \A q \in Proc : at'[q] = "fork" => at[q] = "fork"
      PROVE  CpuInv' /\ ForkInv'
  <2>1. ForkInv'
    BY <1>1, ForkQuiet
  <2> QED
    BY <1>1, <2>1 DEF CpuInv
<1>2. CASE KilledExit(c, p) \/ SysExit(c, p) \/ SleepCheck(c, p)
  BY <1>1, <1>2 DEF KilledExit, SysExit, SleepCheck, cpuVars, TypeOK
<1>3. CASE SysSleep(c, p) \/ SleepAgain(c, p)
  BY <1>1, <1>3 DEF SysSleep, SleepAgain, SleepLock, cpuVars, TypeOK
<1>4. CASE SysSetMonopoly(c, p)
  BY <1>1, <1>4 DEF SysSetMonopoly, cpuVars, TypeOK
<1>5. CASE SysMonopolize(c, p) \/ SysUnmonopolize(c, p)
  BY <1>1, <1>5 DEF SysMonopolize, SysUnmonopolize, stackVars
<1>6. CASE SysKill(c, p)
  <2>1. PICK q : state' = [state EXCEPT ![q] = IF @ = "SLEEPING" THEN "RUNNABLE" ELSE @]
    BY <1>6 DEF SysKill
  <2>2. UNCHANGED <<lock, cpc, cproc, at, np>>
    BY <1>6 DEF SysKill, cpuVars, stackVars
  <2>3. \A x \in Proc : QuietMove(x) /\ (state[x] = "EMBRYO" => state'[x] = "EMBRYO")
    BY <2>1 DEF QuietMove, TypeOK
  <2> QED
    BY <2>2, <2>3, CpuQuiet, ForkQuiet
<1>7. CASE SleepOnTicks(c, p)
  <2>1. \A q \in Proc : at'[q] = "fork" => at[q] = "fork"
    BY <1>7 DEF SleepOnTicks, TypeOK
  <2> QED
    BY <1>7, <2>1, CpuForkSleep DEF SleepOnTicks, Running
<1>8. CASE SysYield(c, p) \/ SetMonopolyYield(c, p)
  BY <1>8, CpuForkYield DEF SysYield, SetMonopolyYield, Call, Running
<1>9. CASE SysWait(c, p)
  BY <1>9, CpuForkWait DEF SysWait, Call, Running
<1>10. CASE WaitAgain(c, p)
  <2>1. lock = c
    BY <1>10 DEF WaitAgain, CpuInv
  <2> QED
    BY <1>10, <2>1, CpuForkWait DEF WaitAgain
<1> QED
  BY <1>2, <1>3, <1>4, <1>5, <1>6, <1>7, <1>8, <1>9, <1>10, CpuForkFork, CpuForkExit
  DEF CallStep, SystemCall

-----------------------------------------------------------------------------
(* The theorems *)

LEMMA InvInit == Init => Inv
<1> SUFFICES ASSUME Init PROVE Inv
  OBVIOUS
<1>1. InitProc \in Proc
  BY ProcFacts
<1>2. mlfq \in Mlfq
  <2>1. {InitProc} \in SUBSET Proc
    BY <1>1
  <2> QED
    BY <2>1, EmptyMlfqType, InsertMlfqType DEF Init
<1>3. TypeOK
  <2>1. /\ level \in [Proc -> Levels] /\ loclevel \in [Proc -> Levels]
        /\ at \in [Proc -> Points] /\ trap \in [Proc -> Traps]
    BY DEF Init, Levels, Points, Traps
  <2>2. /\ state \in [Proc -> States] /\ pid \in [Proc -> Nat]
        /\ parent \in [Proc -> Proc \cup {NoProc}]
        /\ chan \in [Proc -> {"none", "ticks", "self"}]
        /\ killed \in [Proc -> {0, 1}] /\ tq \in [Proc -> Nat]
        /\ monopoly \in [Proc -> {0, 1}] /\ np \in [Proc -> Proc \cup {NoProc}]
    BY DEF Init, States
  <2>3. /\ nextpid \in Nat /\ ticks \in 0 .. BoostPeriod
        /\ lock \in CPUS \cup {NoCpu}
    <3>1. nextpid = 2 /\ ticks = 0 /\ lock = NoCpu
      BY DEF Init
    <3> QED
      BY <3>1, BoundsAssumption
  <2>5. moq \in Seq(Proc) /\ panicked \in BOOLEAN
    <3>1. moq = <<>> /\ panicked = FALSE
      BY DEF Init
    <3>2. moq \in Seq(Proc)
      BY <3>1, SMT
    <3>3. panicked \in BOOLEAN
      BY <3>1, Zenon
    <3> QED
      BY <3>2, <3>3
  <2>4. /\ cpc \in [CPUS -> {"loop", "tickwake", "resume", "run", "back"}]
        /\ cproc \in [CPUS -> Proc \cup {NoProc}]
        /\ cmono \in [CPUS -> {0, 1}]
        /\ cbranch \in [CPUS -> {"mlfq", "moq"}]
    BY DEF Init
  <2> QED
    BY <1>2, <2>1, <2>2, <2>3, <2>4, <2>5 DEF TypeOK
<1>4. CpuInv
  BY DEF Init, CpuInv
<1>5. ForkInv
  BY DEF Init, ForkInv
<1> QED
  BY <1>3, <1>4, <1>5 DEF Inv

LEMMA InvNext == Inv /\ [Next]_vars => Inv'
<1> SUFFICES ASSUME Inv, [Next]_vars PROVE Inv'
  OBVIOUS
<1>0. TypeOK /\ CpuInv /\ ForkInv
  BY DEF Inv
<1>1. CASE Next
  <2>1. TypeOK'
    BY <1>0, <1>1, TypeStep
  <2>2. PICK c \in CPUS : Step(c)
    BY <1>1 DEF Next
  <2>3. CpuInv' /\ ForkInv'
    BY <1>0, <2>2, ProcFacts, CpuForkScheduler, CpuForkTimer, CpuForkCalls
    DEF Step, ProcessStep
  <2> QED
    BY <2>1, <2>3 DEF Inv
<1>2. CASE UNCHANGED vars
  BY <1>0, <1>2 DEF vars, Inv, TypeOK, CpuInv, ForkInv
<1> QED
  BY <1>1, <1>2

THEOREM Invariant == Spec => []Inv
<1>1. Init => Inv
  BY InvInit
<1>2. Inv /\ [Next]_vars => Inv'
  BY InvNext
<1> QED
  BY <1>1, <1>2, PTL DEF Spec

\* every variable keeps its type: in particular ticks stays below the period
\* of the boosts, and levels are those of the queues or that of the MoQ
THEOREM TypeCorrect == Spec => []TypeOK
<1>1. Inv => TypeOK
  BY DEF Inv
<1> QED
  BY <1>1, Invariant, PTL

\* sched() and swtch(): a process is on the stack of at most one CPU, and is
\* RUNNING exactly while a CPU executes it, for any number of CPUs and processes
THEOREM OneCpuCorrect == Spec => []OneCpu
<1>1. Inv => OneCpu
  <2> SUFFICES ASSUME Inv PROVE OneCpu
    OBVIOUS
  <2>1. CpuInv /\ (\A c \in CPUS : cpc[c] \in {"loop", "tickwake", "resume", "run", "back"})
    BY DEF Inv, TypeOK
  <2>2. ASSUME NEW p \in Proc, NEW c \in CPUS, cproc[c] = p, cpc[c] # "back"
        PROVE  state[p] = "RUNNING"
    BY <2>1, <2>2, ProcFacts DEF CpuInv
  <2>3. ASSUME NEW p \in Proc, state[p] = "RUNNING"
        PROVE  \E c \in CPUS : cproc[c] = p /\ cpc[c] # "back"
    BY <2>1, <2>3 DEF CpuInv
  <2>4. \A c, d \in CPUS : cproc[c] = cproc[d] /\ c # d => cproc[c] = NoProc
    BY <2>1 DEF CpuInv
  <2> QED
    BY <2>2, <2>3, <2>4 DEF OneCpu
<1> QED
  BY <1>1, Invariant, PTL

\* wait() never frees the stack of a process that a CPU is still on
THEOREM StackInUseCorrect == Spec => []StackInUse
<1>1. Inv => StackInUse
  <2> SUFFICES ASSUME Inv, NEW c \in CPUS, NEW p \in Proc, cproc[c] = p
               PROVE  state[p] \notin {"UNUSED", "EMBRYO"}
    BY DEF StackInUse
  <2>1. CpuInv /\ cpc[c] \in {"loop", "tickwake", "resume", "run", "back"}
    BY DEF Inv, TypeOK
  <2> QED
    BY <2>1, ProcFacts DEF CpuInv
<1> QED
  BY <1>1, Invariant, PTL

-----------------------------------------------------------------------------
(* The level of the MoQ *)

\* a level that is not assigned by setmonopoly() is one of the MLFQ
LEMMA LevelKeeps ==
  ASSUME MonopolyLevelOnly, UNCHANGED monopoly,
         \A p \in Proc : level'[p] = level[p] \/ level'[p] \in 0 .. 3
  PROVE  MonopolyLevelOnly'
BY DEF MonopolyLevelOnly, Monopoly

LEMMA LevelBoost ==
  ASSUME NEW st
  PROVE  \A p \in Proc : BoostField(st, level)[p] = level[p] \/ BoostField(st, level)[p] \in 0 .. 3
BY DEF BoostField

LEMMA LevelYield ==
  ASSUME MonopolyLevelOnly, NEW c \in CPUS, NEW p \in Proc, Yield(c, p)
  PROVE  MonopolyLevelOnly'
<1>1. level' = level \/ \E st : level' = BoostField(st, level)
  BY DEF Yield
<1>2. UNCHANGED monopoly
  BY DEF Yield
<1> QED
  BY <1>1, <1>2, LevelBoost, LevelKeeps

LEMMA LevelStep ==
  ASSUME TypeOK, MonopolyLevelOnly, Next
  PROVE  MonopolyLevelOnly'
<1>1. PICK c \in CPUS : Step(c)
  BY DEF Next
<1>2. ASSUME UNCHANGED <<level, monopoly>> PROVE MonopolyLevelOnly'
  BY <1>2 DEF MonopolyLevelOnly
<1>3. CASE SchedulerStep(c)
  <2>1. CASE PickNone(c) \/ SchedBack(c)
    <3>1. level' = level \/ level' = BoostField(state, level)
      BY <2>1 DEF PickNone, SchedBack
    <3>2. UNCHANGED monopoly
      BY <2>1 DEF PickNone, SchedBack
    <3> QED
      BY <3>1, <3>2, LevelBoost, LevelKeeps
  <2>2. CASE PickQueue(c) \/ PickHeap(c) \/ PickMoq(c)
    BY <1>2, <2>2 DEF PickQueue, PickHeap, PickMoq, Dispatch, schedVars
  <2>3. CASE PickHeapStale(c) \/ RotateMoq(c) \/ PickMoqEmpty(c) \/ AcquirePanic(c)
    BY <1>2, <2>3 DEF PickHeapStale, RotateMoq, PickMoqEmpty, AcquirePanic, schedVars
  <2> QED
    BY <1>3, <2>1, <2>2, <2>3 DEF SchedulerStep
<1>4. CASE IdleTick(c) \/ IdleTickWakeup(c)
  BY <1>2, <1>4 DEF IdleTick, IdleTickWakeup, WakeupTicks, schedVars
<1>5. ASSUME NEW p \in Proc, Timer(c, p) \/ TrapStep(c, p) PROVE MonopolyLevelOnly'
  <2>1. CASE Tick(c, p) \/ OtherTimer(c, p) \/ Resume(c, p) \/ TickWakeup(c, p)
    BY <1>2, <2>1 DEF Tick, OtherTimer, Resume, TickWakeup, WakeupTicks, schedVars
  <2>2. CASE TrapAccount(c, p) \/ TrapCount(c, p)
    BY <1>2, <2>2 DEF TrapAccount, TrapCount
  <2>3. CASE TrapExpire(c, p)
    <3>1. NextLevel(p) = level[p] \/ NextLevel(p) \in 0 .. 3
      BY DEF NextLevel
    <3>2. \A q \in Proc : level'[q] = level[q] \/ level'[q] \in 0 .. 3
      BY <2>3, <3>1 DEF TrapExpire, TypeOK
    <3> QED
      BY <2>3, <3>2, LevelKeeps DEF TrapExpire
  <2>4. CASE TrapYield(c, p)
    BY <2>4, LevelYield DEF TrapYield
  <2> QED
    BY <1>5, <2>1, <2>2, <2>3, <2>4 DEF Timer, TrapStep
<1>6. ASSUME NEW p \in Proc, CallStep(c, p) \/ SystemCall(c, p) PROVE MonopolyLevelOnly'
  <2>1. CASE KilledExit(c, p) \/ ForkFail(c, p) \/ SleepCheck(c, p) \/ SysExit(c, p)
    BY <1>2, <2>1 DEF KilledExit, ForkFail, SleepCheck, SysExit, schedVars
  <2>2. CASE Exit(c, p) \/ SysWait(c, p) \/ WaitAgain(c, p)
    BY <1>2, <2>2 DEF Exit, SysWait, WaitAgain, WaitScan, schedVars
  <2>3. CASE SysSleep(c, p) \/ SleepAgain(c, p) \/ SleepOnTicks(c, p)
    BY <1>2, <2>3 DEF SysSleep, SleepAgain, SleepLock, SleepOnTicks, schedVars
  <2>4. CASE SysKill(c, p) \/ SysMonopolize(c, p) \/ SysUnmonopolize(c, p)
    BY <1>2, <2>4 DEF SysKill, SysMonopolize, SysUnmonopolize, schedVars
  <2>5. CASE SysYield(c, p) \/ SetMonopolyYield(c, p)
    BY <2>5, LevelYield DEF SysYield, SetMonopolyYield
  <2>6. CASE SysFork(c, p)
    <3>1. PICK q : level' = [level EXCEPT ![q] = 0]
      BY <2>6 DEF SysFork
    <3>2. \A x \in Proc : level'[x] = level[x] \/ level'[x] \in 0 .. 3
      BY <3>1 DEF TypeOK
    <3> QED
      BY <2>6, <3>2, LevelKeeps DEF SysFork
  <2>7. CASE ForkDone(c, p)
    <3>1. /\ level' = [level EXCEPT ![np[p]] = 0]
          /\ monopoly' = [monopoly EXCEPT ![np[p]] = 0]
      BY <2>7 DEF ForkDone, ForkedLevel
    <3> QED
      BY <3>1 DEF MonopolyLevelOnly, Monopoly, TypeOK
  <2>8. CASE SysSetMonopoly(c, p)
    <3>1. PICK q : /\ level' = [level EXCEPT ![q] = Monopoly]
                   /\ monopoly' = [monopoly EXCEPT ![q] = 1]
      BY <2>8 DEF SysSetMonopoly
    <3> QED
      BY <3>1 DEF MonopolyLevelOnly, TypeOK
  <2> QED
    BY <1>6, <2>1, <2>2, <2>3, <2>4, <2>5, <2>6, <2>7, <2>8 DEF CallStep, SystemCall
<1> QED
  BY <1>1, <1>3, <1>4, <1>5, <1>6 DEF Step, ProcessStep

\* level 99 is never the level of a process outside the MoQ: no order of
\* setmonopoly(), an unfinished or failed fork(), boosts and the demotion of an
\* interrupted trap() leaves it behind
THEOREM MonopolyLevelCorrect == Spec => []MonopolyLevelOnly
<1>1. Init => MonopolyLevelOnly
  BY DEF Init, MonopolyLevelOnly, Monopoly
<1>2. Inv /\ MonopolyLevelOnly /\ [Next]_vars => MonopolyLevelOnly'
  <2> SUFFICES ASSUME Inv, MonopolyLevelOnly, [Next]_vars PROVE MonopolyLevelOnly'
    OBVIOUS
  <2>1. CASE Next
    BY <2>1, LevelStep DEF Inv
  <2>2. CASE UNCHANGED vars
    BY <2>2 DEF vars, MonopolyLevelOnly
  <2> QED
    BY <2>1, <2>2
<1> QED
  BY <1>1, <1>2, Invariant, PTL DEF Spec
-----------------------------------------------------------------------------
(* The family of a process: fork(), exit(), wait() and kill() *)

Live == {"SLEEPING", "RUNNABLE", "RUNNING"}

\* The family tree.  init is live, has no parent and adopts; a parent is live; a
\* slot that fork() has not finished has no parent, so that reaping a zombie or
\* giving a slot back takes nobody's parent away; nobody is its own parent, so
\* that the zombie of exit() is none of the children it hands on.
FamilyInv ==
  /\ state[InitProc] \in Live
  /\ parent[InitProc] = NoProc
  /\ \A p \in Proc : parent[p] # NoProc => state[parent[p]] \in Live
  /\ \A p \in Proc : parent[p] # p
  /\ \A p \in Proc : state[p] \in {"UNUSED", "EMBRYO"} => parent[p] = NoProc

WaitInv == FamilyInv /\ NoMissedExit /\ KillReachesWait

-----------------------------------------------------------------------------
(* Steps that leave the family tree and killed alone *)

\* the moves that matter to nobody: a process stays what it is, asleep where it
\* is, or it is woken, dispatched or preempted
AwakeMove(p) ==
  \/ state'[p] = state[p] /\ (state[p] = "SLEEPING" => chan'[p] = chan[p])
  \/ state[p] \in Live /\ state'[p] \in {"RUNNABLE", "RUNNING"}

LEMMA WaitQuiet ==
  ASSUME TypeOK, WaitInv, UNCHANGED <<parent, killed>>,
         \A p \in Proc : AwakeMove(p)
  PROVE  WaitInv'
<1>1. \A p \in Proc : state[p] \in Live => state'[p] \in Live
  BY DEF AwakeMove, Live
<1>2. \A p \in Proc : state[p] \notin Live => state'[p] = state[p]
  BY DEF AwakeMove, Live
<1>3. \A p \in Proc :
        state'[p] = "SLEEPING" => state[p] = "SLEEPING" /\ chan'[p] = chan[p]
  BY DEF AwakeMove
<1>4. \A p \in Proc : parent[p] \in Proc \cup {NoProc}
  BY DEF TypeOK
<1>5. FamilyInv'
  <2>1. FamilyInv
    BY DEF WaitInv
  <2>2. \A p \in Proc : state'[p] \in {"UNUSED", "EMBRYO"} => state[p] \in {"UNUSED", "EMBRYO"}
    BY <1>1, <1>2 DEF Live
  <2> QED
    BY <1>1, <1>4, <2>1, <2>2, ProcFacts DEF FamilyInv
<1>6. NoMissedExit'
  <2>1. \A p \in Proc : state'[p] = "ZOMBIE" => state[p] = "ZOMBIE"
    BY <1>1, <1>2 DEF Live
  <2>2. NoMissedExit
    BY DEF WaitInv
  <2> QED
    BY <1>3, <2>1, <2>2 DEF NoMissedExit, Children
<1>7. KillReachesWait'
  BY <1>3 DEF WaitInv, KillReachesWait
<1> QED
  BY <1>5, <1>6, <1>7 DEF WaitInv

LEMMA WaitYield ==
  ASSUME TypeOK, CpuInv, WaitInv, NEW c \in CPUS, NEW p \in Proc,
         cpc[c] = "run", cproc[c] = p, Yield(c, p)
  PROVE  WaitInv'
<1>1. state' = [state EXCEPT ![p] = "RUNNABLE"] /\ UNCHANGED <<parent, killed, chan>>
  BY DEF Yield, procVars
<1>2. state[p] = "RUNNING"
  BY RunningState
<1>3. \A q \in Proc : AwakeMove(q)
  BY <1>1, <1>2 DEF AwakeMove, Live, TypeOK
<1> QED
  BY <1>1, <1>3, WaitQuiet

LEMMA WaitScheduler ==
  ASSUME TypeOK, WaitInv, NEW c \in CPUS, SchedulerStep(c)
  PROVE  WaitInv'
<1>1. ASSUME NEW p \in Proc, NEW b, state[p] = "RUNNABLE", Dispatch(c, p, b)
      PROVE  WaitInv'
  <2>1. state' = [state EXCEPT ![p] = "RUNNING"] /\ UNCHANGED <<parent, killed, chan>>
    BY <1>1 DEF Dispatch, procVars
  <2>2. \A q \in Proc : AwakeMove(q)
    BY <1>1, <2>1 DEF AwakeMove, Live, TypeOK
  <2> QED
    BY <2>1, <2>2, WaitQuiet
<1>2. ASSUME UNCHANGED <<state, procVars, chan, killed>>
      PROVE  WaitInv'
  BY <1>2, WaitQuiet DEF AwakeMove, procVars
<1>3. CASE PickQueue(c)
  <2>1. PICK l \in QLevel :
          /\ FirstQueue(l) /\ ~ Stale(Head(mlfq.q[l]))
          /\ Dispatch(c, Head(mlfq.q[l]), "mlfq")
    BY <1>3 DEF PickQueue
  <2>2. Head(mlfq.q[l]) \in Proc
    BY <2>1, DropHeadType DEF FirstQueue, TypeOK
  <2> QED
    BY <1>1, <2>1, <2>2 DEF Stale
<1>4. CASE PickHeap(c)
  BY <1>1, <1>4 DEF PickHeap, Stale, HeapMembers
<1>5. CASE PickMoq(c)
  <2>1. Head(moq) \in Proc
    BY <1>5, HeadTailProperties DEF PickMoq, TypeOK
  <2> QED
    BY <1>1, <1>5, <2>1 DEF PickMoq
<1>6. CASE PickHeapStale(c) \/ PickNone(c) \/ RotateMoq(c)
  BY <1>2, <1>6 DEF PickHeapStale, PickNone, RotateMoq
<1>7. CASE PickMoqEmpty(c) \/ AcquirePanic(c) \/ SchedBack(c)
  BY <1>2, <1>7 DEF PickMoqEmpty, AcquirePanic, SchedBack
<1> QED
  BY <1>3, <1>4, <1>5, <1>6, <1>7 DEF SchedulerStep

LEMMA WaitTimer ==
  ASSUME TypeOK, CpuInv, WaitInv, NEW c \in CPUS, NEW p \in Proc,
         Timer(c, p) \/ TrapStep(c, p) \/ IdleTick(c) \/ IdleTickWakeup(c)
  PROVE  WaitInv'
<1>1. ASSUME UNCHANGED <<state, procVars, chan, killed>>
      PROVE  WaitInv'
  BY <1>1, WaitQuiet DEF AwakeMove, procVars
<1>2. ASSUME WakeupTicks, UNCHANGED <<procVars, chan, killed>>
      PROVE  WaitInv'
  <2>1. \A q \in Proc : AwakeMove(q)
    BY <1>2 DEF WakeupTicks, Woken, TickSleepers, AwakeMove, Live
  <2> QED
    BY <1>2, <2>1, WaitQuiet DEF procVars
<1>3. CASE Tick(c, p) \/ OtherTimer(c, p) \/ IdleTick(c)
  BY <1>1, <1>3 DEF Tick, OtherTimer, IdleTick
<1>4. CASE TrapAccount(c, p) \/ TrapCount(c, p) \/ TrapExpire(c, p)
  BY <1>1, <1>4 DEF TrapAccount, TrapCount, TrapExpire
<1>5. CASE TickWakeup(c, p) \/ IdleTickWakeup(c)
  BY <1>2, <1>5 DEF TickWakeup, IdleTickWakeup, WakeupTicks
<1>6. CASE TrapYield(c, p)
  BY <1>6, WaitYield DEF TrapYield, InTrap
<1>7. CASE Resume(c, p)
  <2>1. /\ UNCHANGED <<state, parent, killed>>
        /\ chan' = chan \/ chan' = [chan EXCEPT ![p] = "none"]
        /\ cpc[c] = "resume" /\ cproc[c] = p
    BY <1>7 DEF Resume, procVars
  <2>2. state[p] = "RUNNING"
    BY <2>1, RunningState
  <2>3. \A q \in Proc : q # p => chan'[q] = chan[q]
    BY <2>1 DEF TypeOK
  <2>4. \A q \in Proc : AwakeMove(q)
    BY <2>1, <2>2, <2>3 DEF AwakeMove
  <2> QED
    BY <2>1, <2>4, WaitQuiet
<1> QED
  BY <1>3, <1>4, <1>5, <1>6, <1>7 DEF Timer, TrapStep

-----------------------------------------------------------------------------
(* fork(), exit(), wait() and kill() *)

LEMMA WaitFork ==
  ASSUME TypeOK, CpuInv, ForkInv, WaitInv, NEW c \in CPUS, NEW p \in Proc,
         cproc[c] = p, SysFork(c, p) \/ ForkFail(c, p) \/ ForkDone(c, p)
  PROVE  WaitInv'
<1>0. FamilyInv /\ NoMissedExit /\ KillReachesWait
  BY DEF WaitInv
<1>1. state[p] = "RUNNING"
  BY RunningState DEF SysFork, ForkFail, ForkDone, Call, Running
<1>2. ASSUME NEW q \in Proc, state[q] \in {"UNUSED", "EMBRYO"},
             NEW s \in {"UNUSED", "EMBRYO"}, state' = [state EXCEPT ![q] = s],
             UNCHANGED <<parent, chan, killed>>
      PROVE  WaitInv'
  <2>1. \A x \in Proc : state'[x] = IF x = q THEN s ELSE state[x]
    BY <1>2 DEF TypeOK
  <2>2. \A x \in Proc : state[x] \in Live => state'[x] = state[x]
    BY <1>2, <2>1 DEF Live
  <2>3. FamilyInv'
    <3>1. \A x \in Proc : parent[x] \in Proc \cup {NoProc}
      BY DEF TypeOK
    <3> QED
      BY <1>0, <1>2, <2>1, <2>2, <3>1, ProcFacts DEF FamilyInv
  <2>4. NoMissedExit'
    BY <1>0, <1>2, <2>1 DEF NoMissedExit, Children
  <2>5. KillReachesWait'
    BY <1>0, <1>2, <2>1 DEF KillReachesWait
  <2> QED
    BY <2>3, <2>4, <2>5 DEF WaitInv
<1>3. CASE SysFork(c, p)
  <2> DEFINE q == FirstSlot({x \in Proc : state[x] = "UNUSED"})
  <2>1. q \in Proc /\ state[q] = "UNUSED"
    <3>1. q \in {x \in Proc : state[x] = "UNUSED"}
      BY <1>3, FirstSlotIn DEF SysFork
    <3> QED
      BY <3>1
  <2>2. state' = [state EXCEPT ![q] = "EMBRYO"] /\ UNCHANGED <<parent, chan, killed>>
    BY <1>3 DEF SysFork
  <2> HIDE DEF q
  <2> QED
    BY <1>2, <2>1, <2>2
<1>4. ASSUME at[p] = "fork"
      PROVE  np[p] \in Proc /\ state[np[p]] = "EMBRYO"
  BY <1>4 DEF ForkInv
<1>5. CASE ForkFail(c, p)
  <2>1. at[p] = "fork" /\ state' = [state EXCEPT ![np[p]] = "UNUSED"]
        /\ UNCHANGED <<parent, chan, killed>>
    BY <1>5 DEF ForkFail, Running, procVars
  <2> QED
    BY <1>2, <1>4, <2>1
<1>6. CASE ForkDone(c, p)
  <2> DEFINE q == np[p]
  <2>1. q \in Proc /\ state[q] = "EMBRYO"
    BY <1>4, <1>6 DEF ForkDone, Running
  <2>2. /\ parent' = [parent EXCEPT ![q] = p]
        /\ state' = [state EXCEPT ![q] = "RUNNABLE"]
        /\ UNCHANGED <<chan, killed>>
    BY <1>6 DEF ForkDone
  <2> HIDE DEF q
  <2>3. /\ \A x \in Proc : state'[x] = IF x = q THEN "RUNNABLE" ELSE state[x]
        /\ \A x \in Proc : parent'[x] = IF x = q THEN p ELSE parent[x]
    BY <2>2 DEF TypeOK
  <2>4. \A x \in Proc : state[x] \in Live => x # q /\ state'[x] = state[x]
    BY <2>1, <2>3 DEF Live
  <2>5. state[p] \in Live
    BY <1>1 DEF Live
  <2>6. FamilyInv'
    <3>1. \A x \in Proc : parent[x] \in Proc \cup {NoProc}
      BY DEF TypeOK
    <3> QED
      BY <1>0, <2>3, <2>4, <2>5, <3>1, ProcFacts DEF FamilyInv
  <2>7. NoMissedExit'
    <3> SUFFICES ASSUME NEW x \in Proc, state'[x] = "SLEEPING", chan'[x] = "self"
                 PROVE  /\ \E y \in Proc : parent'[y] = x
                        /\ \A y \in Proc : parent'[y] = x => state'[y] # "ZOMBIE"
      BY DEF NoMissedExit, Children
    <3>1. x # q /\ x # p /\ state[x] = "SLEEPING" /\ chan[x] = "self"
      BY <1>1, <2>2, <2>3
    <3>2. PICK y \in Proc : parent[y] = x
      BY <1>0, <3>1 DEF NoMissedExit, Children
    <3>3. y # q
      <4>1. parent[q] = NoProc
        BY <1>0, <2>1 DEF FamilyInv
      <4> QED
        BY <3>2, <4>1, ProcFacts
    <3>4. \A z \in Proc : parent'[z] = x => parent[z] = x /\ z # q
      BY <2>3, <3>1
    <3> QED
      BY <1>0, <2>3, <3>1, <3>2, <3>3, <3>4 DEF NoMissedExit, Children
  <2>8. KillReachesWait'
    BY <1>0, <2>2, <2>3 DEF KillReachesWait
  <2> QED
    BY <2>6, <2>7, <2>8 DEF WaitInv
<1> QED
  BY <1>3, <1>5, <1>6

\* exit(): the zombie is no child of a sleeper, since its parent has been woken,
\* and a zombie it hands to init wakes init
LEMMA WaitExit ==
  ASSUME TypeOK, CpuInv, WaitInv, NEW c \in CPUS, NEW p \in Proc,
         cproc[c] = p, Exit(c, p)
  PROVE  WaitInv'
<1>0. FamilyInv /\ NoMissedExit /\ KillReachesWait
  BY DEF WaitInv
<1>1. CASE p = InitProc
  <2>1. UNCHANGED <<state, parent, chan, killed>>
    BY <1>1 DEF Exit
  <2> QED
    BY <2>1, WaitQuiet DEF AwakeMove
<1>2. CASE p # InitProc
  <2> DEFINE S == Waiting(parent[p]) \cup (InitWoken(p) \ Waiting(parent[p]))
  <2>1. /\ state' = [Woken(state, S) EXCEPT ![p] = "ZOMBIE"]
        /\ parent' = Reparented(p)
        /\ UNCHANGED <<chan, killed>>
    BY <1>2 DEF Exit
  <2>2. \A x \in S : state[x] = "SLEEPING"
    BY DEF Waiting, InitWoken
  <2>3. ASSUME NEW x \in Proc, x \notin S, state[x] = "SLEEPING", chan[x] = "self"
        PROVE  /\ parent[p] # x
               /\ x = InitProc => \A q \in Children(p) : state[q] # "ZOMBIE"
    <3>1. x # NoProc
      BY ProcFacts
    <3> QED
      BY <2>3, <3>1 DEF Waiting, InitWoken
  <2> HIDE DEF S
  <2>4. /\ \A q \in Proc : q # p =>
             state'[q] = IF q \in S THEN "RUNNABLE" ELSE state[q]
        /\ state'[p] = "ZOMBIE"
    BY <2>1 DEF Woken
  <2>5. \A q \in Proc : parent'[q] = IF parent[q] = p THEN InitProc ELSE parent[q]
    BY <2>1 DEF Reparented
  <2>6. state[p] = "RUNNING"
    BY <1>2, RunningState DEF Exit, Running
  <2>7. \A q \in Proc : q # p /\ state[q] \in Live => state'[q] \in Live
    BY <2>4 DEF Live
  <2>8. FamilyInv'
    <3>1. state'[InitProc] \in Live /\ parent'[InitProc] = NoProc
      BY <1>0, <1>2, <2>5, <2>7, ProcFacts DEF FamilyInv
    <3>2. ASSUME NEW x \in Proc, parent'[x] # NoProc
          PROVE  state'[parent'[x]] \in Live
      <4>1. CASE parent[x] = p
        BY <2>5, <3>1, <4>1
      <4>2. CASE parent[x] # p
        <5>1. parent'[x] = parent[x] /\ parent[x] \in Proc \ {p}
          BY <2>5, <3>2, <4>2 DEF TypeOK
        <5> QED
          BY <1>0, <2>7, <3>2, <5>1 DEF FamilyInv
      <4> QED
        BY <4>1, <4>2
    <3>3. \A x \in Proc : parent'[x] # x
      BY <1>0, <2>5, <3>1, ProcFacts DEF FamilyInv
    <3>4. ASSUME NEW x \in Proc, state'[x] \in {"UNUSED", "EMBRYO"}
          PROVE  parent'[x] = NoProc
      <4>1. state[x] \in {"UNUSED", "EMBRYO"}
        BY <2>4, <3>4
      <4> QED
        BY <1>0, <2>5, <4>1, ProcFacts DEF FamilyInv
    <3> QED
      BY <3>1, <3>2, <3>3, <3>4 DEF FamilyInv
  <2>9. NoMissedExit'
    <3> SUFFICES ASSUME NEW x \in Proc, state'[x] = "SLEEPING", chan'[x] = "self"
                 PROVE  /\ \E y \in Proc : parent'[y] = x
                        /\ \A y \in Proc : parent'[y] = x => state'[y] # "ZOMBIE"
      BY DEF NoMissedExit, Children
    <3>1. x # p /\ x \notin S /\ state[x] = "SLEEPING" /\ chan[x] = "self"
      BY <2>1, <2>4
    <3>2. \E y \in Proc : parent'[y] = x
      <4>1. PICK y \in Proc : parent[y] = x
        BY <1>0, <3>1 DEF NoMissedExit, Children
      <4> QED
        BY <2>5, <3>1, <4>1
    <3>3. ASSUME NEW y \in Proc, parent'[y] = x
          PROVE  state'[y] # "ZOMBIE"
      <4>1. y # p
        <5>1. parent[p] # p /\ parent[p] # x
          BY <1>0, <2>3, <3>1 DEF FamilyInv
        <5> QED
          BY <2>5, <3>3, <5>1
      <4>2. state[y] # "ZOMBIE"
        <5>1. CASE parent[y] = p
          BY <2>3, <2>5, <3>1, <3>3, <5>1 DEF Children
        <5>2. CASE parent[y] # p
          BY <1>0, <2>5, <3>1, <3>3, <5>2 DEF NoMissedExit, Children
        <5> QED
          BY <5>1, <5>2
      <4> QED
        BY <2>4, <4>1, <4>2
    <3> QED
      BY <3>2, <3>3
  <2>10. KillReachesWait'
    BY <1>0, <2>1, <2>4 DEF KillReachesWait
  <2> QED
    BY <2>8, <2>9, <2>10 DEF WaitInv
<1> QED
  BY <1>1, <1>2

\* sleep(): a process goes to sleep in wait() with children, none of them a
\* zombie, and not killed
LEMMA WaitGoToSleep ==
  ASSUME TypeOK, CpuInv, WaitInv, NEW c \in CPUS, NEW p \in Proc,
         NEW ch \in {"ticks", "self"},
         cproc[c] = p, cpc[c] \in {"resume", "run"},
         GoToSleep(c, p, ch), UNCHANGED <<parent, killed>>,
         ch = "self" => /\ Children(p) # {} /\ killed[p] = 0
                        /\ \A q \in Children(p) : state[q] # "ZOMBIE"
  PROVE  WaitInv'
<1>0. FamilyInv /\ NoMissedExit /\ KillReachesWait
  BY DEF WaitInv
<1>1. state[p] = "RUNNING"
  BY RunningState
<1>2. state' = [state EXCEPT ![p] = "SLEEPING"] /\ chan' = [chan EXCEPT ![p] = ch]
  BY DEF GoToSleep
<1>3. \A q \in Proc : state'[q] = IF q = p THEN "SLEEPING" ELSE state[q]
  BY <1>2 DEF TypeOK
<1>4. \A q \in Proc : chan'[q] = IF q = p THEN ch ELSE chan[q]
  BY <1>2 DEF TypeOK
<1>5. FamilyInv'
  <2>1. \A q \in Proc : state[q] \in Live => state'[q] \in Live
    BY <1>3 DEF Live
  <2>2. \A q \in Proc : parent[q] \in Proc \cup {NoProc}
    BY DEF TypeOK
  <2>3. \A q \in Proc : state'[q] \in {"UNUSED", "EMBRYO"} => state[q] \in {"UNUSED", "EMBRYO"}
    BY <1>3
  <2> QED
    BY <1>0, <2>1, <2>2, <2>3, ProcFacts DEF FamilyInv
<1>6. NoMissedExit'
  BY <1>0, <1>3, <1>4 DEF NoMissedExit, Children
<1>7. KillReachesWait'
  <2>1. killed[p] = 1 => ch = "ticks"
    OBVIOUS
  <2> QED
    BY <1>0, <1>3, <1>4, <2>1 DEF KillReachesWait
<1> QED
  BY <1>5, <1>6, <1>7 DEF WaitInv

\* one scan of wait(): a reaped zombie is nobody's parent, and no other process
\* waits for it
LEMMA WaitWait ==
  ASSUME TypeOK, CpuInv, WaitInv, NEW c \in CPUS, NEW p \in Proc, cproc[c] = p,
         cpc[c] \in {"resume", "run"}, WaitScan(c, p)
  PROVE  WaitInv'
<1>0. FamilyInv /\ NoMissedExit /\ KillReachesWait
  BY DEF WaitInv
<1>1. state[p] = "RUNNING"
  BY RunningState
<1>2. CASE Reap(c, p)
  <2> DEFINE z == FirstSlot({x \in Children(p) : state[x] = "ZOMBIE"})
  <2>1. z \in Proc /\ parent[z] = p /\ state[z] = "ZOMBIE"
    <3>1. {x \in Children(p) : state[x] = "ZOMBIE"} \in SUBSET Proc
      BY DEF Children
    <3>2. z \in {x \in Children(p) : state[x] = "ZOMBIE"}
      BY <1>2, <3>1, FirstSlotIn DEF Reap
    <3> QED
      BY <3>2 DEF Children
  <2>2. /\ parent' = [parent EXCEPT ![z] = NoProc]
        /\ killed' = [killed EXCEPT ![z] = 0]
        /\ state' = [state EXCEPT ![z] = "UNUSED"]
        /\ chan' = [chan EXCEPT ![p] = "none"]
    BY <1>2 DEF Reap
  <2> HIDE DEF z
  <2>3. \A x \in Proc : state'[x] = IF x = z THEN "UNUSED" ELSE state[x]
    BY <2>2 DEF TypeOK
  <2>4. \A x \in Proc : parent'[x] = IF x = z THEN NoProc ELSE parent[x]
    BY <2>2 DEF TypeOK
  <2>5. \A x \in Proc : x # p => chan'[x] = chan[x]
    BY <2>2 DEF TypeOK
  <2>6. \A x \in Proc : x # z => killed'[x] = killed[x]
    BY <2>2 DEF TypeOK
  <2>7. FamilyInv'
    <3>1. \A x \in Proc : state[x] \in Live => x # z /\ state'[x] = state[x]
      BY <2>1, <2>3 DEF Live
    <3>2. \A x \in Proc : parent[x] \in Proc \cup {NoProc}
      BY DEF TypeOK
    <3> QED
      BY <1>0, <2>3, <2>4, <3>1, <3>2, ProcFacts DEF FamilyInv
  <2>8. NoMissedExit'
    <3> SUFFICES ASSUME NEW x \in Proc, state'[x] = "SLEEPING", chan'[x] = "self"
                 PROVE  /\ \E y \in Proc : parent'[y] = x
                        /\ \A y \in Proc : parent'[y] = x => state'[y] # "ZOMBIE"
      BY DEF NoMissedExit, Children
    <3>1. x # p /\ x # NoProc /\ state[x] = "SLEEPING" /\ chan[x] = "self"
      BY <1>1, <2>1, <2>3, <2>5, ProcFacts
    <3> QED
      BY <1>0, <2>1, <2>3, <2>4, <3>1 DEF NoMissedExit, Children
  <2>9. KillReachesWait'
    <3>1. \A x \in Proc : state'[x] = "SLEEPING" => x # z /\ x # p /\ state[x] = "SLEEPING"
      BY <1>1, <2>1, <2>3
    <3> QED
      BY <1>0, <2>5, <2>6, <3>1 DEF KillReachesWait
  <2> QED
    BY <2>7, <2>8, <2>9 DEF WaitInv
<1>3. CASE NoChild(c, p)
  <2>1. UNCHANGED <<state, parent, killed>> /\ chan' = [chan EXCEPT ![p] = "none"]
    BY <1>3 DEF NoChild
  <2>2. \A q \in Proc : q # p => chan'[q] = chan[q]
    BY <2>1 DEF TypeOK
  <2>3. \A q \in Proc : AwakeMove(q)
    BY <1>1, <2>1, <2>2 DEF AwakeMove
  <2> QED
    BY <2>1, <2>3, WaitQuiet
<1>4. CASE WaitSleep(c, p)
  BY <1>4, WaitGoToSleep DEF WaitSleep
<1> QED
  BY <1>2, <1>3, <1>4 DEF WaitScan

LEMMA WaitKill ==
  ASSUME TypeOK, WaitInv, NEW c \in CPUS, NEW p \in Proc, SysKill(c, p)
  PROVE  WaitInv'
<1>0. FamilyInv /\ NoMissedExit /\ KillReachesWait
  BY DEF WaitInv
<1>1. PICK q : /\ killed' = [killed EXCEPT ![q] = 1]
               /\ state' = [state EXCEPT ![q] = IF @ = "SLEEPING" THEN "RUNNABLE" ELSE @]
               /\ UNCHANGED <<parent, chan>>
  BY DEF SysKill, procVars
<1>2. \A x \in Proc :
        state'[x] = IF x = q /\ state[x] = "SLEEPING" THEN "RUNNABLE" ELSE state[x]
  BY <1>1 DEF TypeOK
<1>3. \A x \in Proc : x # q => killed'[x] = killed[x]
  BY <1>1 DEF TypeOK
<1>4. FamilyInv'
  <2>1. \A x \in Proc : state[x] \in Live => state'[x] \in Live
    BY <1>2 DEF Live
  <2>2. \A x \in Proc : parent[x] \in Proc \cup {NoProc}
    BY DEF TypeOK
  <2>3. \A x \in Proc : state'[x] \in {"UNUSED", "EMBRYO"} => state[x] \in {"UNUSED", "EMBRYO"}
    BY <1>2
  <2> QED
    BY <1>0, <1>1, <2>1, <2>2, <2>3, ProcFacts DEF FamilyInv
<1>5. NoMissedExit'
  BY <1>0, <1>1, <1>2 DEF NoMissedExit, Children
<1>6. KillReachesWait'
  <2>1. \A x \in Proc : state'[x] = "SLEEPING" => x # q /\ state[x] = "SLEEPING"
    BY <1>2
  <2> QED
    BY <1>0, <1>1, <1>3, <2>1 DEF KillReachesWait
<1> QED
  BY <1>4, <1>5, <1>6 DEF WaitInv

LEMMA WaitCalls ==
  ASSUME TypeOK, CpuInv, ForkInv, WaitInv, NEW c \in CPUS, NEW p \in Proc,
         cproc[c] = p, CallStep(c, p) \/ SystemCall(c, p)
  PROVE  WaitInv'
<1>1. ASSUME UNCHANGED <<state, procVars, chan, killed>>
      PROVE  WaitInv'
  BY <1>1, WaitQuiet DEF AwakeMove, procVars
<1>2. CASE KilledExit(c, p) \/ SysExit(c, p) \/ SleepCheck(c, p)
  BY <1>1, <1>2 DEF KilledExit, SysExit, SleepCheck
<1>3. CASE SysSleep(c, p) \/ SleepAgain(c, p)
  BY <1>1, <1>3 DEF SysSleep, SleepAgain, SleepLock
<1>4. CASE SysSetMonopoly(c, p) \/ SysMonopolize(c, p) \/ SysUnmonopolize(c, p)
  BY <1>1, <1>4 DEF SysSetMonopoly, SysMonopolize, SysUnmonopolize
<1>5. CASE SleepOnTicks(c, p)
  BY <1>5, WaitGoToSleep DEF SleepOnTicks, Running, procVars
<1>6. CASE SysYield(c, p) \/ SetMonopolyYield(c, p)
  BY <1>6, WaitYield DEF SysYield, SetMonopolyYield, Call, Running
<1>7. CASE SysWait(c, p) \/ WaitAgain(c, p)
  BY <1>7, WaitWait DEF SysWait, WaitAgain, Call, Running
<1> QED
  BY <1>2, <1>3, <1>4, <1>5, <1>6, <1>7, WaitFork, WaitExit, WaitKill
  DEF CallStep, SystemCall

-----------------------------------------------------------------------------
(* The theorems *)

LEMMA WaitInvInit == Init => WaitInv
<1> SUFFICES ASSUME Init PROVE WaitInv
  OBVIOUS
<1>1. FamilyInv
  BY ProcFacts DEF Init, FamilyInv, Live
<1>2. NoMissedExit /\ KillReachesWait
  BY DEF Init, NoMissedExit, KillReachesWait
<1> QED
  BY <1>1, <1>2 DEF WaitInv

LEMMA WaitInvNext == Inv /\ WaitInv /\ [Next]_vars => WaitInv'
<1> SUFFICES ASSUME Inv, WaitInv, [Next]_vars PROVE WaitInv'
  OBVIOUS
<1>0. TypeOK /\ CpuInv /\ ForkInv
  BY DEF Inv
<1>1. CASE Next
  <2>1. PICK c \in CPUS : Step(c)
    BY <1>1 DEF Next
  <2> QED
    BY <1>0, <2>1, ProcFacts, WaitScheduler, WaitTimer, WaitCalls
    DEF Step, ProcessStep
<1>2. CASE UNCHANGED vars
  BY <1>0, <1>2, WaitQuiet DEF vars, AwakeMove
<1> QED
  BY <1>1, <1>2

THEOREM WaitInvariant == Spec => []WaitInv
<1>1. Init => WaitInv
  BY WaitInvInit
<1>2. Inv /\ WaitInv /\ [Next]_vars => WaitInv'
  BY WaitInvNext
<1> QED
  BY <1>1, <1>2, Invariant, PTL DEF Spec

\* exit(): the parent a process reports its exit to is one that can still wait
\* for it, also when parents and children exit in any order and orphans are
\* passed to init
THEOREM ParentAliveCorrect == Spec => []ParentAlive
<1>1. WaitInv => ParentAlive
  BY DEF WaitInv, FamilyInv, Live, ParentAlive
<1> QED
  BY <1>1, WaitInvariant, PTL

\* wait(): a process asleep in it has a child to wait for and no zombie among
\* them: no wakeup of an exit, of an own child or of an adopted one, is lost
THEOREM NoMissedExitCorrect == Spec => []NoMissedExit
<1>1. WaitInv => NoMissedExit
  BY DEF WaitInv
<1> QED
  BY <1>1, WaitInvariant, PTL

\* kill(): no process sleeps in wait() with killed set
THEOREM KillReachesWaitCorrect == Spec => []KillReachesWait
<1>1. WaitInv => KillReachesWait
  BY DEF WaitInv
<1> QED
  BY <1>1, WaitInvariant, PTL

-----------------------------------------------------------------------------
(* The run queues without the MoQ *)

\* The processes that wait in m are runnable and at their level, each once; one
\* that is runnable waits, unless kill() made it runnable
Placed(m, st, lev, kl) ==
  /\ Single(m)
  /\ \A p \in Proc, l \in Level : Waits(m, p, l) => st[p] = "RUNNABLE" /\ lev[p] = l
  /\ \A p \in Proc : st[p] = "RUNNABLE" /\ kl[p] = 0 => Waits(m, p, lev[p])

\* nobody can kill init, which never comes to exit()
InitAlive == pid[InitProc] = 1 /\ killed[InitProc] = 0 /\ at[InitProc] # "exit"

QueueInv ==
  /\ Placed(mlfq, state, level, killed)
  /\ moq = <<>> /\ \A p \in Proc : monopoly[p] = 0
  /\ LockReleased

\* not every slot of the process table is in use
SlotFree == \E u \in Proc : state[u] = "UNUSED"

-----------------------------------------------------------------------------
(* What a step can do to Placed *)

LEMMA PlacedSame ==
  ASSUME NEW m, NEW st, NEW lev, NEW kl, NEW st2, NEW lev2, NEW kl2,
         Placed(m, st, lev, kl),
         \A p \in Proc : st[p] = "RUNNABLE" => st2[p] = "RUNNABLE" /\ lev2[p] = lev[p],
         \A p \in Proc : st2[p] = "RUNNABLE" /\ kl2[p] = 0 => st[p] = "RUNNABLE" /\ kl[p] = 0
  PROVE  Placed(m, st2, lev2, kl2)
BY DEF Placed

\* insertmlfq() of processes that become runnable
LEMMA PlacedInsert ==
  ASSUME NEW m \in Mlfq, NEW st, NEW lev, NEW kl, NEW st2, NEW lev2,
         Placed(m, st, lev, kl), NEW W \in SUBSET Proc,
         \A p \in W : st[p] # "RUNNABLE" /\ st2[p] = "RUNNABLE" /\ lev2[p] \in Level,
         \A p \in Proc \ W : st2[p] = "RUNNABLE" <=> st[p] = "RUNNABLE",
         \A p \in Proc \ W : st[p] = "RUNNABLE" => lev2[p] = lev[p],
         NEW u \in Proc, st[u] # "RUNNABLE", u \notin W
  PROVE  Placed(InsertMlfq(m, W, lev2), st2, lev2, kl)
<1> DEFINE n == InsertMlfq(m, W, lev2)
<1>1. /\ Single(n)
      /\ \A p \in Proc, l \in Level :
           Waits(n, p, l) <=> Waits(m, p, l) \/ (p \in W /\ lev2[p] = l)
  <2>1. Single(m) /\ \A p \in W : \A l \in Level : ~ Waits(m, p, l)
    BY DEF Placed
  <2>2. \A l \in Level : ~ Waits(m, u, l)
    BY DEF Placed
  <2> QED
    BY <2>1, <2>2, InsertMlfqSingle
<1> HIDE DEF n
<1>2. ASSUME NEW p \in Proc, NEW l \in Level, Waits(n, p, l)
      PROVE  st2[p] = "RUNNABLE" /\ lev2[p] = l
  <2>1. CASE p \in W
    BY <1>1, <1>2, <2>1 DEF Placed
  <2>2. CASE p \notin W
    BY <1>1, <1>2, <2>2 DEF Placed
  <2> QED
    BY <2>1, <2>2
<1>3. ASSUME NEW p \in Proc, st2[p] = "RUNNABLE", kl[p] = 0
      PROVE  Waits(n, p, lev2[p])
  <2>1. CASE p \in W
    BY <1>1, <2>1
  <2>2. CASE p \notin W
    <3>1. Waits(m, p, lev2[p])
      BY <1>3, <2>2 DEF Placed
    <3>2. lev2[p] \in Level
      BY <3>1 DEF Waits, Level, QLevel
    <3> QED
      BY <1>1, <3>1, <3>2
  <2> QED
    BY <2>1, <2>2
<1>4. Placed(n, st2, lev2, kl)
  BY <1>1, <1>2, <1>3 DEF Placed
<1> QED
  BY <1>4 DEF n

\* scheduler(): a waiting process is taken and runs
LEMMA PlacedTake ==
  ASSUME NEW m, NEW n, NEW st \in [Proc -> States], NEW lev, NEW kl, Placed(m, st, lev, kl),
         NEW p \in Proc, Single(n),
         \A q \in Proc, l \in Level : Waits(n, q, l) <=> Waits(m, q, l) /\ q # p
  PROVE  Placed(n, [st EXCEPT ![p] = "RUNNING"], lev, kl)
<1>1. PICK st2 : st2 = [st EXCEPT ![p] = "RUNNING"]
  OBVIOUS
<1>2. \A q \in Proc : st2[q] = IF q = p THEN "RUNNING" ELSE st[q]
  BY <1>1
<1>3. ASSUME NEW q \in Proc, st2[q] = "RUNNABLE", kl[q] = 0
      PROVE  Waits(n, q, lev[q])
  <2>1. q # p /\ Waits(m, q, lev[q])
    BY <1>2, <1>3 DEF Placed
  <2>2. lev[q] \in Level
    BY <2>1 DEF Waits, Level, QLevel
  <2> QED
    BY <2>1, <2>2
<1>4. Placed(n, st2, lev, kl)
  BY <1>2, <1>3 DEF Placed
<1> QED
  BY <1>1, <1>4

\* priorityboosting(): every runnable process, those of kill() too, waits in q[0]
LEMMA PlacedBoost ==
  ASSUME \A p \in Proc : monopoly[p] = 0, NEW st, NEW u \in Proc, st[u] # "RUNNABLE"
  PROVE  Placed(BoostMlfq(st), st, BoostField(st, level), killed)
<1> DEFINE W == Boosted(st)
<1>1. \A p \in Proc : p \in W <=> st[p] = "RUNNABLE"
  BY DEF Boosted
<1>2. W \in SUBSET Proc /\ u \notin W /\ 0 \in Level
  BY <1>1 DEF Boosted, Level
<1>3. PICK lev : lev = [p \in Proc |-> 0]
  OBVIOUS
<1>4. PICK n : n = InsertMlfq(EmptyMlfq, W, lev)
  OBVIOUS
<1>5. \A p \in Proc : lev[p] = 0
  BY <1>3
<1>6. /\ Single(n)
      /\ \A p \in Proc, l \in Level : Waits(n, p, l) <=> p \in W /\ lev[p] = l
  <2> HIDE DEF W
  <2>1. \A p \in W : lev[p] \in Level
    BY <1>2, <1>5
  <2>2. /\ Single(InsertMlfq(EmptyMlfq, W, lev))
        /\ \A p \in Proc, l \in Level :
             Waits(InsertMlfq(EmptyMlfq, W, lev), p, l) <=> p \in W /\ lev[p] = l
    BY <1>2, <2>1, EmptySingle, EmptyMlfqType, InsertMlfqSingle
  <2> QED
    BY <1>4, <2>2
<1>7. \A p \in W : BoostField(st, level)[p] = 0
  BY <1>2 DEF BoostField
<1>8. n = BoostMlfq(st)
  BY <1>3, <1>4 DEF BoostMlfq
<1> HIDE DEF W
<1>9. PICK f : f = BoostField(st, level)
  OBVIOUS
<1>10. \A p \in W : f[p] = 0
  BY <1>7, <1>9
<1>11. Placed(n, st, f, killed)
  BY <1>1, <1>2, <1>5, <1>6, <1>10 DEF Placed
<1> QED
  BY <1>8, <1>9, <1>11

-----------------------------------------------------------------------------
(* init, which has pid 1 *)

LEMMA InitAliveStep ==
  ASSUME TypeOK, FamilyInv, InitAlive, 1 \notin PidArgs, Next
  PROVE  InitAlive'
<1>1. PICK c \in CPUS : Step(c)
  BY DEF Next
<1>2. ASSUME UNCHANGED <<pid, killed>>, at'[InitProc] # "exit" PROVE InitAlive'
  BY <1>2 DEF InitAlive
<1>3. ASSUME UNCHANGED <<pid, killed, at>> PROVE InitAlive'
  BY <1>3 DEF InitAlive
<1>4. ASSUME NEW p \in Proc, NEW v, v # "exit", UNCHANGED <<pid, killed>>, at' = [at EXCEPT ![p] = v]
      PROVE  InitAlive'
  BY <1>4, ProcFacts DEF InitAlive, TypeOK
<1>5. ASSUME NEW p \in Proc, UNCHANGED <<pid, killed>>, AfterIrq(p) PROVE InitAlive'
  <2>1. at' = at \/ (p # InitProc /\ at' = [at EXCEPT ![p] = "exit"])
    BY <1>5 DEF AfterIrq, InitAlive
  <2> QED
    BY <1>5, <2>1, ProcFacts DEF InitAlive, TypeOK
<1>6. CASE SchedulerStep(c)
  <2>1. CASE PickQueue(c) \/ PickHeap(c) \/ PickMoq(c)
    BY <1>3, <2>1 DEF PickQueue, PickHeap, PickMoq, Dispatch, procVars, stackVars
  <2>2. CASE PickHeapStale(c) \/ RotateMoq(c) \/ PickMoqEmpty(c) \/ AcquirePanic(c)
    BY <1>3, <2>2 DEF PickHeapStale, RotateMoq, PickMoqEmpty, AcquirePanic, procVars, stackVars
  <2>3. CASE PickNone(c) \/ SchedBack(c)
    BY <1>3, <2>3 DEF PickNone, SchedBack, procVars, stackVars
  <2> QED
    BY <1>6, <2>1, <2>2, <2>3 DEF SchedulerStep
<1>7. CASE IdleTick(c) \/ IdleTickWakeup(c)
  BY <1>3, <1>7 DEF IdleTick, IdleTickWakeup, WakeupTicks, procVars, stackVars
<1>8. ASSUME NEW p \in Proc, Timer(c, p) \/ TrapStep(c, p) PROVE InitAlive'
  <2>1. CASE Tick(c, p) \/ TrapAccount(c, p) \/ TrapCount(c, p) \/ TrapExpire(c, p)
    BY <1>3, <2>1 DEF Tick, TrapAccount, TrapCount, TrapExpire, procVars
  <2>2. CASE OtherTimer(c, p) \/ TickWakeup(c, p)
    BY <1>5, <2>2 DEF OtherTimer, TickWakeup, WakeupTicks, procVars
  <2>3. CASE TrapYield(c, p)
    BY <1>3, <2>3 DEF TrapYield, Yield, procVars, stackVars
  <2>4. CASE Resume(c, p)
    <3>1. UNCHANGED <<pid, killed>>
      BY <2>4 DEF Resume, procVars
    <3>2. at' = at \/ at' = [at EXCEPT ![p] = "user"]
                   \/ at' = [at EXCEPT ![p] = at[p]]
      BY <2>4 DEF Resume
    <3>3. at'[InitProc] \in {"user", at[InitProc]}
      BY <3>2, ProcFacts DEF TypeOK
    <3> QED
      BY <1>2, <3>1, <3>3 DEF InitAlive
  <2> QED
    BY <1>8, <2>1, <2>2, <2>3, <2>4 DEF Timer, TrapStep
<1>9. ASSUME NEW p \in Proc, CallStep(c, p) \/ SystemCall(c, p) PROVE InitAlive'
  <2>1. CASE KilledExit(c, p) \/ SysExit(c, p)
    <3>1. UNCHANGED <<pid, killed>> /\ p # InitProc /\ at' = [at EXCEPT ![p] = "exit"]
      BY <2>1 DEF KilledExit, SysExit, InitAlive, procVars
    <3> QED
      BY <3>1, ProcFacts DEF InitAlive, TypeOK
  <2>2. CASE ForkFail(c, p) \/ ForkDone(c, p)
    BY <1>4, <2>2 DEF ForkFail, ForkDone, procVars
  <2>3. CASE SysSleep(c, p) \/ SleepAgain(c, p) \/ SleepCheck(c, p) \/ SleepOnTicks(c, p)
    BY <1>4, <2>3 DEF SysSleep, SleepAgain, SleepLock, SleepCheck, SleepOnTicks, procVars
  <2>4. CASE Exit(c, p) \/ SysYield(c, p) \/ SetMonopolyYield(c, p)
    BY <1>3, <2>4 DEF Exit, SysYield, SetMonopolyYield, Yield, procVars, stackVars
  <2>5. CASE SysMonopolize(c, p) \/ SysUnmonopolize(c, p)
    BY <1>3, <2>5 DEF SysMonopolize, SysUnmonopolize, procVars, stackVars
  <2>6. CASE SysSetMonopoly(c, p)
    <3>1. PICK v \in {"setmono", "user"} : at' = [at EXCEPT ![p] = v]
      BY <2>6 DEF SysSetMonopoly
    <3>2. UNCHANGED <<pid, killed>>
      BY <2>6 DEF SysSetMonopoly, procVars
    <3> QED
      BY <1>4, <3>1, <3>2
  <2>7. CASE SysKill(c, p)
    <3>1. PICK x \in PidArgs :
            /\ WithPid(x) # {}
            /\ killed' = [killed EXCEPT ![FirstSlot(WithPid(x))] = 1]
      BY <2>7 DEF SysKill
    <3>2. FirstSlot(WithPid(x)) # InitProc
      <4>1. WithPid(x) \in SUBSET Proc
        BY DEF WithPid
      <4>2. FirstSlot(WithPid(x)) \in WithPid(x)
        BY <3>1, <4>1, FirstSlotIn
      <4>3. InitProc \notin WithPid(x)
        BY DEF WithPid, InitAlive
      <4> QED
        BY <4>2, <4>3
    <3>3. UNCHANGED <<pid, at>>
      BY <2>7 DEF SysKill, procVars, stackVars
    <3> QED
      BY <3>1, <3>2, <3>3 DEF InitAlive, TypeOK
  <2>8. CASE SysFork(c, p)
    <3>1. PICK q : q = FirstSlot({x \in Proc : state[x] = "UNUSED"})
      OBVIOUS
    <3>2. q \in Proc /\ q # InitProc
      <4>1. q \in {x \in Proc : state[x] = "UNUSED"}
        BY <2>8, <3>1, FirstSlotIn DEF SysFork
      <4> QED
        BY <4>1 DEF FamilyInv, Live
    <3>3. /\ pid' = [pid EXCEPT ![q] = nextpid] /\ UNCHANGED killed
          /\ at' = [at EXCEPT ![p] = "fork", ![q] = "forkret"]
      BY <2>8, <3>1 DEF SysFork
    <3>4. at'[InitProc] \in {"fork", at[InitProc]}
      BY <3>2, <3>3, ProcFacts DEF TypeOK
    <3> QED
      BY <3>2, <3>3, <3>4 DEF InitAlive, TypeOK
  <2>9. CASE SysWait(c, p) \/ WaitAgain(c, p)
    <3>1. WaitScan(c, p)
      BY <2>9 DEF SysWait, WaitAgain
    <3>2. CASE Reap(c, p)
      <4>1. PICK z : z = FirstSlot({x \in Children(p) : state[x] = "ZOMBIE"})
        OBVIOUS
      <4>2. z # InitProc
        <5>1. {x \in Children(p) : state[x] = "ZOMBIE"} \in SUBSET Proc
          BY DEF Children
        <5>2. z \in {x \in Children(p) : state[x] = "ZOMBIE"}
          BY <3>2, <4>1, <5>1, FirstSlotIn DEF Reap
        <5> QED
          BY <5>2 DEF FamilyInv, Live
      <4>3. /\ pid' = [pid EXCEPT ![z] = 0] /\ killed' = [killed EXCEPT ![z] = 0]
            /\ at' = [at EXCEPT ![p] = "user"]
        BY <3>2, <4>1 DEF Reap
      <4>4. at'[InitProc] \in {"user", at[InitProc]}
        BY <4>3 DEF TypeOK
      <4> QED
        BY <4>2, <4>3, <4>4 DEF InitAlive, TypeOK
    <3>3. CASE NoChild(c, p) \/ WaitSleep(c, p)
      BY <1>4, <3>3 DEF NoChild, WaitSleep
    <3> QED
      BY <3>1, <3>2, <3>3 DEF WaitScan
  <2> QED
    BY <1>9, <2>1, <2>2, <2>3, <2>4, <2>5, <2>6, <2>7, <2>8, <2>9 DEF CallStep, SystemCall
<1> QED
  BY <1>1, <1>6, <1>7, <1>8, <1>9 DEF Step, ProcessStep

-----------------------------------------------------------------------------
(* ptable.lock: taken at swtch(), given up after it, never kept in the loop *)

LEMMA LockSame ==
  ASSUME LockReleased, UNCHANGED <<lock, panicked>>,
         \A d \in CPUS : cpc'[d] \in {"resume", "back"} <=> cpc[d] \in {"resume", "back"}
  PROVE  LockReleased'
BY DEF LockReleased

LEMMA LockTaken ==
  ASSUME TypeOK, CpuInv, LockReleased, NEW c \in CPUS, NEW v \in {"resume", "back"},
         LockFree \/ lock = c, lock' = c, cpc' = [cpc EXCEPT ![c] = v], UNCHANGED panicked
  PROVE  LockReleased'
<1>1. \A d \in CPUS : d # c => cpc[d] \notin {"resume", "back"}
  BY LockHolder
<1>2. \A d \in CPUS : cpc'[d] = IF d = c THEN v ELSE cpc[d]
  BY DEF TypeOK
<1> QED
  BY <1>1, <1>2 DEF LockReleased

LEMMA LockGiven ==
  ASSUME TypeOK, CpuInv, LockReleased, NEW c \in CPUS, NEW v \in {"run", "loop"},
         LockFree \/ lock = c, lock' = NoCpu, cpc' = [cpc EXCEPT ![c] = v], UNCHANGED panicked
  PROVE  LockReleased'
<1>1. \A d \in CPUS : d # c => cpc[d] \notin {"resume", "back"}
  BY LockHolder
<1>2. \A d \in CPUS : cpc'[d] = IF d = c THEN v ELSE cpc[d]
  BY DEF TypeOK
<1> QED
  BY <1>1, <1>2, CPUSAssumption DEF LockReleased

-----------------------------------------------------------------------------
(* QueueInv across the steps *)

\* the head of a queue and a member of the heap are runnable: scheduler() skips
\* nobody, and comes to the heap only when the queues are empty
LEMMA NobodyStale ==
  ASSUME TypeOK, QueueInv
  PROVE  /\ \A l \in QLevel : mlfq.q[l] # <<>> =>
              /\ Head(mlfq.q[l]) \in Proc /\ level[Head(mlfq.q[l])] = l
              /\ ~ Stale(Head(mlfq.q[l]))
         /\ \A p \in HeapMembers(mlfq) : level[p] = 3 /\ ~ Stale(p)
         /\ NoQueueHead => AfterQueues = mlfq /\ \A l \in QLevel : mlfq.q[l] = <<>>
<1>1. mlfq \in Mlfq /\ Single(mlfq)
  BY DEF TypeOK, QueueInv, Placed
<1>2. QLevel \subseteq Level /\ 3 \in Level
  BY DEF QLevel, Level
<1>3. ASSUME NEW l \in QLevel, mlfq.q[l] # <<>>
      PROVE  /\ Head(mlfq.q[l]) \in Proc /\ level[Head(mlfq.q[l])] = l
             /\ ~ Stale(Head(mlfq.q[l]))
  <2>1. Waits(mlfq, Head(mlfq.q[l]), l)
    BY <1>1, <1>3, DropHeadSingle
  <2>2. Head(mlfq.q[l]) \in Proc
    BY <1>1, <1>3, DropHeadType
  <2> QED
    BY <1>2, <2>1, <2>2 DEF QueueInv, Placed, Stale
<1>4. ASSUME NEW p \in HeapMembers(mlfq) PROVE level[p] = 3 /\ ~ Stale(p)
  <2>1. Waits(mlfq, p, 3) /\ p \in Proc
    BY DEF Waits, HeapMembers
  <2> QED
    BY <1>2, <2>1 DEF QueueInv, Placed, Stale
<1>5. ASSUME NoQueueHead PROVE AfterQueues = mlfq /\ \A l \in QLevel : mlfq.q[l] = <<>>
  <2>1. \A l \in QLevel : ~ FirstQueue(l)
    BY <1>3, <1>5 DEF NoQueueHead, FirstQueue
  <2>2. mlfq.q[0] = <<>> /\ mlfq.q[1] = <<>> /\ mlfq.q[2] = <<>>
    <3>1. 0 \in QLevel /\ 1 \in QLevel /\ 2 \in QLevel
      BY DEF QLevel
    <3>2. \A k \in QLevel : k \in {0, 1, 2}
      BY DEF QLevel
    <3>3. mlfq.q[0] = <<>>
      BY <2>1, <3>1, <3>2 DEF FirstQueue
    <3>4. mlfq.q[1] = <<>>
      BY <2>1, <3>1, <3>2, <3>3 DEF FirstQueue
    <3> QED
      BY <2>1, <3>1, <3>2, <3>3, <3>4 DEF FirstQueue
  <2>3. [l \in QLevel |-> IF FirstQueue(l) THEN Tail(mlfq.q[l]) ELSE mlfq.q[l]] = mlfq.q
    BY <1>1, <2>1 DEF Mlfq
  <2>4. AfterQueues = mlfq
    BY <1>1, <2>3 DEF AfterQueues, Mlfq
  <2> QED
    BY <2>2, <2>4 DEF QLevel
<1> QED
  BY <1>3, <1>4, <1>5

LEMMA QueueScheduler ==
  ASSUME TypeOK, CpuInv, QueueInv, SlotFree, NEW c \in CPUS, SchedulerStep(c)
  PROVE  QueueInv'
<1>0. /\ mlfq \in Mlfq /\ Single(mlfq) /\ Placed(mlfq, state, level, killed)
      /\ moq = <<>> /\ (\A p \in Proc : monopoly[p] = 0) /\ LockReleased
  BY DEF TypeOK, QueueInv, Placed
<1>1. ASSUME NEW p \in Proc, NEW b, cpc[c] = "loop", LockFree, Dispatch(c, p, b),
             Single(mlfq'), UNCHANGED moq,
             \A q \in Proc, l \in Level : Waits(mlfq', q, l) <=> Waits(mlfq, q, l) /\ q # p
      PROVE  QueueInv'
  <2>1. /\ state' = [state EXCEPT ![p] = "RUNNING"] /\ UNCHANGED <<level, monopoly, killed, panicked>>
        /\ lock' = c /\ cpc' = [cpc EXCEPT ![c] = "resume"]
    BY <1>1 DEF Dispatch, schedVars
  <2>2. LockReleased'
    BY <1>0, <1>1, <2>1, LockTaken
  <2>3. Placed(mlfq', [state EXCEPT ![p] = "RUNNING"], level, killed)
    <3>1. state \in [Proc -> States]
      BY DEF TypeOK
    <3>2. PICK n : n = mlfq'
      OBVIOUS
    <3>3. Placed(n, [state EXCEPT ![p] = "RUNNING"], level, killed)
      BY <1>0, <1>1, <3>1, <3>2, PlacedTake
    <3> QED
      BY <3>2, <3>3
  <2> QED
    BY <1>0, <1>1, <2>1, <2>2, <2>3 DEF QueueInv
<1>2. ASSUME UNCHANGED <<state, level, killed, monopoly, mlfq, moq>>, LockReleased'
      PROVE  QueueInv'
  BY <1>0, <1>2 DEF QueueInv
<1>3. ASSUME mlfq' = BoostMlfq(state), level' = BoostField(state, level),
             UNCHANGED <<state, killed, monopoly, moq>>, LockReleased'
      PROVE  QueueInv'
  <2>1. Placed(BoostMlfq(state), state, BoostField(state, level), killed)
    <3>1. PICK u \in Proc : state[u] # "RUNNABLE"
      BY DEF SlotFree
    <3> QED
      BY <1>0, <3>1, PlacedBoost
  <2> QED
    BY <1>0, <1>3, <2>1 DEF QueueInv
<1>4. CASE PickQueue(c)
  <2>1. PICK l \in QLevel :
          /\ FirstQueue(l) /\ mlfq' = DropHead(mlfq, l)
          /\ Dispatch(c, Head(mlfq.q[l]), "mlfq")
    BY <1>4 DEF PickQueue
  <2>2. cpc[c] = "loop" /\ LockFree /\ UNCHANGED moq
    BY <1>4 DEF PickQueue, InScheduler
  <2>3. mlfq.q[l] # <<>>
    BY <2>1 DEF FirstQueue
  <2>4. Head(mlfq.q[l]) \in Proc
    BY <2>3, NobodyStale
  <2>5. /\ Single(mlfq')
        /\ \A q \in Proc, k \in Level :
             Waits(mlfq', q, k) <=> Waits(mlfq, q, k) /\ q # Head(mlfq.q[l])
    BY <1>0, <2>1, <2>3, DropHeadSingle
  <2> QED
    BY <1>1, <2>1, <2>2, <2>4, <2>5
<1>5. CASE PickHeap(c)
  <2>1. PICK p \in HeapMembers(mlfq) :
          mlfq' = HeapRemove(AfterQueues, p) /\ Dispatch(c, p, "mlfq")
    BY <1>5 DEF PickHeap
  <2>2. cpc[c] = "loop" /\ LockFree /\ UNCHANGED moq /\ p \in Proc
    BY <1>5 DEF PickHeap, InScheduler, HeapMembers
  <2>3. AfterQueues = mlfq
    BY <1>5, NobodyStale DEF PickHeap
  <2>4. /\ Single(mlfq')
        /\ \A q \in Proc, k \in Level : Waits(mlfq', q, k) <=> Waits(mlfq, q, k) /\ q # p
    BY <1>0, <2>1, <2>3, HeapRemoveSingle
  <2> QED
    BY <1>1, <2>1, <2>2, <2>4
<1>6. CASE PickHeapStale(c)
  BY <1>6, NobodyStale DEF PickHeapStale
<1>7. CASE PickNone(c)
  <2>1. UNCHANGED <<state, killed, monopoly, moq, lock, cpc, panicked>>
    BY <1>7 DEF PickNone, cpuVars
  <2>2. LockReleased'
    BY <1>0, <2>1, LockSame
  <2>3. CASE BoostDue
    BY <1>3, <1>7, <2>1, <2>2, <2>3 DEF PickNone
  <2>4. CASE ~ BoostDue
    <3>1. mlfq' = mlfq /\ UNCHANGED level
      BY <1>7, <2>4, NobodyStale DEF PickNone
    <3> QED
      BY <1>2, <2>1, <2>2, <3>1
  <2> QED
    BY <2>3, <2>4
<1>8. CASE PickMoq(c) \/ RotateMoq(c)
  BY <1>0, <1>8 DEF PickMoq, RotateMoq
<1>9. CASE PickMoqEmpty(c)
  <2>1. UNCHANGED <<state, level, killed, monopoly, mlfq, moq, lock, cpc, panicked>>
    BY <1>9 DEF PickMoqEmpty, schedVars, queueVars
  <2> QED
    BY <1>0, <1>2, <2>1, LockSame
<1>10. CASE AcquirePanic(c)
  <2>1. cpc[c] = "loop" /\ lock = c
    BY <1>10 DEF AcquirePanic
  <2> QED
    BY <1>0, <2>1 DEF LockReleased
<1>11. CASE SchedBack(c)
  <2>1. /\ UNCHANGED <<state, killed, monopoly, moq, panicked>>
        /\ cpc[c] = "back" /\ lock' = NoCpu /\ cpc' = [cpc EXCEPT ![c] = "loop"]
    BY <1>11 DEF SchedBack
  <2>2. LockReleased'
    <3>1. lock = c
      BY <2>1 DEF CpuInv
    <3> QED
      BY <1>0, <2>1, <3>1, LockGiven
  <2>3. \/ mlfq' = BoostMlfq(state) /\ level' = BoostField(state, level)
        \/ UNCHANGED <<mlfq, level>>
    BY <1>11 DEF SchedBack
  <2> QED
    BY <1>2, <1>3, <2>1, <2>2, <2>3
<1> QED
  BY <1>4, <1>5, <1>6, <1>7, <1>8, <1>9, <1>10, <1>11 DEF SchedulerStep

\* a step that changes no queue, and makes no process runnable but one it kills
LEMMA QueueSame ==
  ASSUME QueueInv, UNCHANGED <<mlfq, moq, monopoly>>, LockReleased',
         \A p \in Proc : state[p] = "RUNNABLE" => state'[p] = "RUNNABLE" /\ level'[p] = level[p],
         \A p \in Proc : state'[p] = "RUNNABLE" /\ killed'[p] = 0 =>
                           state[p] = "RUNNABLE" /\ killed[p] = 0
  PROVE  QueueInv'
<1>1. PICK st, lev, kl : st = state' /\ lev = level' /\ kl = killed'
  OBVIOUS
<1>2. Placed(mlfq, st, lev, kl)
  BY <1>1, PlacedSame DEF QueueInv
<1> QED
  BY <1>1, <1>2 DEF QueueInv

\* wakeup(): sleepers become runnable and wait at their levels
LEMMA PlacedWake ==
  ASSUME TypeOK, MonopolyLevelOnly, \A p \in Proc : monopoly[p] = 0, SlotFree,
         NEW m \in Mlfq, NEW st \in [Proc -> States], Placed(m, st, level, killed),
         \A p \in Proc : state[p] = "UNUSED" => st[p] = "UNUSED",
         NEW S \in SUBSET Proc, \A p \in S : st[p] = "SLEEPING"
  PROVE  /\ Requeue(m, S) \in Mlfq
         /\ Placed(Requeue(m, S), Woken(st, S), level, killed)
<1>1. Requeue(m, S) = InsertMlfq(m, S, level)
  <2>1. {p \in S : monopoly[p] = 0} = S
    OBVIOUS
  <2> QED
    BY <2>1 DEF Requeue
<1>2. \A p \in Proc : level[p] \in Level
  BY DEF TypeOK, MonopolyLevelOnly, Levels, Level, Monopoly
<1>3. PICK u \in Proc : state[u] = "UNUSED"
  BY DEF SlotFree
<1>4. \A p \in Proc : Woken(st, S)[p] = IF p \in S THEN "RUNNABLE" ELSE st[p]
  BY DEF Woken
<1>5. st[u] # "RUNNABLE" /\ u \notin S
  BY <1>3
<1>6. PICK st2 : st2 = Woken(st, S)
  OBVIOUS
<1>7. Placed(InsertMlfq(m, S, level), st2, level, killed)
  BY <1>2, <1>4, <1>5, <1>6, PlacedInsert
<1> QED
  BY <1>1, <1>6, <1>7, RequeueType

LEMMA QueueYield ==
  ASSUME TypeOK, CpuInv, MonopolyLevelOnly, QueueInv, SlotFree, NEW c \in CPUS, NEW p \in Proc,
         cpc[c] = "run", cproc[c] = p, Yield(c, p)
  PROVE  QueueInv'
<1>0. /\ mlfq \in Mlfq /\ Placed(mlfq, state, level, killed)
      /\ moq = <<>> /\ (\A q \in Proc : monopoly[q] = 0) /\ LockReleased
  BY DEF TypeOK, QueueInv
<1>1. state[p] = "RUNNING"
  BY RunningState
<1>2. PICK u \in Proc : state[u] = "UNUSED"
  BY DEF SlotFree
<1>3. PICK st : st = [state EXCEPT ![p] = "RUNNABLE"]
  OBVIOUS
<1>4. \A q \in Proc : st[q] = IF q = p THEN "RUNNABLE" ELSE state[q]
  BY <1>3 DEF TypeOK
<1>5. /\ state' = st /\ UNCHANGED <<killed, moq, monopoly, panicked>>
      /\ LockFree /\ lock' = c /\ cpc' = [cpc EXCEPT ![c] = "back"]
  BY <1>3 DEF Yield, SwitchToScheduler
<1>6. LockReleased'
  BY <1>0, <1>5, LockTaken
<1>7. CASE cmono[c] = 0 /\ AtPeriod
  <2>1. mlfq' = BoostMlfq(st) /\ level' = BoostField(st, level)
    BY <1>3, <1>7 DEF Yield
  <2>2. st[u] # "RUNNABLE"
    BY <1>1, <1>2, <1>4
  <2>3. Placed(BoostMlfq(st), st, BoostField(st, level), killed)
    BY <1>0, <2>2, PlacedBoost
  <2> QED
    BY <1>0, <1>5, <1>6, <2>1, <2>3 DEF QueueInv
<1>8. CASE ~ (cmono[c] = 0 /\ AtPeriod)
  <2>1. mlfq' = Requeue(mlfq, {p}) /\ UNCHANGED level
    BY <1>8 DEF Yield
  <2>2. Requeue(mlfq, {p}) = InsertMlfq(mlfq, {p}, level)
    <3>1. {q \in {p} : monopoly[q] = 0} = {p}
      BY <1>0
    <3> QED
      BY <3>1 DEF Requeue
  <2>3. level[p] \in Level
    BY <1>0 DEF TypeOK, MonopolyLevelOnly, Levels, Level, Monopoly
  <2>4. Placed(InsertMlfq(mlfq, {p}, level), st, level, killed)
    BY <1>0, <1>1, <1>2, <1>4, <2>3, PlacedInsert
  <2> QED
    BY <1>0, <1>5, <1>6, <2>1, <2>2, <2>4 DEF QueueInv
<1> QED
  BY <1>7, <1>8

LEMMA QueueWakeup ==
  ASSUME TypeOK, MonopolyLevelOnly, QueueInv, SlotFree, WakeupTicks, LockReleased'
  PROVE  QueueInv'
<1>1. /\ TickSleepers \in SUBSET Proc /\ \A p \in TickSleepers : state[p] = "SLEEPING"
      /\ mlfq \in Mlfq /\ state \in [Proc -> States]
  BY DEF TickSleepers, TypeOK
<1>2. Placed(Requeue(mlfq, TickSleepers), Woken(state, TickSleepers), level, killed)
  BY <1>1, PlacedWake DEF QueueInv
<1> QED
  BY <1>2 DEF WakeupTicks, QueueInv, schedVars

LEMMA QueueTimer ==
  ASSUME TypeOK, CpuInv, MonopolyLevelOnly, QueueInv, SlotFree, NEW c \in CPUS, NEW p \in Proc,
         Timer(c, p) \/ TrapStep(c, p) \/ IdleTick(c) \/ IdleTickWakeup(c)
  PROVE  QueueInv'
<1>0. LockReleased
  BY DEF QueueInv
<1>1. ASSUME UNCHANGED <<state, level, killed, mlfq, moq, monopoly>>, LockReleased'
      PROVE  QueueInv'
  BY <1>1, QueueSame
<1>2. CASE Tick(c, p) \/ OtherTimer(c, p)
  <2>1. UNCHANGED <<state, level, killed, mlfq, moq, monopoly, lock, panicked, cpc>>
    BY <1>2 DEF Tick, OtherTimer, schedVars, queueVars, cpuVars
  <2> QED
    BY <1>0, <1>1, <2>1, LockSame
<1>3. CASE TrapAccount(c, p) \/ TrapCount(c, p)
  <2>1. UNCHANGED <<state, level, killed, mlfq, moq, monopoly, lock, panicked, cpc>>
    BY <1>3 DEF TrapAccount, TrapCount, queueVars, cpuVars
  <2> QED
    BY <1>0, <1>1, <2>1, LockSame
<1>4. CASE IdleTick(c)
  <2>1. /\ UNCHANGED <<state, level, killed, mlfq, moq, monopoly, lock, panicked>>
        /\ cpc[c] = "loop" /\ cpc' = [cpc EXCEPT ![c] = "tickwake"]
    BY <1>4 DEF IdleTick, schedVars, queueVars
  <2>2. LockReleased'
    BY <1>0, <2>1, LockSame DEF TypeOK
  <2> QED
    BY <1>1, <2>1, <2>2
<1>5. CASE TickWakeup(c, p)
  <2>1. UNCHANGED <<lock, panicked, cpc>> /\ WakeupTicks
    BY <1>5 DEF TickWakeup, WakeupTicks
  <2> QED
    BY <1>0, <2>1, LockSame, QueueWakeup
<1>6. CASE IdleTickWakeup(c)
  <2>1. /\ UNCHANGED <<lock, panicked>> /\ WakeupTicks
        /\ cpc[c] = "tickwake" /\ cpc' = [cpc EXCEPT ![c] = "loop"]
    BY <1>6 DEF IdleTickWakeup, WakeupTicks
  <2>2. LockReleased'
    BY <1>0, <2>1, LockSame DEF TypeOK
  <2> QED
    BY <2>1, <2>2, QueueWakeup
<1>7. CASE Resume(c, p)
  <2>1. /\ UNCHANGED <<state, level, killed, mlfq, moq, monopoly, panicked>>
        /\ cpc[c] = "resume" /\ lock' = NoCpu /\ cpc' = [cpc EXCEPT ![c] = "run"]
    BY <1>7 DEF Resume, schedVars, queueVars
  <2>2. LockReleased'
    <3>1. lock = c
      BY <2>1 DEF CpuInv
    <3> QED
      BY <1>0, <2>1, <3>1, LockGiven
  <2> QED
    BY <1>1, <2>1, <2>2
<1>8. CASE TrapExpire(c, p)
  <2>1. /\ UNCHANGED <<state, killed, mlfq, moq, monopoly, lock, panicked, cpc>>
        /\ level' = [level EXCEPT ![p] = NextLevel(p)]
    BY <1>8 DEF TrapExpire, queueVars, cpuVars
  <2>2. state[p] = "RUNNING"
    BY <1>8, RunningState DEF TrapExpire, InTrap
  <2>3. \A q \in Proc : state[q] = "RUNNABLE" => level'[q] = level[q]
    BY <2>1, <2>2 DEF TypeOK
  <2> QED
    BY <1>0, <2>1, <2>3, LockSame, QueueSame
<1>9. CASE TrapYield(c, p)
  BY <1>9, QueueYield DEF TrapYield, InTrap
<1> QED
  BY <1>2, <1>3, <1>4, <1>5, <1>6, <1>7, <1>8, <1>9 DEF Timer, TrapStep

LEMMA QueueFork ==
  ASSUME TypeOK, CpuInv, ForkInv, QueueInv, SlotFree, NEW c \in CPUS, NEW p \in Proc,
         cproc[c] = p, SysFork(c, p) \/ ForkFail(c, p) \/ ForkDone(c, p)
  PROVE  QueueInv'
<1>0. LockReleased /\ UNCHANGED <<moq, lock, panicked, cpc, killed>>
  BY DEF QueueInv, SysFork, ForkFail, ForkDone, queueVars, cpuVars
<1>1. LockReleased'
  BY <1>0, LockSame
<1>2. CASE SysFork(c, p)
  <2>1. PICK q : q = FirstSlot({x \in Proc : state[x] = "UNUSED"})
    OBVIOUS
  <2>2. q \in Proc /\ state[q] = "UNUSED"
    <3>1. q \in {x \in Proc : state[x] = "UNUSED"}
      BY <1>2, <2>1, FirstSlotIn DEF SysFork
    <3> QED
      BY <3>1
  <2>3. /\ state' = [state EXCEPT ![q] = "EMBRYO"] /\ level' = [level EXCEPT ![q] = 0]
        /\ UNCHANGED <<mlfq, monopoly>>
    BY <1>2, <2>1 DEF SysFork, queueVars
  <2>4. \A x \in Proc : x # q => state'[x] = state[x] /\ level'[x] = level[x]
    BY <2>3 DEF TypeOK
  <2>5. state'[q] = "EMBRYO"
    BY <2>2, <2>3 DEF TypeOK
  <2> QED
    BY <1>0, <1>1, <2>2, <2>3, <2>4, <2>5, QueueSame
<1>3. ASSUME at[p] = "fork"
      PROVE  np[p] \in Proc /\ state[np[p]] = "EMBRYO"
  BY <1>3 DEF ForkInv
<1>4. CASE ForkFail(c, p)
  <2>1. np[p] \in Proc /\ state[np[p]] = "EMBRYO"
    BY <1>3, <1>4 DEF ForkFail, Running
  <2>2. state' = [state EXCEPT ![np[p]] = "UNUSED"] /\ UNCHANGED <<mlfq, monopoly, level>>
    BY <1>4 DEF ForkFail, schedVars, queueVars
  <2>3. \A x \in Proc : x # np[p] => state'[x] = state[x]
    BY <2>2 DEF TypeOK
  <2>4. state'[np[p]] = "UNUSED"
    BY <2>1, <2>2 DEF TypeOK
  <2> QED
    BY <1>0, <1>1, <2>1, <2>2, <2>3, <2>4, QueueSame
<1>5. CASE ForkDone(c, p)
  <2>1. PICK q : q = np[p]
    OBVIOUS
  <2>2. q \in Proc /\ state[q] = "EMBRYO"
    BY <1>3, <1>5, <2>1 DEF ForkDone, Running
  <2>3. PICK st, lev : st = [state EXCEPT ![q] = "RUNNABLE"] /\ lev = [level EXCEPT ![q] = 0]
    OBVIOUS
  <2>4. /\ state' = st /\ level' = lev /\ monopoly' = [monopoly EXCEPT ![q] = 0]
        /\ mlfq' = InsertMlfq(mlfq, {q}, lev)
    BY <1>5, <2>1, <2>3 DEF ForkDone, ForkedLevel
  <2>5. \A x \in Proc : /\ st[x] = IF x = q THEN "RUNNABLE" ELSE state[x]
                        /\ lev[x] = IF x = q THEN 0 ELSE level[x]
    BY <2>3 DEF TypeOK
  <2>6. PICK u \in Proc : state[u] = "UNUSED"
    BY DEF SlotFree
  <2>7. Placed(InsertMlfq(mlfq, {q}, lev), st, lev, killed)
    <3>1. mlfq \in Mlfq /\ Placed(mlfq, state, level, killed) /\ 0 \in Level
      BY DEF TypeOK, QueueInv, Level
    <3> QED
      BY <2>2, <2>5, <2>6, <3>1, PlacedInsert
  <2>8. \A x \in Proc : monopoly'[x] = 0
    BY <2>4 DEF QueueInv, TypeOK
  <2> QED
    BY <1>0, <1>1, <2>4, <2>7, <2>8 DEF QueueInv
<1> QED
  BY <1>2, <1>4, <1>5

LEMMA QueueExit ==
  ASSUME TypeOK, CpuInv, MonopolyLevelOnly, QueueInv, InitAlive, SlotFree,
         NEW c \in CPUS, NEW p \in Proc, cproc[c] = p, Exit(c, p)
  PROVE  QueueInv'
<1>0. /\ mlfq \in Mlfq /\ Placed(mlfq, state, level, killed) /\ state \in [Proc -> States]
      /\ moq = <<>> /\ (\A q \in Proc : monopoly[q] = 0) /\ LockReleased
  BY DEF TypeOK, QueueInv
<1>1. state[p] = "RUNNING" /\ p # InitProc
  BY RunningState DEF Exit, Running, InitAlive
<1>2. PICK S, T : S = Waiting(parent[p]) /\ T = InitWoken(p) \ S
  OBVIOUS
<1>3. PICK st1, st2 : st1 = Woken(state, S) /\ st2 = Woken(st1, T)
  OBVIOUS
<1>4. S \in SUBSET Proc /\ T \in SUBSET Proc /\ S \cap T = {}
  BY <1>2, ProcFacts DEF Waiting, InitWoken, TypeOK
<1>5. \A q \in S \cup T : state[q] = "SLEEPING"
  BY <1>2 DEF Waiting, InitWoken
<1>6. /\ \A q \in Proc : st1[q] = IF q \in S THEN "RUNNABLE" ELSE state[q]
      /\ \A q \in Proc : st2[q] = IF q \in S \cup T THEN "RUNNABLE" ELSE state[q]
      /\ st1 \in [Proc -> States] /\ st2 \in [Proc -> States]
  BY <1>0, <1>3 DEF Woken, States
<1>7. /\ state' = [st2 EXCEPT ![p] = "ZOMBIE"]
      /\ mlfq' = Requeue(Requeue(mlfq, S), T)
      /\ LockFree /\ SwitchToScheduler(c)
      /\ UNCHANGED <<panicked, killed, level, monopoly, moq>>
  <2>1. /\ state' = [Woken(state, S \cup T) EXCEPT ![p] = "ZOMBIE"]
        /\ mlfq' = Requeue(Requeue(mlfq, S), T)
        /\ LockFree /\ SwitchToScheduler(c)
        /\ UNCHANGED <<panicked, killed, level, monopoly, moq>>
    BY <1>1, <1>2 DEF Exit, schedVars
  <2>2. Woken(state, S \cup T) = st2
    BY <1>3 DEF Woken
  <2> QED
    BY <2>1, <2>2
<1>8. Requeue(mlfq, S) \in Mlfq /\ Placed(Requeue(mlfq, S), st1, level, killed)
  BY <1>0, <1>3, <1>4, <1>5, PlacedWake
<1>9. Placed(Requeue(Requeue(mlfq, S), T), st2, level, killed)
  <2>1. \A q \in T : st1[q] = "SLEEPING"
    BY <1>4, <1>5, <1>6
  <2>2. \A q \in Proc : state[q] = "UNUSED" => st1[q] = "UNUSED"
    BY <1>5, <1>6
  <2>3. PICK m : m = Requeue(mlfq, S)
    OBVIOUS
  <2>4. Placed(Requeue(m, T), Woken(st1, T), level, killed)
    BY <1>0, <1>4, <1>6, <1>8, <2>1, <2>2, <2>3, PlacedWake
  <2> QED
    BY <1>3, <2>3, <2>4
<1>10. \A q \in Proc : state'[q] = IF q = p THEN "ZOMBIE" ELSE st2[q]
  BY <1>6, <1>7
<1>11. Placed(mlfq', state', level, killed)
  <2>1. PICK m, st : m = mlfq' /\ st = state'
    OBVIOUS
  <2>2. st2[p] = "RUNNING"
    BY <1>1, <1>5, <1>6
  <2>3. Placed(m, st2, level, killed)
    BY <1>7, <1>9, <2>1
  <2>4. \A q \in Proc : st[q] = IF q = p THEN "ZOMBIE" ELSE st2[q]
    BY <1>10, <2>1
  <2>5. Placed(m, st, level, killed)
    BY <2>2, <2>3, <2>4, PlacedSame
  <2> QED
    BY <2>1, <2>5
<1>12. LockReleased'
  BY <1>0, <1>7, LockTaken DEF SwitchToScheduler
<1> QED
  BY <1>0, <1>7, <1>11, <1>12 DEF QueueInv

LEMMA QueueWait ==
  ASSUME TypeOK, CpuInv, QueueInv, NEW c \in CPUS, NEW p \in Proc, cproc[c] = p,
         cpc[c] \in {"resume", "run"}, LockFree \/ lock = c, WaitScan(c, p)
  PROVE  QueueInv'
<1>0. /\ LockReleased /\ state[p] = "RUNNING" /\ (\A q \in Proc : monopoly[q] = 0)
      /\ UNCHANGED <<level, monopoly, mlfq, panicked>>
  BY RunningState DEF QueueInv, WaitScan, schedVars
<1>1. CASE Reap(c, p)
  <2>1. PICK z : z = FirstSlot({x \in Children(p) : state[x] = "ZOMBIE"})
    OBVIOUS
  <2>2. z \in Proc /\ state[z] = "ZOMBIE"
    <3>1. {x \in Children(p) : state[x] = "ZOMBIE"} \in SUBSET Proc
      BY DEF Children
    <3>2. z \in {x \in Children(p) : state[x] = "ZOMBIE"}
      BY <1>1, <2>1, <3>1, FirstSlotIn DEF Reap
    <3> QED
      BY <3>2 DEF Children
  <2>3. /\ state' = [state EXCEPT ![z] = "UNUSED"] /\ killed' = [killed EXCEPT ![z] = 0]
        /\ lock' = NoCpu /\ cpc' = [cpc EXCEPT ![c] = "run"] /\ UNCHANGED moq
    BY <1>1, <2>1 DEF Reap
  <2>4. \A q \in Proc : q # z => state'[q] = state[q] /\ killed'[q] = killed[q]
    BY <2>3 DEF TypeOK
  <2>5. state'[z] = "UNUSED"
    BY <2>2, <2>3 DEF TypeOK
  <2>6. LockReleased'
    BY <1>0, <2>3, LockGiven
  <2> QED
    BY <1>0, <2>2, <2>3, <2>4, <2>5, <2>6, QueueSame
<1>2. CASE NoChild(c, p)
  <2>1. /\ UNCHANGED <<state, killed, moq>>
        /\ lock' = NoCpu /\ cpc' = [cpc EXCEPT ![c] = "run"]
    BY <1>2 DEF NoChild
  <2> QED
    BY <1>0, <2>1, LockGiven, QueueSame
<1>3. CASE WaitSleep(c, p)
  <2>1. /\ state' = [state EXCEPT ![p] = "SLEEPING"] /\ UNCHANGED <<killed, moq>>
        /\ lock' = c /\ cpc' = [cpc EXCEPT ![c] = "back"]
    BY <1>0, <1>3 DEF WaitSleep, GoToSleep, SwitchToScheduler
  <2>2. \A q \in Proc : state'[q] = IF q = p THEN "SLEEPING" ELSE state[q]
    BY <2>1 DEF TypeOK
  <2>3. LockReleased'
    BY <1>0, <2>1, LockTaken
  <2> QED
    BY <1>0, <2>1, <2>2, <2>3, QueueSame
<1> QED
  BY <1>1, <1>2, <1>3 DEF WaitScan

LEMMA QueueCalls ==
  ASSUME TypeOK, CpuInv, ForkInv, MonopolyLevelOnly, QueueInv, InitAlive, SlotFree,
         "setmonopoly" \notin Calls, NEW c \in CPUS, NEW p \in Proc,
         cproc[c] = p, CallStep(c, p) \/ SystemCall(c, p)
  PROVE  QueueInv'
<1>0. LockReleased /\ \A q \in Proc : monopoly[q] = 0
  BY DEF QueueInv
<1>1. ASSUME UNCHANGED <<state, level, killed, mlfq, moq, monopoly, lock, panicked, cpc>>
      PROVE  QueueInv'
  BY <1>0, <1>1, LockSame, QueueSame
<1>2. CASE KilledExit(c, p) \/ SysExit(c, p) \/ SleepCheck(c, p)
  BY <1>1, <1>2 DEF KilledExit, SysExit, SleepCheck, schedVars, queueVars, cpuVars
<1>3. CASE SysSleep(c, p) \/ SleepAgain(c, p)
  BY <1>1, <1>3 DEF SysSleep, SleepAgain, SleepLock, schedVars, queueVars, cpuVars
<1>4. CASE SysMonopolize(c, p) \/ SysUnmonopolize(c, p)
  BY <1>1, <1>4 DEF SysMonopolize, SysUnmonopolize, schedVars, queueVars
<1>5. CASE SysSetMonopoly(c, p)
  BY <1>5 DEF SysSetMonopoly, Call
<1>6. CASE SleepOnTicks(c, p)
  <2>1. /\ state' = [state EXCEPT ![p] = "SLEEPING"]
        /\ UNCHANGED <<killed, moq, mlfq, level, monopoly, panicked>>
        /\ LockFree /\ lock' = c /\ cpc' = [cpc EXCEPT ![c] = "back"]
    BY <1>0, <1>6 DEF SleepOnTicks, GoToSleep, SwitchToScheduler, schedVars
  <2>2. \A q \in Proc : state'[q] = IF q = p THEN "SLEEPING" ELSE state[q]
    BY <2>1 DEF TypeOK
  <2>3. LockReleased'
    BY <1>0, <2>1, LockTaken
  <2>4. state[p] = "RUNNING"
    BY <1>6, RunningState DEF SleepOnTicks, Running
  <2> QED
    BY <2>1, <2>2, <2>3, <2>4, QueueSame
<1>7. CASE SysYield(c, p) \/ SetMonopolyYield(c, p)
  BY <1>7, QueueYield DEF SysYield, SetMonopolyYield, Call, Running
<1>8. CASE SysWait(c, p)
  BY <1>8, QueueWait DEF SysWait, Call, Running
<1>9. CASE WaitAgain(c, p)
  BY <1>9, QueueWait DEF WaitAgain, CpuInv
<1>10. CASE SysKill(c, p)
  <2>1. PICK q : /\ killed' = [killed EXCEPT ![q] = 1]
                 /\ state' = [state EXCEPT ![q] = IF @ = "SLEEPING" THEN "RUNNABLE" ELSE @]
                 /\ UNCHANGED <<level, mlfq, moq, monopoly, lock, panicked, cpc>>
    BY <1>10 DEF SysKill, schedVars, queueVars, cpuVars
  <2>2. \A x \in Proc :
          state'[x] = IF x = q /\ state[x] = "SLEEPING" THEN "RUNNABLE" ELSE state[x]
    BY <2>1 DEF TypeOK
  <2>3. \A x \in Proc : killed'[x] = IF x = q THEN 1 ELSE killed[x]
    BY <2>1 DEF TypeOK
  <2> QED
    BY <1>0, <2>1, <2>2, <2>3, LockSame, QueueSame
<1> QED
  BY <1>2, <1>3, <1>4, <1>5, <1>6, <1>7, <1>8, <1>9, <1>10, QueueFork, QueueExit
  DEF CallStep, SystemCall

-----------------------------------------------------------------------------
(* The theorems about the run queues *)

LEMMA InitAliveNext ==
  1 \notin PidArgs => (Inv /\ WaitInv /\ InitAlive /\ [Next]_vars => InitAlive')
<1> SUFFICES ASSUME 1 \notin PidArgs, Inv, WaitInv, InitAlive, [Next]_vars PROVE InitAlive'
  OBVIOUS
<1>1. CASE Next
  BY <1>1, InitAliveStep DEF Inv, WaitInv
<1>2. CASE UNCHANGED vars
  BY <1>2 DEF vars, InitAlive
<1> QED
  BY <1>1, <1>2

\* unless somebody kills init, init never exits
LEMMA InitAliveCorrect == ASSUME 1 \notin PidArgs PROVE Spec => []InitAlive
<1>1. Init => InitAlive
  BY ProcFacts DEF Init, InitAlive
<1>2. Inv /\ WaitInv /\ InitAlive /\ [Next]_vars => InitAlive'
  BY InitAliveNext
<1> QED
  BY <1>1, <1>2, Invariant, WaitInvariant, PTL DEF Spec

LEMMA QueueInvInit == Init => QueueInv
<1> SUFFICES ASSUME Init PROVE QueueInv
  OBVIOUS
<1>1. PICK st, lev, kl, st0 : /\ st = state /\ lev = level /\ kl = killed
                              /\ st0 = [p \in Proc |-> "UNUSED"]
  OBVIOUS
<1>2. /\ \A p \in Proc : st[p] = IF p = InitProc THEN "RUNNABLE" ELSE "UNUSED"
      /\ \A p \in Proc : lev[p] = 0
      /\ \A p \in Proc : st0[p] = "UNUSED"
  BY <1>1 DEF Init
<1>3. Placed(EmptyMlfq, st0, lev, kl)
  BY <1>2, EmptySingle DEF Placed
<1>4. 1 \in Proc /\ 1 # InitProc /\ 0 \in Level
  BY NPROCAssumption DEF Proc, InitProc, Level
<1>5. Placed(InsertMlfq(EmptyMlfq, {InitProc}, lev), st, lev, kl)
  BY <1>2, <1>3, <1>4, EmptyMlfqType, ProcFacts, PlacedInsert
<1>6. mlfq = InsertMlfq(EmptyMlfq, {InitProc}, lev)
  BY <1>1 DEF Init
<1>7. LockReleased
  BY CPUSAssumption DEF Init, LockReleased
<1>8. moq = <<>> /\ \A p \in Proc : monopoly[p] = 0
  BY DEF Init
<1> QED
  BY <1>1, <1>5, <1>6, <1>7, <1>8 DEF QueueInv

LEMMA QueueInvNext ==
  "setmonopoly" \notin Calls =>
    (Inv /\ MonopolyLevelOnly /\ InitAlive /\ SlotFree /\ QueueInv /\ [Next]_vars => QueueInv')
<1> SUFFICES ASSUME "setmonopoly" \notin Calls, Inv, MonopolyLevelOnly, InitAlive, SlotFree,
                    QueueInv, [Next]_vars
             PROVE  QueueInv'
  OBVIOUS
<1>0. TypeOK /\ CpuInv /\ ForkInv
  BY DEF Inv
<1>1. CASE Next
  <2>1. PICK c \in CPUS : Step(c)
    BY <1>1 DEF Next
  <2> QED
    BY <1>0, <2>1, ProcFacts, QueueScheduler, QueueTimer, QueueCalls DEF Step, ProcessStep
<1>2. CASE UNCHANGED vars
  <2>1. /\ UNCHANGED <<mlfq, moq, monopoly, lock, panicked, cpc>>
        /\ UNCHANGED <<state, level, killed>>
    BY <1>2 DEF vars
  <2> QED
    BY <2>1, LockSame, QueueSame DEF QueueInv
<1> QED
  BY <1>1, <1>2

\* as long as nobody is monopolized, init is not killed and one slot stays free:
\* the queues hold the runnable processes, each once and at its level
THEOREM QueueInvariant ==
  ASSUME "setmonopoly" \notin Calls, 1 \notin PidArgs
  PROVE  Spec /\ []SlotFree => []QueueInv
<1>1. Init => QueueInv
  BY QueueInvInit
<1>2. Inv /\ MonopolyLevelOnly /\ InitAlive /\ SlotFree /\ QueueInv /\ [Next]_vars => QueueInv'
  BY QueueInvNext
<1>3. Spec => []InitAlive
  BY InitAliveCorrect
<1> QED
  BY <1>1, <1>2, <1>3, Invariant, MonopolyLevelCorrect, PTL DEF Spec

LEMMA QueuesFromInv == TypeOK /\ QueueInv /\ SlotFree => QueuesCorrect
<1> SUFFICES ASSUME TypeOK, QueueInv, SlotFree PROVE QueuesCorrect
  OBVIOUS
<1>0. /\ mlfq \in Mlfq /\ Single(mlfq) /\ LockReleased
      /\ \A p \in Proc, l \in Level : Waits(mlfq, p, l) => state[p] = "RUNNABLE" /\ level[p] = l
      /\ \A p \in Proc : state[p] = "RUNNABLE" /\ killed[p] = 0 => Waits(mlfq, p, level[p])
  BY DEF TypeOK, QueueInv, Placed
<1>1. PICK u \in Proc : state[u] = "UNUSED"
  BY DEF SlotFree
<1>2. \A l \in Level : ~ Waits(mlfq, u, l)
  BY <1>0, <1>1
<1>3. ASSUME NEW p \in Proc
      PROVE  /\ (\E l \in Level : Waits(mlfq, p, l)) => Entries(mlfq, p) = 1
             /\ (\A l \in Level : ~ Waits(mlfq, p, l)) => Entries(mlfq, p) = 0
             /\ \A e \in QueueEntries(mlfq, p) : Waits(mlfq, p, e[1])
  BY <1>0, <1>1, <1>2, EntriesIs
<1>4. QueuedOnce
  <2> SUFFICES ASSUME NEW p \in Proc
               PROVE  IF state[p] = "RUNNABLE"
                      THEN Entries(mlfq, p) = 1 \/ (killed[p] = 1 /\ Entries(mlfq, p) = 0)
                      ELSE Entries(mlfq, p) = 0
    BY DEF QueuedOnce
  <2>1. CASE state[p] # "RUNNABLE"
    BY <1>0, <1>3, <2>1
  <2>2. CASE state[p] = "RUNNABLE" /\ killed[p] = 1
    BY <1>3, <2>2
  <2>3. CASE state[p] = "RUNNABLE" /\ killed[p] = 0
    <3>1. Waits(mlfq, p, level[p])
      BY <1>0, <2>3
    <3>2. level[p] \in Level
      BY <3>1 DEF Waits, Level, QLevel
    <3> QED
      BY <1>3, <2>3, <3>1, <3>2
  <2> QED
    BY <2>1, <2>2, <2>3 DEF TypeOK
<1>5. QueueOfLevel
  <2>1. ASSUME NEW p \in Proc, NEW e \in QueueEntries(mlfq, p) PROVE level[p] = e[1]
    <3>1. e[1] \in Level
      BY DEF QueueEntries, QLevel, Level
    <3> QED
      BY <1>0, <1>3, <2>1, <3>1
  <2>2. ASSUME NEW p \in Proc, p \in HeapMembers(mlfq) PROVE level[p] = 3
    <3>1. Waits(mlfq, p, 3) /\ 3 \in Level
      BY <2>2 DEF Waits, HeapMembers, Level
    <3> QED
      BY <1>0, <3>1
  <2> QED
    BY <2>1, <2>2 DEF QueueOfLevel
<1> QED
  BY <1>0, <1>4, <1>5 DEF QueuesCorrect

\* proc.c, mlfq.h: a runnable process waits in exactly one place, that of its
\* level, nothing else is in the MLFQ, and scheduler() never keeps ptable.lock
THEOREM QueuesAreCorrect ==
  ASSUME "setmonopoly" \notin Calls, 1 \notin PidArgs
  PROVE  Spec /\ []SlotFree => []QueuesCorrect
<1>1. TypeOK /\ QueueInv /\ SlotFree => QueuesCorrect
  BY QueuesFromInv
<1>2. Spec /\ []SlotFree => []QueueInv
  BY QueueInvariant
<1> QED
  BY <1>1, <1>2, TypeCorrect, PTL

\* the step of PickLowestLevel
LowestStep ==
  \A p \in Proc :
    state[p] = "RUNNABLE" /\ state'[p] = "RUNNING" =>
      \A q \in Proc : state[q] = "RUNNABLE" /\ killed[q] = 0 => level[p] <= level[q]

\* only a dispatch makes a runnable process run
LEMMA OnlyDispatched ==
  ASSUME TypeOK, CpuInv, ForkInv, NEW c \in CPUS, Step(c), NEW p \in Proc,
         state[p] = "RUNNABLE", state'[p] = "RUNNING"
  PROVE  PickQueue(c) \/ PickHeap(c) \/ PickMoq(c)
<1>1. ASSUME \A q \in Proc : state'[q] = "RUNNING" => state[q] = "RUNNING" PROVE FALSE
  BY <1>1
<1>2. CASE PickHeapStale(c) \/ PickNone(c) \/ RotateMoq(c) \/ PickMoqEmpty(c)
           \/ AcquirePanic(c) \/ SchedBack(c) \/ IdleTick(c)
  BY <1>1, <1>2 DEF PickHeapStale, PickNone, RotateMoq, PickMoqEmpty, AcquirePanic, SchedBack,
                    IdleTick
<1>3. ASSUME WakeupTicks PROVE FALSE
  BY <1>1, <1>3 DEF WakeupTicks, Woken
<1>4. ASSUME NEW q \in Proc, Yield(c, q) PROVE FALSE
  BY <1>1, <1>4 DEF Yield, TypeOK
<1>5. ASSUME NEW q \in Proc, Timer(c, q) \/ TrapStep(c, q) PROVE FALSE
  <2>1. CASE Tick(c, q) \/ OtherTimer(c, q) \/ Resume(c, q)
    BY <1>1, <2>1 DEF Tick, OtherTimer, Resume
  <2>2. CASE TrapAccount(c, q) \/ TrapCount(c, q) \/ TrapExpire(c, q)
    BY <1>1, <2>2 DEF TrapAccount, TrapCount, TrapExpire
  <2> QED
    BY <1>3, <1>4, <1>5, <2>1, <2>2 DEF Timer, TrapStep, TickWakeup, TrapYield
<1>6. ASSUME NEW q \in Proc, CallStep(c, q) \/ SystemCall(c, q) PROVE FALSE
  <2>1. ASSUME UNCHANGED state PROVE FALSE
    BY <1>1, <2>1
  <2>2. ASSUME NEW x, NEW s \in {"UNUSED", "EMBRYO", "RUNNABLE", "SLEEPING"},
               state' = [state EXCEPT ![x] = s]
        PROVE  FALSE
    BY <1>1, <2>2 DEF TypeOK
  <2>3. CASE KilledExit(c, q) \/ SleepCheck(c, q) \/ SysExit(c, q) \/ SysSleep(c, q) \/ SleepAgain(c, q)
    BY <2>1, <2>3 DEF KilledExit, SleepCheck, SysExit, SysSleep, SleepAgain, SleepLock
  <2>4. CASE SysSetMonopoly(c, q) \/ SysMonopolize(c, q) \/ SysUnmonopolize(c, q)
    BY <2>1, <2>4 DEF SysSetMonopoly, SysMonopolize, SysUnmonopolize
  <2>5. CASE SysFork(c, q) \/ ForkFail(c, q) \/ ForkDone(c, q)
    <3>1. PICK x : \/ state' = [state EXCEPT ![x] = "EMBRYO"]
                   \/ state' = [state EXCEPT ![x] = "UNUSED"]
                   \/ state' = [state EXCEPT ![x] = "RUNNABLE"]
      BY <2>5 DEF SysFork, ForkFail, ForkDone
    <3> QED
      BY <2>2, <3>1
  <2>6. CASE SleepOnTicks(c, q)
    BY <2>2, <2>6 DEF SleepOnTicks, GoToSleep
  <2>7. CASE SysYield(c, q) \/ SetMonopolyYield(c, q)
    BY <1>4, <2>7 DEF SysYield, SetMonopolyYield
  <2>8. CASE SysWait(c, q) \/ WaitAgain(c, q)
    <3>1. WaitScan(c, q)
      BY <2>8 DEF SysWait, WaitAgain
    <3>2. CASE Reap(c, q)
      <4>1. PICK z : state' = [state EXCEPT ![z] = "UNUSED"]
        BY <3>2 DEF Reap
      <4> QED
        BY <2>2, <4>1
    <3>3. CASE NoChild(c, q) \/ WaitSleep(c, q)
      BY <2>1, <2>2, <3>3 DEF NoChild, WaitSleep, GoToSleep
    <3> QED
      BY <3>1, <3>2, <3>3 DEF WaitScan
  <2>9. CASE SysKill(c, q)
    <3>1. PICK x : state' = [state EXCEPT ![x] = IF @ = "SLEEPING" THEN "RUNNABLE" ELSE @]
      BY <2>9 DEF SysKill
    <3> QED
      BY <1>1, <3>1 DEF TypeOK
  <2>10. CASE Exit(c, q)
    <3>1. state' = state \/ \E S : state' = [Woken(state, S) EXCEPT ![q] = "ZOMBIE"]
      BY <2>10 DEF Exit
    <3>2. CASE \E S : state' = [Woken(state, S) EXCEPT ![q] = "ZOMBIE"]
      BY <1>1, <3>2 DEF Woken
    <3> QED
      BY <2>1, <3>1, <3>2
  <2> QED
    BY <1>6, <2>3, <2>4, <2>5, <2>6, <2>7, <2>8, <2>9, <2>10 DEF CallStep, SystemCall
<1> QED
  BY <1>2, <1>3, <1>5, <1>6 DEF Step, SchedulerStep, ProcessStep, IdleTickWakeup

LEMMA LowestFromInv == Inv /\ QueueInv /\ [Next]_vars => [LowestStep]_vars
<1> SUFFICES ASSUME Inv, QueueInv, Next, NEW p \in Proc, state[p] = "RUNNABLE",
                    state'[p] = "RUNNING", NEW q \in Proc, state[q] = "RUNNABLE", killed[q] = 0
             PROVE  level[p] <= level[q]
  BY DEF LowestStep
<1>0. TypeOK /\ CpuInv /\ ForkInv
  BY DEF Inv
<1>1. PICK c \in CPUS : Step(c)
  BY DEF Next
<1>2. PickQueue(c) \/ PickHeap(c) \/ PickMoq(c)
  BY <1>0, <1>1, OnlyDispatched
<1>3. Waits(mlfq, q, level[q]) /\ level[q] \in 0 .. 3
  <2>1. Waits(mlfq, q, level[q])
    BY DEF QueueInv, Placed
  <2> QED
    BY <2>1 DEF Waits, QLevel
<1>4. level[q] \in QLevel => mlfq.q[level[q]] # <<>>
  <2>1. \A s : s = <<>> => ~ Holds(s, q)
    BY DEF Holds
  <2> QED
    BY <1>3, <2>1 DEF Waits, QLevel
<1>5. ASSUME NEW r, NEW b, Dispatch(c, r, b) PROVE p = r
  BY <1>0, <1>5 DEF Dispatch, TypeOK
<1>6. CASE PickQueue(c)
  <2>1. PICK l \in QLevel : FirstQueue(l) /\ Dispatch(c, Head(mlfq.q[l]), "mlfq")
    BY <1>6 DEF PickQueue
  <2>2. level[p] = l
    BY <1>0, <1>5, <2>1, NobodyStale DEF FirstQueue
  <2>3. \A k \in QLevel : k < l => mlfq.q[k] = <<>>
    BY <2>1 DEF FirstQueue
  <2> QED
    BY <1>3, <1>4, <2>2, <2>3 DEF QLevel
<1>7. CASE PickHeap(c)
  <2>1. \A l \in QLevel : mlfq.q[l] = <<>>
    BY <1>0, <1>7, NobodyStale DEF PickHeap
  <2>2. level[q] = 3
    BY <1>3, <1>4, <2>1 DEF QLevel
  <2>3. PICK r \in HeapMembers(mlfq) : Dispatch(c, r, "mlfq")
    BY <1>7 DEF PickHeap
  <2>4. level[p] = 3
    BY <1>0, <1>5, <2>3, NobodyStale
  <2> QED
    BY <2>2, <2>4
<1>8. CASE PickMoq(c)
  BY <1>8 DEF PickMoq, QueueInv
<1> QED
  BY <1>2, <1>6, <1>7, <1>8

\* scheduler(): a dispatch never passes over a queued process of a better level
THEOREM PicksLowestLevel ==
  ASSUME "setmonopoly" \notin Calls, 1 \notin PidArgs
  PROVE  Spec /\ []SlotFree => PickLowestLevel
<1>1. Inv /\ QueueInv /\ [Next]_vars => [LowestStep]_vars
  BY LowestFromInv
<1>2. Spec /\ []SlotFree => []QueueInv
  BY QueueInvariant
<1>3. PickLowestLevel <=> [][LowestStep]_vars
  BY DEF PickLowestLevel, LowestStep
<1> QED
  BY <1>1, <1>2, <1>3, Invariant, PTL DEF Spec

-----------------------------------------------------------------------------
(* The quantum *)

\* the quantum of p is over, and trap() is on its way to yield()
Over(p) == \E c \in CPUS : InTrap(c, p, "expire") \/ InTrap(c, p, "yieldlast")

TqInv == \A p \in Proc : monopoly[p] = 0 /\ ~ Over(p) => tq[p] < Quantum(level[p])

\* what a step may do to the count of p
TqMove(p) ==
  \/ tq'[p] = 0 \/ tq'[p] < Quantum(level'[p])
  \/ Over(p)'
  \/ monopoly'[p] = 1
  \/ /\ tq'[p] = tq[p] /\ level'[p] = level[p] /\ monopoly'[p] = monopoly[p]
     /\ Over(p) => Over(p)'

LEMMA QuantumPositive ==
  ASSUME NEW l \in Levels
  PROVE  Quantum(l) \in Nat /\ Quantum(l) > 0
<1>1. l \in Nat
  BY DEF Levels, Monopoly
<1>2. TqStep * l \in Nat
  BY <1>1, TqAssumption
<1> QED
  BY <1>2, TqAssumption DEF Quantum

LEMMA TqMoves ==
  ASSUME TypeOK', TqInv, \A p \in Proc : TqMove(p)
  PROVE  TqInv'
<1> SUFFICES ASSUME NEW p \in Proc, monopoly'[p] = 0, ~ Over(p)'
             PROVE  tq'[p] < Quantum(level'[p])
  BY DEF TqInv, Quantum
<1>1. CASE tq'[p] = 0
  <2>1. level'[p] \in Levels
    BY DEF TypeOK
  <2> QED
    BY <1>1, <2>1, QuantumPositive
<1>2. CASE tq'[p] = tq[p] /\ level'[p] = level[p] /\ monopoly'[p] = monopoly[p] /\ ~ Over(p)
  BY <1>2 DEF TqInv
<1> QED
  BY <1>1, <1>2 DEF TqMove

\* the count of a process whose CPU does nothing stays what it is
LEMMA TqOthers ==
  ASSUME CpuInv, NEW c \in CPUS, NEW p \in Proc, ~ (cpc[c] = "run" /\ cproc[c] = p),
         \A d \in CPUS \ {c} : cpc'[d] = cpc[d] /\ cproc'[d] = cproc[d],
         trap'[p] = trap[p]
  PROVE  Over(p) => Over(p)'
BY DEF Over, InTrap

LEMMA NotOver ==
  ASSUME CpuInv, NEW c \in CPUS, NEW p \in Proc, cproc[c] = p,
         cpc[c] # "run" \/ trap[p] \notin {"expire", "yieldlast"}
  PROVE  ~ Over(p)
BY ProcFacts DEF Over, InTrap, CpuInv

\* a boost resets the counts it changes levels for
LEMMA TqBoost ==
  ASSUME NEW st, NEW t, NEW p \in Proc
  PROVE  \/ BoostField(st, t)[p] = 0
         \/ BoostField(st, t)[p] = t[p] /\ BoostField(st, level)[p] = level[p]
BY DEF BoostField

LEMMA TqScheduler ==
  ASSUME TypeOK, CpuInv, NEW c \in CPUS, SchedulerStep(c) \/ IdleTick(c) \/ IdleTickWakeup(c)
  PROVE  \A p \in Proc : TqMove(p)
<1>1. /\ cpc[c] # "run" /\ UNCHANGED <<trap, monopoly>>
      /\ \A d \in CPUS \ {c} : cpc'[d] = cpc[d] /\ cproc'[d] = cproc[d]
  <2>1. CASE PickQueue(c) \/ PickHeap(c) \/ PickMoq(c)
    BY <2>1 DEF PickQueue, PickHeap, PickMoq, Dispatch, InScheduler, schedVars, stackVars, TypeOK
  <2>2. CASE PickHeapStale(c) \/ RotateMoq(c) \/ PickMoqEmpty(c) \/ AcquirePanic(c) \/ PickNone(c)
    BY <2>2 DEF PickHeapStale, RotateMoq, PickMoqEmpty, AcquirePanic, PickNone, InScheduler,
                schedVars, stackVars, cpuVars
  <2>3. CASE SchedBack(c)
    BY <2>3 DEF SchedBack, stackVars, TypeOK
  <2>4. CASE IdleTick(c) \/ IdleTickWakeup(c)
    BY <2>4 DEF IdleTick, IdleTickWakeup, WakeupTicks, schedVars, stackVars, TypeOK
  <2> QED
    BY <2>1, <2>2, <2>3, <2>4 DEF SchedulerStep
<1>2. UNCHANGED <<tq, level>> \/ (tq' = BoostField(state, tq) /\ level' = BoostField(state, level))
  <2>1. CASE PickQueue(c) \/ PickHeap(c) \/ PickMoq(c)
    BY <2>1 DEF PickQueue, PickHeap, PickMoq, Dispatch, schedVars
  <2>2. CASE PickHeapStale(c) \/ RotateMoq(c) \/ PickMoqEmpty(c) \/ AcquirePanic(c)
    BY <2>2 DEF PickHeapStale, RotateMoq, PickMoqEmpty, AcquirePanic, schedVars
  <2>3. CASE PickNone(c) \/ SchedBack(c)
    BY <2>3 DEF PickNone, SchedBack
  <2>4. CASE IdleTick(c) \/ IdleTickWakeup(c)
    BY <2>4 DEF IdleTick, IdleTickWakeup, WakeupTicks, schedVars
  <2> QED
    BY <2>1, <2>2, <2>3, <2>4 DEF SchedulerStep
<1> SUFFICES ASSUME NEW p \in Proc PROVE TqMove(p)
  OBVIOUS
<1>3. Over(p) => Over(p)'
  BY <1>1, TqOthers
<1>4. tq'[p] = 0 \/ (tq'[p] = tq[p] /\ level'[p] = level[p])
  <2>1. PICK st : st = state
    OBVIOUS
  <2> QED
    BY <1>2, TqBoost
<1> QED
  BY <1>1, <1>3, <1>4 DEF TqMove

\* the counts of the other processes, and of one that is not on its way to yield()
LEMMA TqQuiet ==
  ASSUME CpuInv, NEW c \in CPUS, NEW p \in Proc, cproc[c] = p,
         cpc[c] # "run" \/ trap[p] \notin {"expire", "yieldlast"},
         \A d \in CPUS \ {c} : cpc'[d] = cpc[d] /\ cproc'[d] = cproc[d],
         \A q \in Proc \ {p} : trap'[q] = trap[q],
         NEW q \in Proc,
         tq'[q] = tq[q] /\ level'[q] = level[q] /\ monopoly'[q] = monopoly[q]
  PROVE  TqMove(q)
<1>1. CASE q = p
  BY <1>1, NotOver DEF TqMove
<1>2. CASE q # p
  BY <1>2, TqOthers DEF TqMove
<1> QED
  BY <1>1, <1>2

LEMMA TqYield ==
  ASSUME TypeOK, CpuInv, NEW c \in CPUS, NEW p \in Proc, cproc[c] = p, Yield(c, p)
  PROVE  \A q \in Proc : TqMove(q)
<1>1. /\ UNCHANGED <<trap, monopoly, cproc>>
      /\ \A d \in CPUS \ {c} : cpc'[d] = cpc[d]
  BY DEF Yield, SwitchToScheduler, stackVars, TypeOK
<1>2. PICK t : t = [tq EXCEPT ![p] = 0]
  OBVIOUS
<1>3. t[p] = 0 /\ \A q \in Proc \ {p} : t[q] = tq[q]
  BY <1>2 DEF TypeOK
<1>4. \/ tq' = t /\ level' = level
      \/ \E st : tq' = BoostField(st, t) /\ level' = BoostField(st, level)
  BY <1>2 DEF Yield, NewTq
<1>5. \A q \in Proc : tq'[q] = 0 \/ (tq'[q] = t[q] /\ level'[q] = level[q])
  BY <1>4, TqBoost
<1> SUFFICES ASSUME NEW q \in Proc PROVE TqMove(q)
  OBVIOUS
<1>6. CASE q = p
  BY <1>3, <1>5, <1>6 DEF TqMove
<1>7. CASE q # p
  <2>1. Over(q) => Over(q)'
    BY <1>1, <1>7, TqOthers
  <2> QED
    BY <1>1, <1>3, <1>5, <1>7, <2>1 DEF TqMove
<1> QED
  BY <1>6, <1>7

LEMMA TqTimer ==
  ASSUME TypeOK, CpuInv, NEW c \in CPUS, NEW p \in Proc, cproc[c] = p, Timer(c, p) \/ TrapStep(c, p)
  PROVE  \A q \in Proc : TqMove(q)
<1>1. CASE Tick(c, p) \/ OtherTimer(c, p) \/ TickWakeup(c, p)
  <2>1. UNCHANGED <<tq, level, monopoly, cpc, cproc>> /\ trap[p] \in {"none", "wakeup"}
    BY <1>1 DEF Tick, OtherTimer, TickWakeup, WakeupTicks, Interruptible, Running, InTrap,
                schedVars, cpuVars
  <2>2. \A q \in Proc \ {p} : trap'[q] = trap[q]
    BY <1>1 DEF Tick, OtherTimer, TickWakeup, AfterIrq, TypeOK
  <2> QED
    BY <2>1, <2>2, TqQuiet
<1>2. CASE Resume(c, p)
  <2>1. UNCHANGED <<tq, level, monopoly, cproc>> /\ cpc[c] # "run"
    BY <1>2 DEF Resume, schedVars
  <2>2. \A d \in CPUS \ {c} : cpc'[d] = cpc[d]
    BY <1>2 DEF Resume, TypeOK
  <2>3. \A q \in Proc \ {p} : trap'[q] = trap[q]
    BY <1>2 DEF Resume, TypeOK
  <2> QED
    BY <2>1, <2>2, <2>3, TqQuiet
<1>3. ASSUME Count(p), UNCHANGED <<level, monopoly, cpc, cproc>>, cpc[c] = "run"
      PROVE  \A q \in Proc : TqMove(q)
  <2>1. \A q \in Proc \ {p} : TqMove(q)
    <3>1. \A q \in Proc \ {p} : tq'[q] = tq[q] /\ trap'[q] = trap[q]
      BY <1>3 DEF Count, TypeOK
    <3> QED
      BY <1>3, <3>1, TqOthers DEF TqMove
  <2>2. CASE tq[p] + 1 >= Quantum(level[p])
    <3>1. trap'[p] = "expire"
      BY <1>3, <2>2 DEF Count, TypeOK
    <3> QED
      BY <1>3, <2>1, <3>1 DEF TqMove, Over, InTrap
  <2>3. CASE ~ (tq[p] + 1 >= Quantum(level[p]))
    <3>1. tq'[p] = tq[p] + 1 /\ tq[p] \in Nat /\ Quantum(level[p]) \in Nat
      BY <1>3, QuantumPositive DEF Count, TypeOK
    <3>2. tq'[p] < Quantum(level'[p])
      BY <1>3, <2>3, <3>1 DEF Quantum
    <3> QED
      BY <2>1, <3>2 DEF TqMove
  <2> QED
    BY <2>2, <2>3
<1>4. CASE TrapAccount(c, p) \/ TrapCount(c, p)
  <2>1. UNCHANGED <<level, monopoly, cpc, cproc>> /\ cpc[c] = "run" /\ trap[p] \in {"acct", "count"}
    BY <1>4 DEF TrapAccount, TrapCount, InTrap, cpuVars
  <2>2. Count(p) \/ (UNCHANGED tq /\ \E v : trap' = [trap EXCEPT ![p] = v])
    BY <1>4 DEF TrapAccount, TrapCount
  <2>3. CASE UNCHANGED tq /\ \E v : trap' = [trap EXCEPT ![p] = v]
    <3>1. \A q \in Proc \ {p} : trap'[q] = trap[q]
      BY <2>3 DEF TypeOK
    <3> QED
      BY <2>1, <2>3, <3>1, TqQuiet
  <2> QED
    BY <1>3, <2>1, <2>2, <2>3
<1>5. CASE TrapExpire(c, p)
  <2>1. /\ UNCHANGED <<tq, monopoly, cpc, cproc>> /\ cpc[c] = "run"
        /\ trap' = [trap EXCEPT ![p] = "yieldlast"] /\ level' = [level EXCEPT ![p] = NextLevel(p)]
    BY <1>5 DEF TrapExpire, InTrap, cpuVars
  <2>2. TqMove(p)
    BY <2>1 DEF TqMove, Over, InTrap, TypeOK
  <2>3. \A q \in Proc \ {p} : trap'[q] = trap[q] /\ level'[q] = level[q]
    BY <2>1 DEF TypeOK
  <2>4. \A q \in Proc \ {p} : TqMove(q)
    BY <2>1, <2>3, TqOthers DEF TqMove
  <2> QED
    BY <2>2, <2>4
<1>6. CASE TrapYield(c, p)
  BY <1>6, TqYield DEF TrapYield
<1> QED
  BY <1>1, <1>2, <1>4, <1>5, <1>6 DEF Timer, TrapStep

LEMMA TqCalls ==
  ASSUME TypeOK, CpuInv, NEW c \in CPUS, NEW p \in Proc, cproc[c] = p,
         CallStep(c, p) \/ SystemCall(c, p)
  PROVE  \A q \in Proc : TqMove(q)
<1>1. CASE SysYield(c, p) \/ SetMonopolyYield(c, p)
  BY <1>1, TqYield DEF SysYield, SetMonopolyYield
<1> SUFFICES ASSUME ~ (SysYield(c, p) \/ SetMonopolyYield(c, p)) PROVE \A q \in Proc : TqMove(q)
  BY <1>1
<1>2. /\ cpc[c] # "run" \/ trap[p] = "none"
      /\ \A d \in CPUS \ {c} : cpc'[d] = cpc[d] /\ cproc'[d] = cproc[d]
      /\ \A q \in Proc \ {p} : trap'[q] = trap[q]
  <2>1. ASSUME SysWait(c, p) \/ WaitAgain(c, p)
        PROVE  /\ cpc[c] # "run" \/ trap[p] = "none"
               /\ UNCHANGED <<trap, cproc>>
               /\ \E v : cpc' = [cpc EXCEPT ![c] = v]
    <3>1. WaitScan(c, p) /\ (cpc[c] # "run" \/ trap[p] = "none")
      BY <2>1 DEF SysWait, WaitAgain, Call, Running
    <3> QED
      BY <3>1 DEF WaitScan, Reap, NoChild, WaitSleep, GoToSleep, SwitchToScheduler, trapVars
  <2>2. CASE SysWait(c, p) \/ WaitAgain(c, p)
    BY <2>1, <2>2 DEF TypeOK
  <2>3. CASE SleepOnTicks(c, p) \/ Exit(c, p)
    BY <2>3 DEF SleepOnTicks, Exit, GoToSleep, SwitchToScheduler, Running, trapVars, stackVars, TypeOK
  <2>4. CASE KilledExit(c, p) \/ SysExit(c, p) \/ SleepCheck(c, p) \/ SysSleep(c, p) \/ SleepAgain(c, p)
    BY <2>4 DEF KilledExit, SysExit, SleepCheck, SysSleep, SleepAgain, SleepLock, Call, Running,
                trapVars, cpuVars
  <2>5. CASE ForkFail(c, p) \/ ForkDone(c, p) \/ SysFork(c, p)
    BY <2>5 DEF ForkFail, ForkDone, SysFork, Call, Running, trapVars, cpuVars
  <2>6. CASE SysSetMonopoly(c, p) \/ SysKill(c, p)
    BY <2>6 DEF SysSetMonopoly, SysKill, Call, Running, trapVars, stackVars, cpuVars
  <2>7. CASE SysMonopolize(c, p) \/ SysUnmonopolize(c, p)
    BY <2>7 DEF SysMonopolize, SysUnmonopolize, Call, Running, stackVars
  <2> QED
    BY <2>2, <2>3, <2>4, <2>5, <2>6, <2>7 DEF CallStep, SystemCall
<1>3. \A q \in Proc : \/ tq'[q] = 0 \/ monopoly'[q] = 1
                      \/ tq'[q] = tq[q] /\ level'[q] = level[q] /\ monopoly'[q] = monopoly[q]
  <2>1. CASE SysWait(c, p) \/ WaitAgain(c, p)
    BY <2>1 DEF SysWait, WaitAgain, WaitScan, schedVars
  <2>2. CASE SleepOnTicks(c, p) \/ Exit(c, p) \/ SysKill(c, p)
    BY <2>2 DEF SleepOnTicks, Exit, SysKill, schedVars
  <2>3. CASE KilledExit(c, p) \/ SysExit(c, p) \/ SleepCheck(c, p) \/ SysSleep(c, p) \/ SleepAgain(c, p)
    BY <2>3 DEF KilledExit, SysExit, SleepCheck, SysSleep, SleepAgain, SleepLock, schedVars
  <2>4. CASE ForkFail(c, p) \/ SysMonopolize(c, p) \/ SysUnmonopolize(c, p)
    BY <2>4 DEF ForkFail, SysMonopolize, SysUnmonopolize, schedVars
  <2>5. CASE SysFork(c, p)
    <3>1. /\ \E q : level' = [level EXCEPT ![q] = 0] /\ tq' = [tq EXCEPT ![q] = 0]
          /\ UNCHANGED monopoly
      BY <2>5 DEF SysFork
    <3> QED
      BY <3>1 DEF TypeOK
  <2>6. CASE ForkDone(c, p)
    <3>1. /\ level' = [level EXCEPT ![np[p]] = 0] /\ tq' = [tq EXCEPT ![np[p]] = 0]
          /\ monopoly' = [monopoly EXCEPT ![np[p]] = 0]
      BY <2>6 DEF ForkDone, ForkedLevel
    <3> QED
      BY <3>1 DEF TypeOK
  <2>7. CASE SysSetMonopoly(c, p)
    <3>1. /\ \E q : level' = [level EXCEPT ![q] = Monopoly] /\ monopoly' = [monopoly EXCEPT ![q] = 1]
          /\ UNCHANGED tq
      BY <2>7 DEF SysSetMonopoly
    <3> QED
      BY <3>1 DEF TypeOK
  <2> QED
    BY <2>1, <2>2, <2>3, <2>4, <2>5, <2>6, <2>7 DEF CallStep, SystemCall
<1> SUFFICES ASSUME NEW q \in Proc PROVE TqMove(q)
  OBVIOUS
<1>4. CASE tq'[q] = 0 \/ monopoly'[q] = 1
  BY <1>4 DEF TqMove
<1>5. CASE tq'[q] = tq[q] /\ level'[q] = level[q] /\ monopoly'[q] = monopoly[q]
  BY <1>2, <1>5, TqQuiet
<1> QED
  BY <1>3, <1>4, <1>5

LEMMA TqInvNext == Inv /\ TypeOK' /\ TqInv /\ [Next]_vars => TqInv'
<1> SUFFICES ASSUME Inv, TypeOK', TqInv, [Next]_vars PROVE TqInv'
  OBVIOUS
<1>0. TypeOK /\ CpuInv
  BY DEF Inv
<1>1. CASE Next
  <2>1. PICK c \in CPUS : Step(c)
    BY <1>1 DEF Next
  <2>2. \A q \in Proc : TqMove(q)
    BY <1>0, <2>1, TqScheduler, TqTimer, TqCalls DEF Step, ProcessStep
  <2> QED
    BY <2>2, TqMoves
<1>2. CASE UNCHANGED vars
  <2>1. UNCHANGED <<tq, level, monopoly, cpc, cproc, trap>>
    BY <1>2 DEF vars
  <2> QED
    BY <2>1 DEF TqInv, Over, InTrap, Quantum
<1> QED
  BY <1>1, <1>2

\* proc.c, trap.c: a process of the MLFQ off the timer interrupt has ticks of its quantum
\* left, whatever yield(), boosts and the interrupts in between did to its count
THEOREM TqIsBounded == Spec => []TqBounded
<1>1. Init => TqInv
  <2>1. 0 \in Levels
    BY DEF Levels
  <2> QED
    BY <2>1, QuantumPositive DEF Init, TqInv
<1>2. Inv /\ TypeOK' /\ TqInv /\ [Next]_vars => TqInv'
  BY TqInvNext
<1>3. TqInv => TqBounded
  BY DEF TqInv, TqBounded, Over, InTrap
<1> QED
  BY <1>1, <1>2, <1>3, Invariant, TypeCorrect, PTL DEF Spec

-----------------------------------------------------------------------------
(* The MoQ *)

LEMMA EnqueueHolds ==
  ASSUME NEW q \in Seq(Proc), Len(q) < QueueCapacity, NEW p \in Proc, NEW r \in Proc,
         Holds(q, r) \/ r = p
  PROVE  Holds(Enqueue(q, p), r)
<1>1. PICK s : s = Enqueue(q, p)
  OBVIOUS
<1>2. /\ Len(q) \in Nat /\ Len(q \o <<p>>) = Len(q) + 1 /\ (q \o <<p>>)[Len(q) + 1] = p
      /\ \A i \in 1 .. Len(q) : (q \o <<p>>)[i] = q[i]
  OBVIOUS
<1>3. s = [i \in 1 .. Len(q) + 1 |-> (q \o <<p>>)[i]]
  BY <1>1, <1>2, NPROCAssumption DEF Enqueue, EnqueueAll, QueueCapacity
<1>4. Len(s) = Len(q) + 1
  <2>1. s \in Seq(Proc) /\ DOMAIN s = 1 .. Len(q) + 1
    BY <1>1, <1>3, EnqueueType
  <2> QED
    BY <1>2, <2>1
<1>5. CASE r = p
  <2>1. Len(q) + 1 \in 1 .. Len(s) /\ s[Len(q) + 1] = p
    BY <1>2, <1>3, <1>4
  <2> QED
    BY <1>1, <1>5, <2>1 DEF Holds
<1>6. CASE Holds(q, r)
  <2>1. PICK i \in 1 .. Len(q) : q[i] = r
    BY <1>6 DEF Holds
  <2>2. i \in 1 .. Len(s) /\ s[i] = r
    BY <1>2, <1>3, <1>4, <2>1
  <2> QED
    BY <1>1, <2>2 DEF Holds
<1> QED
  BY <1>5, <1>6

LEMMA HoldsIsThere ==
  ASSUME NEW s \in Seq(Proc), NEW p
  PROVE  Holds(s, p) <=> \E i \in DOMAIN s : s[i] = p
BY DEF Holds

\* a sleeper of the MoQ after the step was one before it and is still there, or
\* has been inserted
MoqMove(p) ==
  state'[p] = "SLEEPING" /\ monopoly'[p] = 1 =>
    \/ Holds(moq, p)'
    \/ state[p] = "SLEEPING" /\ monopoly[p] = 1 /\ (Holds(moq, p) => Holds(moq, p)')

LEMMA MoqScheduler ==
  ASSUME TypeOK, CpuInv, MoqHasRoom, NEW c \in CPUS,
         SchedulerStep(c) \/ IdleTick(c) \/ IdleTickWakeup(c), NEW p \in Proc
  PROVE  MoqMove(p)
<1>0. moq \in Seq(Proc)
  BY DEF TypeOK
<1>1. UNCHANGED monopoly /\ (state'[p] = "SLEEPING" => state[p] = "SLEEPING")
  <2>1. CASE PickQueue(c) \/ PickHeap(c) \/ PickMoq(c)
    <3>1. UNCHANGED monopoly /\ \E q : state' = [state EXCEPT ![q] = "RUNNING"]
      BY <2>1 DEF PickQueue, PickHeap, PickMoq, Dispatch, schedVars
    <3> QED
      BY <3>1 DEF TypeOK
  <2>2. CASE PickHeapStale(c) \/ RotateMoq(c) \/ PickMoqEmpty(c) \/ AcquirePanic(c) \/ PickNone(c)
    BY <2>2 DEF PickHeapStale, RotateMoq, PickMoqEmpty, AcquirePanic, PickNone, schedVars
  <2>3. CASE SchedBack(c) \/ IdleTick(c) \/ IdleTickWakeup(c)
    BY <2>3 DEF SchedBack, IdleTick, IdleTickWakeup, WakeupTicks, Woken, schedVars
  <2> QED
    BY <2>1, <2>2, <2>3 DEF SchedulerStep
<1>2. CASE PickMoq(c)
  <2>1. /\ moq # <<>> /\ moq' = Tail(moq) /\ state[Head(moq)] = "RUNNABLE"
    BY <1>2 DEF PickMoq
  <2>2. ASSUME Holds(moq, p), state[p] = "SLEEPING" PROVE Holds(Tail(moq), p)
    <3>1. PICK i \in 1 .. Len(moq) : moq[i] = p
      BY <2>2 DEF Holds
    <3>2. i # 1
      BY <1>0, <2>1, <2>2, <3>1
    <3>3. i - 1 \in 1 .. Len(Tail(moq)) /\ Tail(moq)[i - 1] = p
      BY <1>0, <2>1, <3>1, <3>2
    <3> QED
      BY <3>3 DEF Holds
  <2> QED
    BY <1>1, <2>1, <2>2 DEF MoqMove, Holds
<1>3. CASE RotateMoq(c)
  <2>1. moq # <<>> /\ moq' = Enqueue(Tail(moq), Head(moq))
    BY <1>3 DEF RotateMoq
  <2>2. /\ Head(moq) \in Proc /\ Tail(moq) \in Seq(Proc) /\ Len(Tail(moq)) = Len(moq) - 1
        /\ Len(moq) \in Nat
    BY <1>0, <2>1
  <2>3. ASSUME Holds(moq, p) PROVE Holds(Tail(moq), p) \/ p = Head(moq)
    <3>1. PICK i \in 1 .. Len(moq) : moq[i] = p
      BY <2>3 DEF Holds
    <3>2. CASE i = 1
      BY <1>0, <2>1, <3>1, <3>2
    <3>3. CASE i # 1
      <4>1. i - 1 \in 1 .. Len(Tail(moq)) /\ Tail(moq)[i - 1] = p
        BY <1>0, <2>1, <3>1, <3>3
      <4> QED
        BY <4>1 DEF Holds
    <3> QED
      BY <3>2, <3>3
  <2>4. Len(Tail(moq)) < QueueCapacity
    BY <2>2, NPROCAssumption DEF MoqHasRoom, QueueCapacity
  <2>5. Holds(moq, p) => Holds(Enqueue(Tail(moq), Head(moq)), p)
    BY <2>2, <2>3, <2>4, EnqueueHolds
  <2> QED
    BY <1>1, <2>1, <2>5 DEF MoqMove, Holds
<1>4. CASE ~ (PickMoq(c) \/ RotateMoq(c))
  <2>1. UNCHANGED moq
    BY <1>4 DEF SchedulerStep, PickQueue, PickHeap, PickHeapStale, PickNone, PickMoqEmpty,
                AcquirePanic, SchedBack, IdleTick, IdleTickWakeup, WakeupTicks, queueVars
  <2> QED
    BY <1>1, <2>1 DEF MoqMove, Holds
<1> QED
  BY <1>2, <1>3, <1>4

LEMMA MoqTimer ==
  ASSUME TypeOK, NEW c \in CPUS, NEW q \in Proc, Timer(c, q) \/ TrapStep(c, q), NEW p \in Proc
  PROVE  MoqMove(p)
<1>1. UNCHANGED <<moq, monopoly>>
  BY DEF Timer, TrapStep, Tick, OtherTimer, Resume, TickWakeup, WakeupTicks, TrapAccount,
         TrapCount, TrapExpire, TrapYield, Yield, schedVars, queueVars
<1>2. state'[p] = "SLEEPING" => state[p] = "SLEEPING"
  <2>1. CASE TrapYield(c, q)
    BY <2>1 DEF TrapYield, Yield, TypeOK
  <2>2. CASE TickWakeup(c, q)
    BY <2>2 DEF TickWakeup, WakeupTicks, Woken
  <2>3. CASE ~ (TrapYield(c, q) \/ TickWakeup(c, q))
    BY <2>3 DEF Timer, TrapStep, Tick, OtherTimer, Resume, TrapAccount, TrapCount, TrapExpire
  <2> QED
    BY <2>1, <2>2, <2>3
<1> QED
  BY <1>1, <1>2 DEF MoqMove, Holds

LEMMA MoqSleep ==
  ASSUME TypeOK, MoqHasRoom, NEW c \in CPUS, NEW q \in Proc, NEW ch, GoToSleep(c, q, ch),
         UNCHANGED monopoly, NEW p \in Proc
  PROVE  MoqMove(p)
<1>1. /\ state' = [state EXCEPT ![q] = "SLEEPING"]
      /\ moq' = IF monopoly[q] = 1 THEN Enqueue(moq, q) ELSE moq
      /\ moq \in Seq(Proc)
  BY DEF GoToSleep, TypeOK
<1>2. Holds(moq, p) \/ (p = q /\ monopoly[q] = 1) => Holds(moq, p)'
  <2>1. CASE monopoly[q] = 1
    <3>1. Holds(moq, p) \/ p = q => Holds(Enqueue(moq, q), p)
      BY <1>1, EnqueueHolds DEF MoqHasRoom
    <3> QED
      BY <1>1, <2>1, <3>1 DEF Holds
  <2>2. CASE monopoly[q] # 1
    BY <1>1, <2>2 DEF Holds
  <2> QED
    BY <2>1, <2>2
<1>3. p # q => state'[p] = state[p]
  BY <1>1 DEF TypeOK
<1> QED
  BY <1>2, <1>3 DEF MoqMove

LEMMA MoqCalls ==
  ASSUME TypeOK, MoqHasRoom, NEW c \in CPUS, NEW q \in Proc,
         CallStep(c, q) \/ SystemCall(c, q), NEW p \in Proc
  PROVE  MoqMove(p)
<1>1. ASSUME UNCHANGED <<moq, monopoly>>, state'[p] = "SLEEPING" => state[p] = "SLEEPING"
      PROVE  MoqMove(p)
  BY <1>1 DEF MoqMove, Holds
<1>2. CASE KilledExit(c, q) \/ SysExit(c, q) \/ SleepCheck(c, q) \/ SysSleep(c, q) \/ SleepAgain(c, q)
  BY <1>1, <1>2 DEF KilledExit, SysExit, SleepCheck, SysSleep, SleepAgain, SleepLock, schedVars,
                    queueVars
<1>3. CASE SysMonopolize(c, q) \/ SysUnmonopolize(c, q)
  BY <1>1, <1>3 DEF SysMonopolize, SysUnmonopolize, schedVars, queueVars
<1>4. CASE SysFork(c, q) \/ ForkFail(c, q)
  <2>1. /\ UNCHANGED <<moq, monopoly>>
        /\ \E x : state' = [state EXCEPT ![x] = "EMBRYO"] \/ state' = [state EXCEPT ![x] = "UNUSED"]
    BY <1>4 DEF SysFork, ForkFail, schedVars, queueVars
  <2> QED
    BY <1>1, <2>1 DEF TypeOK
<1>5. CASE ForkDone(c, q)
  <2>1. /\ UNCHANGED moq /\ state' = [state EXCEPT ![np[q]] = "RUNNABLE"]
        /\ monopoly' = [monopoly EXCEPT ![np[q]] = 0]
    BY <1>5 DEF ForkDone
  <2> QED
    BY <2>1 DEF TypeOK, MoqMove, Holds
<1>6. CASE SysKill(c, q)
  <2>1. /\ UNCHANGED <<moq, monopoly>>
        /\ \E x : state' = [state EXCEPT ![x] = IF @ = "SLEEPING" THEN "RUNNABLE" ELSE @]
    BY <1>6 DEF SysKill, schedVars, queueVars
  <2> QED
    BY <1>1, <2>1 DEF TypeOK
<1>7. CASE SysYield(c, q) \/ SetMonopolyYield(c, q)
  <2>1. UNCHANGED <<moq, monopoly>> /\ state' = [state EXCEPT ![q] = "RUNNABLE"]
    BY <1>7 DEF SysYield, SetMonopolyYield, Yield
  <2> QED
    BY <1>1, <2>1 DEF TypeOK
<1>8. CASE Exit(c, q)
  <2>1. /\ UNCHANGED <<moq, monopoly>>
        /\ state' = state \/ \E S : state' = [Woken(state, S) EXCEPT ![q] = "ZOMBIE"]
    BY <1>8 DEF Exit, schedVars
  <2>2. state'[p] = "SLEEPING" => state[p] = "SLEEPING"
    BY <2>1 DEF Woken
  <2> QED
    BY <1>1, <2>1, <2>2
<1>9. CASE SleepOnTicks(c, q)
  BY <1>9, MoqSleep DEF SleepOnTicks, schedVars
<1>10. CASE SysWait(c, q) \/ WaitAgain(c, q)
  <2>1. WaitScan(c, q)
    BY <1>10 DEF SysWait, WaitAgain
  <2>2. UNCHANGED monopoly
    BY <2>1 DEF WaitScan, schedVars
  <2>3. CASE Reap(c, q)
    <3>1. UNCHANGED moq /\ \E z : state' = [state EXCEPT ![z] = "UNUSED"]
      BY <2>3 DEF Reap
    <3> QED
      BY <1>1, <2>2, <3>1 DEF TypeOK
  <2>4. CASE NoChild(c, q)
    BY <1>1, <2>2, <2>4 DEF NoChild
  <2>5. CASE WaitSleep(c, q)
    BY <2>2, <2>5, MoqSleep DEF WaitSleep
  <2> QED
    BY <2>1, <2>3, <2>4, <2>5 DEF WaitScan
<1>11. CASE SysSetMonopoly(c, q)
  <2>1. PICK x \in PidArgs :
          /\ WithPid(x) # {} /\ UNCHANGED state
          /\ monopoly' = [monopoly EXCEPT ![FirstSlot(WithPid(x))] = 1]
          /\ moq' = Enqueue(moq, FirstSlot(WithPid(x)))
    BY <1>11 DEF SysSetMonopoly
  <2>2. FirstSlot(WithPid(x)) \in Proc /\ moq \in Seq(Proc)
    <3>1. WithPid(x) \in SUBSET Proc
      BY DEF WithPid
    <3> QED
      BY <2>1, <3>1, FirstSlotIn DEF TypeOK
  <2>3. Holds(moq, p) \/ p = FirstSlot(WithPid(x)) => Holds(Enqueue(moq, FirstSlot(WithPid(x))), p)
    BY <2>2, EnqueueHolds DEF MoqHasRoom
  <2>4. p # FirstSlot(WithPid(x)) => monopoly'[p] = monopoly[p]
    BY <2>1 DEF TypeOK
  <2> QED
    BY <2>1, <2>3, <2>4 DEF MoqMove, Holds
<1> QED
  BY <1>2, <1>3, <1>4, <1>5, <1>6, <1>7, <1>8, <1>9, <1>10, <1>11 DEF CallStep, SystemCall

LEMMA MoqNext == Inv /\ TypeOK' /\ [Next]_vars /\ MoqHasRoom
                   => \A p \in Proc : AsleepOutOfMoq(p)' => AsleepOutOfMoq(p)
<1> SUFFICES ASSUME Inv, TypeOK', [Next]_vars, MoqHasRoom, NEW p \in Proc, AsleepOutOfMoq(p)'
             PROVE  AsleepOutOfMoq(p)
  OBVIOUS
<1>0. TypeOK /\ CpuInv /\ moq \in Seq(Proc) /\ moq' \in Seq(Proc)
  BY DEF Inv, TypeOK
<1>1. CASE Next
  <2>1. PICK c \in CPUS : Step(c)
    BY <1>1 DEF Next
  <2>2. MoqMove(p)
    BY <1>0, <2>1, MoqScheduler, MoqTimer, MoqCalls DEF Step, ProcessStep
  <2>3. state'[p] = "SLEEPING" /\ monopoly'[p] = 1
    BY DEF AsleepOutOfMoq
  <2>4. ~ Holds(moq, p)'
    <3>1. PICK s : s = moq'
      OBVIOUS
    <3>2. s \in Seq(Proc) /\ \A i \in DOMAIN s : s[i] # p
      BY <1>0, <3>1 DEF AsleepOutOfMoq
    <3>3. ~ Holds(s, p)
      BY <3>2, HoldsIsThere
    <3> QED
      BY <3>1, <3>3 DEF Holds
  <2>5. state[p] = "SLEEPING" /\ monopoly[p] = 1 /\ ~ Holds(moq, p)
    BY <2>2, <2>3, <2>4 DEF MoqMove
  <2> QED
    BY <1>0, <2>5, HoldsIsThere DEF AsleepOutOfMoq
<1>2. CASE UNCHANGED vars
  BY <1>2 DEF vars, AsleepOutOfMoq
<1> QED
  BY <1>1, <1>2

\* sleep(), setmonopoly(), scheduler(): a step that begins with room in the MoQ leaves no
\* sleeping process of it without an entry, whatever calls and rotations came before
THEOREM MoqHoldsItsSleepers == Spec => MoqHoldsSleepers
<1>1. Inv /\ TypeOK' /\ [Next]_vars
        => [MoqHasRoom => \A p \in Proc : AsleepOutOfMoq(p)' => AsleepOutOfMoq(p)]_vars
  BY MoqNext
<1> QED
  BY <1>1, Invariant, TypeCorrect, PTL DEF Spec, MoqHoldsSleepers
=============================================================================
