---------------------------- MODULE BufferCache ----------------------------
(***************************************************************************)
(* bio.c and sleeplock.c: buffers that cache disk blocks, each with a      *)
(* sleep lock.  A step is what runs under bcache.lock or under the lock of *)
(* the sleep lock, or one transfer of the disk.                            *)
(***************************************************************************)
EXTENDS Integers, FiniteSets, SequencesExt, FiniteSetTheorems, TLAPS

CONSTANTS
  Proc, Block, Value, Buf,
  None,        \* no process, no block, no buffer
  MaxDirty     \* the blocks the log holds at most

NoneAssumption  == None \notin Proc \cup Block \cup Buf
DirtyAssumption == MaxDirty \in Nat

VARIABLES
  disk,
  blockno, valid, dirty, refcnt, data, lock,  \* struct buf; lock: the holder
  list,                                       \* bcache.head.next ...
  pc, buf       \* per process: where it is, the buffer it has a reference to

vars == <<disk, blockno, valid, dirty, refcnt, data, lock, list, pc, buf>>

TypeOK ==
  /\ disk \in [Block -> Value]
  /\ blockno \in [Buf -> Block \cup {None}]
  /\ valid \in [Buf -> BOOLEAN] /\ dirty \in [Buf -> BOOLEAN]
  /\ refcnt \in [Buf -> 0 .. Cardinality(Proc)]
  /\ data \in [Buf -> Value]
  /\ lock \in [Buf -> Proc \cup {None}]
  /\ list \in [1 .. Cardinality(Buf) -> Buf] /\ IsInjective(list)
  /\ pc \in [Proc -> {"idle", "lock", "asleep", "read", "use", "unref"}]
  /\ buf \in [Proc -> Buf \cup {None}]

Init ==
  /\ disk \in [Block -> Value]
  /\ blockno = [b \in Buf |-> None]
  /\ valid = [b \in Buf |-> FALSE] /\ dirty = [b \in Buf |-> FALSE]
  /\ refcnt = [b \in Buf |-> 0]
  /\ \E v \in Value : data = [b \in Buf |-> v]
  /\ lock = [b \in Buf |-> None]
  /\ list \in SetToSeqs(Buf)
  /\ pc = [p \in Proc |-> "idle"]
  /\ buf = [p \in Proc |-> None]

Go(p, point) == pc' = [pc EXCEPT ![p] = point]

-----------------------------------------------------------------------------
Cached(n) == {b \in Buf : blockno[b] = n}

\* mutant: a dirty buffer is recycled like any other
UnusedOnly(b) == refcnt[b] = 0
Unused(b)     == refcnt[b] = 0 /\ ~ dirty[b]

\* the least recently used one
Victim(b) ==
  \E i \in DOMAIN list :
    list[i] = b /\ Unused(b) /\ \A j \in DOMAIN list : j > i => ~ Unused(list[j])

bgetHit(p, n) ==
  /\ pc[p] = "idle"
  /\ \E b \in Cached(n) :
       /\ refcnt' = [refcnt EXCEPT ![b] = @ + 1]
       /\ buf' = [buf EXCEPT ![p] = b]
  /\ Go(p, "lock")
  /\ UNCHANGED <<disk, blockno, valid, dirty, data, lock, list>>

\* mutant: the caller's reference is not counted
NoReference   == 0
FirstReference == 1

\* where there is no victim, bget() panics: see BufferFound
bgetRecycle(p, n) ==
  /\ pc[p] = "idle"
  /\ Cached(n) = {}
  /\ \E b \in Buf :
       /\ Victim(b)
       /\ blockno' = [blockno EXCEPT ![b] = n]
       /\ valid' = [valid EXCEPT ![b] = FALSE]
       /\ dirty' = [dirty EXCEPT ![b] = FALSE]
       /\ refcnt' = [refcnt EXCEPT ![b] = FirstReference]
       /\ buf' = [buf EXCEPT ![p] = b]
  /\ Go(p, "lock")
  /\ UNCHANGED <<disk, data, lock, list>>

acquiresleep(p) ==
  /\ pc[p] = "lock"
  /\ IF lock[buf[p]] = None
     THEN lock' = [lock EXCEPT ![buf[p]] = p] /\ Go(p, "read")
     ELSE Go(p, "asleep") /\ UNCHANGED lock
  /\ UNCHANGED <<disk, blockno, valid, dirty, refcnt, data, list, buf>>

\* kill() wakes a process that waits for a lock; it tests again
Kill(p) ==
  /\ pc[p] = "asleep"
  /\ Go(p, "lock")
  /\ UNCHANGED <<disk, blockno, valid, dirty, refcnt, data, lock, list, buf>>

\* bread(): iderw() fills a buffer that is not valid
bread(p) ==
  /\ pc[p] = "read"
  /\ LET b == buf[p] IN
     IF valid[b]
     THEN UNCHANGED <<data, valid>>
     ELSE /\ data' = [data EXCEPT ![b] = disk[blockno[b]]]
          /\ valid' = [valid EXCEPT ![b] = TRUE]
  /\ Go(p, "use")
  /\ UNCHANGED <<disk, blockno, dirty, refcnt, lock, list, buf>>

\* the caller changes the data and calls bwrite(), or log_write(), which only
\* marks the buffer; the log has begin_op() limit how many are marked
bwrite(p, v) ==
  /\ pc[p] = "use"
  /\ lock[buf[p]] = p
  /\ data' = [data EXCEPT ![buf[p]] = v]
  /\ disk' = [disk EXCEPT ![blockno[buf[p]]] = v]
  /\ dirty' = [dirty EXCEPT ![buf[p]] = FALSE]
  /\ UNCHANGED <<blockno, valid, refcnt, lock, list, pc, buf>>

log_write(p, v) ==
  /\ pc[p] = "use"
  /\ dirty' = [dirty EXCEPT ![buf[p]] = TRUE]
  /\ Cardinality({b \in Buf : dirty'[b]}) <= MaxDirty
  /\ data' = [data EXCEPT ![buf[p]] = v]
  /\ UNCHANGED <<disk, blockno, valid, refcnt, lock, list, pc, buf>>

\* wakeup(lk); mutant: a releasing process wakes nobody
WakesNobody(b) == pc
Wakes(b) == [p \in Proc |-> IF pc[p] = "asleep" /\ buf[p] = b THEN "lock" ELSE pc[p]]

releasesleep(p) ==
  /\ pc[p] = "use"
  /\ lock[buf[p]] = p
  /\ lock' = [lock EXCEPT ![buf[p]] = None]
  /\ pc' = [Wakes(buf[p]) EXCEPT ![p] = "unref"]
  /\ UNCHANGED <<disk, blockno, valid, dirty, refcnt, data, list, buf>>

\* mutant: nothing is given back while somebody else has a reference
LastOnly(b)   == IF refcnt[b] > 1 THEN refcnt[b] ELSE 0
OneFewer(b) == refcnt[b] - 1

MoveToFront(b) ==
  [i \in DOMAIN list |->
     IF i = 1 THEN b
     ELSE IF \E j \in 1 .. i - 1 : list[j] = b THEN list[i] ELSE list[i - 1]]

brelse(p) ==
  /\ pc[p] = "unref"
  /\ LET b == buf[p] IN
     /\ refcnt' = [refcnt EXCEPT ![b] = OneFewer(b)]
     /\ list' = IF refcnt'[b] = 0 THEN MoveToFront(b) ELSE list
  /\ buf' = [buf EXCEPT ![p] = None]
  /\ Go(p, "idle")
  /\ UNCHANGED <<disk, blockno, valid, dirty, data, lock>>

Next ==
  \E p \in Proc :
    \/ \E n \in Block : bgetHit(p, n) \/ bgetRecycle(p, n)
    \/ acquiresleep(p) \/ Kill(p) \/ bread(p)
    \/ \E v \in Value : bwrite(p, v) \/ log_write(p, v)
    \/ releasesleep(p) \/ brelse(p)

Spec == Init /\ [][Next]_vars

-----------------------------------------------------------------------------
Store == INSTANCE BlockStore WITH
  content <- [n \in Block |->
                IF \E b \in Cached(n) : valid[b]
                THEN data[CHOOSE b \in Cached(n) : valid[b]]
                ELSE disk[n]],
  users <- [n \in Block |-> {p \in Proc : pc[p] = "use" /\ blockno[buf[p]] = n}]

\* the buffer cache implements one content and one user for each block: there
\* are no two buffers of a block, none is recycled or read again while it holds
\* what the disk does not, and a process that comes out of the lock of a buffer
\* still finds the block it asked for
StoreSpec == Store!Spec

\* wherever a process calls bread(), bget() finds a buffer: none stays counted as
\* used.  It takes as many buffers as processes and blocks of the log.
BufferFound ==
  \A p \in Proc, n \in Block :
    pc[p] = "idle" => Cached(n) # {} \/ \E b \in Buf : Unused(b)

\* no wakeup is lost: who sleeps on a buffer's lock sleeps while it is held
SleepersHaveHolder ==
  \A p \in Proc : pc[p] = "asleep" => lock[buf[p]] \notin {None, p}

-----------------------------------------------------------------------------
(* For any number of processes, blocks and buffers.  What makes the properties above  *)
(* inductive: a block has one buffer at most, references are counted, the lock of a   *)
(* buffer is that of a process at work with it, and what is not dirty is on disk.     *)

CacheAssumption ==
  NoneAssumption /\ DirtyAssumption /\ IsFiniteSet(Proc) /\ IsFiniteSet(Buf)

\* a process that is not idle has a reference, and the lock where it works
Placed ==
  /\ \A p \in Proc : buf[p] = None <=> pc[p] = "idle"
  /\ \A p \in Proc : pc[p] \in {"read", "use"} => lock[buf[p]] = p
  /\ \A p \in Proc, b \in Buf : lock[b] = p => buf[p] = b /\ pc[p] \in {"read", "use"}

References(b) == {p \in Proc : buf[p] = b}

Counted == \A b \in Buf : refcnt[b] = Cardinality(References(b))

OneBuffer ==
  /\ \A a, b \in Buf : blockno[a] = blockno[b] /\ blockno[a] # None => a = b
  /\ \A p \in Proc : buf[p] # None => blockno[buf[p]] # None

\* what is valid is of a block, and on disk if it is not dirty
Fresh ==
  /\ \A b \in Buf : valid[b] => blockno[b] # None
  /\ \A b \in Buf : dirty[b] => valid[b]
  /\ \A b \in Buf : valid[b] /\ ~ dirty[b] => data[b] = disk[blockno[b]]
  /\ \A p \in Proc : pc[p] = "use" => valid[buf[p]]

Dirty == {b \in Buf : dirty[b]}

Inv ==
  /\ TypeOK /\ Placed /\ Counted /\ OneBuffer /\ Fresh /\ SleepersHaveHolder
  /\ Cardinality(Dirty) <= MaxDirty

LEMMA ProcFacts ==
  ASSUME CacheAssumption, Inv, NEW p \in Proc
  PROVE  /\ pc[p] # "idle" =>
              buf[p] \in Buf /\ blockno[buf[p]] \in Block /\ buf[p] # None
         /\ pc[p] = "idle" => buf[p] = None
         /\ None \notin Buf /\ None \notin Proc /\ None \notin Block
<1>1. /\ buf[p] \in Buf \cup {None}
      /\ buf[p] = None <=> pc[p] = "idle"
      /\ buf[p] # None => blockno[buf[p]] # None
      /\ \A b \in Buf : blockno[b] \in Block \cup {None}
  BY DEF Inv, TypeOK, Placed, OneBuffer
<1> QED
  BY <1>1 DEF CacheAssumption, NoneAssumption

-----------------------------------------------------------------------------
(* References are counted. *)

LEMMA OneMore ==
  ASSUME IsFiniteSet(Proc), NEW F \in SUBSET Proc, NEW p \in Proc, p \notin F
  PROVE  /\ Cardinality(F \cup {p}) = Cardinality(F) + 1
         /\ Cardinality(F \cup {p}) \in 0 .. Cardinality(Proc)
         /\ Cardinality(F) \in 0 .. Cardinality(Proc) /\ Cardinality(F) \in Nat
<1>1. PICK G \in SUBSET Proc : G = F \cup {p}
  OBVIOUS
<1>2. /\ IsFiniteSet(F) /\ Cardinality(F) \in Nat /\ Cardinality(G) \in Nat
      /\ Cardinality(F) <= Cardinality(Proc) /\ Cardinality(G) <= Cardinality(Proc)
      /\ Cardinality(Proc) \in Nat
  BY FS_Subset, FS_CardinalityType
<1>3. Cardinality(G) = Cardinality(F) + 1
  BY <1>1, <1>2, FS_AddElement
<1> QED
  BY <1>1, <1>2, <1>3

LEMMA TakeCounted ==
  ASSUME CacheAssumption, Inv, NEW p \in Proc, NEW b \in Buf, buf[p] = None,
         buf' = [buf EXCEPT ![p] = b], refcnt' = [refcnt EXCEPT ![b] = refcnt[b] + 1]
  PROVE  Counted' /\ refcnt' \in [Buf -> 0 .. Cardinality(Proc)]
<1>1. PICK F \in SUBSET Proc : F = References(b)
  BY DEF References
<1>2. p \notin F /\ References(b)' = F \cup {p}
  BY <1>1, ProcFacts DEF References, Inv, TypeOK
<1>3. refcnt'[b] = refcnt[b] + 1 /\ refcnt[b] = Cardinality(F)
  BY <1>1 DEF Counted, Inv, TypeOK
<1>4. refcnt'[b] = Cardinality(F \cup {p}) /\ refcnt'[b] \in 0 .. Cardinality(Proc)
  BY <1>2, <1>3, OneMore DEF CacheAssumption
<1>5. ASSUME NEW c \in Buf, c # b
      PROVE  refcnt'[c] = refcnt[c] /\ References(c)' = References(c)
  BY <1>5, ProcFacts DEF References, Inv, TypeOK
<1>6. Counted'
  BY <1>2, <1>4, <1>5 DEF Counted, Inv
<1>7. refcnt' \in [Buf -> 0 .. Cardinality(Proc)]
  BY <1>4 DEF Inv, TypeOK
<1> QED
  BY <1>6, <1>7

LEMMA GiveCounted ==
  ASSUME CacheAssumption, Inv, NEW p \in Proc, NEW b \in Buf, buf[p] = b,
         buf' = [buf EXCEPT ![p] = None], refcnt' = [refcnt EXCEPT ![b] = refcnt[b] - 1]
  PROVE  Counted' /\ refcnt' \in [Buf -> 0 .. Cardinality(Proc)]
<1>1. PICK F \in SUBSET Proc : F = References(b) \ {p}
  BY DEF References
<1>2. p \notin F /\ References(b) = F \cup {p} /\ References(b)' = F
  BY <1>1, ProcFacts DEF References, Inv, TypeOK
<1>3. refcnt'[b] = refcnt[b] - 1 /\ refcnt[b] = Cardinality(F \cup {p})
  BY <1>2 DEF Counted, Inv, TypeOK
<1>4. refcnt'[b] = Cardinality(F) /\ refcnt'[b] \in 0 .. Cardinality(Proc)
  <2>1. Cardinality(F \cup {p}) = Cardinality(F) + 1 /\ Cardinality(F) \in Nat
    BY <1>2, OneMore DEF CacheAssumption
  <2>2. Cardinality(F) \in 0 .. Cardinality(Proc)
    BY <1>2, OneMore DEF CacheAssumption
  <2>3. refcnt'[b] = Cardinality(F)
    BY <1>3, <2>1
  <2> QED
    BY <2>2, <2>3
<1>5. ASSUME NEW c \in Buf, c # b
      PROVE  refcnt'[c] = refcnt[c] /\ References(c)' = References(c)
  BY <1>5, ProcFacts DEF References, Inv, TypeOK
<1>6. Counted'
  BY <1>2, <1>4, <1>5 DEF Counted, Inv
<1>7. refcnt' \in [Buf -> 0 .. Cardinality(Proc)]
  BY <1>4 DEF Inv, TypeOK
<1> QED
  BY <1>6, <1>7

\* a buffer without references has none; one more buffer that is dirty
LEMMA Unreferenced ==
  ASSUME CacheAssumption, Inv, NEW b \in Buf, refcnt[b] = 0
  PROVE  \A p \in Proc : buf[p] # b
<1>1. PICK F \in SUBSET Proc : F = References(b)
  BY DEF References
<1>2. IsFiniteSet(F) /\ Cardinality(F) = 0
  BY <1>1, FS_Subset DEF CacheAssumption, Inv, Counted
<1>3. F = {}
  BY <1>2, FS_EmptySet
<1> QED
  BY <1>1, <1>3 DEF References

\* there are no more dirty buffers than there were
LEMMA NotMoreDirty ==
  ASSUME CacheAssumption, Inv, \A b \in Buf : dirty'[b] => dirty[b]
  PROVE  (Cardinality(Dirty) <= MaxDirty)'
<1>1. PICK D, E : D = Dirty /\ E = Dirty' /\ D \in SUBSET Buf /\ E \in SUBSET Buf /\ E \subseteq D
  <2>1. PICK D : D = Dirty
    OBVIOUS
  <2>2. PICK E : E = Dirty'
    OBVIOUS
  <2>3. D \in SUBSET Buf /\ E \in SUBSET Buf /\ E \subseteq D
    BY <2>1, <2>2 DEF Dirty
  <2> QED
    BY <2>1, <2>2, <2>3
<1>2. IsFiniteSet(D)
  BY <1>1, FS_Subset DEF CacheAssumption
<1>3. Cardinality(E) <= Cardinality(D) /\ Cardinality(E) \in Nat /\ Cardinality(D) \in Nat
  BY <1>1, <1>2, FS_Subset, FS_CardinalityType
<1>4. Cardinality(D) <= MaxDirty /\ MaxDirty \in Nat
  BY <1>1 DEF Inv, CacheAssumption, DirtyAssumption
<1>5. Cardinality(E) <= MaxDirty
  BY <1>3, <1>4
<1> QED
  BY <1>1, <1>5

-----------------------------------------------------------------------------
(* The list. *)

LEMMA MoveFacts ==
  ASSUME NEW n \in Nat, NEW L \in [1 .. n -> Buf], IsInjective(L), NEW b \in Buf,
         NEW M, M = [i \in 1 .. n |->
                       IF i = 1 THEN b
                       ELSE IF \E j \in 1 .. i - 1 : L[j] = b THEN L[i] ELSE L[i - 1]]
  PROVE  M \in [1 .. n -> Buf] /\ IsInjective(M)
<1>1. \A i \in 1 .. n : i # 1 => i - 1 \in 1 .. n
  OBVIOUS
<1>2. M \in [1 .. n -> Buf]
  BY <1>1
<1>3. \A i, j \in 1 .. n : L[i] = L[j] => i = j
  BY DEF IsInjective
<1>4. ASSUME NEW i \in 1 .. n, i # 1
      PROVE  /\ M[i] # b
             /\ (M[i] = L[i] /\ \E j \in 1 .. i - 1 : L[j] = b)
                  \/ (M[i] = L[i - 1] /\ ~ \E j \in 1 .. i - 1 : L[j] = b)
  <2>1. CASE \E j \in 1 .. i - 1 : L[j] = b
    BY <1>3, <1>4, <2>1
  <2>2. CASE ~ \E j \in 1 .. i - 1 : L[j] = b
    <3>1. i - 1 \in 1 .. i - 1
      BY <1>4
    <3> QED
      BY <1>4, <2>2, <3>1
  <2> QED
    BY <2>1, <2>2
<1>5. ASSUME NEW i \in 1 .. n, NEW k \in 1 .. n, i < k, M[i] = M[k] PROVE FALSE
  <2>1. k # 1
    BY <1>5
  <2>2. i # 1
    BY <1>4, <1>5, <2>1
  <2>3. i - 1 \in 1 .. n /\ k - 1 \in 1 .. n
    BY <2>1, <2>2
  <2>4. CASE M[i] = L[i] /\ \E j \in 1 .. i - 1 : L[j] = b
    <3>1. \E j \in 1 .. k - 1 : L[j] = b
      BY <1>5, <2>4
    <3>2. M[k] = L[k]
      BY <1>4, <2>1, <3>1
    <3> QED
      BY <1>3, <1>5, <2>4, <3>2
  <2>5. CASE M[i] = L[i - 1]
    <3>1. L[i - 1] # L[k] /\ L[i - 1] # L[k - 1]
      BY <1>3, <1>5, <2>3
    <3> QED
      BY <1>4, <1>5, <2>1, <2>5, <3>1
  <2> QED
    BY <1>4, <2>2, <2>4, <2>5
<1>6. IsInjective(M)
  <2>1. DOMAIN M = 1 .. n
    OBVIOUS
  <2>2. ASSUME NEW i \in 1 .. n, NEW k \in 1 .. n, M[i] = M[k] PROVE i = k
    <3>1. i < k \/ k < i \/ i = k
      OBVIOUS
    <3> QED
      BY <1>5, <2>2, <3>1
  <2> QED
    BY <2>1, <2>2 DEF IsInjective
<1> QED
  BY <1>2, <1>6

-----------------------------------------------------------------------------
(* One lemma for each action. *)

LEMMA Initially == CacheAssumption /\ Init => Inv
<1> SUFFICES ASSUME CacheAssumption, Init PROVE Inv
  OBVIOUS
<1>1. Cardinality(Proc) \in Nat /\ Cardinality({}) = 0
  BY FS_CardinalityType, FS_EmptySet DEF CacheAssumption
<1>2. list \in [1 .. Cardinality(Buf) -> Buf] /\ IsInjective(list)
  BY DEF Init, SetToSeqs, IsInjective
<1>3. TypeOK
  BY <1>1, <1>2 DEF Init, TypeOK
<1>4. Counted
  <2> SUFFICES ASSUME NEW b \in Buf PROVE refcnt[b] = Cardinality(References(b))
    BY DEF Counted
  <2>1. References(b) = {}
    BY DEF References, Init, CacheAssumption, NoneAssumption
  <2> QED
    BY <1>1, <2>1 DEF Init
<1>5. Placed /\ OneBuffer /\ Fresh /\ SleepersHaveHolder
  BY DEF Init, Placed, OneBuffer, Fresh, SleepersHaveHolder, CacheAssumption, NoneAssumption
<1>6. Cardinality(Dirty) <= MaxDirty
  <2>1. Dirty = {}
    BY DEF Dirty, Init
  <2> QED
    BY <1>1, <2>1 DEF CacheAssumption, DirtyAssumption
<1> QED
  BY <1>3, <1>4, <1>5, <1>6 DEF Inv

LEMMA HitKeeps ==
  ASSUME CacheAssumption, Inv, NEW p \in Proc, NEW n \in Block, bgetHit(p, n) PROVE Inv'
<1>1. PICK b \in Buf :
        /\ pc[p] = "idle" /\ buf[p] = None /\ blockno[b] = n
        /\ refcnt' = [refcnt EXCEPT ![b] = refcnt[b] + 1]
        /\ buf' = [buf EXCEPT ![p] = b] /\ pc' = [pc EXCEPT ![p] = "lock"]
        /\ UNCHANGED <<disk, blockno, valid, dirty, data, lock, list>>
  BY ProcFacts DEF bgetHit, Cached, Go
<1>2. Counted' /\ refcnt' \in [Buf -> 0 .. Cardinality(Proc)]
  BY <1>1, TakeCounted
<1>3. /\ pc'[p] = "lock" /\ buf'[p] = b
      /\ \A q \in Proc : q # p => pc'[q] = pc[q] /\ buf'[q] = buf[q]
  BY <1>1 DEF Inv, TypeOK
<1>4. TypeOK'
  BY <1>1, <1>2 DEF Inv, TypeOK
<1>5. Placed'
  BY <1>1, <1>3, ProcFacts DEF Inv, Placed
<1>6. OneBuffer' /\ Fresh'
  BY <1>1, <1>3, ProcFacts DEF Inv, OneBuffer, Fresh
<1>7. SleepersHaveHolder'
  BY <1>1, <1>3 DEF Inv, SleepersHaveHolder
<1>8. (Cardinality(Dirty) <= MaxDirty)'
  BY <1>1, NotMoreDirty
<1> QED
  BY <1>2, <1>4, <1>5, <1>6, <1>7, <1>8 DEF Inv

\* the buffer that is recycled is nobody's, and what it held is on disk
LEMMA RecycleFacts ==
  ASSUME CacheAssumption, Inv, NEW p \in Proc, NEW n \in Block, bgetRecycle(p, n)
  PROVE  \E b \in Buf :
           /\ pc[p] = "idle" /\ buf[p] = None /\ ~ dirty[b] /\ refcnt[b] = 0
           /\ \A q \in Proc : buf[q] # b /\ \A c \in Buf : blockno[c] # n
           /\ blockno' = [blockno EXCEPT ![b] = n]
           /\ valid' = [valid EXCEPT ![b] = FALSE] /\ dirty' = [dirty EXCEPT ![b] = FALSE]
           /\ refcnt' = [refcnt EXCEPT ![b] = refcnt[b] + 1]
           /\ buf' = [buf EXCEPT ![p] = b] /\ pc' = [pc EXCEPT ![p] = "lock"]
           /\ UNCHANGED <<disk, data, lock, list>>
<1>1. PICK b \in Buf :
        /\ Unused(b) /\ blockno' = [blockno EXCEPT ![b] = n]
        /\ valid' = [valid EXCEPT ![b] = FALSE] /\ dirty' = [dirty EXCEPT ![b] = FALSE]
        /\ refcnt' = [refcnt EXCEPT ![b] = 1] /\ buf' = [buf EXCEPT ![p] = b]
  BY DEF bgetRecycle, Victim, FirstReference
<1>2. ~ dirty[b] /\ refcnt[b] = 0 /\ refcnt[b] + 1 = 1 /\ \A q \in Proc : buf[q] # b
  BY <1>1, Unreferenced DEF Unused
<1>3. pc[p] = "idle" /\ buf[p] = None /\ \A c \in Buf : blockno[c] # n
  BY ProcFacts DEF bgetRecycle, Cached
<1> QED
  BY <1>1, <1>2, <1>3 DEF bgetRecycle, Go

LEMMA RecycleKeeps ==
  ASSUME CacheAssumption, Inv, NEW p \in Proc, NEW n \in Block, bgetRecycle(p, n) PROVE Inv'
<1>1. PICK b \in Buf :
        /\ pc[p] = "idle" /\ buf[p] = None /\ ~ dirty[b] /\ refcnt[b] = 0
        /\ \A q \in Proc : buf[q] # b /\ \A c \in Buf : blockno[c] # n
        /\ blockno' = [blockno EXCEPT ![b] = n]
        /\ valid' = [valid EXCEPT ![b] = FALSE] /\ dirty' = [dirty EXCEPT ![b] = FALSE]
        /\ refcnt' = [refcnt EXCEPT ![b] = refcnt[b] + 1]
        /\ buf' = [buf EXCEPT ![p] = b] /\ pc' = [pc EXCEPT ![p] = "lock"]
        /\ UNCHANGED <<disk, data, lock, list>>
  BY RecycleFacts
<1>2. Counted' /\ refcnt' \in [Buf -> 0 .. Cardinality(Proc)]
  BY <1>1, TakeCounted
<1>3. /\ pc'[p] = "lock" /\ buf'[p] = b
      /\ \A q \in Proc : q # p => pc'[q] = pc[q] /\ buf'[q] = buf[q]
      /\ blockno'[b] = n /\ ~ valid'[b] /\ ~ dirty'[b]
      /\ \A c \in Buf : c # b =>
           blockno'[c] = blockno[c] /\ valid'[c] = valid[c] /\ dirty'[c] = dirty[c]
  BY <1>1 DEF Inv, TypeOK
<1>4. TypeOK'
  BY <1>1, <1>2 DEF Inv, TypeOK
<1>5. \A q \in Proc : pc[q] # "idle" => buf[q] \in Buf /\ buf[q] # b
  BY <1>1, ProcFacts
<1>6. Placed'
  BY <1>1, <1>3, ProcFacts DEF Inv, Placed
<1>7. OneBuffer'
  <2>1. \A a, c \in Buf : blockno'[a] = blockno'[c] /\ blockno'[a] # None => a = c
    BY <1>1, <1>3 DEF Inv, OneBuffer
  <2>2. \A q \in Proc : buf'[q] # None => blockno'[buf'[q]] # None
    BY <1>1, <1>3, <1>5, ProcFacts
  <2> QED
    BY <2>1, <2>2 DEF OneBuffer
<1>8. Fresh'
  BY <1>1, <1>3, <1>5 DEF Inv, Fresh
<1>9. SleepersHaveHolder'
  BY <1>1, <1>3 DEF Inv, SleepersHaveHolder
<1>10. (Cardinality(Dirty) <= MaxDirty)'
  BY <1>1, <1>3, NotMoreDirty
<1> QED
  BY <1>2, <1>4, <1>6, <1>7, <1>8, <1>9, <1>10 DEF Inv

\* the process waits for the lock, or has it
LEMMA AcquireKeeps ==
  ASSUME CacheAssumption, Inv, NEW p \in Proc, acquiresleep(p) \/ Kill(p) PROVE Inv'
<1>1. /\ UNCHANGED <<disk, blockno, valid, dirty, refcnt, data, list, buf>>
      /\ pc[p] \in {"lock", "asleep"} /\ buf[p] \in Buf /\ p # None
  BY ProcFacts DEF acquiresleep, Kill
<1>2. \/ lock[buf[p]] = None /\ lock' = [lock EXCEPT ![buf[p]] = p] /\ pc' = [pc EXCEPT ![p] = "read"]
      \/ pc[p] = "lock" /\ lock[buf[p]] # None /\ UNCHANGED lock /\ pc' = [pc EXCEPT ![p] = "asleep"]
      \/ UNCHANGED lock /\ pc' = [pc EXCEPT ![p] = "lock"]
  BY DEF acquiresleep, Kill, Go
<1>3. /\ pc'[p] \in {"read", "asleep", "lock"}
      /\ pc'[p] = "asleep" => lock[buf[p]] # None
      /\ pc'[p] = "read" => lock[buf[p]] = None /\ lock'[buf[p]] = p
      /\ pc'[p] # "read" => UNCHANGED lock
      /\ \A q \in Proc : q # p => pc'[q] = pc[q]
      /\ \A b \in Buf : b # buf[p] => lock'[b] = lock[b]
  BY <1>1, <1>2 DEF Inv, TypeOK
<1>4. TypeOK'
  <2>1. pc' \in [Proc -> {"idle", "lock", "asleep", "read", "use", "unref"}]
    BY <1>2 DEF Inv, TypeOK
  <2>2. lock' \in [Buf -> Proc \cup {None}]
    BY <1>1, <1>2 DEF Inv, TypeOK
  <2> QED
    BY <1>1, <2>1, <2>2 DEF Inv, TypeOK
<1>5. Placed'
  BY <1>1, <1>3, ProcFacts DEF Inv, Placed
<1>6. Counted' /\ OneBuffer'
  BY <1>1 DEF Inv, Counted, References, OneBuffer
<1>7. Fresh'
  BY <1>1, <1>3 DEF Inv, Fresh
<1>8. SleepersHaveHolder'
  <2> SUFFICES ASSUME NEW q \in Proc, pc'[q] = "asleep" PROVE lock'[buf[q]] \notin {None, q}
    BY <1>1 DEF SleepersHaveHolder
  <2>1. CASE q = p
    BY <2>1, <1>1, <1>3 DEF Inv, Placed
  <2>2. CASE q # p
    BY <2>2, <1>1, <1>3, ProcFacts DEF Inv, SleepersHaveHolder
  <2> QED
    BY <2>1, <2>2
<1>9. (Cardinality(Dirty) <= MaxDirty)'
  BY <1>1, NotMoreDirty
<1> QED
  BY <1>4, <1>5, <1>6, <1>7, <1>8, <1>9 DEF Inv

LEMMA ReadKeeps ==
  ASSUME CacheAssumption, Inv, NEW p \in Proc, bread(p) PROVE Inv'
<1>1. PICK b \in Buf :
        /\ b = buf[p] /\ pc[p] = "read" /\ lock[b] = p /\ blockno[b] \in Block
        /\ UNCHANGED <<disk, blockno, dirty, refcnt, lock, list, buf>>
        /\ pc' = [pc EXCEPT ![p] = "use"]
        /\ \/ valid[b] /\ UNCHANGED <<data, valid>>
           \/ /\ ~ valid[b] /\ data' = [data EXCEPT ![b] = disk[blockno[b]]]
              /\ valid' = [valid EXCEPT ![b] = TRUE]
  BY ProcFacts DEF bread, Go, Inv, Placed
<1>2. /\ pc'[p] = "use" /\ \A q \in Proc : q # p => pc'[q] = pc[q]
      /\ valid'[b] /\ \A c \in Buf : c # b => data'[c] = data[c] /\ valid'[c] = valid[c]
      /\ valid[b] => data'[b] = data[b]
      /\ ~ valid[b] => data'[b] = disk[blockno[b]]
  BY <1>1 DEF Inv, TypeOK
<1>3. TypeOK'
  <2>1. data' \in [Buf -> Value]
    BY <1>1 DEF Inv, TypeOK
  <2>2. valid' \in [Buf -> BOOLEAN]
    BY <1>1 DEF Inv, TypeOK
  <2>3. pc' \in [Proc -> {"idle", "lock", "asleep", "read", "use", "unref"}]
    BY <1>1 DEF Inv, TypeOK
  <2> QED
    BY <1>1, <2>1, <2>2, <2>3 DEF Inv, TypeOK
<1>4. Placed'
  BY <1>1, <1>2, ProcFacts DEF Inv, Placed
<1>5. Counted' /\ OneBuffer'
  BY <1>1 DEF Inv, Counted, References, OneBuffer
<1>6. Fresh'
  BY <1>1, <1>2, ProcFacts DEF Inv, Fresh
<1>7. SleepersHaveHolder'
  BY <1>1, <1>2 DEF Inv, SleepersHaveHolder
<1>8. (Cardinality(Dirty) <= MaxDirty)'
  BY <1>1, NotMoreDirty
<1> QED
  BY <1>3, <1>4, <1>5, <1>6, <1>7, <1>8 DEF Inv

\* the user of a buffer changes what it holds, and the disk or the flag
LEMMA WriteKeeps ==
  ASSUME CacheAssumption, Inv, NEW p \in Proc, NEW v \in Value, bwrite(p, v) \/ log_write(p, v)
  PROVE  Inv'
<1>1. PICK b \in Buf :
        /\ b = buf[p] /\ pc[p] = "use" /\ lock[b] = p /\ blockno[b] \in Block /\ valid[b]
        /\ UNCHANGED <<blockno, valid, refcnt, lock, list, pc, buf>>
        /\ data' = [data EXCEPT ![b] = v]
        /\ \/ disk' = [disk EXCEPT ![blockno[b]] = v] /\ dirty' = [dirty EXCEPT ![b] = FALSE]
           \/ /\ UNCHANGED disk /\ dirty' = [dirty EXCEPT ![b] = TRUE]
              /\ Cardinality({c \in Buf : dirty'[c]}) <= MaxDirty
  BY ProcFacts DEF bwrite, log_write, Inv, Placed, Fresh
<1>2. /\ data'[b] = v /\ \A c \in Buf : c # b => data'[c] = data[c] /\ dirty'[c] = dirty[c]
      /\ dirty'[b] \/ disk'[blockno[b]] = v
      /\ \A c \in Buf : c # b /\ valid[c] => disk'[blockno[c]] = disk[blockno[c]]
  BY <1>1 DEF Inv, TypeOK, OneBuffer, Fresh
<1>3. TypeOK'
  <2>1. disk' \in [Block -> Value]
    <3>1. disk' \in {disk, [disk EXCEPT ![blockno[b]] = v]} /\ disk \in [Block -> Value]
      BY <1>1 DEF Inv, TypeOK
    <3> QED
      BY <1>1, <3>1
  <2>3. data' \in [Buf -> Value]
    BY <1>1 DEF Inv, TypeOK
  <2>2. dirty' \in [Buf -> BOOLEAN]
    BY <1>1 DEF Inv, TypeOK
  <2> QED
    BY <1>1, <2>1, <2>2, <2>3 DEF Inv, TypeOK
<1>4. Placed' /\ Counted' /\ OneBuffer' /\ SleepersHaveHolder'
  BY <1>1 DEF Inv, Placed, Counted, References, OneBuffer, SleepersHaveHolder
<1>5. Fresh'
  BY <1>1, <1>2 DEF Inv, Fresh
<1>6. (Cardinality(Dirty) <= MaxDirty)'
  <2>1. CASE dirty' = [dirty EXCEPT ![b] = FALSE]
    <3>1. \A c \in Buf : dirty'[c] => dirty[c]
      BY <2>1 DEF Inv, TypeOK
    <3> QED
      BY <3>1, NotMoreDirty
  <2>2. CASE Cardinality({c \in Buf : dirty'[c]}) <= MaxDirty
    BY <2>2 DEF Dirty
  <2> QED
    BY <1>1, <2>1, <2>2
<1> QED
  BY <1>3, <1>4, <1>5, <1>6 DEF Inv

\* the lock is released, and who sleeps on it woken
LEMMA ReleaseKeeps ==
  ASSUME CacheAssumption, Inv, NEW p \in Proc, releasesleep(p) PROVE Inv'
<1>1. PICK b \in Buf :
        /\ b = buf[p] /\ pc[p] = "use" /\ lock[b] = p
        /\ UNCHANGED <<disk, blockno, valid, dirty, refcnt, data, list, buf>>
        /\ lock' = [lock EXCEPT ![b] = None]
        /\ pc' = [Wakes(b) EXCEPT ![p] = "unref"]
  BY ProcFacts DEF releasesleep
<1>2. /\ pc'[p] = "unref"
      /\ \A q \in Proc : q # p =>
           \/ pc[q] = "asleep" /\ buf[q] = b /\ pc'[q] = "lock"
           \/ ~ (pc[q] = "asleep" /\ buf[q] = b) /\ pc'[q] = pc[q]
      /\ lock'[b] = None /\ \A c \in Buf : c # b => lock'[c] = lock[c]
  BY <1>1 DEF Wakes, Inv, TypeOK
<1>3. TypeOK'
  <2>1. Wakes(b) \in [Proc -> {"idle", "lock", "asleep", "read", "use", "unref"}]
    BY DEF Wakes, Inv, TypeOK
  <2>2. pc' \in [Proc -> {"idle", "lock", "asleep", "read", "use", "unref"}]
    BY <1>1, <2>1
  <2> QED
    BY <1>1, <2>2 DEF Inv, TypeOK
<1>4. Placed'
  BY <1>1, <1>2, ProcFacts DEF Inv, Placed
<1>5. Counted' /\ OneBuffer'
  BY <1>1 DEF Inv, Counted, References, OneBuffer
<1>6. Fresh'
  BY <1>1, <1>2 DEF Inv, Fresh
<1>7. SleepersHaveHolder'
  BY <1>1, <1>2, ProcFacts DEF Inv, SleepersHaveHolder
<1>8. (Cardinality(Dirty) <= MaxDirty)'
  BY <1>1, NotMoreDirty
<1> QED
  BY <1>3, <1>4, <1>5, <1>6, <1>7, <1>8 DEF Inv

LEMMA BrelseKeeps ==
  ASSUME CacheAssumption, Inv, NEW p \in Proc, brelse(p) PROVE Inv'
<1>1. PICK b \in Buf :
        /\ b = buf[p] /\ pc[p] = "unref"
        /\ UNCHANGED <<disk, blockno, valid, dirty, data, lock>>
        /\ refcnt' = [refcnt EXCEPT ![b] = refcnt[b] - 1]
        /\ buf' = [buf EXCEPT ![p] = None] /\ pc' = [pc EXCEPT ![p] = "idle"]
        /\ list' \in {list, MoveToFront(b)}
  BY ProcFacts DEF brelse, OneFewer, Go
<1>2. Counted' /\ refcnt' \in [Buf -> 0 .. Cardinality(Proc)]
  BY <1>1, GiveCounted
<1>3. /\ pc'[p] = "idle" /\ buf'[p] = None
      /\ \A q \in Proc : q # p => pc'[q] = pc[q] /\ buf'[q] = buf[q]
  BY <1>1 DEF Inv, TypeOK
<1>4. TypeOK'
  <2>1. list' \in [1 .. Cardinality(Buf) -> Buf] /\ IsInjective(list')
    <3>1. PICK n \in Nat : n = Cardinality(Buf)
      BY FS_CardinalityType DEF CacheAssumption
    <3>2. list \in [1 .. n -> Buf] /\ IsInjective(list)
      BY <3>1 DEF Inv, TypeOK
    <3>3. PICK M : M = MoveToFront(b)
      OBVIOUS
    <3>4. M = [i \in 1 .. n |->
                 IF i = 1 THEN b
                 ELSE IF \E j \in 1 .. i - 1 : list[j] = b THEN list[i] ELSE list[i - 1]]
      BY <3>2, <3>3 DEF MoveToFront
    <3>5. M \in [1 .. n -> Buf] /\ IsInjective(M)
      BY <3>2, <3>4, MoveFacts
    <3> QED
      BY <1>1, <3>1, <3>2, <3>3, <3>5
  <2> QED
    BY <1>1, <1>2, <2>1 DEF Inv, TypeOK
<1>5. Placed'
  BY <1>1, <1>3, ProcFacts DEF Inv, Placed
<1>6. OneBuffer' /\ Fresh' /\ SleepersHaveHolder'
  BY <1>1, <1>3, ProcFacts DEF Inv, OneBuffer, Fresh, SleepersHaveHolder
<1>7. (Cardinality(Dirty) <= MaxDirty)'
  BY <1>1, NotMoreDirty
<1> QED
  BY <1>2, <1>4, <1>5, <1>6, <1>7 DEF Inv

LEMMA Keeps == ASSUME CacheAssumption PROVE Inv /\ [Next]_vars => Inv'
<1> SUFFICES ASSUME Inv, [Next]_vars PROVE Inv'
  OBVIOUS
<1>1. CASE UNCHANGED vars
  BY <1>1 DEF vars, Inv, TypeOK, Placed, Counted, References, OneBuffer, Fresh,
              SleepersHaveHolder, Dirty
<1>2. ASSUME NEW p \in Proc, NEW n \in Block, bgetHit(p, n) \/ bgetRecycle(p, n) PROVE Inv'
  BY <1>2, HitKeeps, RecycleKeeps
<1>3. ASSUME NEW p \in Proc, acquiresleep(p) \/ Kill(p) PROVE Inv'
  BY <1>3, AcquireKeeps
<1>4. ASSUME NEW p \in Proc, bread(p) PROVE Inv'
  BY <1>4, ReadKeeps
<1>5. ASSUME NEW p \in Proc, NEW v \in Value, bwrite(p, v) \/ log_write(p, v) PROVE Inv'
  BY <1>5, WriteKeeps
<1>6. ASSUME NEW p \in Proc, releasesleep(p) PROVE Inv'
  BY <1>6, ReleaseKeeps
<1>7. ASSUME NEW p \in Proc, brelse(p) PROVE Inv'
  BY <1>7, BrelseKeeps
<1> QED
  BY <1>1, <1>2, <1>3, <1>4, <1>5, <1>6, <1>7 DEF Next

-----------------------------------------------------------------------------
(* The refinement. *)

Content(n) ==
  IF \E b \in Cached(n) : valid[b] THEN data[CHOOSE b \in Cached(n) : valid[b]] ELSE disk[n]

UsersOf(n) == {p \in Proc : pc[p] = "use" /\ blockno[buf[p]] = n}

LEMMA Stutters ==
  ASSUME \A n \in Block : Content(n)' = Content(n), \A n \in Block : UsersOf(n)' = UsersOf(n)
  PROVE  UNCHANGED Store!vars
<1>1. [n \in Block |-> Content(n)]' = [n \in Block |-> Content(n)]
  OBVIOUS
<1>2. [n \in Block |-> UsersOf(n)]' = [n \in Block |-> UsersOf(n)]
  OBVIOUS
<1> QED
  BY <1>1, <1>2 DEF Store!vars, Content, UsersOf

LEMMA Begins ==
  ASSUME NEW p \in Proc, NEW n \in Block, \A m \in Block : Content(m)' = Content(m),
         UsersOf(n) = {}, UsersOf(n)' = {p}, \A m \in Block \ {n} : UsersOf(m)' = UsersOf(m)
  PROVE  Store!Bread(p, n)
<1>1. [m \in Block |-> Content(m)]' = [m \in Block |-> Content(m)]
  OBVIOUS
<1>2. /\ [m \in Block |-> UsersOf(m)][n] = {}
      /\ [m \in Block |-> UsersOf(m)]' = [[m \in Block |-> UsersOf(m)] EXCEPT ![n] = {p}]
  OBVIOUS
<1> QED
  BY <1>1, <1>2 DEF Store!Bread, Content, UsersOf

LEMMA Changes ==
  ASSUME NEW p \in Proc, NEW n \in Block, NEW v \in Value, Content(n)' = v,
         \A m \in Block \ {n} : Content(m)' = Content(m),
         UsersOf(n) = {p}, \A m \in Block : UsersOf(m)' = UsersOf(m)
  PROVE  Store!Change(p, n)
<1>1. [m \in Block |-> Content(m)]' = [[m \in Block |-> Content(m)] EXCEPT ![n] = v]
  OBVIOUS
<1>2. /\ [m \in Block |-> UsersOf(m)][n] = {p}
      /\ [m \in Block |-> UsersOf(m)]' = [m \in Block |-> UsersOf(m)]
  OBVIOUS
<1> QED
  BY <1>1, <1>2 DEF Store!Change, Content, UsersOf

LEMMA Ends ==
  ASSUME NEW p \in Proc, NEW n \in Block, \A m \in Block : Content(m)' = Content(m),
         UsersOf(n) = {p}, UsersOf(n)' = {}, \A m \in Block \ {n} : UsersOf(m)' = UsersOf(m)
  PROVE  Store!Brelse(p, n)
<1>1. [m \in Block |-> Content(m)]' = [m \in Block |-> Content(m)]
  OBVIOUS
<1>2. /\ [m \in Block |-> UsersOf(m)][n] = {p}
      /\ [m \in Block |-> UsersOf(m)]' = [[m \in Block |-> UsersOf(m)] EXCEPT ![n] = {}]
  OBVIOUS
<1> QED
  BY <1>1, <1>2 DEF Store!Brelse, Content, UsersOf

\* the content of a block is what its buffer holds, if that is valid
Described ==
  \A n \in Block :
    /\ \A b \in Buf : blockno[b] = n /\ valid[b] => Content(n) = data[b]
    /\ (\A b \in Buf : blockno[b] = n => ~ valid[b]) => Content(n) = disk[n]

LEMMA ContentFacts == ASSUME CacheAssumption PROVE Inv => Described
<1> SUFFICES ASSUME Inv, NEW n \in Block
             PROVE  /\ \A b \in Buf : blockno[b] = n /\ valid[b] => Content(n) = data[b]
                    /\ (\A b \in Buf : blockno[b] = n => ~ valid[b]) => Content(n) = disk[n]
  BY DEF Described
<1>1. ASSUME NEW b \in Buf, blockno[b] = n, valid[b] PROVE Content(n) = data[b]
  <2>1. \A c \in Cached(n) : c = b
    BY <1>1 DEF Cached, Inv, OneBuffer, CacheAssumption, NoneAssumption
  <2>2. b \in Cached(n) /\ valid[b]
    BY <1>1 DEF Cached
  <2>3. (CHOOSE c \in Cached(n) : valid[c]) = b
    BY <2>1, <2>2
  <2> QED
    BY <2>2, <2>3 DEF Content
<1>2. ASSUME \A b \in Buf : blockno[b] = n => ~ valid[b] PROVE Content(n) = disk[n]
  BY <1>2 DEF Content, Cached
<1> QED
  BY <1>1, <1>2

\* who uses the block of a buffer holds the lock of the buffer
LEMMA UserFacts ==
  ASSUME CacheAssumption, Inv, NEW p \in Proc, NEW b \in Buf, b = buf[p], lock[b] = p
  PROVE  UsersOf(blockno[b]) = IF pc[p] = "use" THEN {p} ELSE {}
<1>1. blockno[b] \in Block
  BY ProcFacts DEF Inv, Placed
<1>2. ASSUME NEW q \in Proc, pc[q] = "use", blockno[buf[q]] = blockno[b] PROVE q = p
  <2>1. buf[q] = b
    BY <1>1, <1>2, ProcFacts DEF Inv, OneBuffer
  <2> QED
    BY <1>2, <2>1 DEF Inv, Placed
<1> QED
  BY <1>2 DEF UsersOf

LEMMA ReadRefines ==
  ASSUME CacheAssumption, Inv, Inv', NEW p \in Proc, bread(p)
  PROVE  \E n \in Block : Store!Bread(p, n)
<1>1. PICK b \in Buf, n \in Block :
        /\ b = buf[p] /\ n = blockno[b] /\ pc[p] = "read" /\ lock[b] = p
        /\ UNCHANGED <<disk, blockno, dirty, refcnt, lock, list, buf>>
        /\ pc' = [pc EXCEPT ![p] = "use"]
        /\ \/ valid[b] /\ UNCHANGED <<data, valid>>
           \/ /\ ~ valid[b] /\ data' = [data EXCEPT ![b] = disk[n]]
              /\ valid' = [valid EXCEPT ![b] = TRUE]
  BY ProcFacts DEF bread, Go, Inv, Placed
<1>2. /\ pc'[p] = "use" /\ \A q \in Proc : q # p => pc'[q] = pc[q]
      /\ valid'[b] /\ \A c \in Buf : c # b => data'[c] = data[c] /\ valid'[c] = valid[c]
      /\ valid[b] => data'[b] = data[b]
      /\ ~ valid[b] => data'[b] = disk[n]
  BY <1>1 DEF Inv, TypeOK
<1>3. Described /\ Described'
  BY ContentFacts, PTL
<1>4. ASSUME NEW m \in Block PROVE Content(m)' = Content(m)
  <2>1. CASE m = n
    <3>1. Content(n)' = data'[b]
      BY <1>1, <1>2, <1>3 DEF Described
    <3>2. \A c \in Buf : blockno[c] = n => c = b
      BY <1>1 DEF Inv, OneBuffer, CacheAssumption, NoneAssumption
    <3>3. Content(n) = IF valid[b] THEN data[b] ELSE disk[n]
      BY <1>1, <1>3, <3>2 DEF Described
    <3> QED
      BY <1>2, <2>1, <3>1, <3>3
  <2>2. CASE m # n
    <3>1. \A c \in Buf : blockno[c] = m => c # b
      BY <1>1, <2>2
    <3> QED
      BY <1>1, <1>2, <1>3, <3>1 DEF Described
  <2> QED
    BY <2>1, <2>2
<1>5. UsersOf(n) = {}
  BY <1>1, UserFacts
<1>6. UsersOf(n)' = {p} /\ \A m \in Block \ {n} : UsersOf(m)' = UsersOf(m)
  BY <1>1, <1>2, <1>5 DEF UsersOf
<1> QED
  BY <1>4, <1>5, <1>6, Begins

LEMMA WriteRefines ==
  ASSUME CacheAssumption, Inv, Inv', NEW p \in Proc, NEW v \in Value,
         bwrite(p, v) \/ log_write(p, v)
  PROVE  \E n \in Block : Store!Change(p, n)
<1>1. PICK b \in Buf, n \in Block :
        /\ b = buf[p] /\ n = blockno[b] /\ pc[p] = "use" /\ lock[b] = p /\ valid[b]
        /\ UNCHANGED <<blockno, valid, refcnt, lock, list, pc, buf>>
        /\ data' = [data EXCEPT ![b] = v] /\ disk' \in {disk, [disk EXCEPT ![n] = v]}
  BY ProcFacts DEF bwrite, log_write, Inv, Placed, Fresh
<1>2. /\ data'[b] = v /\ \A c \in Buf : c # b => data'[c] = data[c]
      /\ \A m \in Block : m # n => disk'[m] = disk[m]
  BY <1>1 DEF Inv, TypeOK
<1>3. Described /\ Described'
  BY ContentFacts, PTL
<1>4. Content(n)' = v
  BY <1>1, <1>2, <1>3 DEF Described
<1>5. ASSUME NEW m \in Block \ {n} PROVE Content(m)' = Content(m)
  <2>1. \A c \in Buf : blockno[c] = m => c # b
    BY <1>1
  <2> QED
    BY <1>1, <1>2, <1>3, <2>1 DEF Described
<1>6. UsersOf(n) = {p}
  BY <1>1, UserFacts
<1>7. \A m \in Block : UsersOf(m)' = UsersOf(m)
  BY <1>1 DEF UsersOf
<1> QED
  BY <1>4, <1>5, <1>6, <1>7, Changes

LEMMA ReleaseRefines ==
  ASSUME CacheAssumption, Inv, Inv', NEW p \in Proc, releasesleep(p)
  PROVE  \E n \in Block : Store!Brelse(p, n)
<1>1. PICK b \in Buf, n \in Block :
        /\ b = buf[p] /\ n = blockno[b] /\ pc[p] = "use" /\ lock[b] = p
        /\ UNCHANGED <<disk, blockno, valid, dirty, refcnt, data, list, buf>>
        /\ pc' = [Wakes(b) EXCEPT ![p] = "unref"]
  BY ProcFacts DEF releasesleep
<1>2. pc'[p] = "unref" /\ \A q \in Proc : q # p => pc'[q] = "use" <=> pc[q] = "use"
  BY <1>1 DEF Wakes, Inv, TypeOK
<1>3. \A m \in Block : Content(m)' = Content(m)
  BY <1>1 DEF Content, Cached
<1>4. UsersOf(n) = {p}
  BY <1>1, UserFacts
<1>5. UsersOf(n)' = {} /\ \A m \in Block \ {n} : UsersOf(m)' = UsersOf(m)
  BY <1>1, <1>2, <1>4 DEF UsersOf
<1> QED
  BY <1>3, <1>4, <1>5, Ends

LEMMA RecycleRefines ==
  ASSUME CacheAssumption, Inv, Inv', NEW p \in Proc, NEW n \in Block, bgetRecycle(p, n)
  PROVE  UNCHANGED Store!vars
<1>1. PICK b \in Buf :
        /\ pc[p] = "idle" /\ buf[p] = None /\ ~ dirty[b] /\ refcnt[b] = 0
        /\ \A q \in Proc : buf[q] # b /\ \A c \in Buf : blockno[c] # n
        /\ blockno' = [blockno EXCEPT ![b] = n]
        /\ valid' = [valid EXCEPT ![b] = FALSE] /\ dirty' = [dirty EXCEPT ![b] = FALSE]
        /\ refcnt' = [refcnt EXCEPT ![b] = refcnt[b] + 1]
        /\ buf' = [buf EXCEPT ![p] = b] /\ pc' = [pc EXCEPT ![p] = "lock"]
        /\ UNCHANGED <<disk, data, lock, list>>
  BY RecycleFacts
<1>2. /\ pc'[p] = "lock" /\ buf'[p] = b
      /\ \A q \in Proc : q # p => pc'[q] = pc[q] /\ buf'[q] = buf[q]
      /\ blockno'[b] = n /\ ~ valid'[b]
      /\ \A c \in Buf : c # b => blockno'[c] = blockno[c] /\ valid'[c] = valid[c]
  BY <1>1 DEF Inv, TypeOK
<1>3. Described /\ Described'
  BY ContentFacts, PTL
<1>4. ASSUME NEW m \in Block PROVE Content(m)' = Content(m)
  <2>1. CASE \E c \in Buf : c # b /\ blockno[c] = m /\ valid[c]
    BY <1>1, <1>2, <1>3, <2>1 DEF Described
  <2>2. CASE ~ \E c \in Buf : c # b /\ blockno[c] = m /\ valid[c]
    <3>1. Content(m)' = disk[m]
      BY <1>1, <1>2, <1>3, <2>2 DEF Described
    <3>2. CASE blockno[b] = m /\ valid[b]
      <4>1. Content(m) = data[b] /\ data[b] = disk[m]
        BY <1>1, <1>3, <3>2 DEF Described, Inv, Fresh
      <4> QED
        BY <3>1, <4>1
    <3>3. CASE ~ (blockno[b] = m /\ valid[b])
      BY <1>3, <2>2, <3>1, <3>3 DEF Described
    <3> QED
      BY <3>2, <3>3
  <2> QED
    BY <2>1, <2>2
<1>5. \A q \in Proc : pc[q] = "use" => buf[q] \in Buf /\ buf[q] # b
  BY <1>1, ProcFacts
<1>6. \A m \in Block : UsersOf(m)' = UsersOf(m)
  BY <1>1, <1>2, <1>5 DEF UsersOf
<1> QED
  BY <1>4, <1>6, Stutters

LEMMA OthersRefine ==
  ASSUME CacheAssumption, Inv, Inv', NEW p \in Proc,
         (\E n \in Block : bgetHit(p, n)) \/ acquiresleep(p) \/ Kill(p) \/ brelse(p)
  PROVE  UNCHANGED Store!vars
<1>1. UNCHANGED <<disk, blockno, valid, data>>
  BY DEF bgetHit, acquiresleep, Kill, brelse
<1>2. /\ pc[p] # "use" /\ pc'[p] # "use"
      /\ \A q \in Proc : q # p => pc'[q] = pc[q] /\ buf'[q] = buf[q]
  BY DEF bgetHit, acquiresleep, Kill, brelse, Go, Inv, TypeOK
<1>3. \A n \in Block : Content(n)' = Content(n)
  BY <1>1 DEF Content, Cached
<1>4. \A n \in Block : UsersOf(n)' = UsersOf(n)
  BY <1>1, <1>2 DEF UsersOf
<1> QED
  BY <1>3, <1>4, Stutters

LEMMA StartRefines == CacheAssumption /\ Init => Store!Init
<1> SUFFICES ASSUME Init PROVE Store!Init
  OBVIOUS
<1>1. [n \in Block |-> UsersOf(n)] = [n \in Block |-> {}]
  BY DEF UsersOf, Init
<1>2. [n \in Block |-> Content(n)] \in [Block -> Value]
  BY DEF Content, Cached, Init
<1> QED
  BY <1>1, <1>2 DEF Store!Init, Content, UsersOf

LEMMA StepRefines ==
  ASSUME CacheAssumption PROVE Inv /\ Inv' /\ [Next]_vars => [Store!Next]_(Store!vars)
<1> SUFFICES ASSUME Inv, Inv', [Next]_vars PROVE [Store!Next]_(Store!vars)
  OBVIOUS
<1>1. CASE UNCHANGED vars
  <2>1. \A n \in Block : Content(n)' = Content(n) /\ UsersOf(n)' = UsersOf(n)
    BY <1>1 DEF vars, Content, Cached, UsersOf
  <2> QED
    BY <2>1, Stutters
<1>2. ASSUME NEW p \in Proc, NEW n \in Block, bgetHit(p, n) PROVE UNCHANGED Store!vars
  BY <1>2, OthersRefine
<1>3. ASSUME NEW p \in Proc, NEW n \in Block, bgetRecycle(p, n) PROVE UNCHANGED Store!vars
  BY <1>3, RecycleRefines
<1>4. ASSUME NEW p \in Proc, acquiresleep(p) \/ Kill(p) \/ brelse(p) PROVE UNCHANGED Store!vars
  BY <1>4, OthersRefine
<1>5. ASSUME NEW p \in Proc, bread(p) PROVE Store!Next
  BY <1>5, ReadRefines DEF Store!Next
<1>6. ASSUME NEW p \in Proc, NEW v \in Value, bwrite(p, v) \/ log_write(p, v) PROVE Store!Next
  BY <1>6, WriteRefines DEF Store!Next
<1>7. ASSUME NEW p \in Proc, releasesleep(p) PROVE Store!Next
  BY <1>7, ReleaseRefines DEF Store!Next
<1> QED
  BY <1>1, <1>2, <1>3, <1>4, <1>5, <1>6, <1>7 DEF Next

\* For any number of processes, blocks and buffers, through any order of recycling,
\* waiting for locks and kills: bio.c keeps one content and one user for each block
THEOREM ImplementsStore == ASSUME CacheAssumption PROVE Spec => StoreSpec
<1>1. Init => Inv /\ Store!Init
  BY Initially, StartRefines
<1>2. Inv /\ [Next]_vars => Inv'
  BY Keeps
<1>3. Inv /\ Inv' /\ [Next]_vars => [Store!Next]_(Store!vars)
  BY StepRefines
<1> QED
  BY <1>1, <1>2, <1>3, PTL DEF Spec, StoreSpec, Store!Spec

\* With a buffer for each process and for each block of the log, bget() finds one
LEMMA BuffersSuffice ==
  ASSUME CacheAssumption, Cardinality(Proc) + MaxDirty <= Cardinality(Buf), Inv
  PROVE  BufferFound
<1> SUFFICES ASSUME NEW p \in Proc, pc[p] = "idle", \A b \in Buf : ~ Unused(b) PROVE FALSE
  BY DEF BufferFound
<1> DEFINE Busy == {q \in Proc : buf[q] # None}
           Referenced == {buf[q] : q \in Busy}
<1>1. IsFiniteSet(Busy) /\ Cardinality(Busy) + 1 <= Cardinality(Proc)
  <2>1. PICK F \in SUBSET Proc : F = Busy
    OBVIOUS
  <2>2. p \notin F
    BY <2>1, ProcFacts
  <2>3. /\ Cardinality(F \cup {p}) = Cardinality(F) + 1 /\ Cardinality(F) \in Nat
        /\ Cardinality(F \cup {p}) \in 0 .. Cardinality(Proc) /\ IsFiniteSet(F)
    BY <2>2, OneMore, FS_Subset DEF CacheAssumption
  <2> QED
    BY <2>1, <2>3
<1>2. IsFiniteSet(Referenced) /\ Cardinality(Referenced) <= Cardinality(Busy)
  <2>1. PICK f : f = [q \in Busy |-> buf[q]]
    OBVIOUS
  <2>2. f \in Surjection(Busy, Referenced)
    BY <2>1 DEF Surjection
  <2> HIDE DEF Busy, Referenced
  <2> QED
    BY <1>1, <2>2, FS_Surjection
<1>3. Buf \subseteq Referenced \cup Dirty
  <2> SUFFICES ASSUME NEW b \in Buf, ~ dirty[b] PROVE b \in Referenced
    BY DEF Dirty
  <2>1. refcnt[b] # 0
    BY DEF Unused
  <2>2. PICK F \in SUBSET Proc : F = References(b)
    BY DEF References
  <2>3. F # {}
    BY <2>1, <2>2, FS_EmptySet DEF Inv, Counted
  <2>4. PICK q \in Proc : buf[q] = b
    BY <2>2, <2>3 DEF References
  <2>5. q \in Busy
    BY <2>4, ProcFacts
  <2> QED
    BY <2>4, <2>5
<1>4. IsFiniteSet(Dirty) /\ Cardinality(Dirty) <= MaxDirty
  <2>1. Dirty \subseteq Buf
    BY DEF Dirty
  <2> QED
    BY <2>1, FS_Subset DEF CacheAssumption, Inv
<1>5. Cardinality(Buf) <= Cardinality(Referenced) + Cardinality(Dirty)
  <2> HIDE DEF Referenced
  <2>1. PICK R, D : R = Referenced /\ D = Dirty
    OBVIOUS
  <2>2. IsFiniteSet(R) /\ IsFiniteSet(D) /\ Buf \subseteq R \cup D
    BY <1>2, <1>3, <1>4, <2>1
  <2>3. /\ IsFiniteSet(R \cup D)
        /\ Cardinality(R \cup D) = Cardinality(R) + Cardinality(D) - Cardinality(R \cap D)
    BY <2>2, FS_Union
  <2>4. IsFiniteSet(R \cap D)
    BY <2>2, FS_Intersection
  <2>5. /\ Cardinality(R) \in Nat /\ Cardinality(D) \in Nat
        /\ Cardinality(R \cap D) \in Nat /\ Cardinality(R \cup D) \in Nat
    BY <2>2, <2>3, <2>4, FS_CardinalityType
  <2>6. Cardinality(Buf) <= Cardinality(R \cup D) /\ Cardinality(Buf) \in Nat
    BY <2>2, <2>3, FS_Subset, FS_CardinalityType
  <2>7. Cardinality(Buf) <= Cardinality(R) + Cardinality(D)
    BY <2>3, <2>5, <2>6
  <2> QED
    BY <2>1, <2>7
<1> HIDE DEF Busy, Referenced
<1>6. /\ Cardinality(Buf) \in Nat /\ Cardinality(Proc) \in Nat /\ Cardinality(Busy) \in Nat
      /\ Cardinality(Referenced) \in Nat /\ Cardinality(Dirty) \in Nat /\ MaxDirty \in Nat
  BY <1>1, <1>2, <1>4, FS_CardinalityType DEF CacheAssumption, DirtyAssumption
<1> QED
  BY <1>1, <1>2, <1>4, <1>5, <1>6
=============================================================================
