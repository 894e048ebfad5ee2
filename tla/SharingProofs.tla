--------------------------- MODULE SharingProofs ---------------------------
(***************************************************************************)
(* What is shared under a lock, for every value of the constants: sleep    *)
(* locks, the table of open files, the free list while the CPUs are        *)
(* started, and the counter of the lock exercise.                          *)
(***************************************************************************)
EXTENDS MCSharing, SleepLock, FiniteSetTheorems, FunctionTheorems, SequenceTheorems,
        WellFoundedInduction, TLAPS

-----------------------------------------------------------------------------
(* Sleep locks: for any number of processes, the lock is a lock, and no wakeup is   *)
(* lost.                                                                            *)

HoldsLk     == {"test", "taken", "sleep1", "free", "wake", "woken"}
HoldsPtable == {"sleep1", "sleep2"}
Holds       == {"taken", "in", "free"}

\* where a process is tells which locks it holds
LocksHeld ==
  \A p \in Proc :
    /\ lk = p <=> pc[p] \in HoldsLk
    /\ ptable = p <=> pc[p] \in HoldsPtable
    /\ pid = p <=> pc[p] \in Holds

LockedByOne == locked <=> pid # None

SleepersAsleep == \A p \in sleeping : pc[p] = "asleep"

WakeupComes == locked \/ \E q \in Proc : At(q, "wake")

\* a process on its way to sleep has seen the lock held, and holds ptable.lock: whoever
\* frees the sleep lock has not got past its wakeup()
FallingAsleep == \A p \in Proc : pc[p] \in HoldsPtable => WakeupComes

LockInv ==
  /\ TypeOK /\ LocksHeld /\ LockedByOne /\ SleepersAsleep
  /\ FallingAsleep /\ NoLostWakeup

LEMMA InitInv == Init => LockInv
BY NoneAssumption
DEF Init, LockInv, TypeOK, LocksHeld, LockedByOne, SleepersAsleep, FallingAsleep, NoLostWakeup,
    WakeupComes, HoldsLk, HoldsPtable, Holds, At

LEMMA NextType == LockInv /\ [Next]_vars => TypeOK' /\ LocksHeld' /\ LockedByOne' /\ SleepersAsleep'
<1> SUFFICES ASSUME LockInv, [Next]_vars
             PROVE  TypeOK' /\ LocksHeld' /\ LockedByOne' /\ SleepersAsleep'
  OBVIOUS
<1> USE NoneAssumption
    DEF LockInv, TypeOK, LocksHeld, LockedByOne, SleepersAsleep, HoldsLk, HoldsPtable, Holds, At, Goto
<1>1. CASE UNCHANGED vars
  BY <1>1 DEF vars
<1>2. ASSUME NEW p \in Proc, Kill(p)
      PROVE  TypeOK' /\ LocksHeld' /\ LockedByOne' /\ SleepersAsleep'
  BY <1>2 DEF Kill
<1>3. ASSUME NEW p \in Proc, Step(p)
      PROVE  TypeOK' /\ LocksHeld' /\ LockedByOne' /\ SleepersAsleep'
  <2>1. CASE Enter(p)  BY <2>1 DEF Enter, AcquireLk
  <2>2. CASE Take(p)   BY <2>2 DEF Take, IsFree
  <2>3. CASE Taken(p)  BY <2>3 DEF Taken
  <2>4. CASE Wait(p)   BY <2>4 DEF Wait, MustWait
  <2>5. CASE SleepRelease(p) BY <2>5 DEF SleepRelease
  <2>6. CASE Sleep(p)  BY <2>6 DEF Sleep
  <2>7. CASE Resume(p) BY <2>7 DEF Resume
  <2>8. CASE Again(p)  BY <2>8 DEF Again, AcquireLk
  <2>9. CASE Leave(p)  BY <2>9 DEF Leave, AcquireLk
  <2>10. CASE Free(p)  BY <2>10 DEF Free
  <2>11. CASE Wakeup(p) BY <2>11 DEF Wakeup, AfterWakeup
  <2>12. CASE Left(p)  BY <2>12 DEF Left
  <2>13. QED
    BY <1>3, <2>1, <2>2, <2>3, <2>4, <2>5, <2>6, <2>7, <2>8, <2>9, <2>10, <2>11, <2>12 DEF Step
<1>4. QED
  BY <1>1, <1>2, <1>3 DEF Next

\* Only Free() ends locked, and it is followed by Wakeup(), which needs ptable.lock.
LEMMA NextWakeup == LockInv /\ [Next]_vars => FallingAsleep' /\ NoLostWakeup'
<1> SUFFICES ASSUME LockInv, [Next]_vars
             PROVE  FallingAsleep' /\ NoLostWakeup'
  OBVIOUS
<1> USE NoneAssumption
    DEF LockInv, TypeOK, LocksHeld, LockedByOne, FallingAsleep, NoLostWakeup, WakeupComes,
        HoldsLk, HoldsPtable, Holds, At, Goto
<1>1. CASE UNCHANGED vars
  BY <1>1 DEF vars
<1>2. ASSUME NEW p \in Proc, Kill(p)
      PROVE  FallingAsleep' /\ NoLostWakeup'
  BY <1>2 DEF Kill
<1>3. ASSUME NEW p \in Proc, Step(p)
      PROVE  FallingAsleep' /\ NoLostWakeup'
  <2>1. CASE Enter(p)  BY <2>1 DEF Enter, AcquireLk
  <2>2. CASE Take(p)   BY <2>2 DEF Take, IsFree
  <2>3. CASE Taken(p)  BY <2>3 DEF Taken
  <2>4. CASE Wait(p)   BY <2>4 DEF Wait, MustWait
  <2>5. CASE SleepRelease(p) BY <2>5 DEF SleepRelease
  <2>6. CASE Sleep(p)  BY <2>6 DEF Sleep
  <2>7. CASE Resume(p) BY <2>7 DEF Resume
  <2>8. CASE Again(p)  BY <2>8 DEF Again, AcquireLk
  <2>9. CASE Leave(p)  BY <2>9 DEF Leave, AcquireLk
  <2>10. CASE Free(p)  BY <2>10 DEF Free
  <2>11. CASE Wakeup(p) BY <2>11 DEF Wakeup, AfterWakeup
  <2>12. CASE Left(p)  BY <2>12 DEF Left
  <2>13. QED
    BY <1>3, <2>1, <2>2, <2>3, <2>4, <2>5, <2>6, <2>7, <2>8, <2>9, <2>10, <2>11, <2>12 DEF Step
<1>4. QED
  BY <1>1, <1>2, <1>3 DEF Next

LEMMA Invariance == Spec => []LockInv
<1>1. LockInv /\ [Next]_vars => LockInv'
  BY NextType, NextWakeup DEF LockInv
<1>2. QED
  BY InitInv, <1>1, PTL DEF Spec

\* The fields of a sleep lock keep their types, and a process is where its calls put it.
THEOREM TypeCorrect == Spec => []TypeOK
<1>1. LockInv => TypeOK
  BY DEF LockInv
<1>2. QED
  BY Invariance, <1>1, PTL

\* No process sleeps on a free sleep lock unless the wakeup() that follows the release is
\* still to come, for any number of processes, kill() included.
THEOREM NoLostWakeupCorrect == Spec => []NoLostWakeup
<1>1. LockInv => NoLostWakeup
  BY DEF LockInv
<1>2. QED
  BY Invariance, <1>1, PTL

\* acquiresleep() and releasesleep() implement a lock, for any number of processes.
THEOREM ImplementsMutex == Spec => LockSpec
<1>1. Init => Lock!Init
  BY DEF Init, Lock!Init
<1>2. LockInv /\ [Next]_vars => [Lock!Next]_pid
  <2> SUFFICES ASSUME LockInv, [Next]_vars
               PROVE  Lock!Next \/ pid' = pid
    BY DEF Lock!Next
  <2>1. CASE UNCHANGED vars
    BY <2>1 DEF vars
  <2>2. ASSUME NEW p \in Proc, Kill(p)
        PROVE  pid' = pid
    BY <2>2 DEF Kill
  <2>3. ASSUME NEW p \in Proc, Step(p)
        PROVE  Lock!Next \/ pid' = pid
    <3>1. CASE Take(p)
      BY <3>1 DEF Take, IsFree, LockInv, LockedByOne, Lock!Next, Lock!Acquire
    <3>2. CASE Free(p)
      BY <3>2 DEF Free, LockInv, LocksHeld, Holds, At, Lock!Next, Lock!Release
    <3>3. CASE ~ Take(p) /\ ~ Free(p)
      BY <2>3, <3>3 DEF Step, Enter, Taken, Wait, MustWait, SleepRelease, Sleep, Resume, Again, Leave,
         Wakeup, Left, AcquireLk
    <3>4. QED
      BY <3>1, <3>2, <3>3
  <2>4. QED
    BY <2>1, <2>2, <2>3 DEF Next
<1>3. QED
  BY Invariance, <1>1, <1>2, PTL DEF Spec, LockSpec, Lock!Spec

-----------------------------------------------------------------------------
(* OpenFilesCorrect, for any number of processes, files, descriptors and pages.  A   *)
(* step moves files between places: from a call to a descriptor or to the files it   *)
(* has to close.                                                                     *)

\* the file at each place
HeldBy(ofiles, gots, todos) ==
  [r \in Table!Place |->
    IF r[1] = "fd" THEN ofiles[r[2]][r[3]] ELSE
    LET s == IF r[1] = "got" THEN gots[r[2]] ELSE todos[r[2]] IN
    IF r[3] \in DOMAIN s THEN s[r[3]] ELSE Nil]

Held == HeldBy(ftOfile, ftGot, ftTodo)

Count(D, h, x) == Cardinality({r \in D : h[r] = x})

Refs == \A f \in File : ftRef[f] = Count(Table!Place, Held, f)

\* what a call allocates is its own until it has a descriptor
Own(h) ==
  \A r, q \in Table!Place : r[1] = "got" /\ h[r] # Nil /\ h[q] = h[r] => q = r

Shape(p) ==
  /\ Len(ftGot[p]) = (IF ftPc[p] \in {"pipe", "open"} THEN 1 ELSE
                      IF ftPc[p] \in {"kalloc", "pipefds"} THEN 2 ELSE 0)
  /\ Len(ftTodo[p]) <= 2
  /\ ftPc[p] \notin {"close", "exit"} => Table!Idle(p)
  /\ ftPc[p] = "unused" => \A d \in Table!FD : ftOfile[p][d] = Nil
  /\ ftPc[p] # "pipefds" =>
       \A n \in DOMAIN ftGot[p] : ftObject[ftGot[p][n]] = Table!Nothing

\* what stands for an end of a pipe or for an inode: a file or who has closed it
Site == ({"file"} \X File) \cup ({"last"} \X User)

StandFor(objects, lasts) ==
  [s \in Site |-> IF s[1] = "file" THEN objects[s[2]] ELSE lasts[s[2]]]

Stands == StandFor(ftObject, ftLast)

EndsOnce(open, h) ==
  \A k \in PipePage, e \in {"r", "w"} :
    /\ e \in open[k] <=> \E s \in Site : h[s] = Table!End(k, e)
    /\ \A s, t \in Site : h[s] = Table!End(k, e) /\ h[t] = Table!End(k, e) => s = t

InodesOnce(refs, h) == refs = Count(Site, h, Table!InodeFile)

TableInv ==
  /\ Table!TypeOK /\ Refs /\ Own(Held)
  /\ \A p \in User : Shape(p)
  /\ \A f \in File : ftRef[f] = 0 => ftObject[f] = Table!Nothing
  /\ EndsOnce(ftEnds, Stands) /\ InodesOnce(ftInodes, Stands)

-----------------------------------------------------------------------------
(* Counting places *)

TableAssumption ==
  Table!ProcAssumption /\ Table!FDAssumption

LEMMA TableAssumed == TableAssumption
BY SharedAssumption DEF TableAssumption

\* an instance has the operators of the standard modules under names of its own
LEMMA TableLibrary ==
  \A S : /\ Table!IsFiniteSet(S) <=> IsFiniteSet(S)
         /\ Table!Cardinality(S) = Cardinality(S)
  BY DEF Table!IsFiniteSet, IsFiniteSet, Table!Cardinality, Cardinality

LEMMA PlacesFinite == IsFiniteSet(Table!Place)
<1>1. IsFiniteSet(User) /\ IsFiniteSet(Table!FD)
  <2>1. NOFILE \in Nat
    BY TableAssumed DEF TableAssumption, Table!FDAssumption
  <2>2. IsFiniteSet(0 .. NOFILE - 1)
    BY <2>1, FS_Interval
  <2> QED
    BY <2>2, TableAssumed, TableLibrary
    DEF TableAssumption, Table!ProcAssumption, Table!FD
<1>2. IsFiniteSet({"fd"}) /\ IsFiniteSet({"got", "todo"}) /\ IsFiniteSet({1, 2})
  <2>1. IsFiniteSet({"fd"}) /\ IsFiniteSet({"got"}) /\ IsFiniteSet({1})
    BY FS_Singleton
  <2>2. IsFiniteSet({"got"} \cup {"todo"}) /\ IsFiniteSet({1} \cup {2})
    BY <2>1, FS_AddElement
  <2>3. {"got", "todo"} = {"got"} \cup {"todo"} /\ {1, 2} = {1} \cup {2}
    OBVIOUS
  <2> QED
    BY <2>1, <2>2, <2>3
<1>3. IsFiniteSet(User \X Table!FD) /\ IsFiniteSet(User \X {1, 2})
  BY <1>1, <1>2, FS_Product
<1>4. PICK A : A = {"fd"} \X User \X Table!FD
  OBVIOUS
<1>5. PICK B : B = {"got", "todo"} \X User \X {1, 2}
  OBVIOUS
<1>6. IsFiniteSet(A)
  <2>1. IsFiniteSet({"fd"} \X (User \X Table!FD))
    BY <1>2, <1>3, FS_Product
  <2>2. PICK F : F = [x \in {"fd"} \X (User \X Table!FD) |-> <<x[1], x[2][1], x[2][2]>>]
    OBVIOUS
  <2>3. F \in Surjection({"fd"} \X (User \X Table!FD), A)
    <3>1. \A x \in {"fd"} \X (User \X Table!FD) : F[x] \in A
      BY <2>2, <1>4
    <3>2. ASSUME NEW a \in A PROVE \E x \in {"fd"} \X (User \X Table!FD) : F[x] = a
      <4>1. <<a[1], <<a[2], a[3]>>>> \in {"fd"} \X (User \X Table!FD) /\ a = <<a[1], a[2], a[3]>>
        BY <1>4
      <4> QED
        BY <4>1, <2>2
    <3> QED
      BY <3>1, <3>2, <2>2 DEF Surjection
  <2> QED
    BY <2>1, <2>3, FS_Surjection
<1>7. IsFiniteSet(B)
  <2>1. IsFiniteSet({"got", "todo"} \X (User \X {1, 2}))
    BY <1>2, <1>3, FS_Product
  <2>2. PICK F : F = [x \in {"got", "todo"} \X (User \X {1, 2}) |-> <<x[1], x[2][1], x[2][2]>>]
    OBVIOUS
  <2>3. F \in Surjection({"got", "todo"} \X (User \X {1, 2}), B)
    <3>1. \A x \in {"got", "todo"} \X (User \X {1, 2}) : F[x] \in B
      BY <2>2, <1>5
    <3>2. ASSUME NEW a \in B PROVE \E x \in {"got", "todo"} \X (User \X {1, 2}) : F[x] = a
      <4>1. <<a[1], <<a[2], a[3]>>>> \in {"got", "todo"} \X (User \X {1, 2}) /\ a = <<a[1], a[2], a[3]>>
        BY <1>5
      <4> QED
        BY <4>1, <2>2
    <3> QED
      BY <3>1, <3>2, <2>2 DEF Surjection
  <2> QED
    BY <2>1, <2>3, FS_Surjection
<1> QED
  BY <1>4, <1>5, <1>6, <1>7, FS_Union DEF Table!Place

LEMMA SitesFinite == IsFiniteSet(Site)
<1>1. IsFiniteSet(User) /\ IsFiniteSet(File)
  BY TableAssumed, TableLibrary DEF TableAssumption, Table!ProcAssumption
<1>2. IsFiniteSet({"file"}) /\ IsFiniteSet({"last"})
  BY FS_Singleton
<1>3. IsFiniteSet({"file"} \X File) /\ IsFiniteSet({"last"} \X User)
  BY <1>1, <1>2, FS_Product
<1> QED
  BY <1>3, FS_Union DEF Site

\* one place changes
SameBut(D, h, k, r) == r \in D /\ \A q \in D \ {r} : k[q] = h[q]

LEMMA PutCounts ==
  ASSUME NEW D, IsFiniteSet(D), NEW h, NEW k, NEW r, NEW x, SameBut(D, h, k, r), h[r] # x
  PROVE  /\ Count(D, h, x) \in Nat
         /\ Count(D, k, x) = Count(D, h, x) + (IF k[r] = x THEN 1 ELSE 0)
<1>1. PICK S : S = {q \in D : h[q] = x}
  OBVIOUS
<1>2. PICK U : U = {q \in D : k[q] = x}
  OBVIOUS
<1>3. IsFiniteSet(S) /\ Cardinality(S) \in Nat
  BY <1>1, FS_Subset, FS_CardinalityType
<1>4. ASSUME k[r] = x PROVE Cardinality(U) = Cardinality(S) + 1
  <2>1. r \notin S /\ U = S \cup {r}
    BY <1>1, <1>2, <1>4 DEF SameBut
  <2> QED
    BY <2>1, <1>3, FS_AddElement
<1>5. ASSUME k[r] # x PROVE U = S
  BY <1>1, <1>2, <1>5 DEF SameBut
<1>6. Count(D, h, x) = Cardinality(S) /\ Count(D, k, x) = Cardinality(U)
  BY <1>1, <1>2 DEF Count
<1>7. CASE k[r] = x
  BY <1>3, <1>4, <1>6, <1>7
<1>8. CASE k[r] # x
  BY <1>3, <1>5, <1>6, <1>8
<1> QED
  BY <1>7, <1>8

\* what is at one place moves to another one
Moved(D, h, k, a, b) ==
  /\ a \in D /\ b \in D /\ a # b
  /\ k[b] = h[a]
  /\ \A q \in D \ {a, b} : k[q] = h[q]

LEMMA MoveCounts ==
  ASSUME NEW D, IsFiniteSet(D), NEW h, NEW k, NEW a, NEW b, NEW x,
         Moved(D, h, k, a, b), k[a] # x, h[b] # x
  PROVE  Count(D, k, x) = Count(D, h, x)
<1>1. PICK m : m = [q \in D |-> IF q = a THEN k[a] ELSE h[q]]
  OBVIOUS
<1>2. /\ SameBut(D, m, h, a) /\ SameBut(D, m, k, b)
      /\ m[a] # x /\ m[b] # x /\ k[b] = h[a]
  BY <1>1 DEF Moved, SameBut
<1>3. /\ Count(D, m, x) \in Nat
      /\ Count(D, h, x) = Count(D, m, x) + (IF h[a] = x THEN 1 ELSE 0)
  BY <1>2, PutCounts
<1>4. Count(D, k, x) = Count(D, m, x) + (IF k[b] = x THEN 1 ELSE 0)
  BY <1>2, PutCounts
<1> QED
  BY <1>2, <1>3, <1>4

\* nothing changes
LEMMA SameCounts ==
  ASSUME NEW D, NEW h, NEW k, NEW x, \A q \in D : k[q] = h[q]
  PROVE  Count(D, k, x) = Count(D, h, x)
<1>1. {q \in D : k[q] = x} = {q \in D : h[q] = x}
  OBVIOUS
<1> QED
  BY <1>1 DEF Count

LEMMA SomeCounts ==
  ASSUME NEW D, IsFiniteSet(D), NEW h, NEW x
  PROVE  Count(D, h, x) \in Nat /\ (Count(D, h, x) = 0 <=> \A r \in D : h[r] # x)
<1>1. PICK S : S = {q \in D : h[q] = x}
  OBVIOUS
<1>2. IsFiniteSet(S)
  BY <1>1, FS_Subset
<1>3. Cardinality(S) \in Nat /\ (Cardinality(S) = 0 <=> S = {})
  BY <1>2, FS_CardinalityType, FS_EmptySet
<1> QED
  BY <1>1, <1>3 DEF Count

-----------------------------------------------------------------------------
(* What is at a place *)

Ofiles == [User -> [Table!FD -> File \cup {Nil}]]
Lists  == [User -> Seq(File)]
Hold   == [Table!Place -> File \cup {Nil}]

Nth(s, n) == IF n <= Len(s) THEN s[n] ELSE Nil

Holds0(h, o, g, t) ==
  /\ h \in Hold
  /\ \A p \in User, d \in Table!FD :
       <<"fd", p, d>> \in Table!Place /\ h[<<"fd", p, d>>] = o[p][d]
  /\ \A p \in User, n \in {1, 2} :
       /\ <<"got", p, n>> \in Table!Place /\ h[<<"got", p, n>>] = Nth(g[p], n)
       /\ <<"todo", p, n>> \in Table!Place /\ h[<<"todo", p, n>>] = Nth(t[p], n)

LEMMA HeldIs ==
  ASSUME NEW o \in Ofiles, NEW g \in Lists, NEW t \in Lists, NEW h, h = HeldBy(o, g, t)
  PROVE  Holds0(h, o, g, t)
<1>1. \A p \in User, d \in Table!FD :
        <<"fd", p, d>> \in Table!Place /\ h[<<"fd", p, d>>] = o[p][d]
  BY DEF Table!Place, HeldBy
<1>2. ASSUME NEW p \in User, NEW n \in {1, 2}
      PROVE  /\ <<"got", p, n>> \in Table!Place /\ h[<<"got", p, n>>] = Nth(g[p], n)
             /\ <<"todo", p, n>> \in Table!Place /\ h[<<"todo", p, n>>] = Nth(t[p], n)
             /\ Nth(g[p], n) \in File \cup {Nil} /\ Nth(t[p], n) \in File \cup {Nil}
  <2>1. <<"got", p, n>> \in Table!Place /\ <<"todo", p, n>> \in Table!Place
    BY DEF Table!Place
  <2>2. g[p] \in Seq(File) /\ t[p] \in Seq(File)
    BY DEF Lists
  <2>3. /\ n \in DOMAIN g[p] <=> n <= Len(g[p])
        /\ n \in DOMAIN t[p] <=> n <= Len(t[p])
    BY <2>2
  <2>4. Nth(g[p], n) \in File \cup {Nil} /\ Nth(t[p], n) \in File \cup {Nil}
    BY <2>2 DEF Nth
  <2> QED
    BY <2>1, <2>3, <2>4 DEF HeldBy, Nth
<1>3. ASSUME NEW r \in Table!Place PROVE h[r] \in File \cup {Nil}
  <2>1. CASE r \in {"fd"} \X User \X Table!FD
    BY <2>1, <1>1 DEF Ofiles
  <2>2. CASE r \in {"got", "todo"} \X User \X {1, 2}
    <3>1. PICK p \in User, n \in {1, 2} : r \in {<<"got", p, n>>, <<"todo", p, n>>}
      BY <2>2
    <3> QED
      BY <3>1, <1>2
  <2> QED
    BY <2>1, <2>2 DEF Table!Place
<1>4. h \in Hold
  BY <1>3 DEF Hold, HeldBy
<1> QED
  BY <1>1, <1>2, <1>4 DEF Holds0

\* the places are these
LEMMA PlacesAre ==
  \A r \in Table!Place :
    \/ \E p \in User, d \in Table!FD : r = <<"fd", p, d>>
    \/ \E p \in User, n \in {1, 2} : r \in {<<"got", p, n>>, <<"todo", p, n>>}
BY DEF Table!Place

\* a file moves from a place to one where there was none: it is still referred to once
\* for each reference, and what calls have allocated is still their own
LEMMA Moves ==
  ASSUME NEW h, NEW k, NEW a, NEW b, Moved(Table!Place, h, k, a, b),
         h[b] = Nil, k[a] = Nil, b[1] # "got"
  PROVE  /\ \A x \in File : Count(Table!Place, k, x) = Count(Table!Place, h, x)
         /\ Own(h) => Own(k)
<1>1. Nil \notin File
  BY TableAssumed DEF TableAssumption, Table!ProcAssumption
<1>2. ASSUME NEW x \in File PROVE Count(Table!Place, k, x) = Count(Table!Place, h, x)
  <2>1. k[a] # x /\ h[b] # x
    BY <1>1
  <2> QED
    BY <2>1, PlacesFinite, MoveCounts
<1>3. ASSUME Own(h), NEW r \in Table!Place, NEW q \in Table!Place, r[1] = "got",
             k[r] # Nil, k[q] = k[r]
      PROVE  q = r
  <2>1. r # a /\ r # b /\ q # a
    BY <1>3
  <2>2. k[r] = h[r]
    BY <2>1 DEF Moved
  <2>3. CASE q = b
    <3>1. h[a] = h[r] /\ a \in Table!Place
      BY <2>2, <2>3, <1>3 DEF Moved
    <3> QED
      BY <3>1, <2>1, <2>2, <1>3 DEF Own
  <2>4. CASE q # b
    <3>1. k[q] = h[q]
      BY <2>1, <2>4 DEF Moved
    <3> QED
      BY <3>1, <2>2, <1>3 DEF Own
  <2> QED
    BY <2>3, <2>4
<1> QED
  BY <1>2, <1>3 DEF Own

-----------------------------------------------------------------------------
(* The steps.  Those that set up an open file leave what stands for what alone *)

TableFacts == TableInv /\ Nil \notin File

LEMMA HeldNow == Table!TypeOK => Holds0(Held, ftOfile, ftGot, ftTodo)
<1>1. Table!TypeOK => ftOfile \in Ofiles /\ ftGot \in Lists /\ ftTodo \in Lists
  BY DEF Table!TypeOK, Ofiles, Lists
<1> QED
  BY <1>1, HeldIs DEF Held

LEMMA HeldNext == Table!TypeOK' => Holds0(Held', ftOfile', ftGot', ftTodo')
<1>1. Table!TypeOK' => ftOfile' \in Ofiles /\ ftGot' \in Lists /\ ftTodo' \in Lists
  BY DEF Table!TypeOK, Ofiles, Lists
<1> QED
  BY <1>1, HeldIs DEF Held

\* a process that has not begun a close has nothing on its list, so that what a call has
\* allocated can go there
ListsMoved(h, k, o, g, t, g2, t2, p) ==
  /\ Holds0(h, o, g, t) /\ Holds0(k, o, g2, t2)
  /\ t[p] = <<>> /\ t2[p] = g[p] /\ g2[p] = <<>>
  /\ \A c \in User : c # p => t2[c] = t[c] /\ g2[c] = g[c]

LEMMA ListsMove ==
  ASSUME NEW h, NEW k, NEW o, NEW g, NEW t, NEW g2, NEW t2, NEW p \in User,
         ListsMoved(h, k, o, g, t, g2, t2, p)
  PROVE  /\ \A x \in File : Count(Table!Place, k, x) = Count(Table!Place, h, x)
         /\ Own(h) => Own(k)
<1>1. PICK g1 : g1 = <<"got", p, 1>>
  OBVIOUS
<1>2. PICK t1 : t1 = <<"todo", p, 1>>
  OBVIOUS
<1>3. PICK m : m = [q \in Table!Place |->
                     IF q = g1 THEN Nil ELSE IF q = t1 THEN h[g1] ELSE h[q]]
  OBVIOUS
<1>4. Nth(<<>>, 1) = Nil /\ Nth(<<>>, 2) = Nil
  BY DEF Nth
<1>5. /\ g1 \in Table!Place /\ t1 \in Table!Place /\ g1 # t1 /\ t1[1] = "todo"
      /\ h[t1] = Nil /\ k[g1] = Nil /\ k[t1] = h[g1]
  BY <1>1, <1>2, <1>4 DEF ListsMoved, Holds0
<1>6. /\ Moved(Table!Place, h, m, g1, t1) /\ h[t1] = Nil /\ m[g1] = Nil
  BY <1>3, <1>5 DEF Moved
<1>7. PICK gg : gg = <<"got", p, 2>>
  OBVIOUS
<1>8. PICK tt : tt = <<"todo", p, 2>>
  OBVIOUS
<1>9. /\ gg \in Table!Place /\ tt \in Table!Place /\ gg # tt /\ tt[1] = "todo"
      /\ h[tt] = Nil /\ k[gg] = Nil /\ k[tt] = h[gg]
      /\ {gg, tt} \cap {g1, t1} = {}
  BY <1>1, <1>2, <1>4, <1>7, <1>8 DEF ListsMoved, Holds0
<1>10. ASSUME NEW q \in Table!Place, q \notin {g1, t1, gg, tt} PROVE k[q] = h[q]
  <2>1. CASE \E c \in User, d \in Table!FD : q = <<"fd", c, d>>
    BY <2>1 DEF ListsMoved, Holds0
  <2>2. CASE \E c \in User, n \in {1, 2} : q \in {<<"got", c, n>>, <<"todo", c, n>>}
    <3>1. PICK c \in User, n \in {1, 2} : q \in {<<"got", c, n>>, <<"todo", c, n>>}
      BY <2>2
    <3>2. c # p
      BY <3>1, <1>1, <1>2, <1>7, <1>8, <1>10
    <3>3. /\ k[<<"got", c, n>>] = h[<<"got", c, n>>]
          /\ k[<<"todo", c, n>>] = h[<<"todo", c, n>>]
      <4>1. t2[c] = t[c] /\ g2[c] = g[c]
        BY <3>2 DEF ListsMoved
      <4>2. h[<<"got", c, n>>] = Nth(g[c], n) /\ h[<<"todo", c, n>>] = Nth(t[c], n)
        BY DEF ListsMoved, Holds0
      <4>3. k[<<"got", c, n>>] = Nth(g2[c], n) /\ k[<<"todo", c, n>>] = Nth(t2[c], n)
        BY DEF ListsMoved, Holds0
      <4> QED
        BY <4>1, <4>2, <4>3
    <3> QED
      BY <3>1, <3>3
  <2> QED
    BY <2>1, <2>2, PlacesAre
<1>11. /\ Moved(Table!Place, m, k, gg, tt) /\ m[tt] = Nil /\ k[gg] = Nil
  BY <1>3, <1>5, <1>9, <1>10 DEF Moved
<1> QED
  BY <1>5, <1>6, <1>9, <1>11, Moves

\* a call that fails gives what it has allocated to fileclose()
GivesUp(p) ==
  /\ Table!Idle(p)
  /\ ftTodo' = [ftTodo EXCEPT ![p] = ftGot[p]] /\ ftGot' = [ftGot EXCEPT ![p] = <<>>]
  /\ ftPc' = [ftPc EXCEPT ![p] = "close"]
  /\ UNCHANGED <<ftRef, ftObject, ftOfile, ftEnds, ftInodes, ftLast>>

LEMMA GiveUp ==
  ASSUME TableInv, NEW p \in User, GivesUp(p) PROVE TableInv'
<1>1. Table!TypeOK'
  BY DEF TableInv, Table!TypeOK, GivesUp, Table!Points
<1>2. PICK h : h = Held
  OBVIOUS
<1>3. PICK k : k = Held'
  OBVIOUS
<1>4. Len(ftGot[p]) <= 2 /\ ftTodo[p] = <<>> /\ ftLast[p] = Table!Nothing
  BY DEF TableInv, Shape, GivesUp, Table!Idle
<1>5. /\ ftTodo'[p] = ftGot[p] /\ ftGot'[p] = <<>> /\ ftOfile' = ftOfile
      /\ \A c \in User : c # p => ftTodo'[c] = ftTodo[c] /\ ftGot'[c] = ftGot[c]
  BY <1>4 DEF TableInv, GivesUp, Table!TypeOK
<1>7. Table!TypeOK
  BY DEF TableInv
<1>8. Holds0(h, ftOfile, ftGot, ftTodo)
  BY <1>2, <1>7, HeldNow
<1>9. Holds0(k, ftOfile, ftGot', ftTodo')
  BY <1>1, <1>3, <1>5, HeldNext
<1>10. /\ \A x \in File : Count(Table!Place, k, x) = Count(Table!Place, h, x)
       /\ Own(h) => Own(k)
  <2>1. ListsMoved(h, k, ftOfile, ftGot, ftTodo, ftGot', ftTodo', p)
    BY <1>4, <1>5, <1>8, <1>9 DEF ListsMoved
  <2> QED
    BY <2>1, ListsMove
<1>11. Refs' /\ Own(Held')
  BY <1>2, <1>3, <1>10 DEF TableInv, Refs, GivesUp
<1>12. ASSUME NEW c \in User PROVE Shape(c)'
  <2>1. CASE c = p
    BY <2>1, <1>4, <1>5, <1>7 DEF TableInv, Shape, GivesUp, Table!TypeOK
  <2>2. CASE c # p
    BY <2>2, <1>5, <1>7 DEF TableInv, Shape, GivesUp, Table!TypeOK, Table!Idle
  <2> QED
    BY <2>1, <2>2
<1> QED
  BY <1>1, <1>11, <1>12 DEF TableInv, GivesUp, Stands

\* a step of one process changes no place of the others
StepOf(p, h, k) ==
  /\ h = Held /\ k = Held'
  /\ Holds0(h, ftOfile, ftGot, ftTodo) /\ Holds0(k, ftOfile', ftGot', ftTodo')
  /\ \A c \in User : c # p => /\ ftOfile'[c] = ftOfile[c]
                             /\ ftGot'[c] = ftGot[c] /\ ftTodo'[c] = ftTodo[c]

LEMMA Elsewhere ==
  ASSUME NEW p \in User, NEW h, NEW k, StepOf(p, h, k), NEW q \in Table!Place
  PROVE  \/ k[q] = h[q]
         \/ \E m \in {1, 2} : q \in {<<"got", p, m>>, <<"todo", p, m>>}
         \/ \E d \in Table!FD : q = <<"fd", p, d>>
<1>1. CASE \E c \in User, d \in Table!FD : q = <<"fd", c, d>>
  <2>1. PICK c \in User, d \in Table!FD : q = <<"fd", c, d>>
    BY <1>1
  <2>2. h[q] = ftOfile[c][d] /\ k[q] = ftOfile'[c][d]
    BY <2>1 DEF StepOf, Holds0
  <2> QED
    BY <2>1, <2>2 DEF StepOf
<1>2. CASE \E c \in User, n \in {1, 2} : q \in {<<"got", c, n>>, <<"todo", c, n>>}
  <2>1. PICK c \in User, n \in {1, 2} : q \in {<<"got", c, n>>, <<"todo", c, n>>}
    BY <1>2
  <2>2. CASE c # p
    <3>1. ftTodo'[c] = ftTodo[c] /\ ftGot'[c] = ftGot[c]
      BY <2>2 DEF StepOf
    <3>2. h[<<"got", c, n>>] = Nth(ftGot[c], n) /\ h[<<"todo", c, n>>] = Nth(ftTodo[c], n)
      BY DEF StepOf, Holds0
    <3>3. k[<<"got", c, n>>] = Nth(ftGot'[c], n) /\ k[<<"todo", c, n>>] = Nth(ftTodo'[c], n)
      BY DEF StepOf, Holds0
    <3> QED
      BY <2>1, <3>1, <3>2, <3>3
  <2>3. CASE c = p
    BY <2>1, <2>3
  <2> QED
    BY <2>2, <2>3
<1> QED
  BY <1>1, <1>2, PlacesAre

\* a place gets a file
LEMMA Puts ==
  ASSUME NEW h, NEW k, NEW r, SameBut(Table!Place, h, k, r), h[r] = Nil, k[r] \in File,
         \A q \in Table!Place : q[1] = "got" \/ r[1] = "got" => h[q] # k[r]
  PROVE  /\ \A x \in File : /\ Count(Table!Place, h, x) \in Nat
                            /\ Count(Table!Place, k, x) =
                                 Count(Table!Place, h, x) + (IF k[r] = x THEN 1 ELSE 0)
         /\ Own(h) => Own(k)
<1>1. Nil \notin File
  BY TableAssumed DEF TableAssumption, Table!ProcAssumption
<1>2. ASSUME NEW x \in File
      PROVE  /\ Count(Table!Place, h, x) \in Nat
             /\ Count(Table!Place, k, x) =
                  Count(Table!Place, h, x) + (IF k[r] = x THEN 1 ELSE 0)
  <2>1. h[r] # x
    BY <1>1
  <2> QED
    BY <2>1, PlacesFinite, PutCounts
<1>3. ASSUME Own(h), NEW a \in Table!Place, NEW q \in Table!Place, a[1] = "got",
             k[a] # Nil, k[q] = k[a]
      PROVE  q = a
  <2>1. CASE a = r
    <3>1. q # r => k[q] = h[q]
      BY DEF SameBut
    <3> QED
      BY <2>1, <3>1, <1>3
  <2>2. CASE a # r
    <3>1. k[a] = h[a]
      BY <2>2 DEF SameBut
    <3>2. q # r
      BY <3>1, <1>3
    <3>3. k[q] = h[q]
      BY <3>2 DEF SameBut
    <3> QED
      BY <3>1, <3>3, <1>3 DEF Own
  <2> QED
    BY <2>1, <2>2
<1> QED
  BY <1>2, <1>3 DEF Own

\* a place loses its file
LEMMA Clears ==
  ASSUME NEW h, NEW k, NEW r, SameBut(Table!Place, h, k, r), k[r] = Nil
  PROVE  /\ \A x \in File : /\ Count(Table!Place, k, x) \in Nat
                            /\ Count(Table!Place, h, x) =
                                 Count(Table!Place, k, x) + (IF h[r] = x THEN 1 ELSE 0)
         /\ Own(h) => Own(k)
<1>1. Nil \notin File
  BY TableAssumed DEF TableAssumption, Table!ProcAssumption
<1>2. ASSUME NEW x \in File
      PROVE  /\ Count(Table!Place, k, x) \in Nat
             /\ Count(Table!Place, h, x) =
                  Count(Table!Place, k, x) + (IF h[r] = x THEN 1 ELSE 0)
  <2>1. k[r] # x
    BY <1>1
  <2>2. SameBut(Table!Place, k, h, r)
    BY DEF SameBut
  <2> QED
    BY <2>1, <2>2, PlacesFinite, PutCounts
<1>3. ASSUME Own(h), NEW a \in Table!Place, NEW q \in Table!Place, a[1] = "got",
             k[a] # Nil, k[q] = k[a]
      PROVE  q = a
  <2>1. a # r /\ q # r
    BY <1>3
  <2>2. k[a] = h[a] /\ k[q] = h[q]
    BY <2>1 DEF SameBut
  <2> QED
    BY <2>2, <1>3 DEF Own
<1> QED
  BY <1>2, <1>3 DEF Own

\* filealloc() finds a file that nothing refers to
TakesFile(p, f, next) ==
  /\ \/ ftPc[p] = "user" /\ next \in {"pipe", "open"}
     \/ ftPc[p] = "pipe" /\ next = "kalloc"
  /\ ftRef[f] = 0 /\ ftRef' = [ftRef EXCEPT ![f] = 1]
  /\ ftGot' = [ftGot EXCEPT ![p] = Append(@, f)]
  /\ ftPc' = [ftPc EXCEPT ![p] = next]
  /\ UNCHANGED <<ftTodo, ftObject, ftOfile, ftEnds, ftInodes, ftLast>>

LEMMA TakeFile ==
  ASSUME TableInv, NEW p \in User, NEW f \in File, NEW next, TakesFile(p, f, next)
  PROVE  TableInv'
<1>1. Table!TypeOK /\ Shape(p) /\ ftGot[p] \in Seq(File)
  BY DEF TableInv, Table!TypeOK
<1>2. PICK n \in {1, 2} : n = Len(ftGot[p]) + 1
  BY <1>1 DEF Shape, TakesFile
<1>3. /\ ftGot'[p] = Append(ftGot[p], f) /\ ftTodo' = ftTodo /\ ftOfile' = ftOfile
      /\ ftGot' \in [User -> Seq(File)]
      /\ \A c \in User : c # p => ftGot'[c] = ftGot[c]
  BY <1>1 DEF Table!TypeOK, TakesFile
<1>4. Table!TypeOK'
  BY <1>1, <1>3 DEF Table!TypeOK, TakesFile, Table!Points
<1>5. PICK h : h = Held
  OBVIOUS
<1>6. PICK k : k = Held'
  OBVIOUS
<1>7. StepOf(p, h, k)
  BY <1>1, <1>3, <1>4, <1>5, <1>6, HeldNow, HeldNext DEF StepOf
<1>8. PICK r : r = <<"got", p, n>>
  OBVIOUS
<1>9. h[r] = Nil /\ k[r] = f /\ r \in Table!Place /\ r[1] = "got"
  <2>1. Nth(ftGot[p], n) = Nil /\ Nth(ftGot'[p], n) = f
    BY <1>1, <1>2, <1>3 DEF Nth
  <2> QED
    BY <2>1, <1>7, <1>8 DEF StepOf, Holds0
<1>10. ASSUME NEW m \in {1, 2}, m # n PROVE k[<<"got", p, m>>] = h[<<"got", p, m>>]
  <2>1. Nth(ftGot[p], m) = Nth(ftGot'[p], m)
    BY <1>1, <1>2, <1>3, <1>10 DEF Nth
  <2>2. h[<<"got", p, m>>] = Nth(ftGot[p], m)
    BY <1>7 DEF StepOf, Holds0
  <2>3. k[<<"got", p, m>>] = Nth(ftGot'[p], m)
    BY <1>7 DEF StepOf, Holds0
  <2> QED
    BY <2>1, <2>2, <2>3
<1>11. ASSUME NEW m \in {1, 2} PROVE k[<<"todo", p, m>>] = h[<<"todo", p, m>>]
  BY <1>3, <1>7 DEF StepOf, Holds0
<1>12. ASSUME NEW d \in Table!FD PROVE k[<<"fd", p, d>>] = h[<<"fd", p, d>>]
  BY <1>3, <1>7 DEF StepOf, Holds0
<1>13. SameBut(Table!Place, h, k, r)
  <2>1. ASSUME NEW q \in Table!Place, q # r PROVE k[q] = h[q]
    <3>1. \/ k[q] = h[q]
          \/ \E m \in {1, 2} : q \in {<<"got", p, m>>, <<"todo", p, m>>}
          \/ \E d \in Table!FD : q = <<"fd", p, d>>
      BY <1>7, Elsewhere
    <3>2. ASSUME NEW m \in {1, 2}, q \in {<<"got", p, m>>, <<"todo", p, m>>}
          PROVE  k[q] = h[q]
      <4>1. CASE q = <<"got", p, m>>
        BY <4>1, <2>1, <1>8, <1>10
      <4>2. CASE q = <<"todo", p, m>>
        BY <4>2, <1>11
      <4> QED
        BY <3>2, <4>1, <4>2
    <3>3. ASSUME NEW d \in Table!FD, q = <<"fd", p, d>> PROVE k[q] = h[q]
      BY <3>3, <1>12
    <3> QED
      BY <3>1, <3>2, <3>3
  <2> QED
    BY <2>1, <1>9 DEF SameBut
<1>14. \A q \in Table!Place : h[q] # f
  <2>1. Count(Table!Place, h, f) = 0
    BY <1>5 DEF TableInv, Refs, TakesFile
  <2> QED
    BY <2>1, PlacesFinite, SomeCounts
<1>15. /\ \A x \in File : /\ Count(Table!Place, h, x) \in Nat
                          /\ Count(Table!Place, k, x) =
                                 Count(Table!Place, h, x) + (IF k[r] = x THEN 1 ELSE 0)
       /\ Own(h) => Own(k)
  BY <1>9, <1>13, <1>14, Puts
<1>16. Refs' /\ Own(Held')
  <2>1. ASSUME NEW x \in File PROVE ftRef'[x] = Count(Table!Place, k, x)
    <3>1. ftRef'[x] = IF x = f THEN 1 ELSE ftRef[x]
      BY <1>1 DEF TakesFile, Table!TypeOK
    <3>2. ftRef[x] = Count(Table!Place, h, x) /\ ftRef[f] = 0
      BY <1>5 DEF TableInv, Refs, TakesFile
    <3> QED
      BY <3>1, <3>2, <1>9, <1>15
  <2> QED
    BY <2>1, <1>5, <1>6, <1>15 DEF Refs, TableInv
<1>17. ASSUME NEW c \in User PROVE Shape(c)'
  <2>1. CASE c = p
    <3>1. Len(ftGot'[p]) = Len(ftGot[p]) + 1 /\ DOMAIN ftGot'[p] = 1 .. n
      BY <1>1, <1>2, <1>3
    <3>2. ASSUME NEW m \in DOMAIN ftGot'[p]
          PROVE  ftObject'[ftGot'[p][m]] = Table!Nothing
      <4>1. CASE m = n
        BY <4>1, <1>1, <1>2, <1>3 DEF TableInv, TakesFile
      <4>2. CASE m # n
        BY <4>2, <3>1, <1>1, <1>2, <1>3 DEF Shape, TakesFile
      <4> QED
        BY <4>1, <4>2
    <3>3. ftPc'[p] = next /\ UNCHANGED <<ftTodo, ftOfile, ftLast>>
      BY <1>1 DEF TakesFile, Table!TypeOK
    <3> QED
      BY <2>1, <3>1, <3>2, <3>3, <1>1, <1>2 DEF Shape, TakesFile, Table!Idle
  <2>2. CASE c # p
    BY <2>2, <1>1, <1>3 DEF TableInv, Shape, TakesFile, Table!TypeOK, Table!Idle
  <2> QED
    BY <2>1, <2>2
<1>18. \A x \in File : ftRef'[x] = 0 => ftObject'[x] = Table!Nothing
  BY <1>1 DEF TableInv, TakesFile, Table!TypeOK
<1> QED
  BY <1>4, <1>16, <1>17, <1>18 DEF TableInv, TakesFile, Stands

\* the places of a process that a step leaves alone
AlikeBut(p, X) ==
  /\ \A d \in Table!FD : <<"fd", p, d>> \in X \/ ftOfile'[p][d] = ftOfile[p][d]
  /\ \A m \in {1, 2} : <<"got", p, m>> \in X \/ Nth(ftGot'[p], m) = Nth(ftGot[p], m)
  /\ \A m \in {1, 2} : <<"todo", p, m>> \in X \/ Nth(ftTodo'[p], m) = Nth(ftTodo[p], m)

LEMMA ElsewhereBut ==
  ASSUME NEW p \in User, NEW h, NEW k, StepOf(p, h, k), NEW X, AlikeBut(p, X)
  PROVE  \A q \in Table!Place \ X : k[q] = h[q]
<1>1. ASSUME NEW q \in Table!Place, q \notin X PROVE k[q] = h[q]
  <2>1. \/ k[q] = h[q]
        \/ \E m \in {1, 2} : q \in {<<"got", p, m>>, <<"todo", p, m>>}
        \/ \E d \in Table!FD : q = <<"fd", p, d>>
    BY Elsewhere
  <2>2. ASSUME NEW m \in {1, 2}, q \in {<<"got", p, m>>, <<"todo", p, m>>}
        PROVE  k[q] = h[q]
    <3>1. h[<<"got", p, m>>] = Nth(ftGot[p], m) /\ h[<<"todo", p, m>>] = Nth(ftTodo[p], m)
      BY DEF StepOf, Holds0
    <3>2. k[<<"got", p, m>>] = Nth(ftGot'[p], m) /\ k[<<"todo", p, m>>] = Nth(ftTodo'[p], m)
      BY DEF StepOf, Holds0
    <3>3. CASE q = <<"got", p, m>>
      BY <3>1, <3>2, <3>3, <1>1 DEF AlikeBut
    <3>4. CASE q = <<"todo", p, m>>
      BY <3>1, <3>2, <3>4, <1>1 DEF AlikeBut
    <3> QED
      BY <2>2, <3>3, <3>4
  <2>3. ASSUME NEW d \in Table!FD, q = <<"fd", p, d>> PROVE k[q] = h[q]
    <3>1. h[q] = ftOfile[p][d] /\ k[q] = ftOfile'[p][d]
      BY <2>3 DEF StepOf, Holds0
    <3> QED
      BY <3>1, <2>3, <1>1 DEF AlikeBut
  <2> QED
    BY <2>1, <2>2, <2>3
<1> QED
  BY <1>1

\* every place is counted as before
Balanced ==
  /\ \A x \in File : Count(Table!Place, Held', x) = Count(Table!Place, Held, x)
  /\ Own(Held) => Own(Held')

LEMMA BalancedKeeps ==
  ASSUME TableInv, Balanced, ftRef' = ftRef PROVE Refs' /\ Own(Held')
BY DEF TableInv, Refs, Balanced

\* close() and exit(): a file goes from a descriptor to those that are closed
ClosesFD(p, d) ==
  /\ ftOfile[p][d] # Nil /\ ftTodo[p] = <<>>
  /\ ftOfile' = [ftOfile EXCEPT ![p][d] = Nil]
  /\ ftTodo' = [ftTodo EXCEPT ![p] = <<ftOfile[p][d]>>]
  /\ ftGot' = ftGot

LEMMA CloseFD ==
  ASSUME Table!TypeOK, Table!TypeOK', NEW p \in User, NEW d \in Table!FD, ClosesFD(p, d)
  PROVE  Balanced
<1>1. PICK h : h = Held
  OBVIOUS
<1>2. PICK k : k = Held'
  OBVIOUS
<1>3. /\ ftOfile'[p][d] = Nil /\ ftTodo'[p] = <<ftOfile[p][d]>> /\ ftGot' = ftGot
      /\ \A c \in Table!FD : c # d => ftOfile'[p][c] = ftOfile[p][c]
      /\ \A c \in User : c # p => ftOfile'[c] = ftOfile[c] /\ ftTodo'[c] = ftTodo[c]
  <2>1. /\ ftOfile'[p][d] = Nil /\ ftGot' = ftGot
        /\ \A c \in Table!FD : c # d => ftOfile'[p][c] = ftOfile[p][c]
        /\ \A c \in User : c # p => ftOfile'[c] = ftOfile[c]
    BY DEF ClosesFD, Table!TypeOK
  <2>2. /\ ftTodo'[p] = <<ftOfile[p][d]>>
        /\ \A c \in User : c # p => ftTodo'[c] = ftTodo[c]
    BY Zenon DEF ClosesFD, Table!TypeOK
  <2> QED
    BY <2>1, <2>2
<1>4. StepOf(p, h, k)
  BY <1>1, <1>2, <1>3, HeldNow, HeldNext DEF StepOf
<1>5. PICK a : a = <<"fd", p, d>>
  OBVIOUS
<1>6. PICK b : b = <<"todo", p, 1>>
  OBVIOUS
<1>7. /\ Nth(ftTodo[p], 1) = Nil /\ Nth(ftTodo[p], 2) = Nil
      /\ Nth(ftTodo'[p], 1) = ftOfile[p][d] /\ Nth(ftTodo'[p], 2) = Nil
  <2>1. Nth(<<>>, 1) = Nil /\ Nth(<<>>, 2) = Nil
    BY DEF Nth
  <2>2. \A x : Nth(<<x>>, 1) = x /\ Nth(<<x>>, 2) = Nil
    BY DEF Nth
  <2> QED
    BY <1>3, <2>1, <2>2 DEF ClosesFD
<1>8. /\ a \in Table!Place /\ b \in Table!Place /\ a # b /\ b[1] = "todo"
      /\ h[a] = ftOfile[p][d] /\ k[a] = Nil /\ h[b] = Nil /\ k[b] = ftOfile[p][d]
  BY <1>3, <1>4, <1>5, <1>6, <1>7 DEF StepOf, Holds0
<1>9. AlikeBut(p, {a, b})
  BY <1>3, <1>5, <1>6, <1>7 DEF AlikeBut
<1>10. Moved(Table!Place, h, k, a, b)
  BY <1>4, <1>8, <1>9, ElsewhereBut DEF Moved
<1> QED
  BY <1>1, <1>2, <1>8, <1>10, Moves DEF Balanced

\* open(): the file gets a descriptor
InstallsFile(p, d) ==
  /\ ftOfile[p][d] = Nil /\ Len(ftGot[p]) = 1
  /\ ftOfile' = [ftOfile EXCEPT ![p][d] = ftGot[p][1]]
  /\ ftGot' = [ftGot EXCEPT ![p] = <<>>]
  /\ ftTodo' = ftTodo

LEMMA InstallFile ==
  ASSUME Table!TypeOK, Table!TypeOK', NEW p \in User, NEW d \in Table!FD, InstallsFile(p, d)
  PROVE  Balanced
<1>1. PICK h : h = Held
  OBVIOUS
<1>2. PICK k : k = Held'
  OBVIOUS
<1>3. /\ ftOfile'[p][d] = ftGot[p][1] /\ ftGot'[p] = <<>> /\ ftTodo' = ftTodo
      /\ \A c \in Table!FD : c # d => ftOfile'[p][c] = ftOfile[p][c]
      /\ \A c \in User : c # p => ftOfile'[c] = ftOfile[c] /\ ftGot'[c] = ftGot[c]
  BY DEF InstallsFile, Table!TypeOK
<1>4. StepOf(p, h, k)
  BY <1>1, <1>2, <1>3, HeldNow, HeldNext DEF StepOf
<1>5. PICK a : a = <<"got", p, 1>>
  OBVIOUS
<1>6. PICK b : b = <<"fd", p, d>>
  OBVIOUS
<1>7. /\ Nth(ftGot[p], 1) = ftGot[p][1] /\ Nth(ftGot[p], 2) = Nil
      /\ Nth(ftGot'[p], 1) = Nil /\ Nth(ftGot'[p], 2) = Nil
  BY <1>3 DEF Nth, InstallsFile
<1>8. /\ a \in Table!Place /\ b \in Table!Place /\ a # b /\ b[1] = "fd"
      /\ h[a] = ftGot[p][1] /\ k[a] = Nil /\ h[b] = Nil /\ k[b] = ftGot[p][1]
  BY <1>3, <1>4, <1>5, <1>6, <1>7 DEF StepOf, Holds0, InstallsFile
<1>9. AlikeBut(p, {a, b})
  BY <1>3, <1>5, <1>6, <1>7 DEF AlikeBut
<1>10. Moved(Table!Place, h, k, a, b)
  BY <1>4, <1>8, <1>9, ElsewhereBut DEF Moved
<1> QED
  BY <1>1, <1>2, <1>8, <1>10, Moves DEF Balanced

\* pipe(): two files get two descriptors
InstallsTwo(p, d, e) ==
  /\ ftOfile[p][d] = Nil /\ ftOfile[p][e] = Nil /\ d # e /\ Len(ftGot[p]) = 2
  /\ ftOfile'[p][d] = ftGot[p][1] /\ ftOfile'[p][e] = ftGot[p][2]
  /\ \A c \in Table!FD \ {d, e} : ftOfile'[p][c] = ftOfile[p][c]
  /\ \A c \in User : c # p => ftOfile'[c] = ftOfile[c]
  /\ ftGot' = [ftGot EXCEPT ![p] = <<>>]
  /\ ftTodo' = ftTodo

LEMMA InstallTwo ==
  ASSUME Table!TypeOK, Table!TypeOK', NEW p \in User, NEW d \in Table!FD,
         NEW e \in Table!FD, InstallsTwo(p, d, e)
  PROVE  Balanced
<1>1. PICK h : h = Held
  OBVIOUS
<1>2. PICK k : k = Held'
  OBVIOUS
<1>3. /\ ftGot'[p] = <<>> /\ ftTodo' = ftTodo
      /\ \A c \in User : c # p => ftOfile'[c] = ftOfile[c] /\ ftGot'[c] = ftGot[c]
  BY DEF InstallsTwo, Table!TypeOK
<1>4. StepOf(p, h, k)
  BY <1>1, <1>2, <1>3, HeldNow, HeldNext DEF StepOf
<1>5. PICK a : a = <<"got", p, 1>>
  OBVIOUS
<1>6. PICK b : b = <<"fd", p, d>>
  OBVIOUS
<1>7. PICK a2 : a2 = <<"got", p, 2>>
  OBVIOUS
<1>8. PICK b2 : b2 = <<"fd", p, e>>
  OBVIOUS
<1>9. /\ Nth(ftGot[p], 1) = ftGot[p][1] /\ Nth(ftGot[p], 2) = ftGot[p][2]
      /\ Nth(ftGot'[p], 1) = Nil /\ Nth(ftGot'[p], 2) = Nil
  BY <1>3 DEF Nth, InstallsTwo
<1>10. /\ a \in Table!Place /\ b \in Table!Place /\ b[1] = "fd"
       /\ h[a] = ftGot[p][1] /\ k[a] = Nil /\ h[b] = Nil /\ k[b] = ftGot[p][1]
  BY <1>4, <1>5, <1>6, <1>9 DEF StepOf, Holds0, InstallsTwo
<1>11. /\ a2 \in Table!Place /\ b2 \in Table!Place /\ b2[1] = "fd"
       /\ h[a2] = ftGot[p][2] /\ k[a2] = Nil /\ h[b2] = Nil /\ k[b2] = ftGot[p][2]
  BY <1>4, <1>7, <1>8, <1>9 DEF StepOf, Holds0, InstallsTwo
<1>12. a # b /\ a2 # b2 /\ {a, b} \cap {a2, b2} = {}
  BY <1>5, <1>6, <1>7, <1>8 DEF InstallsTwo
<1>13. AlikeBut(p, {a, b, a2, b2})
  BY <1>3, <1>5, <1>6, <1>7, <1>8 DEF AlikeBut, InstallsTwo
<1>14. \A q \in Table!Place \ {a, b, a2, b2} : k[q] = h[q]
  BY <1>4, <1>13, ElsewhereBut
<1>15. PICK m : m = [q \in Table!Place |->
                      IF q = a THEN Nil ELSE IF q = b THEN h[a] ELSE h[q]]
  OBVIOUS
<1>16. Moved(Table!Place, h, m, a, b) /\ m[a] = Nil
  BY <1>10, <1>12, <1>15 DEF Moved
<1>17. Moved(Table!Place, m, k, a2, b2) /\ m[b2] = Nil
  BY <1>10, <1>11, <1>12, <1>14, <1>15 DEF Moved
<1>18. /\ \A x \in File : Count(Table!Place, m, x) = Count(Table!Place, h, x)
       /\ Own(h) => Own(m)
  BY <1>10, <1>16, Moves
<1>19. /\ \A x \in File : Count(Table!Place, k, x) = Count(Table!Place, m, x)
       /\ Own(m) => Own(k)
  BY <1>11, <1>17, Moves
<1> QED
  BY <1>1, <1>2, <1>18, <1>19 DEF Balanced

\* dup(): a descriptor more for an open file
Dups(p, d, e) ==
  /\ ftOfile[p][d] # Nil /\ ftOfile[p][e] = Nil
  /\ ftOfile' = [ftOfile EXCEPT ![p][e] = ftOfile[p][d]]
  /\ UNCHANGED <<ftGot, ftTodo>>

LEMMA Dup ==
  ASSUME Table!TypeOK, Table!TypeOK', Own(Held), NEW p \in User, NEW d \in Table!FD,
         NEW e \in Table!FD, Dups(p, d, e)
  PROVE  /\ \A x \in File : Count(Table!Place, Held', x) =
                Count(Table!Place, Held, x) + (IF ftOfile[p][d] = x THEN 1 ELSE 0)
         /\ Own(Held')
<1>1. PICK h : h = Held
  OBVIOUS
<1>2. PICK k : k = Held'
  OBVIOUS
<1>3. /\ ftOfile'[p][e] = ftOfile[p][d] /\ ftGot' = ftGot /\ ftTodo' = ftTodo
      /\ \A c \in Table!FD : c # e => ftOfile'[p][c] = ftOfile[p][c]
      /\ \A c \in User : c # p => ftOfile'[c] = ftOfile[c]
      /\ ftOfile[p][d] \in File
  BY DEF Dups, Table!TypeOK
<1>4. StepOf(p, h, k)
  BY <1>1, <1>2, <1>3, HeldNow, HeldNext DEF StepOf
<1>5. PICK r : r = <<"fd", p, e>>
  OBVIOUS
<1>6. PICK a : a = <<"fd", p, d>>
  OBVIOUS
<1>7. /\ r \in Table!Place /\ a \in Table!Place /\ r[1] = "fd" /\ a[1] = "fd"
      /\ h[r] = Nil /\ k[r] = ftOfile[p][d] /\ h[a] = ftOfile[p][d]
  BY <1>3, <1>4, <1>5, <1>6 DEF StepOf, Holds0, Dups
<1>8. AlikeBut(p, {r})
  BY <1>3, <1>5 DEF AlikeBut
<1>9. SameBut(Table!Place, h, k, r)
  BY <1>4, <1>7, <1>8, ElsewhereBut DEF SameBut
<1>10. \A q \in Table!Place : q[1] = "got" \/ r[1] = "got" => h[q] # k[r]
  BY <1>1, <1>7 DEF Own, Dups
<1> QED
  BY <1>1, <1>2, <1>3, <1>7, <1>9, <1>10, Puts

LEMMA Least == ASSUME NEW T \in SUBSET Nat, T # {} PROVE \E x \in T : \A y \in T : x <= y
<1>1. IsWellFoundedOn({ss \in Nat \X Nat : ss[1] < ss[2]}, Nat)
  BY NatLessThanWellFounded, Zenon DEF OpToRel
<1>2. PICK R : R = {ss \in Nat \X Nat : ss[1] < ss[2]}
  OBVIOUS
<1>3. IsWellFoundedOn(R, Nat)
  BY <1>1, <1>2
<1>4. \E x \in T : \A y \in T : ~(<<y, x>> \in R)
  BY <1>3, WFMin
<1>5. \A a, b \in Nat : <<a, b>> \in R <=> a < b
  BY <1>2
<1>6. PICK x \in T : \A y \in T : ~(<<y, x>> \in R)
  BY <1>4
<1>7. ASSUME NEW y \in T PROVE x <= y
  <2>1. ~(<<y, x>> \in R)
    BY <1>6
  <2>2. ~(y < x)
    BY <2>1, <1>5
  <2> QED
    BY <2>2
<1> QED
  BY <1>7

\* the descriptor that is found is free
LEMMA FreeFDIs ==
  ASSUME NEW o, Table!FreeFD(o) # Nil
  PROVE  Table!FreeFD(o) \in Table!FD /\ o[Table!FreeFD(o)] = Nil
<1>1. PICK T : T = {d \in Table!FD : o[d] = Nil}
  OBVIOUS
<1>2. T \in SUBSET Nat /\ T # {}
  <2>1. NOFILE \in Nat
    BY TableAssumed DEF TableAssumption, Table!FDAssumption
  <2> QED
    BY <1>1, <2>1 DEF Table!FreeFD, Table!FD
<1>3. PICK x \in T : \A y \in T : x <= y
  BY <1>2, Least
<1> QED
  BY <1>1, <1>3 DEF Table!FreeFD

\* fork(): a child without descriptors gets those of its parent
Forks(p, c) ==
  /\ \A d \in Table!FD : ftOfile[c][d] = Nil
  /\ ftOfile' = [ftOfile EXCEPT ![c] = ftOfile[p]]
  /\ UNCHANGED <<ftGot, ftTodo>>

LEMMA ForkHolds ==
  ASSUME Table!TypeOK, Table!TypeOK', Own(Held), NEW p \in User, NEW c \in User, Forks(p, c)
  PROVE  /\ \A x \in File : Count(Table!Place, Held', x) =
                              Count(Table!Place, Held, x) + Table!Uses(x, p)
         /\ Own(Held')
<1>1. PICK h : h = Held
  OBVIOUS
<1>2. PICK k : k = Held'
  OBVIOUS
<1>3. /\ ftOfile'[c] = ftOfile[p] /\ ftGot' = ftGot /\ ftTodo' = ftTodo
      /\ \A u \in User : u # c => ftOfile'[u] = ftOfile[u]
  BY DEF Forks, Table!TypeOK
<1>4. StepOf(c, h, k)
  BY <1>1, <1>2, <1>3, HeldNow, HeldNext DEF StepOf
<1>5. PICK A : A = {<<"fd", c, d>> : d \in Table!FD}
  OBVIOUS
<1>6. AlikeBut(c, A)
  BY <1>3, <1>5 DEF AlikeBut
<1>7. \A q \in Table!Place \ A : k[q] = h[q]
  BY <1>4, <1>6, ElsewhereBut
<1>8. \A d \in Table!FD :
        /\ <<"fd", c, d>> \in Table!Place /\ <<"fd", p, d>> \in Table!Place
        /\ h[<<"fd", c, d>>] = Nil /\ k[<<"fd", c, d>>] = ftOfile[p][d]
        /\ h[<<"fd", p, d>>] = ftOfile[p][d]
  BY <1>3, <1>4 DEF StepOf, Holds0, Forks
<1>9. Nil \notin File
  BY TableAssumed DEF TableAssumption, Table!ProcAssumption
<1>10. ASSUME NEW x \in File
       PROVE  Count(Table!Place, k, x) = Count(Table!Place, h, x) + Table!Uses(x, p)
  <2>1. PICK S : S = {q \in Table!Place : h[q] = x}
    OBVIOUS
  <2>2. PICK U : U = {d \in Table!FD : ftOfile[p][d] = x}
    OBVIOUS
  <2>3. PICK V : V = {q \in A : k[q] = x}
    OBVIOUS
  <2>4. IsFiniteSet(S) /\ IsFiniteSet(U)
    <3>1. NOFILE \in Nat
      BY TableAssumed DEF TableAssumption, Table!FDAssumption
    <3>2. IsFiniteSet(0 .. NOFILE - 1)
      BY <3>1, FS_Interval
    <3>3. U \subseteq 0 .. NOFILE - 1
      BY <2>2 DEF Table!FD
    <3> QED
      BY <3>2, <3>3, <2>1, PlacesFinite, FS_Subset
  <2>5. {q \in Table!Place : k[q] = x} = S \cup V /\ S \cap V = {}
    <3>1. \A q \in A : q \in Table!Place /\ h[q] = Nil
      BY <1>5, <1>8
    <3>2. \A q \in Table!Place \ A : k[q] = h[q]
      BY <1>7
    <3> QED
      BY <3>1, <3>2, <1>9, <2>1, <2>3
  <2>6. PICK F : F = [d \in U |-> <<"fd", c, d>>]
    OBVIOUS
  <2>7. F \in Bijection(U, V)
    <3>1. F \in [U -> V]
      BY <1>5, <1>8, <2>2, <2>3, <2>6
    <3>2. \A d, e \in U : F[d] = F[e] => d = e
      BY <2>6
    <3>3. ASSUME NEW q \in V PROVE \E d \in U : F[d] = q
      <4>1. PICK d \in Table!FD : q = <<"fd", c, d>>
        BY <1>5, <2>3
      <4>2. d \in U /\ F[d] = q
        BY <4>1, <1>8, <2>2, <2>3, <2>6
      <4> QED
        BY <4>2
    <3> QED
      BY <3>1, <3>2, <3>3, Fun_IsBij
  <2>8. ExistsBijection(U, V)
    BY <2>7 DEF ExistsBijection
  <2>9. IsFiniteSet(V) /\ Cardinality(V) = Cardinality(U)
    BY <2>4, <2>8, FS_Bijection
  <2>10. Cardinality(S \cup V) = Cardinality(S) + Cardinality(V)
    <3>1. Cardinality(S \cup V) = Cardinality(S) + Cardinality(V) - Cardinality(S \cap V)
      BY <2>4, <2>9, FS_Union
    <3>2. Cardinality(S \cap V) = 0
      BY <2>5, FS_EmptySet
    <3>3. Cardinality(S) \in Nat /\ Cardinality(V) \in Nat
      BY <2>4, <2>9, FS_CardinalityType
    <3> QED
      BY <3>1, <3>2, <3>3
  <2>11. Table!Uses(x, p) = Cardinality(U)
    BY <2>2, TableLibrary DEF Table!Uses
  <2> QED
    BY <2>1, <2>5, <2>9, <2>10, <2>11 DEF Count
<1>11. ASSUME NEW r \in Table!Place, NEW q \in Table!Place, r[1] = "got",
              k[r] # Nil, k[q] = k[r]
       PROVE  q = r
  <2>1. r \notin A
    BY <1>5, <1>11
  <2>2. k[r] = h[r]
    BY <1>7, <2>1
  <2>3. CASE q \in A
    <3>1. PICK d \in Table!FD : q = <<"fd", c, d>>
      BY <1>5, <2>3
    <3>2. h[<<"fd", p, d>>] = h[r] /\ <<"fd", p, d>> \in Table!Place
      BY <1>8, <1>11, <2>2, <3>1
    <3>3. r = <<"fd", p, d>>
      BY <1>1, <1>11, <2>2, <3>2 DEF Own
    <3> QED
      BY <3>3, <1>11
  <2>4. CASE q \notin A
    BY <1>1, <1>7, <1>11, <2>2, <2>4 DEF Own
  <2> QED
    BY <2>3, <2>4
<1> QED
  BY <1>1, <1>2, <1>10, <1>11 DEF Own

\* fileclose(): the first of the files to close loses a reference, the second one follows
Drops(p) ==
  /\ ftTodo[p] # <<>> /\ Len(ftTodo[p]) <= 2
  /\ ftTodo' = [ftTodo EXCEPT ![p] = Tail(@)]
  /\ UNCHANGED <<ftOfile, ftGot>>

LEMMA Drop ==
  ASSUME Table!TypeOK, Table!TypeOK', NEW p \in User, Drops(p)
  PROVE  /\ \A x \in File :
              /\ Count(Table!Place, Held', x) \in Nat
              /\ Count(Table!Place, Held, x) =
                   Count(Table!Place, Held', x) + (IF Head(ftTodo[p]) = x THEN 1 ELSE 0)
         /\ Own(Held) => Own(Held')
<1>1. PICK h : h = Held
  OBVIOUS
<1>2. PICK k : k = Held'
  OBVIOUS
<1>3. /\ ftTodo'[p] = Tail(ftTodo[p]) /\ ftGot' = ftGot /\ ftOfile' = ftOfile
      /\ \A c \in User : c # p => ftTodo'[c] = ftTodo[c]
      /\ ftTodo[p] \in Seq(File)
  BY DEF Drops, Table!TypeOK
<1>4. StepOf(p, h, k)
  BY <1>1, <1>2, <1>3, HeldNow, HeldNext DEF StepOf
<1>5. PICK a : a = <<"todo", p, 1>>
  OBVIOUS
<1>6. PICK b : b = <<"todo", p, 2>>
  OBVIOUS
<1>7. /\ Nth(ftTodo[p], 1) = Head(ftTodo[p])
      /\ Nth(Tail(ftTodo[p]), 1) = Nth(ftTodo[p], 2) /\ Nth(Tail(ftTodo[p]), 2) = Nil
  <2>1. PICK s \in Seq(File) : s = ftTodo[p]
    BY <1>3
  <2>2. Len(s) \in {1, 2}
    <3>1. Len(s) # 0
      BY <2>1, EmptySeq DEF Drops
    <3>2. Len(s) \in Nat /\ Len(s) <= 2
      BY <2>1 DEF Drops
    <3>3. PICK l \in Nat : l = Len(s)
      BY <3>2
    <3>4. l # 0 /\ l <= 2
      BY <3>1, <3>2, <3>3
    <3>5. l = 1 \/ l = 2
      BY <3>4
    <3> QED
      BY <3>3, <3>5
  <2>3. Len(Tail(s)) = Len(s) - 1 /\ (Len(s) = 2 => Tail(s)[1] = s[2]) /\ Head(s) = s[1]
    <3>1. s # <<>>
      BY <2>1 DEF Drops
    <3>2. /\ Len(Tail(s)) = Len(s) - 1
          /\ \A i \in 1 .. Len(Tail(s)) : Tail(s)[i] = s[i + 1]
      BY <3>1, HeadTailProperties
    <3>3. Head(s) = s[1]
      BY <3>1
    <3> QED
      BY <2>2, <3>2, <3>3
  <2>4. Nth(s, 1) = Head(s)
    BY <2>2, <2>3 DEF Nth
  <2>5. PICK u : u = Tail(s)
    OBVIOUS
  <2>6. Nth(u, 1) = Nth(s, 2) /\ Nth(u, 2) = Nil
    <3>1. CASE Len(s) = 1
      <4>1. Len(u) = 0
        BY <3>1, <2>3, <2>5
      <4> QED
        BY <4>1, <3>1 DEF Nth
    <3>2. CASE Len(s) = 2
      <4>1. Len(u) = 1 /\ u[1] = s[2]
        BY <3>2, <2>3, <2>5
      <4> QED
        BY <4>1, <3>2 DEF Nth
    <3> QED
      BY <2>2, <3>1, <3>2
  <2> QED
    BY <2>1, <2>4, <2>5, <2>6
<1>8. /\ a \in Table!Place /\ b \in Table!Place /\ a # b /\ a[1] = "todo"
      /\ h[a] = Head(ftTodo[p]) /\ k[a] = h[b] /\ k[b] = Nil
  <2>1. /\ a \in Table!Place /\ h[a] = Nth(ftTodo[p], 1) /\ k[a] = Nth(ftTodo'[p], 1)
        /\ b \in Table!Place /\ h[b] = Nth(ftTodo[p], 2) /\ k[b] = Nth(ftTodo'[p], 2)
    BY <1>4, <1>5, <1>6 DEF StepOf, Holds0
  <2>2. a # b /\ a[1] = "todo"
    BY <1>5, <1>6
  <2> QED
    BY <1>3, <1>7, <2>1, <2>2
<1>9. AlikeBut(p, {a, b})
  BY <1>3, <1>5, <1>6 DEF AlikeBut
<1>10. \A q \in Table!Place \ {a, b} : k[q] = h[q]
  BY <1>4, <1>9, ElsewhereBut
<1>11. PICK m : m = [q \in Table!Place |-> IF q = a THEN Nil ELSE h[q]]
  OBVIOUS
<1>12. SameBut(Table!Place, h, m, a) /\ m[a] = Nil
  BY <1>8, <1>11 DEF SameBut
<1>13. Moved(Table!Place, m, k, b, a)
  BY <1>8, <1>10, <1>11 DEF Moved
<1>14. /\ \A x \in File :
            /\ Count(Table!Place, m, x) \in Nat
            /\ Count(Table!Place, h, x) =
                 Count(Table!Place, m, x) + (IF h[a] = x THEN 1 ELSE 0)
       /\ Own(h) => Own(m)
  BY <1>12, Clears
<1>15. /\ \A x \in File : Count(Table!Place, k, x) = Count(Table!Place, m, x)
       /\ Own(m) => Own(k)
  BY <1>8, <1>12, <1>13, Moves
<1> QED
  BY <1>1, <1>2, <1>8, <1>14, <1>15

\* what stands for what, by site
StandsAre(h, o, l) ==
  /\ \A f \in File : <<"file", f>> \in Site /\ h[<<"file", f>>] = o[f]
  /\ \A p \in User : <<"last", p>> \in Site /\ h[<<"last", p>>] = l[p]
  /\ \A s \in Site : \/ \E f \in File : s = <<"file", f>>
                     \/ \E p \in User : s = <<"last", p>>

LEMMA StandsOf == ASSUME NEW o, NEW l PROVE StandsAre(StandFor(o, l), o, l)
BY DEF StandsAre, StandFor, Site

LEMMA StandsNow == StandsAre(Stands, ftObject, ftLast)
BY StandsOf DEF Stands

LEMMA StandsNext == StandsAre(Stands', ftObject', ftLast')
<1>1. PICK o : o = ftObject'
  OBVIOUS
<1>2. PICK l : l = ftLast'
  OBVIOUS
<1>3. Stands' = StandFor(o, l)
  BY <1>1, <1>2 DEF Stands, StandFor
<1> QED
  BY <1>1, <1>2, <1>3, StandsOf

LEMMA ObjectsDiffer ==
  \A k \in PipePage, e \in {"r", "w"} :
    /\ Table!End(k, e) # Table!Nothing /\ Table!End(k, e) # Table!InodeFile
    /\ Table!Nothing # Table!InodeFile
    /\ Table!End(k, e) \in Table!Object
    /\ \A m \in PipePage, c \in {"r", "w"} :
         Table!End(k, e) = Table!End(m, c) => k = m /\ e = c
BY DEF Table!End, Table!Nothing, Table!InodeFile, Table!Object

LEMMA NothingIsNoInode == Table!Nothing # Table!InodeFile
BY DEF Table!Nothing, Table!InodeFile

\* the last closer takes over what the file stood for
LEMMA SiteMoves ==
  ASSUME NEW h, NEW k, NEW a, NEW b, Moved(Site, h, k, a, b),
         h[b] = Table!Nothing, k[a] = Table!Nothing
  PROVE  /\ \A open : EndsOnce(open, h) => EndsOnce(open, k)
         /\ \A n : InodesOnce(n, h) => InodesOnce(n, k)
<1>1. a \in Site /\ b \in Site /\ a # b /\ k[b] = h[a]
      /\ \A q \in Site \ {a, b} : k[q] = h[q]
  BY DEF Moved
<1>2. ASSUME NEW open, EndsOnce(open, h), NEW c \in PipePage, NEW e \in {"r", "w"}
      PROVE  /\ e \in open[c] <=> \E s \in Site : k[s] = Table!End(c, e)
             /\ \A s, t \in Site :
                  k[s] = Table!End(c, e) /\ k[t] = Table!End(c, e) => s = t
  <2>1. PICK x : x = Table!End(c, e)
    OBVIOUS
  <2>2. x # Table!Nothing
    BY <2>1, ObjectsDiffer
  <2>3. /\ e \in open[c] <=> \E s \in Site : h[s] = x
        /\ \A s, t \in Site : h[s] = x /\ h[t] = x => s = t
    BY <1>2, <2>1 DEF EndsOnce
  <2>4. (\E s \in Site : h[s] = x) <=> (\E s \in Site : k[s] = x)
    BY <1>1, <2>2
  <2>5. \A s, t \in Site : k[s] = x /\ k[t] = x => s = t
    BY <1>1, <2>2, <2>3
  <2> QED
    BY <2>1, <2>3, <2>4, <2>5
<1>3. Count(Site, k, Table!InodeFile) = Count(Site, h, Table!InodeFile)
  BY NothingIsNoInode, SitesFinite, MoveCounts
<1> QED
  BY <1>2, <1>3 DEF EndsOnce, InodesOnce

-----------------------------------------------------------------------------
\* the steps of a call that changes neither counts nor what stands for what
LEMMA Kept ==
  ASSUME TableInv, Balanced, Table!TypeOK', \A c \in User : Shape(c)',
         UNCHANGED <<ftRef, ftObject, ftLast, ftEnds, ftInodes>>
  PROVE  TableInv'
BY BalancedKeeps DEF TableInv, Stands

\* nothing but where a process is changes
LEMMA OnlyGoes ==
  ASSUME TableInv, Table!TypeOK', \A c \in User : Shape(c)',
         UNCHANGED <<ftRef, ftObject, ftLast, ftEnds, ftInodes, ftOfile, ftGot, ftTodo>>
  PROVE  TableInv'
BY DEF TableInv, Stands, Refs, Held

LEMMA SysPipeKeeps ==
  ASSUME TableInv, NEW p \in User, Table!SysPipe(p) PROVE TableInv'
<1>1. Shape(p) /\ Table!Idle(p)
  BY DEF TableInv, Shape, Table!SysPipe
<1>2. CASE Table!FreeFile = {}
  <2>1. GivesUp(p)
    BY <1>1, <1>2 DEF GivesUp, Table!SysPipe, Table!Filealloc, Table!Go
  <2> QED
    BY <2>1, GiveUp
<1>3. CASE Table!FreeFile # {}
  <2>1. PICK f \in Table!FreeFile : TakesFile(p, f, "pipe")
    BY <1>3 DEF TakesFile, Table!SysPipe, Table!Filealloc, Table!Go, Table!FreeFile
  <2> QED
    BY <2>1, TakeFile DEF Table!FreeFile
<1> QED
  BY <1>2, <1>3

LEMMA SecondFileKeeps ==
  ASSUME TableInv, NEW p \in User, Table!SecondFile(p) PROVE TableInv'
<1>1. Shape(p) /\ Table!Idle(p)
  BY DEF TableInv, Shape, Table!SecondFile
<1>2. CASE Table!FreeFile = {}
  <2>1. GivesUp(p)
    BY <1>1, <1>2 DEF GivesUp, Table!SecondFile, Table!Filealloc, Table!Go
  <2> QED
    BY <2>1, GiveUp
<1>3. CASE Table!FreeFile # {}
  <2>1. PICK f \in Table!FreeFile : TakesFile(p, f, "kalloc")
    BY <1>3 DEF TakesFile, Table!SecondFile, Table!Filealloc, Table!Go, Table!FreeFile
  <2> QED
    BY <2>1, TakeFile DEF Table!FreeFile
<1> QED
  BY <1>2, <1>3

LEMMA SysOpenKeeps ==
  ASSUME TableInv, NEW p \in User, Table!SysOpen(p) PROVE TableInv'
<1>1. Shape(p) /\ Table!Idle(p)
  BY DEF TableInv, Shape, Table!SysOpen
<1>2. CASE Table!FreeFile = {}
  <2>1. GivesUp(p)
    BY <1>1, <1>2 DEF GivesUp, Table!SysOpen, Table!Filealloc, Table!Go
  <2> QED
    BY <2>1, GiveUp
<1>3. CASE Table!FreeFile # {}
  <2>1. PICK f \in Table!FreeFile : TakesFile(p, f, "open")
    BY <1>3 DEF TakesFile, Table!SysOpen, Table!Filealloc, Table!Go, Table!FreeFile
  <2> QED
    BY <2>1, TakeFile DEF Table!FreeFile
<1> QED
  BY <1>2, <1>3

LEMMA ExitKeeps ==
  ASSUME TableInv, NEW p \in User,
         Table!Exit(p) \/ Table!Exited(p) \/ Table!ClosedAll(p)
  PROVE  TableInv'
<1>1. Table!TypeOK'
  BY DEF TableInv, Table!TypeOK, Table!Exit, Table!Exited, Table!ClosedAll, Table!Go,
         Table!Points
<1>2. ASSUME NEW c \in User PROVE Shape(c)'
  <2>1. UNCHANGED <<ftObject, ftOfile, ftGot, ftTodo, ftLast>>
        /\ \A u \in User : u # p => ftPc'[u] = ftPc[u]
    BY DEF TableInv, Table!TypeOK, Table!Exit, Table!Exited, Table!ClosedAll, Table!Go
  <2>2. Shape(c)
    BY DEF TableInv
  <2>3. CASE c # p
    BY <2>1, <2>2, <2>3 DEF Shape, Table!Idle
  <2>4. ASSUME c = p
        PROVE  \/ ftPc[p] = "user" /\ ftPc'[p] = "exit"
               \/ /\ ftPc[p] = "exit" /\ ftPc'[p] = "unused" /\ Table!Idle(p)
                  /\ \A d \in Table!FD : ftOfile[p][d] = Nil
               \/ ftPc[p] = "close" /\ ftPc'[p] = "user" /\ Table!Idle(p)
    BY DEF TableInv, Table!TypeOK, Table!Exit, Table!Exited, Table!ClosedAll, Table!Go
  <2>5. CASE c = p
    BY <2>1, <2>2, <2>4, <2>5 DEF Shape, Table!Idle
  <2> QED
    BY <2>3, <2>5
<1> QED
  BY <1>1, <1>2, OnlyGoes DEF Table!Exit, Table!Exited, Table!ClosedAll

LEMMA SysCloseKeeps ==
  ASSUME TableInv, NEW p \in User, NEW d \in Table!FD,
         Table!SysClose(p, d) \/ Table!ExitClose(p, d)
  PROVE  TableInv'
<1>1. Shape(p) /\ Table!TypeOK /\ Table!Idle(p) /\ ftOfile[p][d] \in File
  BY DEF TableInv, Shape, Table!TypeOK, Table!SysClose, Table!ExitClose
<1>2. Table!TypeOK'
  <2>1. PICK x \in Seq(File) : x = <<ftOfile[p][d]>>
    <3>1. PICK f \in File : f = ftOfile[p][d]
      BY <1>1
    <3>2. <<f>> \in Seq(File)
      OBVIOUS
    <3> QED
      BY <3>1, <3>2, Zenon
  <2>2. ftTodo' = [ftTodo EXCEPT ![p] = x]
    BY <2>1, Zenon DEF Table!SysClose, Table!ExitClose
  <2>3. ftTodo' \in [User -> Seq(File)]
    BY <1>1, <2>2 DEF Table!TypeOK
  <2>4. ftOfile' \in [User -> [Table!FD -> File \cup {Nil}]]
    <3>1. ftOfile' = [ftOfile EXCEPT ![p][d] = Nil]
      BY DEF Table!SysClose, Table!ExitClose
    <3> QED
      BY <1>1, <3>1 DEF Table!TypeOK
  <2>5. ftPc' \in [User -> Table!Points]
    BY <1>1 DEF Table!TypeOK, Table!SysClose, Table!ExitClose, Table!Go, Table!Points
  <2> QED
    BY <1>1, <2>3, <2>4, <2>5 DEF Table!TypeOK, Table!SysClose, Table!ExitClose
<1>3. ClosesFD(p, d)
  BY <1>1 DEF ClosesFD, Table!SysClose, Table!ExitClose, Table!Idle
<1>4. Balanced
  BY <1>1, <1>2, <1>3, CloseFD
<1>5. /\ UNCHANGED <<ftRef, ftObject, ftGot, ftLast, ftEnds, ftInodes>>
      /\ \A c \in User : c # p => /\ ftPc'[c] = ftPc[c] /\ ftTodo'[c] = ftTodo[c]
                                 /\ ftOfile'[c] = ftOfile[c]
      /\ ftPc'[p] \in {"close", "exit"} /\ ftPc[p] \in {"user", "exit"}
  BY <1>1 DEF Table!TypeOK, Table!SysClose, Table!ExitClose, Table!Go
<1>6. Len(ftTodo'[p]) = 1
  <2>1. ftTodo'[p] = <<ftOfile[p][d]>>
    BY <1>1, Zenon DEF Table!TypeOK, Table!SysClose, Table!ExitClose
  <2> QED
    BY <2>1
<1>7. ASSUME NEW c \in User PROVE Shape(c)'
  <2>1. Shape(c)
    BY DEF TableInv
  <2>2. CASE c = p
    BY <2>1, <2>2, <1>5, <1>6 DEF Shape
  <2>3. CASE c # p
    BY <2>1, <2>3, <1>5 DEF Shape, Table!Idle
  <2> QED
    BY <2>2, <2>3
<1> QED
  BY <1>2, <1>4, <1>5, <1>7, Kept

LEMMA DupKeeps ==
  ASSUME TableInv, NEW p \in User, NEW d \in Table!FD, Table!SysDup(p, d)
  PROVE  TableInv'
<1>1. Table!TypeOK /\ Own(Held) /\ Refs /\ ftOfile[p][d] \in File
  BY DEF TableInv, Table!TypeOK, Table!SysDup
<1>2. PICK e \in Table!FD : e = Table!FreeFD(ftOfile[p]) /\ ftOfile[p][e] = Nil
  BY FreeFDIs DEF Table!SysDup
<1>3. PICK f \in File : f = ftOfile[p][d]
  BY <1>1
<1>4. /\ ftOfile' = [ftOfile EXCEPT ![p][e] = f]
      /\ ftRef' = [ftRef EXCEPT ![f] = @ + 1]
      /\ UNCHANGED <<ftObject, ftEnds, ftInodes, ftPc, ftGot, ftTodo, ftLast>>
  BY <1>2, <1>3 DEF Table!SysDup
<1>5. Table!TypeOK'
  <2>1. ftRef' \in [File -> Nat] /\ ftOfile' \in [User -> [Table!FD -> File \cup {Nil}]]
    BY <1>1, <1>4 DEF Table!TypeOK
  <2> QED
    BY <1>1, <1>4, <2>1 DEF Table!TypeOK
<1>6. Dups(p, d, e)
  BY <1>2, <1>3, <1>4 DEF Dups, Table!SysDup
<1>7. /\ \A x \in File : Count(Table!Place, Held', x) =
                Count(Table!Place, Held, x) + (IF f = x THEN 1 ELSE 0)
      /\ Own(Held')
  BY <1>1, <1>3, <1>5, <1>6, Dup
<1>8. Refs'
  <2>1. ASSUME NEW x \in File PROVE ftRef'[x] = Count(Table!Place, Held', x)
    <3>1. ftRef'[x] = ftRef[x] + (IF f = x THEN 1 ELSE 0) /\ ftRef[x] \in Nat
      BY <1>1, <1>4 DEF Table!TypeOK
    <3>2. ftRef[x] = Count(Table!Place, Held, x)
      BY <1>1 DEF Refs
    <3> QED
      BY <3>1, <3>2, <1>7
  <2> QED
    BY <2>1 DEF Refs
<1>9. ASSUME NEW c \in User PROVE Shape(c)'
  <2>1. Shape(c)
    BY DEF TableInv
  <2>2. ftPc[p] = "user"
    BY DEF Table!SysDup
  <2>3. c # p => ftOfile'[c] = ftOfile[c]
    BY <1>1, <1>4 DEF Table!TypeOK
  <2> QED
    BY <1>4, <2>1, <2>2, <2>3 DEF Shape, Table!Idle
<1>10. \A x \in File : ftRef'[x] = 0 => ftObject'[x] = Table!Nothing
  <2>1. ASSUME NEW x \in File, ftRef'[x] = 0 PROVE ftObject'[x] = Table!Nothing
    <3>1. ftRef'[x] = ftRef[x] + (IF f = x THEN 1 ELSE 0) /\ ftRef[x] \in Nat
      BY <1>1, <1>4 DEF Table!TypeOK
    <3>2. ftRef[x] = 0
      BY <2>1, <3>1
    <3> QED
      BY <3>2, <1>4 DEF TableInv
  <2> QED
    BY <2>1
<1> QED
  BY <1>4, <1>5, <1>7, <1>8, <1>9, <1>10 DEF TableInv, Stands

LEMMA UsesNat == \A x \in File, p \in User : Table!Uses(x, p) \in Nat
<1>1. ASSUME NEW x \in File, NEW p \in User PROVE Table!Uses(x, p) \in Nat
  <2>1. NOFILE \in Nat
    BY TableAssumed DEF TableAssumption, Table!FDAssumption
  <2>2. IsFiniteSet(0 .. NOFILE - 1)
    BY <2>1, FS_Interval
  <2>3. PICK U : U = {d \in Table!FD : ftOfile[p][d] = x}
    OBVIOUS
  <2>4. U \subseteq 0 .. NOFILE - 1
    BY <2>3 DEF Table!FD
  <2>5. Cardinality(U) \in Nat
    BY <2>2, <2>4, FS_Subset, FS_CardinalityType
  <2> QED
    BY <2>3, <2>5, TableLibrary DEF Table!Uses
<1> QED
  BY <1>1

LEMMA ForkKeeps ==
  ASSUME TableInv, NEW p \in User, NEW c \in User, Table!SysFork(p, c)
  PROVE  TableInv'
<1>1. Table!TypeOK /\ Own(Held) /\ Refs /\ Shape(c)
      /\ \A d \in Table!FD : ftOfile[c][d] = Nil
  BY DEF TableInv, Shape, Table!SysFork
<1>2. /\ ftOfile' = [ftOfile EXCEPT ![c] = ftOfile[p]]
      /\ \A x \in File : ftRef'[x] = ftRef[x] + Table!Uses(x, p)
      /\ ftRef' = [x \in File |-> ftRef[x] + Table!Uses(x, p)]
      /\ ftPc' = [ftPc EXCEPT ![c] = "user"] /\ ftPc[p] = "user" /\ ftPc[c] = "unused"
      /\ UNCHANGED <<ftObject, ftEnds, ftInodes, ftGot, ftTodo, ftLast>>
  BY DEF Table!SysFork, Table!DupEach, Table!Go
<1>3. Table!TypeOK'
  <2>1. ftRef' \in [File -> Nat]
    BY <1>1, <1>2, UsesNat DEF Table!TypeOK
  <2>2. ftOfile' \in [User -> [Table!FD -> File \cup {Nil}]]
    BY <1>1, <1>2 DEF Table!TypeOK
  <2>3. ftPc' \in [User -> Table!Points]
    BY <1>1, <1>2 DEF Table!TypeOK, Table!Points
  <2> QED
    BY <1>1, <1>2, <2>1, <2>2, <2>3 DEF Table!TypeOK
<1>4. Forks(p, c)
  BY <1>1, <1>2 DEF Forks
<1>5. /\ \A x \in File : Count(Table!Place, Held', x) =
                           Count(Table!Place, Held, x) + Table!Uses(x, p)
      /\ Own(Held')
  BY <1>1, <1>3, <1>4, ForkHolds
<1>6. Refs'
  BY <1>1, <1>2, <1>5 DEF Refs
<1>7. ASSUME NEW u \in User PROVE Shape(u)'
  <2>1. Shape(u)
    BY DEF TableInv
  <2>2. u # c => ftOfile'[u] = ftOfile[u] /\ ftPc'[u] = ftPc[u]
    BY <1>1, <1>2 DEF Table!TypeOK
  <2>3. u = c => ftPc'[u] = "user" /\ ftPc[u] = "unused"
    BY <1>1, <1>2 DEF Table!TypeOK
  <2>4. CASE u = c
    BY <1>2, <2>1, <2>3, <2>4 DEF Shape, Table!Idle
  <2>5. CASE u # c
    BY <1>2, <2>1, <2>2, <2>5 DEF Shape, Table!Idle
  <2> QED
    BY <2>4, <2>5
<1>8. ASSUME NEW x \in File, ftRef'[x] = 0 PROVE ftObject'[x] = Table!Nothing
  <2>1. ftRef[x] = 0
    BY <1>1, <1>2, <1>8, UsesNat DEF Table!TypeOK
  <2> QED
    BY <2>1, <1>2 DEF TableInv
<1> QED
  BY <1>2, <1>3, <1>5, <1>6, <1>7, <1>8 DEF TableInv, Stands

\* what a call has allocated is no other's, and no file of the table is both of its own
LEMMA OwnGot ==
  ASSUME Table!TypeOK, Own(Held), NEW p \in User, NEW c \in User,
         NEW n \in DOMAIN ftGot[p], NEW m \in DOMAIN ftGot[c], n \in {1, 2}, m \in {1, 2},
         ftGot[p][n] = ftGot[c][m]
  PROVE  p = c /\ n = m
<1>1. PICK h : h = Held
  OBVIOUS
<1>2. Holds0(h, ftOfile, ftGot, ftTodo)
  BY <1>1, HeldNow
<1>3. PICK r : r = <<"got", p, n>>
  OBVIOUS
<1>4. PICK q : q = <<"got", c, m>>
  OBVIOUS
<1>5. /\ r \in Table!Place /\ h[r] = Nth(ftGot[p], n)
      /\ q \in Table!Place /\ h[q] = Nth(ftGot[c], m)
  BY <1>2, <1>3, <1>4 DEF Holds0
<1>6. /\ Nth(ftGot[p], n) = ftGot[p][n] /\ Nth(ftGot[c], m) = ftGot[c][m]
      /\ ftGot[p][n] \in File
  BY DEF Nth, Table!TypeOK
<1>7. Nil \notin File
  BY TableAssumed DEF TableAssumption, Table!ProcAssumption
<1>8. r = q
  BY <1>1, <1>3, <1>5, <1>6, <1>7 DEF Own
<1> QED
  BY <1>3, <1>4, <1>8

\* a file that a call has allocated is referred to
LEMMA GotCounted ==
  ASSUME Table!TypeOK, Refs, NEW p \in User, NEW n \in DOMAIN ftGot[p], n \in {1, 2}
  PROVE  ftGot[p][n] \in File /\ ftRef[ftGot[p][n]] # 0
<1>1. PICK h : h = Held
  OBVIOUS
<1>2. Holds0(h, ftOfile, ftGot, ftTodo)
  BY <1>1, HeldNow
<1>3. PICK r : r = <<"got", p, n>>
  OBVIOUS
<1>4. r \in Table!Place /\ h[r] = Nth(ftGot[p], n)
  BY <1>2, <1>3 DEF Holds0
<1>5. Nth(ftGot[p], n) = ftGot[p][n] /\ ftGot[p][n] \in File
  BY DEF Nth, Table!TypeOK
<1>6. PICK f \in File : f = ftGot[p][n]
  BY <1>5
<1>7. Count(Table!Place, h, f) # 0
  BY <1>4, <1>5, <1>6, PlacesFinite, SomeCounts
<1> QED
  BY <1>1, <1>6, <1>7 DEF Refs

LEMMA OpenDescriptorKeeps ==
  ASSUME TableInv, NEW p \in User, Table!OpenDescriptor(p)
  PROVE  TableInv'
<1>1. Table!TypeOK /\ Own(Held) /\ Refs /\ Shape(p) /\ Table!Idle(p) /\ Len(ftGot[p]) = 1
  BY DEF TableInv, Shape, Table!OpenDescriptor
<1>2. CASE Table!FreeFD(ftOfile[p]) = Nil
  <2>1. GivesUp(p)
    BY <1>1, <1>2 DEF GivesUp, Table!OpenDescriptor, Table!Go
  <2> QED
    BY <2>1, GiveUp
<1>3. CASE Table!FreeFD(ftOfile[p]) # Nil
  <2>1. PICK d \in Table!FD : d = Table!FreeFD(ftOfile[p]) /\ ftOfile[p][d] = Nil
    BY <1>3, FreeFDIs
  <2>2. PICK f \in File : f = ftGot[p][1]
    <3>1. ftGot[p] \in Seq(File)
      BY <1>1 DEF Table!TypeOK
    <3>2. ftGot[p][1] \in File
      BY <1>1, <3>1
    <3> QED
      BY <3>2
  <2>3. /\ ftOfile' = [ftOfile EXCEPT ![p][d] = f]
        /\ ftObject' = [ftObject EXCEPT ![f] = Table!InodeFile]
        /\ ftInodes' = ftInodes + 1
        /\ ftPc' = [ftPc EXCEPT ![p] = "user"] /\ ftPc[p] = "open"
        /\ ftGot' = [ftGot EXCEPT ![p] = <<>>]
        /\ UNCHANGED <<ftTodo, ftRef, ftEnds, ftLast>>
    BY <1>3, <2>1, <2>2 DEF Table!OpenDescriptor, Table!Go
  <2>4. Table!TypeOK'
    <3>1. ftOfile' \in [User -> [Table!FD -> File \cup {Nil}]] /\ ftInodes' \in Nat
      BY <1>1, <2>3 DEF Table!TypeOK
    <3>2. ftObject' \in [File -> Table!Object]
      BY <1>1, <2>3 DEF Table!TypeOK, Table!Object
    <3>3. ftPc' \in [User -> Table!Points] /\ ftGot' \in [User -> Seq(File)]
      BY <1>1, <2>3 DEF Table!TypeOK, Table!Points
    <3> QED
      BY <1>1, <2>3, <3>1, <3>2, <3>3 DEF Table!TypeOK
  <2>5. Balanced
    <3>1. InstallsFile(p, d)
      BY <1>1, <2>1, <2>2, <2>3 DEF InstallsFile
    <3> QED
      BY <1>1, <2>4, <3>1, InstallFile
  <2>6. Refs' /\ Own(Held')
    BY <2>3, <2>5, BalancedKeeps
  <2>7. DOMAIN ftGot[p] = {1} /\ ftObject[f] = Table!Nothing /\ ftRef[f] # 0
    <3>1. DOMAIN ftGot[p] = {1}
      BY <1>1 DEF Table!TypeOK
    <3> QED
      BY <3>1, <1>1, <2>2, <2>3, GotCounted DEF Shape
  <2>8. ASSUME NEW c \in User PROVE Shape(c)'
    <3>1. Shape(c)
      BY DEF TableInv
    <3>2. CASE c = p
      BY <1>1, <2>3, <3>1, <3>2 DEF Shape, Table!TypeOK, Table!Idle
    <3>3. CASE c # p
      <4>1. /\ ftOfile'[c] = ftOfile[c] /\ ftPc'[c] = ftPc[c] /\ ftGot'[c] = ftGot[c]
            /\ ftTodo' = ftTodo /\ ftLast' = ftLast
        BY <1>1, <2>3, <3>3 DEF Table!TypeOK
      <4>2. ASSUME NEW n \in DOMAIN ftGot[c]
            PROVE  ftObject'[ftGot[c][n]] = ftObject[ftGot[c][n]]
        <5>1. n \in {1, 2} /\ ftGot[c][n] \in File
          BY <1>1, <3>1 DEF Shape, Table!TypeOK
        <5>2. ftGot[c][n] # f
          BY <1>1, <2>2, <2>7, <3>3, <5>1, OwnGot
        <5> QED
          BY <1>1, <2>3, <5>1, <5>2 DEF Table!TypeOK
      <4> QED
        BY <3>1, <4>1, <4>2 DEF Shape, Table!Idle
    <3> QED
      BY <3>2, <3>3
  <2>9. ASSUME NEW x \in File, ftRef'[x] = 0 PROVE ftObject'[x] = Table!Nothing
    BY <1>1, <2>3, <2>7, <2>9 DEF TableInv, Table!TypeOK
  <2>10. PICK h : h = Stands
    OBVIOUS
  <2>11. PICK k : k = Stands'
    OBVIOUS
  <2>12. PICK s : s = <<"file", f>>
    OBVIOUS
  <2>13. SameBut(Site, h, k, s) /\ h[s] = Table!Nothing /\ k[s] = Table!InodeFile
    <3>1. s \in Site /\ h[s] = ftObject[f] /\ k[s] = ftObject'[f]
      BY <2>10, <2>11, <2>12, StandsNow, StandsNext DEF StandsAre
    <3>2. ASSUME NEW q \in Site, q # s PROVE k[q] = h[q]
      <4>1. CASE \E x \in File : q = <<"file", x>>
        <5>1. PICK x \in File : q = <<"file", x>>
          BY <4>1
        <5>2. h[q] = ftObject[x] /\ k[q] = ftObject'[x] /\ x # f
          BY <2>10, <2>11, <2>12, <3>2, <5>1, StandsNow, StandsNext DEF StandsAre
        <5> QED
          BY <5>2, <1>1, <2>3 DEF Table!TypeOK
      <4>2. CASE \E c \in User : q = <<"last", c>>
        BY <4>2, <2>3, <2>10, <2>11, StandsNow, StandsNext DEF StandsAre
      <4> QED
        BY <4>1, <4>2, StandsNow DEF StandsAre
    <3> QED
      BY <1>1, <2>3, <2>7, <3>1, <3>2 DEF SameBut, Table!TypeOK
  <2>14. EndsOnce(ftEnds', k)
    <3>1. ASSUME NEW n \in PipePage, NEW e \in {"r", "w"}
          PROVE  /\ e \in ftEnds[n] <=> \E t \in Site : k[t] = Table!End(n, e)
                 /\ \A t, u \in Site :
                      k[t] = Table!End(n, e) /\ k[u] = Table!End(n, e) => t = u
      <4>1. PICK x : x = Table!End(n, e)
        OBVIOUS
      <4>2. x # Table!Nothing /\ x # Table!InodeFile
        BY <4>1, ObjectsDiffer
      <4>3. \A t \in Site : k[t] = x <=> h[t] = x
        BY <2>13, <4>2 DEF SameBut
      <4>4. /\ e \in ftEnds[n] <=> \E t \in Site : h[t] = x
            /\ \A t, u \in Site : h[t] = x /\ h[u] = x => t = u
        BY <4>1, <2>10 DEF TableInv, EndsOnce
      <4> QED
        BY <4>1, <4>3, <4>4
    <3> QED
      BY <3>1, <2>3 DEF EndsOnce
  <2>15. InodesOnce(ftInodes', k)
    <3>1. Count(Site, k, Table!InodeFile) = Count(Site, h, Table!InodeFile) + 1
      BY <2>13, SitesFinite, PutCounts, NothingIsNoInode
    <3>2. ftInodes = Count(Site, h, Table!InodeFile)
      BY <2>10 DEF TableInv, InodesOnce
    <3> QED
      BY <2>3, <3>1, <3>2 DEF InodesOnce
  <2> QED
    BY <2>4, <2>6, <2>8, <2>9, <2>11, <2>14, <2>15 DEF TableInv
<1> QED
  BY <1>2, <1>3

LEMMA AlikeCounts ==
  ASSUME NEW D, NEW h, NEW k, NEW x, \A q \in D : k[q] = x <=> h[q] = x
  PROVE  Count(D, k, x) = Count(D, h, x)
<1>1. {q \in D : k[q] = x} = {q \in D : h[q] = x}
  OBVIOUS
<1> QED
  BY <1>1 DEF Count

LEMMA KallocKeeps ==
  ASSUME TableInv, NEW p \in User, Table!Kalloc(p)
  PROVE  TableInv'
<1>1. Table!TypeOK /\ Own(Held) /\ Refs /\ Shape(p) /\ Table!Idle(p) /\ Len(ftGot[p]) = 2
      /\ ftPc[p] = "kalloc"
  BY DEF TableInv, Shape, Table!Kalloc
<1>2. CASE GivesUp(p)
  BY <1>2, GiveUp
<1>3. ASSUME ~ GivesUp(p) PROVE TableInv'
  <2>1. PICK n \in PipePage :
          /\ ftEnds[n] = {}
          /\ ftEnds' = [ftEnds EXCEPT ![n] = {"r", "w"}]
          /\ ftObject' = [ftObject EXCEPT ![ftGot[p][1]] = Table!End(n, "r"),
                                          ![ftGot[p][2]] = Table!End(n, "w")]
          /\ ftPc' = [ftPc EXCEPT ![p] = "pipefds"]
          /\ UNCHANGED <<ftGot, ftTodo, ftRef, ftOfile, ftInodes, ftLast>>
    BY <1>1, <1>3 DEF GivesUp, Table!Kalloc, Table!Go
  <2>2. ftGot[p] \in Seq(File) /\ DOMAIN ftGot[p] = {1, 2}
    BY <1>1 DEF Table!TypeOK
  <2>3. PICK f \in File : f = ftGot[p][1]
    BY <2>2
  <2>4. PICK g \in File : g = ftGot[p][2]
    BY <2>2
  <2>5. f # g /\ ftRef[f] # 0 /\ ftRef[g] # 0
    <3>1. ftRef[f] # 0
      BY <1>1, <2>2, <2>3, GotCounted
    <3>2. ftRef[g] # 0
      BY <1>1, <2>2, <2>4, GotCounted
    <3>3. f # g
      BY <1>1, <2>2, <2>3, <2>4, OwnGot
    <3> QED
      BY <3>1, <3>2, <3>3
  <2>6. ftObject[f] = Table!Nothing /\ ftObject[g] = Table!Nothing
    BY <1>1, <2>2, <2>3, <2>4 DEF Shape
  <2>7. PICK x : x = Table!End(n, "r")
    OBVIOUS
  <2>8. PICK y : y = Table!End(n, "w")
    OBVIOUS
  <2>9. /\ ftObject'[f] = x /\ ftObject'[g] = y
        /\ \A u \in File : u \notin {f, g} => ftObject'[u] = ftObject[u]
        /\ ftObject' \in [File -> Table!Object]
    <3>1. x \in Table!Object /\ y \in Table!Object
      BY <2>7, <2>8, ObjectsDiffer
    <3>2. ftObject' = [ftObject EXCEPT ![f] = x, ![g] = y]
      BY <2>1, <2>3, <2>4, <2>7, <2>8
    <3>3. ftObject \in [File -> Table!Object]
      BY <1>1 DEF Table!TypeOK
    <3>4. PICK O : O = Table!Object
      OBVIOUS
    <3>5. /\ ftObject'[f] = x /\ ftObject'[g] = y
          /\ \A u \in File : u \notin {f, g} => ftObject'[u] = ftObject[u]
          /\ ftObject' \in [File -> O]
      BY <3>1, <3>2, <3>3, <3>4, <2>5
    <3> QED
      BY <3>4, <3>5
  <2>10. Table!TypeOK'
    <3>1. ftEnds' \in [PipePage -> SUBSET {"r", "w"}]
      BY <1>1, <2>1 DEF Table!TypeOK
    <3>2. ftPc' \in [User -> Table!Points]
      BY <1>1, <2>1 DEF Table!TypeOK, Table!Points
    <3> QED
      BY <1>1, <2>1, <2>9, <3>1, <3>2 DEF Table!TypeOK
  <2>11. Refs' /\ Own(Held')
    <3>1. Held' = Held /\ ftRef' = ftRef
      BY <2>1 DEF Held
    <3> QED
      BY <3>1, <1>1 DEF Refs
  <2>12. ASSUME NEW c \in User PROVE Shape(c)'
    <3>1. Shape(c)
      BY DEF TableInv
    <3>2. CASE c = p
      <4>1. ftPc'[p] = "pipefds"
        BY <1>1, <2>1 DEF Table!TypeOK
      <4> QED
        BY <3>1, <3>2, <4>1, <1>1, <2>1 DEF Shape, Table!Idle
    <3>3. CASE c # p
      <4>1. ftPc'[c] = ftPc[c]
        BY <1>1, <2>1, <3>3 DEF Table!TypeOK
      <4>2. ASSUME NEW m \in DOMAIN ftGot[c]
            PROVE  ftObject'[ftGot[c][m]] = ftObject[ftGot[c][m]]
        <5>1. m \in {1, 2} /\ ftGot[c][m] \in File
          BY <1>1, <3>1 DEF Shape, Table!TypeOK
        <5>2. ftGot[c][m] # f
          BY <1>1, <2>2, <2>3, <3>3, <5>1, OwnGot
        <5>3. ftGot[c][m] # g
          BY <1>1, <2>2, <2>4, <3>3, <5>1, OwnGot
        <5> QED
          BY <2>9, <5>1, <5>2, <5>3
      <4> QED
        BY <3>1, <4>1, <4>2, <2>1 DEF Shape, Table!Idle
    <3> QED
      BY <3>2, <3>3
  <2>13. ASSUME NEW u \in File, ftRef'[u] = 0 PROVE ftObject'[u] = Table!Nothing
    <3>1. u \notin {f, g}
      BY <2>1, <2>5, <2>13
    <3> QED
      BY <3>1, <2>1, <2>9, <2>13 DEF TableInv
  <2>14. PICK h : h = Stands
    OBVIOUS
  <2>15. PICK k : k = Stands'
    OBVIOUS
  <2>16. PICK s : s = <<"file", f>>
    OBVIOUS
  <2>17. PICK t : t = <<"file", g>>
    OBVIOUS
  <2>18. /\ s \in Site /\ t \in Site /\ s # t
         /\ h[s] = Table!Nothing /\ h[t] = Table!Nothing /\ k[s] = x /\ k[t] = y
    BY <2>5, <2>6, <2>9, <2>14, <2>15, <2>16, <2>17, StandsNow, StandsNext DEF StandsAre
  <2>19. \A q \in Site : q \notin {s, t} => k[q] = h[q]
    <3>1. ASSUME NEW q \in Site, q \notin {s, t} PROVE k[q] = h[q]
      <4>1. CASE \E u \in File : q = <<"file", u>>
        <5>1. PICK u \in File : q = <<"file", u>>
          BY <4>1
        <5>2. h[q] = ftObject[u] /\ k[q] = ftObject'[u] /\ u \notin {f, g}
          BY <2>14, <2>15, <2>16, <2>17, <3>1, <5>1, StandsNow, StandsNext DEF StandsAre
        <5> QED
          BY <5>2, <2>9
      <4>2. CASE \E c \in User : q = <<"last", c>>
        BY <4>2, <2>1, <2>14, <2>15, StandsNow, StandsNext DEF StandsAre
      <4> QED
        BY <4>1, <4>2, StandsNow DEF StandsAre
    <3> QED
      BY <3>1
  <2>20. EndsOnce(ftEnds', k)
    <3>1. ASSUME NEW m \in PipePage, NEW e \in {"r", "w"}
          PROVE  /\ e \in ftEnds'[m] <=> \E q \in Site : k[q] = Table!End(m, e)
                 /\ \A q, u \in Site :
                      k[q] = Table!End(m, e) /\ k[u] = Table!End(m, e) => q = u
      <4>1. PICK z : z = Table!End(m, e)
        OBVIOUS
      <4>2. z # Table!Nothing /\ (z = x <=> m = n /\ e = "r") /\ (z = y <=> m = n /\ e = "w")
        BY <4>1, <2>7, <2>8, ObjectsDiffer
      <4>3. /\ e \in ftEnds[m] <=> \E q \in Site : h[q] = z
            /\ \A q, u \in Site : h[q] = z /\ h[u] = z => q = u
        BY <4>1, <2>14 DEF TableInv, EndsOnce
      <4>4. CASE m # n
        <5>1. \A q \in Site : k[q] = z <=> h[q] = z
          BY <4>2, <4>4, <2>18, <2>19
        <5>2. ftEnds'[m] = ftEnds[m]
          BY <1>1, <2>1, <4>4 DEF Table!TypeOK
        <5> QED
          BY <4>1, <4>3, <5>1, <5>2
      <4>5. CASE m = n
        <5>1. \A q \in Site : h[q] # z
          BY <4>3, <4>5, <2>1
        <5>2. ftEnds'[m] = {"r", "w"}
          BY <1>1, <2>1, <4>5 DEF Table!TypeOK
        <5>3. CASE e = "r"
          <6>1. z = x /\ x # y
            BY <4>2, <4>5, <5>3
          <6>2. \A q \in Site : k[q] = z <=> q = s
            BY <6>1, <5>1, <2>18, <2>19
          <6> QED
            BY <6>2, <4>1, <5>2, <2>18
        <5>4. CASE e = "w"
          <6>1. z = y /\ x # y
            BY <4>2, <4>5, <5>4
          <6>2. \A q \in Site : k[q] = z <=> q = t
            BY <6>1, <5>1, <2>18, <2>19
          <6> QED
            BY <6>2, <4>1, <5>2, <2>18
        <5> QED
          BY <5>3, <5>4
      <4> QED
        BY <4>4, <4>5
    <3> QED
      BY <3>1 DEF EndsOnce
  <2>21. InodesOnce(ftInodes', k)
    <3>1. x # Table!InodeFile /\ y # Table!InodeFile
      BY <2>7, <2>8, ObjectsDiffer
    <3>2. \A q \in Site : k[q] = Table!InodeFile <=> h[q] = Table!InodeFile
      BY <3>1, <2>18, <2>19, NothingIsNoInode
    <3>3. Count(Site, k, Table!InodeFile) = Count(Site, h, Table!InodeFile)
      BY <3>2, AlikeCounts
    <3> QED
      BY <3>3, <2>1, <2>14 DEF TableInv, InodesOnce
  <2> QED
    BY <2>10, <2>11, <2>12, <2>13, <2>15, <2>20, <2>21 DEF TableInv
<1> QED
  BY <1>2, <1>3

LEMMA PipeDescriptorsKeep ==
  ASSUME TableInv, NEW p \in User, Table!PipeDescriptors(p)
  PROVE  TableInv'
<1>1. Table!TypeOK /\ Shape(p) /\ Table!Idle(p) /\ Len(ftGot[p]) = 2
      /\ ftPc[p] = "pipefds"
  BY DEF TableInv, Shape, Table!PipeDescriptors
<1>2. ftGot[p] \in Seq(File) /\ ftOfile[p] \in [Table!FD -> File \cup {Nil}]
      /\ ftGot[p][1] \in File /\ ftGot[p][2] \in File
  <2>1. ftGot[p] \in Seq(File) /\ ftOfile[p] \in [Table!FD -> File \cup {Nil}]
    BY <1>1 DEF Table!TypeOK
  <2> QED
    BY <1>1, <2>1
<1>3. PICK o : o = ftOfile[p]
  OBVIOUS
<1>4. PICK d : d = Table!FreeFD(o)
  OBVIOUS
<1>5. PICK o1 : o1 = IF d = Nil THEN o ELSE [o EXCEPT ![d] = ftGot[p][1]]
  OBVIOUS
<1>6. PICK e : e = Table!FreeFD(o1)
  OBVIOUS
<1>7. Nil \notin File
  BY TableAssumed DEF TableAssumption, Table!ProcAssumption
<1>8. d # Nil => d \in Table!FD /\ o[d] = Nil
  BY <1>4, FreeFDIs
<1>9. CASE e # Nil
  <2>1. e \in Table!FD /\ o1[e] = Nil
    BY <1>6, <1>9, FreeFDIs
  <2>2. d # Nil
    BY <1>4, <1>5, <1>6, <1>9
  <2>3. d # e /\ o[e] = Nil
    BY <1>2, <1>3, <1>5, <1>7, <1>8, <2>1, <2>2
  <2>4. /\ ftOfile' = [ftOfile EXCEPT ![p] = [o1 EXCEPT ![e] = ftGot[p][2]]]
        /\ ftPc' = [ftPc EXCEPT ![p] = "user"]
        /\ ftGot' = [ftGot EXCEPT ![p] = <<>>]
        /\ UNCHANGED <<ftTodo, ftRef, ftObject, ftEnds, ftInodes, ftLast>>
    BY <1>3, <1>4, <1>5, <1>6, <1>9 DEF Table!PipeDescriptors, Table!Go
  <2>5. /\ ftOfile'[p][d] = ftGot[p][1] /\ ftOfile'[p][e] = ftGot[p][2]
        /\ \A c \in Table!FD \ {d, e} : ftOfile'[p][c] = ftOfile[p][c]
        /\ \A c \in User : c # p => ftOfile'[c] = ftOfile[c]
        /\ ftOfile' \in [User -> [Table!FD -> File \cup {Nil}]]
    <3>1. o1 = [o EXCEPT ![d] = ftGot[p][1]] /\ o1 \in [Table!FD -> File \cup {Nil}]
      BY <1>2, <1>3, <1>5, <2>2
    <3>2. PICK o2 : o2 = [o1 EXCEPT ![e] = ftGot[p][2]]
      OBVIOUS
    <3>3. /\ o2 \in [Table!FD -> File \cup {Nil}]
          /\ o2[d] = ftGot[p][1] /\ o2[e] = ftGot[p][2]
          /\ \A c \in Table!FD \ {d, e} : o2[c] = o[c]
      BY <1>2, <1>3, <1>8, <2>1, <2>2, <2>3, <3>1, <3>2
    <3>4. ftOfile' = [ftOfile EXCEPT ![p] = o2]
      BY <2>4, <3>2
    <3> QED
      BY <1>1, <1>3, <3>3, <3>4 DEF Table!TypeOK
  <2>6. Table!TypeOK'
    <3>1. ftPc' \in [User -> Table!Points] /\ ftGot' \in [User -> Seq(File)]
      BY <1>1, <2>4 DEF Table!TypeOK, Table!Points
    <3> QED
      BY <1>1, <2>4, <2>5, <3>1 DEF Table!TypeOK
  <2>7. InstallsTwo(p, d, e)
    BY <1>1, <1>3, <1>8, <2>2, <2>3, <2>4, <2>5 DEF InstallsTwo
  <2>8. Balanced
    BY <1>1, <1>8, <2>1, <2>2, <2>6, <2>7, InstallTwo
  <2>9. ASSUME NEW c \in User PROVE Shape(c)'
    <3>1. Shape(c)
      BY DEF TableInv
    <3>2. CASE c = p
      <4>1. ftPc'[p] = "user" /\ ftGot'[p] = <<>>
        BY <1>1, <2>4 DEF Table!TypeOK
      <4> QED
        BY <3>1, <3>2, <4>1, <1>1, <2>4 DEF Shape, Table!Idle
    <3>3. CASE c # p
      <4>1. ftPc'[c] = ftPc[c] /\ ftGot'[c] = ftGot[c] /\ ftOfile'[c] = ftOfile[c]
        BY <1>1, <2>4, <2>5, <3>3 DEF Table!TypeOK
      <4> QED
        BY <3>1, <4>1, <2>4 DEF Shape, Table!Idle
    <3> QED
      BY <3>2, <3>3
  <2> QED
    BY <2>4, <2>6, <2>8, <2>9, Kept
<1>10. CASE e = Nil
  <2>1. /\ ftOfile' = [ftOfile EXCEPT ![p] = IF d = Nil THEN o ELSE Table!DropFirst(o1, d)]
        /\ ftTodo' = [ftTodo EXCEPT ![p] = ftGot[p]]
        /\ ftPc' = [ftPc EXCEPT ![p] = "close"]
        /\ ftGot' = [ftGot EXCEPT ![p] = <<>>]
        /\ UNCHANGED <<ftRef, ftObject, ftEnds, ftInodes, ftLast>>
    BY <1>3, <1>4, <1>5, <1>6, <1>10 DEF Table!PipeDescriptors, Table!Go
  <2>2. (IF d = Nil THEN o ELSE Table!DropFirst(o1, d)) = o
    BY <1>2, <1>3, <1>5, <1>8 DEF Table!DropFirst
  <2>3. ftOfile' = ftOfile
    BY <1>1, <1>3, <2>1, <2>2 DEF Table!TypeOK
  <2>4. GivesUp(p)
    BY <1>1, <2>1, <2>3 DEF GivesUp
  <2> QED
    BY <2>4, GiveUp
<1> QED
  BY <1>9, <1>10

LEMMA FilecloseKeeps ==
  ASSUME TableInv, NEW p \in User, Table!Fileclose(p)
  PROVE  TableInv'
<1>1. /\ Table!TypeOK /\ Refs /\ Own(Held) /\ Shape(p)
      /\ ftTodo[p] # <<>> /\ ftLast[p] = Table!Nothing /\ ftTodo[p] \in Seq(File)
  BY DEF TableInv, Table!Fileclose, Table!TypeOK
<1>2. PICK f \in File : f = Head(ftTodo[p])
  <2>1. Head(ftTodo[p]) \in File
    BY <1>1
  <2> QED
    BY <2>1
<1>3. Drops(p)
  BY <1>1 DEF Drops, Shape, Table!Fileclose
<1>4. /\ ftRef' = [ftRef EXCEPT ![f] = IF Table!IsLast(f) THEN 0 ELSE @ - 1]
      /\ Table!IsLast(f) => /\ ftLast' = [ftLast EXCEPT ![p] = ftObject[f]]
                            /\ ftObject' = [ftObject EXCEPT ![f] = Table!Nothing]
      /\ ~ Table!IsLast(f) => ftLast' = ftLast /\ ftObject' = ftObject
      /\ UNCHANGED <<ftOfile, ftEnds, ftInodes, ftPc, ftGot>>
  <2>1. ftRef' = [ftRef EXCEPT ![f] = IF Table!IsLast(f) THEN 0 ELSE @ - 1]
    BY <1>2 DEF Table!Fileclose
  <2>2. Table!IsLast(f) => /\ ftLast' = [ftLast EXCEPT ![p] = ftObject[f]]
                           /\ ftObject' = [ftObject EXCEPT ![f] = Table!Nothing]
    BY <1>2 DEF Table!Fileclose
  <2>3. ~ Table!IsLast(f) => ftLast' = ftLast /\ ftObject' = ftObject
    BY <1>2 DEF Table!Fileclose
  <2> QED
    BY <2>1, <2>2, <2>3 DEF Table!Fileclose
<1>5. /\ ftTodo' \in [User -> Seq(File)] /\ ftTodo'[p] = Tail(ftTodo[p])
      /\ Len(ftTodo'[p]) <= 2
      /\ \A c \in User : c # p => ftTodo'[c] = ftTodo[c]
  <2>1. PICK s \in Seq(File) : s = Tail(ftTodo[p])
    <3>1. Tail(ftTodo[p]) \in Seq(File)
      BY <1>1, HeadTailProperties
    <3> QED
      BY <3>1
  <2>2. ftTodo' = [ftTodo EXCEPT ![p] = s]
    BY <1>3, <2>1 DEF Drops
  <2>3. Len(s) <= Len(ftTodo[p])
    BY <1>1, <2>1, HeadTailProperties
  <2>4. Len(ftTodo[p]) \in Nat /\ Len(ftTodo[p]) <= 2 /\ Len(s) \in Nat
    BY <1>1, <2>1 DEF Shape
  <2>5. Len(s) <= 2
    BY <2>3, <2>4
  <2> QED
    BY <1>1, <2>1, <2>2, <2>5 DEF Table!TypeOK
<1>6. ASSUME Table!TypeOK'
      PROVE  /\ \A x \in File :
                  /\ Count(Table!Place, Held', x) \in Nat
                  /\ Count(Table!Place, Held, x) =
                       Count(Table!Place, Held', x) + (IF f = x THEN 1 ELSE 0)
             /\ Own(Held')
  BY <1>1, <1>2, <1>3, <1>6, Drop
\* the reference that goes was counted
<1>7. ftRef[f] \in Nat \ {0}
  <2>1. PICK h : h = Held
    OBVIOUS
  <2>2. Holds0(h, ftOfile, ftGot, ftTodo)
    BY <1>1, <2>1, HeldNow
  <2>3. PICK r : r = <<"todo", p, 1>>
    OBVIOUS
  <2>4. r \in Table!Place /\ h[r] = Nth(ftTodo[p], 1)
    BY <2>2, <2>3 DEF Holds0
  <2>5. Nth(ftTodo[p], 1) = f
    <3>1. Len(ftTodo[p]) \in Nat /\ Len(ftTodo[p]) # 0
      BY <1>1, EmptySeq
    <3> QED
      BY <1>1, <1>2, <3>1 DEF Nth
  <2>6. Count(Table!Place, h, f) # 0 /\ Count(Table!Place, h, f) \in Nat
    BY <2>4, <2>5, PlacesFinite, SomeCounts
  <2> QED
    BY <2>1, <2>6, <1>1 DEF Refs
<1>8. /\ ftRef'[f] = ftRef[f] - 1 /\ (Table!IsLast(f) <=> ftRef'[f] = 0)
      /\ \A x \in File : x # f => ftRef'[x] = ftRef[x]
      /\ ftRef' \in [File -> Nat]
  BY <1>1, <1>4, <1>7 DEF Table!IsLast, Table!TypeOK
<1>9. /\ ftObject' \in [File -> Table!Object] /\ ftLast' \in [User -> Table!Object]
      /\ \A x \in File : x # f => ftObject'[x] = ftObject[x]
      /\ \A c \in User : c # p => ftLast'[c] = ftLast[c]
      /\ Table!IsLast(f) => ftObject'[f] = Table!Nothing /\ ftLast'[p] = ftObject[f]
  <2>1. PICK O : O = Table!Object
    OBVIOUS
  <2>2. ftObject \in [File -> O] /\ ftLast \in [User -> O] /\ Table!Nothing \in O
    BY <1>1, <2>1 DEF Table!TypeOK, Table!Object
  <2>3. PICK z : z = Table!Nothing
    OBVIOUS
  <2>4. /\ ftObject' \in [File -> O] /\ ftLast' \in [User -> O]
        /\ \A x \in File : x # f => ftObject'[x] = ftObject[x]
        /\ \A c \in User : c # p => ftLast'[c] = ftLast[c]
        /\ Table!IsLast(f) => ftObject'[f] = z /\ ftLast'[p] = ftObject[f]
    <3>1. CASE Table!IsLast(f)
      BY <1>4, <2>2, <2>3, <3>1
    <3>2. CASE ~ Table!IsLast(f)
      BY <1>4, <2>2, <3>2
    <3> QED
      BY <3>1, <3>2
  <2> QED
    BY <2>1, <2>3, <2>4
<1>10. Table!TypeOK'
  BY <1>1, <1>4, <1>5, <1>8, <1>9 DEF Table!TypeOK
<1>11. Refs' /\ Own(Held')
  <2>1. ASSUME NEW x \in File PROVE ftRef'[x] = Count(Table!Place, Held', x)
    <3>1. ftRef[x] = Count(Table!Place, Held, x) /\ ftRef[x] \in Nat
      BY <1>1 DEF Refs, Table!TypeOK
    <3>2. CASE x = f
      BY <3>1, <3>2, <1>6, <1>7, <1>8, <1>10
    <3>3. CASE x # f
      BY <3>1, <3>3, <1>6, <1>8, <1>10
    <3> QED
      BY <3>2, <3>3
  <2> QED
    BY <2>1, <1>6, <1>10 DEF Refs
<1>12. ASSUME NEW c \in User PROVE Shape(c)'
  <2>1. Shape(c)
    BY DEF TableInv
  <2>2. \A x \in File : ftObject[x] = Table!Nothing => ftObject'[x] = Table!Nothing
    BY <1>4, <1>9
  <2>3. ASSUME NEW n \in DOMAIN ftGot[c] PROVE ftGot[c][n] \in File
    BY <1>1, <2>3 DEF Table!TypeOK
  <2>4. ftPc[p] \in {"close", "exit"}
    BY <1>1 DEF Shape, Table!Idle
  <2>5. ftPc' = ftPc /\ ftGot' = ftGot /\ ftOfile' = ftOfile
    BY <1>4
  <2>6. CASE c = p
    BY <1>5, <2>1, <2>2, <2>3, <2>4, <2>5, <2>6 DEF Shape
  <2>7. CASE c # p
    BY <1>5, <1>9, <2>1, <2>2, <2>3, <2>5, <2>7 DEF Shape, Table!Idle
  <2> QED
    BY <2>6, <2>7
<1>13. ASSUME NEW x \in File, ftRef'[x] = 0 PROVE ftObject'[x] = Table!Nothing
  BY <1>8, <1>9, <1>13 DEF TableInv
<1>14. PICK h : h = Stands
  OBVIOUS
<1>15. PICK k : k = Stands'
  OBVIOUS
<1>16. EndsOnce(ftEnds', k) /\ InodesOnce(ftInodes', k)
  <2>1. EndsOnce(ftEnds, h) /\ InodesOnce(ftInodes, h)
    BY <1>14 DEF TableInv
  <2>2. CASE ~ Table!IsLast(f)
    BY <1>4, <1>14, <1>15, <2>1, <2>2 DEF Stands
  <2>3. CASE Table!IsLast(f)
    <3>1. PICK a : a = <<"file", f>>
      OBVIOUS
    <3>2. PICK b : b = <<"last", p>>
      OBVIOUS
    <3>3. /\ a \in Site /\ h[a] = ftObject[f] /\ k[a] = ftObject'[f]
          /\ b \in Site /\ h[b] = ftLast[p] /\ k[b] = ftLast'[p]
      BY <1>14, <1>15, <3>1, <3>2, StandsNow, StandsNext DEF StandsAre
    <3>4. a # b
      BY <3>1, <3>2
    <3>5. ASSUME NEW q \in Site, q \notin {a, b} PROVE k[q] = h[q]
      <4>1. CASE \E x \in File : q = <<"file", x>>
        <5>1. PICK x \in File : q = <<"file", x>>
          BY <4>1
        <5>2. h[q] = ftObject[x] /\ k[q] = ftObject'[x] /\ x # f
          BY <1>14, <1>15, <3>1, <3>5, <5>1, StandsNow, StandsNext DEF StandsAre
        <5> QED
          BY <5>2, <1>9
      <4>2. CASE \E c \in User : q = <<"last", c>>
        <5>1. PICK c \in User : q = <<"last", c>>
          BY <4>2
        <5>2. h[q] = ftLast[c] /\ k[q] = ftLast'[c] /\ c # p
          BY <1>14, <1>15, <3>2, <3>5, <5>1, StandsNow, StandsNext DEF StandsAre
        <5> QED
          BY <5>2, <1>9
      <4> QED
        BY <4>1, <4>2, StandsNow DEF StandsAre
    <3>6. Moved(Site, h, k, a, b) /\ h[b] = Table!Nothing /\ k[a] = Table!Nothing
      BY <1>1, <1>9, <2>3, <3>3, <3>4, <3>5 DEF Moved
    <3>7. EndsOnce(ftEnds, k) /\ InodesOnce(ftInodes, k)
      BY <2>1, <3>6, SiteMoves
    <3> QED
      BY <3>7, <1>4
  <2> QED
    BY <2>2, <2>3
<1> QED
  BY <1>10, <1>11, <1>12, <1>13, <1>15, <1>16 DEF TableInv

LEMMA ReleaseKeeps ==
  ASSUME TableInv, NEW p \in User, Table!Release(p)
  PROVE  TableInv'
<1>1. Table!TypeOK /\ Refs /\ Own(Held)
  BY DEF TableInv
<1>2. PICK o : o = ftLast[p]
  OBVIOUS
<1>3. /\ o # Table!Nothing
      /\ ftEnds' = (IF o = Table!InodeFile THEN ftEnds
                    ELSE [ftEnds EXCEPT ![o.page] = @ \ {o.end}])
      /\ ftInodes' = (IF o = Table!InodeFile THEN ftInodes - 1 ELSE ftInodes)
      /\ ftLast' = [ftLast EXCEPT ![p] = Table!Nothing]
      /\ UNCHANGED <<ftRef, ftObject, ftOfile, ftPc, ftGot, ftTodo>>
  BY <1>2 DEF Table!Release
<1>4. /\ ftLast' \in [User -> Table!Object] /\ ftLast'[p] = Table!Nothing
      /\ \A c \in User : c # p => ftLast'[c] = ftLast[c]
  <2>1. Table!Nothing \in Table!Object
    BY DEF Table!Object
  <2>2. PICK O : O = Table!Object
    OBVIOUS
  <2>3. PICK z : z = Table!Nothing
    OBVIOUS
  <2>4. ftLast \in [User -> O] /\ z \in O /\ ftLast' = [ftLast EXCEPT ![p] = z]
    BY <1>1, <1>3, <2>1, <2>2, <2>3 DEF Table!TypeOK
  <2> QED
    BY <2>2, <2>3, <2>4
<1>5. Refs' /\ Own(Held')
  <2>1. Held' = Held /\ ftRef' = ftRef
    BY <1>3 DEF Held
  <2> QED
    BY <2>1, <1>1 DEF Refs
<1>6. ASSUME NEW c \in User PROVE Shape(c)'
  <2>1. Shape(c)
    BY DEF TableInv
  <2>2. CASE c = p
    BY <1>2, <1>3, <1>4, <2>1, <2>2 DEF Shape, Table!Idle
  <2>3. CASE c # p
    BY <1>3, <1>4, <2>1, <2>3 DEF Shape, Table!Idle
  <2> QED
    BY <2>2, <2>3
<1>7. \A x \in File : ftRef'[x] = 0 => ftObject'[x] = Table!Nothing
  BY <1>3 DEF TableInv
<1>8. PICK h : h = Stands
  OBVIOUS
<1>9. PICK k : k = Stands'
  OBVIOUS
<1>10. PICK s : s = <<"last", p>>
  OBVIOUS
<1>11. SameBut(Site, h, k, s) /\ h[s] = o /\ k[s] = Table!Nothing
  <2>1. s \in Site /\ h[s] = ftLast[p] /\ k[s] = ftLast'[p]
    BY <1>8, <1>9, <1>10, StandsNow, StandsNext DEF StandsAre
  <2>2. ASSUME NEW q \in Site, q # s PROVE k[q] = h[q]
    <3>1. CASE \E x \in File : q = <<"file", x>>
      BY <3>1, <1>3, <1>8, <1>9, StandsNow, StandsNext DEF StandsAre
    <3>2. CASE \E c \in User : q = <<"last", c>>
      <4>1. PICK c \in User : q = <<"last", c>>
        BY <3>2
      <4>2. h[q] = ftLast[c] /\ k[q] = ftLast'[c] /\ c # p
        BY <1>8, <1>9, <1>10, <2>2, <4>1, StandsNow, StandsNext DEF StandsAre
      <4> QED
        BY <4>2, <1>4
    <3> QED
      BY <3>1, <3>2, StandsNow DEF StandsAre
  <2> QED
    BY <1>2, <1>4, <2>1, <2>2 DEF SameBut
<1>12. EndsOnce(ftEnds, h) /\ InodesOnce(ftInodes, h)
  BY <1>8 DEF TableInv
<1>13. SameBut(Site, k, h, s) /\ k[s] # Table!InodeFile
  BY <1>11, NothingIsNoInode DEF SameBut
<1>14. /\ Count(Site, k, Table!InodeFile) \in Nat
       /\ Count(Site, h, Table!InodeFile) =
            Count(Site, k, Table!InodeFile) + (IF o = Table!InodeFile THEN 1 ELSE 0)
  BY <1>11, <1>13, SitesFinite, PutCounts
<1>15. InodesOnce(ftInodes', k) /\ ftInodes' \in Nat
  BY <1>3, <1>12, <1>14 DEF InodesOnce
<1>16. /\ EndsOnce(ftEnds', k) /\ ftEnds' \in [PipePage -> SUBSET {"r", "w"}]
  <2>1. CASE o = Table!InodeFile
    <3>1. ASSUME NEW m \in PipePage, NEW e \in {"r", "w"}
          PROVE  /\ e \in ftEnds[m] <=> \E q \in Site : k[q] = Table!End(m, e)
                 /\ \A q, u \in Site :
                      k[q] = Table!End(m, e) /\ k[u] = Table!End(m, e) => q = u
      <4>1. PICK z : z = Table!End(m, e)
        OBVIOUS
      <4>2. z # Table!Nothing /\ z # Table!InodeFile
        BY <4>1, ObjectsDiffer
      <4>3. \A q \in Site : k[q] = z <=> h[q] = z
        BY <1>11, <2>1, <4>2 DEF SameBut
      <4>4. /\ e \in ftEnds[m] <=> \E q \in Site : h[q] = z
            /\ \A q, u \in Site : h[q] = z /\ h[u] = z => q = u
        BY <4>1, <1>12 DEF EndsOnce
      <4> QED
        BY <4>1, <4>3, <4>4
    <3> QED
      BY <3>1, <2>1, <1>1, <1>3 DEF EndsOnce, Table!TypeOK
  <2>2. CASE o # Table!InodeFile
    <3>1. PICK n \in PipePage, c \in {"r", "w"} : o = Table!End(n, c)
      BY <1>1, <1>2, <1>3, <2>2 DEF Table!TypeOK, Table!Object
    <3>2. o.page = n /\ o.end = c
      BY <3>1 DEF Table!End
    <3>3. ftEnds' = [ftEnds EXCEPT ![n] = @ \ {c}] /\ ftEnds \in [PipePage -> SUBSET {"r", "w"}]
      BY <1>1, <1>3, <2>2, <3>2 DEF Table!TypeOK
    <3>4. /\ ftEnds' \in [PipePage -> SUBSET {"r", "w"}]
          /\ ftEnds'[n] = ftEnds[n] \ {c}
          /\ \A m \in PipePage : m # n => ftEnds'[m] = ftEnds[m]
      BY <3>3
    <3>5. ASSUME NEW m \in PipePage, NEW e \in {"r", "w"}
          PROVE  /\ e \in ftEnds'[m] <=> \E q \in Site : k[q] = Table!End(m, e)
                 /\ \A q, u \in Site :
                      k[q] = Table!End(m, e) /\ k[u] = Table!End(m, e) => q = u
      <4>1. PICK z : z = Table!End(m, e)
        OBVIOUS
      <4>2. z # Table!Nothing /\ (z = o <=> m = n /\ e = c)
        BY <3>1, <4>1, ObjectsDiffer
      <4>4. /\ e \in ftEnds[m] <=> \E q \in Site : h[q] = z
            /\ \A q, u \in Site : h[q] = z /\ h[u] = z => q = u
        BY <4>1, <1>12 DEF EndsOnce
      <4>5. CASE z = o
        <5>1. \A q \in Site : k[q] # z
          BY <1>11, <4>2, <4>4, <4>5 DEF SameBut
        <5>2. e \notin ftEnds'[m]
          BY <3>4, <4>2, <4>5
        <5> QED
          BY <4>1, <5>1, <5>2
      <4>6. CASE z # o
        <5>1. \A q \in Site : k[q] = z <=> h[q] = z
          BY <1>11, <4>2, <4>6 DEF SameBut
        <5>2. e \in ftEnds'[m] <=> e \in ftEnds[m]
          BY <3>4, <4>2, <4>6
        <5> QED
          BY <4>1, <4>4, <5>1, <5>2
      <4> QED
        BY <4>5, <4>6
    <3> QED
      BY <3>4, <3>5 DEF EndsOnce
  <2> QED
    BY <2>1, <2>2
<1>17. Table!TypeOK'
  BY <1>1, <1>3, <1>4, <1>15, <1>16 DEF Table!TypeOK
<1> QED
  BY <1>5, <1>6, <1>7, <1>9, <1>15, <1>16, <1>17 DEF TableInv

LEMMA TableInit == ASSUME Table!Init PROVE TableInv
<1>1. FirstUser \in User /\ Nil \notin File
  BY TableAssumed DEF TableAssumption, Table!ProcAssumption
<1>2. Table!TypeOK
  <2>1. Table!Nothing \in Table!Object
    BY DEF Table!Object
  <2> QED
    BY <2>1 DEF Table!Init, Table!TypeOK, Table!Points
<1>3. PICK h : h = Held
  OBVIOUS
<1>4. Holds0(h, ftOfile, ftGot, ftTodo)
  BY <1>2, <1>3, HeldNow
<1>5. ASSUME NEW r \in Table!Place PROVE h[r] = Nil
  <2>1. Nth(<<>>, 1) = Nil /\ Nth(<<>>, 2) = Nil
    BY DEF Nth
  <2>2. CASE \E p \in User, d \in Table!FD : r = <<"fd", p, d>>
    BY <1>4, <2>2 DEF Holds0, Table!Init
  <2>3. CASE \E p \in User, n \in {1, 2} : r \in {<<"got", p, n>>, <<"todo", p, n>>}
    <3>1. PICK p \in User, n \in {1, 2} : r \in {<<"got", p, n>>, <<"todo", p, n>>}
      BY <2>3
    <3>2. /\ h[<<"got", p, n>>] = Nth(ftGot[p], n)
          /\ h[<<"todo", p, n>>] = Nth(ftTodo[p], n)
      BY <1>4 DEF Holds0
    <3>3. ftGot[p] = <<>> /\ ftTodo[p] = <<>>
      BY DEF Table!Init
    <3> QED
      BY <2>1, <3>1, <3>2, <3>3
  <2> QED
    BY <2>2, <2>3, PlacesAre
<1>6. Refs /\ Own(Held)
  <2>1. ASSUME NEW x \in File PROVE ftRef[x] = Count(Table!Place, Held, x)
    <3>1. Count(Table!Place, h, x) = 0
      BY <1>1, <1>5, PlacesFinite, SomeCounts
    <3> QED
      BY <1>3, <3>1 DEF Table!Init
  <2> QED
    BY <1>3, <1>5, <2>1 DEF Refs, Own
<1>7. \A p \in User : Shape(p)
  BY DEF Shape, Table!Init, Table!Idle
<1>8. PICK s : s = Stands
  OBVIOUS
<1>9. \A q \in Site : s[q] = Table!Nothing
  BY <1>8, StandsNow DEF StandsAre, Table!Init
<1>10. EndsOnce(ftEnds, s)
  <2>1. \A k \in PipePage, e \in {"r", "w"}, q \in Site : s[q] # Table!End(k, e)
    BY <1>9, ObjectsDiffer
  <2> QED
    BY <2>1 DEF EndsOnce, Table!Init
<1>11. InodesOnce(ftInodes, s)
  <2>1. Count(Site, s, Table!InodeFile) = 0
    BY <1>9, NothingIsNoInode, SitesFinite, SomeCounts
  <2> QED
    BY <2>1 DEF InodesOnce, Table!Init
<1> QED
  BY <1>2, <1>6, <1>7, <1>8, <1>10, <1>11 DEF TableInv, Table!Init

LEMMA TableStep == ASSUME TableInv, Table!Next PROVE TableInv'
<1>1. PICK p \in User :
        \/ Table!SysPipe(p) \/ Table!SecondFile(p) \/ Table!Kalloc(p)
        \/ Table!PipeDescriptors(p) \/ Table!SysOpen(p) \/ Table!OpenDescriptor(p)
        \/ \E d \in Table!FD : Table!SysDup(p, d) \/ Table!SysClose(p, d)
                               \/ Table!ExitClose(p, d)
        \/ \E c \in User : Table!SysFork(p, c)
        \/ Table!Exit(p) \/ Table!Exited(p) \/ Table!Fileclose(p) \/ Table!Release(p)
        \/ Table!ClosedAll(p)
  BY DEF Table!Next
<1>2. CASE Table!SysPipe(p)
  BY <1>2, SysPipeKeeps
<1>3. CASE Table!SecondFile(p)
  BY <1>3, SecondFileKeeps
<1>4. CASE Table!Kalloc(p)
  BY <1>4, KallocKeeps
<1>5. CASE Table!PipeDescriptors(p)
  BY <1>5, PipeDescriptorsKeep
<1>6. CASE Table!SysOpen(p)
  BY <1>6, SysOpenKeeps
<1>7. CASE Table!OpenDescriptor(p)
  BY <1>7, OpenDescriptorKeeps
<1>8. CASE \E d \in Table!FD : Table!SysDup(p, d)
  BY <1>8, DupKeeps
<1>9. CASE \E d \in Table!FD : Table!SysClose(p, d) \/ Table!ExitClose(p, d)
  BY <1>9, SysCloseKeeps
<1>10. CASE \E c \in User : Table!SysFork(p, c)
  BY <1>10, ForkKeeps
<1>11. CASE Table!Exit(p) \/ Table!Exited(p) \/ Table!ClosedAll(p)
  BY <1>11, ExitKeeps
<1>12. CASE Table!Fileclose(p)
  BY <1>12, FilecloseKeeps
<1>13. CASE Table!Release(p)
  BY <1>13, ReleaseKeeps
<1> QED
  BY <1>1, <1>2, <1>3, <1>4, <1>5, <1>6, <1>7, <1>8, <1>9, <1>10, <1>11, <1>12, <1>13

LEMMA TableSame == ASSUME TableInv, UNCHANGED ftVars PROVE TableInv'
BY DEF TableInv, ftVars, Table!TypeOK, Refs, Held, Shape, Table!Idle, Stands

\* what the property says, from the invariant
LEMMA TableCorrect ==
  ASSUME TableInv
  PROVE  Table!TypeOK /\ Table!RefsCounted /\ Table!EndsOpen /\ Table!InodesCounted
<1>1. Table!TypeOK /\ Refs /\ EndsOnce(ftEnds, Stands) /\ InodesOnce(ftInodes, Stands)
  BY DEF TableInv
<1>2. Table!RefsCounted
  <2>1. ASSUME NEW f \in File
        PROVE  ftRef[f] = Table!Cardinality({r \in Table!Place : Table!FileAt(r) = f})
    <3>1. \A r \in Table!Place : Held[r] = Table!FileAt(r)
      BY DEF Held, HeldBy, Table!FileAt
    <3>2. {r \in Table!Place : Table!FileAt(r) = f} = {r \in Table!Place : Held[r] = f}
      BY <3>1
    <3> QED
      BY <1>1, <3>2, TableLibrary DEF Refs, Count
  <2> QED
    BY <2>1 DEF Table!RefsCounted
<1>3. PICK h : h = Stands
  OBVIOUS
<1>4. StandsAre(h, ftObject, ftLast)
  BY <1>3, StandsNow
\* the sites with x are the files and the processes with x
<1>5. ASSUME NEW x
      PROVE  /\ Count(Site, h, x) = Cardinality({f \in File : ftObject[f] = x})
                                    + Cardinality({p \in User : ftLast[p] = x})
             /\ IsFiniteSet({f \in File : ftObject[f] = x})
             /\ IsFiniteSet({p \in User : ftLast[p] = x})
  <2>1. PICK A : A = {f \in File : ftObject[f] = x}
    OBVIOUS
  <2>2. PICK B : B = {p \in User : ftLast[p] = x}
    OBVIOUS
  <2>3. IsFiniteSet(A) /\ IsFiniteSet(B)
    <3>1. IsFiniteSet(File) /\ IsFiniteSet(User)
      BY TableAssumed, TableLibrary DEF TableAssumption, Table!ProcAssumption
    <3> QED
      BY <3>1, <2>1, <2>2, FS_Subset
  <2>4. PICK A2 : A2 = {<<"file", f>> : f \in A}
    OBVIOUS
  <2>5. PICK B2 : B2 = {<<"last", p>> : p \in B}
    OBVIOUS
  <2>6. {s \in Site : h[s] = x} = A2 \cup B2
    <3>1. ASSUME NEW s \in Site, h[s] = x PROVE s \in A2 \cup B2
      BY <1>4, <2>1, <2>2, <2>4, <2>5, <3>1 DEF StandsAre
    <3>2. ASSUME NEW s \in A2 \cup B2 PROVE s \in Site /\ h[s] = x
      BY <1>4, <2>1, <2>2, <2>4, <2>5 DEF StandsAre
    <3> QED
      BY <3>1, <3>2
  <2>7. IsFiniteSet(A2) /\ Cardinality(A2) = Cardinality(A)
    <3>1. PICK F : F = [f \in A |-> <<"file", f>>]
      OBVIOUS
    <3>2. F \in Bijection(A, A2)
      <4>1. F \in [A -> A2] /\ \A f, g \in A : F[f] = F[g] => f = g
        BY <2>4, <3>1
      <4>2. \A s \in A2 : \E f \in A : F[f] = s
        BY <2>4, <3>1
      <4> QED
        BY <4>1, <4>2, Fun_IsBij
    <3> QED
      BY <3>2, <2>3, FS_Bijection DEF ExistsBijection
  <2>8. IsFiniteSet(B2) /\ Cardinality(B2) = Cardinality(B)
    <3>1. PICK F : F = [p \in B |-> <<"last", p>>]
      OBVIOUS
    <3>2. F \in Bijection(B, B2)
      <4>1. F \in [B -> B2] /\ \A f, g \in B : F[f] = F[g] => f = g
        BY <2>5, <3>1
      <4>2. \A s \in B2 : \E f \in B : F[f] = s
        BY <2>5, <3>1
      <4> QED
        BY <4>1, <4>2, Fun_IsBij
    <3> QED
      BY <3>2, <2>3, FS_Bijection DEF ExistsBijection
  <2>9. Cardinality(A2 \cup B2) = Cardinality(A) + Cardinality(B)
    <3>1. Cardinality(A2 \cup B2) =
            Cardinality(A2) + Cardinality(B2) - Cardinality(A2 \cap B2)
      BY <2>7, <2>8, FS_Union
    <3>2. A2 \cap B2 = {}
      BY <2>4, <2>5
    <3>3. Cardinality(A2 \cap B2) = 0
      BY <3>2, FS_EmptySet
    <3>4. Cardinality(A) \in Nat /\ Cardinality(B) \in Nat
      BY <2>3, FS_CardinalityType
    <3> QED
      BY <3>1, <3>3, <3>4, <2>7, <2>8
  <2> QED
    BY <2>1, <2>2, <2>3, <2>6, <2>9 DEF Count
<1>6. Table!InodesCounted
  BY <1>1, <1>3, <1>5, TableLibrary DEF InodesOnce, Table!InodesCounted
<1>7. Table!EndsOpen
  <2>1. ASSUME NEW k \in PipePage, NEW e \in {"r", "w"}
        PROVE  LET holders == {f \in File : ftObject[f] = Table!End(k, e)}
                   closers == {p \in User : ftLast[p] = Table!End(k, e)} IN
               /\ e \in ftEnds[k] <=> holders \cup closers # {}
               /\ Table!Cardinality(holders) + Table!Cardinality(closers) <= 1
    <3>1. PICK x : x = Table!End(k, e)
      OBVIOUS
    <3>2. PICK A : A = {f \in File : ftObject[f] = x}
      OBVIOUS
    <3>3. PICK B : B = {p \in User : ftLast[p] = x}
      OBVIOUS
    <3>4. /\ e \in ftEnds[k] <=> \E s \in Site : h[s] = x
          /\ \A s, t \in Site : h[s] = x /\ h[t] = x => s = t
      BY <1>1, <1>3, <3>1 DEF EndsOnce
    <3>5. (\E s \in Site : h[s] = x) <=> A \cup B # {}
      <4>1. ASSUME NEW s \in Site, h[s] = x PROVE A \cup B # {}
        BY <1>4, <3>2, <3>3, <4>1 DEF StandsAre
      <4>2. ASSUME NEW a \in A \cup B PROVE \E s \in Site : h[s] = x
        BY <1>4, <3>2, <3>3 DEF StandsAre
      <4> QED
        BY <4>1, <4>2
    <3>6. Cardinality(A) + Cardinality(B) <= 1
      <4>1. PICK S : S = {s \in Site : h[s] = x}
        OBVIOUS
      <4>2. Cardinality(S) = 0 \/ Cardinality(S) = 1
        <5>1. CASE S = {}
          BY <5>1, FS_EmptySet
        <5>2. CASE S # {}
          <6>1. PICK s : s \in S
            BY <5>2
          <6>2. S = {s}
            BY <3>4, <4>1, <6>1
          <6> QED
            BY <6>2, FS_Singleton
        <5> QED
          BY <5>1, <5>2
      <4>3. Cardinality(S) = Cardinality(A) + Cardinality(B)
        BY <1>5, <3>2, <3>3, <4>1 DEF Count
      <4> QED
        BY <4>2, <4>3
    <3> QED
      BY <3>1, <3>2, <3>3, <3>4, <3>5, <3>6, TableLibrary
  <2> QED
    BY <2>1 DEF Table!EndsOpen
<1> QED
  BY <1>1, <1>2, <1>6, <1>7

\* file.c, sysfile.c: for any number of processes, open files, descriptors and pipes,
\* every reference to an open file is counted once, an end of a pipe is open as long as a
\* file stands for it, and the references to inodes are given back, each once
THEOREM OpenFilesAreCorrect == SharedSpec => []OpenFilesCorrect
<1>1. SharedInit => (part = "table" => TableInv)
  BY TableInit DEF SharedInit
<1>2. (part = "table" => TableInv) /\ [SharedStep]_sharedVars
        => (part = "table" => TableInv)'
  BY TableStep, TableSame DEF SharedStep, sharedVars
<1>3. (part = "table" => TableInv) => OpenFilesCorrect
  BY TableCorrect DEF OpenFilesCorrect
<1> QED
  BY <1>1, <1>2, <1>3, PTL DEF SharedSpec

-----------------------------------------------------------------------------
(* ExerciseCorrect, for any number of threads and of increments *)

Inside == {"load", "store"}

\* the increments there are, and those of them that have been stored
Increments == Exercise!Thread \X (1 .. NUM_ITERS)
Stored(i)  == {x \in Increments : x[2] <= i[x[1]]}

OneInside ==
  /\ \A t, u \in Exercise!Thread : exPc[t] \in Inside /\ exPc[u] \in Inside => t = u
  /\ exFlag = 1 <=> \E t \in Exercise!Thread : exPc[t] \in Inside

ExerciseTypes ==
  /\ exFlag \in {0, 1} /\ exSharedResource \in Nat
  /\ exPc \in [Exercise!Thread -> {"none", "lock", "load", "store", "done"}]
  /\ exI \in [Exercise!Thread -> 0 .. NUM_ITERS]
  /\ exLoaded \in [Exercise!Thread -> Nat]
  /\ exMain \in [create : 0 .. NUM_THREADS, join : 0 .. NUM_THREADS]

ExerciseInv ==
  /\ ExerciseTypes /\ OneInside
  /\ exSharedResource = Cardinality(Stored(exI))
  /\ \A t \in Exercise!Thread :
       /\ exLoaded[t] <= NUM_THREADS * NUM_ITERS
       /\ exPc[t] = "store" => exLoaded[t] = exSharedResource /\ exI[t] < NUM_ITERS
       /\ exPc[t] = "done" => exI[t] = NUM_ITERS
       /\ t < exMain.join => exPc[t] = "done"

LEMMA ExerciseConstants ==
  /\ NUM_THREADS \in Nat \ {0} /\ NUM_ITERS \in Nat \ {0}
  /\ Nil \notin Exercise!Thread
BY SharedAssumption DEF Exercise!ExerciseAssumption, Exercise!Thread

LEMMA IncrementsFinite ==
  IsFiniteSet(Increments) /\ Cardinality(Increments) = NUM_THREADS * NUM_ITERS
<1>1. PICK S : S = 0 .. NUM_THREADS - 1
  OBVIOUS
<1>2. PICK T : T = 1 .. NUM_ITERS
  OBVIOUS
<1>3. NUM_THREADS - 1 \in Int /\ NUM_ITERS \in Int /\ 0 \in Int /\ 1 \in Int
      /\ NUM_THREADS - 1 >= 0 /\ NUM_ITERS >= 1
  BY ExerciseConstants
<1>4. IsFiniteSet(S) /\ Cardinality(S) = NUM_THREADS
  BY <1>1, <1>3, FS_Interval, ExerciseConstants
<1>5. IsFiniteSet(T) /\ Cardinality(T) = NUM_ITERS
  BY <1>2, <1>3, FS_Interval, ExerciseConstants
<1>6. IsFiniteSet(S \X T) /\ Cardinality(S \X T) = Cardinality(S) * Cardinality(T)
  BY <1>4, <1>5, FS_Product
<1> QED
  BY <1>1, <1>2, <1>4, <1>5, <1>6 DEF Increments, Exercise!Thread

LEMMA StoredBound ==
  ASSUME NEW i
  PROVE  /\ IsFiniteSet(Stored(i)) /\ Cardinality(Stored(i)) \in Nat
         /\ Cardinality(Stored(i)) <= NUM_THREADS * NUM_ITERS
         /\ NUM_THREADS * NUM_ITERS \in Nat
<1>1. Stored(i) \subseteq Increments
  BY DEF Stored
<1>2. /\ IsFiniteSet(Stored(i)) /\ Cardinality(Stored(i)) <= Cardinality(Increments)
  BY <1>1, IncrementsFinite, FS_Subset
<1>3. Cardinality(Increments) \in Nat
  BY IncrementsFinite, FS_CardinalityType
<1> QED
  BY <1>2, <1>3, IncrementsFinite, FS_CardinalityType

\* an increment more
LEMMA StoreCounts ==
  ASSUME NEW i \in [Exercise!Thread -> 0 .. NUM_ITERS], NEW t \in Exercise!Thread,
         i[t] < NUM_ITERS
  PROVE  Cardinality(Stored([i EXCEPT ![t] = @ + 1])) = Cardinality(Stored(i)) + 1
<1>1. PICK j : j = [i EXCEPT ![t] = @ + 1]
  OBVIOUS
<1>2. PICK x : x = <<t, i[t] + 1>>
  OBVIOUS
<1>3. i[t] \in Nat /\ i[t] + 1 \in 1 .. NUM_ITERS
  BY ExerciseConstants
<1>4. x \in Increments /\ x \notin Stored(i)
  BY <1>2, <1>3 DEF Increments, Stored
<1>5. Stored(j) = Stored(i) \cup {x}
  <2>1. ASSUME NEW y \in Increments
        PROVE  y[2] <= j[y[1]] <=> y[2] <= i[y[1]] \/ y = x
    <3>1. PICK u \in Exercise!Thread, k \in 1 .. NUM_ITERS : y = <<u, k>>
      BY DEF Increments
    <3>2. CASE u = t
      <4>1. j[t] = i[t] + 1
        BY <1>1
      <4>2. k <= i[t] + 1 <=> k <= i[t] \/ k = i[t] + 1
        BY <1>3
      <4> QED
        BY <3>1, <3>2, <4>1, <4>2, <1>2
    <3>3. CASE u # t
      BY <3>1, <3>3, <1>1, <1>2
    <3> QED
      BY <3>2, <3>3
  <2> QED
    BY <2>1, <1>4 DEF Stored
<1>6. Cardinality(Stored(i) \cup {x}) = Cardinality(Stored(i)) + 1
  BY <1>4, StoredBound, FS_AddElement
<1> QED
  BY <1>1, <1>5, <1>6

LEMMA ExerciseInit == ASSUME Exercise!Init PROVE ExerciseInv
<1>1. Stored(exI) = {}
  BY ExerciseConstants DEF Stored, Increments, Exercise!Init
<1>2. Cardinality(Stored(exI)) = 0
  BY <1>1, FS_EmptySet
<1>3. PICK m \in Nat : m = NUM_THREADS * NUM_ITERS
  BY StoredBound
<1>4. ExerciseTypes /\ OneInside
  BY ExerciseConstants DEF ExerciseTypes, OneInside, Inside, Exercise!Init
<1>5. \A t \in Exercise!Thread :
        /\ exLoaded[t] <= m
        /\ exPc[t] \notin {"store", "done"}
        /\ ~ (t < exMain.join)
  BY <1>3, ExerciseConstants DEF Exercise!Init, Exercise!Thread
<1> QED
  BY <1>2, <1>3, <1>4, <1>5 DEF ExerciseInv, Exercise!Init

\* one thread moves
GoesTo(t, from, to) ==
  /\ exPc[t] = from /\ exPc'[t] = to
  /\ \A u \in Exercise!Thread : u # t => exPc'[u] = exPc[u]

LEMMA Went ==
  ASSUME ExerciseTypes, NEW t \in Exercise!Thread, NEW from, NEW to,
         to \in {"none", "lock", "load", "store", "done"}, Exercise!Goto(t, from, to)
  PROVE  GoesTo(t, from, to) /\ exPc' \in [Exercise!Thread -> {"none", "lock", "load", "store", "done"}]
BY DEF ExerciseTypes, Exercise!Goto, GoesTo

LEMMA ExerciseStep == ASSUME ExerciseInv, Exercise!Next PROVE ExerciseInv'
<1> PICK m \in Nat : m = NUM_THREADS * NUM_ITERS
  BY StoredBound
<1> USE ExerciseConstants
<1>1. ExerciseTypes /\ OneInside /\ exSharedResource = Cardinality(Stored(exI))
  BY DEF ExerciseInv
<1>2. exSharedResource \in Nat /\ exSharedResource <= m
  BY <1>1, StoredBound
<1>3. CASE Exercise!Create
  <2>1. exMain.create \in Exercise!Thread
    BY <1>1, <1>3 DEF Exercise!Create, Exercise!Thread, ExerciseTypes
  <2>2. PICK t \in Exercise!Thread : t = exMain.create
    BY <2>1
  <2>3. GoesTo(t, "none", "lock")
        /\ exPc' \in [Exercise!Thread -> {"none", "lock", "load", "store", "done"}]
    BY <1>1, <1>3, <2>2, Went DEF Exercise!Create
  <2>4. /\ exMain'.join = exMain.join
        /\ exMain' \in [create : 0 .. NUM_THREADS, join : 0 .. NUM_THREADS]
        /\ UNCHANGED <<exFlag, exSharedResource, exI, exLoaded>>
    BY <1>1, <1>3 DEF Exercise!Create, ExerciseTypes
  <2>5. ExerciseTypes'
    BY <1>1, <2>3, <2>4 DEF ExerciseTypes
  <2>6. OneInside'
    BY <1>1, <2>3, <2>4 DEF OneInside, GoesTo, Inside
  <2> QED
    BY <2>3, <2>4, <2>5, <2>6 DEF ExerciseInv, GoesTo
<1>4. CASE Exercise!Join
  <2>1. exMain.join \in Exercise!Thread /\ exMain.join \in Nat
    BY <1>1, <1>4 DEF Exercise!Join, Exercise!Thread, ExerciseTypes
  <2>2. /\ exMain'.join = exMain.join + 1 /\ exPc[exMain.join] = "done"
        /\ exMain' \in [create : 0 .. NUM_THREADS, join : 0 .. NUM_THREADS]
        /\ UNCHANGED <<exFlag, exSharedResource, exI, exLoaded, exPc>>
    BY <1>1, <1>4, <2>1 DEF Exercise!Join, ExerciseTypes
  <2>3. ExerciseTypes' /\ OneInside'
    BY <1>1, <2>2 DEF ExerciseTypes, OneInside
  <2>4. ASSUME NEW t \in Exercise!Thread, t < exMain'.join PROVE exPc[t] = "done"
    <3>1. t < exMain.join \/ t = exMain.join
      BY <2>1, <2>2, <2>4 DEF Exercise!Thread
    <3> QED
      BY <3>1, <2>2 DEF ExerciseInv
  <2> QED
    BY <2>2, <2>3, <2>4 DEF ExerciseInv
<1>5. ASSUME NEW t \in Exercise!Thread, Exercise!Lock(t) PROVE ExerciseInv'
  <2>1. GoesTo(t, "lock", "load")
        /\ exPc' \in [Exercise!Thread -> {"none", "lock", "load", "store", "done"}]
    BY <1>1, <1>5, Went DEF Exercise!Lock
  <2>2. exFlag = 0 /\ exFlag' = 1 /\ UNCHANGED <<exSharedResource, exI, exLoaded, exMain>>
    BY <1>5 DEF Exercise!Lock, Exercise!WasFree
  <2>3. ExerciseTypes'
    BY <1>1, <2>1, <2>2 DEF ExerciseTypes
  <2>4. OneInside'
    BY <1>1, <2>1, <2>2 DEF OneInside, GoesTo, Inside
  <2> QED
    BY <2>1, <2>2, <2>3, <2>4 DEF ExerciseInv, GoesTo
<1>6. ASSUME NEW t \in Exercise!Thread, Exercise!Load(t) PROVE ExerciseInv'
  <2>1. GoesTo(t, "load", "store")
        /\ exPc' \in [Exercise!Thread -> {"none", "lock", "load", "store", "done"}]
    BY <1>1, <1>6, Went DEF Exercise!Load
  <2>2. /\ exI[t] < NUM_ITERS
        /\ exLoaded' = [exLoaded EXCEPT ![t] = exSharedResource]
        /\ UNCHANGED <<exFlag, exSharedResource, exI, exMain>>
    BY <1>6 DEF Exercise!Load, Exercise!Again
  <2>3. /\ exLoaded' \in [Exercise!Thread -> Nat] /\ exLoaded'[t] = exSharedResource
        /\ \A u \in Exercise!Thread : u # t => exLoaded'[u] = exLoaded[u]
    BY <1>1, <1>2, <2>2 DEF ExerciseTypes
  <2>4. ExerciseTypes'
    BY <1>1, <2>1, <2>2, <2>3 DEF ExerciseTypes
  <2>5. OneInside'
    BY <1>1, <2>1, <2>2 DEF OneInside, GoesTo, Inside
  <2>6. ASSUME NEW u \in Exercise!Thread
        PROVE  /\ exLoaded'[u] <= NUM_THREADS * NUM_ITERS
               /\ exPc'[u] = "store" => exLoaded'[u] = exSharedResource /\ exI[u] < NUM_ITERS
               /\ exPc'[u] = "done" => exI[u] = NUM_ITERS
               /\ u < exMain.join => exPc'[u] = "done"
    <3>1. /\ exLoaded[u] <= NUM_THREADS * NUM_ITERS
          /\ exPc[u] = "store" => exLoaded[u] = exSharedResource /\ exI[u] < NUM_ITERS
          /\ exPc[u] = "done" => exI[u] = NUM_ITERS
          /\ u < exMain.join => exPc[u] = "done"
      BY DEF ExerciseInv
    <3>2. CASE u = t
      BY <3>1, <3>2, <1>2, <2>1, <2>2, <2>3 DEF GoesTo
    <3>3. CASE u # t
      BY <3>1, <3>3, <2>1, <2>3 DEF GoesTo
    <3> QED
      BY <3>2, <3>3
  <2> QED
    BY <1>1, <2>2, <2>4, <2>5, <2>6 DEF ExerciseInv
<1>7. ASSUME NEW t \in Exercise!Thread, Exercise!Store(t) PROVE ExerciseInv'
  <2>1. GoesTo(t, "store", "load")
        /\ exPc' \in [Exercise!Thread -> {"none", "lock", "load", "store", "done"}]
    BY <1>1, <1>7, Went DEF Exercise!Store
  <2>2. /\ exSharedResource' = exLoaded[t] + 1
        /\ exI' = [exI EXCEPT ![t] = @ + 1]
        /\ UNCHANGED <<exFlag, exLoaded, exMain>>
    BY <1>7 DEF Exercise!Store
  <2>3. exLoaded[t] = exSharedResource /\ exI[t] < NUM_ITERS
    BY <2>1 DEF ExerciseInv, GoesTo
  <2>4. exI \in [Exercise!Thread -> 0 .. NUM_ITERS]
    BY <1>1 DEF ExerciseTypes
  <2>5. exSharedResource' = Cardinality(Stored(exI'))
    BY <1>1, <2>2, <2>3, <2>4, StoreCounts
  <2>6. exI' \in [Exercise!Thread -> 0 .. NUM_ITERS]
        /\ \A u \in Exercise!Thread : u # t => exI'[u] = exI[u]
    BY <2>2, <2>3, <2>4
  <2>7. ExerciseTypes'
    BY <1>1, <1>2, <2>1, <2>2, <2>3, <2>6 DEF ExerciseTypes
  <2>8. OneInside'
    BY <1>1, <2>1, <2>2 DEF OneInside, GoesTo, Inside
  <2>9. ASSUME NEW u \in Exercise!Thread
        PROVE  /\ exLoaded'[u] <= NUM_THREADS * NUM_ITERS
               /\ exPc'[u] # "store"
               /\ exPc'[u] = "done" => exI'[u] = NUM_ITERS
               /\ u < exMain'.join => exPc'[u] = "done"
    <3>1. /\ exLoaded[u] <= NUM_THREADS * NUM_ITERS
          /\ exPc[u] = "done" => exI[u] = NUM_ITERS
          /\ u < exMain.join => exPc[u] = "done"
      BY DEF ExerciseInv
    <3>2. exPc'[u] # "store"
      BY <1>1, <2>1 DEF OneInside, GoesTo, Inside
    <3>3. CASE u = t
      BY <3>1, <3>2, <3>3, <2>1, <2>2 DEF GoesTo
    <3>4. CASE u # t
      BY <3>1, <3>2, <3>4, <2>1, <2>2, <2>6 DEF GoesTo
    <3> QED
      BY <3>3, <3>4
  <2> QED
    BY <2>5, <2>7, <2>8, <2>9 DEF ExerciseInv
<1>8. ASSUME NEW t \in Exercise!Thread, Exercise!Unlock(t) PROVE ExerciseInv'
  <2>1. GoesTo(t, "load", "done")
        /\ exPc' \in [Exercise!Thread -> {"none", "lock", "load", "store", "done"}]
    BY <1>1, <1>8, Went DEF Exercise!Unlock
  <2>2. /\ exFlag' = 0 /\ exI[t] = NUM_ITERS
        /\ UNCHANGED <<exSharedResource, exI, exLoaded, exMain>>
    BY <1>8 DEF Exercise!Unlock, Exercise!Cleared
  <2>3. ExerciseTypes'
    BY <1>1, <2>1, <2>2 DEF ExerciseTypes
  <2>4. OneInside'
    BY <1>1, <2>1, <2>2 DEF OneInside, GoesTo, Inside
  <2> QED
    BY <2>1, <2>2, <2>3, <2>4 DEF ExerciseInv, GoesTo
<1> QED
  BY <1>3, <1>4, <1>5, <1>6, <1>7, <1>8 DEF Exercise!Next, Exercise!Run

LEMMA ExerciseSame == ASSUME ExerciseInv, UNCHANGED exVars PROVE ExerciseInv'
BY DEF ExerciseInv, exVars, ExerciseTypes, OneInside

LEMMA ExerciseSums == ASSUME ExerciseInv PROVE Exercise!TypeOK /\ Exercise!SumPrinted
<1> PICK m \in Nat : m = NUM_THREADS * NUM_ITERS
  BY StoredBound
<1>1. ExerciseTypes /\ exSharedResource = Cardinality(Stored(exI))
  BY DEF ExerciseInv
<1>2. exSharedResource \in 0 .. NUM_THREADS * NUM_ITERS
  BY <1>1, StoredBound
<1>3. exLoaded \in [Exercise!Thread -> 0 .. NUM_THREADS * NUM_ITERS]
  <2>1. \A t \in Exercise!Thread : exLoaded[t] \in 0 .. m
    BY <1>1 DEF ExerciseInv, ExerciseTypes
  <2> QED
    BY <1>1, <2>1 DEF ExerciseTypes
<1>4. ASSUME Exercise!Joined PROVE exSharedResource = NUM_THREADS * NUM_ITERS
  <2>1. ASSUME NEW t \in Exercise!Thread PROVE exI[t] = NUM_ITERS
    <3>1. t < exMain.join
      BY <1>4, ExerciseConstants DEF Exercise!Joined, Exercise!Thread
    <3> QED
      BY <3>1 DEF ExerciseInv
  <2>2. Stored(exI) = Increments
    BY <2>1, ExerciseConstants DEF Stored, Increments
  <2> QED
    BY <1>1, <2>2, IncrementsFinite
<1> QED
  BY <1>1, <1>2, <1>3, <1>4 DEF Exercise!TypeOK, Exercise!SumPrinted, ExerciseTypes

-----------------------------------------------------------------------------
(* The refinement: who is inside holds the lock *)

LEMMA HolderIs ==
  ASSUME OneInside
  PROVE  /\ \A t \in Exercise!Thread : exPc[t] \in Inside => Exercise!Holder = t
         /\ (\A t \in Exercise!Thread : exPc[t] \notin Inside) => Exercise!Holder = Nil
<1>1. ASSUME NEW t \in Exercise!Thread, exPc[t] \in Inside PROVE Exercise!Holder = t
  <2>1. \A u \in Exercise!Thread : exPc[u] \in {"load", "store"} <=> u = t
    BY <1>1 DEF OneInside, Inside
  <2>2. (CHOOSE u \in Exercise!Thread : exPc[u] \in {"load", "store"}) = t
    BY <2>1
  <2> QED
    BY <2>1, <2>2 DEF Exercise!Holder
<1> QED
  BY <1>1 DEF Exercise!Holder, Inside

LEMMA HolderNext ==
  ASSUME OneInside'
  PROVE  /\ \A t \in Exercise!Thread : exPc'[t] \in Inside => Exercise!Holder' = t
         /\ (\A t \in Exercise!Thread : exPc'[t] \notin Inside) => Exercise!Holder' = Nil
<1>1. ASSUME NEW t \in Exercise!Thread, exPc'[t] \in Inside PROVE Exercise!Holder' = t
  <2>1. \A u \in Exercise!Thread : exPc'[u] \in {"load", "store"} <=> u = t
    BY <1>1 DEF OneInside, Inside
  <2>2. (CHOOSE u \in Exercise!Thread : exPc'[u] \in {"load", "store"}) = t
    BY <2>1
  <2> QED
    BY <2>1, <2>2 DEF Exercise!Holder
<1> QED
  BY <1>1 DEF Exercise!Holder, Inside

LEMMA HolderStep ==
  ASSUME ExerciseInv, ExerciseInv', Exercise!Next
  PROVE  [Exercise!HeldByOne!Next]_(Exercise!Holder)
<1>1. ExerciseTypes /\ OneInside /\ OneInside'
  BY DEF ExerciseInv
<1>2. ASSUME exPc' = exPc PROVE Exercise!Holder' = Exercise!Holder
  BY <1>2 DEF Exercise!Holder
<1>3. ASSUME NEW t \in Exercise!Thread, GoesTo(t, "lock", "load"), exFlag = 0
      PROVE  Exercise!HeldByOne!Acquire(t)
  <2>1. Exercise!Holder = Nil
    BY <1>1, <1>3, HolderIs DEF OneInside
  <2>2. Exercise!Holder' = t
    BY <1>1, <1>3, HolderNext DEF GoesTo, Inside
  <2> QED
    BY <2>1, <2>2 DEF Exercise!HeldByOne!Acquire
<1>4. ASSUME NEW t \in Exercise!Thread, GoesTo(t, "load", "done")
      PROVE  Exercise!HeldByOne!Release(t)
  <2>1. Exercise!Holder = t
    BY <1>1, <1>4, HolderIs DEF GoesTo, Inside
  <2>2. \A u \in Exercise!Thread : exPc'[u] \notin Inside
    BY <1>1, <1>4 DEF OneInside, GoesTo, Inside
  <2>3. Exercise!Holder' = Nil
    BY <1>1, <2>2, HolderNext
  <2> QED
    BY <2>1, <2>3 DEF Exercise!HeldByOne!Release
<1>5. ASSUME NEW t \in Exercise!Thread,
             GoesTo(t, "load", "store") \/ GoesTo(t, "store", "load")
      PROVE  Exercise!Holder' = Exercise!Holder
  <2>1. Exercise!Holder = t
    BY <1>1, <1>5, HolderIs DEF GoesTo, Inside
  <2>2. Exercise!Holder' = t
    BY <1>1, <1>5, HolderNext DEF GoesTo, Inside
  <2> QED
    BY <2>1, <2>2
<1>6. ASSUME NEW t \in Exercise!Thread, GoesTo(t, "none", "lock")
      PROVE  Exercise!Holder' = Exercise!Holder
  <2>1. \A u \in Exercise!Thread : exPc'[u] \in Inside <=> exPc[u] \in Inside
    BY <1>6 DEF GoesTo, Inside
  <2>2. CASE \E u \in Exercise!Thread : exPc[u] \in Inside
    BY <2>1, <2>2, <1>1, HolderIs, HolderNext
  <2>3. CASE \A u \in Exercise!Thread : exPc[u] \notin Inside
    BY <2>1, <2>3, <1>1, HolderIs, HolderNext
  <2> QED
    BY <2>2, <2>3
<1>7. CASE Exercise!Create
  <2>1. exMain.create \in Exercise!Thread
    BY <1>1, <1>7, ExerciseConstants DEF Exercise!Create, Exercise!Thread, ExerciseTypes
  <2>2. PICK t \in Exercise!Thread : t = exMain.create
    BY <2>1
  <2>3. GoesTo(t, "none", "lock")
    BY <1>1, <1>7, <2>2, Went DEF Exercise!Create
  <2> QED
    BY <2>3, <1>6
<1>8. CASE Exercise!Join
  BY <1>2, <1>8 DEF Exercise!Join
<1>9. ASSUME NEW t \in Exercise!Thread, Exercise!Lock(t)
      PROVE  Exercise!HeldByOne!Acquire(t)
  <2>1. GoesTo(t, "lock", "load") /\ exFlag = 0
    BY <1>1, <1>9, Went DEF Exercise!Lock, Exercise!WasFree
  <2> QED
    BY <2>1, <1>3
<1>10. ASSUME NEW t \in Exercise!Thread, Exercise!Load(t) \/ Exercise!Store(t)
       PROVE  Exercise!Holder' = Exercise!Holder
  <2>1. GoesTo(t, "load", "store") \/ GoesTo(t, "store", "load")
    BY <1>1, <1>10, Went DEF Exercise!Load, Exercise!Store
  <2> QED
    BY <2>1, <1>5
<1>11. ASSUME NEW t \in Exercise!Thread, Exercise!Unlock(t)
       PROVE  Exercise!HeldByOne!Release(t)
  <2>1. GoesTo(t, "load", "done")
    BY <1>1, <1>11, Went DEF Exercise!Unlock
  <2> QED
    BY <2>1, <1>4
<1> QED
  BY <1>7, <1>8, <1>9, <1>10, <1>11 DEF Exercise!Next, Exercise!Run, Exercise!HeldByOne!Next

\* pthread_lock_linux.c: for any number of threads and of increments, one thread is
\* between lock() and unlock() (the refinement), and no increment is lost
THEOREM ExerciseIsCorrect == SharedSpec => ExerciseCorrect
<1> DEFINE I == part = "exercise" => ExerciseInv
           R == part = "exercise" => [Exercise!HeldByOne!Next]_(Exercise!Holder)
<1>1. SharedInit => I /\ (part = "exercise" => Exercise!HeldByOne!Init)
  <2>1. Exercise!Init => Exercise!HeldByOne!Init
    BY DEF Exercise!Init, Exercise!HeldByOne!Init, Exercise!Holder
  <2> QED
    BY <2>1, ExerciseInit DEF SharedInit
<1>2. ASSUME UNCHANGED exVars PROVE Exercise!Holder' = Exercise!Holder
  BY <1>2 DEF exVars, Exercise!Holder
<1>3. I /\ [SharedStep]_sharedVars => I' /\ R
  BY <1>2, ExerciseStep, ExerciseSame, HolderStep DEF SharedStep, sharedVars
<1>4. I => (part = "exercise" => Exercise!TypeOK /\ Exercise!SumPrinted)
  BY ExerciseSums
<1> QED
  BY <1>1, <1>3, <1>4, PTL DEF SharedSpec, ExerciseCorrect

-----------------------------------------------------------------------------
(* StartCorrect, for any number of CPUs and pages *)

UpAccess   == {"alloc1", "stack1", "free1", "kinit21"}
UpHolding  == UpAccess \cup {"alloc2", "stack2", "free2", "kinit22"}
UpStarting == {"others", "stack", "stack1", "stack2", "args", "spin"}
UpBooting  == UpStarting \cup {"kinit", "kinit2", "kinit21", "kinit22", "userinit"}

UpPoints ==
  UpBooting \cup UpHolding \cup {"off", "entry", "mpmain", "scheduler", "alloc", "free"}

\* a page or none
UpSome == Startup0!Page \cup {Nil}

UpTypes ==
  /\ upPc \in [Startup0!CPU -> UpPoints]
  /\ upFreelist \in Seq(Startup0!Page)
  /\ upUseLock \in BOOLEAN /\ upLock \in Startup0!CPU \cup {Nil}
  /\ upCode \in UpSome
  /\ upStack \in [Startup0!CPU -> UpSome]
  /\ upStarted \in [Startup0!CPU -> BOOLEAN]
  /\ upNext \in 1 .. NCPU
  /\ upRead \in [Startup0!CPU -> Seq(Startup0!Page)]
  /\ upPage \in [Startup0!CPU -> UpSome]
  /\ upProcs \in BOOLEAN

\* the order in which the CPUs start
UpControl ==
  /\ upPc[0] \notin {"off", "entry"}
  /\ \A c \in Startup0!CPU \ {0} : upPc[c] \notin UpBooting
  /\ upProcs = (upPc[0] \notin UpBooting)
  /\ upUseLock = (upPc[0] \notin UpBooting \ {"userinit"})
  /\ ~ upProcs => \A c \in Startup0!CPU \ {0} :
       upPc[c] \in {"off", "entry", "mpmain", "scheduler"} /\ upPage[c] = Nil
  /\ upPc[0] \in UpStarting \ {"others"} => upNext < NCPU
  /\ \A c \in Startup0!CPU : c > upNext \/ (c = upNext /\ upPc[0] # "spin") => upPc[c] = "off"
  /\ \A c \in Startup0!CPU : upPc[c] = "entry" => upPc[0] = "spin" /\ c = upNext
  /\ \A c \in Startup0!CPU : upPc[c] \in {"off", "entry"} => ~ upStarted[c]

\* one CPU is between acquire() and release(), or the boot CPU is alone
UpLocks ==
  /\ \A c, d \in Startup0!CPU : upPc[c] \in UpHolding /\ upPc[d] \in UpHolding => c = d
  /\ \A c \in Startup0!CPU : upPc[c] \in UpHolding /\ upUseLock => upLock = c
  /\ ~ upUseLock \/ (\A c \in Startup0!CPU : upPc[c] \notin UpHolding) => upLock = Nil
  /\ \A c \in Startup0!CPU : upPc[c] \in UpAccess => upRead[c] = upFreelist

Listed(s) == {s[n] : n \in DOMAIN s}
Once(s)   == \A m, n \in DOMAIN s : m # n => s[m] # s[n]

\* a page is in one place; the stack of a CPU that is being started is left for it
UpPages ==
  /\ Once(upFreelist)
  /\ \A c \in Startup0!CPU : upPage[c] # Nil =>
       upPage[c] \notin Listed(upFreelist) /\ \A d \in Startup0!CPU \ {c} : upPage[d] # upPage[c]
  /\ \A c \in Startup0!CPU : upStack[c] # Nil =>
       /\ upStack[c] \notin Listed(upFreelist) /\ \A d \in Startup0!CPU : upPage[d] # upStack[c]
       /\ \A d \in Startup0!CPU \ {c} : upStack[d] # upStack[c]
  /\ (\E c \in Startup0!CPU : upPc[c] = "entry") /\ upCode # Nil =>
       upCode \notin Listed(upFreelist)
       /\ \A d \in Startup0!CPU : upPage[d] # upCode /\ upStack[d] # upCode
  /\ \A c \in Startup0!CPU :
       upPc[c] \in {"free", "free1", "kinit2", "kinit21"} => upPage[c] # Nil

\* the stacks are pages of kinit1(): those of kinit2() come later
UpEarly ==
  /\ upPc[0] \in UpStarting => Listed(upFreelist) \subseteq Early /\ upPage[0] \in Early \cup {Nil}
  /\ upPc[0] \in UpBooting =>
       upCode \in Early \cup {Nil} /\ \A c \in Startup0!CPU : upStack[c] \in Early \cup {Nil}

UpInv == UpTypes /\ UpControl /\ UpLocks /\ UpPages /\ UpEarly

LEMMA UpConstants ==
  /\ NCPU \in Nat \ {0} /\ Nil \notin Startup0!CPU /\ Nil \notin Startup0!Page
  /\ 0 \in Startup0!CPU /\ Startup0!Page = Early \cup Late /\ Early \cap Late = {}
BY SharedAssumption DEF Startup0!StartupAssumption, Startup0!CPU, Startup0!Page

-----------------------------------------------------------------------------
(* The free list *)

LEMMA HeadTaken ==
  ASSUME NEW S, NEW s \in Seq(S), s # <<>>, Once(s)
  PROVE  /\ Head(s) \in S /\ Head(s) \in Listed(s)
         /\ Tail(s) \in Seq(S) /\ Once(Tail(s))
         /\ Listed(Tail(s)) = Listed(s) \ {Head(s)}
<1>1. PICK t : t = Tail(s)
  OBVIOUS
<1>2. /\ t \in Seq(S) /\ Len(t) = Len(s) - 1 /\ Head(s) = s[1]
      /\ \A n \in 1 .. Len(t) : t[n] = s[n + 1]
  BY <1>1, HeadTailProperties
<1>3. PICK l \in Nat : l = Len(s)
  OBVIOUS
<1>4. l # 0
  BY <1>3, EmptySeq
<1>5. DOMAIN s = 1 .. l /\ DOMAIN t = 1 .. l - 1
  BY <1>2, <1>3
<1>6. \A n \in 1 .. l - 1 : t[n] = s[n + 1]
  BY <1>2, <1>3
<1>7. s[1] \in S /\ 1 \in 1 .. l
  BY <1>3, <1>4
<1>8. Once(t)
  <2>1. ASSUME NEW m \in 1 .. l - 1, NEW n \in 1 .. l - 1, m # n PROVE t[m] # t[n]
    <3>1. m + 1 \in 1 .. l /\ n + 1 \in 1 .. l /\ m + 1 # n + 1
      BY <2>1
    <3>2. s[m + 1] # s[n + 1]
      BY <3>1, <1>5 DEF Once
    <3> QED
      BY <3>2, <1>6
  <2> QED
    BY <2>1, <1>5 DEF Once
<1>9. Listed(t) = Listed(s) \ {s[1]}
  <2>1. ASSUME NEW n \in 1 .. l - 1 PROVE t[n] \in Listed(s) /\ t[n] # s[1]
    <3>1. n + 1 \in 1 .. l /\ n + 1 # 1
      BY <2>1
    <3> QED
      BY <3>1, <1>5, <1>6, <1>7 DEF Listed, Once
  <2>2. ASSUME NEW n \in 1 .. l, s[n] # s[1] PROVE s[n] \in Listed(t)
    <3>1. n - 1 \in 1 .. l - 1 /\ (n - 1) + 1 = n
      <4>1. n # 1
        BY <2>2
      <4> QED
        BY <4>1
    <3>2. t[n - 1] = s[n]
      BY <3>1, <1>6
    <3> QED
      BY <3>1, <3>2, <1>5 DEF Listed
  <2>3. Listed(t) \subseteq Listed(s) \ {s[1]}
    BY <2>1, <1>5 DEF Listed
  <2>4. Listed(s) \ {s[1]} \subseteq Listed(t)
    BY <2>2, <1>5 DEF Listed
  <2> QED
    BY <2>3, <2>4
<1>10. s[1] \in Listed(s)
  BY <1>5, <1>7 DEF Listed
<1> QED
  BY <1>1, <1>2, <1>7, <1>8, <1>9, <1>10

LEMMA HeadPut ==
  ASSUME NEW S, NEW s \in Seq(S), NEW x \in S, x \notin Listed(s), Once(s)
  PROVE  /\ <<x>> \o s \in Seq(S) /\ Once(<<x>> \o s)
         /\ Listed(<<x>> \o s) = Listed(s) \cup {x}
<1>1. PICK t : t = <<x>> \o s
  OBVIOUS
<1>2. PICK l \in Nat : l = Len(s)
  OBVIOUS
<1>3. t \in Seq(S) /\ Len(t) = l + 1 /\ t[1] = x
      /\ \A n \in 1 .. l : t[n + 1] = s[n]
  <2>1. <<x>> \in Seq(S) /\ Len(<<x>>) = 1 /\ <<x>>[1] = x
    OBVIOUS
  <2>2. PICK u \in Seq(S) : u = <<x>>
    BY <2>1
  <2>3. /\ t \in Seq(S) /\ Len(t) = Len(u) + Len(s)
        /\ \A n \in 1 .. Len(u) : t[n] = u[n]
        /\ \A n \in Len(u) + 1 .. Len(u) + Len(s) : t[n] = s[n - Len(u)]
    <3>1. t = u \o s
      BY <1>1, <2>2
    <3> QED
      BY <3>1, ConcatProperties
  <2>4. Len(u) = 1 /\ u[1] = x
    BY <2>1, <2>2
  <2>5. ASSUME NEW n \in 1 .. l PROVE t[n + 1] = s[n]
    <3>1. n + 1 \in 2 .. 1 + l /\ (n + 1) - 1 = n
      OBVIOUS
    <3> QED
      BY <3>1, <2>3, <2>4, <1>2
  <2> QED
    BY <2>3, <2>4, <2>5, <1>2
<1>4. DOMAIN t = 1 .. l + 1 /\ DOMAIN s = 1 .. l
  BY <1>2, <1>3
<1>5. \A n \in 2 .. l + 1 : n - 1 \in 1 .. l /\ t[n] = s[n - 1]
  <2>1. ASSUME NEW n \in 2 .. l + 1 PROVE n - 1 \in 1 .. l /\ t[n] = s[n - 1]
    <3>1. n - 1 \in 1 .. l /\ (n - 1) + 1 = n
      OBVIOUS
    <3> QED
      BY <3>1, <1>3
  <2> QED
    BY <2>1
<1>6. Once(t)
  <2>1. ASSUME NEW m \in 1 .. l + 1, NEW n \in 1 .. l + 1, m # n PROVE t[m] # t[n]
    <3>1. CASE m = 1
      <4>1. n \in 2 .. l + 1
        BY <2>1, <3>1
      <4> QED
        BY <4>1, <3>1, <1>3, <1>4, <1>5 DEF Listed
    <3>2. CASE n = 1
      <4>1. m \in 2 .. l + 1
        BY <2>1, <3>2
      <4> QED
        BY <4>1, <3>2, <1>3, <1>4, <1>5 DEF Listed
    <3>3. CASE m # 1 /\ n # 1
      <4>1. m \in 2 .. l + 1 /\ n \in 2 .. l + 1 /\ m - 1 # n - 1
        BY <2>1, <3>3
      <4> QED
        BY <4>1, <1>4, <1>5 DEF Once
    <3> QED
      BY <3>1, <3>2, <3>3
  <2> QED
    BY <2>1, <1>4 DEF Once
<1>7. Listed(t) = Listed(s) \cup {x}
  <2>1. ASSUME NEW n \in 1 .. l + 1 PROVE t[n] \in Listed(s) \cup {x}
    <3>1. CASE n = 1
      BY <3>1, <1>3
    <3>2. CASE n # 1
      <4>1. n \in 2 .. l + 1
        BY <3>2
      <4> QED
        BY <4>1, <1>4, <1>5 DEF Listed
    <3> QED
      BY <3>1, <3>2
  <2>2. ASSUME NEW n \in 1 .. l PROVE s[n] \in Listed(t)
    <3>1. n + 1 \in 1 .. l + 1
      OBVIOUS
    <3> QED
      BY <3>1, <1>3, <1>4 DEF Listed
  <2>3. x \in Listed(t)
    <3>1. 1 \in 1 .. l + 1
      OBVIOUS
    <3> QED
      BY <3>1, <1>3, <1>4 DEF Listed
  <2> QED
    BY <2>1, <2>2, <2>3, <1>4 DEF Listed
<1> QED
  BY <1>1, <1>3, <1>6, <1>7

LEMMA UpInList == Startup0!InList = Listed(upFreelist)
BY DEF Startup0!InList, Listed

\* a CPU goes on
UpGoes(c, from, to) ==
  /\ upPc[c] = from /\ upPc'[c] = to
  /\ \A d \in Startup0!CPU \ {c} : upPc'[d] = upPc[d]
  /\ upPc' \in [Startup0!CPU -> UpPoints]

LEMMA UpWent ==
  ASSUME UpTypes, NEW c \in Startup0!CPU, NEW from, NEW to \in UpPoints,
         Startup0!Goto(c, from, to)
  PROVE  UpGoes(c, from, to)
BY DEF UpTypes, Startup0!Goto, UpGoes

\* all but the boot CPU wait until there are processes
LEMMA UpAlone ==
  ASSUME UpControl, NEW c \in Startup0!CPU,
         upPc[c] \notin {"off", "entry", "mpmain", "scheduler"}, ~ upProcs
  PROVE  c = 0
BY DEF UpControl

UpEnters(from, to) ==
  \/ from = "alloc" /\ to = "alloc1"
  \/ from = "stack" /\ to = "stack1"
  \/ from = "free" /\ to = "free1"
  \/ from = "kinit2" /\ to = "kinit21"

LEMMA EnterKeeps ==
  ASSUME UpInv, NEW c \in Startup0!CPU, Startup0!Enter(c) PROVE UpInv'
<1>1. UpTypes /\ UpControl /\ UpLocks /\ UpPages /\ UpEarly
  BY DEF UpInv
<1>2. PICK from, to : UpEnters(from, to) /\ UpGoes(c, from, to)
  <2>1. PICK from, to : UpEnters(from, to) /\ Startup0!Goto(c, from, to)
    BY Zenon DEF Startup0!Enter, UpEnters
  <2>2. to \in UpPoints
    BY <2>1 DEF UpEnters, UpPoints, UpHolding, UpAccess, UpBooting, UpStarting
  <2> QED
    BY <1>1, <2>1, <2>2, UpWent
<1>3. /\ upUseLock => upLock = Nil /\ upLock' = c
      /\ ~ upUseLock => upLock' = upLock
      /\ upRead' = [upRead EXCEPT ![c] = upFreelist]
      /\ UNCHANGED <<upFreelist, upUseLock, upCode, upStack, upStarted, upNext, upPage, upProcs>>
  BY DEF Startup0!Enter
<1>4. upUseLock \/ c = 0
  <2>1. ASSUME ~ upUseLock PROVE ~ upProcs
    BY <1>1, <2>1 DEF UpControl, UpBooting, UpStarting
  <2> QED
    BY <2>1, <1>1, <1>2, UpAlone DEF UpGoes, UpEnters
<1>5. \A d \in Startup0!CPU : upPc[d] \notin UpHolding
  <2>1. CASE upUseLock
    BY <2>1, <1>1, <1>3, UpConstants DEF UpLocks
  <2>2. ASSUME ~ upUseLock, NEW d \in Startup0!CPU PROVE upPc[d] \notin UpHolding
    <3>1. CASE d = 0
      BY <3>1, <1>2, <1>4, <2>2 DEF UpGoes, UpEnters, UpHolding, UpAccess
    <3>2. CASE d # 0
      <4>1. ~ upProcs
        BY <1>1, <2>2 DEF UpControl, UpBooting, UpStarting
      <4> QED
        BY <3>2, <4>1, <1>1 DEF UpControl, UpHolding, UpAccess
    <3> QED
      BY <3>1, <3>2
  <2> QED
    BY <2>1, <2>2
<1>6. UpTypes'
  BY <1>1, <1>2, <1>3 DEF UpTypes, UpGoes
<1>7. UpControl'
  BY <1>1, <1>2, <1>3, UpConstants
  DEF UpControl, UpGoes, UpEnters, UpBooting, UpStarting
<1>8. UpLocks'
  <2>1. upRead'[c] = upFreelist
    BY <1>1, <1>3 DEF UpTypes
  <2>2. \A d \in Startup0!CPU : upPc'[d] \in UpHolding => d = c
    BY <1>2, <1>5 DEF UpGoes
  <2>3. upPc'[c] \in UpHolding
    BY <1>2 DEF UpGoes, UpEnters, UpHolding, UpAccess
  <2>4. UpAccess \subseteq UpHolding
    BY DEF UpHolding
  <2> QED
    BY <1>1, <1>3, <2>1, <2>2, <2>3, <2>4 DEF UpLocks
<1>9. UpPages'
  BY <1>1, <1>2, <1>3 DEF UpPages, UpGoes, UpEnters
<1>10. UpEarly'
  <2>1. upPc'[0] \in UpStarting => upPc[0] \in UpStarting
    BY <1>2, UpConstants DEF UpGoes, UpEnters, UpStarting
  <2>2. upPc'[0] \in UpBooting => upPc[0] \in UpBooting
    BY <1>2, UpConstants DEF UpGoes, UpEnters, UpStarting, UpBooting
  <2> QED
    BY <1>1, <1>3, <2>1, <2>2 DEF UpEarly
<1> QED
  BY <1>6, <1>7, <1>8, <1>9, <1>10 DEF UpInv

UpLeaves(from, to) ==
  \/ from = "alloc2" /\ to = "scheduler"
  \/ from = "free2" /\ to = "scheduler"
  \/ from = "stack2" /\ to = "args"
  \/ from = "kinit22" /\ to = "kinit"

LEMMA LeaveKeeps ==
  ASSUME UpInv, NEW c \in Startup0!CPU, Startup0!Leave(c) PROVE UpInv'
<1>1. UpTypes /\ UpControl /\ UpLocks /\ UpPages /\ UpEarly
  BY DEF UpInv
<1>2. PICK from, to : UpLeaves(from, to) /\ UpGoes(c, from, to)
  <2>1. PICK from, to : UpLeaves(from, to) /\ Startup0!Goto(c, from, to)
    BY Zenon DEF Startup0!Leave, UpLeaves
  <2>2. to \in UpPoints
    BY <2>1 DEF UpLeaves, UpPoints, UpHolding, UpAccess, UpBooting, UpStarting
  <2> QED
    BY <1>1, <2>1, <2>2, UpWent
<1>3. /\ upLock' = (IF upUseLock THEN Nil ELSE upLock)
      /\ upRead' = [upRead EXCEPT ![c] = <<>>]
      /\ UNCHANGED <<upFreelist, upUseLock, upCode, upStack, upStarted, upNext, upPage, upProcs>>
  BY DEF Startup0!Leave
<1>4. upPc[c] \in UpHolding /\ upPc'[c] \notin UpHolding
  BY <1>2 DEF UpGoes, UpLeaves, UpHolding, UpAccess
<1>5. \A d \in Startup0!CPU : upPc'[d] \notin UpHolding
  BY <1>1, <1>2, <1>4 DEF UpGoes, UpLocks
<1>6. UpTypes'
  <2>1. upRead' \in [Startup0!CPU -> Seq(Startup0!Page)]
    <3>1. PICK e \in Seq(Startup0!Page) : e = <<>>
      <4>1. <<>> \in Seq(Startup0!Page)
        OBVIOUS
      <4> QED
        BY <4>1, Zenon
    <3> QED
      BY <1>1, <1>3, <3>1 DEF UpTypes
  <2> QED
    BY <1>1, <1>2, <1>3, <2>1 DEF UpTypes, UpGoes
<1>7. UpControl'
  <2>1. c = 0 \/ to = "scheduler"
    BY <1>1, <1>2 DEF UpControl, UpGoes, UpLeaves, UpBooting, UpStarting
  <2>2. c = 0 /\ to = "scheduler" => upPc[0] \notin UpBooting
    BY <1>2 DEF UpGoes, UpLeaves, UpBooting, UpStarting
  <2> QED
    BY <1>1, <1>2, <1>3, <2>1, <2>2, UpConstants
    DEF UpControl, UpGoes, UpLeaves, UpBooting, UpStarting
<1>8. UpLocks'
  BY <1>1, <1>3, <1>5 DEF UpLocks, UpHolding
<1>9. UpPages'
  BY <1>1, <1>2, <1>3 DEF UpPages, UpGoes, UpLeaves
<1>10. UpEarly'
  <2>1. upPc'[0] \in UpStarting => upPc[0] \in UpStarting
    BY <1>2, UpConstants DEF UpGoes, UpLeaves, UpStarting
  <2>2. upPc'[0] \in UpBooting => upPc[0] \in UpBooting
    BY <1>2, UpConstants DEF UpGoes, UpLeaves, UpStarting, UpBooting
  <2> QED
    BY <1>1, <1>3, <2>1, <2>2 DEF UpEarly
<1> QED
  BY <1>6, <1>7, <1>8, <1>9, <1>10 DEF UpInv

UpTakes(from, to) ==
  \/ from = "alloc1" /\ to = "alloc2"
  \/ from = "stack1" /\ to = "stack2"

LEMMA TakeKeeps ==
  ASSUME UpInv, NEW c \in Startup0!CPU, Startup0!Take(c) PROVE UpInv'
<1>1. UpTypes /\ UpControl /\ UpLocks /\ UpPages /\ UpEarly
  BY DEF UpInv
<1>2. PICK from, to : UpTakes(from, to) /\ UpGoes(c, from, to)
  <2>1. PICK from, to : UpTakes(from, to) /\ Startup0!Goto(c, from, to)
    BY Zenon DEF Startup0!Take, UpTakes
  <2>2. to \in UpPoints
    BY <2>1 DEF UpTakes, UpPoints, UpHolding, UpAccess, UpBooting, UpStarting
  <2> QED
    BY <1>1, <2>1, <2>2, UpWent
<1>3. upRead[c] = upFreelist
  BY <1>1, <1>2 DEF UpLocks, UpGoes, UpTakes, UpAccess
<1>4. UNCHANGED <<upUseLock, upLock, upCode, upStack, upStarted, upNext, upRead, upProcs>>
  BY DEF Startup0!Take
<1>5. \/ upFreelist' = upFreelist /\ upPage' = upPage
      \/ /\ upFreelist # <<>> /\ upFreelist' = Tail(upFreelist)
         /\ upPage' = [upPage EXCEPT ![c] = Head(upFreelist)]
  BY <1>3 DEF Startup0!Take
<1>6. /\ upFreelist' \in Seq(Startup0!Page) /\ upPage' \in [Startup0!CPU -> UpSome]
      /\ \A d \in Startup0!CPU \ {c} : upPage'[d] = upPage[d]
      /\ Once(upFreelist')
      /\ Listed(upFreelist') \subseteq Listed(upFreelist)
      /\ \/ upPage'[c] = upPage[c]
         \/ upPage'[c] \in Listed(upFreelist) /\ upPage'[c] \notin Listed(upFreelist')
  <2>1. CASE upFreelist' = upFreelist /\ upPage' = upPage
    BY <2>1, <1>1 DEF UpTypes, UpPages
  <2>2. CASE /\ upFreelist # <<>> /\ upFreelist' = Tail(upFreelist)
             /\ upPage' = [upPage EXCEPT ![c] = Head(upFreelist)]
    <3>1. PICK s \in Seq(Startup0!Page) : s = upFreelist
      BY <1>1 DEF UpTypes
    <3>2. PICK t : t = Tail(s)
      OBVIOUS
    <3>3. PICK x : x = Head(s)
      OBVIOUS
    <3>4. s # <<>> /\ Once(s)
      BY <1>1, <2>2, <3>1 DEF UpPages
    <3>5. /\ x \in Startup0!Page /\ x \in Listed(s) /\ t \in Seq(Startup0!Page) /\ Once(t)
          /\ Listed(t) = Listed(s) \ {x}
      BY <3>2, <3>3, <3>4, HeadTaken
    <3>6. upFreelist' = t /\ upPage' = [upPage EXCEPT ![c] = x]
      BY <2>2, <3>1, <3>2, <3>3
    <3> QED
      BY <1>1, <3>1, <3>5, <3>6 DEF UpTypes, UpSome
  <2> QED
    BY <1>5, <2>1, <2>2
<1>7. UpTypes'
  BY <1>1, <1>2, <1>4, <1>6 DEF UpTypes, UpGoes
<1>8. c = 0 \/ upProcs
  BY <1>1, <1>2, UpAlone DEF UpGoes, UpTakes
<1>9. UpControl'
  BY <1>1, <1>2, <1>4, <1>6, <1>8, UpConstants
  DEF UpControl, UpGoes, UpTakes, UpBooting, UpStarting
<1>10. UpLocks'
  <2>1. \A d \in Startup0!CPU : upPc'[d] \in UpHolding <=> upPc[d] \in UpHolding
    BY <1>2 DEF UpGoes, UpTakes, UpHolding, UpAccess
  <2>2. \A d \in Startup0!CPU : upPc'[d] \notin UpAccess
    <3>1. upPc'[c] \notin UpAccess /\ upPc[c] \in UpHolding
      BY <1>2 DEF UpGoes, UpTakes, UpHolding, UpAccess
    <3>2. ASSUME NEW d \in Startup0!CPU, d # c PROVE upPc'[d] \notin UpAccess
      BY <1>1, <1>2, <3>1, <3>2 DEF UpLocks, UpGoes, UpHolding
    <3> QED
      BY <3>1, <3>2
  <2> QED
    BY <1>1, <1>4, <2>1, <2>2 DEF UpLocks
<1>11. UpPages'
  <2>1. \A d \in Startup0!CPU : upPc'[d] = "entry" <=> upPc[d] = "entry"
    BY <1>2 DEF UpGoes, UpTakes
  <2>2. \A d \in Startup0!CPU :
          upPc'[d] \in {"free", "free1", "kinit2", "kinit21"} => upPage'[d] # Nil
    BY <1>1, <1>2, <1>6 DEF UpGoes, UpTakes, UpPages
  <2>3. PICK L : L = Listed(upFreelist)
    OBVIOUS
  <2>4. PICK M : M = Listed(upFreelist')
    OBVIOUS
  <2>5. /\ M \subseteq L
        /\ \/ upPage'[c] = upPage[c]
           \/ upPage'[c] \in L /\ upPage'[c] \notin M
    <3>1. Listed(upFreelist') \subseteq Listed(upFreelist)
      BY <1>6
    <3>2. \/ upPage'[c] = upPage[c]
          \/ upPage'[c] \in Listed(upFreelist) /\ upPage'[c] \notin Listed(upFreelist')
      BY <1>6
    <3> QED
      BY <3>1, <3>2, <2>3, <2>4
  <2>6. \A d \in Startup0!CPU : upPage'[d] # Nil =>
          upPage'[d] \notin M /\ \A e \in Startup0!CPU \ {d} : upPage'[e] # upPage'[d]
    BY <1>1, <1>6, <2>3, <2>5 DEF UpPages
  <2>7. \A d \in Startup0!CPU : upStack[d] # Nil =>
          /\ upStack[d] \notin M /\ \A e \in Startup0!CPU : upPage'[e] # upStack[d]
          /\ \A e \in Startup0!CPU \ {d} : upStack[e] # upStack[d]
    BY <1>1, <1>6, <2>3, <2>5 DEF UpPages
  <2>8. (\E d \in Startup0!CPU : upPc'[d] = "entry") /\ upCode # Nil =>
          upCode \notin M
          /\ \A d \in Startup0!CPU : upPage'[d] # upCode /\ upStack[d] # upCode
    BY <1>1, <1>6, <2>1, <2>3, <2>5 DEF UpPages
  <2> QED
    BY <1>4, <1>6, <2>2, <2>4, <2>6, <2>7, <2>8 DEF UpPages
<1>12. UpEarly'
  <2>1. upPage'[0] = upPage[0] \/ upPage'[0] \in Listed(upFreelist)
    BY <1>6, UpConstants
  <2>2. upPc'[0] \in UpStarting => upPc[0] \in UpStarting
    BY <1>2, UpConstants DEF UpGoes, UpTakes, UpStarting
  <2>3. upPc'[0] \in UpBooting => upPc[0] \in UpBooting
    BY <1>2, UpConstants DEF UpGoes, UpTakes, UpStarting, UpBooting
  <2> QED
    BY <1>1, <1>4, <1>6, <2>1, <2>2, <2>3 DEF UpEarly
<1> QED
  BY <1>7, <1>9, <1>10, <1>11, <1>12 DEF UpInv

UpPuts(from, to) ==
  \/ from = "free1" /\ to = "free2"
  \/ from = "kinit21" /\ to = "kinit22"

LEMMA PutKeeps ==
  ASSUME UpInv, NEW c \in Startup0!CPU, Startup0!Put(c) PROVE UpInv'
<1>1. UpTypes /\ UpControl /\ UpLocks /\ UpPages /\ UpEarly
  BY DEF UpInv
<1>2. PICK from, to : UpPuts(from, to) /\ UpGoes(c, from, to)
  <2>1. PICK from, to : UpPuts(from, to) /\ Startup0!Goto(c, from, to)
    BY Zenon DEF Startup0!Put, UpPuts
  <2>2. to \in UpPoints
    BY <2>1 DEF UpPuts, UpPoints, UpHolding, UpAccess, UpBooting, UpStarting
  <2> QED
    BY <1>1, <2>1, <2>2, UpWent
<1>3. upRead[c] = upFreelist /\ upPage[c] # Nil
  BY <1>1, <1>2 DEF UpLocks, UpPages, UpGoes, UpPuts, UpAccess
<1>4. UNCHANGED <<upUseLock, upLock, upCode, upStack, upStarted, upNext, upRead, upProcs>>
  BY DEF Startup0!Put
<1>5. PICK x : x = upPage[c]
  OBVIOUS
<1>6. upFreelist' = <<x>> \o upFreelist /\ upPage' = [upPage EXCEPT ![c] = Nil]
  BY <1>3, <1>5, Zenon DEF Startup0!Put
<1>7. /\ upFreelist' \in Seq(Startup0!Page) /\ Once(upFreelist')
      /\ Listed(upFreelist') = Listed(upFreelist) \cup {x}
  <2>1. PICK s \in Seq(Startup0!Page) : s = upFreelist
    BY <1>1 DEF UpTypes
  <2>2. x \in Startup0!Page /\ x \notin Listed(s) /\ Once(s)
    BY <1>1, <1>3, <1>5, <2>1 DEF UpTypes, UpSome, UpPages
  <2>3. /\ <<x>> \o s \in Seq(Startup0!Page) /\ Once(<<x>> \o s)
        /\ Listed(<<x>> \o s) = Listed(s) \cup {x}
    BY <2>2, HeadPut
  <2> QED
    BY <1>6, <2>1, <2>3, Zenon
<1>8. /\ upPage' \in [Startup0!CPU -> UpSome] /\ upPage'[c] = Nil
      /\ \A d \in Startup0!CPU \ {c} : upPage'[d] = upPage[d]
  BY <1>1, <1>6 DEF UpTypes, UpSome
<1>9. UpTypes'
  BY <1>1, <1>2, <1>4, <1>7, <1>8 DEF UpTypes, UpGoes
<1>10. c = 0 \/ upProcs
  BY <1>1, <1>2, UpAlone DEF UpGoes, UpPuts
<1>11. UpControl'
  BY <1>1, <1>2, <1>4, <1>8, <1>10, UpConstants
  DEF UpControl, UpGoes, UpPuts, UpBooting, UpStarting
<1>12. UpLocks'
  <2>1. \A d \in Startup0!CPU : upPc'[d] \in UpHolding <=> upPc[d] \in UpHolding
    BY <1>2 DEF UpGoes, UpPuts, UpHolding, UpAccess
  <2>2. \A d \in Startup0!CPU : upPc'[d] \notin UpAccess
    <3>1. upPc'[c] \notin UpAccess /\ upPc[c] \in UpHolding
      BY <1>2 DEF UpGoes, UpPuts, UpHolding, UpAccess
    <3>2. ASSUME NEW d \in Startup0!CPU, d # c PROVE upPc'[d] \notin UpAccess
      BY <1>1, <1>2, <3>1, <3>2 DEF UpLocks, UpGoes, UpHolding
    <3> QED
      BY <3>1, <3>2
  <2> QED
    BY <1>1, <1>4, <2>1, <2>2 DEF UpLocks
<1>13. UpPages'
  <2>1. \A d \in Startup0!CPU : upPc'[d] = "entry" <=> upPc[d] = "entry"
    BY <1>2 DEF UpGoes, UpPuts
  <2>2. \A d \in Startup0!CPU :
          upPc'[d] \in {"free", "free1", "kinit2", "kinit21"} => upPage'[d] # Nil
    BY <1>1, <1>2, <1>8 DEF UpGoes, UpPuts, UpPages
  <2>3. PICK L : L = Listed(upFreelist)
    OBVIOUS
  <2>4. PICK M : M = Listed(upFreelist')
    OBVIOUS
  <2>5. M = L \cup {x}
    BY <1>7, <2>3, <2>4
  <2>6. \A d \in Startup0!CPU : upPage'[d] # Nil =>
          upPage'[d] \notin M /\ \A e \in Startup0!CPU \ {d} : upPage'[e] # upPage'[d]
    BY <1>1, <1>5, <1>8, <2>3, <2>5 DEF UpPages
  <2>7. \A d \in Startup0!CPU : upStack[d] # Nil =>
          /\ upStack[d] \notin M /\ \A e \in Startup0!CPU : upPage'[e] # upStack[d]
          /\ \A e \in Startup0!CPU \ {d} : upStack[e] # upStack[d]
    BY <1>1, <1>5, <1>8, <2>3, <2>5 DEF UpPages
  <2>8. (\E d \in Startup0!CPU : upPc'[d] = "entry") /\ upCode # Nil =>
          upCode \notin M
          /\ \A d \in Startup0!CPU : upPage'[d] # upCode /\ upStack[d] # upCode
    BY <1>1, <1>5, <1>8, <2>1, <2>3, <2>5 DEF UpPages
  <2> QED
    BY <1>4, <1>7, <2>2, <2>4, <2>6, <2>7, <2>8 DEF UpPages
<1>14. UpEarly'
  <2>1. upPc'[0] \notin UpStarting
    <3>1. CASE c = 0
      BY <1>2, <3>1 DEF UpGoes, UpPuts, UpStarting
    <3>2. CASE c # 0
      BY <1>1, <1>2, <1>10, <3>2, UpConstants DEF UpControl, UpGoes, UpBooting
    <3> QED
      BY <3>1, <3>2
  <2>2. upPc'[0] \in UpBooting => upPc[0] \in UpBooting
    BY <1>2, UpConstants DEF UpGoes, UpPuts, UpStarting, UpBooting
  <2> QED
    BY <1>1, <1>4, <2>1, <2>2 DEF UpEarly
<1> QED
  BY <1>9, <1>11, <1>12, <1>13, <1>14 DEF UpInv

-----------------------------------------------------------------------------
\* the steps that take no page and leave the lock alone
UpQuiet ==
  UNCHANGED <<upFreelist, upLock, upRead>>

\* who is between acquire() and release() is the same as before
LEMMA UpLocksKept ==
  ASSUME UpLocks, UpQuiet, upUseLock' = upUseLock,
         \A c \in Startup0!CPU :
           \/ upPc'[c] = upPc[c]
           \/ upPc'[c] \notin UpHolding /\ upPc[c] \notin UpHolding
  PROVE  UpLocks'
<1>1. \A c \in Startup0!CPU :
        /\ upPc'[c] \in UpHolding <=> upPc[c] \in UpHolding
        /\ upPc'[c] \in UpAccess => upPc[c] \in UpAccess
  BY DEF UpHolding
<1> QED
  BY <1>1 DEF UpLocks, UpQuiet

LEMMA NextCpuKeeps == ASSUME UpInv, Startup0!NextCpu PROVE UpInv'
<1>1. UpTypes /\ UpControl /\ UpLocks /\ UpPages /\ UpEarly
  BY DEF UpInv
<1>2. PICK to : /\ UpGoes(0, "others", to)
                /\ \/ to = "stack" /\ upNext < NCPU
                   \/ to = "kinit" /\ upNext = NCPU
  <2>1. PICK to : to = IF upNext < NCPU THEN "stack" ELSE "kinit"
    OBVIOUS
  <2>2. to \in UpPoints
    BY <2>1 DEF UpPoints, UpBooting, UpStarting
  <2>3. upPc[0] = "others" /\ upPc' = [upPc EXCEPT ![0] = to]
    BY <2>1 DEF Startup0!NextCpu
  <2>4. UpGoes(0, "others", to)
    BY <1>1, <2>2, <2>3, UpConstants DEF UpTypes, UpGoes
  <2>5. upNext < NCPU \/ upNext = NCPU
    BY <1>1, UpConstants DEF UpTypes
  <2>6. \/ to = "stack" /\ upNext < NCPU
        \/ to = "kinit" /\ upNext = NCPU
    BY <1>1, <2>1, <2>5, UpConstants DEF UpTypes
  <2> QED
    BY <2>4, <2>6
<1>3. UNCHANGED <<upFreelist, upUseLock, upLock, upCode, upStack, upStarted, upNext, upRead,
                  upPage, upProcs>>
  BY DEF Startup0!NextCpu
<1>4. UpTypes'
  BY <1>1, <1>2, <1>3 DEF UpTypes, UpGoes
<1>5. UpControl'
  BY <1>1, <1>2, <1>3, UpConstants DEF UpControl, UpGoes, UpBooting, UpStarting
<1>6. UpLocks'
  <2>1. \A c \in Startup0!CPU :
          \/ upPc'[c] = upPc[c]
          \/ upPc'[c] \notin UpHolding /\ upPc[c] \notin UpHolding
    BY <1>2 DEF UpGoes, UpHolding, UpAccess
  <2> QED
    BY <1>1, <1>3, <2>1, UpLocksKept DEF UpQuiet
<1>7. UpPages'
  BY <1>1, <1>2, <1>3 DEF UpPages, UpGoes
<1>8. UpEarly'
  BY <1>1, <1>2, <1>3 DEF UpEarly, UpGoes, UpBooting, UpStarting
<1> QED
  BY <1>4, <1>5, <1>6, <1>7, <1>8 DEF UpInv

LEMMA StartApKeeps == ASSUME UpInv, Startup0!StartAp PROVE UpInv'
<1>1. UpTypes /\ UpControl /\ UpLocks /\ UpPages /\ UpEarly
  BY DEF UpInv
<1>2. /\ upPc[0] = "args" /\ upCode' = upPage[0] /\ upPage' = [upPage EXCEPT ![0] = Nil]
      /\ upPc' = [upPc EXCEPT ![0] = "spin", ![upNext] = "entry"]
      /\ UNCHANGED <<upFreelist, upUseLock, upLock, upStack, upStarted, upNext, upRead, upProcs>>
  BY DEF Startup0!StartAp
<1>3. upNext \in Startup0!CPU /\ upNext # 0 /\ upPc[upNext] = "off"
  <2>1. upNext < NCPU
    BY <1>1, <1>2 DEF UpControl, UpStarting
  <2>2. upNext \in Startup0!CPU /\ upNext # 0
    BY <1>1, <2>1, UpConstants DEF UpTypes, Startup0!CPU
  <2> QED
    BY <1>1, <1>2, <2>2 DEF UpControl
<1>4. /\ upPc'[0] = "spin" /\ upPc'[upNext] = "entry"
      /\ \A d \in Startup0!CPU \ {0, upNext} : upPc'[d] = upPc[d]
      /\ upPc' \in [Startup0!CPU -> UpPoints]
  BY <1>1, <1>2, <1>3, UpConstants DEF UpTypes, UpPoints, UpBooting, UpStarting
<1>5. /\ upPage' \in [Startup0!CPU -> UpSome] /\ upPage'[0] = Nil /\ upCode' \in UpSome
      /\ \A d \in Startup0!CPU \ {0} : upPage'[d] = upPage[d]
  BY <1>1, <1>2, UpConstants DEF UpTypes, UpSome
<1>6. UpTypes'
  BY <1>1, <1>2, <1>4, <1>5 DEF UpTypes
<1>7. UpControl'
  <2>1. /\ upPc[0] \in UpStarting /\ upPc'[0] \in UpStarting \ {"others"}
        /\ upPc'[upNext] \notin UpBooting
    BY <1>2, <1>4 DEF UpBooting, UpStarting
  <2>2. \A c \in Startup0!CPU \ {0} : upPc'[c] \notin UpBooting
    BY <1>1, <1>3, <1>4, <2>1 DEF UpControl
  <2>3. upProcs' = (upPc'[0] \notin UpBooting)
        /\ upUseLock' = (upPc'[0] \notin UpBooting \ {"userinit"})
    BY <1>1, <1>2, <1>4, <2>1 DEF UpControl, UpBooting, UpStarting
  <2>4. ~ upProcs /\ upNext < NCPU
    BY <1>1, <1>2, <2>1 DEF UpControl, UpBooting, UpStarting
  <2>5. \A c \in Startup0!CPU \ {0} :
          upPc'[c] \in {"off", "entry", "mpmain", "scheduler"} /\ upPage'[c] = Nil
    BY <1>1, <1>3, <1>4, <1>5, <2>4 DEF UpControl
  <2>6. \A c \in Startup0!CPU : c > upNext => upPc'[c] = "off"
    <3>1. \A c \in Startup0!CPU : c > upNext => c # 0 /\ c # upNext
      BY <1>1, UpConstants DEF UpTypes, Startup0!CPU
    <3> QED
      BY <3>1, <1>1, <1>4 DEF UpControl
  <2>7. \A c \in Startup0!CPU : upPc'[c] = "entry" => c = upNext
    BY <1>1, <1>2, <1>4 DEF UpControl
  <2>8. \A c \in Startup0!CPU : upPc'[c] \in {"off", "entry"} => ~ upStarted[c]
    BY <1>1, <1>3, <1>4 DEF UpControl
  <2> QED
    BY <1>2, <1>4, <2>2, <2>3, <2>4, <2>5, <2>6, <2>7, <2>8 DEF UpControl
<1>8. UpLocks'
  <2>1. \A c \in Startup0!CPU :
          \/ upPc'[c] = upPc[c]
          \/ upPc'[c] \notin UpHolding /\ upPc[c] \notin UpHolding
    BY <1>2, <1>3, <1>4 DEF UpHolding, UpAccess
  <2> QED
    BY <1>1, <1>2, <2>1, UpLocksKept DEF UpQuiet
<1>9. UpPages'
  <2>1. \A d \in Startup0!CPU :
          upPc'[d] \in {"free", "free1", "kinit2", "kinit21"} => upPage'[d] # Nil
    BY <1>1, <1>3, <1>4, <1>5 DEF UpPages
  <2>2. PICK L : L = Listed(upFreelist)
    OBVIOUS
  <2>3. \A d \in Startup0!CPU : upPage'[d] # Nil =>
          upPage'[d] \notin L /\ \A e \in Startup0!CPU \ {d} : upPage'[e] # upPage'[d]
    BY <1>1, <1>5, <2>2 DEF UpPages
  <2>4. \A d \in Startup0!CPU : upStack[d] # Nil =>
          /\ upStack[d] \notin L /\ \A e \in Startup0!CPU : upPage'[e] # upStack[d]
          /\ \A e \in Startup0!CPU \ {d} : upStack[e] # upStack[d]
    BY <1>1, <1>5, <2>2 DEF UpPages
  <2>5. upCode' # Nil =>
          upCode' \notin L
          /\ \A d \in Startup0!CPU : upPage'[d] # upCode' /\ upStack[d] # upCode'
    BY <1>1, <1>2, <1>5, <2>2, UpConstants DEF UpPages
  <2>6. Once(upFreelist)
    BY <1>1 DEF UpPages
  <2> QED
    BY <1>2, <2>1, <2>2, <2>3, <2>4, <2>5, <2>6 DEF UpPages
<1>10. UpEarly'
  BY <1>1, <1>2, <1>4, <1>5 DEF UpEarly, UpBooting, UpStarting
<1> QED
  BY <1>6, <1>7, <1>8, <1>9, <1>10 DEF UpInv

LEMMA SpinStartedKeeps == ASSUME UpInv, Startup0!SpinStarted PROVE UpInv'
<1>1. UpTypes /\ UpControl /\ UpLocks /\ UpPages /\ UpEarly
  BY DEF UpInv
<1>2. UpGoes(0, "spin", "others")
  <2>1. "others" \in UpPoints
    BY DEF UpPoints, UpBooting, UpStarting
  <2> QED
    BY <1>1, <2>1, UpConstants DEF Startup0!SpinStarted, Startup0!Goto, UpTypes, UpGoes
<1>3. upStarted[upNext] /\ upNext' = upNext + 1
      /\ UNCHANGED <<upFreelist, upUseLock, upLock, upCode, upStack, upStarted, upRead, upPage, upProcs>>
  BY DEF Startup0!SpinStarted, Startup0!IsUp
<1>4. upNext < NCPU /\ upNext \in Startup0!CPU /\ upNext # 0 /\ upPc[upNext] \notin {"off", "entry"}
  <2>1. upNext < NCPU
    BY <1>1, <1>2 DEF UpControl, UpStarting, UpGoes
  <2>2. upNext \in Startup0!CPU /\ upNext # 0
    BY <1>1, <2>1, UpConstants DEF UpTypes, Startup0!CPU
  <2> QED
    BY <1>1, <1>3, <2>1, <2>2 DEF UpControl
<1>5. UpTypes'
  <2>1. upNext' \in 1 .. NCPU
    BY <1>1, <1>3, <1>4, UpConstants DEF UpTypes
  <2> QED
    BY <1>1, <1>2, <1>3, <2>1 DEF UpTypes, UpGoes
<1>6. UpControl'
  <2>1. \A c \in Startup0!CPU : c >= upNext + 1 => c > upNext /\ c # 0
    BY <1>1, UpConstants DEF UpTypes, Startup0!CPU
  <2>2. \A c \in Startup0!CPU : c > upNext' \/ c = upNext' => upPc'[c] = "off"
    <3>1. ASSUME NEW c \in Startup0!CPU, c > upNext' \/ c = upNext' PROVE upPc'[c] = "off"
      <4>1. c > upNext /\ c # 0
        BY <1>1, <1>3, <3>1, UpConstants DEF UpTypes, Startup0!CPU
      <4> QED
        BY <4>1, <1>1, <1>2 DEF UpControl, UpGoes
    <3> QED
      BY <3>1
  <2>3. \A c \in Startup0!CPU : upPc'[c] # "entry"
    BY <1>1, <1>2, <1>4 DEF UpControl, UpGoes
  <2> QED
    BY <1>1, <1>2, <1>3, <2>2, <2>3, UpConstants DEF UpControl, UpGoes, UpBooting, UpStarting
<1>7. UpLocks'
  <2>1. \A c \in Startup0!CPU :
          \/ upPc'[c] = upPc[c]
          \/ upPc'[c] \notin UpHolding /\ upPc[c] \notin UpHolding
    BY <1>2 DEF UpGoes, UpHolding, UpAccess
  <2> QED
    BY <1>1, <1>3, <2>1, UpLocksKept DEF UpQuiet
<1>8. UpPages'
  BY <1>1, <1>2, <1>3 DEF UpPages, UpGoes
<1>9. UpEarly'
  BY <1>1, <1>2, <1>3 DEF UpEarly, UpGoes, UpBooting, UpStarting
<1> QED
  BY <1>5, <1>6, <1>7, <1>8, <1>9 DEF UpInv

LEMMA ApEntryKeeps ==
  ASSUME UpInv, NEW c \in Startup0!CPU, Startup0!ApEntry(c) PROVE UpInv'
<1>1. UpTypes /\ UpControl /\ UpLocks /\ UpPages /\ UpEarly
  BY DEF UpInv
<1>2. UpGoes(c, "entry", "mpmain")
  <2>1. "mpmain" \in UpPoints
    BY DEF UpPoints
  <2> QED
    BY <1>1, <2>1 DEF Startup0!ApEntry, Startup0!Goto, UpTypes, UpGoes
<1>3. upStack' = [upStack EXCEPT ![c] = upCode]
      /\ UNCHANGED <<upFreelist, upUseLock, upLock, upCode, upStarted, upNext, upRead, upPage, upProcs>>
  BY DEF Startup0!ApEntry
<1>4. /\ upStack' \in [Startup0!CPU -> UpSome] /\ upStack'[c] = upCode
      /\ \A d \in Startup0!CPU \ {c} : upStack'[d] = upStack[d]
  BY <1>1, <1>3 DEF UpTypes
<1>5. c # 0 /\ upPc[0] = "spin" /\ c = upNext
  BY <1>1, <1>2, UpConstants DEF UpControl, UpGoes
<1>6. UpTypes'
  BY <1>1, <1>2, <1>3, <1>4 DEF UpTypes, UpGoes
<1>7. UpControl'
  BY <1>1, <1>2, <1>3, <1>5, UpConstants DEF UpControl, UpGoes, UpBooting, UpStarting
<1>8. UpLocks'
  <2>1. \A d \in Startup0!CPU :
          \/ upPc'[d] = upPc[d]
          \/ upPc'[d] \notin UpHolding /\ upPc[d] \notin UpHolding
    BY <1>2 DEF UpGoes, UpHolding, UpAccess
  <2> QED
    BY <1>1, <1>3, <2>1, UpLocksKept DEF UpQuiet
<1>9. UpPages'
  <2>1. \A d \in Startup0!CPU : upPc'[d] # "entry"
    BY <1>1, <1>2, <1>5 DEF UpControl, UpGoes
  <2>2. upCode # Nil => upCode \notin Listed(upFreelist)
          /\ \A d \in Startup0!CPU : upPage[d] # upCode /\ upStack[d] # upCode
    BY <1>1, <1>2 DEF UpPages, UpGoes
  <2>3. \A d \in Startup0!CPU : upStack'[d] # Nil =>
          /\ upStack'[d] \notin Listed(upFreelist) /\ \A e \in Startup0!CPU : upPage[e] # upStack'[d]
          /\ \A e \in Startup0!CPU \ {d} : upStack'[e] # upStack'[d]
    BY <1>1, <1>4, <2>2 DEF UpPages
  <2>4. \A d \in Startup0!CPU :
          upPc'[d] \in {"free", "free1", "kinit2", "kinit21"} => upPage[d] # Nil
    BY <1>1, <1>2 DEF UpPages, UpGoes
  <2> QED
    BY <1>1, <1>3, <2>1, <2>3, <2>4 DEF UpPages
<1>10. UpEarly'
  <2>1. upPc'[0] = upPc[0]
    BY <1>2, <1>5, UpConstants DEF UpGoes
  <2> QED
    BY <1>1, <1>3, <1>4, <2>1 DEF UpEarly
<1> QED
  BY <1>6, <1>7, <1>8, <1>9, <1>10 DEF UpInv

LEMMA MpmainKeeps ==
  ASSUME UpInv, NEW c \in Startup0!CPU, Startup0!Mpmain(c) PROVE UpInv'
<1>1. UpTypes /\ UpControl /\ UpLocks /\ UpPages /\ UpEarly
  BY DEF UpInv
<1>2. UpGoes(c, "mpmain", "scheduler")
  <2>1. "scheduler" \in UpPoints
    BY DEF UpPoints
  <2> QED
    BY <1>1, <2>1 DEF Startup0!Mpmain, Startup0!Goto, UpTypes, UpGoes
<1>3. upStarted' = [upStarted EXCEPT ![c] = TRUE]
      /\ UNCHANGED <<upFreelist, upUseLock, upLock, upCode, upStack, upNext, upRead, upPage, upProcs>>
  BY DEF Startup0!Mpmain, Startup0!Announced
<1>4. /\ upStarted' \in [Startup0!CPU -> BOOLEAN]
      /\ \A d \in Startup0!CPU \ {c} : upStarted'[d] = upStarted[d]
  BY <1>1, <1>3 DEF UpTypes
<1>5. UpTypes'
  BY <1>1, <1>2, <1>3, <1>4 DEF UpTypes, UpGoes
<1>6. UpControl'
  <2>1. \A d \in Startup0!CPU : upPc'[d] \in {"off", "entry"} => ~ upStarted'[d]
    BY <1>1, <1>2, <1>4 DEF UpControl, UpGoes
  <2>2. upPc'[0] \in UpBooting <=> upPc[0] \in UpBooting
    BY <1>2, UpConstants DEF UpGoes, UpBooting, UpStarting
  <2>3. upPc'[0] \in UpBooting => upPc'[0] = upPc[0]
    BY <1>2, UpConstants DEF UpGoes, UpBooting, UpStarting
  <2>4. \A d \in Startup0!CPU : upPc'[d] = "off" <=> upPc[d] = "off"
    BY <1>2 DEF UpGoes
  <2>5. upPc'[0] = "spin" <=> upPc[0] = "spin"
    BY <1>2, UpConstants DEF UpGoes
  <2>6. UpStarting \subseteq UpBooting
    BY DEF UpBooting
  <2>7. \A d \in Startup0!CPU : upPc'[d] = "entry" <=> upPc[d] = "entry"
    BY <1>2 DEF UpGoes
  <2>8. \A d \in Startup0!CPU \ {0} : upPc'[d] \notin UpBooting
    BY <1>1, <1>2 DEF UpControl, UpGoes, UpBooting, UpStarting
  <2>9. ~ upProcs => \A d \in Startup0!CPU \ {0} :
          upPc'[d] \in {"off", "entry", "mpmain", "scheduler"} /\ upPage[d] = Nil
    BY <1>1, <1>2 DEF UpControl, UpGoes
  <2>10. upProcs = (upPc'[0] \notin UpBooting)
         /\ upUseLock = (upPc'[0] \notin UpBooting \ {"userinit"})
    BY <1>1, <2>2, <2>3 DEF UpControl
  <2> QED
    BY <1>1, <1>3, <2>1, <2>3, <2>4, <2>5, <2>6, <2>7, <2>8, <2>9, <2>10, UpConstants
    DEF UpControl
<1>7. UpLocks'
  <2>1. \A d \in Startup0!CPU :
          \/ upPc'[d] = upPc[d]
          \/ upPc'[d] \notin UpHolding /\ upPc[d] \notin UpHolding
    BY <1>2 DEF UpGoes, UpHolding, UpAccess
  <2> QED
    BY <1>1, <1>3, <2>1, UpLocksKept DEF UpQuiet
<1>8. UpPages'
  BY <1>1, <1>2, <1>3 DEF UpPages, UpGoes
<1>9. UpEarly'
  <2>1. upPc'[0] \in UpBooting => upPc'[0] = upPc[0]
    BY <1>2, UpConstants DEF UpGoes, UpBooting, UpStarting
  <2>2. UpStarting \subseteq UpBooting
    BY DEF UpBooting
  <2> QED
    BY <1>1, <1>3, <2>1, <2>2 DEF UpEarly
<1> QED
  BY <1>5, <1>6, <1>7, <1>8, <1>9 DEF UpInv

LEMMA FreerangeKeeps == ASSUME UpInv, Startup0!Freerange PROVE UpInv'
<1>1. UpTypes /\ UpControl /\ UpLocks /\ UpPages /\ UpEarly
  BY DEF UpInv
<1>2. UpGoes(0, "kinit", "kinit2")
  <2>1. "kinit2" \in UpPoints
    BY DEF UpPoints, UpBooting
  <2> QED
    BY <1>1, <2>1, UpConstants DEF Startup0!Freerange, UpTypes, UpGoes
<1>3. PICK g : g = CHOOSE h \in Startup0!Missing : TRUE
  OBVIOUS
<1>4. /\ upPage' = [upPage EXCEPT ![0] = g]
      /\ UNCHANGED <<upFreelist, upUseLock, upLock, upCode, upStack, upStarted, upNext, upRead, upProcs>>
  BY <1>3 DEF Startup0!Freerange
<1>5. g \in Late /\ g \notin Listed(upFreelist)
  <2>1. g \in Startup0!Missing
    BY <1>3 DEF Startup0!Freerange
  <2> QED
    BY <2>1, UpInList DEF Startup0!Missing
<1>6. g \in Startup0!Page /\ g # Nil /\ g \notin Early
  BY <1>5, UpConstants
<1>7. /\ upPage' \in [Startup0!CPU -> UpSome] /\ upPage'[0] = g
      /\ \A d \in Startup0!CPU \ {0} : upPage'[d] = upPage[d]
  BY <1>1, <1>4, <1>6, UpConstants DEF UpTypes, UpSome
<1>8. upPc[0] \in UpBooting /\ upPc[0] \notin UpStarting /\ ~ upProcs
  BY <1>1, <1>2 DEF UpGoes, UpControl, UpBooting, UpStarting
<1>9. \A d \in Startup0!CPU \ {0} : upPage'[d] = Nil
  BY <1>1, <1>7, <1>8 DEF UpControl
<1>10. UpTypes'
  BY <1>1, <1>2, <1>4, <1>7 DEF UpTypes, UpGoes
<1>11. UpControl'
  BY <1>1, <1>2, <1>4, <1>7, UpConstants DEF UpControl, UpGoes, UpBooting, UpStarting
<1>12. UpLocks'
  <2>1. \A d \in Startup0!CPU :
          \/ upPc'[d] = upPc[d]
          \/ upPc'[d] \notin UpHolding /\ upPc[d] \notin UpHolding
    BY <1>2 DEF UpGoes, UpHolding, UpAccess
  <2> QED
    BY <1>1, <1>4, <2>1, UpLocksKept DEF UpQuiet
<1>13. UpPages'
  <2>1. \A d \in Startup0!CPU : upPc'[d] # "entry"
    BY <1>1, <1>2 DEF UpControl, UpGoes
  <2>2. \A d \in Startup0!CPU :
          upPc'[d] \in {"free", "free1", "kinit2", "kinit21"} => upPage'[d] # Nil
    BY <1>1, <1>2, <1>6, <1>7 DEF UpGoes, UpPages
  <2>3. PICK L : L = Listed(upFreelist)
    OBVIOUS
  <2>4. \A d \in Startup0!CPU : upPage'[d] # Nil =>
          upPage'[d] \notin L /\ \A e \in Startup0!CPU \ {d} : upPage'[e] # upPage'[d]
    BY <1>5, <1>6, <1>7, <1>9, <2>3
  <2>5. \A d \in Startup0!CPU : upStack[d] # Nil =>
          upStack[d] \in Early /\ upStack[d] \notin L
          /\ \A e \in Startup0!CPU \ {d} : upStack[e] # upStack[d]
    BY <1>1, <1>8, <2>3 DEF UpPages, UpEarly
  <2>6. \A d \in Startup0!CPU : upStack[d] # Nil =>
          \A e \in Startup0!CPU : upPage'[e] # upStack[d]
    BY <2>5, <1>6, <1>7, <1>9
  <2>7. Once(upFreelist)
    BY <1>1 DEF UpPages
  <2> QED
    BY <1>4, <2>1, <2>2, <2>3, <2>4, <2>5, <2>6, <2>7 DEF UpPages
<1>14. UpEarly'
  <2>1. upPc'[0] \notin UpStarting
    BY <1>2 DEF UpGoes, UpStarting
  <2> QED
    BY <1>1, <1>4, <1>8, <2>1 DEF UpEarly
<1> QED
  BY <1>10, <1>11, <1>12, <1>13, <1>14 DEF UpInv

LEMMA UseLockKeeps == ASSUME UpInv, Startup0!UseLock PROVE UpInv'
<1>1. UpTypes /\ UpControl /\ UpLocks /\ UpPages /\ UpEarly
  BY DEF UpInv
<1>2. UpGoes(0, "kinit", "userinit")
  <2>1. "userinit" \in UpPoints
    BY DEF UpPoints, UpBooting
  <2> QED
    BY <1>1, <2>1, UpConstants DEF Startup0!UseLock, UpTypes, UpGoes
<1>3. /\ upUseLock'
      /\ UNCHANGED <<upFreelist, upLock, upCode, upStack, upStarted, upNext, upRead, upPage, upProcs>>
  BY DEF Startup0!UseLock
<1>4. ~ upUseLock /\ ~ upProcs
  BY <1>1, <1>2 DEF UpControl, UpGoes, UpBooting, UpStarting
<1>5. UpTypes'
  <2>1. upUseLock' \in BOOLEAN
    BY DEF Startup0!UseLock
  <2> QED
    BY <1>1, <1>2, <1>3, <2>1 DEF UpTypes, UpGoes
<1>6. UpControl'
  <2>1. upUseLock' = TRUE
    BY DEF Startup0!UseLock
  <2> QED
    BY <1>1, <1>2, <1>3, <1>4, <2>1, UpConstants DEF UpControl, UpGoes, UpBooting, UpStarting
<1>7. UpLocks'
  <2>1. \A d \in Startup0!CPU : upPc'[d] \notin UpHolding
    <3>1. ASSUME NEW d \in Startup0!CPU \ {0} PROVE upPc'[d] \notin UpHolding
      BY <1>1, <1>2, <1>4 DEF UpControl, UpGoes, UpHolding, UpAccess
    <3>2. upPc'[0] \notin UpHolding
      BY <1>2 DEF UpGoes, UpHolding, UpAccess
    <3> QED
      BY <3>1, <3>2
  <2> QED
    BY <1>1, <1>3, <1>4, <2>1 DEF UpLocks, UpHolding
<1>8. UpPages'
  BY <1>1, <1>2, <1>3 DEF UpPages, UpGoes
<1>9. UpEarly'
  BY <1>1, <1>2, <1>3 DEF UpEarly, UpGoes, UpBooting, UpStarting
<1> QED
  BY <1>5, <1>6, <1>7, <1>8, <1>9 DEF UpInv

LEMMA UserinitKeeps == ASSUME UpInv, Startup0!Userinit PROVE UpInv'
<1>1. UpTypes /\ UpControl /\ UpLocks /\ UpPages /\ UpEarly
  BY DEF UpInv
<1>2. UpGoes(0, "userinit", "mpmain")
  <2>1. "mpmain" \in UpPoints
    BY DEF UpPoints
  <2> QED
    BY <1>1, <2>1, UpConstants DEF Startup0!Userinit, Startup0!Goto, UpTypes, UpGoes
<1>3. /\ upProcs' = TRUE
      /\ UNCHANGED <<upFreelist, upUseLock, upLock, upCode, upStack, upStarted, upNext, upRead, upPage>>
  BY DEF Startup0!Userinit
<1>4. UpTypes'
  BY <1>1, <1>2, <1>3 DEF UpTypes, UpGoes
<1>5. UpControl'
  BY <1>1, <1>2, <1>3, UpConstants DEF UpControl, UpGoes, UpBooting, UpStarting
<1>6. UpLocks'
  <2>1. \A d \in Startup0!CPU :
          \/ upPc'[d] = upPc[d]
          \/ upPc'[d] \notin UpHolding /\ upPc[d] \notin UpHolding
    BY <1>2 DEF UpGoes, UpHolding, UpAccess
  <2> QED
    BY <1>1, <1>3, <2>1, UpLocksKept DEF UpQuiet
<1>7. UpPages'
  BY <1>1, <1>2, <1>3 DEF UpPages, UpGoes
<1>8. UpEarly'
  BY <1>2 DEF UpEarly, UpGoes, UpBooting, UpStarting
<1> QED
  BY <1>4, <1>5, <1>6, <1>7, <1>8 DEF UpInv

LEMMA RunKeeps ==
  ASSUME UpInv, NEW c \in Startup0!CPU, Startup0!Run(c) PROVE UpInv'
<1>1. UpTypes /\ UpControl /\ UpLocks /\ UpPages /\ UpEarly
  BY DEF UpInv
<1>2. PICK to : /\ UpGoes(c, "scheduler", to)
                /\ to = "alloc" \/ (to = "free" /\ upPage[c] # Nil)
  <2>1. PICK to : to = IF upPage[c] = Nil THEN "alloc" ELSE "free"
    OBVIOUS
  <2>2. to = "alloc" \/ (to = "free" /\ upPage[c] # Nil)
    BY <2>1
  <2>3. to \in UpPoints
    BY <2>2 DEF UpPoints
  <2>4. upPc[c] = "scheduler" /\ upPc' = [upPc EXCEPT ![c] = to]
    BY <2>1 DEF Startup0!Run
  <2>5. UpGoes(c, "scheduler", to)
    BY <1>1, <2>3, <2>4 DEF UpTypes, UpGoes
  <2> QED
    BY <2>2, <2>5
<1>3. /\ upProcs
      /\ UNCHANGED <<upFreelist, upUseLock, upLock, upCode, upStack, upStarted, upNext, upRead,
                     upPage, upProcs>>
  BY DEF Startup0!Run, Startup0!HasProcess
<1>4. upPc[0] \notin UpBooting /\ upPc'[0] \notin UpBooting
  <2>1. upPc[0] \notin UpBooting
    BY <1>1, <1>3 DEF UpControl
  <2>2. to \notin UpBooting
    BY <1>2 DEF UpBooting, UpStarting
  <2> QED
    BY <1>2, <2>1, <2>2, UpConstants DEF UpGoes
<1>5. UpTypes'
  BY <1>1, <1>2, <1>3 DEF UpTypes, UpGoes
<1>6. UpControl'
  <2>1. to \notin UpBooting /\ to \notin {"off", "entry"} /\ UpStarting \subseteq UpBooting
        /\ "spin" \in UpStarting
    BY <1>2 DEF UpBooting, UpStarting
  <2>2. upPc[0] # "spin" /\ upPc'[0] # "spin"
    BY <1>4, <2>1
  <2>3. \A d \in Startup0!CPU : upPc'[d] \in {"off", "entry"} => upPc[d] = upPc'[d]
    BY <1>2, <2>1 DEF UpGoes
  <2>4. \A d \in Startup0!CPU : upPc[d] = "off" => upPc'[d] = "off"
    BY <1>2 DEF UpGoes
  <2>5. upPc'[0] \notin {"off", "entry"} /\ \A d \in Startup0!CPU \ {0} : upPc'[d] \notin UpBooting
    BY <1>1, <1>2, <2>1, UpConstants DEF UpControl, UpGoes
  <2>6. upProcs' = (upPc'[0] \notin UpBooting)
        /\ upUseLock' = (upPc'[0] \notin UpBooting \ {"userinit"})
    BY <1>1, <1>3, <1>4 DEF UpControl
  <2>7. \A d \in Startup0!CPU : d > upNext \/ d = upNext => upPc'[d] = "off"
    BY <1>1, <2>2, <2>4 DEF UpControl
  <2>8. \A d \in Startup0!CPU : upPc'[d] # "entry"
    BY <1>1, <2>2, <2>3 DEF UpControl
  <2>9. \A d \in Startup0!CPU : upPc'[d] \in {"off", "entry"} => ~ upStarted[d]
    BY <1>1, <2>3 DEF UpControl
  <2> QED
    BY <1>3, <1>4, <2>1, <2>5, <2>6, <2>7, <2>8, <2>9 DEF UpControl
<1>7. UpLocks'
  <2>1. \A d \in Startup0!CPU :
          \/ upPc'[d] = upPc[d]
          \/ upPc'[d] \notin UpHolding /\ upPc[d] \notin UpHolding
    BY <1>2 DEF UpGoes, UpHolding, UpAccess
  <2> QED
    BY <1>1, <1>3, <2>1, UpLocksKept DEF UpQuiet
<1>8. UpPages'
  BY <1>1, <1>2, <1>3 DEF UpPages, UpGoes
<1>9. UpEarly'
  BY <1>4 DEF UpEarly, UpBooting
<1> QED
  BY <1>5, <1>6, <1>7, <1>8, <1>9 DEF UpInv

-----------------------------------------------------------------------------
LEMMA UpSame == ASSUME UpInv, UNCHANGED upVars PROVE UpInv'
<1>1. UpTypes /\ UpControl /\ UpLocks /\ UpPages /\ UpEarly
  BY DEF UpInv
<1>2. UNCHANGED <<upPc, upFreelist, upUseLock, upLock, upCode, upStack, upStarted, upNext,
                  upRead, upPage, upProcs>>
  BY DEF upVars
<1>3. UpTypes' /\ UpControl' /\ UpLocks'
  BY <1>1, <1>2 DEF UpTypes, UpControl, UpLocks
<1>4. UpPages' /\ UpEarly'
  BY <1>1, <1>2 DEF UpPages, UpEarly
<1> QED
  BY <1>3, <1>4 DEF UpInv

LEMMA UpStep == ASSUME UpInv, Startup0!Next PROVE UpInv'
<1>1. CASE Startup0!Boot
  BY <1>1, NextCpuKeeps, StartApKeeps, SpinStartedKeeps, FreerangeKeeps, UseLockKeeps,
     UserinitKeeps DEF Startup0!Boot
<1>2. CASE Startup0!Spin
  <2>1. UNCHANGED upVars
    BY <1>2 DEF Startup0!Spin, Startup0!vars, upVars
  <2> QED
    BY <2>1, UpSame
<1>3. ASSUME NEW c \in Startup0!CPU, Startup0!Step(c) PROVE UpInv'
  BY <1>3, EnterKeeps, TakeKeeps, PutKeeps, LeaveKeeps, ApEntryKeeps, MpmainKeeps, RunKeeps
  DEF Startup0!Step
<1> QED
  BY <1>1, <1>2, <1>3 DEF Startup0!Next

LEMMA UpCorrect ==
  ASSUME UpInv
  PROVE  Startup0!OwnStack /\ Startup0!PagesOnce /\ Startup0!ReleasesWhatItHolds
<1>1. UpTypes /\ UpLocks /\ UpPages
  BY DEF UpInv
<1>2. PICK L : L = Listed(upFreelist)
  OBVIOUS
<1>3. Startup0!InList = L
  BY <1>2, UpInList
<1>4. Nil \notin L
  <2>1. PICK s \in Seq(Startup0!Page) : s = upFreelist
    BY <1>1 DEF UpTypes
  <2>2. \A n \in DOMAIN s : s[n] \in Startup0!Page
    OBVIOUS
  <2> QED
    BY <1>2, <2>1, <2>2, UpConstants DEF Listed
<1>5. Startup0!OwnStack
  BY <1>1, <1>2, <1>3, <1>4 DEF UpPages, Startup0!OwnStack
<1>6. Startup0!PagesOnce
  BY <1>1, <1>2, <1>3 DEF UpPages, Once, Startup0!PagesOnce
<1>7. Startup0!ReleasesWhatItHolds
  BY <1>1 DEF UpLocks, UpHolding, Startup0!ReleasesWhatItHolds, Startup0!MayRelease
<1> QED
  BY <1>5, <1>6, <1>7

LEMMA UpLibrary ==
  \A S : /\ Startup0!IsFiniteSet(S) <=> IsFiniteSet(S)
         /\ Startup0!Cardinality(S) = Cardinality(S)
BY DEF Startup0!IsFiniteSet, IsFiniteSet, Startup0!Cardinality, Cardinality

\* freerange() of kinit1() lists each page once
LEMMA EarlyListed ==
  \E s \in Seq(Early) : s = Startup0!SetToSeq(Early) /\ Once(s)
<1>1. PICK l : l = Cardinality(Early)
  OBVIOUS
<1>2. IsFiniteSet(Early)
  BY SharedAssumption, UpLibrary DEF Startup0!StartupAssumption
<1>3. l \in Nat /\ ExistsBijection(1 .. l, Early)
  BY <1>1, <1>2, FS_CardinalityType
<1>4. PICK f \in Bijection(1 .. l, Early) : TRUE
  BY <1>3 DEF ExistsBijection
<1>5. f \in [1 .. l -> Early] /\ Startup0!IsInjective(f)
  BY <1>4 DEF Bijection, Injection, IsInjective, Startup0!IsInjective
<1>6. PICK s : s = Startup0!SetToSeq(Early)
  OBVIOUS
<1>7. s \in [1 .. l -> Early] /\ Startup0!IsInjective(s)
  <2>1. s = CHOOSE g \in [1 .. l -> Early] : Startup0!IsInjective(g)
    BY <1>1, <1>6, UpLibrary, Zenon DEF Startup0!SetToSeq
  <2> QED
    BY <1>5, <2>1, Zenon
<1>8. s \in Seq(Early)
  BY <1>3, <1>7 DEF Seq
<1>9. Once(s)
  BY <1>7 DEF Once, Startup0!IsInjective
<1> QED
  BY <1>6, <1>8, <1>9

LEMMA UpInit == Startup0!Init => UpInv
<1> SUFFICES ASSUME Startup0!Init PROVE UpInv
  OBVIOUS
<1>1. PICK s \in Seq(Early) : s = upFreelist /\ Once(s)
  BY EarlyListed DEF Startup0!Init
<1>2. /\ \A c \in Startup0!CPU : upPc[c] = (IF c = 0 THEN "others" ELSE "off")
      /\ upPc[0] = "others"
      /\ upPc \in [Startup0!CPU -> UpPoints]
  BY UpConstants DEF Startup0!Init, UpPoints, UpBooting, UpStarting
<1>3. /\ upUseLock = FALSE /\ upLock = Nil /\ upCode = Nil
      /\ upStack = [c \in Startup0!CPU |-> Nil] /\ upStarted = [c \in Startup0!CPU |-> FALSE]
      /\ upNext = 1 /\ upPage = [c \in Startup0!CPU |-> Nil] /\ upProcs = FALSE
  BY DEF Startup0!Init
<1>4. upRead \in [Startup0!CPU -> Seq(Startup0!Page)]
  <2>1. PICK e \in Seq(Startup0!Page) : e = <<>>
    <3>1. <<>> \in Seq(Startup0!Page)
      OBVIOUS
    <3> QED
      BY <3>1, Zenon
  <2> QED
    BY <2>1 DEF Startup0!Init
<1>5. Listed(s) \subseteq Early
  BY DEF Listed
<1>6. UpTypes
  <2>1. s \in Seq(Startup0!Page)
    BY UpConstants
  <2>2. upNext \in 1 .. NCPU
    BY <1>3, UpConstants
  <2> QED
    BY <1>1, <1>2, <1>3, <1>4, <2>1, <2>2 DEF UpTypes, UpSome
<1>7. UpControl
  <2>1. \A c \in Startup0!CPU : c > 1 \/ c = 1 => c # 0
    OBVIOUS
  <2> QED
    BY <1>2, <1>3, <2>1, UpConstants DEF UpControl, UpBooting, UpStarting
<1>8. UpLocks
  BY <1>2, <1>3 DEF UpLocks, UpHolding, UpAccess
<1>9. UpPages
  BY <1>1, <1>2, <1>3 DEF UpPages
<1>10. UpEarly
  BY <1>1, <1>3, <1>5, UpConstants DEF UpEarly
<1> QED
  BY <1>6, <1>7, <1>8, <1>9, <1>10 DEF UpInv

\* main.c, kalloc.c: for any number of CPUs and pages, each CPU starts on a stack of its
\* own, a page has one owner also while the free list has no lock, and a CPU releases
\* the lock it has acquired
THEOREM StartIsCorrect == SharedSpec => []StartCorrect
<1>1. SharedInit => (part = "startup" => UpInv)
  BY UpInit DEF SharedInit
<1>2. (part = "startup" => UpInv) /\ [SharedStep]_sharedVars
        => (part = "startup" => UpInv)'
  BY UpStep, UpSame DEF SharedStep, sharedVars
<1>3. (part = "startup" => UpInv) => StartCorrect
  BY UpCorrect DEF StartCorrect
<1> QED
  BY <1>1, <1>2, <1>3, PTL DEF SharedSpec
=============================================================================
