--------------------------- MODULE StorageProofs ---------------------------
(***************************************************************************)
(* What keeps the disk, for every value of the constants: the log, the     *)
(* disk driver, the buffer cache and the inode cache of MCStorage, proved  *)
(* correct as they run there.  The proof about the buffer cache is in      *)
(* BufferCache.                                                            *)
(***************************************************************************)
EXTENDS MCStorage, SequenceTheorems, FunctionTheorems, FiniteSetTheorems, TLAPS

-----------------------------------------------------------------------------
(* LogCorrect, for any number of processes and blocks: the log makes the operations *)
(* of a group durable together, wherever the machine crashes, and begin_op()        *)
(* reserves enough room for them.  The room is counted in pairs: each operation     *)
(* that is under way has MAXOPBLOCKS blocks reserved, less one for each block it    *)
(* has recorded.  The rest of the invariant says, by phase of a commit or of a      *)
(* recovery, how the header, the pinned buffers and the blocks already copied       *)
(* belong together.                                                                 *)

\* an operation writes fewer blocks than are reserved for it, and the log has room for
\* one operation, or for those that begin_op() lets in together, and for one block more.
\* In the code the sizes are 30, 10 and 30: an operation may write up to 9 blocks.
RoomAssumption ==
  /\ OpBlocks < MAXOPBLOCKS /\ OpBlocks + 1 < LogBlocks
  /\ LOGSIZE + 2 * OpBlocks + 1 < 2 * MAXOPBLOCKS + LogBlocks

LogAssumption ==
  /\ SizesAssumption /\ NoneAssumption /\ RoomAssumption
  /\ IsFiniteSet(Proc)

\* the processes that are inside an operation
Active == {p \in Proc : pc[p] \in {"in", "check", "record"}}

\* the blocks that operations under way have written and recorded, by operation
Recorded == {pb \in Proc \X Block : pb[2] \in wrote[pb[1]] /\ pb[2] \in ToSet(lh)}

Typed ==
  /\ TypeOK
  /\ head \in Seq(Block) /\ Len(head) <= LOGSIZE
  /\ lh \in Seq(Block) /\ Len(lh) <= LOGSIZE
  /\ \A p \in Proc : IsFiniteSet(wrote[p])

\* begin_op() counts operations, and reserves room for each
Counted ==
  /\ outstanding = Cardinality(Active)
  /\ committing # "idle" => Active = {}
  /\ \A p \in Proc : p \notin Active => wrote[p] = {}
  /\ \A p \in Proc : Cardinality(wrote[p]) <= OpBlocks
  /\ committing = "idle" /\ Active = {} => lh = <<>>

Reserved == Len(lh) + outstanding * MAXOPBLOCKS <= LOGSIZE + Cardinality(Recorded)

\* an operation that is left alone has written all there is in the log, or it was not
\* alone before
Alone ==
  \A p \in Proc :
    Active = {p} =>
      \/ ToSet(lh) \subseteq wrote[p]
      \/ Len(lh) + 2 * MAXOPBLOCKS <= LOGSIZE + Cardinality(Recorded) + OpBlocks

\* the buffer of a block differs from the block at home only while it is pinned
\* by the log or locked by who changes it
Held ==
  /\ \A p \in Proc : buf[p] # None <=> pc[p] \in {"check", "record"}
  /\ \A p \in Proc : buf[p] # None => buf[p] \in wrote[p] /\ cache[buf[p]] # None
  /\ \A b \in dirty : cache[b] # None
  /\ \A b \in Block :
       b \notin dirty /\ (\A p \in Proc : buf[p] # b) => cache[b] \in {None, home[b]}

\* struct log, the header and the pinned blocks, by phase of the commit
Formed ==
  /\ committing \in {"idle", "write_log", "write_head"} => head = <<>> /\ dirty = ToSet(lh)
  /\ committing \in {"install", "clear", "reinstall", "reclear"} => lh = head
  /\ committing = "end" => lh = <<>> /\ head = <<>>
  /\ committing = "read_head" => lh = <<>>
  /\ committing = "write_head" => lh # <<>>
  /\ committing = "install" => dirty = {lh[i] : i \in tail + 1 .. Len(lh)}
  /\ committing \in {"clear", "end", "read_head", "reinstall", "reclear"} => dirty = {}
  /\ committing \in {"write_log", "install", "reinstall"} => tail < Len(lh)
  /\ committing \notin {"write_log", "install", "reinstall"} => tail = 0

\* what has been copied to the log, and from the log to its place
Copied ==
  /\ committing = "write_log" => \A i \in 1 .. tail : logged[i] = Data(lh[i])
  /\ committing \in {"write_head", "install"} =>
       \A i \in 1 .. Len(lh) : logged[i] = Data(lh[i])
  /\ committing \in {"install", "reinstall"} => \A i \in 1 .. tail : home[lh[i]] = logged[i]
  /\ committing \in {"clear", "reclear"} => \A i \in 1 .. Len(lh) : home[lh[i]] = logged[i]

LogInv == Typed /\ Counted /\ Reserved /\ Alone /\ Held /\ Formed /\ Copied

-----------------------------------------------------------------------------
LEMMA Sizes ==
  ASSUME LogAssumption
  PROVE  /\ LOGSIZE \in Nat \ {0} /\ MAXOPBLOCKS \in Nat \ {0}
         /\ LogBlocks \in Nat \ {0} /\ OpBlocks \in Nat \ {0}
         /\ MAXOPBLOCKS <= LOGSIZE /\ OpBlocks < MAXOPBLOCKS
         /\ None \notin Block /\ None \notin Value
         /\ IsFiniteSet(Proc)
BY DEF LogAssumption, SizesAssumption, NoneAssumption, RoomAssumption

LEMMA Rooms ==
  ASSUME LogAssumption, NEW n \in Nat,
         n <= OpBlocks \/ n + 2 * MAXOPBLOCKS <= LOGSIZE + 2 * OpBlocks
  PROVE  n + 1 <= LOGSIZE /\ n + 1 < LogBlocks
BY DEF LogAssumption, SizesAssumption, RoomAssumption

LEMMA InitInv ==
  ASSUME LogAssumption, Init
  PROVE  LogInv
<1> USE Sizes DEF Init
<1>1. Active = {} /\ ToSet(lh) = {} /\ Recorded = {}
  BY DEF Active, ToSet, Recorded
<1>2. Cardinality({}) = 0 /\ IsFiniteSet({})
  BY FS_EmptySet
<1>3. Cardinality(Proc) \in Nat
  BY FS_CardinalityType
<1>4. Typed
  BY <1>1, <1>2, <1>3 DEF Typed, TypeOK, Phases, IsInjective
<1>5. Counted
  BY <1>1, <1>2 DEF Counted
<1>6. Reserved /\ Alone
  BY <1>1, <1>2 DEF Reserved, Alone
<1>7. Held
  BY DEF Held
<1>8. Formed
  BY <1>1 DEF Formed
<1>9. Copied
  BY DEF Copied
<1> QED
  BY <1>4, <1>5, <1>6, <1>7, <1>8, <1>9 DEF LogInv

-----------------------------------------------------------------------------
\* what begin_op() and end_op() do to the set of operations
LEMMA ActiveFinite ==
  ASSUME LogAssumption
  PROVE  IsFiniteSet(Active) /\ Cardinality(Active) \in 0 .. Cardinality(Proc)
         /\ Cardinality(Proc) \in Nat
<1>1. Active \subseteq Proc
  BY DEF Active
<1>2. IsFiniteSet(Proc)
  BY Sizes
<1> QED
  BY <1>1, <1>2, FS_Subset, FS_CardinalityType

LEMMA Quiet ==
  ASSUME LogAssumption, Typed, Counted, Active = {}
  PROVE  /\ outstanding = 0 /\ ToSet(<<>>) = {}
         /\ Recorded = {} /\ Cardinality(Recorded) = 0
<1>1. Recorded = {}
  BY DEF Counted, Recorded
<1> QED
  BY <1>1, FS_EmptySet DEF Counted, ToSet

-----------------------------------------------------------------------------
(* counting pairs                                                           *)

LEMMA PairsOf ==
  ASSUME NEW a, NEW S, IsFiniteSet(S)
  PROVE  IsFiniteSet({a} \X S) /\ Cardinality({a} \X S) <= Cardinality(S)
<1> DEFINE f == [b \in S |-> <<a, b>>]
<1>1. f \in [S -> {a} \X S] /\ \A x \in {a} \X S : f[x[2]] = x /\ x[2] \in S
  OBVIOUS
<1>2. f \in Surjection(S, {a} \X S)
  <2> HIDE DEF f
  <2> QED
    BY <1>1, Fun_IsSurj
<1> HIDE DEF f
<1> QED
  BY <1>2, FS_Surjection

\* at most k pairs for each member of A
LEMMA PairsBound ==
  ASSUME NEW A, IsFiniteSet(A), NEW k \in Nat, NEW W,
         \A a \in A : IsFiniteSet(W[a]) /\ Cardinality(W[a]) <= k,
         NEW R, \A x \in R : \E a \in A : \E b \in W[a] : x = <<a, b>>
  PROVE  IsFiniteSet(R) /\ Cardinality(R) <= Cardinality(A) * k
<1> DEFINE Numbers(a, g) ==
             g \in [W[a] -> 1 .. k] /\ \A b, c \in W[a] : g[b] = g[c] => b = c
           Number(a) == CHOOSE g : Numbers(a, g)
           F == [x \in R |-> <<x[1], Number(x[1])[x[2]]>>]
<1>1. ASSUME NEW a \in A PROVE \E g : Numbers(a, g)
  <2> DEFINE n == Cardinality(W[a])
  <2>1. n \in Nat /\ n <= k /\ ExistsBijection(1 .. n, W[a])
    BY FS_CardinalityType
  <2> HIDE DEF n
  <2>2. PICK h : h \in Bijection(1 .. n, W[a])
    BY <2>1 DEF ExistsBijection
  <2>3. Inverse(h, 1 .. n, W[a]) \in Bijection(W[a], 1 .. n)
    BY <2>2, Fun_BijInverse
  <2>4. PICK g : g = Inverse(h, 1 .. n, W[a])
    OBVIOUS
  <2>5. g \in [W[a] -> 1 .. n] /\ \A b, c \in W[a] : g[b] = g[c] => b = c
    <3>1. g \in Injection(W[a], 1 .. n)
      BY <2>3, <2>4, Fun_BijectionProperties
    <3> QED
      BY <3>1 DEF Injection, IsInjective
  <2>6. 1 .. n \subseteq 1 .. k
    BY <2>1
  <2>7. g \in [W[a] -> 1 .. k]
    BY <2>5, <2>6
  <2> QED
    BY <2>5, <2>7
<1>2. ASSUME NEW a \in A PROVE Numbers(a, Number(a))
  BY <1>1
<1> HIDE DEF Numbers, Number
<1>3. ASSUME NEW x \in R PROVE x[1] \in A /\ x[2] \in W[x[1]] /\ x = <<x[1], x[2]>>
  OBVIOUS
<1>4. F \in [R -> A \X (1 .. k)]
  <2>1. ASSUME NEW x \in R PROVE Number(x[1])[x[2]] \in 1 .. k
    BY <1>2, <1>3 DEF Numbers
  <2> QED
    BY <1>3, <2>1
<1>5. ASSUME NEW x \in R, NEW y \in R, F[x] = F[y] PROVE x = y
  <2>1. x[1] = y[1] /\ Number(x[1])[x[2]] = Number(x[1])[y[2]]
    BY <1>5
  <2>2. x[2] = y[2]
    BY <1>2, <1>3, <2>1 DEF Numbers
  <2> QED
    BY <1>3, <2>1, <2>2
<1> HIDE DEF F
<1>6. F \in Injection(R, A \X (1 .. k))
  BY <1>4, <1>5, Fun_IsInj
<1>7. IsFiniteSet(1 .. k) /\ Cardinality(1 .. k) = k
  BY FS_Interval
<1>8. IsFiniteSet(A \X (1 .. k)) /\ Cardinality(A \X (1 .. k)) = Cardinality(A) * k
  BY <1>7, FS_Product
<1> QED
  BY <1>6, <1>8, FS_Injection

-----------------------------------------------------------------------------
\* an operation writes at most OpBlocks blocks
LEMMA WrittenBound ==
  ASSUME LogAssumption, Typed, Counted,
         NEW R, \A x \in R : \E p \in Active : \E b \in wrote[p] : x = <<p, b>>
  PROVE  IsFiniteSet(R) /\ Cardinality(R) <= outstanding * OpBlocks
<1>1. IsFiniteSet(Active)
  BY ActiveFinite
<1>2. \A p \in Active : IsFiniteSet(wrote[p]) /\ Cardinality(wrote[p]) <= OpBlocks
  BY DEF Typed, Counted, Active
<1>3. OpBlocks \in Nat
  BY Sizes
<1>4. IsFiniteSet(R) /\ Cardinality(R) <= Cardinality(Active) * OpBlocks
  BY <1>1, <1>2, <1>3, PairsBound
<1> QED
  BY <1>4 DEF Counted

LEMMA RecordedBound ==
  ASSUME LogAssumption, Typed, Counted
  PROVE  /\ IsFiniteSet(Recorded)
         /\ Cardinality(Recorded) \in Nat
         /\ Cardinality(Recorded) <= outstanding * OpBlocks
<1>1. ASSUME NEW x \in Recorded PROVE \E p \in Active : \E b \in wrote[p] : x = <<p, b>>
  <2>1. x[1] \in Proc /\ x[2] \in wrote[x[1]] /\ x = <<x[1], x[2]>>
    BY DEF Recorded
  <2> QED
    BY <2>1 DEF Counted
<1> QED
  BY <1>1, WrittenBound, FS_CardinalityType

LEMMA Reservation ==
  ASSUME NEW o \in Nat, o >= 2, NEW m \in Nat, NEW k \in Nat, k < m
  PROVE  o * k + 2 * (m - k) <= o * m
<1>1. PICK d \in Nat : d = m - k
  OBVIOUS
<1>2. 2 * d <= o * d
  BY Z3
<1>3. o * m = o * k + o * d
  BY <1>1
<1>4. o * k \in Nat /\ o * m \in Nat /\ o * d \in Nat
  OBVIOUS
<1> QED
  BY <1>1, <1>2, <1>3, <1>4

\* while an operation is under way, the log has room for one more block, in memory
\* and on the disk
LEMMA RoomLeft ==
  ASSUME LogAssumption, Typed, Counted, Reserved, Alone, Active # {}
  PROVE  Len(lh) + 1 <= LOGSIZE /\ Len(lh) + 1 < LogBlocks
<1>1. outstanding \in Nat /\ outstanding # 0 /\ outstanding = Cardinality(Active)
  BY ActiveFinite, FS_EmptySet DEF Counted
<1>2. /\ outstanding * OpBlocks \in Nat /\ outstanding * MAXOPBLOCKS \in Nat
      /\ Len(lh) \in Nat /\ Cardinality(Recorded) \in Nat
  BY <1>1, Sizes, RecordedBound DEF Typed
<1>3. CASE outstanding >= 2
  <2>1. outstanding * OpBlocks + 2 * (MAXOPBLOCKS - OpBlocks) <= outstanding * MAXOPBLOCKS
    BY <1>1, <1>3, Sizes, Reservation
  <2>2. PICK x \in Nat, y \in Nat : x = outstanding * OpBlocks /\ y = outstanding * MAXOPBLOCKS
    BY <1>2
  <2> QED
    <3>1. Len(lh) + 2 * MAXOPBLOCKS <= LOGSIZE + 2 * OpBlocks
      BY <1>2, <2>1, <2>2, Sizes, RecordedBound DEF Reserved
    <3> QED
      BY <1>2, <3>1, Rooms
<1>4. CASE outstanding = 1
  <2>1. PICK p \in Proc : Active = {p}
    <3>1. PICK p : Active = {p}
      BY <1>1, <1>4, ActiveFinite, FS_Singleton
    <3> QED
      BY <3>1 DEF Active
  <2>2. CASE ToSet(lh) \subseteq wrote[p]
    <3>1. PICK W : W = wrote[p]
      OBVIOUS
    <3>2. IsFiniteSet(W) /\ Cardinality(W) <= OpBlocks
      BY <3>1 DEF Typed, Counted
    <3>3. PICK s : s = lh
      OBVIOUS
    <3>4. s \in [1 .. Len(s) -> W] /\ \A i, j \in 1 .. Len(s) : s[i] = s[j] => i = j
      BY <2>2, <3>1, <3>3 DEF Typed, TypeOK, ToSet, IsInjective
    <3>5. s \in Injection(1 .. Len(s), W)
      BY <3>4, Fun_IsInj
    <3>6. Cardinality(1 .. Len(s)) <= Cardinality(W) /\ Cardinality(W) \in Nat
      BY <3>2, <3>5, FS_Injection, FS_CardinalityType
    <3>7. Cardinality(1 .. Len(s)) = Len(s)
      <4>1. PICK n \in Nat : n = Len(s)
        BY <1>2, <3>3
      <4>2. Cardinality(1 .. n) = IF 1 > n THEN 0 ELSE n - 1 + 1
        BY FS_Interval
      <4> QED
        BY <4>1, <4>2
    <3>8. Len(lh) <= OpBlocks
      BY <1>2, <3>2, <3>3, <3>6, <3>7, Sizes
    <3> QED
      BY <1>2, <3>8, Rooms
  <2>3. CASE Len(lh) + 2 * MAXOPBLOCKS <= LOGSIZE + Cardinality(Recorded) + OpBlocks
    <3>1. Cardinality(Recorded) <= OpBlocks
      BY <1>4, RecordedBound, Sizes
    <3> QED
      BY <1>2, <2>3, <3>1, Sizes, Rooms
  <2> QED
    BY <2>1, <2>2, <2>3 DEF Alone
<1> QED
  BY <1>1, <1>3, <1>4

-----------------------------------------------------------------------------
(* begin_op() and end_op() count                                            *)

LEMMA BeginCounts ==
  ASSUME LogAssumption, LogInv, NEW p \in Proc, begin_op(p)
  PROVE  /\ p \notin Active /\ committing' = committing
         /\ \/ /\ committing = "idle" /\ Room
               /\ Active' = Active \cup {p} /\ outstanding' = outstanding + 1
            \/ Active' = Active /\ outstanding' = outstanding
         /\ outstanding' = Cardinality(Active')
<1> USE DEF LogInv, Typed, TypeOK
<1>1. p \notin Active /\ committing' = committing
  BY DEF begin_op, Active
<1>2. CASE committing = "idle" /\ Room
  <2>1. pc' = [pc EXCEPT ![p] = "in"] /\ outstanding' = outstanding + 1
    BY <1>2 DEF begin_op
  <2>2. Active' = Active \cup {p}
    BY <2>1 DEF Active
  <2>3. Cardinality(Active \cup {p}) = Cardinality(Active) + 1
    BY <1>1, ActiveFinite, FS_AddElement
  <2> QED
    BY <1>1, <1>2, <2>1, <2>2, <2>3 DEF Counted
<1>3. CASE ~ (committing = "idle" /\ Room)
  <2>1. pc' = [pc EXCEPT ![p] = "asleep"] /\ outstanding' = outstanding /\ pc[p] \in {"out", "awake"}
    BY <1>3 DEF begin_op
  <2>2. Active' = Active
    BY <2>1 DEF Active
  <2> QED
    BY <1>1, <2>1, <2>2 DEF Counted
<1> QED
  BY <1>2, <1>3

LEMMA EndCounts ==
  ASSUME LogAssumption, LogInv, NEW p \in Proc, end_op(p)
  PROVE  /\ p \in Active /\ committing = "idle"
         /\ Active' = Active \ {p} /\ outstanding' = outstanding - 1
         /\ outstanding \in Nat \ {0} /\ outstanding' = Cardinality(Active')
         /\ outstanding = 1 <=> Active' = {}
<1> USE DEF LogInv, Typed, TypeOK
<1>1. p \in Active /\ committing = "idle" /\ outstanding' = outstanding - 1
  BY DEF end_op, Active, Counted
<1>2. Active' = Active \ {p}
  <2>1. CASE outstanding = 1
    BY <2>1 DEF end_op, Active
  <2>2. CASE outstanding # 1
    BY <2>2 DEF end_op, Active, Woken
  <2> QED
    BY <2>1, <2>2
<1>3. IsFiniteSet(Active \ {p}) /\ Cardinality(Active \ {p}) = Cardinality(Active) - 1
  BY <1>1, ActiveFinite, FS_RemoveElement
<1>4. Cardinality(Active \ {p}) \in Nat /\ Cardinality(Active) \in Nat
  BY <1>3, ActiveFinite, FS_CardinalityType
<1>5. Cardinality(Active \ {p}) = 0 <=> Active \ {p} = {}
  BY <1>3, FS_EmptySet
<1> QED
  BY <1>1, <1>2, <1>3, <1>4, <1>5 DEF Counted

LEMMA NextCounted ==
  ASSUME LogAssumption, LogInv, [Next]_vars
  PROVE  Counted'
<1> USE DEF LogInv, Typed, TypeOK
<1>1. ASSUME NEW p \in Proc, begin_op(p) PROVE Counted'
  <2>1. wrote' = wrote /\ lh' = lh
    BY <1>1 DEF begin_op
  <2>2. p \notin Active /\ committing' = committing /\ outstanding' = Cardinality(Active')
    BY <1>1, BeginCounts
  <2>3. \/ committing = "idle" /\ Active' = Active \cup {p}
        \/ Active' = Active
    BY <1>1, BeginCounts
  <2> QED
    BY <2>1, <2>2, <2>3 DEF Counted
<1>2. ASSUME NEW p \in Proc, NEW b \in Block, NEW v \in Value, Modify(p, b, v) PROVE Counted'
  <2>1. Active' = Active /\ p \in Active
    BY <1>2 DEF Modify, Active
  <2>2. \A q \in Proc : wrote'[q] = IF q = p THEN wrote[p] \cup {b} ELSE wrote[q]
    BY <1>2 DEF Modify
  <2>3. Cardinality(wrote[p] \cup {b}) <= OpBlocks
    BY <1>2 DEF Modify
  <2>4. outstanding' = outstanding /\ committing' = committing /\ lh' = lh
    BY <1>2 DEF Modify
  <2> QED
    BY <2>1, <2>2, <2>3, <2>4 DEF Counted
<1>3. ASSUME NEW p \in Proc, LogCheck(p) PROVE Counted'
  <2>1. Active' = Active
    BY <1>3 DEF LogCheck, Active
  <2> QED
    BY <1>3, <2>1 DEF LogCheck, Counted
<1>4. ASSUME NEW p \in Proc, LogRecord(p) PROVE Counted'
  <2>1. Active' = Active /\ p \in Active
    BY <1>4 DEF LogRecord, Active
  <2> QED
    BY <1>4, <2>1 DEF LogRecord, Counted
<1>5. ASSUME NEW p \in Proc, end_op(p) PROVE Counted'
  <2>1. /\ Active' = Active \ {p} /\ outstanding' = Cardinality(Active')
        /\ committing = "idle" /\ outstanding = 1 <=> Active' = {}
    BY <1>5, EndCounts
  <2>2. wrote' = [wrote EXCEPT ![p] = {}] /\ lh' = lh
    BY <1>5 DEF end_op
  <2>3. committing' = IF outstanding = 1 THEN CommitFirst ELSE committing
    BY <1>5 DEF end_op
  <2>4. Cardinality({}) = 0
    BY FS_EmptySet
  <2> QED
    BY <2>1, <2>2, <2>3, <2>4, Sizes DEF Counted, CommitFirst
<1>6. ASSUME NEW b \in Block, Evict(b) PROVE Counted'
  BY <1>6 DEF Evict, Counted, Active
<1>7. CASE WriteLog
  BY <1>7 DEF WriteLog, Counted, Active
<1>8. CASE WriteHead
  BY <1>8 DEF WriteHead, Counted, Active
<1>9. CASE Install
  BY <1>9 DEF Install, InstallBlock, Counted, Active
<1>10. CASE Clear
  BY <1>10 DEF Clear, ClearHead, Counted, Active
<1>11. CASE EndCommit
  <2>1. Active' = Active
    BY <1>11 DEF EndCommit, CommitWakes, Woken, Active
  <2> QED
    BY <1>11, <2>1 DEF EndCommit, Counted, Formed
<1>12. CASE Crash
  <2>1. Active' = {}
    BY <1>12 DEF Crash, Active
  <2> QED
    BY <1>12, <2>1, FS_EmptySet, Sizes DEF Crash, Counted
<1>13. CASE ReadHead
  BY <1>13 DEF ReadHead, Counted, Active
<1>14. CASE Reinstall
  BY <1>14 DEF Reinstall, InstallBlock, Counted, Active
<1>15. CASE Reclear
  BY <1>15 DEF Reclear, ClearHead, Counted, Active
<1>16. CASE UNCHANGED vars
  BY <1>16 DEF vars, disk, memory, Counted, Active
<1> QED
  BY <1>1, <1>2, <1>3, <1>4, <1>5, <1>6, <1>7, <1>8, <1>9, <1>10, <1>11, <1>12, <1>13,
     <1>14, <1>15, <1>16 DEF Next, Process, Committer, Recovery

-----------------------------------------------------------------------------
\* what log_write() does to log.lh
LEMMA RecordLh ==
  ASSUME LogAssumption, LogInv, NEW p \in Proc, LogRecord(p)
  PROVE  /\ buf[p] \in Block /\ buf[p] \in wrote[p] /\ p \in Active
         /\ lh' \in Seq(Block) /\ IsInjective(lh') /\ ToSet(lh') = ToSet(lh) \cup {buf[p]}
         /\ IF buf[p] \in ToSet(lh) THEN lh' = lh ELSE Len(lh') = Len(lh) + 1
         /\ \A i \in 1 .. Len(lh) : lh'[i] = lh[i]
<1> USE DEF LogInv, Typed, TypeOK
<1>1. pc[p] = "record" /\ lh' = Absorbed(buf[p])
  BY DEF LogRecord
<1>2. buf[p] \in Block /\ buf[p] \in wrote[p] /\ p \in Active
  BY <1>1 DEF Held, Active
<1>3. PICK b \in Block : b = buf[p]
  BY <1>2
<1>4. Contains(lh, b) <=> b \in ToSet(lh)
  BY DEF Contains, ToSet
<1>5. CASE b \in ToSet(lh)
  BY <1>1, <1>2, <1>3, <1>4, <1>5 DEF Absorbed
<1>6. CASE b \notin ToSet(lh)
  <2>1. lh' = Append(lh, b)
    BY <1>1, <1>3, <1>4, <1>6 DEF Absorbed
  <2>2. /\ lh' \in Seq(Block) /\ Len(lh') = Len(lh) + 1
        /\ \A i \in 1 .. Len(lh) : lh'[i] = lh[i]
        /\ lh'[Len(lh) + 1] = b
    BY <2>1
  <2>3. PICK s : s = lh'
    OBVIOUS
  <2>4. /\ DOMAIN lh = 1 .. Len(lh) /\ DOMAIN s = 1 .. Len(lh) + 1 /\ Len(lh) \in Nat
        /\ \A i \in 1 .. Len(lh) : s[i] = lh[i]
        /\ s[Len(lh) + 1] = b
    BY <2>2, <2>3
  <2>5. ToSet(s) = ToSet(lh) \cup {b}
    BY <2>4 DEF ToSet
  <2>6. IsInjective(s)
    <3>1. \A i \in 1 .. Len(lh) : lh[i] # b
      BY <1>6, <2>4 DEF ToSet
    <3>2. \A i, j \in 1 .. Len(lh) : lh[i] = lh[j] => i = j
      BY <2>4 DEF IsInjective
    <3>3. \A i, j \in 1 .. Len(lh) + 1 : s[i] = s[j] => i = j
      BY <2>4, <3>1, <3>2
    <3> QED
      BY <2>4, <3>3 DEF IsInjective
  <2> QED
    BY <1>2, <1>3, <1>6, <2>2, <2>3, <2>5, <2>6
<1> QED
  BY <1>5, <1>6

\* how the pairs that are counted change
LEMMA ModifyRecords ==
  ASSUME LogAssumption, LogInv, NEW p \in Proc, NEW b \in Block, NEW v \in Value, Modify(p, b, v)
  PROVE  Cardinality(Recorded) <= Cardinality(Recorded') /\ Cardinality(Recorded') \in Nat
<1> USE DEF LogInv, Typed, TypeOK
<1>1. lh' = lh /\ wrote' = [wrote EXCEPT ![p] = @ \cup {b}]
  BY DEF Modify
<1>2. Recorded \subseteq Recorded' /\ Recorded' \subseteq Recorded \cup {<<p, b>>}
  BY <1>1 DEF Recorded
<1>3. IsFiniteSet(Recorded \cup {<<p, b>>})
  BY RecordedBound, FS_AddElement
<1>4. IsFiniteSet(Recorded')
  BY <1>2, <1>3, FS_Subset
<1> QED
  BY <1>2, <1>4, FS_Subset, FS_CardinalityType

LEMMA RecordRecords ==
  ASSUME LogAssumption, LogInv, NEW p \in Proc, LogRecord(p)
  PROVE  \/ lh' = lh /\ Recorded' = Recorded
         \/ /\ Len(lh') = Len(lh) + 1 /\ Cardinality(Recorded') \in Nat
            /\ Cardinality(Recorded) + 1 <= Cardinality(Recorded')
<1> USE DEF LogInv, Typed, TypeOK
<1>1. wrote' = wrote
  BY DEF LogRecord
<1>2. PICK b \in Block : b = buf[p]
  BY RecordLh
<1>3. /\ b \in wrote[p] /\ ToSet(lh') = ToSet(lh) \cup {b}
      /\ IF b \in ToSet(lh) THEN lh' = lh ELSE Len(lh') = Len(lh) + 1
  BY <1>2, RecordLh
<1>4. CASE b \in ToSet(lh)
  BY <1>1, <1>3, <1>4 DEF Recorded
<1>5. CASE b \notin ToSet(lh)
  <2>1. <<p, b>> \in Recorded' /\ Recorded \subseteq Recorded' /\ <<p, b>> \notin Recorded
    BY <1>1, <1>3, <1>5 DEF Recorded
  <2>2. ASSUME NEW x \in Recorded' PROVE \E q \in Active : \E c \in wrote[q] : x = <<q, c>>
    <3>1. x[1] \in Proc /\ x[2] \in wrote[x[1]] /\ x = <<x[1], x[2]>>
      BY <1>1 DEF Recorded
    <3> QED
      BY <3>1 DEF Counted
  <2>3. PICK S : S = Recorded'
    OBVIOUS
  <2>4. \A x \in S : \E q \in Active : \E c \in wrote[q] : x = <<q, c>>
    BY <2>2, <2>3
  <2>5. IsFiniteSet(S)
    BY <2>4, WrittenBound
  <2>6. Cardinality(Recorded \cup {<<p, b>>}) = Cardinality(Recorded) + 1
    BY <2>1, RecordedBound, FS_AddElement
  <2>7. Cardinality(Recorded \cup {<<p, b>>}) <= Cardinality(S) /\ Cardinality(S) \in Nat
    BY <2>1, <2>3, <2>5, FS_Subset, FS_CardinalityType
  <2> QED
    BY <1>3, <1>5, <2>3, <2>6, <2>7
<1> QED
  BY <1>4, <1>5

LEMMA EndRecords ==
  ASSUME LogAssumption, LogInv, NEW p \in Proc, end_op(p)
  PROVE  /\ Cardinality(Recorded) <= Cardinality(Recorded') + OpBlocks
         /\ Cardinality(Recorded') \in Nat
<1> USE DEF LogInv, Typed, TypeOK
<1>1. lh' = lh /\ wrote' = [wrote EXCEPT ![p] = {}]
  BY DEF end_op
<1>2. PICK R, S, T : R = Recorded /\ S = Recorded' /\ T = {p} \X wrote[p]
  OBVIOUS
<1>3. R \subseteq S \cup T /\ S \subseteq R
  BY <1>1, <1>2 DEF Recorded
<1>4. IsFiniteSet(R)
  BY <1>2, RecordedBound
<1>5. IsFiniteSet(T) /\ Cardinality(T) <= OpBlocks
  <2>1. IsFiniteSet(wrote[p]) /\ Cardinality(wrote[p]) <= OpBlocks /\ OpBlocks \in Nat
    BY Sizes DEF Counted
  <2>2. IsFiniteSet(T) /\ Cardinality(T) <= Cardinality(wrote[p])
    BY <1>2, <2>1, PairsOf
  <2>3. Cardinality(T) \in Nat /\ Cardinality(wrote[p]) \in Nat
    BY <2>1, <2>2, FS_CardinalityType
  <2> QED
    BY <2>1, <2>2, <2>3
<1>6. IsFiniteSet(S)
  BY <1>3, <1>4, FS_Subset
<1>7. IsFiniteSet(S \cup T) /\ IsFiniteSet(S \cap T) /\
      Cardinality(S \cup T) = Cardinality(S) + Cardinality(T) - Cardinality(S \cap T)
  BY <1>5, <1>6, FS_Union, FS_Intersection
<1>8. Cardinality(R) <= Cardinality(S \cup T)
  BY <1>3, <1>7, FS_Subset
<1>9. /\ Cardinality(R) \in Nat /\ Cardinality(S) \in Nat /\ Cardinality(T) \in Nat
      /\ Cardinality(S \cap T) \in Nat /\ Cardinality(S \cup T) \in Nat
  BY <1>4, <1>5, <1>6, <1>7, FS_CardinalityType
<1>10. OpBlocks \in Nat
  BY Sizes
<1> QED
  BY <1>2, <1>5, <1>7, <1>8, <1>9, <1>10

\* Len(lh) only grows by a block that an operation records
LEMMA NextReserved ==
  ASSUME LogAssumption, LogInv, [Next]_vars, Counted'
  PROVE  Reserved' /\ Alone'
<1> USE DEF LogInv, Typed, TypeOK
<1>0. /\ outstanding \in Nat /\ Len(lh) \in Nat /\ LOGSIZE \in Nat /\ MAXOPBLOCKS \in Nat
      /\ OpBlocks \in Nat /\ Cardinality(Recorded) \in Nat
  BY RecordedBound, Sizes
<1>x. PICK x \in Nat : x = outstanding * MAXOPBLOCKS
  BY <1>0
<1>s. UNCHANGED <<lh, outstanding, wrote>> => Reserved'
  BY DEF Reserved, Recorded
<1>a. UNCHANGED <<lh, wrote>> /\ Active' = Active => Alone'
  BY DEF Alone, Recorded
<1>1. ASSUME NEW p \in Proc, begin_op(p) PROVE Reserved' /\ Alone'
  <2>1. Recorded' = Recorded /\ lh' = lh /\ wrote' = wrote
    BY <1>1 DEF begin_op, Recorded
  <2>2. CASE committing = "idle" /\ Room /\ outstanding' = outstanding + 1 /\ Active' = Active \cup {p}
    <3>1. Reserved'
      BY <1>0, <2>1, <2>2 DEF Room, Reserved
    <3>2. ASSUME NEW q \in Proc, Active' = {q} PROVE ToSet(lh') \subseteq wrote'[q]
      <4>1. Active = {}
        BY <1>1, <2>2, <3>2, BeginCounts
      <4> QED
        BY <2>1, <2>2, <4>1 DEF Counted, ToSet
    <3> QED
      BY <3>1, <3>2 DEF Alone
  <2>3. CASE outstanding' = outstanding /\ Active' = Active
    BY <1>s, <1>a, <2>1, <2>3
  <2> QED
    BY <1>1, <2>2, <2>3, BeginCounts
<1>2. ASSUME NEW p \in Proc, NEW b \in Block, NEW v \in Value, Modify(p, b, v)
      PROVE  Reserved' /\ Alone'
  <2>1. /\ lh' = lh /\ outstanding' = outstanding
        /\ \A q \in Proc : wrote[q] \subseteq wrote'[q]
    BY <1>2 DEF Modify
  <2>2. Cardinality(Recorded) <= Cardinality(Recorded') /\ Cardinality(Recorded') \in Nat
    BY <1>2, ModifyRecords
  <2>3. Active' = Active
    BY <1>2 DEF Modify, Active
  <2>4. Reserved'
    BY <1>0, <1>x, <2>1, <2>2 DEF Reserved
  <2>5. ASSUME NEW q \in Proc, Active' = {q}
        PROVE  \/ ToSet(lh') \subseteq wrote'[q]
               \/ Len(lh') + 2 * MAXOPBLOCKS <= LOGSIZE + Cardinality(Recorded') + OpBlocks
    <3>1. CASE ToSet(lh) \subseteq wrote[q]
      BY <2>1, <3>1
    <3>2. CASE Len(lh) + 2 * MAXOPBLOCKS <= LOGSIZE + Cardinality(Recorded) + OpBlocks
      BY <1>0, <2>1, <2>2, <3>2
    <3> QED
      BY <2>3, <2>5, <3>1, <3>2 DEF Alone
  <2> QED
    BY <2>4, <2>5 DEF Alone
<1>3. ASSUME NEW p \in Proc, LogCheck(p) PROVE Reserved' /\ Alone'
  <2>1. UNCHANGED <<lh, outstanding, wrote>> /\ Active' = Active
    BY <1>3 DEF LogCheck, Active
  <2> QED
    BY <1>s, <1>a, <2>1
<1>4. ASSUME NEW p \in Proc, LogRecord(p) PROVE Reserved' /\ Alone'
  <2>1. wrote' = wrote /\ outstanding' = outstanding
    BY <1>4 DEF LogRecord
  <2>2. Active' = Active /\ p \in Active
    BY <1>4 DEF LogRecord, Active
  <2>3. CASE lh' = lh /\ Recorded' = Recorded
    BY <1>s, <1>a, <2>1, <2>2, <2>3
  <2>4. CASE /\ Len(lh') = Len(lh) + 1 /\ Cardinality(Recorded') \in Nat
             /\ Cardinality(Recorded) + 1 <= Cardinality(Recorded')
    <3>1. Reserved'
      BY <1>0, <1>x, <2>1, <2>4 DEF Reserved
    <3>2. ASSUME NEW q \in Proc, Active' = {q}
          PROVE  \/ ToSet(lh') \subseteq wrote'[q]
                 \/ Len(lh') + 2 * MAXOPBLOCKS <= LOGSIZE + Cardinality(Recorded') + OpBlocks
      <4>1. q = p /\ Active = {p}
        BY <2>2, <3>2
      <4>2. CASE ToSet(lh) \subseteq wrote[q]
        BY <1>4, <2>1, <4>1, <4>2, RecordLh
      <4>3. CASE Len(lh) + 2 * MAXOPBLOCKS <= LOGSIZE + Cardinality(Recorded) + OpBlocks
        BY <1>0, <2>4, <4>3
      <4> QED
        BY <4>1, <4>2, <4>3 DEF Alone
    <3> QED
      BY <3>1, <3>2 DEF Alone
  <2> QED
    BY <1>4, <2>3, <2>4, RecordRecords
<1>5. ASSUME NEW p \in Proc, end_op(p) PROVE Reserved' /\ Alone'
  <2>1. lh' = lh
    BY <1>5 DEF end_op
  <2>2. /\ outstanding' = outstanding - 1 /\ outstanding \in Nat \ {0}
        /\ outstanding' = Cardinality(Active')
    BY <1>5, EndCounts
  <2>3. /\ Cardinality(Recorded) <= Cardinality(Recorded') + OpBlocks
        /\ Cardinality(Recorded') \in Nat
    BY <1>5, EndRecords
  <2>4. (outstanding - 1) * MAXOPBLOCKS = outstanding * MAXOPBLOCKS - MAXOPBLOCKS
    BY <1>0, <2>2
  <2>5. Reserved'
    BY <1>0, <1>x, <2>1, <2>2, <2>3, <2>4, Sizes DEF Reserved
  <2>6. ASSUME NEW q \in Proc, Active' = {q}
        PROVE  Len(lh') + 2 * MAXOPBLOCKS <= LOGSIZE + Cardinality(Recorded') + OpBlocks
    <3>1. outstanding = 2
      <4>1. Cardinality({q}) = 1
        BY FS_Singleton
      <4> QED
        BY <2>2, <2>6, <4>1
    <3> QED
      BY <1>0, <2>1, <2>3, <3>1 DEF Reserved
  <2> QED
    BY <2>5, <2>6 DEF Alone
\* the rest happens while no operation is under way
<1>6. ASSUME Active' = {}, Len(lh') <= LOGSIZE, lh' \in Seq(Block) PROVE Reserved' /\ Alone'
  <2>1. Recorded' = {}
    BY <1>6 DEF Counted, Recorded
  <2>2. Cardinality({}) = 0
    BY FS_EmptySet
  <2>3. outstanding' = 0
    BY <1>6, <2>2 DEF Counted
  <2>4. Len(lh') \in Nat
    BY <1>6
  <2> QED
    BY <1>0, <1>6, <2>1, <2>2, <2>3, <2>4 DEF Reserved, Alone
<1>7. CASE (\E b \in Block : Evict(b)) \/ UNCHANGED vars
  <2>1. UNCHANGED <<lh, outstanding, wrote>> /\ Active' = Active
    BY <1>7 DEF Evict, vars, Active
  <2> QED
    BY <1>s, <1>a, <2>1
<1>8. CASE Committer \/ Recovery
  <2>1. Active = {}
    BY <1>8 DEF Committer, Recovery, WriteLog, WriteHead, Install, Clear, EndCommit, ReadHead,
       Reinstall, Reclear, Counted
  <2>2. Active' = {}
    BY <1>8, <2>1 DEF Committer, Recovery, WriteLog, WriteHead, Install, InstallBlock, Clear,
       ClearHead, EndCommit, CommitWakes, Woken, ReadHead, Reinstall, Reclear, Active
  <2>3. lh' = lh \/ lh' = <<>> \/ lh' = head
    BY <1>8 DEF Committer, Recovery, WriteLog, WriteHead, Install, InstallBlock, Clear,
       ClearHead, EndCommit, ReadHead, Reinstall, Reclear
  <2>4. Len(lh') <= LOGSIZE /\ lh' \in Seq(Block)
    <3>1. Len(<<>>) <= LOGSIZE /\ <<>> \in Seq(Block)
      BY <1>0
    <3> QED
      BY <2>3, <3>1
  <2> QED
    BY <1>6, <2>2, <2>4
<1>9. CASE Crash
  BY <1>6, <1>9, Sizes DEF Crash, Active
<1> QED
  BY <1>1, <1>2, <1>3, <1>4, <1>5, <1>7, <1>8, <1>9 DEF Next, Process

-----------------------------------------------------------------------------
\* in the phases that walk over struct log, tail + 1 is the place of the next block
LEMMA NextBlock ==
  ASSUME LogAssumption, LogInv, committing \in {"write_log", "install", "reinstall"}
  PROVE  /\ tail \in Nat /\ tail + 1 \in 1 .. Len(lh) /\ tail + 1 \in 1 .. LOGSIZE
         /\ lh[tail + 1] \in Block /\ logged[tail + 1] \in Value
         /\ Data(lh[tail + 1]) \in Value
<1> USE Sizes DEF LogInv, Typed, TypeOK
<1>1. tail \in Nat /\ tail < Len(lh)
  BY DEF Formed
<1>2. tail + 1 \in 1 .. Len(lh) /\ tail + 1 \in 1 .. LOGSIZE
  BY <1>1
<1>3. lh[tail + 1] \in Block
  BY <1>2
<1>4. PICK b \in Block : b = lh[tail + 1]
  BY <1>3
<1>5. Data(b) \in Value
  BY DEF Data
<1> QED
  BY <1>1, <1>2, <1>3, <1>4, <1>5

LEMMA NextTyped ==
  ASSUME LogAssumption, LogInv, [Next]_vars, Counted'
  PROVE  Typed'
<1> USE Sizes DEF LogInv, Typed, TypeOK, disk, memory
<1>0. outstanding' \in 0 .. Cardinality(Proc)
  <2>1. PICK A : A = Active'
    OBVIOUS
  <2>2. A \subseteq Proc
    BY <2>1 DEF Active
  <2>3. Cardinality(A) <= Cardinality(Proc) /\ Cardinality(A) \in Nat /\ Cardinality(Proc) \in Nat
    BY <2>2, FS_Subset, FS_CardinalityType
  <2> QED
    BY <2>1, <2>3 DEF Counted
<1>e. IsInjective(<<>>) /\ ToSet(<<>>) = {} /\ <<>> \in Seq(Block) /\ Len(<<>>) = 0
  BY DEF IsInjective, ToSet
<1>f. IsFiniteSet({})
  BY FS_EmptySet
<1>1. ASSUME NEW p \in Proc, begin_op(p) PROVE Typed'
  BY <1>0, <1>1 DEF begin_op
<1>2. ASSUME NEW p \in Proc, NEW b \in Block, NEW v \in Value, Modify(p, b, v) PROVE Typed'
  <2>1. IsFiniteSet(wrote[p] \cup {b})
    BY FS_AddElement
  <2> QED
    BY <1>0, <1>2, <2>1 DEF Modify
<1>3. ASSUME NEW p \in Proc, LogCheck(p) PROVE Typed'
  BY <1>0, <1>3 DEF LogCheck
<1>4. ASSUME NEW p \in Proc, LogRecord(p) PROVE Typed'
  <2>1. /\ buf[p] \in Block /\ p \in Active /\ lh' \in Seq(Block) /\ IsInjective(lh')
        /\ ToSet(lh') = ToSet(lh) \cup {buf[p]}
        /\ lh' = lh \/ Len(lh') = Len(lh) + 1
    BY <1>4, RecordLh
  <2>2. Len(lh') <= LOGSIZE
    BY <2>1, RoomLeft
  <2> QED
    BY <1>0, <1>4, <2>1, <2>2 DEF LogRecord
<1>5. ASSUME NEW p \in Proc, end_op(p) PROVE Typed'
  <2>1. pc' \in [Proc -> {"out", "asleep", "awake", "in", "check", "record", "commit"}]
    <3>1. CASE outstanding = 1
      BY <1>5, <3>1 DEF end_op
    <3>2. CASE outstanding # 1
      BY <1>5, <3>2 DEF end_op, Woken
    <3> QED
      BY <3>1, <3>2
  <2>2. committing' \in Phases
    BY <1>5 DEF end_op, CommitFirst, Phases
  <2>3. wrote' = [wrote EXCEPT ![p] = {}]
    BY <1>5 DEF end_op
  <2>4. wrote' \in [Proc -> SUBSET Block] /\ \A q \in Proc : IsFiniteSet(wrote'[q])
    BY <1>f, <2>3
  <2> QED
    BY <1>0, <1>5, <2>1, <2>2, <2>4 DEF end_op, disk, memory
<1>6. ASSUME NEW b \in Block, Evict(b) PROVE Typed'
  BY <1>0, <1>6 DEF Evict
<1>7. CASE WriteLog
  <2>1. tail + 1 \in 1 .. LOGSIZE /\ Data(lh[tail + 1]) \in Value
    BY <1>7, NextBlock DEF WriteLog
  <2>2. logged' \in [1 .. LOGSIZE -> Value] /\ tail' \in 0 .. LOGSIZE /\ committing' \in Phases
    BY <1>7, <2>1 DEF WriteLog, Phases
  <2> QED
    BY <1>0, <1>7, <2>2 DEF WriteLog, memory
<1>8. CASE WriteHead
  BY <1>0, <1>8 DEF WriteHead, memory, Phases
<1>9. ASSUME NEW next \in {"clear", "reclear"}, committing \in {"install", "reinstall"},
             InstallBlock(next)
      PROVE  Typed'
  <2>1. tail + 1 \in 1 .. LOGSIZE /\ lh[tail + 1] \in Block /\ logged[tail + 1] \in Value
    BY <1>9, NextBlock
  <2>2. /\ home' \in [Block -> Value] /\ cache' \in [Block -> Value \cup {None}]
        /\ dirty' \subseteq Block /\ tail' \in 0 .. LOGSIZE /\ committing' \in Phases
    BY <1>9, <2>1 DEF InstallBlock, Phases
  <2> QED
    BY <1>0, <1>9, <2>2 DEF InstallBlock
<1>10. ASSUME NEW next \in {"end", "idle"}, ClearHead(next) PROVE Typed'
  BY <1>0, <1>e, <1>10 DEF ClearHead, Phases, memory
<1>11. CASE EndCommit
  BY <1>0, <1>11 DEF EndCommit, CommitWakes, Woken, disk, memory, Phases
<1>12. CASE Crash
  BY <1>0, <1>e, <1>f, <1>12 DEF Crash, disk, Phases
<1>13. CASE ReadHead
  BY <1>0, <1>13 DEF ReadHead, disk, memory, Phases
<1>14. CASE UNCHANGED vars
  BY <1>14 DEF vars, disk, memory
<1> QED
  BY <1>1, <1>2, <1>3, <1>4, <1>5, <1>6, <1>7, <1>8, <1>9, <1>10, <1>11, <1>12, <1>13,
     <1>14 DEF Next, Process, Committer, Recovery, Install, Reinstall, Clear, Reclear

-----------------------------------------------------------------------------
\* what install_trans() does to one block
LEMMA InstallStep ==
  ASSUME LogAssumption, LogInv, committing \in {"install", "reinstall"},
         NEW next, InstallBlock(next)
  PROVE  \E b \in Block :
           /\ b = lh[tail + 1] /\ logged[tail + 1] \in Value /\ logged[tail + 1] # None
           /\ \A c \in Block : home'[c] = IF c = b THEN logged[tail + 1] ELSE home[c]
           /\ \A c \in Block : cache'[c] = IF c = b THEN logged[tail + 1] ELSE cache[c]
           /\ dirty' = dirty \ {b} /\ UNCHANGED <<logged, head, lh, outstanding, pc, buf, wrote>>
           /\ \A i \in 1 .. Len(lh) : lh[i] = b <=> i = tail + 1
<1> USE Sizes DEF LogInv, Typed, TypeOK
<1>1. PICK b \in Block : b = lh[tail + 1]
  BY NextBlock
<1>2. tail + 1 \in 1 .. Len(lh) /\ logged[tail + 1] \in Value /\ logged[tail + 1] # None
  BY NextBlock
<1>3. ASSUME NEW i \in 1 .. Len(lh) PROVE lh[i] = b <=> i = tail + 1
  BY <1>1, <1>2 DEF IsInjective
<1>4. /\ home' = [home EXCEPT ![b] = logged[tail + 1]]
      /\ cache' = [cache EXCEPT ![b] = logged[tail + 1]]
      /\ dirty' = dirty \ {b} /\ UNCHANGED <<logged, head, lh, outstanding, pc, buf, wrote>>
  BY <1>1 DEF InstallBlock
<1> QED
  BY <1>1, <1>2, <1>3, <1>4

LEMMA NoBuffers ==
  ASSUME LogInv, Active = {}
  PROVE  \A p \in Proc : buf[p] = None /\ pc[p] \notin {"in", "check", "record"}
BY DEF LogInv, Held, Active

LEMMA NextHeld ==
  ASSUME LogAssumption, LogInv, [Next]_vars
  PROVE  Held'
<1> USE Sizes DEF LogInv, Typed, TypeOK, disk, memory
<1>1. ASSUME NEW p \in Proc, begin_op(p) PROVE Held'
  BY <1>1 DEF begin_op, Held
<1>2. ASSUME NEW p \in Proc, NEW b \in Block, NEW v \in Value, Modify(p, b, v) PROVE Held'
  <2>1. buf[p] = None /\ \A q \in Proc : buf[q] # b
    BY <1>2 DEF Modify, Held
  <2>2. /\ \A q \in Proc : buf'[q] = IF q = p THEN b ELSE buf[q]
        /\ \A q \in Proc : pc'[q] = IF q = p THEN "check" ELSE pc[q]
        /\ \A q \in Proc : wrote'[q] = IF q = p THEN wrote[q] \cup {b} ELSE wrote[q]
        /\ \A c \in Block : cache'[c] = IF c = b THEN v ELSE cache[c]
        /\ dirty' = dirty /\ home' = home
    BY <1>2 DEF Modify
  <2>3. b # None /\ v # None
    OBVIOUS
  <2>4. \A q \in Proc : buf'[q] # None <=> pc'[q] \in {"check", "record"}
    BY <2>2, <2>3 DEF Held
  <2>5. ASSUME NEW q \in Proc, buf'[q] # None
        PROVE  buf'[q] \in wrote'[q] /\ cache'[buf'[q]] # None
    <3>1. CASE q = p
      BY <2>2, <2>3, <3>1
    <3>2. CASE q # p
      <4>1. PICK c \in Block : c = buf[q] /\ c # b /\ buf'[q] = c
        BY <2>1, <2>2, <2>5, <3>2
      <4> QED
        BY <2>2, <2>5, <3>2, <4>1 DEF Held
    <3> QED
      BY <3>1, <3>2
  <2>6. \A c \in dirty' : cache'[c] # None
    BY <2>2, <2>3 DEF Held
  <2>7. ASSUME NEW c \in Block, c \notin dirty', \A q \in Proc : buf'[q] # c
        PROVE  cache'[c] \in {None, home'[c]}
    <3>1. c # b /\ \A q \in Proc : buf[q] # c
      BY <2>1, <2>2, <2>7
    <3> QED
      BY <2>2, <2>7, <3>1 DEF Held
  <2> QED
    BY <2>4, <2>5, <2>6, <2>7 DEF Held
<1>3. ASSUME NEW p \in Proc, LogCheck(p) PROVE Held'
  BY <1>3 DEF LogCheck, Held
<1>4. ASSUME NEW p \in Proc, LogRecord(p) PROVE Held'
  <2>1. buf[p] # None /\ cache[buf[p]] # None
    BY <1>4 DEF LogRecord, Held
  <2>2. /\ \A q \in Proc : buf'[q] = IF q = p THEN None ELSE buf[q]
        /\ \A q \in Proc : pc'[q] = IF q = p THEN "in" ELSE pc[q]
        /\ dirty' = dirty \cup {buf[p]} /\ UNCHANGED <<home, cache, wrote>>
    BY <1>4 DEF LogRecord
  <2>3. ASSUME NEW b \in Block, b \notin dirty', \A q \in Proc : buf'[q] # b
        PROVE  cache'[b] \in {None, home'[b]}
    <3>1. b \notin dirty /\ \A q \in Proc : buf[q] # b
      BY <2>2, <2>3
    <3> QED
      BY <2>2, <3>1 DEF Held
  <2> QED
    BY <2>1, <2>2, <2>3 DEF Held
<1>5. ASSUME NEW p \in Proc, end_op(p) PROVE Held'
  <2>1. buf[p] = None
    BY <1>5 DEF end_op, Held
  <2>2. \A q \in Proc : pc'[q] \in {"check", "record"} <=> pc[q] \in {"check", "record"}
    <3>1. CASE outstanding = 1
      BY <1>5, <3>1 DEF end_op
    <3>2. CASE outstanding # 1
      BY <1>5, <3>2 DEF end_op, Woken
    <3> QED
      BY <3>1, <3>2
  <2>3. \A q \in Proc : q # p => wrote'[q] = wrote[q]
    BY <1>5 DEF end_op
  <2>4. UNCHANGED <<home, cache, dirty, buf>>
    BY <1>5 DEF end_op
  <2> QED
    BY <2>1, <2>2, <2>3, <2>4 DEF Held
<1>6. ASSUME NEW b \in Block, Evict(b) PROVE Held'
  BY <1>6 DEF Evict, Held
<1>7. ASSUME NEW next, committing \in {"install", "reinstall"}, InstallBlock(next) PROVE Held'
  <2>1. \A p \in Proc : buf[p] = None /\ pc[p] \notin {"in", "check", "record"}
    BY <1>7, NoBuffers DEF Counted
  <2>2. PICK b \in Block :
          /\ logged[tail + 1] # None
          /\ \A c \in Block : home'[c] = IF c = b THEN logged[tail + 1] ELSE home[c]
          /\ \A c \in Block : cache'[c] = IF c = b THEN logged[tail + 1] ELSE cache[c]
          /\ dirty' = dirty \ {b} /\ UNCHANGED <<pc, buf, wrote>>
    BY <1>7, InstallStep
  <2> QED
    BY <2>1, <2>2 DEF Held
<1>8. CASE EndCommit
  <2>1. \A p \in Proc : buf[p] = None /\ pc[p] \notin {"in", "check", "record"}
    BY <1>8, NoBuffers DEF Counted, EndCommit
  <2>2. \A p \in Proc : pc'[p] \notin {"in", "check", "record"}
    BY <1>8, <2>1 DEF EndCommit, CommitWakes, Woken
  <2> QED
    BY <1>8, <2>1, <2>2 DEF EndCommit, Held
<1>9. CASE Crash
  BY <1>9 DEF Crash, Held
<1>10. ASSUME UNCHANGED <<home, cache, dirty, pc, buf, wrote>> PROVE Held'
  BY <1>10 DEF Held
<1>11. CASE WriteLog \/ WriteHead \/ ReadHead \/ UNCHANGED vars
  BY <1>10, <1>11 DEF WriteLog, WriteHead, ReadHead, vars
<1>12. ASSUME NEW next, ClearHead(next) PROVE Held'
  BY <1>10, <1>12 DEF ClearHead
<1> QED
  BY <1>1, <1>2, <1>3, <1>4, <1>5, <1>6, <1>7, <1>8, <1>9, <1>11, <1>12
  DEF Next, Process, Committer, Recovery, Install, Reinstall, Clear, Reclear

-----------------------------------------------------------------------------
LEMMA NextFormed ==
  ASSUME LogAssumption, LogInv, [Next]_vars
  PROVE  Formed'
<1> USE Sizes DEF LogInv, Typed, TypeOK, disk, memory
<1>e. ToSet(<<>>) = {} /\ Len(<<>>) = 0
  BY DEF ToSet
<1>n. Len(lh) \in Nat /\ Len(head) \in Nat /\ (Len(lh) = 0 => lh = <<>>) /\ (Len(head) = 0 => head = <<>>)
  OBVIOUS
<1>1. ASSUME UNCHANGED <<head, dirty, lh, committing, tail>> PROVE Formed'
  BY <1>1 DEF Formed
<1>2. ASSUME NEW p \in Proc,
             begin_op(p) \/ LogCheck(p) \/ (\E b \in Block, v \in Value : Modify(p, b, v))
      PROVE  Formed'
  BY <1>1, <1>2 DEF begin_op, LogCheck, Modify
<1>3. CASE (\E b \in Block : Evict(b)) \/ UNCHANGED vars
  BY <1>1, <1>3 DEF Evict, vars
<1>4. ASSUME NEW p \in Proc, LogRecord(p) PROVE Formed'
  <2>1. p \in Active /\ ToSet(lh') = ToSet(lh) \cup {buf[p]}
    BY <1>4, RecordLh
  <2>2. committing = "idle"
    BY <2>1 DEF Counted
  <2>3. dirty' = dirty \cup {buf[p]} /\ UNCHANGED <<head, committing, tail>>
    BY <1>4 DEF LogRecord
  <2> QED
    BY <2>1, <2>2, <2>3 DEF Formed
<1>5. ASSUME NEW p \in Proc, end_op(p) PROVE Formed'
  <2>1. committing = "idle" /\ UNCHANGED <<head, dirty, lh, tail>>
    BY <1>5, EndCounts DEF end_op
  <2>2. committing' = "idle" \/ (lh = <<>> /\ committing' = "end")
          \/ (lh # <<>> /\ committing' = "write_log")
    BY <1>5, <2>1 DEF end_op, CommitFirst
  <2> QED
    BY <1>e, <1>n, <2>1, <2>2 DEF Formed
<1>6. CASE WriteLog
  <2>1. tail \in Nat /\ tail < Len(lh) /\ head = <<>> /\ dirty = ToSet(lh)
    BY <1>6 DEF WriteLog, Formed
  <2>2. UNCHANGED <<head, dirty, lh>> /\
        \/ tail + 1 < Len(lh) /\ tail' = tail + 1 /\ committing' = "write_log"
        \/ tail' = 0 /\ committing' = "write_head"
    BY <1>6 DEF WriteLog
  <2> QED
    BY <1>e, <2>1, <2>2 DEF Formed
<1>7. CASE WriteHead
  <2>1. tail = 0 /\ lh # <<>> /\ dirty = ToSet(lh)
    BY <1>7 DEF WriteHead, Formed
  <2>2. head' = lh /\ committing' = "install" /\ UNCHANGED <<dirty, lh, tail>>
    BY <1>7 DEF WriteHead
  <2>3. dirty' = {lh'[i] : i \in tail' + 1 .. Len(lh')}
    BY <2>1, <2>2 DEF ToSet
  <2> QED
    BY <1>n, <2>1, <2>2, <2>3 DEF Formed
<1>8. ASSUME committing \in {"install", "reinstall"}, NEW next \in {"clear", "reclear"},
             InstallBlock(next), committing = "install" <=> next = "clear"
      PROVE  Formed'
  <2>1. PICK b \in Block :
          /\ b = lh[tail + 1] /\ dirty' = dirty \ {b} /\ UNCHANGED <<head, lh>>
          /\ \A i \in 1 .. Len(lh) : lh[i] = b <=> i = tail + 1
    BY <1>8, InstallStep
  <2>2. tail \in Nat /\ tail < Len(lh) /\ lh = head
    BY <1>8 DEF Formed
  <2>3. CASE committing = "reinstall"
    <3>1. dirty' = {} /\ next = "reclear"
      BY <1>8, <2>1, <2>3 DEF Formed
    <3>2. \/ tail + 1 < Len(lh) /\ tail' = tail + 1 /\ committing' = "reinstall"
          \/ tail' = 0 /\ committing' = "reclear"
      BY <1>8, <2>3, <3>1 DEF InstallBlock
    <3> QED
      BY <2>1, <2>2, <3>1, <3>2 DEF Formed
  <2>4. CASE committing = "install"
    <3>1. dirty = {lh[i] : i \in tail + 1 .. Len(lh)}
      BY <2>4 DEF Formed
    <3>2. dirty' = {lh[i] : i \in tail + 2 .. Len(lh)}
      BY <2>1, <2>2, <3>1
    <3>3. CASE tail + 1 < Len(lh)
      <4>1. tail' = tail + 1 /\ committing' = "install"
        BY <1>8, <2>4, <3>3 DEF InstallBlock
      <4>2. dirty' = {lh'[i] : i \in tail' + 1 .. Len(lh')}
        BY <2>1, <2>2, <3>2, <4>1
      <4> QED
        BY <2>1, <2>2, <3>3, <4>1, <4>2 DEF Formed
    <3>4. CASE ~ (tail + 1 < Len(lh))
      <4>1. tail' = 0 /\ committing' = "clear"
        BY <1>8, <2>4, <3>4 DEF InstallBlock
      <4>2. dirty' = {}
        BY <2>2, <3>2, <3>4
      <4> QED
        BY <2>1, <2>2, <4>1, <4>2 DEF Formed
    <3> QED
      BY <3>3, <3>4
  <2> QED
    BY <1>8, <2>3, <2>4
<1>9. CASE Clear
  BY <1>9 DEF Clear, ClearHead, Formed
<1>10. CASE Reclear
  BY <1>e, <1>10 DEF Reclear, ClearHead, Formed
<1>11. CASE EndCommit
  BY <1>e, <1>11 DEF EndCommit, Formed
<1>12. CASE Crash
  BY <1>12 DEF Crash, Formed
<1>13. CASE ReadHead
  BY <1>n, <1>13 DEF ReadHead, Formed
<1> QED
  BY <1>2, <1>3, <1>4, <1>5, <1>6, <1>7, <1>8, <1>9, <1>10, <1>11, <1>12, <1>13
  DEF Next, Process, Committer, Recovery, Install, Reinstall

-----------------------------------------------------------------------------
LEMMA NextCopied ==
  ASSUME LogAssumption, LogInv, [Next]_vars
  PROVE  Copied'
<1> USE Sizes DEF LogInv, Typed, TypeOK, disk, memory
<1>l. \A i \in 1 .. Len(lh) : lh[i] \in Block
  OBVIOUS
\* where nothing that Copied speaks of changes but what is read of a block not cached
<1>1. ASSUME UNCHANGED <<home, logged, lh, committing, tail>>,
             \A b \in Block : Data(b)' = Data(b)
      PROVE  Copied'
  <2>1. tail <= Len(lh) /\ tail \in Nat /\ Len(lh) \in Nat
    BY DEF Formed
  <2> QED
    BY <1>l, <1>1, <2>1 DEF Copied
<1>2. ASSUME committing' \in {"idle", "end", "read_head"} PROVE Copied'
  BY <1>2 DEF Copied
<1>3. ASSUME NEW p \in Proc, Process(p) PROVE Copied'
  <2>1. CASE begin_op(p)
    <3>1. \A b \in Block : Data(b)' = Data(b)
      BY <2>1 DEF begin_op, Data
    <3> QED
      BY <1>1, <2>1, <3>1 DEF begin_op
  <2>2. CASE LogCheck(p) \/ LogRecord(p) \/ \E b \in Block, v \in Value : Modify(p, b, v)
    <3>1. p \in Active /\ committing' = committing
      BY <2>2 DEF LogCheck, LogRecord, Modify, Active
    <3> QED
      BY <1>2, <3>1 DEF Counted
  <2>3. CASE end_op(p)
    <3>1. committing = "idle" /\ tail' = tail
      BY <2>3, EndCounts DEF end_op
    <3>2. committing' \in {"idle", "end", "write_log"}
      BY <2>3, <3>1 DEF end_op, CommitFirst
    <3>3. tail' = 0
      BY <3>1 DEF Formed
    <3> QED
      BY <3>2, <3>3 DEF Copied
  <2> QED
    BY <1>3, <2>1, <2>2, <2>3 DEF Process
<1>4. ASSUME NEW b \in Block, Evict(b) PROVE Copied'
  <2>1. cache[b] = home[b]
    BY <1>4 DEF Evict, Held
  <2>2. \A c \in Block : Data(c)' = Data(c)
    BY <1>4, <2>1 DEF Evict, Data
  <2> QED
    BY <1>1, <1>4, <2>2 DEF Evict
<1>5. CASE WriteLog
  <2>1. /\ tail \in Nat /\ tail + 1 \in 1 .. Len(lh) /\ tail + 1 \in 1 .. LOGSIZE
        /\ Data(lh[tail + 1]) \in Value
    BY <1>5, NextBlock DEF WriteLog
  <2>2. UNCHANGED <<home, cache, lh>>
    BY <1>5 DEF WriteLog
  <2>3. \A b \in Block : Data(b)' = Data(b)
    BY <2>2 DEF Data
  <2>4. PICK v : v = Data(lh[tail + 1])
    OBVIOUS
  <2>5. \A i \in 1 .. LOGSIZE : logged'[i] = IF i = tail + 1 THEN v ELSE logged[i]
    BY <1>5, <2>1, <2>4 DEF WriteLog
  <2>6. ASSUME NEW i \in 1 .. tail + 1 PROVE logged'[i] = Data(lh[i])'
    <3>1. i \in 1 .. Len(lh) /\ i \in 1 .. LOGSIZE /\ lh[i] \in Block
      BY <2>1
    <3>2. PICK c \in Block : c = lh[i]
      BY <3>1
    <3>3. Data(lh[i])' = Data(c)'
      BY <2>2, <3>2 DEF Data
    <3>4. logged'[i] = Data(c)
      <4>1. CASE i = tail + 1
        BY <2>4, <2>5, <3>1, <3>2, <4>1
      <4>2. CASE i # tail + 1
        <5>1. i \in 1 .. tail
          BY <2>1, <4>2
        <5>2. logged[i] = Data(lh[i])
          BY <1>5, <5>1 DEF WriteLog, Copied
        <5> QED
          BY <2>5, <3>1, <3>2, <4>2, <5>2
      <4> QED
        BY <4>1, <4>2
    <3> QED
      BY <2>3, <3>3, <3>4
  <2>7. CASE tail + 1 < Len(lh)
    <3>1. tail' = tail + 1 /\ committing' = "write_log"
      BY <1>5, <2>7 DEF WriteLog
    <3> QED
      BY <2>6, <3>1 DEF Copied
  <2>8. CASE ~ (tail + 1 < Len(lh))
    <3>1. Len(lh') = tail + 1 /\ committing' = "write_head"
      BY <1>5, <2>1, <2>2, <2>8 DEF WriteLog
    <3> QED
      BY <2>6, <3>1 DEF Copied
  <2> QED
    BY <2>7, <2>8
<1>6. CASE WriteHead
  <2>1. /\ tail' = 0 /\ committing' = "install" /\ UNCHANGED <<home, logged, cache, lh>>
    BY <1>6 DEF WriteHead, Formed
  <2>2. \A i \in 1 .. Len(lh) : logged[i] = Data(lh[i])
    BY <1>6 DEF WriteHead, Copied
  <2> QED
    BY <2>1, <2>2 DEF Copied, Data
<1>7. ASSUME NEW next \in {"clear", "reclear"}, committing \in {"install", "reinstall"},
             InstallBlock(next), committing = "install" <=> next = "clear"
      PROVE  Copied'
  <2>1. PICK b \in Block :
          /\ b = lh[tail + 1] /\ UNCHANGED <<logged, head, lh>>
          /\ \A c \in Block : home'[c] = IF c = b THEN logged[tail + 1] ELSE home[c]
          /\ \A c \in Block : cache'[c] = IF c = b THEN logged[tail + 1] ELSE cache[c]
          /\ logged[tail + 1] # None
          /\ \A i \in 1 .. Len(lh) : lh[i] = b <=> i = tail + 1
    BY <1>7, InstallStep
  <2>2. tail \in Nat /\ tail + 1 \in 1 .. Len(lh)
    BY <1>7, NextBlock
  <2>3. ASSUME NEW i \in 1 .. tail + 1 PROVE home'[lh'[i]] = logged'[i]
    <3>1. i \in 1 .. Len(lh) /\ lh[i] \in Block
      BY <1>l, <2>2
    <3>2. CASE i = tail + 1
      BY <2>1, <3>1, <3>2
    <3>3. CASE i # tail + 1
      <4>1. i \in 1 .. tail
        BY <2>2, <3>3
      <4>2. home[lh[i]] = logged[i]
        BY <1>7, <4>1 DEF Copied
      <4> QED
        BY <2>1, <3>1, <3>3, <4>2
    <3> QED
      BY <3>2, <3>3
  <2>4. ASSUME committing = "install", NEW i \in 1 .. Len(lh)
        PROVE  logged'[i] = Data(lh[i])'
    <3>1. PICK c \in Block : c = lh[i]
      BY <1>l
    <3>2. logged[i] = Data(c)
      BY <2>4, <3>1 DEF Copied
    <3>3. Data(lh[i])' = IF cache'[c] = None THEN home'[c] ELSE cache'[c]
      BY <2>1, <3>1 DEF Data
    <3>4. CASE i = tail + 1
      BY <2>1, <3>1, <3>3, <3>4
    <3>5. CASE i # tail + 1
      BY <2>1, <3>1, <3>2, <3>3, <3>5 DEF Data
    <3> QED
      BY <3>4, <3>5
  <2>5. CASE tail + 1 < Len(lh)
    <3>1. tail' = tail + 1 /\ committing' = committing /\ lh' = lh
      BY <1>7, <2>1, <2>5 DEF InstallBlock
    <3> QED
      BY <1>7, <2>3, <2>4, <3>1 DEF Copied
  <2>6. CASE ~ (tail + 1 < Len(lh))
    <3>1. Len(lh') = tail + 1 /\ committing' = next
      BY <1>7, <2>1, <2>2, <2>6 DEF InstallBlock
    <3> QED
      BY <2>3, <3>1 DEF Copied
  <2> QED
    BY <2>5, <2>6
<1>8. CASE Clear \/ Reclear \/ EndCommit \/ Crash
  BY <1>2, <1>8 DEF Clear, Reclear, ClearHead, EndCommit, Crash
<1>9. CASE ReadHead
  <2>1. tail' = 0 /\ lh' = head /\ committing' = IF head = <<>> THEN "reclear" ELSE "reinstall"
    BY <1>9 DEF ReadHead, Formed
  <2> QED
    BY <2>1 DEF Copied
<1>10. CASE UNCHANGED vars
  <2>1. \A b \in Block : Data(b)' = Data(b)
    BY <1>10 DEF vars, Data
  <2> QED
    BY <1>1, <1>10, <2>1 DEF vars
<1> QED
  BY <1>3, <1>4, <1>5, <1>6, <1>7, <1>8, <1>9, <1>10
  DEF Next, Committer, Recovery, Install, Reinstall

LEMMA Invariance ==
  ASSUME LogAssumption
  PROVE  Init /\ [][Next]_vars => []LogInv
<1>1. Init => LogInv
  BY InitInv
<1>2. LogInv /\ [Next]_vars => LogInv'
  <2> SUFFICES ASSUME LogInv, [Next]_vars PROVE LogInv'
    OBVIOUS
  <2>1. Counted'
    BY NextCounted
  <2>2. Typed' /\ Reserved' /\ Alone'
    BY <2>1, NextTyped, NextReserved
  <2>3. Held' /\ Formed' /\ Copied'
    BY NextHeld, NextFormed, NextCopied
  <2> QED
    BY <2>1, <2>2, <2>3 DEF LogInv
<1> QED
  BY <1>1, <1>2, PTL

-----------------------------------------------------------------------------
(* the refinement: what a read of a block returns, and what a crash leaves  *)

Mem == IF Recovering THEN Durable ELSE [b \in Block |-> Data(b)]

DurableFacts ==
  /\ Durable \in [Block -> Value]
  /\ \A i \in 1 .. Len(head) : Durable[head[i]] = logged[i]
  /\ \A b \in Block : (\A i \in 1 .. Len(head) : head[i] # b) => Durable[b] = home[b]

LEMMA DurableAt ==
  ASSUME LogAssumption
  PROVE  LogInv => DurableFacts
<1> SUFFICES ASSUME LogInv PROVE DurableFacts
  OBVIOUS
<1> USE Sizes DEF LogInv, Typed, TypeOK
<1>1. ASSUME NEW b \in Block PROVE Durable[b] \in Value
  <2>1. CASE \E i \in 1 .. Len(head) : head[i] = b
    <3>1. PICK k : k = CHOOSE i \in 1 .. Len(head) : head[i] = b
      OBVIOUS
    <3>2. k \in 1 .. Len(head) /\ Durable[b] = logged[k]
      BY <2>1, <3>1 DEF Durable
    <3>3. k \in 1 .. LOGSIZE
      BY <3>2
    <3> QED
      BY <3>2, <3>3
  <2>2. CASE ~ \E i \in 1 .. Len(head) : head[i] = b
    BY <2>2 DEF Durable
  <2> QED
    BY <2>1, <2>2
<1>2. ASSUME NEW i \in 1 .. Len(head) PROVE Durable[head[i]] = logged[i]
  <2>1. PICK b \in Block : b = head[i]
    OBVIOUS
  <2>2. ASSUME NEW j \in 1 .. Len(head), head[j] = b PROVE j = i
    BY <2>1, <2>2 DEF IsInjective
  <2>3. (CHOOSE j \in 1 .. Len(head) : head[j] = b) = i
    BY <2>1, <2>2
  <2> QED
    BY <2>1, <2>3 DEF Durable
<1> QED
  BY <1>1, <1>2 DEF DurableFacts, Durable

LEMMA MemAt ==
  ASSUME LogAssumption, LogInv
  PROVE  /\ Mem \in [Block -> Value]
         /\ \A b \in Block : Mem[b] = IF Recovering THEN Durable[b] ELSE Data(b)
<1> USE Sizes DEF LogInv, Typed, TypeOK
<1>1. \A b \in Block : Data(b) \in Value
  BY DEF Data
<1> QED
  BY <1>1, DurableAt DEF DurableFacts, Mem

\* once all blocks of the header are in place, or there are none, the disk is durable
LEMMA InPlace ==
  ASSUME LogAssumption, LogInv, \A i \in 1 .. Len(head) : home[head[i]] = logged[i]
  PROVE  Durable = home
<1> USE Sizes DEF LogInv, Typed, TypeOK
<1>0. DurableFacts
  BY DurableAt
<1>1. ASSUME NEW b \in Block PROVE Durable[b] = home[b]
  <2>1. CASE \E i \in 1 .. Len(head) : head[i] = b
    BY <1>0, <2>1 DEF DurableFacts
  <2> QED
    BY <1>0, <2>1 DEF DurableFacts
<1> QED
  BY <1>0, <1>1 DEF DurableFacts

LEMMA CleanData ==
  ASSUME LogAssumption, LogInv, Active = {}, NEW b \in Block, b \notin dirty
  PROVE  Data(b) = home[b]
BY NoBuffers, Sizes DEF LogInv, Held, Data, Typed, TypeOK

\* the invariant in the two states of a step
LEMMA SameDisk ==
  ASSUME LogAssumption, LogInv, LogInv', UNCHANGED disk
  PROVE  Durable' = Durable
BY DEF Durable, disk

LEMMA SameMem ==
  ASSUME LogAssumption, LogInv, LogInv', Recovering' = Recovering, Durable' = Durable,
         ~ Recovering => \A b \in Block : Data(b)' = Data(b)
  PROVE  Mem' = Mem
<1>1. CASE Recovering
  BY <1>1 DEF Mem
<1>2. CASE ~ Recovering
  BY <1>2 DEF Mem
<1> QED
  BY <1>1, <1>2

Stutters == UNCHANGED <<Mem, Durable, Active>>

LEMMA OperationRefines ==
  ASSUME LogAssumption, LogInv, LogInv', NEW p \in Proc, Process(p)
  PROVE  Atomic!Next \/ Stutters
<1> USE Sizes DEF LogInv, Typed, TypeOK, disk, memory
<1>1. CASE begin_op(p)
  <2>1. Durable' = Durable /\ Recovering' = Recovering
    BY <1>1, SameDisk DEF begin_op, Recovering
  <2>2. \A b \in Block : Data(b)' = Data(b)
    BY <1>1 DEF begin_op, Data
  <2>3. Mem' = Mem
    BY <2>1, <2>2, SameMem
  <2>4. Active' = Active \cup {p} \/ Active' = Active
    BY <1>1, BeginCounts
  <2> QED
    BY <2>1, <2>3, <2>4 DEF Stutters, Mem, Active, Atomic!Next, Atomic!Begin
<1>2. ASSUME NEW b \in Block, NEW v \in Value, Modify(p, b, v) PROVE Atomic!Next
  <2>1. p \in Active /\ Active' = Active /\ ~ Recovering /\ ~ Recovering'
    BY <1>2 DEF Modify, Active, Counted, Recovering
  <2>2. Durable' = Durable
    BY <1>2, SameDisk DEF Modify
  <2>3. \A c \in Block : Data(c)' = IF c = b THEN v ELSE Data(c)
    BY <1>2 DEF Modify, Data
  <2>4. Mem' = [Mem EXCEPT ![b] = v]
    BY <2>1, <2>3 DEF Mem
  <2> QED
    BY <2>1, <2>2, <2>4 DEF Mem, Active, Atomic!Next, Atomic!Write
<1>3. CASE LogCheck(p) \/ LogRecord(p)
  <2>1. Active' = Active /\ Recovering' = Recovering
    BY <1>3 DEF LogCheck, LogRecord, Active, Recovering
  <2>2. Durable' = Durable /\ \A b \in Block : Data(b)' = Data(b)
    BY <1>3, SameDisk DEF LogCheck, LogRecord, Data
  <2> QED
    BY <2>1, <2>2, SameMem DEF Stutters
<1>4. CASE end_op(p)
  <2>1. Active' = Active \ {p} /\ committing = "idle"
    BY <1>4, EndCounts
  <2>2. Recovering' = Recovering
    BY <1>4, <2>1 DEF end_op, CommitFirst, Recovering
  <2>3. Durable' = Durable /\ \A b \in Block : Data(b)' = Data(b)
    BY <1>4, SameDisk DEF end_op, Data
  <2>4. Mem' = Mem
    BY <2>2, <2>3, SameMem
  <2> QED
    BY <2>1, <2>3, <2>4 DEF Mem, Active, Atomic!Next, Atomic!End
<1> QED
  BY <1>1, <1>2, <1>3, <1>4 DEF Process

\* only the write of the header makes anything durable
LEMMA CommitRefines ==
  ASSUME LogAssumption, LogInv, LogInv', Committer
  PROVE  Atomic!Next \/ Stutters
<1> USE Sizes DEF LogInv, Typed, TypeOK, disk, memory
<1>0. /\ Active = {} /\ Active' = {}
      /\ ~ Recovering /\ ~ Recovering' /\ Recovering' = Recovering
  <2>1. committing \notin {"idle", "read_head", "reinstall", "reclear"} /\
        committing' \notin {"read_head", "reinstall", "reclear"}
    BY DEF Committer, WriteLog, WriteHead, Install, InstallBlock, Clear, ClearHead, EndCommit
  <2>2. Active = {}
    BY <2>1 DEF Counted
  <2>3. Active' = Active
    BY <2>2, NoBuffers DEF Committer, WriteLog, WriteHead, Install, InstallBlock, Clear, ClearHead,
       EndCommit, CommitWakes, Woken, Active
  <2> QED
    BY <2>1, <2>2, <2>3 DEF Recovering
<1>1. CASE WriteLog
  <2>1. Durable' = Durable
    <3>1. head = <<>> /\ head' = <<>> /\ home' = home
      BY <1>1 DEF WriteLog, Formed
    <3> QED
      BY <3>1, InPlace DEF Durable
  <2>2. \A b \in Block : Data(b)' = Data(b)
    BY <1>1 DEF WriteLog, Data
  <2> QED
    BY <1>0, <2>1, <2>2, SameMem DEF Stutters
<1>2. CASE WriteHead
  <2>1. \A b \in Block : Data(b)' = Data(b)
    BY <1>2 DEF WriteHead, Data
  <2>2. Mem' = Mem
    BY <1>0, <2>1 DEF Mem
  <2>3. /\ dirty = ToSet(lh) /\ \A i \in 1 .. Len(lh) : logged[i] = Data(lh[i])
        /\ head' = lh /\ logged' = logged /\ home' = home
    BY <1>2 DEF WriteHead, Formed, Copied
  <2>4. DurableFacts'
    BY DurableAt, PTL
  <2>5. ASSUME NEW b \in Block PROVE Durable'[b] = Mem[b]
    <3>1. Mem[b] = Data(b)
      BY <1>0, MemAt
    <3>2. CASE \E i \in 1 .. Len(lh) : lh[i] = b
      BY <2>3, <2>4, <3>1, <3>2 DEF DurableFacts
    <3>3. CASE ~ \E i \in 1 .. Len(lh) : lh[i] = b
      <4>1. b \notin dirty
        BY <2>3, <3>3 DEF ToSet
      <4>2. Data(b) = home[b]
        BY <1>0, <4>1, CleanData
      <4> QED
        BY <2>3, <2>4, <3>1, <3>3, <4>2 DEF DurableFacts
    <3> QED
      BY <3>2, <3>3
  <2>6. Durable' = Mem
    BY <2>4, <2>5, MemAt DEF DurableFacts
  <2> QED
    BY <1>0, <2>2, <2>6 DEF Mem, Active, Atomic!Next, Atomic!Commit
<1>3. CASE Install
  <2>1. committing = "install" /\ InstallBlock("clear") /\ lh = head
    BY <1>3 DEF Install, Formed
  <2>2. PICK b \in Block :
          /\ b = lh[tail + 1] /\ UNCHANGED <<logged, head, lh>>
          /\ \A c \in Block : home'[c] = IF c = b THEN logged[tail + 1] ELSE home[c]
          /\ \A c \in Block : cache'[c] = IF c = b THEN logged[tail + 1] ELSE cache[c]
          /\ logged[tail + 1] # None
    BY <2>1, InstallStep
  <2>3. tail + 1 \in 1 .. Len(lh) /\ logged[tail + 1] = Data(b)
    BY <2>1, <2>2, NextBlock DEF Copied
  <2>4. \A c \in Block : Data(c)' = Data(c)
    BY <2>2, <2>3 DEF Data
  <2>5. Durable' = Durable
    BY <2>1, <2>2, <2>3 DEF Durable
  <2> QED
    BY <1>0, <2>4, <2>5, SameMem DEF Stutters
<1>4. CASE Clear
  <2>1. lh = head /\ (\A i \in 1 .. Len(lh) : home[lh[i]] = logged[i]) /\ head' = <<>> /\ home' = home
    BY <1>4 DEF Clear, ClearHead, Formed, Copied
  <2>2. Durable = home
    BY <2>1, InPlace
  <2>3. Durable' = home
    BY <2>1 DEF Durable
  <2>4. \A b \in Block : Data(b)' = Data(b)
    BY <1>4 DEF Clear, ClearHead, Data
  <2> QED
    BY <1>0, <2>2, <2>3, <2>4, SameMem DEF Stutters
<1>5. CASE EndCommit
  <2>1. Durable' = Durable /\ \A b \in Block : Data(b)' = Data(b)
    BY <1>5, SameDisk DEF EndCommit, Data
  <2> QED
    BY <1>0, <2>1, SameMem DEF Stutters
<1> QED
  BY <1>1, <1>2, <1>3, <1>4, <1>5 DEF Committer

\* a recovery, crashed and begun again as often as it may be, changes nothing
LEMMA RecoveryRefines ==
  ASSUME LogAssumption, LogInv, LogInv', Recovery
  PROVE  Stutters
<1> USE Sizes DEF LogInv, Typed, TypeOK, disk, memory
<1>0. Active = {} /\ Active' = {} /\ Recovering
  BY DEF Recovery, ReadHead, Reinstall, Reclear, InstallBlock, ClearHead, Counted, Active, Recovering
<1>1. CASE ReadHead
  <2>1. Durable' = Durable /\ Recovering'
    BY <1>1, SameDisk DEF ReadHead, Recovering
  <2> QED
    BY <1>0, <2>1 DEF Mem, Stutters
<1>2. CASE Reinstall
  <2>1. committing = "reinstall" /\ InstallBlock("reclear") /\ lh = head
    BY <1>2 DEF Reinstall, Formed
  <2>2. PICK b \in Block :
          /\ b = lh[tail + 1] /\ UNCHANGED <<logged, head, lh>>
          /\ \A c \in Block : home'[c] = IF c = b THEN logged[tail + 1] ELSE home[c]
    BY <2>1, InstallStep
  <2>3. tail + 1 \in 1 .. Len(lh)
    BY <2>1, NextBlock
  <2>4. Durable' = Durable
    BY <2>1, <2>2, <2>3 DEF Durable
  <2>5. Recovering'
    BY <2>1 DEF InstallBlock, Recovering
  <2> QED
    BY <1>0, <2>4, <2>5 DEF Mem, Stutters
<1>3. CASE Reclear
  <2>1. /\ lh = head /\ (\A i \in 1 .. Len(lh) : home[lh[i]] = logged[i]) /\ head' = <<>>
        /\ UNCHANGED <<home, cache, dirty>> /\ dirty = {} /\ ~ Recovering'
    BY <1>3 DEF Reclear, ClearHead, Formed, Copied, Recovering
  <2>2. Durable = home
    BY <2>1, InPlace
  <2>3. Durable' = home
    BY <2>1 DEF Durable
  <2>4. \A b \in Block : Data(b) = home[b]
    BY <1>0, <2>1, CleanData
  <2>5. \A b \in Block : Data(b)' = home[b]
    BY <2>1, <2>4 DEF Data
  <2>6. Mem' = home
    BY <2>1, <2>5 DEF Mem
  <2>7. Mem = home
    BY <1>0, <2>2 DEF Mem
  <2> QED
    BY <1>0, <2>2, <2>3, <2>6, <2>7 DEF Stutters
<1> QED
  BY <1>1, <1>2, <1>3 DEF Recovery

LEMMA StepRefines ==
  ASSUME LogAssumption, LogInv, LogInv', [Next]_vars
  PROVE  Atomic!Next \/ Stutters
<1> USE Sizes DEF LogInv, Typed, TypeOK, disk, memory
<1>1. CASE \E p \in Proc : Process(p)
  BY <1>1, OperationRefines
<1>2. ASSUME NEW b \in Block, Evict(b) PROVE Stutters
  <2>1. cache[b] = home[b]
    BY <1>2 DEF Evict, Held
  <2>2. Durable' = Durable /\ \A c \in Block : Data(c)' = Data(c)
    BY <1>2, <2>1, SameDisk DEF Evict, Data
  <2>3. Recovering' = Recovering /\ Active' = Active
    BY <1>2 DEF Evict, Recovering, Active
  <2> QED
    BY <2>2, <2>3, SameMem DEF Stutters
<1>3. CASE Committer
  BY <1>3, CommitRefines
<1>4. CASE Recovery
  BY <1>4, RecoveryRefines
<1>5. CASE Crash
  <2>1. Durable' = Durable /\ Recovering' /\ Active' = {}
    BY <1>5, SameDisk DEF Crash, Recovering, Active
  <2>2. Mem' = Durable
    BY <2>1 DEF Mem
  <2> QED
    BY <2>1, <2>2 DEF Mem, Active, Atomic!Next, Atomic!Crash
<1>6. CASE UNCHANGED vars
  BY <1>6 DEF vars, Stutters, Mem, Durable, Data, Recovering, Active
<1> QED
  BY <1>1, <1>2, <1>3, <1>4, <1>5, <1>6 DEF Next

LEMMA InitRefines ==
  ASSUME LogAssumption, Init
  PROVE  Atomic!Init
<1>1. LogInv
  BY InitInv
<1>2. ~ Recovering /\ Active = {}
  BY DEF Init, Recovering, Active
<1>3. Durable = home
  BY <1>1, InPlace DEF Init
<1>4. \A b \in Block : Data(b) = home[b]
  BY DEF Init, Data
<1>5. home \in [Block -> Value]
  BY <1>1 DEF LogInv, Typed, TypeOK
<1>6. Mem = home
  BY <1>2, <1>4, <1>5 DEF Mem
<1> QED
  BY <1>2, <1>3, <1>5, <1>6 DEF Mem, Active, Atomic!Init

-----------------------------------------------------------------------------
\* log.c, for any number of processes and blocks: the variables keep their types; between
\* groups of operations the disk holds what memory holds; the reservation of begin_op()
\* keeps log_write() from its panic; and with a crash at any time, in a commit or in a
\* recovery, all or none of the writes of a group of operations survive (the refinement).
THEOREM LogIsCorrect ==
  ASSUME LogAssumption
  PROVE  Spec => LogCorrect
<1>1. LogInv => QuietIsDurable
  <2> SUFFICES ASSUME LogInv, committing = "idle", outstanding = 0
               PROVE  Durable = [b \in Block |-> Data(b)] /\ dirty = {}
    BY DEF QuietIsDurable
  <2>1. Active = {}
    BY ActiveFinite, FS_EmptySet DEF LogInv, Counted
  <2>2. dirty = {} /\ head = <<>>
    BY <2>1 DEF LogInv, Counted, Formed, ToSet
  <2>3. Durable = home
    BY <2>2, InPlace
  <2>4. \A b \in Block : Data(b) = home[b]
    BY <2>1, <2>2, CleanData
  <2>5. home \in [Block -> Value]
    BY DEF LogInv, Typed, TypeOK
  <2> QED
    BY <2>2, <2>3, <2>4, <2>5
<1>2. LogInv => NoPanic
  <2> SUFFICES ASSUME LogInv, NEW p \in Proc, pc[p] \in {"in", "check", "record"}
               PROVE  ~ TooBig /\ Len(lh) < LOGSIZE /\ committing = "idle"
    BY DEF NoPanic
  <2>1. p \in Active
    BY DEF Active
  <2>2. Len(lh) + 1 <= LOGSIZE /\ Len(lh) + 1 < LogBlocks /\ Len(lh) \in Nat
    BY <2>1, RoomLeft DEF LogInv, Typed
  <2> QED
    BY <2>1, <2>2, Sizes DEF TooBig, LogInv, Counted
<1>3. LogInv => TypeOK
  BY DEF LogInv, Typed
<1>4. Init => Atomic!Init
  BY InitRefines
<1>5. LogInv /\ LogInv' /\ [Next]_vars => [Atomic!Next]_(Atomic!vars)
  BY StepRefines DEF Stutters, Mem, Active, Atomic!vars
<1> QED
  BY <1>1, <1>2, <1>3, <1>4, <1>5, Invariance, PTL
  DEF Spec, LogCorrect, AtomicSpec, Atomic!Spec

-----------------------------------------------------------------------------
(* DiskCorrect, for any number of buffers.  It is not inductive: what a process will *)
(* find when it comes out depends on what the disk was sent, on what it has written, *)
(* and on the flags of the buffers in the queue. *)

Queued(b) == b \in ToSet(ideIdequeue)

\* nobody leaves iderw() while its buffer is in the queue
Waiting == \A b \in Block : Queued(b) => idePc[b] # "out" /\ ~ Ide0!Done(b)

\* a buffer that is not in the queue has been served
Settled ==
  \A b \in Block :
    ~ Queued(b) => (ideValid[b] => ~ ideDirty[b]) /\ (ideRead[b] => ideData[b] = ideDisk[b])

\* of a write, the disk was sent the data, and has them before it interrupts, unless it failed
Sent ==
  /\ ideIntr => ideCommand # None
  /\ ideCommand \in Block /\ ideDirty[ideCommand] =>
       IF ideIntr THEN ideFailed \/ ideDisk[ideCommand] = ideData[ideCommand]
                  ELSE ideSent = ideData[ideCommand]

IdeInv == Ide0!TypeOK /\ Ide0!ActiveIsHead /\ Waiting /\ Settled /\ Sent

\* what iderw() does to the queue
LEMMA AppendFacts ==
  ASSUME NEW q \in Seq(Block), Ide0!IsInjective(q), NEW b \in Block, b \notin ToSet(q)
  PROVE  /\ Append(q, b) \in Seq(Block) /\ Ide0!IsInjective(Append(q, b))
         /\ ToSet(Append(q, b)) = ToSet(q) \cup {b}
         /\ Append(q, b) # <<>>
         /\ Ide0!StartFirst(Append(q, b)) <=> q = <<>>
         /\ Head(Append(q, b)) = IF q = <<>> THEN b ELSE Head(q)
<1> DEFINE r == Append(q, b)
<1>1. /\ r \in Seq(Block) /\ Len(r) = Len(q) + 1 /\ r[Len(r)] = b
      /\ \A i \in 1 .. Len(q) : r[i] = q[i]
  BY AppendProperties
<1>2. DOMAIN r = 1 .. Len(q) + 1 /\ DOMAIN q = 1 .. Len(q) /\ Len(q) \in Nat
  BY <1>1, LenProperties
<1>3. Ide0!IsInjective(r)
  <2> SUFFICES ASSUME NEW i \in DOMAIN r, NEW j \in DOMAIN r, r[i] = r[j]
               PROVE  i = j
    BY DEF Ide0!IsInjective
  <2>1. CASE i \in DOMAIN q /\ j \in DOMAIN q
    BY <2>1, <1>1, <1>2 DEF Ide0!IsInjective
  <2>2. CASE i \notin DOMAIN q \/ j \notin DOMAIN q
    BY <2>2, <1>1, <1>2 DEF ToSet
  <2> QED
    BY <2>1, <2>2
<1>4. ToSet(r) = ToSet(q) \cup {b}
  BY <1>1, <1>2 DEF ToSet
<1>5. q = <<>> <=> Len(q) = 0
  BY EmptySeq
<1>6. Head(r) = r[1] /\ r # <<>>
  BY <1>1, <1>2, EmptySeq
<1>7. q # <<>> => Head(q) = q[1]
  OBVIOUS
<1> QED
  BY <1>1, <1>2, <1>3, <1>4, <1>5, <1>6, <1>7 DEF Ide0!StartFirst

\* what ideintr() does to it
LEMMA TailFacts ==
  ASSUME NEW q \in Seq(Block), Ide0!IsInjective(q), q # <<>>
  PROVE  /\ Tail(q) \in Seq(Block) /\ Ide0!IsInjective(Tail(q))
         /\ Head(q) \in ToSet(q) /\ Head(q) \in Block
         /\ ToSet(Tail(q)) = ToSet(q) \ {Head(q)}
         /\ Tail(q) # <<>> => Head(Tail(q)) \in ToSet(Tail(q))
<1> DEFINE t == Tail(q)
<1>1. /\ t \in Seq(Block) /\ Len(t) = Len(q) - 1 /\ Head(q) = q[1]
      /\ \A i \in 1 .. Len(t) : t[i] = q[i + 1]
  BY HeadTailProperties
<1>2. /\ DOMAIN t = 1 .. Len(q) - 1 /\ DOMAIN q = 1 .. Len(q)
      /\ Len(q) \in Nat \ {0} /\ \A i \in DOMAIN q : q[i] \in Block
  BY <1>1, EmptySeq
<1> HIDE DEF t
<1>3. Ide0!IsInjective(t)
  <2> SUFFICES ASSUME NEW i \in DOMAIN t, NEW j \in DOMAIN t, t[i] = t[j]
               PROVE  i = j
    BY DEF Ide0!IsInjective
  <2>1. i + 1 \in DOMAIN q /\ j + 1 \in DOMAIN q /\ q[i + 1] = q[j + 1]
    BY <1>1, <1>2
  <2>2. i + 1 = j + 1
    BY <2>1 DEF Ide0!IsInjective
  <2> QED
    BY <2>2, <1>2
<1>4. ToSet(t) \subseteq ToSet(q) \ {q[1]}
  <2> SUFFICES ASSUME NEW i \in DOMAIN t PROVE t[i] \in ToSet(q) \ {q[1]}
    BY DEF ToSet
  <2>1. i + 1 \in DOMAIN q /\ 1 \in DOMAIN q /\ i + 1 # 1 /\ t[i] = q[i + 1]
    BY <1>1, <1>2
  <2> QED
    BY <2>1 DEF ToSet, Ide0!IsInjective
<1>5. ToSet(q) \ {q[1]} \subseteq ToSet(t)
  <2> SUFFICES ASSUME NEW i \in DOMAIN q, q[i] # q[1] PROVE q[i] \in ToSet(t)
    BY DEF ToSet
  <2>1. i - 1 \in DOMAIN t /\ t[i - 1] = q[i]
    BY <1>1, <1>2
  <2> QED
    BY <2>1 DEF ToSet
<1>6. t # <<>> => Head(t) = t[1] /\ 1 \in DOMAIN t
  BY <1>1, <1>2, EmptySeq
<1>7. q[1] \in ToSet(q) /\ q[1] \in Block
  BY <1>2 DEF ToSet
<1>8. t # <<>> => Head(t) \in ToSet(t)
  BY <1>6 DEF ToSet
<1> QED
  BY <1>1, <1>3, <1>4, <1>5, <1>7, <1>8 DEF t

-----------------------------------------------------------------------------
LEMMA IdeInitial ==
  ASSUME Ide0!IdleAssumption PROVE Ide0!Init => IdeInv
<1> SUFFICES ASSUME Ide0!Init PROVE IdeInv
  OBVIOUS
<1>1. ToSet(<<>>) = {} /\ <<>> \in Seq(Block) /\ Ide0!IsInjective(<<>>)
  BY DEF ToSet, Ide0!IsInjective
<1>2. Ide0!TypeOK
  BY <1>1 DEF Ide0!Init, Ide0!TypeOK
<1>3. Ide0!ActiveIsHead /\ Waiting /\ Settled /\ Sent
  BY <1>1 DEF Ide0!Init, Ide0!ActiveIsHead, Waiting, Settled, Sent, Queued, Ide0!IdleAssumption
<1> QED
  BY <1>2, <1>3 DEF IdeInv

LEMMA RequestKeeps ==
  ASSUME Ide0!IdleAssumption, IdeInv, NEW b \in Block, NEW write \in BOOLEAN, NEW v \in Value,
         Ide0!iderw(b, write, v)
  PROVE  IdeInv'
<1> USE DEF Ide0!buffers, Ide0!device
<1>1. ~ Queued(b) /\ ideIdequeue \in Seq(Block) /\ Ide0!IsInjective(ideIdequeue)
  BY DEF IdeInv, Ide0!TypeOK, Waiting, Ide0!iderw
<1>2. /\ ideIdequeue' \in Seq(Block) /\ Ide0!IsInjective(ideIdequeue')
      /\ ToSet(ideIdequeue') = ToSet(ideIdequeue) \cup {b} /\ ideIdequeue' # <<>>
      /\ Ide0!StartFirst(ideIdequeue') <=> ideIdequeue = <<>>
      /\ Head(ideIdequeue') = IF ideIdequeue = <<>> THEN b ELSE Head(ideIdequeue)
  BY <1>1, AppendFacts DEF Ide0!iderw, Queued
<1>3. /\ ideValid' \in [Block -> BOOLEAN] /\ ideDirty' \in [Block -> BOOLEAN]
      /\ ideData' \in [Block -> Value] /\ ideRead' = [ideRead EXCEPT ![b] = FALSE]
      /\ idePc' = [idePc EXCEPT ![b] = "asleep"]
      /\ ~ (ideValid'[b] /\ ~ ideDirty'[b])
      /\ \A c \in Block \ {b} :
           ideValid'[c] = ideValid[c] /\ ideDirty'[c] = ideDirty[c] /\ ideData'[c] = ideData[c]
      /\ UNCHANGED <<ideDisk, ideIntr, ideFailed>>
  BY DEF IdeInv, Ide0!TypeOK, Ide0!iderw
<1>4. IF ideIdequeue = <<>> THEN ideCommand' = b /\ ideSent' = ideData'[b]
                         ELSE UNCHANGED <<ideCommand, ideSent>>
  BY <1>2 DEF Ide0!iderw, Ide0!idestart
<1>5. Ide0!TypeOK'
  BY <1>2, <1>3, <1>4 DEF IdeInv, Ide0!TypeOK
<1>6. Ide0!ActiveIsHead'
  BY <1>2, <1>4 DEF IdeInv, Ide0!ActiveIsHead
<1>7. Waiting'
  BY <1>2, <1>3 DEF IdeInv, Ide0!TypeOK, Waiting, Queued, Ide0!Done
<1>8. Settled'
  BY <1>2, <1>3 DEF IdeInv, Ide0!TypeOK, Settled, Queued
<1>9. Sent'
  <2>1. CASE ideIdequeue = <<>>
    <3>1. ~ ideIntr
      BY <2>1 DEF IdeInv, Ide0!ActiveIsHead, Sent
    <3> QED
      BY <2>1, <3>1, <1>3, <1>4 DEF Sent
  <2>2. CASE ideIdequeue # <<>>
    <3>1. ideCommand = Head(ideIdequeue) /\ ideCommand \in ToSet(ideIdequeue)
      BY <2>2, <1>1, TailFacts DEF IdeInv, Ide0!ActiveIsHead
    <3>2. ideCommand # b
      BY <3>1, <1>1 DEF Queued
    <3> QED
      BY <2>2, <3>2, <1>3, <1>4 DEF IdeInv, Sent
  <2> QED
    BY <2>1, <2>2
<1> QED
  BY <1>5, <1>6, <1>7, <1>8, <1>9 DEF IdeInv

\* a process that waits changes nothing but where it is, and leaves when it is served
LEMMA WaiterKeeps ==
  ASSUME IdeInv, NEW b \in Block, Ide0!iderwWait(b) \/ Ide0!Kill(b)
  PROVE  IdeInv'
<1> USE DEF Ide0!buffers, Ide0!device
<1>1. UNCHANGED <<ideValid, ideDirty, ideData, ideIdequeue, ideDisk, ideCommand, ideSent, ideIntr, ideFailed, ideRead>>
  BY DEF Ide0!iderwWait, Ide0!Kill
<1>2. /\ idePc' \in [Block -> {"out", "asleep", "awake"}]
      /\ \A c \in Block : idePc'[c] = "out" => idePc[c] = "out" \/ Ide0!Done(c)
  BY DEF IdeInv, Ide0!TypeOK, Ide0!iderwWait, Ide0!Kill
<1>3. Ide0!TypeOK' /\ Ide0!ActiveIsHead' /\ Settled' /\ Sent'
  BY <1>1, <1>2 DEF IdeInv, Ide0!TypeOK, Ide0!ActiveIsHead, Settled, Queued, Sent
<1>4. Waiting'
  BY <1>1, <1>2 DEF IdeInv, Waiting, Queued, Ide0!Done
<1> QED
  BY <1>3, <1>4 DEF IdeInv

LEMMA DiskKeeps ==
  ASSUME Ide0!IdleAssumption, IdeInv, Ide0!Disk PROVE IdeInv'
<1> USE DEF Ide0!buffers
<1>1. UNCHANGED <<ideValid, ideDirty, ideData, ideIdequeue, ideCommand, ideSent, idePc, ideRead>>
  BY DEF Ide0!Disk
<1>2. ideCommand \in ToSet(ideIdequeue) /\ ideCommand \in Block /\ ~ ideIntr /\ ideIntr'
  BY TailFacts DEF IdeInv, Ide0!TypeOK, Ide0!ActiveIsHead, Ide0!Disk
<1>3. ideDisk' \in [Block -> Value] /\ \A b \in Block \ {ideCommand} : ideDisk'[b] = ideDisk[b]
  BY <1>2 DEF IdeInv, Ide0!TypeOK, Ide0!Disk
<1>4. ideDirty[ideCommand] => ideFailed' \/ ideDisk'[ideCommand] = ideData[ideCommand]
  BY <1>2 DEF IdeInv, Ide0!TypeOK, Ide0!Disk, Sent
<1>5. Ide0!TypeOK'
  BY <1>1, <1>3 DEF IdeInv, Ide0!TypeOK, Ide0!Disk
<1>6. Ide0!ActiveIsHead' /\ Waiting'
  BY <1>1 DEF IdeInv, Ide0!ActiveIsHead, Waiting, Queued, Ide0!Done
<1>7. Settled'
  BY <1>1, <1>2, <1>3 DEF IdeInv, Settled, Queued
<1>8. Sent'
  BY <1>1, <1>2, <1>4 DEF Sent, Ide0!IdleAssumption
<1> QED
  BY <1>5, <1>6, <1>7, <1>8 DEF IdeInv

LEMMA InterruptKeeps ==
  ASSUME Ide0!IdleAssumption, IdeInv, Ide0!ideintr PROVE IdeInv'
<1>1. PICK h : h = Head(ideIdequeue)
  OBVIOUS
<1>2. /\ ideIdequeue \in Seq(Block) /\ Ide0!IsInjective(ideIdequeue) /\ ideIdequeue # <<>>
      /\ ideIdequeue' = Tail(ideIdequeue)
  BY DEF IdeInv, Ide0!TypeOK, Ide0!ideintr
<1>3. /\ ideIdequeue' \in Seq(Block) /\ Ide0!IsInjective(ideIdequeue')
      /\ h \in ToSet(ideIdequeue) /\ h \in Block
      /\ ToSet(ideIdequeue') = ToSet(ideIdequeue) \ {h}
      /\ ideIdequeue' # <<>> => Head(ideIdequeue') \in ToSet(ideIdequeue')
  BY <1>1, <1>2, TailFacts
<1>4. /\ ideData' = IF ideDirty[h] \/ ideFailed THEN ideData ELSE [ideData EXCEPT ![h] = ideDisk[h]]
      /\ ideRead' = [ideRead EXCEPT ![h] = ~ ideFailed]
      /\ ideValid' = [ideValid EXCEPT ![h] = TRUE]
      /\ ideDirty' = [ideDirty EXCEPT ![h] = FALSE]
      /\ idePc' = [idePc EXCEPT ![h] = IF @ = "asleep" THEN "awake" ELSE @]
      /\ ideIntr /\ ~ ideIntr' /\ ~ ideFailed' /\ ideDisk' = ideDisk
  BY <1>1 DEF Ide0!ideintr, Ide0!Active
<1>5. IF ideIdequeue' = <<>> THEN ideCommand' = None /\ ideSent' = ideSent
      ELSE ideCommand' = Head(ideIdequeue') /\ ideSent' = ideData'[Head(ideIdequeue')]
  BY DEF Ide0!ideintr, Ide0!AllDone, Ide0!idestart
<1>6. ideDirty[h] => ideFailed \/ ideDisk[h] = ideData[h]
  BY <1>1, <1>2, <1>3, <1>4 DEF IdeInv, Ide0!ActiveIsHead, Sent
<1>7. /\ ideData' \in [Block -> Value] /\ ideRead' \in [Block -> BOOLEAN]
      /\ ideValid' \in [Block -> BOOLEAN] /\ ideDirty' \in [Block -> BOOLEAN]
      /\ idePc' \in [Block -> {"out", "asleep", "awake"}]
      /\ ideDisk' \in [Block -> Value]
      /\ ideIntr' \in BOOLEAN /\ ideFailed' \in BOOLEAN
  <2>1. /\ ideData \in [Block -> Value] /\ ideRead \in [Block -> BOOLEAN]
        /\ ideValid \in [Block -> BOOLEAN] /\ ideDirty \in [Block -> BOOLEAN]
        /\ idePc \in [Block -> {"out", "asleep", "awake"}]
        /\ ideDisk \in [Block -> Value] /\ ideFailed \in BOOLEAN
    BY DEF IdeInv, Ide0!TypeOK
  <2>2. ideData' \in [Block -> Value] /\ ideDisk' \in [Block -> Value]
    BY <2>1, <1>3, <1>4
  <2>3. (~ ideFailed) \in BOOLEAN
    OBVIOUS
  <2>4. ideRead' \in [Block -> BOOLEAN]
    BY <2>1, <2>3, <1>3, <1>4
  <2>5. ideValid' \in [Block -> BOOLEAN] /\ ideDirty' \in [Block -> BOOLEAN]
    BY <2>1, <1>4
  <2>6. idePc' \in [Block -> {"out", "asleep", "awake"}]
    BY <2>1, <1>3, <1>4
  <2>7. ideIntr' \in BOOLEAN /\ ideFailed' \in BOOLEAN
    BY DEF Ide0!ideintr
  <2> QED
    BY <2>2, <2>4, <2>5, <2>6, <2>7
<1>8. ideCommand' \in Block \cup {None} /\ ideSent' \in Value
  <2>1. CASE ideIdequeue' = <<>>
    BY <2>1, <1>5 DEF IdeInv, Ide0!TypeOK
  <2>2. CASE ideIdequeue' # <<>>
    <3>1. Head(ideIdequeue') \in Block
      BY <2>2, <1>3
    <3> QED
      BY <2>2, <3>1, <1>5, <1>7
  <2> QED
    BY <2>1, <2>2
<1>9. Ide0!TypeOK'
  BY <1>3, <1>7, <1>8 DEF Ide0!TypeOK
<1>10. Ide0!ActiveIsHead'
  BY <1>5 DEF Ide0!ActiveIsHead
<1>11. Waiting'
  BY <1>3, <1>4 DEF IdeInv, Ide0!TypeOK, Waiting, Queued, Ide0!Done
<1>12. Settled'
  <2> SUFFICES ASSUME NEW b \in Block, ~ Queued(b)'
               PROVE  (ideValid'[b] => ~ ideDirty'[b]) /\ (ideRead'[b] => ideData'[b] = ideDisk'[b])
    BY DEF Settled
  <2>1. CASE b = h
    BY <2>1, <1>3, <1>4, <1>6 DEF IdeInv, Ide0!TypeOK
  <2>2. CASE b # h
    <3>1. ~ Queued(b)
      BY <2>2, <1>3 DEF Queued
    <3> QED
      BY <2>2, <3>1, <1>3, <1>4 DEF IdeInv, Ide0!TypeOK, Settled
  <2> QED
    BY <2>1, <2>2
<1>13. Sent'
  BY <1>4, <1>5 DEF Sent, Ide0!IdleAssumption
<1> QED
  BY <1>9, <1>10, <1>11, <1>12, <1>13 DEF IdeInv

LEMMA IdeStep ==
  ASSUME Ide0!IdleAssumption PROVE IdeInv /\ [Ide0!Next]_(Ide0!vars) => IdeInv'
<1> SUFFICES ASSUME IdeInv, [Ide0!Next]_(Ide0!vars) PROVE IdeInv'
  OBVIOUS
<1>1. CASE UNCHANGED Ide0!vars
  BY <1>1 DEF IdeInv, Ide0!TypeOK, Ide0!ActiveIsHead, Waiting, Settled, Sent, Queued, Ide0!Done, Ide0!vars,
              Ide0!buffers
<1>2. ASSUME NEW b \in Block, NEW write \in BOOLEAN, NEW v \in Value, Ide0!iderw(b, write, v)
      PROVE  IdeInv'
  BY <1>2, RequestKeeps
<1>3. ASSUME NEW b \in Block, Ide0!iderwWait(b) \/ Ide0!Kill(b) PROVE IdeInv'
  BY <1>3, WaiterKeeps
<1>4. CASE Ide0!Disk
  BY <1>4, DiskKeeps
<1>5. CASE Ide0!ideintr
  BY <1>5, InterruptKeeps
<1> QED
  BY <1>1, <1>2, <1>3, <1>4, <1>5 DEF Ide0!Next

\* For any number of buffers, and whatever the order in which requests, interrupts,
\* failures of the disk and kills come: iderw() and ideintr() keep the disk at work for
\* the head of the queue, and who comes out of iderw() has what it asked for (DiskCorrect)
THEOREM DiskIsCorrect == SideSpec => []DiskCorrect
<1> DEFINE I == part = "ide" => IdeInv
<1>1. SideInit => I
  BY IdeInitial, SideAssumption DEF SideInit
<1>2. I /\ [SideStep \/ Stops]_sideVars => I'
  <2> SUFFICES ASSUME I, [SideStep \/ Stops]_sideVars, part' = "ide" PROVE IdeInv'
    OBVIOUS
  <2>1. part = "ide" /\ IdeInv
    BY DEF SideStep, Stops, sideVars
  <2>2. Ide0!Next \/ UNCHANGED Ide0!vars
    BY <2>1 DEF SideStep, Stops, sideVars, ideVars, Ide0!vars, Ide0!buffers
  <2> QED
    BY <2>1, <2>2, IdeStep, SideAssumption
<1>3. I => DiskCorrect
  BY DEF IdeInv, Waiting, Settled, Ide0!RequestDone, DiskCorrect
<1> QED
  BY <1>1, <1>2, <1>3, PTL DEF SideSpec

-----------------------------------------------------------------------------
(* The buffer cache, twice: its blocks at work, and its buffers counted.  The         *)
(* invariant and the refinement are those of BufferCache.                             *)

LEMMA CacheLibrary ==
  \A S : /\ Cache!IsFiniteSet(S) <=> IsFiniteSet(S)
         /\ Cache!Cardinality(S) = Cardinality(S)
  BY DEF Cache!IsFiniteSet, IsFiniteSet, Cache!Cardinality, Cardinality

LEMMA CountLibrary ==
  \A S : /\ Count!IsFiniteSet(S) <=> IsFiniteSet(S)
         /\ Count!Cardinality(S) = Cardinality(S)
  BY DEF Count!IsFiniteSet, IsFiniteSet, Count!Cardinality, Cardinality

LEMMA CacheStep ==
  ASSUME IsFiniteSet(Proc), IsFiniteSet(Buf)
  PROVE  /\ Cache!Init => Cache!Inv /\ Cache!Store!Init
         /\ Cache!Inv /\ [Cache!Next]_(Cache!vars) => Cache!Inv'
         /\ Cache!Inv /\ Cache!Inv' /\ [Cache!Next]_(Cache!vars) =>
              [Cache!Store!Next]_(Cache!Store!vars)
<1>1. Cache!CacheAssumption
  BY SideAssumption, CacheLibrary DEF Cache!CacheAssumption
<1> QED
  BY <1>1, Cache!Initially, Cache!StartRefines, Cache!Keeps, Cache!StepRefines

LEMMA CountStep ==
  ASSUME IsFiniteSet(Block), IsFiniteSet(Buf), Cardinality(Buf) + 1 <= Cardinality(Block)
  PROVE  /\ Count!Init => Count!Inv
         /\ Count!Inv /\ [Count!Next]_(Count!vars) => Count!Inv'
         /\ Count!Inv => Count!BufferFound
<1>1. Count!CacheAssumption
  BY SideAssumption, CountLibrary DEF Count!CacheAssumption
<1>2. Count!Cardinality(Buf) + 1 <= Count!Cardinality(Block)
  BY CountLibrary
<1>3. Count!Inv => Count!BufferFound
  BY <1>1, <1>2, Count!BuffersSuffice
<1> QED
  BY <1>1, <1>3, Count!Initially, Count!Keeps

\* For any number of processes, blocks and buffers: bio.c keeps one content and one user
\* for each block, loses no wakeup of a sleep lock, and, with a buffer for each process
\* and for the block that the log holds, bget() never runs out of them (CacheCorrect)
THEOREM CacheIsCorrect ==
  ASSUME IsFiniteSet(Proc), IsFiniteSet(Block), IsFiniteSet(Buf),
         Cardinality(Buf) + 1 <= Cardinality(Block)
  PROVE  SideSpec => CacheCorrect
<1> DEFINE I == (part = "cache" => Cache!Inv) /\ (part = "count" => Count!Inv)
           R == part = "cache" => [Cache!Store!Next]_(Cache!Store!vars)
<1>1. SideInit => I /\ (part = "cache" => Cache!Store!Init)
  BY CacheStep, CountStep DEF SideInit
<1>2. ASSUME [SideStep \/ Stops]_sideVars
      PROVE  /\ part' = part
             /\ part = "cache" => [Cache!Next]_(Cache!vars)
             /\ part = "count" => [Count!Next]_(Count!vars)
  BY <1>2 DEF SideStep, Stops, sideVars, bcVars, ctVars, Cache!vars, Count!vars
<1>3. I /\ [SideStep \/ Stops]_sideVars => I'
  BY <1>2, CacheStep, CountStep
<1>4. I /\ I' /\ [SideStep \/ Stops]_sideVars => [R]_sideVars
  BY <1>2, CacheStep
<1>5. /\ I => (part = "cache" => Cache!TypeOK /\ Cache!SleepersHaveHolder)
      /\ I => (part = "count" => Count!TypeOK /\ Count!BufferFound)
  BY CountStep DEF Cache!Inv, Count!Inv
<1> QED
  BY <1>1, <1>3, <1>4, <1>5, PTL DEF SideSpec, CacheCorrect

-----------------------------------------------------------------------------
(* The inode cache, for any number of processes, inodes and slots.  That an inode has *)
(* one slot, a fresh copy and a type is not inductive by itself: which inode a        *)
(* process is about, and who else can be about a new or a dying one, must be said.    *)

\* the inode a process has allocated, or refers to
Of(p) == IF icPc[p] = "iget" THEN icWant[p] ELSE icInum[icIp[p]]

\* the reference is of no more use when the process has started to put it
Spent == {"release", "drop"}

\* a process has what its place in the code says it has
Placed ==
  /\ \A p \in Proc : icIp[p] = None <=> icPc[p] \in {"none", "iget"}
  /\ \A p \in Proc : icWant[p] = None <=> icPc[p] # "iget"
  /\ \A p \in Proc : icPc[p] \in {"locked", "free", "release"} => icLock[icIp[p]] = p
  /\ \A p \in Proc, s \in Block :
       icLock[s] = p => icIp[p] = s /\ icPc[p] \in {"locked", "free", "release"}

\* references are counted, and there are no two slots of an inode
Users(s) == {p \in Proc : icIp[p] = s}

RefsCounted == \A s \in Block : icRef[s] = Cardinality(Users(s))

Slots ==
  /\ \A p \in Proc : icIp[p] # None => icInum[icIp[p]] \in Buf
  /\ \A p, q \in Proc :
       icIp[p] # None /\ icIp[q] # None /\ icInum[icIp[p]] = icInum[icIp[q]] =>
         icIp[p] = icIp[q]

\* the disk: an inode that is not used has no links; one that a process is about is used
Disks ==
  /\ \A i \in Buf : icEntries[i] = icDinode[i].nlink
  /\ \A i \in Buf : ~ icDinode[i].used => icDinode[i].nlink = 0
  /\ \A p \in Proc : icPc[p] \notin {"none"} \cup Spent => icDinode[Of(p)].used

\* memory: a copy is that of an inode that is used
Copies ==
  /\ \A p \in Proc :
       icIp[p] # None /\ icValid[icIp[p]] =>
         icCopy[icIp[p]] = icDinode[icInum[icIp[p]]] /\ icCopy[icIp[p]].used
  /\ \A p \in Proc : icPc[p] \in {"locked", "free"} => icValid[icIp[p]]

\* an inode that is about to be freed has no links and no other user
Dying ==
  \A p \in Proc :
    icPc[p] = "free" =>
      icDinode[Of(p)].nlink = 0 /\ \A q \in Proc : icIp[q] = icIp[p] => q = p

\* a new inode has no links, and who else is about it, is about its former life
Fresh ==
  \A p \in Proc :
    icPc[p] \in {"iget", "new"} =>
      /\ icDinode[Of(p)].nlink = 0
      /\ \A q \in Proc : q # p /\ icPc[q] # "none" /\ Of(q) = Of(p) => icPc[q] \in Spent

InodeInv ==
  /\ Inodes!TypeOK /\ Placed /\ RefsCounted /\ Slots /\ Disks /\ Copies /\ Dying /\ Fresh

-----------------------------------------------------------------------------
InodeAssumption ==
  /\ Inodes!NoneAssumption /\ Inodes!LinksAssumption /\ IsFiniteSet(Proc)

LEMMA SameCardinality == \A S : Inodes!Cardinality(S) = Cardinality(S)
  BY DEF Inodes!Cardinality, Cardinality

LEMMA OneMore ==
  ASSUME IsFiniteSet(Proc), NEW F \in SUBSET Proc, NEW p \in Proc, p \notin F
  PROVE  /\ Cardinality(F \cup {p}) = Cardinality(F) + 1
         /\ Cardinality(F \cup {p}) \in 0 .. Cardinality(Proc)
         /\ Cardinality(F) \in 0 .. Cardinality(Proc) /\ Cardinality(F) \in Nat
<1>1. PICK G \in SUBSET Proc : G = F \cup {p}
  OBVIOUS
<1>2. /\ IsFiniteSet(F) /\ Cardinality(F) \in Nat /\ Cardinality(G) \in Nat
      /\ Cardinality(F) <= Cardinality(Proc) /\ Cardinality(G) <= Cardinality(Proc)
      /\ Cardinality(Proc) \in Nat
  BY FS_Subset, FS_CardinalityType
<1>3. Cardinality(G) = Cardinality(F) + 1
  BY <1>1, <1>2, FS_AddElement
<1> QED
  BY <1>1, <1>2, <1>3

\* p gets a reference to s, or gives it back, and the count follows
LEMMA TakeCounted ==
  ASSUME InodeAssumption, Inodes!TypeOK, RefsCounted, NEW p \in Proc, NEW s \in Block,
         icIp[p] = None, icIp' = [icIp EXCEPT ![p] = s],
         icRef' = [icRef EXCEPT ![s] = icRef[s] + 1]
  PROVE  RefsCounted' /\ icRef' \in [Block -> 0 .. Cardinality(Proc)]
<1>1. PICK F \in SUBSET Proc : F = Users(s)
  BY DEF Users
<1>2. p \notin F /\ Users(s)' = F \cup {p}
  BY <1>1 DEF Users, Inodes!TypeOK, InodeAssumption, Inodes!NoneAssumption
<1>3. icRef'[s] = icRef[s] + 1 /\ icRef[s] = Cardinality(F)
  BY <1>1 DEF RefsCounted, Inodes!TypeOK
<1>4. icRef'[s] = Cardinality(F \cup {p}) /\ icRef'[s] \in 0 .. Cardinality(Proc)
  BY <1>2, <1>3, OneMore DEF InodeAssumption
<1>5. ASSUME NEW t \in Block, t # s PROVE icRef'[t] = icRef[t] /\ Users(t)' = Users(t)
  BY <1>5 DEF Users, Inodes!TypeOK, InodeAssumption, Inodes!NoneAssumption
<1>6. RefsCounted'
  BY <1>2, <1>4, <1>5 DEF RefsCounted
<1>7. icRef' \in [Block -> 0 .. Cardinality(Proc)]
  BY <1>4, SameCardinality DEF Inodes!TypeOK
<1> QED
  BY <1>6, <1>7

LEMMA GiveCounted ==
  ASSUME InodeAssumption, Inodes!TypeOK, RefsCounted, NEW p \in Proc, NEW s \in Block,
         icIp[p] = s, icIp' = [icIp EXCEPT ![p] = None],
         icRef' = [icRef EXCEPT ![s] = icRef[s] - 1]
  PROVE  RefsCounted' /\ icRef' \in [Block -> 0 .. Cardinality(Proc)]
<1>1. PICK F \in SUBSET Proc : F = Users(s) \ {p}
  BY DEF Users
<1>2. p \notin F /\ Users(s) = F \cup {p} /\ Users(s)' = F
  BY <1>1 DEF Users, Inodes!TypeOK, InodeAssumption, Inodes!NoneAssumption
<1>3. icRef'[s] = icRef[s] - 1 /\ icRef[s] = Cardinality(F \cup {p})
  BY <1>2 DEF RefsCounted, Inodes!TypeOK
<1>4. icRef'[s] = Cardinality(F) /\ icRef'[s] \in 0 .. Cardinality(Proc)
  <2>1. Cardinality(F \cup {p}) = Cardinality(F) + 1 /\ Cardinality(F) \in Nat
    BY <1>2, OneMore DEF InodeAssumption
  <2>2. Cardinality(F) \in 0 .. Cardinality(Proc)
    BY <1>2, OneMore DEF InodeAssumption
  <2>3. icRef'[s] = Cardinality(F)
    BY <1>3, <2>1
  <2> QED
    BY <2>2, <2>3
<1>5. ASSUME NEW t \in Block, t # s PROVE icRef'[t] = icRef[t] /\ Users(t)' = Users(t)
  BY <1>5 DEF Users, Inodes!TypeOK, InodeAssumption, Inodes!NoneAssumption
<1>6. RefsCounted'
  BY <1>2, <1>4, <1>5 DEF RefsCounted
<1>7. icRef' \in [Block -> 0 .. Cardinality(Proc)]
  BY <1>4, SameCardinality DEF Inodes!TypeOK
<1> QED
  BY <1>6, <1>7

\* a slot is without references just when nobody has one
LEMMA RefFacts ==
  ASSUME InodeAssumption, RefsCounted, NEW s \in Block
  PROVE  /\ icRef[s] \in Nat
         /\ icRef[s] = 0 => \A p \in Proc : icIp[p] # s
         /\ icRef[s] > 0 => \E p \in Proc : icIp[p] = s
         /\ icRef[s] = 1 => \A p, q \in Proc : icIp[p] = s /\ icIp[q] = s => p = q
<1>1. PICK U : U = Users(s)
  OBVIOUS
<1>2. IsFiniteSet(U) /\ Cardinality(U) \in Nat /\ icRef[s] = Cardinality(U)
  BY <1>1, FS_Subset, FS_CardinalityType DEF RefsCounted, Users, InodeAssumption
<1>3. Cardinality(U) = 0 <=> U = {}
  BY <1>2, FS_EmptySet
<1>4. Cardinality(U) = 1 => \E x : U = {x}
  BY <1>2, FS_Singleton
<1> QED
  BY <1>1, <1>2, <1>3, <1>4 DEF Users

LEMMA PlaceFacts ==
  ASSUME InodeAssumption, InodeInv, NEW p \in Proc
  PROVE  /\ icPc[p] \notin {"none", "iget"} =>
              icIp[p] \in Block /\ icInum[icIp[p]] \in Buf /\ Of(p) = icInum[icIp[p]]
         /\ icPc[p] \in {"none", "iget"} => icIp[p] = None
         /\ icPc[p] = "iget" => icWant[p] \in Buf /\ Of(p) = icWant[p]
         /\ icPc[p] # "none" => Of(p) \in Buf
         /\ None \notin Block /\ None \notin Proc /\ None \notin Buf
<1>1. /\ icIp[p] \in Block \cup {None} /\ icWant[p] \in Buf \cup {None}
      /\ icIp[p] = None <=> icPc[p] \in {"none", "iget"}
      /\ icWant[p] = None <=> icPc[p] # "iget"
      /\ icIp[p] # None => icInum[icIp[p]] \in Buf
  BY DEF InodeInv, Inodes!TypeOK, Placed, Slots
<1> QED
  BY <1>1 DEF Of, InodeAssumption, Inodes!NoneAssumption

-----------------------------------------------------------------------------
(* One lemma for each action, or for several that do the same to the slots. *)

LEMMA InodesInitial == InodeAssumption /\ Inodes!Init => InodeInv
<1> SUFFICES ASSUME InodeAssumption, Inodes!Init PROVE InodeInv
  OBVIOUS
<1>1. Cardinality(Proc) \in Nat /\ MaxLinks \in Nat
  BY FS_CardinalityType DEF InodeAssumption, Inodes!LinksAssumption
<1>2. Inodes!TypeOK
  BY <1>1, SameCardinality DEF Inodes!Init, Inodes!TypeOK, Inodes!Dinode, Inodes!Free
<1>3. Placed
  BY DEF Inodes!Init, Placed, InodeAssumption, Inodes!NoneAssumption
<1>4. RefsCounted
  <2> SUFFICES ASSUME NEW s \in Block PROVE icRef[s] = Cardinality(Users(s))
    BY DEF RefsCounted
  <2>1. Users(s) = {} /\ icRef[s] = 0
    BY DEF Users, Inodes!Init, InodeAssumption, Inodes!NoneAssumption
  <2> QED
    BY <2>1, FS_EmptySet
<1>5. Slots /\ Disks /\ Copies /\ Dying /\ Fresh
  BY DEF Inodes!Init, Inodes!Free, Slots, Disks, Copies, Dying, Fresh
<1> QED
  BY <1>2, <1>3, <1>4, <1>5 DEF InodeInv

\* iunlock(), and the releasesleep() of iput()
LEMMA ReleaseKeeps ==
  ASSUME InodeAssumption, InodeInv, NEW p \in Proc,
         Inodes!iunlock(p) \/ Inodes!IputRelease(p)
  PROVE  InodeInv'
<1>1. PICK s \in Block : s = icIp[p] /\ icLock[s] = p
  BY PlaceFacts DEF Inodes!iunlock, Inodes!IputRelease, InodeInv, Placed
<1>2. /\ UNCHANGED <<icDinode, icEntries, icInum, icRef, icValid, icCopy, icIp, icWant>>
      /\ icLock' = [icLock EXCEPT ![s] = None]
      /\ icPc[p] \in {"locked", "release"}
      /\ icPc' = [icPc EXCEPT ![p] = IF icPc[p] = "locked" THEN "ref" ELSE "drop"]
  BY <1>1 DEF Inodes!iunlock, Inodes!IputRelease, Inodes!Go
<1>3. \A q \in Proc : Of(q)' = Of(q)
  BY <1>2 DEF InodeInv, Inodes!TypeOK, Of
<1>4. /\ \A q \in Proc : q # p => icPc'[q] = icPc[q]
      /\ icPc'[p] \in {"ref", "drop"} /\ icPc'[p] = "ref" <=> icPc[p] = "locked"
  BY <1>2 DEF InodeInv, Inodes!TypeOK
<1>5. Inodes!TypeOK'
  BY <1>2 DEF InodeInv, Inodes!TypeOK
<1>6. Placed'
  BY <1>1, <1>2, <1>4, PlaceFacts DEF InodeInv, Inodes!TypeOK, Placed
<1>7. RefsCounted' /\ Slots'
  BY <1>2 DEF InodeInv, RefsCounted, Users, Slots
<1>8. Disks'
  BY <1>2, <1>3, <1>4 DEF InodeInv, Disks, Spent
<1>9. Copies'
  BY <1>2, <1>4 DEF InodeInv, Copies
<1>10. Dying' /\ Fresh'
  BY <1>2, <1>3, <1>4 DEF InodeInv, Dying, Fresh, Spent
<1> QED
  BY <1>5, <1>6, <1>7, <1>8, <1>9, <1>10 DEF InodeInv

\* the acquiresleep() of ilock(), which reads the inode where it is not valid
LEMMA IlockKeeps ==
  ASSUME InodeAssumption, InodeInv, NEW p \in Proc, Inodes!ilock(p) PROVE InodeInv'
<1>1. PICK s \in Block, i \in Buf :
        s = icIp[p] /\ i = icInum[s] /\ Of(p) = i /\ icPc[p] = "ref" /\ icLock[s] = None
  BY PlaceFacts DEF Inodes!ilock
<1>2. /\ UNCHANGED <<icDinode, icEntries, icInum, icRef, icIp, icWant>>
      /\ icLock' = [icLock EXCEPT ![s] = p]
      /\ icCopy' = IF icValid[s] THEN icCopy ELSE [icCopy EXCEPT ![s] = icDinode[i]]
      /\ icValid' = [icValid EXCEPT ![s] = TRUE]
      /\ icPc' = [icPc EXCEPT ![p] = "locked"]
  BY <1>1 DEF Inodes!ilock, Inodes!Go
<1>3. \A q \in Proc : Of(q)' = Of(q)
  BY <1>1, <1>2 DEF InodeInv, Inodes!TypeOK, Of
<1>4. icPc'[p] = "locked" /\ \A q \in Proc : q # p => icPc'[q] = icPc[q]
  BY <1>2 DEF InodeInv, Inodes!TypeOK
<1>5. icDinode[i].used
  BY <1>1 DEF InodeInv, Disks, Spent
<1>6. Inodes!TypeOK'
  BY <1>1, <1>2 DEF InodeInv, Inodes!TypeOK
<1>7. Placed'
  BY <1>1, <1>2, <1>4, PlaceFacts DEF InodeInv, Inodes!TypeOK, Placed
<1>8. RefsCounted' /\ Slots'
  BY <1>2 DEF InodeInv, RefsCounted, Users, Slots
<1>9. Disks'
  BY <1>1, <1>2, <1>3, <1>4 DEF InodeInv, Disks, Spent
<1>10. Copies'
  <2>1. /\ icValid'[s] /\ icCopy'[s] = icDinode[i] /\ icCopy'[s].used
        /\ \A t \in Block : t # s => icValid'[t] = icValid[t] /\ icCopy'[t] = icCopy[t]
    BY <1>1, <1>2, <1>5, PlaceFacts DEF InodeInv, Inodes!TypeOK, Copies
  <2> QED
    BY <2>1, <1>1, <1>2, <1>4 DEF InodeInv, Inodes!TypeOK, Copies, Placed
<1>11. Dying' /\ Fresh'
  BY <1>1, <1>2, <1>3, <1>4 DEF InodeInv, Dying, Fresh, Spent
<1> QED
  BY <1>6, <1>7, <1>8, <1>9, <1>10, <1>11 DEF InodeInv

\* the test of iput(): who is alone with an inode without links will free it
LEMMA IputKeeps ==
  ASSUME InodeAssumption, InodeInv, NEW p \in Proc, Inodes!iput(p) PROVE InodeInv'
<1>1. PICK s \in Block, i \in Buf :
        s = icIp[p] /\ i = icInum[s] /\ Of(p) = i /\ icPc[p] = "ref" /\ icLock[s] = None
  BY PlaceFacts DEF Inodes!iput
<1>2. /\ UNCHANGED <<icDinode, icEntries, icInum, icRef, icValid, icCopy, icIp, icWant>>
      /\ icLock' = [icLock EXCEPT ![s] = p]
      /\ icPc' = [icPc EXCEPT ![p] = IF Inodes!LastOne(s) THEN "free" ELSE "release"]
  BY <1>1 DEF Inodes!iput, Inodes!Go
<1>3. \A q \in Proc : Of(q)' = Of(q)
  BY <1>1, <1>2 DEF InodeInv, Inodes!TypeOK, Of
<1>4. /\ icPc'[p] \in {"free", "release"} /\ icPc'[p] = "free" => Inodes!LastOne(s)
      /\ \A q \in Proc : q # p => icPc'[q] = icPc[q]
  BY <1>2 DEF InodeInv, Inodes!TypeOK
<1>5. Inodes!TypeOK'
  BY <1>1, <1>2 DEF InodeInv, Inodes!TypeOK
<1>6. Placed'
  BY <1>1, <1>2, <1>4, PlaceFacts DEF InodeInv, Inodes!TypeOK, Placed
<1>7. RefsCounted' /\ Slots'
  BY <1>2 DEF InodeInv, RefsCounted, Users, Slots
<1>8. Disks'
  BY <1>1, <1>2, <1>3, <1>4 DEF InodeInv, Disks, Spent
<1>9. Copies'
  BY <1>1, <1>2, <1>4 DEF InodeInv, Copies, Inodes!LastOne
<1>10. Dying'
  <2>1. Inodes!LastOne(s) =>
          icDinode[i].nlink = 0 /\ \A q \in Proc : icIp[q] = s => q = p
    <3>1. icRef[s] = 1 => \A q \in Proc : icIp[q] = s => q = p
      BY <1>1, RefFacts DEF InodeInv
    <3>2. icValid[s] => icCopy[s] = icDinode[i]
      BY <1>1, PlaceFacts DEF InodeInv, Copies
    <3> QED
      BY <3>1, <3>2 DEF Inodes!LastOne
  <2> QED
    BY <2>1, <1>1, <1>2, <1>3, <1>4 DEF InodeInv, Dying
<1>11. Fresh'
  BY <1>1, <1>2, <1>3, <1>4 DEF InodeInv, Fresh, Spent
<1> QED
  BY <1>5, <1>6, <1>7, <1>8, <1>9, <1>10, <1>11 DEF InodeInv

\* the first lock of create(): the new inode gets its link and its entry
LEMMA CreateKeeps ==
  ASSUME InodeAssumption, InodeInv, NEW p \in Proc, Inodes!create(p) PROVE InodeInv'
<1> DEFINE linked == [used |-> TRUE, nlink |-> 1]
<1>1. PICK s \in Block, i \in Buf :
        s = icIp[p] /\ i = icInum[s] /\ Of(p) = i /\ icPc[p] = "new" /\ icLock[s] = None
  BY PlaceFacts DEF Inodes!create
<1>2. icDinode[i].used /\ icDinode[i].nlink = 0 /\ icEntries[i] = 0
  BY <1>1 DEF InodeInv, Disks, Fresh, Spent
<1>3. icCopy' = [icCopy EXCEPT ![s] = linked]
  <2>1. icValid[s] => icCopy[s].used = TRUE
    BY <1>1, PlaceFacts DEF InodeInv, Inodes!TypeOK, Inodes!Dinode, Copies
  <2>2. icDinode[i].used = TRUE
    BY <1>2 DEF InodeInv, Inodes!TypeOK, Inodes!Dinode
  <2> QED
    BY <1>1, <2>1, <2>2 DEF Inodes!create, InodeInv, Inodes!TypeOK
<1>4. /\ UNCHANGED <<icInum, icRef, icIp, icWant>>
      /\ icLock' = [icLock EXCEPT ![s] = p]
      /\ icValid' = [icValid EXCEPT ![s] = TRUE]
      /\ icDinode' = [icDinode EXCEPT ![i] = linked]
      /\ icEntries' = [icEntries EXCEPT ![i] = 1]
      /\ icPc' = [icPc EXCEPT ![p] = "locked"]
  <2>1. icCopy'[s] = linked
    BY <1>3 DEF InodeInv, Inodes!TypeOK
  <2>2. icDinode' = [icDinode EXCEPT ![i] = icCopy'[s]]
    BY <1>1 DEF Inodes!create, Inodes!iupdate
  <2>3. icEntries' = [icEntries EXCEPT ![i] = 1]
    BY <1>1, <1>2 DEF Inodes!create
  <2> HIDE DEF linked
  <2> QED
    BY <1>1, <2>1, <2>2, <2>3 DEF Inodes!create, Inodes!Go
<1>5. \A q \in Proc : Of(q)' = Of(q)
  BY <1>1, <1>4 DEF InodeInv, Inodes!TypeOK, Of
<1>6. /\ icPc'[p] = "locked" /\ \A q \in Proc : q # p => icPc'[q] = icPc[q]
      /\ icDinode'[i] = linked /\ \A j \in Buf : j # i => icDinode'[j] = icDinode[j]
      /\ icEntries'[i] = 1 /\ \A j \in Buf : j # i => icEntries'[j] = icEntries[j]
      /\ icCopy'[s] = linked /\ \A t \in Block : t # s => icCopy'[t] = icCopy[t]
      /\ icValid'[s] /\ \A t \in Block : t # s => icValid'[t] = icValid[t]
  BY <1>3, <1>4 DEF InodeInv, Inodes!TypeOK
<1>7. \A q \in Proc : q # p /\ icPc[q] # "none" /\ Of(q) = i => icPc[q] \in Spent
  BY <1>1 DEF InodeInv, Fresh
<1>8. Inodes!TypeOK'
  <2>1. linked \in Inodes!Dinode /\ 1 \in 0 .. MaxLinks
    BY DEF Inodes!Dinode, InodeAssumption, Inodes!LinksAssumption
  <2> HIDE DEF linked
  <2> QED
    BY <1>1, <1>3, <1>4, <2>1 DEF InodeInv, Inodes!TypeOK
<1>9. Placed'
  BY <1>1, <1>4, <1>6, PlaceFacts DEF InodeInv, Inodes!TypeOK, Placed
<1>10. RefsCounted' /\ Slots'
  BY <1>4 DEF InodeInv, RefsCounted, Users, Slots
<1>11. Disks'
  BY <1>4, <1>5, <1>6, <1>1, PlaceFacts DEF InodeInv, Disks, Spent
<1>12. Copies'
  <2>1. \A q \in Proc : icIp[q] # None /\ icIp[q] # s =>
          icIp[q] \in Block /\ icInum[icIp[q]] \in Buf /\ icInum[icIp[q]] # i
    BY <1>1, PlaceFacts DEF InodeInv, Slots, Inodes!TypeOK
  <2>2. ASSUME NEW q \in Proc, icIp'[q] # None, icValid'[icIp'[q]]
        PROVE  /\ icCopy'[icIp'[q]] = icDinode'[icInum'[icIp'[q]]]
               /\ icCopy'[icIp'[q]].used
    <3>1. CASE icIp[q] = s
      BY <3>1, <1>1, <1>4, <1>6
    <3>2. CASE icIp[q] # s
      BY <3>2, <2>1, <2>2, <1>4, <1>6 DEF InodeInv, Copies
    <3> QED
      BY <3>1, <3>2
  <2>3. \A q \in Proc : icPc'[q] \in {"locked", "free"} => icValid'[icIp'[q]]
    BY <1>1, <1>4, <1>6, PlaceFacts DEF InodeInv, Copies
  <2> QED
    BY <2>2, <2>3 DEF Copies
<1>13. Dying'
  BY <1>4, <1>5, <1>6, <1>7, PlaceFacts DEF InodeInv, Dying, Spent
<1>14. Fresh'
  BY <1>1, <1>4, <1>5, <1>6, <1>7, PlaceFacts DEF InodeInv, Fresh, Spent
<1> QED
  BY <1>8, <1>9, <1>10, <1>11, <1>12, <1>13, <1>14 DEF InodeInv

\* an entry more or less for a locked inode
LEMMA LinksKeep ==
  ASSUME InodeAssumption, InodeInv, NEW p \in Proc, NEW k \in {1, -1}, Inodes!ChangeLinks(p, k)
  PROVE  InodeInv'
<1>1. PICK s \in Block, i \in Buf :
        s = icIp[p] /\ i = icInum[s] /\ Of(p) = i /\ icPc[p] = "locked" /\ icLock[s] = p
  BY PlaceFacts DEF Inodes!ChangeLinks, InodeInv, Placed
<1>2. PICK d \in Inodes!Dinode : d = icDinode[i] /\ d = icCopy[s] /\ d.used /\ d.nlink = icEntries[i]
  BY <1>1, PlaceFacts DEF InodeInv, Inodes!TypeOK, Copies, Disks
<1>3. PICK e \in Inodes!Dinode : e.used /\ e.nlink = d.nlink + k /\ e = [d EXCEPT !.nlink = @ + k]
  <2>1. d.nlink + k \in 0 .. MaxLinks
    BY <1>1, <1>2 DEF Inodes!ChangeLinks
  <2>2. [d EXCEPT !.nlink = @ + k] \in Inodes!Dinode
    BY <2>1 DEF Inodes!Dinode
  <2>3. [d EXCEPT !.nlink = @ + k].used /\ [d EXCEPT !.nlink = @ + k].nlink = d.nlink + k
    BY <1>2 DEF Inodes!Dinode
  <2> QED
    BY <2>2, <2>3
<1>4. icCopy' = [icCopy EXCEPT ![s] = e]
  BY <1>1, <1>2, <1>3 DEF Inodes!ChangeLinks, InodeInv, Inodes!TypeOK
<1>5. /\ UNCHANGED <<icInum, icRef, icIp, icWant, icValid, icLock, icPc>>
      /\ icDinode' = [icDinode EXCEPT ![i] = e]
      /\ icEntries' = [icEntries EXCEPT ![i] = e.nlink]
      /\ e.nlink \in 0 .. MaxLinks
  BY <1>1, <1>2, <1>3, <1>4 DEF Inodes!ChangeLinks, Inodes!iupdate, InodeInv, Inodes!TypeOK
<1>6. \A q \in Proc : Of(q)' = Of(q)
  BY <1>1, <1>5 DEF InodeInv, Inodes!TypeOK, Of
<1>7. /\ icDinode'[i] = e /\ \A j \in Buf : j # i => icDinode'[j] = icDinode[j]
      /\ icEntries'[i] = e.nlink /\ \A j \in Buf : j # i => icEntries'[j] = icEntries[j]
      /\ icCopy'[s] = e /\ \A t \in Block : t # s => icCopy'[t] = icCopy[t]
  BY <1>4, <1>5 DEF InodeInv, Inodes!TypeOK
<1>8. \A q \in Proc : icPc[q] \in {"free", "iget", "new"} => Of(q) # i
  <2>1. \A q \in Proc : icPc[q] \in {"iget", "new"} => Of(q) # i
    BY <1>1 DEF InodeInv, Fresh, Spent
  <2>2. ASSUME NEW q \in Proc, icPc[q] = "free", Of(q) = i PROVE FALSE
    <3>1. icIp[q] = s
      BY <1>1, <2>2, PlaceFacts DEF InodeInv, Slots
    <3> QED
      BY <1>1, <2>2, <3>1 DEF InodeInv, Dying
  <2> QED
    BY <2>1, <2>2
<1>9. Inodes!TypeOK'
  BY <1>1, <1>4, <1>5 DEF InodeInv, Inodes!TypeOK
<1>10. Placed' /\ RefsCounted' /\ Slots'
  BY <1>5 DEF InodeInv, Placed, RefsCounted, Users, Slots
<1>11. Disks'
  <2>1. e.used /\ e.nlink \in 0 .. MaxLinks
    BY <1>3, <1>5
  <2>2. \A j \in Buf : icEntries'[j] = icDinode'[j].nlink
    BY <1>7 DEF InodeInv, Disks
  <2>3. \A j \in Buf : ~ icDinode'[j].used => icDinode'[j].nlink = 0
    BY <1>7, <2>1 DEF InodeInv, Disks
  <2>4. ASSUME NEW q \in Proc, icPc'[q] \notin {"none"} \cup Spent PROVE icDinode'[Of(q)'].used
    <3>1. Of(q)' = Of(q) /\ Of(q) \in Buf /\ icDinode[Of(q)].used
      BY <2>4, <1>5, <1>6, PlaceFacts DEF InodeInv, Disks
    <3> QED
      BY <3>1, <2>1, <1>7
  <2> QED
    BY <2>2, <2>3, <2>4 DEF Disks
<1>12. Copies'
  <2>1. \A q \in Proc : icIp[q] # None /\ icIp[q] # s =>
          icIp[q] \in Block /\ icInum[icIp[q]] \in Buf /\ icInum[icIp[q]] # i
    BY <1>1, PlaceFacts DEF InodeInv, Slots, Inodes!TypeOK
  <2>2. ASSUME NEW q \in Proc, icIp'[q] # None, icValid'[icIp'[q]]
        PROVE  /\ icCopy'[icIp'[q]] = icDinode'[icInum'[icIp'[q]]]
               /\ icCopy'[icIp'[q]].used
    <3>1. CASE icIp[q] = s
      BY <3>1, <1>1, <1>3, <1>5, <1>7
    <3>2. CASE icIp[q] # s
      BY <3>2, <2>1, <2>2, <1>5, <1>7 DEF InodeInv, Copies
    <3> QED
      BY <3>1, <3>2
  <2>3. \A q \in Proc : icPc'[q] \in {"locked", "free"} => icValid'[icIp'[q]]
    BY <1>5 DEF InodeInv, Copies
  <2> QED
    BY <2>2, <2>3 DEF Copies
<1>13. Dying' /\ Fresh'
  BY <1>5, <1>6, <1>7, <1>8, PlaceFacts DEF InodeInv, Dying, Fresh
<1> QED
  BY <1>9, <1>10, <1>11, <1>12, <1>13 DEF InodeInv

\* the last user frees the inode
LEMMA FreeKeeps ==
  ASSUME InodeAssumption, InodeInv, NEW p \in Proc, Inodes!IputFree(p) PROVE InodeInv'
<1>1. PICK s \in Block, i \in Buf :
        s = icIp[p] /\ i = icInum[s] /\ Of(p) = i /\ icPc[p] = "free" /\ icLock[s] = p
  BY PlaceFacts DEF Inodes!IputFree, InodeInv, Placed
<1>2. PICK e \in Inodes!Dinode : e = Inodes!Free /\ ~ e.used /\ e.nlink = 0
  <2>1. 0 \in 0 .. MaxLinks
    BY DEF InodeAssumption, Inodes!LinksAssumption
  <2>2. [used |-> FALSE, nlink |-> 0] \in Inodes!Dinode
    BY <2>1 DEF Inodes!Dinode
  <2>3. ~ [used |-> FALSE, nlink |-> 0].used
    OBVIOUS
  <2> QED
    BY <2>2, <2>3 DEF Inodes!Free
<1>3. icCopy' = [icCopy EXCEPT ![s] = e]
  BY <1>1, <1>2 DEF Inodes!IputFree
<1>4. /\ UNCHANGED <<icEntries, icInum, icRef, icIp, icWant, icLock>>
      /\ icDinode' = [icDinode EXCEPT ![i] = e]
      /\ icValid' = [icValid EXCEPT ![s] = FALSE]
      /\ icPc' = [icPc EXCEPT ![p] = "release"]
  BY <1>1, <1>3 DEF Inodes!IputFree, Inodes!Go, Inodes!iupdate, InodeInv, Inodes!TypeOK
<1>5. \A q \in Proc : Of(q)' = Of(q)
  BY <1>1, <1>4 DEF InodeInv, Inodes!TypeOK, Of
<1>6. /\ icPc'[p] = "release" /\ \A q \in Proc : q # p => icPc'[q] = icPc[q]
      /\ icDinode'[i] = e /\ \A j \in Buf : j # i => icDinode'[j] = icDinode[j]
      /\ icCopy'[s] = e /\ \A t \in Block : t # s => icCopy'[t] = icCopy[t]
      /\ ~ icValid'[s] /\ \A t \in Block : t # s => icValid'[t] = icValid[t]
  BY <1>3, <1>4 DEF InodeInv, Inodes!TypeOK
<1>7. icDinode[i].nlink = 0 /\ \A q \in Proc : icIp[q] = s => q = p
  BY <1>1 DEF InodeInv, Dying
<1>8. \A q \in Proc : q # p /\ icPc[q] # "none" => Of(q) # i
  <2>1. \A q \in Proc : icPc[q] \in {"iget", "new"} => Of(q) # i
    BY <1>1 DEF InodeInv, Fresh, Spent
  <2>2. ASSUME NEW q \in Proc, icPc[q] \notin {"none", "iget"}, q # p PROVE Of(q) # i
    BY <1>1, <1>7, <2>2, PlaceFacts DEF InodeInv, Slots
  <2> QED
    BY <2>1, <2>2
<1>9. Inodes!TypeOK'
  BY <1>1, <1>3, <1>4 DEF InodeInv, Inodes!TypeOK
<1>10. Placed'
  BY <1>1, <1>4, <1>6, PlaceFacts DEF InodeInv, Inodes!TypeOK, Placed
<1>11. RefsCounted' /\ Slots'
  BY <1>4 DEF InodeInv, RefsCounted, Users, Slots
<1>12. Disks'
  BY <1>1, <1>2, <1>4, <1>5, <1>6, <1>7, <1>8, PlaceFacts DEF InodeInv, Disks, Spent
<1>13. Copies'
  <2>1. ASSUME NEW q \in Proc, icIp[q] # None, q # p
        PROVE  icIp[q] \in Block /\ icIp[q] # s /\ icInum[icIp[q]] \in Buf /\ icInum[icIp[q]] # i
    <3>1. icIp[q] \in Block /\ icIp[q] # s
      BY <1>7, <2>1 DEF InodeInv, Inodes!TypeOK
    <3>2. s # None
      BY PlaceFacts
    <3> QED
      BY <1>1, <2>1, <3>1, <3>2 DEF InodeInv, Slots
  <2>2. icPc[p] = "free" /\ icIp'[p] = s /\ \A q \in Proc : icPc[q] \in {"locked", "free"} => icIp[q] # None
    BY <1>1, <1>4, PlaceFacts
  <2> QED
    BY <2>1, <2>2, <1>4, <1>6 DEF InodeInv, Copies
<1>14. Dying' /\ Fresh'
  BY <1>1, <1>4, <1>5, <1>6, <1>8, PlaceFacts DEF InodeInv, Dying, Fresh, Spent
<1> QED
  BY <1>9, <1>10, <1>11, <1>12, <1>13, <1>14 DEF InodeInv

\* the end of iput(): the reference is given back
LEMMA DropKeeps ==
  ASSUME InodeAssumption, InodeInv, NEW p \in Proc, Inodes!IputDrop(p) PROVE InodeInv'
<1>1. PICK s \in Block : s = icIp[p] /\ icPc[p] = "drop"
  BY PlaceFacts DEF Inodes!IputDrop
<1>2. /\ UNCHANGED <<icDinode, icEntries, icInum, icValid, icLock, icCopy, icWant>>
      /\ icRef' = [icRef EXCEPT ![s] = icRef[s] - 1]
      /\ icIp' = [icIp EXCEPT ![p] = None]
      /\ icPc' = [icPc EXCEPT ![p] = "none"]
  BY <1>1 DEF Inodes!IputDrop, Inodes!Go, InodeInv, Inodes!TypeOK
<1>3. RefsCounted' /\ icRef' \in [Block -> 0 .. Cardinality(Proc)]
  BY <1>1, <1>2, GiveCounted DEF InodeInv
<1>4. /\ icPc'[p] = "none" /\ icIp'[p] = None
      /\ \A q \in Proc : q # p => icPc'[q] = icPc[q] /\ icIp'[q] = icIp[q] /\ Of(q)' = Of(q)
  BY <1>2 DEF InodeInv, Inodes!TypeOK, Of
<1>5. Inodes!TypeOK'
  BY <1>2, <1>3, SameCardinality DEF InodeInv, Inodes!TypeOK
<1>6. Placed'
  BY <1>1, <1>2, <1>4, PlaceFacts DEF InodeInv, Placed
<1>7. Slots' /\ Disks' /\ Copies'
  BY <1>2, <1>4, PlaceFacts DEF InodeInv, Slots, Disks, Copies
<1>8. Dying' /\ Fresh'
  BY <1>1, <1>2, <1>4, PlaceFacts DEF InodeInv, Dying, Fresh
<1> QED
  BY <1>3, <1>5, <1>6, <1>7, <1>8 DEF InodeInv

\* ialloc(): nobody is about an inode that is not used, but to put it
LEMMA AllocKeeps ==
  ASSUME InodeAssumption, InodeInv, NEW p \in Proc, NEW i \in Buf, Inodes!ialloc(p, i)
  PROVE  InodeInv'
<1> DEFINE taken == [used |-> TRUE, nlink |-> 0]
<1>1. icPc[p] = "none" /\ ~ icDinode[i].used /\ icEntries[i] = 0 /\ icIp[p] = None
  BY PlaceFacts DEF Inodes!ialloc, InodeInv, Disks
<1>2. /\ UNCHANGED <<icEntries, icInum, icRef, icValid, icLock, icCopy, icIp>>
      /\ icDinode' = [icDinode EXCEPT ![i] = taken]
      /\ icWant' = [icWant EXCEPT ![p] = i]
      /\ icPc' = [icPc EXCEPT ![p] = "iget"]
  BY DEF Inodes!ialloc, Inodes!Go, Inodes!slots
<1>3. /\ icDinode'[i].used = TRUE /\ icDinode'[i].nlink = 0
      /\ \A j \in Buf : j # i => icDinode'[j] = icDinode[j]
      /\ icPc'[p] = "iget" /\ icWant'[p] = i
      /\ \A q \in Proc : q # p => icPc'[q] = icPc[q] /\ icWant'[q] = icWant[q]
  BY <1>2 DEF InodeInv, Inodes!TypeOK
<1>4. Of(p)' = i /\ \A q \in Proc : q # p => Of(q)' = Of(q)
  BY <1>2, <1>3 DEF Of
<1>5. \A q \in Proc : icPc[q] # "none" /\ Of(q) = i => icPc[q] \in Spent
  BY <1>1 DEF InodeInv, Disks
<1>6. Inodes!TypeOK'
  <2>1. taken \in Inodes!Dinode
    BY DEF Inodes!Dinode, InodeAssumption, Inodes!LinksAssumption
  <2> HIDE DEF taken
  <2> QED
    BY <1>2, <2>1 DEF InodeInv, Inodes!TypeOK
<1>7. Placed'
  BY <1>1, <1>2, <1>3, PlaceFacts DEF InodeInv, Placed
<1>8. RefsCounted' /\ Slots'
  BY <1>2 DEF InodeInv, RefsCounted, Users, Slots
<1>9. Disks'
  BY <1>1, <1>2, <1>3, <1>4, <1>5, PlaceFacts DEF InodeInv, Disks, Spent
<1>10. Copies'
  <2>1. \A q \in Proc : icIp[q] # None /\ icValid[icIp[q]] =>
          icInum[icIp[q]] \in Buf /\ icInum[icIp[q]] # i
    BY <1>1 DEF InodeInv, Copies, Slots
  <2> QED
    BY <2>1, <1>2, <1>3 DEF InodeInv, Copies
<1>11. Dying'
  BY <1>2, <1>3, <1>4, <1>5, PlaceFacts DEF InodeInv, Dying, Spent
<1>12. Fresh'
  BY <1>1, <1>2, <1>3, <1>4, <1>5, PlaceFacts DEF InodeInv, Fresh, Spent
<1> QED
  BY <1>6, <1>7, <1>8, <1>9, <1>10, <1>11, <1>12 DEF InodeInv

\* another reference to the inode that q refers to
LEMMA DupKeeps ==
  ASSUME InodeAssumption, InodeInv, NEW p \in Proc, NEW q \in Proc, Inodes!idup(p, q)
  PROVE  InodeInv'
<1>1. PICK s \in Block, i \in Buf :
        s = icIp[q] /\ i = icInum[s] /\ Of(q) = i /\ icPc[q] = "ref"
  BY PlaceFacts DEF Inodes!idup
<1>2. icPc[p] = "none" /\ icIp[p] = None
  BY PlaceFacts DEF Inodes!idup
<1>3. /\ UNCHANGED <<icDinode, icEntries, icInum, icValid, icLock, icCopy, icWant>>
      /\ icRef' = [icRef EXCEPT ![s] = icRef[s] + 1]
      /\ icIp' = [icIp EXCEPT ![p] = s]
      /\ icPc' = [icPc EXCEPT ![p] = "ref"]
  BY <1>1 DEF Inodes!idup, Inodes!Go
<1>4. RefsCounted' /\ icRef' \in [Block -> 0 .. Cardinality(Proc)]
  BY <1>2, <1>3, TakeCounted DEF InodeInv
<1>5. /\ icPc'[p] = "ref" /\ icIp'[p] = s /\ Of(p)' = i
      /\ \A r \in Proc : r # p => icPc'[r] = icPc[r] /\ icIp'[r] = icIp[r] /\ Of(r)' = Of(r)
  BY <1>1, <1>3 DEF InodeInv, Inodes!TypeOK, Of
<1>6. icDinode[i].used /\ icValid[s] => icCopy[s] = icDinode[i] /\ icCopy[s].used
  BY <1>1, PlaceFacts DEF InodeInv, Copies
<1>7. Inodes!TypeOK'
  BY <1>1, <1>3, <1>4, SameCardinality DEF InodeInv, Inodes!TypeOK
<1>8. Placed'
  BY <1>1, <1>2, <1>3, <1>5, PlaceFacts DEF InodeInv, Placed
<1>9. Slots'
  BY <1>1, <1>3, <1>5, PlaceFacts DEF InodeInv, Slots
<1>10. Disks'
  BY <1>1, <1>3, <1>5 DEF InodeInv, Disks, Spent
<1>11. Copies'
  BY <1>1, <1>3, <1>5, PlaceFacts DEF InodeInv, Copies
<1>12. Dying'
  BY <1>1, <1>3, <1>5, PlaceFacts DEF InodeInv, Dying
<1>13. Fresh'
  BY <1>1, <1>3, <1>5, PlaceFacts DEF InodeInv, Fresh, Spent
<1> QED
  BY <1>4, <1>7, <1>8, <1>9, <1>10, <1>11, <1>12, <1>13 DEF InodeInv

\* iget(): the slot of the inode where somebody refers to it, and else a slot that
\* nobody refers to, and that is not valid
LEMMA IgetGets ==
  ASSUME InodeAssumption, InodeInv, NEW p \in Proc, NEW i \in Buf,
         icPc[p] \in {"none", "iget"}, NEW next \in {"ref", "new"}, Inodes!Iget(p, i, next)
  PROVE  \E s \in Block :
           /\ UNCHANGED <<icEntries, icLock, icCopy>>
           /\ icPc' = [icPc EXCEPT ![p] = next] /\ icIp' = [icIp EXCEPT ![p] = s]
           /\ icInum' \in [Block -> Buf \cup {None}] /\ icInum'[s] = i
           /\ icRef' \in [Block -> 0 .. Cardinality(Proc)] /\ RefsCounted'
           /\ icValid' \in [Block -> BOOLEAN]
           /\ icValid'[s] => \E q \in Proc : icIp[q] = s /\ icInum[s] = i /\ icValid[s]
           /\ \A q \in Proc : icIp[q] = s => icInum[s] = i
           /\ \A q \in Proc : icIp[q] # None /\ icInum[icIp[q]] = i => icIp[q] = s
           /\ \A q \in Proc : icIp[q] # None =>
                /\ icInum'[icIp[q]] = icInum[icIp[q]]
                /\ icValid'[icIp[q]] = icValid[icIp[q]]
<1>1. /\ UNCHANGED <<icEntries, icLock, icCopy>>
      /\ icPc' = [icPc EXCEPT ![p] = next] /\ icIp[p] = None /\ None \notin Block
  BY PlaceFacts DEF Inodes!Iget, Inodes!Go
<1>2. ASSUME NEW t \in Block, Inodes!Caches(t, i)
      PROVE  /\ icInum[t] = i /\ \E q \in Proc : icIp[q] = t
             /\ \A q \in Proc : icIp[q] # None /\ icInum[icIp[q]] = i => icIp[q] = t
  <2>1. PICK r \in Proc : icIp[r] = t /\ icInum[t] = i
    BY <1>2, RefFacts DEF Inodes!Caches, InodeInv
  <2> QED
    BY <2>1, PlaceFacts DEF InodeInv, Slots
<1>3. CASE \E t \in Block : Inodes!Caches(t, i)
  <2>1. PICK s \in Block :
          /\ Inodes!Caches(s, i)
          /\ icRef' = [icRef EXCEPT ![s] = icRef[s] + 1] /\ icIp' = [icIp EXCEPT ![p] = s]
          /\ UNCHANGED <<icInum, icValid>>
    BY <1>3 DEF Inodes!Iget
  <2>2. icRef' \in [Block -> 0 .. Cardinality(Proc)] /\ RefsCounted'
    BY <1>1, <2>1, TakeCounted DEF InodeInv
  <2>3. icInum' \in [Block -> Buf \cup {None}] /\ icValid' \in [Block -> BOOLEAN]
    BY <2>1 DEF InodeInv, Inodes!TypeOK
  <2> QED
    BY <1>1, <1>2, <2>1, <2>2, <2>3
<1>4. CASE ~ \E t \in Block : Inodes!Caches(t, i)
  <2>1. PICK s \in Block :
          /\ icRef[s] = 0
          /\ icInum' = [icInum EXCEPT ![s] = i] /\ icRef' = [icRef EXCEPT ![s] = 1]
          /\ icValid' = [icValid EXCEPT ![s] = FALSE] /\ icIp' = [icIp EXCEPT ![p] = s]
    BY <1>4 DEF Inodes!Iget, Inodes!Forgets
  <2>2. icRef' = [icRef EXCEPT ![s] = icRef[s] + 1]
    BY <2>1
  <2>3. icRef' \in [Block -> 0 .. Cardinality(Proc)] /\ RefsCounted'
    BY <1>1, <2>1, <2>2, TakeCounted DEF InodeInv
  <2>4. /\ icInum' \in [Block -> Buf \cup {None}] /\ icInum'[s] = i
        /\ icValid' \in [Block -> BOOLEAN] /\ ~ icValid'[s]
        /\ \A t \in Block : t # s => icInum'[t] = icInum[t] /\ icValid'[t] = icValid[t]
    BY <2>1 DEF InodeInv, Inodes!TypeOK
  <2>5. \A q \in Proc : icIp[q] # s
    BY <2>1, RefFacts DEF InodeInv
  <2>6. ASSUME NEW q \in Proc, icIp[q] # None, icInum[icIp[q]] = i PROVE FALSE
    <3>1. PICK t \in Block : t = icIp[q]
      BY <2>6 DEF InodeInv, Inodes!TypeOK
    <3>2. icRef[t] > 0
      BY <3>1, RefFacts DEF InodeInv
    <3> QED
      BY <1>4, <2>6, <3>1, <3>2 DEF Inodes!Caches
  <2>7. \A q \in Proc : icIp[q] # None => icIp[q] \in Block /\ icIp[q] # s
    BY <2>5 DEF InodeInv, Inodes!TypeOK
  <2> QED
    BY <1>1, <2>1, <2>3, <2>4, <2>5, <2>6, <2>7
<1> QED
  BY <1>3, <1>4

\* dirlookup() and the iget() of ialloc(): p gets a reference to an inode that is used,
\* and that nobody is about to free
LEMMA GetKeeps ==
  ASSUME InodeAssumption, InodeInv, NEW p \in Proc, NEW i \in Buf,
         (Inodes!dirlookup(p, i)) \/ (Inodes!IgetNew(p) /\ i = icWant[p])
  PROVE  InodeInv'
<1>1. PICK next \in {"ref", "new"} :
        /\ Inodes!Iget(p, i, next) /\ UNCHANGED icDinode
        /\ icWant' = [icWant EXCEPT ![p] = None]
        /\ (icPc[p] = "none" /\ next = "ref" /\ icEntries[i] > 0)
             \/ (icPc[p] = "iget" /\ next = "new" /\ Of(p) = i)
  <2>1. CASE Inodes!dirlookup(p, i)
    <3>1. icPc[p] = "none" /\ icWant[p] = None
      BY <2>1 DEF Inodes!dirlookup, InodeInv, Placed
    <3>2. icWant = [icWant EXCEPT ![p] = None]
      BY <3>1 DEF InodeInv, Inodes!TypeOK
    <3> QED
      BY <2>1, <3>1, <3>2 DEF Inodes!dirlookup
  <2>2. CASE Inodes!IgetNew(p) /\ i = icWant[p]
    BY <2>2 DEF Inodes!IgetNew, Of
  <2> QED
    BY <2>1, <2>2
<1>2. PICK s \in Block :
        /\ UNCHANGED <<icEntries, icLock, icCopy>>
        /\ icPc' = [icPc EXCEPT ![p] = next] /\ icIp' = [icIp EXCEPT ![p] = s]
        /\ icInum' \in [Block -> Buf \cup {None}] /\ icInum'[s] = i
        /\ icRef' \in [Block -> 0 .. Cardinality(Proc)] /\ RefsCounted'
        /\ icValid' \in [Block -> BOOLEAN]
        /\ icValid'[s] => \E q \in Proc : icIp[q] = s /\ icInum[s] = i /\ icValid[s]
        /\ \A q \in Proc : icIp[q] = s => icInum[s] = i
        /\ \A q \in Proc : icIp[q] # None /\ icInum[icIp[q]] = i => icIp[q] = s
        /\ \A q \in Proc : icIp[q] # None =>
             /\ icInum'[icIp[q]] = icInum[icIp[q]]
             /\ icValid'[icIp[q]] = icValid[icIp[q]]
  BY <1>1, IgetGets
<1>3. /\ icPc'[p] = next /\ icIp'[p] = s /\ icWant'[p] = None /\ Of(p)' = i
      /\ \A q \in Proc : q # p =>
           icPc'[q] = icPc[q] /\ icIp'[q] = icIp[q] /\ icWant'[q] = icWant[q]
  BY <1>1, <1>2 DEF InodeInv, Inodes!TypeOK, Of
<1>4. \A q \in Proc : q # p /\ icPc[q] # "none" => Of(q)' = Of(q)
  BY <1>2, <1>3, PlaceFacts DEF Of
<1>5. icDinode[i].used
  BY <1>1 DEF InodeInv, Disks, Spent
<1>6. \A q \in Proc : q # p /\ icPc[q] = "free" => Of(q) # i
  BY <1>1 DEF InodeInv, Dying, Disks, Fresh, Spent
<1>7. \A q \in Proc : q # p /\ icPc[q] \in {"iget", "new"} => Of(q) # i
  <2>1. CASE icPc[p] = "iget" /\ Of(p) = i
    BY <2>1 DEF InodeInv, Fresh, Spent
  <2>2. CASE icEntries[i] > 0
    BY <2>2 DEF InodeInv, Fresh, Disks
  <2> QED
    BY <1>1, <2>1, <2>2
<1>8. Inodes!TypeOK'
  BY <1>1, <1>2, SameCardinality DEF InodeInv, Inodes!TypeOK
<1>9. Placed'
  BY <1>1, <1>2, <1>3, PlaceFacts DEF InodeInv, Placed
<1>10. Slots'
  BY <1>2, <1>3, PlaceFacts DEF InodeInv, Slots
<1>11. Disks'
  BY <1>1, <1>2, <1>3, <1>4, <1>5 DEF InodeInv, Disks, Spent
<1>12. Copies'
  <2>1. ASSUME NEW q \in Proc, icIp[q] # None, icValid[icIp[q]]
        PROVE  icCopy[icIp[q]] = icDinode[icInum[icIp[q]]] /\ icCopy[icIp[q]].used
    BY <2>1 DEF InodeInv, Copies
  <2>2. icValid'[s] => icCopy[s] = icDinode[i] /\ icCopy[s].used
    BY <1>2, <2>1, PlaceFacts
  <2>3. ASSUME NEW q \in Proc, icIp'[q] # None, icValid'[icIp'[q]]
        PROVE  icCopy'[icIp'[q]] = icDinode'[icInum'[icIp'[q]]] /\ icCopy'[icIp'[q]].used
    BY <1>1, <1>2, <1>3, <2>1, <2>2, <2>3
  <2>4. \A q \in Proc : icPc'[q] \in {"locked", "free"} => icValid'[icIp'[q]]
    BY <1>2, <1>3, PlaceFacts DEF InodeInv, Copies
  <2> QED
    BY <2>3, <2>4 DEF Copies
<1>13. Dying'
  BY <1>1, <1>2, <1>3, <1>4, <1>6, PlaceFacts DEF InodeInv, Dying
<1>14. Fresh'
  <2>1. ASSUME NEW q \in Proc, icPc'[q] \in {"iget", "new"}
        PROVE  /\ icDinode'[Of(q)'].nlink = 0
               /\ \A r \in Proc : r # q /\ icPc'[r] # "none" /\ Of(r)' = Of(q)' => icPc'[r] \in Spent
    <3>1. CASE q = p
      BY <3>1, <2>1, <1>1, <1>3, <1>4 DEF InodeInv, Fresh, Spent
    <3>2. CASE q # p
      BY <3>2, <2>1, <1>1, <1>3, <1>4, <1>7 DEF InodeInv, Fresh, Spent
    <3> QED
      BY <3>1, <3>2
  <2> QED
    BY <2>1 DEF Fresh
<1> QED
  BY <1>2, <1>8, <1>9, <1>10, <1>11, <1>12, <1>13, <1>14 DEF InodeInv

LEMMA InodeStep ==
  ASSUME InodeAssumption PROVE InodeInv /\ [Inodes!Next]_(Inodes!vars) => InodeInv'
<1> SUFFICES ASSUME InodeInv, [Inodes!Next]_(Inodes!vars) PROVE InodeInv'
  OBVIOUS
<1>1. CASE UNCHANGED Inodes!vars
  <2>1. UNCHANGED <<icDinode, icEntries, icInum, icRef, icValid, icLock, icCopy, icPc, icIp, icWant>>
    BY <1>1 DEF Inodes!vars, Inodes!slots
  <2>2. Inodes!TypeOK' /\ Placed' /\ RefsCounted' /\ Slots'
    BY <2>1 DEF InodeInv, Inodes!TypeOK, Placed, RefsCounted, Users, Slots
  <2>3. Disks' /\ Copies' /\ Dying' /\ Fresh'
    BY <2>1 DEF InodeInv, Disks, Copies, Dying, Fresh, Of
  <2> QED
    BY <2>2, <2>3 DEF InodeInv
<1>2. CASE Inodes!Next
  <2> PICK p \in Proc :
        \/ \E i \in Buf : Inodes!dirlookup(p, i) \/ Inodes!ialloc(p, i)
        \/ \E q \in Proc : Inodes!idup(p, q)
        \/ Inodes!IgetNew(p) \/ Inodes!create(p) \/ Inodes!ilock(p) \/ Inodes!iunlock(p)
        \/ \E k \in {1, -1} : Inodes!ChangeLinks(p, k)
        \/ Inodes!iput(p) \/ Inodes!IputFree(p) \/ Inodes!IputRelease(p) \/ Inodes!IputDrop(p)
    BY <1>2 DEF Inodes!Next
  <2>1. ASSUME NEW i \in Buf, Inodes!dirlookup(p, i) PROVE InodeInv'
    BY <2>1, GetKeeps
  <2>2. ASSUME NEW i \in Buf, Inodes!ialloc(p, i) PROVE InodeInv'
    BY <2>2, AllocKeeps
  <2>3. ASSUME NEW q \in Proc, Inodes!idup(p, q) PROVE InodeInv'
    BY <2>3, DupKeeps
  <2>4. CASE Inodes!IgetNew(p)
    <3>1. PICK i \in Buf : i = icWant[p]
      BY <2>4, PlaceFacts DEF Inodes!IgetNew
    <3> QED
      BY <2>4, <3>1, GetKeeps
  <2>5. CASE Inodes!create(p)
    BY <2>5, CreateKeeps
  <2>6. CASE Inodes!ilock(p)
    BY <2>6, IlockKeeps
  <2>7. CASE Inodes!iunlock(p) \/ Inodes!IputRelease(p)
    BY <2>7, ReleaseKeeps
  <2>8. ASSUME NEW k \in {1, -1}, Inodes!ChangeLinks(p, k) PROVE InodeInv'
    BY <2>8, LinksKeep
  <2>9. CASE Inodes!iput(p)
    BY <2>9, IputKeeps
  <2>10. CASE Inodes!IputFree(p)
    BY <2>10, FreeKeeps
  <2>11. CASE Inodes!IputDrop(p)
    BY <2>11, DropKeeps
  <2> QED
    BY <2>1, <2>2, <2>3, <2>4, <2>5, <2>6, <2>7, <2>8, <2>9, <2>10, <2>11
<1> QED
  BY <1>1, <1>2

\* what the invariant is for
LEMMA InodeInvIsEnough ==
  ASSUME InodeAssumption, InodeInv
  PROVE  Inodes!OneSlot /\ Inodes!CopyFresh /\ Inodes!InUseHasType
<1>1. Inodes!OneSlot
  <2>1. ASSUME NEW s \in Block, NEW t \in Block,
               icRef[s] > 0, icRef[t] > 0, icInum[s] = icInum[t]
        PROVE  s = t
    <3>1. PICK p \in Proc, q \in Proc : icIp[p] = s /\ icIp[q] = t
      BY <2>1, RefFacts DEF InodeInv
    <3> QED
      BY <2>1, <3>1, PlaceFacts DEF InodeInv, Slots
  <2>2. \A s \in Block : icRef[s] = Inodes!Cardinality({p \in Proc : icIp[p] = s})
    BY SameCardinality DEF InodeInv, RefsCounted, Users
  <2> QED
    BY <2>1, <2>2 DEF Inodes!OneSlot
<1>2. Inodes!CopyFresh
  <2> SUFFICES ASSUME NEW s \in Block, icRef[s] > 0, icValid[s] PROVE icCopy[s] = icDinode[icInum[s]]
    BY DEF Inodes!CopyFresh
  <2>1. PICK p \in Proc : icIp[p] = s
    BY RefFacts DEF InodeInv
  <2> QED
    BY <2>1, PlaceFacts DEF InodeInv, Copies
<1>3. Inodes!InUseHasType
  <2>1. \A i \in Buf : icEntries[i] > 0 => icDinode[i].used
    BY DEF InodeInv, Disks
  <2>2. \A p \in Proc : icPc[p] \in {"new", "ref", "locked", "free"} => icDinode[icInum[icIp[p]]].used
    BY PlaceFacts DEF InodeInv, Disks, Spent
  <2> QED
    BY <2>1, <2>2 DEF Inodes!InUseHasType
<1> QED
  BY <1>1, <1>2, <1>3

\* For any finite set of processes and any inodes and slots: iget(), idup(), ilock() and
\* iput(), interleaved in any way, keep one slot for an inode in use, its copy what is on
\* disk, and never free one that a directory names or another refers to (InodesCorrect)
THEOREM InodesAreCorrect == ASSUME IsFiniteSet(Proc) PROVE SideSpec => []InodesCorrect
<1> DEFINE I == part = "inodes" => InodeInv
<1>1. InodeAssumption
  BY SideAssumption DEF InodeAssumption
<1>2. SideInit => I
  BY <1>1, InodesInitial DEF SideInit
<1>3. I /\ [SideStep \/ Stops]_sideVars => I'
  <2> SUFFICES ASSUME I, [SideStep \/ Stops]_sideVars, part' = "inodes" PROVE InodeInv'
    OBVIOUS
  <2>1. part = "inodes" /\ InodeInv
    BY DEF SideStep, Stops, sideVars
  <2>2. Inodes!Next \/ UNCHANGED Inodes!vars
    BY <2>1 DEF SideStep, Stops, sideVars, icVars, Inodes!vars, Inodes!slots
  <2> QED
    BY <1>1, <2>1, <2>2, InodeStep
<1>4. I => InodesCorrect
  BY <1>1, InodeInvIsEnough DEF InodesCorrect, InodeInv
<1> QED
  BY <1>2, <1>3, <1>4, PTL DEF SideSpec
=============================================================================
