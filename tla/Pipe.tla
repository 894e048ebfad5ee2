-------------------------------- MODULE Pipe --------------------------------
(***************************************************************************)
(* pipe.c: a ring of bytes between processes that write and processes that *)
(* read.  A step is what runs under the lock of the pipe between a call or *)
(* a wakeup and the return or the sleep().  nread and nwrite are unsigned  *)
(* and wrap around.                                                        *)
(***************************************************************************)
EXTENDS Integers, FiniteSets, SequencesExt, SequenceTheorems, TLAPS

CONSTANTS
  Reader, Writer,     \* the processes that hold a descriptor of an end
  Byte,
  PIPESIZE,
  Modulus,            \* 2^32 in the code
  MaxCount            \* bound: the argument n of read() and write()

EndsAssumption ==
  Reader \cap Writer = {} /\ Reader # {} /\ Writer # {}
SizesAssumption ==
  /\ {PIPESIZE, Modulus, MaxCount} \subseteq Nat \ {0}
  /\ Modulus > PIPESIZE /\ Modulus % PIPESIZE = 0

Process == Reader \cup Writer

VARIABLES
  data, nread, nwrite, readopen, writeopen,   \* struct pipe
  pc, killed,
  todo,      \* by writer: the bytes pipewrite() has still to write
  count,     \* by reader: the argument of piperead()
  out        \* history: what the last piperead() returned

pipe == <<data, nread, nwrite, readopen, writeopen>>
vars == <<pipe, pc, killed, todo, count, out>>

Counter == 0 .. Modulus - 1
Writes  == UNION {[1 .. n -> Byte] : n \in 1 .. MaxCount}

TypeOK ==
  /\ data \in [0 .. PIPESIZE - 1 -> Byte]
  /\ nread \in Counter /\ nwrite \in Counter
  /\ (nwrite - nread) % Modulus <= PIPESIZE
  /\ readopen \in BOOLEAN /\ writeopen \in BOOLEAN
  /\ pc \in [Process -> {"user", "run", "asleep", "closed"}]
  /\ killed \subseteq Process
  /\ todo \in [Writer -> Writes \cup {<<>>}]
  /\ count \in [Reader -> 0 .. MaxCount]
  /\ out \in Writes \cup {<<>>}

Init ==
  /\ \E c \in Byte : data = [i \in 0 .. PIPESIZE - 1 |-> c]
  /\ nread = 0 /\ nwrite = 0
  /\ readopen = TRUE /\ writeopen = TRUE
  /\ pc = [p \in Process |-> "user"]
  /\ killed = {}
  /\ todo = [w \in Writer |-> <<>>]
  /\ count = [r \in Reader |-> 0]
  /\ out = <<>>

Used == (nwrite - nread) % Modulus

\* the bytes in the pipe, in order
Inside == [i \in 1 .. Used |-> data[(nread + i - 1) % PIPESIZE]]

\* wakeup(&p->nread) and wakeup(&p->nwrite)
WakeIn(S) == [p \in Process |-> IF p \in S /\ pc[p] = "asleep" THEN "run" ELSE pc[p]]

-----------------------------------------------------------------------------
\* a process that was killed makes no further call
Write(w, s) ==
  /\ pc[w] = "user" /\ w \notin killed
  /\ todo' = [todo EXCEPT ![w] = s]
  /\ pc' = [pc EXCEPT ![w] = "run"]
  /\ UNCHANGED <<pipe, killed, count, out>>

Full == nwrite = (nread + PIPESIZE) % Modulus

\* the bytes written until the pipe is full; mutant: one too many
RoomAndOne == PIPESIZE + 1 - Used
Room       == PIPESIZE - Used
Fits(w)    == Min({Len(todo[w]), Room})

Put(w, k) ==
  /\ data' = [i \in 0 .. PIPESIZE - 1 |->
                LET j == (i - nwrite) % PIPESIZE IN
                IF j < k THEN todo[w][j + 1] ELSE data[i]]
  /\ nwrite' = (nwrite + k) % Modulus

\* all of it fits: the reader is woken at the end
pipewriteDone(w) ==
  /\ pc[w] = "run"
  /\ Fits(w) = Len(todo[w])
  /\ Put(w, Fits(w))
  /\ todo' = [todo EXCEPT ![w] = <<>>]
  /\ pc' = [WakeIn(Reader) EXCEPT ![w] = "user"]
  /\ UNCHANGED <<nread, readopen, writeopen, killed, count, out>>

\* full in between: -1 when nobody reads, or sleep
GiveUp(w) == ~ readopen \/ w \in killed

pipewriteFull(w) ==
  /\ pc[w] = "run"
  /\ Fits(w) < Len(todo[w])
  /\ Put(w, Fits(w))
  /\ IF GiveUp(w)
     THEN /\ todo' = [todo EXCEPT ![w] = <<>>]
          /\ pc' = [pc EXCEPT ![w] = "user"]
     ELSE /\ todo' = [todo EXCEPT ![w] = SubSeq(@, Fits(w) + 1, Len(@))]
          /\ pc' = [WakeIn(Reader) EXCEPT ![w] = "asleep"]
  /\ UNCHANGED <<nread, readopen, writeopen, killed, count, out>>

-----------------------------------------------------------------------------
Read(r, n) ==
  /\ pc[r] = "user" /\ r \notin killed
  /\ count' = [count EXCEPT ![r] = n]
  /\ pc' = [pc EXCEPT ![r] = "run"]
  /\ UNCHANGED <<pipe, killed, todo, out>>

\* mutant: an empty pipe is the end of the stream
NeverWaits   == FALSE
EmptyAndOpen == nread = nwrite /\ writeopen

pipereadWait(r) ==
  /\ pc[r] = "run"
  /\ EmptyAndOpen
  /\ IF r \in killed
     THEN pc' = [pc EXCEPT ![r] = "user"] /\ count' = [count EXCEPT ![r] = 0]
     ELSE pc' = [pc EXCEPT ![r] = "asleep"] /\ UNCHANGED count
  /\ UNCHANGED <<pipe, killed, todo, out>>

\* mutant: a read wakes nobody
WakesNoWriter == pc
WakesWriters  == WakeIn(Writer)

pipereadCopy(r) ==
  /\ pc[r] = "run"
  /\ ~ EmptyAndOpen
  /\ LET k == Min({count[r], Used}) IN
     /\ out' = [i \in 1 .. k |-> data[(nread + i - 1) % PIPESIZE]]
     /\ nread' = (nread + k) % Modulus
  /\ pc' = [WakesWriters EXCEPT ![r] = "user"]
  /\ count' = [count EXCEPT ![r] = 0]
  /\ UNCHANGED <<data, nwrite, readopen, writeopen, killed, todo>>

-----------------------------------------------------------------------------
\* a process closes its descriptor, by close() or when it exits; the last one of
\* an end calls pipeclose().  mutant: a closing writer wakes nobody
LastOf(S, p)   == \A q \in S \ {p} : pc[q] = "closed"
WakesNobody(S) == pc
WakesOther(S)  == WakeIn(S)

CloseRead(r) ==
  /\ pc[r] = "user"
  /\ IF LastOf(Reader, r)
     THEN /\ readopen' = FALSE
          /\ pc' = [WakeIn(Writer) EXCEPT ![r] = "closed"]
     ELSE /\ pc' = [pc EXCEPT ![r] = "closed"]
          /\ UNCHANGED readopen
  /\ UNCHANGED <<data, nread, nwrite, writeopen, killed, todo, count, out>>

CloseWrite(w) ==
  /\ pc[w] = "user"
  /\ IF LastOf(Writer, w)
     THEN /\ writeopen' = FALSE
          /\ pc' = [WakesOther(Reader) EXCEPT ![w] = "closed"]
     ELSE /\ pc' = [pc EXCEPT ![w] = "closed"]
          /\ UNCHANGED writeopen
  /\ UNCHANGED <<data, nread, nwrite, readopen, killed, todo, count, out>>

Kill(p) ==
  /\ p \notin killed /\ pc[p] # "closed"
  /\ killed' = killed \cup {p}
  /\ pc' = [pc EXCEPT ![p] = IF @ = "asleep" THEN "run" ELSE @]
  /\ UNCHANGED <<pipe, todo, count, out>>

\* both ends closed: the pipe is freed
Done == (\A p \in Process : pc[p] = "closed") /\ UNCHANGED vars

Reads(r) == pipereadWait(r) \/ pipereadCopy(r)
Puts(w)  == pipewriteDone(w) \/ pipewriteFull(w)

Next ==
  \/ \E w \in Writer :
       (\E s \in Writes : Write(w, s)) \/ Puts(w) \/ CloseWrite(w)
  \/ \E r \in Reader :
       (\E n \in 1 .. MaxCount : Read(r, n)) \/ Reads(r) \/ CloseRead(r)
  \/ \E p \in Process : Kill(p)
  \/ Done

Safety == Init /\ [][Next]_vars

\* processes that are awake run, and programs go on: each reader that is in user
\* space reads or closes, in the end, and who was killed exits
Spec ==
  /\ Safety
  /\ \A w \in Writer : WF_vars(Puts(w)) /\ WF_vars(w \in killed /\ CloseWrite(w))
  /\ \A r \in Reader :
       /\ WF_vars(Reads(r))
       /\ WF_vars(CloseRead(r) \/ \E n \in 1 .. MaxCount : Read(r, n))

-----------------------------------------------------------------------------
Stream == INSTANCE ByteStream WITH
  stream <- Inside, open <- writeopen, Capacity <- PIPESIZE

\* the pipe implements a byte stream, wherever its counters wrap around and
\* whoever closes, is killed or sleeps: no byte is lost, repeated or reordered,
\* and read() returns 0 only after the last byte and the last writer
StreamSpec == Stream!Spec

\* no wakeup is lost: a writer sleeps only while the pipe is full and has a
\* reader, a reader only while it is empty and has a writer, neither when killed.
\* The exception is a reader whom a writer that was killed did not wake.
SleepersBlocked ==
  \A p \in Process : pc[p] = "asleep" =>
    /\ p \notin killed
    /\ p \in Writer => Full /\ readopen
    /\ p \in Reader => EmptyAndOpen \/ Writer \cap killed # {}

\* a write ends, as long as those who read go on reading or close
WritesEnd == \A w \in Writer : pc[w] = "asleep" ~> pc[w] # "asleep"

\* the loop of piperead() says that a reader waits while the pipe is empty: one
\* that sleeps when there are bytes is woken
BytesAreRead ==
  \A r \in Reader : pc[r] = "asleep" /\ ~ EmptyAndOpen ~> pc[r] # "asleep"
-----------------------------------------------------------------------------
(* For any readers and writers, any size of the ring and any width of the      *)
(* counters that it divides: the refinement, and no wakeup lost.  The counters *)
(* are reduced to sums and differences without the modulo, so that the bytes   *)
(* before and after a step can be compared one by one.                         *)

PipeAssumption == EndsAssumption /\ SizesAssumption

\* who is in a call has something to do; an end is open while somebody holds it
InCall ==
  /\ \A w \in Writer : pc[w] \in {"run", "asleep"} => todo[w] # <<>>
  /\ \A r \in Reader : pc[r] \in {"run", "asleep"} => count[r] # 0
EndsHeld ==
  /\ readopen <=> \E r \in Reader : pc[r] # "closed"
  /\ writeopen <=> \E w \in Writer : pc[w] # "closed"

Inv == TypeOK /\ InCall /\ EndsHeld /\ SleepersBlocked

-----------------------------------------------------------------------------
(* Arithmetic *)

LEMMA DivMod ==
  ASSUME NEW m \in Nat \ {0}, NEW a \in Int
  PROVE  /\ a = (a \div m) * m + (a % m)
         /\ a \div m \in Int /\ a % m \in 0 .. m - 1
  BY Z3

LEMMA Multiple ==
  ASSUME NEW m \in Nat \ {0}, NEW k \in Int, -m < k * m, k * m < m
  PROVE  k = 0
<1>1. CASE k >= 1
  <2>1. k * m >= m
    BY <1>1, Z3
  <2> QED
    BY <2>1
<1>2. CASE k <= -1
  <2>1. k * m <= -m
    BY <1>2, Z3
  <2> QED
    BY <2>1
<1> QED
  BY <1>1, <1>2

\* numbers that differ by a multiple of m have the same remainder
LEMMA SameMod ==
  ASSUME NEW m \in Nat \ {0}, NEW a \in Int, NEW b \in Int, NEW q \in Int, a = b + q * m
  PROVE  a % m = b % m
<1> DEFINE qa == a \div m
           qb == b \div m
           ra == a % m
           rb == b % m
<1>1. a = qa * m + ra /\ qa \in Int /\ ra \in 0 .. m - 1
  BY DivMod
<1>2. b = qb * m + rb /\ qb \in Int /\ rb \in 0 .. m - 1
  BY DivMod
<1> HIDE DEF qa, qb, ra, rb
<1>3. (qa - qb - q) * m = rb - ra
  BY <1>1, <1>2, Z3
<1>4. qa - qb - q = 0
  BY <1>1, <1>2, <1>3, Multiple
<1>5. ra = rb
  BY <1>1, <1>2, <1>3, <1>4
<1> QED
  BY <1>5 DEF ra, rb

LEMMA NextRound ==
  ASSUME NEW m \in Nat \ {0}, NEW b \in Int
  PROVE  (b + m) % m = b % m
<1> DEFINE a == b + m
           q == 1
<1>1. a \in Int /\ q \in Int /\ a = b + q * m
  OBVIOUS
<1>2. a % m = b % m
  <2> HIDE DEF a, q
  <2> QED
    BY <1>1, SameMod
<1> QED
  BY <1>2

LEMMA ModLow ==
  ASSUME NEW m \in Nat \ {0}, NEW a \in 0 .. m - 1
  PROVE  a % m = a
  BY Z3

LEMMA MinOfTwo ==
  ASSUME NEW a \in Int, NEW b \in Int
  PROVE  Min({a, b}) = IF a <= b THEN a ELSE b
  BY DEF Min

LEMMA Sizes ==
  ASSUME PipeAssumption
  PROVE  /\ PIPESIZE \in Nat \ {0} /\ Modulus \in Nat \ {0} /\ MaxCount \in Nat \ {0}
         /\ PIPESIZE < Modulus
         /\ \E q \in Int : Modulus = q * PIPESIZE
<1>1. PIPESIZE \in Nat \ {0} /\ Modulus \in Nat \ {0} /\ MaxCount \in Nat \ {0}
  BY DEF PipeAssumption, SizesAssumption
<1>2. PIPESIZE < Modulus /\ Modulus % PIPESIZE = 0
  BY DEF PipeAssumption, SizesAssumption
<1>3. Modulus = (Modulus \div PIPESIZE) * PIPESIZE + 0 /\ Modulus \div PIPESIZE \in Int
  BY <1>1, <1>2, DivMod
<1>4. Modulus = (Modulus \div PIPESIZE) * PIPESIZE
  <2> DEFINE q == Modulus \div PIPESIZE
  <2>1. q * PIPESIZE \in Int
    BY <1>1, <1>3
  <2> HIDE DEF q
  <2> QED
    BY <1>3, <2>1 DEF q
<1> QED
  BY <1>1, <1>2, <1>3, <1>4

\* of the numbers that differ by m, the one in range is the remainder
LEMMA Remainder ==
  ASSUME NEW m \in Nat \ {0}, NEW a \in 0 .. m - 1, NEW b \in Int, a = b \/ a = b + m
  PROVE  b % m = a
<1>1. CASE a = b
  BY <1>1, ModLow
<1>2. CASE a = b + m
  <2>1. (b + m) % m = b % m
    BY NextRound
  <2>2. a % m = a
    BY ModLow
  <2> QED
    BY <1>2, <2>1, <2>2
<1> QED
  BY <1>1, <1>2

\* a counter that is moved on, modulo its width and as an index into the ring
LEMMA Moved ==
  ASSUME PipeAssumption, NEW n \in Counter, NEW k \in 0 .. PIPESIZE
  PROVE  /\ (n + k) % Modulus = IF n + k < Modulus THEN n + k ELSE n + k - Modulus
         /\ (n + k) % Modulus \in Counter
         /\ \E e \in Int : (n + k) % Modulus = n + k + e * PIPESIZE
<1> USE DEF Counter
<1>1. /\ PIPESIZE \in Nat \ {0} /\ Modulus \in Nat \ {0} /\ PIPESIZE < Modulus
      /\ n \in Nat /\ k \in Nat /\ n < Modulus /\ k <= PIPESIZE
  BY Sizes
<1>2. PICK q \in Int : Modulus = q * PIPESIZE
  BY Sizes
<1>3. CASE n + k < Modulus
  <2>1. (n + k) % Modulus = n + k
    BY <1>1, <1>3, ModLow
  <2>2. (n + k) % Modulus \in Counter
    BY <1>1, <1>3, <2>1
  <2>3. \E e \in Int : (n + k) % Modulus = n + k + e * PIPESIZE
    <3> WITNESS 0 \in Int
    <3> QED
      BY <1>1, <2>1
  <2>4. (n + k) % Modulus = IF n + k < Modulus THEN n + k ELSE n + k - Modulus
    BY <1>3, <2>1
  <2> QED
    BY <2>2, <2>3, <2>4
<1>4. CASE Modulus <= n + k
  <2> DEFINE a == n + k
             b == n + k - Modulus
  <2>1. a \in Int /\ b \in Int /\ a = b + Modulus /\ b \in 0 .. Modulus - 1
    BY <1>1, <1>4
  <2>2. a % Modulus = b
    <3> HIDE DEF a, b
    <3> QED
      BY <1>1, <2>1, Remainder
  <2>3. (n + k) % Modulus = n + k - Modulus
    BY <2>2
  <2>4. \E e \in Int : (n + k) % Modulus = n + k + e * PIPESIZE
    <3>1. -q \in Int /\ n + k - Modulus = n + k + (-q) * PIPESIZE
      BY <1>1, <1>2
    <3> QED
      BY <2>3, <3>1
  <2> QED
    BY <1>1, <1>4, <2>1, <2>3, <2>4
<1> QED
  BY <1>1, <1>3, <1>4

LEMMA Counters ==
  ASSUME PipeAssumption, TypeOK
  PROVE  /\ Used = IF nread <= nwrite THEN nwrite - nread ELSE nwrite - nread + Modulus
         /\ Used \in 0 .. PIPESIZE /\ Room \in 0 .. PIPESIZE /\ Room = PIPESIZE - Used
         /\ Full <=> Used = PIPESIZE
         /\ nread = nwrite <=> Used = 0
<1> USE DEF Counter
<1>1. /\ PIPESIZE \in Nat \ {0} /\ Modulus \in Nat \ {0} /\ PIPESIZE < Modulus
      /\ nread \in Nat /\ nwrite \in Nat /\ nread < Modulus /\ nwrite < Modulus
      /\ Used <= PIPESIZE
  BY Sizes DEF TypeOK, Used
<1>2. Used = IF nread <= nwrite THEN nwrite - nread ELSE nwrite - nread + Modulus
  <2>1. CASE nread <= nwrite
    BY <1>1, <2>1, ModLow DEF Used
  <2>2. CASE nwrite < nread
    <3> DEFINE a == nwrite - nread + Modulus
               b == nwrite - nread
    <3>1. a \in Int /\ b \in Int /\ a = b + Modulus /\ a \in 0 .. Modulus - 1
      BY <1>1, <2>2
    <3>2. b % Modulus = a
      <4> HIDE DEF a, b
      <4> QED
        BY <1>1, <3>1, Remainder
    <3> QED
      BY <1>1, <2>2, <3>2 DEF Used
  <2> QED
    BY <1>1, <2>1, <2>2
<1>3. Used \in 0 .. PIPESIZE
  BY <1>1, <1>2
<1>4. (nread + PIPESIZE) % Modulus =
        IF nread + PIPESIZE < Modulus THEN nread + PIPESIZE ELSE nread + PIPESIZE - Modulus
  <2>1. nread \in Counter /\ PIPESIZE \in 0 .. PIPESIZE
    BY <1>1 DEF TypeOK
  <2> HIDE DEF Counter
  <2> QED
    BY <2>1, Moved
<1>5. Full <=> Used = PIPESIZE
  BY <1>1, <1>2, <1>4 DEF Full
<1> QED
  BY <1>1, <1>2, <1>3, <1>5 DEF Room

LEMMA WritesAre == ASSUME PipeAssumption, NEW s
                   PROVE  s \in Writes <=> s \in Seq(Byte) /\ Len(s) \in 1 .. MaxCount
<1>1. ASSUME s \in Writes PROVE s \in Seq(Byte) /\ Len(s) \in 1 .. MaxCount
  <2>1. PICK n \in 1 .. MaxCount : s \in [1 .. n -> Byte]
    BY <1>1 DEF Writes
  <2>2. n \in Nat
    BY <2>1, Sizes
  <2>3. s \in Seq(Byte)
    BY <2>1, <2>2, SeqDef
  <2> QED
    BY <2>1, <2>2, <2>3, LenProperties
<1>2. ASSUME s \in Seq(Byte), Len(s) \in 1 .. MaxCount PROVE s \in Writes
  BY <1>2, LenProperties DEF Writes
<1> QED
  BY <1>1, <1>2

LEMMA TodoIs ==
  ASSUME PipeAssumption, TypeOK, NEW w \in Writer
  PROVE  /\ todo[w] \in Seq(Byte) /\ Len(todo[w]) \in 0 .. MaxCount /\ Len(todo[w]) \in Nat
         /\ todo[w] # <<>> <=> Len(todo[w]) > 0
         /\ Fits(w) = IF Len(todo[w]) <= Room THEN Len(todo[w]) ELSE Room
         /\ Fits(w) \in 0 .. Room /\ Fits(w) <= Len(todo[w])
<1>1. todo[w] \in Writes \cup {<<>>}
  BY DEF TypeOK
<1>2. todo[w] \in Seq(Byte) /\ Len(todo[w]) \in 0 .. MaxCount
  <2>1. CASE todo[w] \in Writes
    BY <2>1, WritesAre, Sizes
  <2>2. CASE todo[w] = <<>>
    BY <2>2, EmptySeq, Sizes
  <2> QED
    BY <1>1, <2>1, <2>2
<1>3. Len(todo[w]) \in Nat
  BY <1>2, Sizes
<1>4. todo[w] # <<>> <=> Len(todo[w]) > 0
  BY <1>2, <1>3, EmptySeq
<1>5. Room \in Nat
  BY Counters, Sizes
<1>6. Fits(w) = IF Len(todo[w]) <= Room THEN Len(todo[w]) ELSE Room
  BY <1>3, <1>5, MinOfTwo DEF Fits
<1> QED
  BY <1>2, <1>3, <1>4, <1>5, <1>6

-----------------------------------------------------------------------------
(* What is inside *)

LEMMA InsideIs ==
  ASSUME PipeAssumption, TypeOK
  PROVE  /\ Inside \in Seq(Byte) /\ Len(Inside) = Used
         /\ \A i \in 1 .. Used : Inside[i] = data[(nread + i - 1) % PIPESIZE]
<1>1. Used \in Nat /\ PIPESIZE \in Nat \ {0} /\ nread \in Nat
  BY Counters, Sizes DEF TypeOK, Counter
<1>2. \A i \in 1 .. Used : (nread + i - 1) % PIPESIZE \in 0 .. PIPESIZE - 1
  BY <1>1, DivMod
<1>3. \A i \in 1 .. Used : data[(nread + i - 1) % PIPESIZE] \in Byte
  BY <1>2 DEF TypeOK
<1>4. Inside \in [1 .. Used -> Byte]
  BY <1>3 DEF Inside
<1>5. Inside \in Seq(Byte)
  BY <1>1, <1>4, SeqDef
<1> QED
  BY <1>1, <1>4, <1>5, LenProperties DEF Inside

\* the place of the x-th byte, seen from nwrite: what was inside is kept by Put, and the
\* bytes after it are the new ones
LEMMA Place ==
  ASSUME PipeAssumption, TypeOK, NEW k \in 0 .. Room, NEW x \in 1 .. Used + k
  PROVE  LET pos == (nread + x - 1) % PIPESIZE IN
         /\ pos \in 0 .. PIPESIZE - 1
         /\ x <= Used => (pos - nwrite) % PIPESIZE >= k
         /\ x > Used => (pos - nwrite) % PIPESIZE = x - Used - 1
<1> DEFINE pos == (nread + x - 1) % PIPESIZE
           d == (nread + x - 1) \div PIPESIZE
<1>1. /\ PIPESIZE \in Nat \ {0} /\ nread \in Nat /\ nwrite \in Nat /\ Modulus \in Nat
      /\ Used \in Nat /\ Used + k <= PIPESIZE /\ k \in Nat /\ x \in Nat /\ 1 <= x
      /\ x <= Used + k
  <2>1. PIPESIZE \in Nat \ {0} /\ Modulus \in Nat \ {0}
    BY Sizes
  <2>2. Used \in 0 .. PIPESIZE /\ Room \in 0 .. PIPESIZE /\ Room = PIPESIZE - Used
    BY Counters
  <2>3. nread \in Nat /\ nwrite \in Nat
    BY DEF TypeOK, Counter
  <2> HIDE DEF pos, d
  <2> QED
    BY <2>1, <2>2, <2>3
<1>2. pos \in 0 .. PIPESIZE - 1 /\ d \in Int /\ nread + x - 1 = d * PIPESIZE + pos
  <2> DEFINE a == nread + x - 1
  <2>1. a \in Int
    BY <1>1
  <2>2. a % PIPESIZE \in 0 .. PIPESIZE - 1 /\ a \div PIPESIZE \in Int
        /\ a = (a \div PIPESIZE) * PIPESIZE + (a % PIPESIZE)
    <3> HIDE DEF a, pos, d
    <3> QED
      BY <1>1, <2>1, DivMod
  <2> QED
    BY <2>2
<1>3. PICK q \in Int : Modulus = q * PIPESIZE
  BY Sizes
<1>4. PICK e \in Int : nread + Used - nwrite = e * PIPESIZE
  <2>1. nread + Used - nwrite = 0 \/ nread + Used - nwrite = Modulus
    BY <1>1, Counters
  <2>2. 0 * PIPESIZE = 0
    BY <1>1
  <2> QED
    BY <1>3, <2>1, <2>2
<1> HIDE DEF pos, d
<1>5. pos - nwrite = x - 1 - Used + (e - d) * PIPESIZE
  BY <1>1, <1>2, <1>4, Z3
<1>6. (pos - nwrite) % PIPESIZE = (x - 1 - Used) % PIPESIZE
  <2>1. pos - nwrite \in Int /\ x - 1 - Used \in Int /\ e - d \in Int
    BY <1>1, <1>2, <1>4
  <2> QED
    BY <1>1, <1>5, <2>1, SameMod
<1>7. CASE x <= Used
  <2> DEFINE a == x - 1 - Used + PIPESIZE
             b == x - 1 - Used
  <2>1. a \in Int /\ b \in Int /\ a = b + PIPESIZE /\ a \in 0 .. PIPESIZE - 1 /\ a >= k
    BY <1>1, <1>7
  <2>2. b % PIPESIZE = a
    <3> HIDE DEF a, b
    <3> QED
      BY <1>1, <2>1, Remainder
  <2>3. (pos - nwrite) % PIPESIZE >= k
    BY <1>6, <2>1, <2>2
  <2> QED
    BY <1>1, <1>2, <1>7, <2>3 DEF pos
<1>8. CASE x > Used
  <2>1. x - 1 - Used \in 0 .. PIPESIZE - 1
    BY <1>1, <1>8
  <2>2. (pos - nwrite) % PIPESIZE = x - 1 - Used
    BY <1>1, <1>6, <2>1, ModLow
  <2> QED
    BY <1>1, <1>2, <1>8, <2>2 DEF pos
<1> QED
  BY <1>1, <1>7, <1>8

\* Put() adds the first k bytes of a write at the end
LEMMA PutAppends ==
  ASSUME PipeAssumption, TypeOK, NEW w \in Writer, NEW k \in 0 .. Fits(w),
         Put(w, k), nread' = nread
  PROVE  /\ data' \in [0 .. PIPESIZE - 1 -> Byte] /\ nwrite' \in Counter
         /\ Used' = Used + k
         /\ Inside' = Inside \o SubSeq(todo[w], 1, k)
         /\ SubSeq(todo[w], 1, k) \in [1 .. k -> Byte]
         /\ k = 0 => Inside' = Inside
<1> DEFINE t == todo[w]
           new == SubSeq(t, 1, k)
           old == Inside
           J(i) == (i - nwrite) % PIPESIZE
<1>1. /\ PIPESIZE \in Nat \ {0} /\ Modulus \in Nat \ {0} /\ nread \in Nat /\ nwrite \in Nat
      /\ Used \in Nat /\ k \in Nat /\ Used + k <= PIPESIZE /\ k <= Len(t) /\ k <= Room
      /\ nread < Modulus /\ nwrite < Modulus /\ PIPESIZE < Modulus
      /\ Len(t) \in Nat /\ t \in Seq(Byte)
  <2>1. /\ PIPESIZE \in Nat \ {0} /\ Modulus \in Nat \ {0} /\ PIPESIZE < Modulus
    BY Sizes
  <2>2. Used \in 0 .. PIPESIZE /\ Room \in 0 .. PIPESIZE /\ Room = PIPESIZE - Used
    BY Counters
  <2>3. nread \in Nat /\ nwrite \in Nat /\ nread < Modulus /\ nwrite < Modulus
    BY <2>1 DEF TypeOK, Counter
  <2>4. Fits(w) \in 0 .. Room /\ Fits(w) <= Len(t) /\ Len(t) \in Nat /\ t \in Seq(Byte)
    BY TodoIs
  <2> HIDE DEF t, new, old, J
  <2> QED
    BY <2>1, <2>2, <2>3, <2>4
<1>2. /\ data' = [i \in 0 .. PIPESIZE - 1 |-> IF J(i) < k THEN t[J(i) + 1] ELSE data[i]]
      /\ nwrite' = (nwrite + k) % Modulus
  BY DEF Put
<1>3. \A i \in 0 .. PIPESIZE - 1 : J(i) \in 0 .. PIPESIZE - 1
  BY <1>1, DivMod
<1>4. \A i \in 1 .. Len(t) : t[i] \in Byte
  BY <1>1, ElementOfSeq
<1>5. data' \in [0 .. PIPESIZE - 1 -> Byte]
  <2>1. ASSUME NEW i \in 0 .. PIPESIZE - 1
        PROVE  (IF J(i) < k THEN t[J(i) + 1] ELSE data[i]) \in Byte
    <3>1. CASE J(i) < k
      <4>1. J(i) + 1 \in 1 .. Len(t)
        BY <1>1, <1>3, <3>1
      <4> QED
        BY <1>4, <3>1, <4>1
    <3>2. CASE ~ (J(i) < k)
      BY <3>2 DEF TypeOK
    <3> QED
      BY <3>1, <3>2
  <2> QED
    BY <1>2, <2>1
<1>6. /\ nwrite' = IF nwrite + k < Modulus THEN nwrite + k ELSE nwrite + k - Modulus
      /\ nwrite' \in Counter
  <2>1. nwrite \in Counter /\ k \in 0 .. PIPESIZE
    BY <1>1 DEF TypeOK
  <2> HIDE DEF t, new, old, J
  <2> QED
    BY <1>2, <2>1, Moved
<1>7. Used' = Used + k
  <2> DEFINE n == nwrite'
             gap == n - nread
             sum == Used + k
  <2>1. n \in Nat /\ n < Modulus
    BY <1>1, <1>6 DEF Counter
  <2>2. Used' = gap % Modulus
    BY DEF Used
  <2>3. Used = IF nread <= nwrite THEN nwrite - nread ELSE nwrite - nread + Modulus
    BY Counters
  <2>4. /\ gap \in Int
        /\ sum = gap \/ sum = gap + Modulus
        /\ sum \in 0 .. Modulus - 1
    BY <1>1, <1>6, <2>1, <2>3
  <2>5. gap % Modulus = sum
    <3> HIDE DEF gap, sum, t, new, old, J
    <3> QED
      BY <1>1, <2>4, Remainder
  <2> QED
    BY <2>2, <2>5
<1>8. /\ new \in Seq(Byte) /\ Len(new) = k
      /\ \A i \in 1 .. k : new[i] = t[i]
  <2>1. \A i \in 1 .. k : t[i] \in Byte
    BY <1>1, <1>4
  <2>2. /\ new \in Seq(Byte) /\ Len(new) = IF 1 <= k THEN k - 1 + 1 ELSE 0
        /\ \A i \in 1 .. k - 1 + 1 : new[i] = t[1 + i - 1]
    <3> HIDE DEF t
    <3> QED
      BY <1>1, <2>1, SubSeqProperties
  <2> QED
    BY <1>1, <2>2
<1>9. /\ old \in Seq(Byte) /\ Len(old) = Used
      /\ \A i \in 1 .. Used : old[i] = data[(nread + i - 1) % PIPESIZE]
  BY InsideIs
<1>10. ASSUME NEW x \in 1 .. Used + k
       PROVE  data'[(nread + x - 1) % PIPESIZE] = (old \o new)[x]
  <2> DEFINE pos == (nread + x - 1) % PIPESIZE
  <2>1. /\ pos \in 0 .. PIPESIZE - 1
        /\ x <= Used => J(pos) >= k
        /\ x > Used => J(pos) = x - Used - 1
    BY <1>1, Place
  <2>2. (old \o new)[x] = IF x <= Used THEN old[x] ELSE new[x - Used]
    <3> HIDE DEF old, new
    <3> QED
      BY <1>8, <1>9, ConcatProperties
  <2>3. CASE x <= Used
    <3>1. J(pos) >= k /\ J(pos) \in Int /\ x \in 1 .. Used
      BY <1>1, <1>3, <2>1, <2>3
    <3>2. data'[pos] = data[pos]
      BY <1>1, <1>2, <2>1, <3>1
    <3> QED
      BY <1>9, <2>2, <2>3, <3>1, <3>2
  <2>4. CASE x > Used
    <3>1. x - Used \in 1 .. k /\ J(pos) < k /\ J(pos) + 1 = x - Used
      BY <1>1, <2>1, <2>4
    <3>2. data'[pos] = t[x - Used]
      BY <1>2, <2>1, <3>1
    <3>3. new[x - Used] = t[x - Used]
      <4> HIDE DEF new, t
      <4> QED
        BY <1>8, <3>1
    <3>4. (old \o new)[x] = new[x - Used]
      <4> HIDE DEF new, old
      <4> QED
        BY <1>1, <2>2, <2>4
    <3> QED
      BY <3>2, <3>3, <3>4
  <2>5. x <= Used \/ x > Used
    <3> HIDE DEF pos, t, new, old, J
    <3> QED
      BY <1>1
  <2> QED
    BY <2>3, <2>4, <2>5
<1>11. Inside' = [x \in 1 .. Used + k |-> data'[(nread + x - 1) % PIPESIZE]]
  BY <1>7 DEF Inside
<1>12. old \o new \in Seq(Byte) /\ Len(old \o new) = Used + k
  <2> HIDE DEF old, new
  <2> QED
    BY <1>8, <1>9, ConcatProperties
<1>13. DOMAIN (old \o new) = 1 .. Used + k
  <2> HIDE DEF old, new
  <2> QED
    BY <1>12, LenProperties
<1>14. Inside' = old \o new
  <2> DEFINE both == old \o new
  <2>1. both = [x \in 1 .. Used + k |-> both[x]]
    <3>1. both \in [1 .. Used + k -> Byte]
      BY <1>12, LenProperties
    <3> HIDE DEF both
    <3> QED
      BY <3>1
  <2> QED
    BY <1>10, <1>11, <2>1
<1>15. new \in [1 .. k -> Byte]
  <2> HIDE DEF new
  <2> QED
    BY <1>8, LenProperties
<1>16. ASSUME k = 0 PROVE Inside' = Inside
  <2>1. new = <<>>
    <3> HIDE DEF new
    <3> QED
      BY <1>8, <1>16, EmptySeq
  <2> QED
    BY <1>9, <1>14, <2>1, ConcatEmptySeq
<1> QED
  BY <1>5, <1>6, <1>7, <1>14, <1>15, <1>16

\* a read takes the first k bytes
LEMMA CopyTakes ==
  ASSUME PipeAssumption, TypeOK, NEW k \in 0 .. Used,
         nread' = (nread + k) % Modulus, nwrite' = nwrite, data' = data
  PROVE  /\ nread' \in Counter /\ Used' = Used - k
         /\ Inside' = SubSeq(Inside, k + 1, Len(Inside))
         /\ [i \in 1 .. k |-> data[(nread + i - 1) % PIPESIZE]] = SubSeq(Inside, 1, k)
         /\ k = 0 => Inside' = Inside
<1> DEFINE rest == SubSeq(Inside, k + 1, Len(Inside))
           got == SubSeq(Inside, 1, k)
<1>1. /\ PIPESIZE \in Nat \ {0} /\ Modulus \in Nat \ {0} /\ nread \in Nat /\ nwrite \in Nat
      /\ Used \in Nat /\ k \in Nat /\ k <= Used /\ k <= PIPESIZE /\ Used <= PIPESIZE
      /\ nread < Modulus /\ nwrite < Modulus /\ PIPESIZE < Modulus
  <2>1. /\ PIPESIZE \in Nat \ {0} /\ Modulus \in Nat \ {0} /\ PIPESIZE < Modulus
    BY Sizes
  <2>2. Used \in 0 .. PIPESIZE
    BY Counters
  <2>3. nread \in Nat /\ nwrite \in Nat /\ nread < Modulus /\ nwrite < Modulus
    BY <2>1 DEF TypeOK, Counter
  <2> QED
    BY <2>1, <2>2, <2>3
<1>2. /\ nread' = IF nread + k < Modulus THEN nread + k ELSE nread + k - Modulus
      /\ nread' \in Counter
      /\ \E e \in Int : nread' = nread + k + e * PIPESIZE
  <2>1. nread \in Counter /\ k \in 0 .. PIPESIZE
    BY <1>1 DEF TypeOK
  <2> QED
    BY <2>1, Moved
<1>3. Used' = Used - k
  <2> DEFINE n == nread'
             gap == nwrite - n
             sum == Used - k
  <2>1. n \in Nat /\ n < Modulus
    BY <1>1, <1>2 DEF Counter
  <2>2. Used' = gap % Modulus
    BY DEF Used
  <2>3. Used = IF nread <= nwrite THEN nwrite - nread ELSE nwrite - nread + Modulus
    BY Counters
  <2>4. /\ gap \in Int
        /\ sum = gap \/ sum = gap + Modulus
        /\ sum \in 0 .. Modulus - 1
    BY <1>1, <1>2, <2>1, <2>3
  <2>5. gap % Modulus = sum
    <3> HIDE DEF gap, sum
    <3> QED
      BY <1>1, <2>4, Remainder
  <2> QED
    BY <2>2, <2>5
<1>4. /\ Inside \in Seq(Byte) /\ Len(Inside) = Used
      /\ \A i \in 1 .. Used : Inside[i] = data[(nread + i - 1) % PIPESIZE]
  BY InsideIs
<1>5. \A i \in 1 .. Used : Inside[i] \in Byte
  BY <1>4, ElementOfSeq
<1>6. /\ rest \in Seq(Byte) /\ Len(rest) = Used - k
      /\ \A i \in 1 .. Used - k : rest[i] = Inside[k + i]
  <2>1. \A i \in k + 1 .. Used : Inside[i] \in Byte
    BY <1>1, <1>5
  <2>2. /\ rest \in Seq(Byte) /\ Len(rest) = IF k + 1 <= Used THEN Used - (k + 1) + 1 ELSE 0
        /\ \A i \in 1 .. Used - (k + 1) + 1 : rest[i] = Inside[(k + 1) + i - 1]
    BY <1>1, <1>4, <2>1, SubSeqProperties
  <2>3. Used - (k + 1) + 1 = Used - k
    BY <1>1
  <2>4. \A i \in 1 .. Used - k : (k + 1) + i - 1 = k + i
    BY <1>1
  <2> QED
    BY <1>1, <2>2, <2>3, <2>4
<1>7. /\ got \in Seq(Byte) /\ Len(got) = k
      /\ \A i \in 1 .. k : got[i] = Inside[i]
  <2>1. \A i \in 1 .. k : Inside[i] \in Byte
    BY <1>1, <1>5
  <2>2. /\ got \in Seq(Byte) /\ Len(got) = IF 1 <= k THEN k - 1 + 1 ELSE 0
        /\ \A i \in 1 .. k - 1 + 1 : got[i] = Inside[1 + i - 1]
    BY <1>1, <2>1, SubSeqProperties
  <2> QED
    BY <1>1, <2>2
<1>8. Inside' = rest
  <2>1. Inside' = [i \in 1 .. Used - k |-> data[(nread' + i - 1) % PIPESIZE]]
    BY <1>3 DEF Inside
  <2>2. ASSUME NEW i \in 1 .. Used - k
        PROVE  data[(nread' + i - 1) % PIPESIZE] = rest[i]
    <3>1. PICK e \in Int : nread' = nread + k + e * PIPESIZE
      BY <1>2
    <3>2. /\ nread' + i - 1 = nread + (k + i) - 1 + e * PIPESIZE
          /\ nread' + i - 1 \in Int /\ nread + (k + i) - 1 \in Int
          /\ k + i \in 1 .. Used
      BY <1>1, <1>2, <3>1 DEF Counter
    <3>3. (nread' + i - 1) % PIPESIZE = (nread + (k + i) - 1) % PIPESIZE
      BY <1>1, <3>2, SameMod
    <3> QED
      BY <1>4, <1>6, <3>2, <3>3
  <2>3. rest = [i \in 1 .. Used - k |-> rest[i]]
    <3>1. rest \in [1 .. Used - k -> Byte]
      BY <1>6, LenProperties
    <3> HIDE DEF rest
    <3> QED
      BY <3>1
  <2> QED
    BY <2>1, <2>2, <2>3
<1>9. [i \in 1 .. k |-> data[(nread + i - 1) % PIPESIZE]] = got
  <2>1. got = [i \in 1 .. k |-> got[i]]
    <3>1. got \in [1 .. k -> Byte]
      BY <1>7, LenProperties
    <3> HIDE DEF got
    <3> QED
      BY <3>1
  <2>2. \A i \in 1 .. k : got[i] = data[(nread + i - 1) % PIPESIZE]
    BY <1>1, <1>4, <1>7
  <2> QED
    BY <2>1, <2>2
<1>10. ASSUME k = 0 PROVE Inside' = Inside
  <2>1. nread' = nread
    BY <1>1, <1>2, <1>10
  <2> QED
    BY <2>1 DEF Inside, Used
<1> QED
  BY <1>2, <1>3, <1>8, <1>9, <1>10

-----------------------------------------------------------------------------
(* The invariant *)

CounterFacts ==
  /\ Used \in 0 .. PIPESIZE /\ Room = PIPESIZE - Used
  /\ Full <=> Used = PIPESIZE
  /\ nread = nwrite <=> Used = 0

LEMMA CountersAre == ASSUME PipeAssumption PROVE TypeOK => CounterFacts
<1> SUFFICES ASSUME TypeOK PROVE CounterFacts
  OBVIOUS
<1> QED
  BY Counters DEF CounterFacts

LEMMA PCs == ASSUME PipeAssumption, TypeOK
             PROVE  /\ \A p \in Process : pc[p] \in {"user", "run", "asleep", "closed"}
                    /\ DOMAIN pc = Process
                    /\ \A w \in Writer : w \in Process /\ w \notin Reader
                    /\ \A r \in Reader : r \in Process /\ r \notin Writer
BY DEF TypeOK, Process, PipeAssumption, EndsAssumption

\* a step that leaves the ring alone
LEMMA Quiet ==
  ASSUME UNCHANGED <<data, nread, nwrite>>
  PROVE  /\ Inside' = Inside /\ Used' = Used
         /\ Full' <=> Full
BY DEF Inside, Used, Full

LEMMA Initially == ASSUME PipeAssumption PROVE Init => Inv /\ Stream!Init
<1> SUFFICES ASSUME Init PROVE Inv /\ Stream!Init
  OBVIOUS
<1>1. PIPESIZE \in Nat \ {0} /\ Modulus \in Nat \ {0} /\ MaxCount \in Nat \ {0}
  BY Sizes
<1>2. (nwrite - nread) % Modulus = 0
  <2>1. nwrite - nread = 0 /\ 0 \in 0 .. Modulus - 1
    BY <1>1 DEF Init
  <2> QED
    BY <1>1, <2>1, ModLow
<1>3. TypeOK
  <2>1. data \in [0 .. PIPESIZE - 1 -> Byte]
    BY DEF Init
  <2> QED
    BY <1>1, <1>2, <2>1 DEF Init, TypeOK, Counter
<1>4. InCall /\ SleepersBlocked
  BY PCs, <1>3 DEF Init, InCall, SleepersBlocked
<1>5. EndsHeld
  BY DEF Init, EndsHeld, Process, PipeAssumption, EndsAssumption
<1>6. Inside = <<>>
  BY <1>2, <1>3, InsideIs, EmptySeq DEF Used
<1> QED
  BY <1>3, <1>4, <1>5, <1>6 DEF Init, Inv, Stream!Init

-----------------------------------------------------------------------------
(* Each operation keeps the invariant and does to the stream what it should *)

Step == Inv' /\ [Stream!Next]_(Stream!vars)

LEMMA WriteStep ==
  ASSUME PipeAssumption, Inv, NEW w \in Writer, NEW s \in Writes, Write(w, s)
  PROVE  Step
<1>1. TypeOK /\ UNCHANGED <<data, nread, nwrite, readopen, writeopen, killed, count, out>>
  BY DEF Inv, Write, pipe
<1>2. /\ pc[w] = "user" /\ pc' = [pc EXCEPT ![w] = "run"]
      /\ todo' = [todo EXCEPT ![w] = s]
  BY DEF Write
<1>3. TypeOK'
  BY <1>1, <1>2, PCs DEF TypeOK, Counter
<1>4. s # <<>>
  BY WritesAre, EmptySeq
<1>5. InCall'
  BY <1>1, <1>2, <1>4, PCs DEF Inv, InCall, TypeOK
<1>6. EndsHeld'
  BY <1>1, <1>2, PCs DEF Inv, EndsHeld
<1>7. SleepersBlocked'
  BY <1>1, <1>2, PCs, Quiet DEF Inv, SleepersBlocked, EmptyAndOpen
<1>8. UNCHANGED Stream!vars
  BY <1>1, Quiet DEF Stream!vars
<1> QED
  BY <1>3, <1>5, <1>6, <1>7, <1>8 DEF Step, Inv

\* the bytes of a write that fit are put at the end of the stream
LEMMA PutStep ==
  ASSUME PipeAssumption, Inv, NEW w \in Writer, pc[w] = "run", Put(w, Fits(w)),
         UNCHANGED <<nread, writeopen, out>>
  PROVE  /\ data' \in [0 .. PIPESIZE - 1 -> Byte] /\ nwrite' \in Counter
         /\ Used' = Used + Fits(w) /\ Used' <= PIPESIZE
         /\ [Stream!Next]_(Stream!vars)
<1> DEFINE k == Fits(w)
<1>1. TypeOK /\ nread' = nread
  BY DEF Inv
<1>2. /\ k \in 0 .. Room /\ Room = PIPESIZE - Used /\ Used \in 0 .. PIPESIZE
      /\ PIPESIZE \in Nat \ {0} /\ k \in Nat
  BY <1>1, TodoIs, Counters, Sizes
<1>3. /\ data' \in [0 .. PIPESIZE - 1 -> Byte] /\ nwrite' \in Counter
      /\ Used' = Used + k
      /\ Inside' = Inside \o SubSeq(todo[w], 1, k)
      /\ SubSeq(todo[w], 1, k) \in [1 .. k -> Byte]
      /\ k = 0 => Inside' = Inside
  <2>1. k \in 0 .. Fits(w) /\ Put(w, k)
    BY <1>2
  <2> HIDE DEF k
  <2> QED
    BY <1>1, <2>1, PutAppends
<1>4. Len(Inside) = Used
  BY <1>1, InsideIs
<1>5. writeopen
  BY PCs, <1>1 DEF Inv, EndsHeld
<1> HIDE DEF k
<1>6. ASSUME k = 0 PROVE [Stream!Next]_(Stream!vars)
  <2>1. UNCHANGED Stream!vars
    BY <1>3, <1>6 DEF Stream!vars
  <2> QED
    BY <2>1
<1>7. ASSUME k # 0 PROVE [Stream!Next]_(Stream!vars)
  <2>1. k \in 1 .. PIPESIZE - Len(Inside)
    BY <1>2, <1>4, <1>7
  <2>2. Stream!Put
    BY <1>3, <1>5, <2>1 DEF Stream!Put
  <2>3. Stream!Next
    BY <2>2 DEF Stream!Next
  <2> QED
    BY <2>3
<1>8. [Stream!Next]_(Stream!vars)
  BY <1>6, <1>7
<1>9. Used' <= PIPESIZE
  BY <1>2, <1>3
<1> QED
  BY <1>3, <1>8, <1>9 DEF k

LEMMA pipewriteDoneStep ==
  ASSUME PipeAssumption, Inv, NEW w \in Writer, pipewriteDone(w)
  PROVE  Step
<1>1. /\ TypeOK /\ pc[w] = "run" /\ Fits(w) = Len(todo[w]) /\ Put(w, Fits(w))
      /\ todo' = [todo EXCEPT ![w] = <<>>]
      /\ pc' = [WakeIn(Reader) EXCEPT ![w] = "user"]
      /\ UNCHANGED <<nread, readopen, writeopen, killed, count, out>>
  BY DEF Inv, pipewriteDone
<1>2. /\ data' \in [0 .. PIPESIZE - 1 -> Byte] /\ nwrite' \in Counter
      /\ Used' = Used + Fits(w) /\ Used' <= PIPESIZE
      /\ [Stream!Next]_(Stream!vars)
  BY <1>1, PutStep
<1>3. /\ pc' \in [Process -> {"user", "run", "asleep", "closed"}]
      /\ pc'[w] = "user"
      /\ \A v \in Writer : v # w => pc'[v] = pc[v]
      /\ \A r \in Reader : pc'[r] = IF pc[r] = "asleep" THEN "run" ELSE pc[r]
  BY <1>1, PCs DEF WakeIn
<1>4. TypeOK'
  <2>1. todo' \in [Writer -> Writes \cup {<<>>}]
    BY <1>1 DEF TypeOK
  <2>2. (nwrite' - nread') % Modulus <= PIPESIZE
    BY <1>2 DEF Used
  <2> QED
    BY <1>1, <1>2, <1>3, <2>1, <2>2 DEF TypeOK
<1>5. InCall'
  BY <1>1, <1>3, PCs DEF Inv, InCall, TypeOK
<1>6. EndsHeld'
  BY <1>1, <1>3, PCs DEF Inv, EndsHeld
<1>7. ~ Full
  <2>1. Fits(w) > 0 /\ Fits(w) \in 0 .. Room
    BY <1>1, TodoIs, PCs DEF Inv, InCall
  <2> QED
    BY <1>1, <2>1, Counters, Sizes
<1>8. SleepersBlocked'
  <2>1. \A p \in Process : pc'[p] # "asleep"
    BY <1>1, <1>3, <1>7 DEF Inv, SleepersBlocked, Process
  <2> QED
    BY <2>1 DEF SleepersBlocked
<1> QED
  BY <1>2, <1>4, <1>5, <1>6, <1>8 DEF Step, Inv

LEMMA pipewriteFullStep ==
  ASSUME PipeAssumption, Inv, NEW w \in Writer, pipewriteFull(w)
  PROVE  Step
<1> DEFINE k == Fits(w)
           rest == SubSeq(todo[w], k + 1, Len(todo[w]))
<1>1. /\ TypeOK /\ pc[w] = "run" /\ Fits(w) < Len(todo[w]) /\ Put(w, Fits(w))
      /\ UNCHANGED <<nread, readopen, writeopen, killed, count, out>>
  BY DEF Inv, pipewriteFull
<1>2. \/ /\ GiveUp(w)
         /\ todo' = [todo EXCEPT ![w] = <<>>] /\ pc' = [pc EXCEPT ![w] = "user"]
      \/ /\ ~ GiveUp(w)
         /\ todo' = [todo EXCEPT ![w] = rest]
         /\ pc' = [WakeIn(Reader) EXCEPT ![w] = "asleep"]
  BY DEF pipewriteFull
<1>3. /\ data' \in [0 .. PIPESIZE - 1 -> Byte] /\ nwrite' \in Counter
      /\ Used' = Used + k /\ Used' <= PIPESIZE
      /\ [Stream!Next]_(Stream!vars)
  BY <1>1, PutStep
<1>4. /\ k = Room /\ Room = PIPESIZE - Used /\ Used \in 0 .. PIPESIZE /\ PIPESIZE \in Nat \ {0}
      /\ k \in Nat /\ Len(todo[w]) \in Nat /\ k < Len(todo[w]) /\ Len(todo[w]) <= MaxCount
      /\ MaxCount \in Nat /\ todo[w] \in Seq(Byte)
  <2>1. /\ Len(todo[w]) \in Nat /\ Len(todo[w]) \in 0 .. MaxCount /\ todo[w] \in Seq(Byte)
        /\ k = IF Len(todo[w]) <= Room THEN Len(todo[w]) ELSE Room
    BY <1>1, TodoIs
  <2>2. Room = PIPESIZE - Used /\ Used \in 0 .. PIPESIZE /\ Room \in 0 .. PIPESIZE
    BY <1>1, Counters
  <2> HIDE DEF k, rest
  <2>3. k < Len(todo[w])
    BY <1>1 DEF k
  <2> QED
    BY <2>1, <2>2, <2>3, Sizes
<1>5. rest \in Writes /\ rest # <<>>
  <2> DEFINE t == todo[w]
             n == Len(t)
  <2>1. \A i \in k + 1 .. n : t[i] \in Byte
    <3>1. \A i \in k + 1 .. n : i \in 1 .. n
      BY <1>4
    <3> QED
      BY <1>4, <3>1, ElementOfSeq
  <2>2. k + 1 \in Int /\ n \in Int
    BY <1>4
  <2>3. rest \in Seq(Byte) /\ Len(rest) = IF k + 1 <= n THEN n - (k + 1) + 1 ELSE 0
    <3> HIDE DEF t, n, k
    <3> QED
      BY <2>1, <2>2, SubSeqProperties DEF t, n
  <2>4. Len(rest) \in 1 .. MaxCount
    <3> HIDE DEF rest, k
    <3> QED
      BY <1>4, <2>3
  <2> HIDE DEF rest
  <2> QED
    BY <2>3, <2>4, WritesAre, EmptySeq
<1> HIDE DEF rest, k
<1>6. /\ pc' \in [Process -> {"user", "run", "asleep", "closed"}]
      /\ pc'[w] = IF GiveUp(w) THEN "user" ELSE "asleep"
      /\ \A v \in Writer : v # w => pc'[v] = pc[v]
      /\ \A r \in Reader :
           pc'[r] = IF ~ GiveUp(w) /\ pc[r] = "asleep" THEN "run" ELSE pc[r]
  BY <1>1, <1>2, PCs DEF WakeIn, TypeOK
<1>7. TypeOK'
  <2>1. todo' \in [Writer -> Writes \cup {<<>>}]
    BY <1>1, <1>2, <1>5 DEF TypeOK
  <2>2. (nwrite' - nread') % Modulus <= PIPESIZE
    BY <1>3 DEF Used
  <2> QED
    BY <1>1, <1>3, <1>6, <2>1, <2>2 DEF TypeOK
<1>8. InCall'
  <2>1. /\ todo'[w] = <<>> => GiveUp(w)
        /\ \A v \in Writer : v # w => todo'[v] = todo[v]
    BY <1>1, <1>2, <1>5 DEF TypeOK
  <2> QED
    BY <1>1, <1>6, <2>1, PCs DEF Inv, InCall
<1>9. EndsHeld'
  <2>1. \A p \in Process : pc'[p] = "closed" <=> pc[p] = "closed"
    BY <1>1, <1>6, PCs DEF Process
  <2> QED
    BY <1>1, <2>1, PCs DEF Inv, EndsHeld
<1>10. Full'
  <2>1. CounterFacts'
    BY <1>7, CountersAre, PTL
  <2> QED
    BY <1>3, <1>4, <2>1 DEF CounterFacts
<1>11. SleepersBlocked'
  <2> SUFFICES ASSUME NEW p \in Process, pc'[p] = "asleep"
               PROVE  /\ p \notin killed'
                      /\ p \in Writer => Full' /\ readopen'
                      /\ p \in Reader => EmptyAndOpen' \/ Writer \cap killed' # {}
    BY DEF SleepersBlocked
  <2>1. CASE p = w
    BY <1>1, <1>6, <1>10, <2>1, PCs DEF GiveUp
  <2>2. CASE p # w /\ p \in Writer
    BY <1>1, <1>6, <1>10, <2>2, PCs DEF Inv, SleepersBlocked
  <2>3. CASE p \in Reader
    <3>1. GiveUp(w) /\ pc[p] = "asleep"
      BY <1>6, <2>3
    <3>2. readopen
      BY <2>3, <3>1 DEF Inv, EndsHeld
    <3>3. w \in killed
      BY <3>1, <3>2 DEF GiveUp
    <3> QED
      BY <1>1, <2>3, <3>1, <3>3, PCs DEF Inv, SleepersBlocked
  <2> QED
    BY <2>1, <2>2, <2>3 DEF Process
<1> QED
  BY <1>3, <1>7, <1>8, <1>9, <1>11 DEF Step, Inv

LEMMA ReadStep ==
  ASSUME PipeAssumption, Inv, NEW r \in Reader, NEW n \in 1 .. MaxCount, Read(r, n)
  PROVE  Step
<1>1. TypeOK /\ UNCHANGED <<data, nread, nwrite, readopen, writeopen, killed, todo, out>>
  BY DEF Inv, Read, pipe
<1>2. /\ pc[r] = "user" /\ pc' = [pc EXCEPT ![r] = "run"]
      /\ count' = [count EXCEPT ![r] = n]
      /\ n \in 0 .. MaxCount /\ n # 0
  BY DEF Read
<1>3. TypeOK'
  BY <1>1, <1>2, PCs DEF TypeOK, Counter
<1>4. InCall'
  BY <1>1, <1>2, PCs DEF Inv, InCall, TypeOK
<1>5. EndsHeld'
  BY <1>1, <1>2, PCs DEF Inv, EndsHeld
<1>6. SleepersBlocked'
  BY <1>1, <1>2, PCs, Quiet DEF Inv, SleepersBlocked, EmptyAndOpen
<1>7. UNCHANGED Stream!vars
  BY <1>1, Quiet DEF Stream!vars
<1> QED
  BY <1>3, <1>4, <1>5, <1>6, <1>7 DEF Step, Inv

LEMMA pipereadWaitStep ==
  ASSUME PipeAssumption, Inv, NEW r \in Reader, pipereadWait(r)
  PROVE  Step
<1>1. /\ TypeOK /\ pc[r] = "run" /\ EmptyAndOpen
      /\ UNCHANGED <<data, nread, nwrite, readopen, writeopen, killed, todo, out>>
      /\ \/ /\ r \in killed /\ pc' = [pc EXCEPT ![r] = "user"]
            /\ count' = [count EXCEPT ![r] = 0]
         \/ /\ r \notin killed /\ pc' = [pc EXCEPT ![r] = "asleep"] /\ count' = count
  BY DEF Inv, pipereadWait, pipe
<1>2. MaxCount \in Nat
  BY Sizes
<1>3. TypeOK'
  BY <1>1, <1>2, PCs DEF TypeOK, Counter
<1>4. InCall'
  BY <1>1, PCs DEF Inv, InCall, TypeOK
<1>5. EndsHeld'
  BY <1>1, PCs DEF Inv, EndsHeld
<1>6. SleepersBlocked'
  BY <1>1, PCs, Quiet DEF Inv, SleepersBlocked, EmptyAndOpen
<1>7. UNCHANGED Stream!vars
  BY <1>1, Quiet DEF Stream!vars
<1> QED
  BY <1>3, <1>4, <1>5, <1>6, <1>7 DEF Step, Inv

LEMMA pipereadCopyStep ==
  ASSUME PipeAssumption, Inv, NEW r \in Reader, pipereadCopy(r)
  PROVE  Step
<1> DEFINE k == Min({count[r], Used})
           got == [i \in 1 .. k |-> data[(nread + i - 1) % PIPESIZE]]
<1>1. /\ TypeOK /\ pc[r] = "run" /\ ~ EmptyAndOpen
      /\ out' = got /\ nread' = (nread + k) % Modulus
      /\ pc' = [WakeIn(Writer) EXCEPT ![r] = "user"]
      /\ count' = [count EXCEPT ![r] = 0]
      /\ UNCHANGED <<data, nwrite, readopen, writeopen, killed, todo>>
  BY DEF Inv, pipereadCopy, WakesWriters
<1>2. /\ count[r] \in 1 .. MaxCount /\ MaxCount \in Nat
      /\ Used \in 0 .. PIPESIZE /\ PIPESIZE \in Nat
      /\ nread = nwrite <=> Used = 0
  <2>1. count[r] \in 0 .. MaxCount /\ count[r] # 0
    BY <1>1 DEF Inv, InCall, TypeOK
  <2> QED
    BY <1>1, <2>1, Counters, Sizes
<1>3. /\ k = IF count[r] <= Used THEN count[r] ELSE Used
      /\ k \in 0 .. Used /\ k \in 0 .. MaxCount
      /\ k = 0 <=> Used = 0
  BY <1>2, MinOfTwo
<1> HIDE DEF k
<1>4. /\ nread' \in Counter /\ Used' = Used - k
      /\ Inside' = SubSeq(Inside, k + 1, Len(Inside))
      /\ got = SubSeq(Inside, 1, k)
      /\ k = 0 => Inside' = Inside
  BY <1>1, <1>3, CopyTakes
<1>5. Inside \in Seq(Byte) /\ Len(Inside) = Used
  BY <1>1, InsideIs
<1>6. out' \in Writes \cup {<<>>}
  <2>1. \A i \in 1 .. k : Inside[i] \in Byte
    <3>1. \A i \in 1 .. k : i \in 1 .. Used
      BY <1>2, <1>3
    <3> QED
      BY <1>5, <3>1, ElementOfSeq
  <2>2. got \in Seq(Byte) /\ Len(got) = IF 1 <= k THEN k - 1 + 1 ELSE 0
    <3> DEFINE first == SubSeq(Inside, 1, k)
    <3>1. 1 \in Int /\ k \in Int
      BY <1>3
    <3>2. first \in Seq(Byte) /\ Len(first) = IF 1 <= k THEN k - 1 + 1 ELSE 0
      BY <2>1, <3>1, SubSeqProperties
    <3> HIDE DEF first, got
    <3> QED
      BY <1>4, <3>2 DEF first
  <2>3. Len(got) = k
    BY <1>2, <1>3, <2>2
  <2> HIDE DEF got
  <2>4. CASE k = 0
    BY <1>1, <2>2, <2>3, <2>4, EmptySeq
  <2>5. CASE k # 0
    BY <1>1, <1>3, <2>2, <2>3, <2>5, WritesAre
  <2> QED
    BY <2>4, <2>5
<1>7. /\ pc' \in [Process -> {"user", "run", "asleep", "closed"}]
      /\ pc'[r] = "user"
      /\ \A q \in Reader : q # r => pc'[q] = pc[q]
      /\ \A w \in Writer : pc'[w] = IF pc[w] = "asleep" THEN "run" ELSE pc[w]
  BY <1>1, PCs DEF WakeIn
<1> HIDE DEF got
<1>8. TypeOK'
  <2>1. (nwrite' - nread') % Modulus <= PIPESIZE
    BY <1>2, <1>3, <1>4 DEF Used
  <2>2. count' \in [Reader -> 0 .. MaxCount]
    BY <1>1, <1>2 DEF TypeOK
  <2> QED
    BY <1>1, <1>4, <1>6, <1>7, <2>1, <2>2 DEF TypeOK
<1>9. InCall'
  BY <1>1, <1>7, PCs DEF Inv, InCall, TypeOK
<1>10. EndsHeld'
  BY <1>1, <1>7, PCs DEF Inv, EndsHeld
<1>11. SleepersBlocked'
  BY <1>1, <1>7, PCs DEF Inv, SleepersBlocked, Process
<1>12. [Stream!Next]_(Stream!vars)
  <2>1. CASE k = 0
    <3>1. Inside = <<>> /\ Inside' = Inside /\ ~ writeopen
      BY <1>1, <1>2, <1>3, <1>4, <1>5, <2>1, EmptySeq DEF EmptyAndOpen
    <3>2. out' = <<>>
      BY <1>1, <1>4, <2>1, <3>1, SubSeqEmpty
    <3>3. Stream!EndOfStream
      BY <1>1, <3>1, <3>2 DEF Stream!EndOfStream
    <3>4. Stream!Next
      BY <3>3 DEF Stream!Next
    <3> QED
      BY <3>4
  <2>2. CASE k # 0
    <3>1. k \in 1 .. Len(Inside)
      BY <1>2, <1>3, <1>5, <2>2
    <3>2. Stream!Get
      BY <1>1, <1>4, <3>1 DEF Stream!Get
    <3>3. Stream!Next
      BY <3>2 DEF Stream!Next
    <3> QED
      BY <3>3
  <2> QED
    BY <2>1, <2>2
<1> QED
  BY <1>8, <1>9, <1>10, <1>11, <1>12 DEF Step, Inv

-----------------------------------------------------------------------------
LEMMA CloseReadStep ==
  ASSUME PipeAssumption, Inv, NEW r \in Reader, CloseRead(r)
  PROVE  Step
<1>1. /\ TypeOK /\ pc[r] = "user"
      /\ UNCHANGED <<data, nread, nwrite, writeopen, killed, todo, count, out>>
      /\ \/ /\ LastOf(Reader, r) /\ readopen' = FALSE
            /\ pc' = [WakeIn(Writer) EXCEPT ![r] = "closed"]
         \/ /\ ~ LastOf(Reader, r) /\ readopen' = readopen
            /\ pc' = [pc EXCEPT ![r] = "closed"]
  BY DEF Inv, CloseRead
<1>2. /\ pc' \in [Process -> {"user", "run", "asleep", "closed"}]
      /\ pc'[r] = "closed"
      /\ \A q \in Reader : q # r => pc'[q] = pc[q]
      /\ \A w \in Writer :
           pc'[w] = IF LastOf(Reader, r) /\ pc[w] = "asleep" THEN "run" ELSE pc[w]
  BY <1>1, PCs DEF WakeIn, TypeOK
<1>3. TypeOK'
  <2>1. readopen' \in BOOLEAN
    BY <1>1 DEF TypeOK
  <2> QED
    BY <1>1, <1>2, <2>1 DEF TypeOK, Counter
<1>4. InCall'
  BY <1>1, <1>2, PCs DEF Inv, InCall
<1>5. EndsHeld'
  <2>1. \A w \in Writer : pc'[w] = "closed" <=> pc[w] = "closed"
    BY <1>2
  <2>2. readopen' <=> \E q \in Reader : pc'[q] # "closed"
    BY <1>1, <1>2 DEF Inv, EndsHeld, LastOf
  <2> QED
    BY <1>1, <2>1, <2>2 DEF Inv, EndsHeld
<1>6. SleepersBlocked'
  <2> SUFFICES ASSUME NEW p \in Process, pc'[p] = "asleep"
               PROVE  /\ p \notin killed'
                      /\ p \in Writer => Full' /\ readopen'
                      /\ p \in Reader => EmptyAndOpen' \/ Writer \cap killed' # {}
    BY DEF SleepersBlocked
  <2>1. pc[p] = "asleep" /\ (p \in Writer => readopen' = readopen)
    BY <1>1, <1>2 DEF Process
  <2> QED
    BY <1>1, <2>1, Quiet DEF Inv, SleepersBlocked, EmptyAndOpen
<1>7. UNCHANGED Stream!vars
  BY <1>1, Quiet DEF Stream!vars
<1> QED
  BY <1>3, <1>4, <1>5, <1>6, <1>7 DEF Step, Inv

LEMMA CloseWriteStep ==
  ASSUME PipeAssumption, Inv, NEW w \in Writer, CloseWrite(w)
  PROVE  Step
<1>1. /\ TypeOK /\ pc[w] = "user"
      /\ UNCHANGED <<data, nread, nwrite, readopen, killed, todo, count, out>>
      /\ \/ /\ LastOf(Writer, w) /\ writeopen' = FALSE
            /\ pc' = [WakeIn(Reader) EXCEPT ![w] = "closed"]
         \/ /\ ~ LastOf(Writer, w) /\ writeopen' = writeopen
            /\ pc' = [pc EXCEPT ![w] = "closed"]
  BY DEF Inv, CloseWrite, WakesOther
<1>2. /\ pc' \in [Process -> {"user", "run", "asleep", "closed"}]
      /\ pc'[w] = "closed"
      /\ \A v \in Writer : v # w => pc'[v] = pc[v]
      /\ \A r \in Reader :
           pc'[r] = IF LastOf(Writer, w) /\ pc[r] = "asleep" THEN "run" ELSE pc[r]
  BY <1>1, PCs DEF WakeIn, TypeOK
<1>3. TypeOK'
  <2>1. writeopen' \in BOOLEAN
    BY <1>1 DEF TypeOK
  <2> QED
    BY <1>1, <1>2, <2>1 DEF TypeOK, Counter
<1>4. InCall'
  BY <1>1, <1>2, PCs DEF Inv, InCall
<1>5. EndsHeld'
  <2>1. \A r \in Reader : pc'[r] = "closed" <=> pc[r] = "closed"
    BY <1>2
  <2>2. writeopen' <=> \E v \in Writer : pc'[v] # "closed"
    BY <1>1, <1>2 DEF Inv, EndsHeld, LastOf
  <2> QED
    BY <1>1, <2>1, <2>2 DEF Inv, EndsHeld
<1>6. SleepersBlocked'
  <2> SUFFICES ASSUME NEW p \in Process, pc'[p] = "asleep"
               PROVE  /\ p \notin killed'
                      /\ p \in Writer => Full' /\ readopen'
                      /\ p \in Reader => EmptyAndOpen' \/ Writer \cap killed' # {}
    BY DEF SleepersBlocked
  <2>1. pc[p] = "asleep" /\ (p \in Reader => writeopen' = writeopen)
    BY <1>1, <1>2 DEF Process
  <2> QED
    BY <1>1, <2>1, Quiet DEF Inv, SleepersBlocked, EmptyAndOpen
<1>7. [Stream!Next]_(Stream!vars)
  <2>1. Inside' = Inside
    BY <1>1, Quiet
  <2>2. CASE writeopen' = FALSE
    <3>1. Stream!Next
      BY <1>1, <2>1, <2>2 DEF Stream!Next, Stream!Close
    <3> QED
      BY <3>1
  <2>3. CASE writeopen' = writeopen
    <3>1. UNCHANGED Stream!vars
      BY <1>1, <2>1, <2>3 DEF Stream!vars
    <3> QED
      BY <3>1
  <2> QED
    BY <1>1, <2>2, <2>3
<1> QED
  BY <1>3, <1>4, <1>5, <1>6, <1>7 DEF Step, Inv

LEMMA KillStep ==
  ASSUME PipeAssumption, Inv, NEW p \in Process, Kill(p)
  PROVE  Step
<1>1. /\ TypeOK /\ pc[p] # "closed" /\ killed' = killed \cup {p}
      /\ UNCHANGED <<data, nread, nwrite, readopen, writeopen, todo, count, out>>
      /\ pc' = [pc EXCEPT ![p] = IF pc[p] = "asleep" THEN "run" ELSE pc[p]]
  BY DEF Inv, Kill, pipe
<1>2. /\ pc' \in [Process -> {"user", "run", "asleep", "closed"}]
      /\ pc'[p] # "asleep"
      /\ \A q \in Process : \/ pc'[q] = pc[q]
                            \/ pc[q] = "asleep" /\ pc'[q] = "run"
  BY <1>1, PCs DEF TypeOK
<1>3. TypeOK'
  BY <1>1, <1>2 DEF TypeOK, Counter
<1>4. InCall'
  BY <1>1, <1>2, PCs DEF Inv, InCall
<1>5. EndsHeld'
  <2>1. \A q \in Process : pc'[q] = "closed" <=> pc[q] = "closed"
    BY <1>2
  <2> QED
    BY <1>1, <2>1, PCs DEF Inv, EndsHeld
<1>6. SleepersBlocked'
  BY <1>1, <1>2, Quiet DEF Inv, SleepersBlocked, EmptyAndOpen
<1>7. UNCHANGED Stream!vars
  BY <1>1, Quiet DEF Stream!vars
<1> QED
  BY <1>3, <1>4, <1>5, <1>6, <1>7 DEF Step, Inv

LEMMA Stutter == ASSUME Inv, UNCHANGED vars PROVE Step
<1>1. UNCHANGED <<data, nread, nwrite, readopen, writeopen, pc, killed, todo, count, out>>
  BY DEF vars, pipe
<1>2. Inv'
  BY <1>1 DEF Inv, TypeOK, InCall, EndsHeld, SleepersBlocked, EmptyAndOpen, Full
<1>3. UNCHANGED Stream!vars
  BY <1>1, Quiet DEF Stream!vars
<1> QED
  BY <1>2, <1>3 DEF Step

LEMMA Keeps == ASSUME PipeAssumption
               PROVE  Inv /\ [Next]_vars => Inv' /\ [Stream!Next]_(Stream!vars)
<1> SUFFICES ASSUME Inv, [Next]_vars PROVE Step
  BY DEF Step
<1>1. ASSUME NEW w \in Writer, NEW s \in Writes, Write(w, s) PROVE Step
  BY <1>1, WriteStep
<1>2. ASSUME NEW w \in Writer, Puts(w) PROVE Step
  BY <1>2, pipewriteDoneStep, pipewriteFullStep DEF Puts
<1>3. ASSUME NEW w \in Writer, CloseWrite(w) PROVE Step
  BY <1>3, CloseWriteStep
<1>4. ASSUME NEW r \in Reader, NEW n \in 1 .. MaxCount, Read(r, n) PROVE Step
  BY <1>4, ReadStep
<1>5. ASSUME NEW r \in Reader, Reads(r) PROVE Step
  BY <1>5, pipereadWaitStep, pipereadCopyStep DEF Reads
<1>6. ASSUME NEW r \in Reader, CloseRead(r) PROVE Step
  BY <1>6, CloseReadStep
<1>7. ASSUME NEW p \in Process, Kill(p) PROVE Step
  BY <1>7, KillStep
<1>8. ASSUME Done \/ UNCHANGED vars PROVE Step
  BY <1>8, Stutter DEF Done
<1> QED
  BY <1>1, <1>2, <1>3, <1>4, <1>5, <1>6, <1>7, <1>8 DEF Next

\* the pipe implements a byte stream: for any readers and writers that close, are killed
\* or sleep in any order, any size of the ring, and counters that wrap around
THEOREM ImplementsStream == ASSUME PipeAssumption PROVE Safety => StreamSpec
<1>1. Init => Inv /\ Stream!Init
  BY Initially
<1>2. Inv /\ [Next]_vars => Inv' /\ [Stream!Next]_(Stream!vars)
  BY Keeps
<1> QED
  BY <1>1, <1>2, PTL DEF Safety, StreamSpec, Stream!Spec

\* and no wakeup is lost, but for the readers of a writer that was killed
THEOREM SleepersAreBlocked == ASSUME PipeAssumption PROVE Safety => []SleepersBlocked
<1>1. Init => Inv
  BY Initially
<1>2. Inv /\ [Next]_vars => Inv'
  BY Keeps
<1>3. Inv => SleepersBlocked
  BY DEF Inv
<1> QED
  BY <1>1, <1>2, <1>3, PTL DEF Safety
=============================================================================
