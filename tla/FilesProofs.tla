----------------------------- MODULE FilesProofs ----------------------------
(***************************************************************************)
(* The two rings of the kernel, for every length of them: the circular     *)
(* queue of queue.h implements a bounded FIFO, and the input of the        *)
(* console, with counters that wrap around, implements a line that is      *)
(* edited and a sequence of lines that are read; with the latter, the      *)
(* display of the console, which shows the end of a text.  Then the        *)
(* directories, links and references of FileSystem, for any number of      *)
(* processes, inodes and names.                                            *)
(***************************************************************************)
EXTENDS MCSharing, RingQueue, FiniteSetTheorems, FunctionTheorems, SequenceTheorems,
  WellFoundedInduction, TLAPS

-----------------------------------------------------------------------------
(* For every length of the array and every set of processes, the circular    *)
(* queue implements the FIFO.  The argument is about the index arithmetic:    *)
(* Wrap gives the i-th slot from front without the modulo, so that the        *)
(* contents after a step can be compared with the contents before it, element *)
(* by element.                                                                *)

\* wrap-around by subtraction, for the sums of two indices that occur here
Wrap(a) == IF a < NPROC THEN a ELSE a - NPROC

-----------------------------------------------------------------------------
LEMMA ModLow ==
  ASSUME NEW n \in Nat \ {0}, NEW a \in Nat, a < n
  PROVE  a % n = a
  BY Z3

LEMMA ModHigh ==
  ASSUME NEW n \in Nat \ {0}, NEW a \in Nat, n <= a, a < 2 * n
  PROVE  a % n = a - n
  BY Z3

\* the modulo of queue.h, on what it is applied to
LEMMA ModWrap ==
  ASSUME NEW a \in Nat, a < 2 * NPROC
  PROVE  a % NPROC = Wrap(a) /\ Wrap(a) \in Index
<1>1. NPROC \in Nat \ {0}
  BY NPROCAssumption
<1>2. CASE a < NPROC
  <2>1. a % NPROC = a
    BY <1>1, <1>2, ModLow
  <2> QED
    BY <1>1, <1>2, <2>1 DEF Wrap, Index
<1>3. CASE NPROC <= a
  <2>1. a % NPROC = a - NPROC
    BY <1>1, <1>3, ModHigh
  <2> QED
    BY <1>1, <1>3, <2>1 DEF Wrap, Index
<1> QED
  BY <1>1, <1>2, <1>3

\* the fields of struct queue in terms of Wrap
LEMMA Arithmetic ==
  ASSUME TypeOK
  PROVE  /\ SizeOf = IF front <= rear THEN rear - front ELSE rear - front + NPROC
         /\ SizeOf \in 0 .. NPROC - 1
         /\ IsFull <=> SizeOf = NPROC - 1
         /\ IsEmpty <=> SizeOf = 0
         /\ front % NPROC = front /\ rear % NPROC = rear
         /\ Succ(front) = Wrap(front + 1) /\ Succ(rear) = Wrap(rear + 1)
<1> front \in Nat /\ rear \in Nat /\ front < NPROC /\ rear < NPROC /\ NPROC \in Nat
  BY NPROCAssumption DEF TypeOK, Index
<1>1. front % NPROC = front /\ rear % NPROC = rear
  BY ModWrap DEF Wrap
<1>2. Succ(front) = Wrap(front + 1) /\ Succ(rear) = Wrap(rear + 1)
  BY ModWrap DEF Succ
<1>3. SizeOf = Wrap(rear - front + NPROC)
  <2>1. rear - front + NPROC \in Nat /\ rear - front + NPROC < 2 * NPROC
    OBVIOUS
  <2> QED
    BY <2>1, ModWrap DEF SizeOf
<1>4. SizeOf = IF front <= rear THEN rear - front ELSE rear - front + NPROC
  BY <1>3 DEF Wrap
<1>5. IsFull <=> SizeOf = NPROC - 1
  BY <1>2, <1>4, NPROCAssumption DEF IsFull, Wrap
<1> QED
  BY <1>1, <1>2, <1>4, <1>5 DEF IsEmpty

\* the contents, without the modulo
ContentsFacts ==
  /\ SizeOf = IF front <= rear THEN rear - front ELSE rear - front + NPROC
  /\ Contents = [i \in 1 .. SizeOf |-> proc[Wrap(front + i - 1)]]
  /\ Contents \in Seq(Item \cup {NoItem})
  /\ Len(Contents) = SizeOf

LEMMA ContentsAt == TypeOK => ContentsFacts
<1> SUFFICES ASSUME TypeOK PROVE ContentsFacts
  OBVIOUS
<1> front \in Nat /\ front < NPROC /\ NPROC \in Nat
  BY NPROCAssumption DEF TypeOK, Index
<1>1. SizeOf \in 0 .. NPROC - 1
  BY Arithmetic
<1>2. ASSUME NEW i \in 1 .. SizeOf
      PROVE  (front + i - 1) % NPROC = Wrap(front + i - 1) /\ Wrap(front + i - 1) \in Index
  <2>1. front + i - 1 \in Nat /\ front + i - 1 < 2 * NPROC
    BY <1>1
  <2> QED
    BY <2>1, ModWrap
<1>3. Contents = [i \in 1 .. SizeOf |-> proc[Wrap(front + i - 1)]]
  BY <1>2 DEF Contents
<1>4. \A i \in 1 .. SizeOf : proc[Wrap(front + i - 1)] \in Item \cup {NoItem}
  BY <1>2 DEF TypeOK
<1>5. SizeOf = IF front <= rear THEN rear - front ELSE rear - front + NPROC
  BY Arithmetic
<1> QED
  BY <1>1, <1>3, <1>4, <1>5 DEF ContentsFacts

-----------------------------------------------------------------------------
\* front and rear stay inside the array, whatever the sequence of calls
THEOREM TypeCorrect == Spec => []TypeOK
<1>1. Init => TypeOK
  BY NPROCAssumption DEF Init, TypeOK, Index
<1>2. TypeOK /\ [Next]_vars => TypeOK'
  <2> SUFFICES ASSUME TypeOK, [Next]_vars PROVE TypeOK'
    OBVIOUS
  <2>1. Succ(front) \in Index /\ Succ(rear) \in Index
    BY ModWrap, NPROCAssumption DEF Succ, TypeOK, Index
  <2>2. rear % NPROC \in Index
    BY Arithmetic DEF TypeOK
  <2>3. CASE initqueue
    BY <2>3, NPROCAssumption DEF initqueue, TypeOK, Index
  <2>4. CASE \E p \in Item : insertqueue(p)
    BY <2>1, <2>2, <2>4 DEF insertqueue, TypeOK
  <2>5. CASE deletequeue
    BY <2>1, <2>5 DEF deletequeue, TypeOK
  <2>6. CASE sizeofqueue
    BY <2>6 DEF sizeofqueue, TypeOK
  <2>7. CASE UNCHANGED vars
    BY <2>7 DEF vars, TypeOK
  <2> QED
    BY <2>3, <2>4, <2>5, <2>6, <2>7 DEF Next
<1> QED
  BY <1>1, <1>2, PTL DEF Spec
-----------------------------------------------------------------------------
\* each function of queue.h does to the contents what its name says
LEMMA FifoStep ==
  ASSUME TypeOK, ContentsFacts, ContentsFacts', Next
  PROVE  Fifo!Next
<1> USE NPROCAssumption DEF TypeOK, Index
<1> front \in Nat /\ rear \in Nat /\ front < NPROC /\ rear < NPROC /\ NPROC \in Nat
  OBVIOUS
<1>1. ASSUME initqueue PROVE Fifo!Clear
  <2>1. SizeOf' = 0
    BY <1>1 DEF initqueue, ContentsFacts
  <2>2. Contents' = <<>>
    BY <2>1 DEF ContentsFacts
  <2> QED
    BY <1>1, <2>2 DEF initqueue, Fifo!Clear
<1>2. ASSUME NEW p \in Item, insertqueue(p) PROVE Fifo!Put(p)
  <2>1. CASE IsFull
    <3>1. Len(Contents) = NPROC - 1
      BY <2>1, Arithmetic DEF ContentsFacts
    <3>2. UNCHANGED <<proc, front, rear>>
      BY <1>2, <2>1 DEF insertqueue
    <3>3. Contents' = Contents
      BY <3>2 DEF Contents, SizeOf
    <3> QED
      BY <1>2, <3>1, <3>3 DEF insertqueue, Fifo!Put
  <2>2. CASE ~ IsFull
    <3>1. Len(Contents) < NPROC - 1 /\ SizeOf < NPROC - 1 /\ SizeOf \in Nat
      BY <2>2, Arithmetic DEF ContentsFacts
    <3>2. proc' = [proc EXCEPT ![rear] = p] /\ rear' = Wrap(rear + 1) /\ front' = front
      BY <1>2, <2>2, Arithmetic DEF insertqueue
    <3>3. SizeOf' = SizeOf + 1
      BY <3>1, <3>2 DEF ContentsFacts, Wrap
    <3>4. ASSUME NEW i \in 1 .. SizeOf
          PROVE  proc'[Wrap(front + i - 1)] = proc[Wrap(front + i - 1)]
      <4>1. Wrap(front + i - 1) # rear /\ Wrap(front + i - 1) \in Index
        BY <3>1 DEF ContentsFacts, Wrap
      <4> QED
        BY <3>2, <4>1
    <3>5. proc'[Wrap(front + SizeOf)] = p
      <4>1. Wrap(front + SizeOf) = rear
        BY <3>1 DEF ContentsFacts, Wrap
      <4> QED
        BY <3>2, <4>1
    <3>6. Contents' = [i \in 1 .. SizeOf + 1 |-> proc'[Wrap(front + i - 1)]]
      BY <3>2, <3>3 DEF ContentsFacts, Wrap
    <3>7. Contents' = Append(Contents, p)
      <4>1. Contents' \in Seq(Item \cup {NoItem}) /\ Len(Contents') = SizeOf + 1
        BY <3>3 DEF ContentsFacts
      <4>2. Append(Contents, p) \in Seq(Item \cup {NoItem}) /\ Len(Append(Contents, p)) = SizeOf + 1
        BY <3>1 DEF ContentsFacts
      <4>3. ASSUME NEW i \in 1 .. SizeOf + 1 PROVE Contents'[i] = Append(Contents, p)[i]
        <5>1. CASE i = SizeOf + 1
          BY <3>1, <3>5, <3>6, <5>1 DEF ContentsFacts
        <5>2. CASE i # SizeOf + 1
          <6>1. i \in 1 .. SizeOf
            BY <3>1, <5>2
          <6>2. Append(Contents, p)[i] = proc[Wrap(front + i - 1)]
            BY <6>1 DEF ContentsFacts
          <6> QED
            BY <3>4, <3>6, <6>1, <6>2
        <5> QED
          BY <5>1, <5>2
      <4> QED
        BY <4>1, <4>2, <4>3
    <3> QED
      BY <1>2, <3>1, <3>7 DEF insertqueue, Fifo!Put
  <2> QED
    BY <2>1, <2>2
<1>3. ASSUME deletequeue PROVE Fifo!Get
  <2>1. CASE IsEmpty
    <3>1. Contents = <<>>
      BY <2>1, Arithmetic DEF ContentsFacts
    <3>2. UNCHANGED <<proc, front, rear>> /\ out' = NoItem /\ call' = "delete"
      BY <1>3, <2>1 DEF deletequeue
    <3>3. Contents' = Contents
      BY <3>2 DEF Contents, SizeOf
    <3> QED
      BY <3>1, <3>2, <3>3 DEF Fifo!Get
  <2>2. CASE ~ IsEmpty
    <3>0. SizeOf \in Nat \ {0}
      BY <2>2, Arithmetic
    <3>1. SizeOf \in Nat \ {0} /\ Contents # <<>>
      BY <3>0 DEF ContentsFacts
    <3>2. /\ proc' = proc /\ rear' = rear /\ front' = Wrap(front + 1)
          /\ out' = proc[front] /\ call' = "delete"
      BY <1>3, <2>2, Arithmetic DEF deletequeue
    <3>3. SizeOf' = SizeOf - 1
      BY <3>1, <3>2 DEF ContentsFacts, Wrap
    <3>4. Head(Contents) = proc[front]
      BY <3>1 DEF ContentsFacts, Wrap
    <3>5. Contents' = Tail(Contents)
      <4>1. Contents' \in Seq(Item \cup {NoItem}) /\ Len(Contents') = SizeOf - 1
        BY <3>3 DEF ContentsFacts
      <4>2. Tail(Contents) \in Seq(Item \cup {NoItem}) /\ Len(Tail(Contents)) = SizeOf - 1
        BY <3>1, HeadTailProperties DEF ContentsFacts
      <4>3. ASSUME NEW i \in 1 .. SizeOf - 1 PROVE Contents'[i] = Tail(Contents)[i]
        <5>1. Contents'[i] = proc[Wrap(Wrap(front + 1) + i - 1)]
          BY <3>2, <3>3 DEF ContentsFacts, Wrap
        <5>2. Tail(Contents)[i] = proc[Wrap(front + i)]
          BY <3>1 DEF ContentsFacts
        <5>3. Wrap(Wrap(front + 1) + i - 1) = Wrap(front + i)
          BY <3>1 DEF ContentsFacts, Wrap
        <5> QED
          BY <5>1, <5>2, <5>3
      <4> QED
        BY <4>1, <4>2, <4>3
    <3> QED
      BY <3>1, <3>2, <3>4, <3>5 DEF Fifo!Get
  <2> QED
    BY <2>1, <2>2
<1>4. ASSUME sizeofqueue PROVE Fifo!Size
  <2>1. Contents' = Contents
    BY <1>4 DEF sizeofqueue, Contents, SizeOf
  <2> QED
    BY <1>4, <2>1 DEF sizeofqueue, ContentsFacts, Fifo!Size
<1> QED
  BY <1>1, <1>2, <1>3, <1>4 DEF Next, Fifo!Next

\* the circular queue implements the FIFO: its initial state is the empty FIFO,
\* and every call on it is a call on the FIFO
THEOREM ImplementsFifo == Spec => FifoSpec
<1>1. Init => Fifo!Init
  <2> SUFFICES ASSUME Init PROVE Fifo!Init
    OBVIOUS
  <2>1. TypeOK
    BY NPROCAssumption DEF Init, TypeOK, Index
  <2>2. SizeOf = 0 /\ ContentsFacts
    BY <2>1, ContentsAt, NPROCAssumption DEF Init, ContentsFacts
  <2>3. Contents = <<>>
    BY <2>2 DEF ContentsFacts
  <2> QED
    BY <2>3 DEF Init, Fifo!Init
<1>2. TypeOK /\ TypeOK' /\ [Next]_vars => [Fifo!Next]_<<Contents, call, out>>
  <2> SUFFICES ASSUME TypeOK, TypeOK', [Next]_vars PROVE [Fifo!Next]_<<Contents, call, out>>
    OBVIOUS
  <2>1. ContentsFacts
    BY ContentsAt
  <2>2. ContentsFacts'
    BY ContentsAt, PTL
  <2>3. CASE Next
    BY <2>1, <2>2, <2>3, FifoStep
  <2>4. CASE UNCHANGED vars
    BY <2>4 DEF vars, Contents, SizeOf
  <2> QED
    BY <2>3, <2>4
<1> QED
  BY <1>1, <1>2, TypeCorrect, PTL DEF Spec, FifoSpec, Fifo!Spec

LEMMA Least == ASSUME NEW T \in SUBSET Nat, T # {} PROVE \E x \in T : \A y \in T : x <= y
<1>1. IsWellFoundedOn({ss \in Nat \X Nat : ss[1] < ss[2]}, Nat)
  BY NatLessThanWellFounded, Zenon DEF OpToRel
<1>2. PICK R : R = {ss \in Nat \X Nat : ss[1] < ss[2]}
  OBVIOUS
<1>3. IsWellFoundedOn(R, Nat)
  BY <1>1, <1>2
<1>4. \E x \in T : \A y \in T : ~(<<y, x>> \in R)
  BY <1>3, WFMin
<1>5. \A a, b \in Nat : <<a, b>> \in R <=> a < b
  BY <1>2
<1>6. PICK x \in T : \A y \in T : ~(<<y, x>> \in R)
  BY <1>4
<1>7. ASSUME NEW y \in T PROVE x <= y
  <2>1. ~(<<y, x>> \in R)
    BY <1>6
  <2>2. ~(y < x)
    BY <2>1, <1>5
  <2> QED
    BY <2>2
<1> QED
  BY <1>7

-----------------------------------------------------------------------------
(* ConsoleCorrect, for any number of readers, any ring and any width of its counters *)
(* that it divides, and any display.  First the arithmetic of counters that wrap     *)
(* around, and of the places of the ring.                                            *)

LEMMA DivMod ==
  ASSUME NEW m \in Nat \ {0}, NEW a \in Int
  PROVE  /\ a = (a \div m) * m + (a % m)
         /\ a \div m \in Int /\ a % m \in 0 .. m - 1
  BY Z3

LEMMA Multiple ==
  ASSUME NEW m \in Nat \ {0}, NEW k \in Int, -m < k * m, k * m < m
  PROVE  k = 0
<1>1. CASE k >= 1
  <2>1. k * m >= m
    BY <1>1, Z3
  <2> QED
    BY <2>1
<1>2. CASE k <= -1
  <2>1. k * m <= -m
    BY <1>2, Z3
  <2> QED
    BY <2>1
<1> QED
  BY <1>1, <1>2

\* two numbers have the same remainder if and only if they differ by a multiple
LEMMA SameMod ==
  ASSUME NEW m \in Nat \ {0}, NEW a \in Int, NEW b \in Int, NEW q \in Int, a = b + q * m
  PROVE  a % m = b % m
<1> DEFINE qa == a \div m
           qb == b \div m
           ra == a % m
           rb == b % m
<1>1. a = qa * m + ra /\ qa \in Int /\ ra \in 0 .. m - 1
  BY DivMod
<1>2. b = qb * m + rb /\ qb \in Int /\ rb \in 0 .. m - 1
  BY DivMod
<1> HIDE DEF qa, qb, ra, rb
<1>3. (qa - qb - q) * m = rb - ra
  BY <1>1, <1>2, Z3
<1>4. qa - qb - q = 0
  BY <1>1, <1>2, <1>3, Multiple
<1>5. ra = rb
  BY <1>1, <1>2, <1>3, <1>4
<1> QED
  BY <1>5 DEF ra, rb

LEMMA OtherMod ==
  ASSUME NEW m \in Nat \ {0}, NEW a \in Int, NEW b \in Int, a < b, b < a + m
  PROVE  a % m # b % m
<1> DEFINE qa == a \div m
           qb == b \div m
           ra == a % m
           rb == b % m
<1>1. a = qa * m + ra /\ qa \in Int /\ ra \in 0 .. m - 1
  BY DivMod
<1>2. b = qb * m + rb /\ qb \in Int /\ rb \in 0 .. m - 1
  BY DivMod
<1> HIDE DEF qa, qb, ra, rb
<1>3. SUFFICES ASSUME ra = rb PROVE FALSE
  BY DEF ra, rb
<1>4. (qb - qa) * m = b - a
  BY <1>1, <1>2, <1>3, Z3
<1>5. qb - qa = 0
  BY <1>1, <1>2, <1>4, Multiple
<1> QED
  BY <1>1, <1>2, <1>3, <1>5

\* a number that is out of range by less than one round
LEMMA OneRound ==
  ASSUME NEW m \in Nat \ {0}, NEW a \in Int, -m <= a, a < 2 * m
  PROVE  a % m = IF a < 0 THEN a + m ELSE IF a < m THEN a ELSE a - m
<1> DEFINE ra == a % m
           qa == a \div m
<1>1. a = qa * m + ra /\ qa \in Int /\ ra \in 0 .. m - 1
  BY DivMod
<1> HIDE DEF ra, qa
<1>2. PICK c \in Int : c = IF a < 0 THEN a + m ELSE IF a < m THEN a ELSE a - m
  OBVIOUS
<1>3. PICK j \in {-1, 0, 1} : c = a + j * m
  <2>1. (-1) * m = -m /\ 0 * m = 0 /\ 1 * m = m
    OBVIOUS
  <2> QED
    BY <1>2, <2>1
<1>4. c \in 0 .. m - 1
  BY <1>2
<1>5. (qa + j) * m = c - ra
  BY <1>1, <1>3, Z3
<1>6. qa + j = 0
  BY <1>1, <1>3, <1>4, <1>5, Multiple
<1>7. c = ra
  BY <1>1, <1>4, <1>5, <1>6
<1> QED
  BY <1>2, <1>7 DEF ra

Counter == 0 .. UINT - 1

LEMMA ConsoleSizes ==
  /\ INPUT_BUF \in Nat \ {0, 1} /\ UINT \in Nat \ {0} /\ MaxRead \in Nat
  /\ INPUT_BUF < UINT
  /\ \E q \in Int : UINT = q * INPUT_BUF
  /\ {Newline, Eof} \subseteq Typed /\ Newline # Eof
<1>1. /\ INPUT_BUF \in Nat \ {0, 1} /\ UINT \in Nat /\ MaxRead \in Nat
      /\ INPUT_BUF < UINT /\ UINT % INPUT_BUF = 0
      /\ {Newline, Eof} \subseteq Typed /\ Newline # Eof
  BY SharedAssumption DEF Console0!InputAssumption
<1>2. UINT = (UINT \div INPUT_BUF) * INPUT_BUF + 0 /\ UINT \div INPUT_BUF \in Int
  BY <1>1, DivMod
<1>3. UINT = (UINT \div INPUT_BUF) * INPUT_BUF
  <2> DEFINE q == UINT \div INPUT_BUF
  <2>1. q * INPUT_BUF \in Int
    BY <1>1, <1>2
  <2> HIDE DEF q
  <2> QED
    BY <1>2, <2>1 DEF q
<1> QED
  BY <1>1, <1>2, <1>3

LEMMA AheadIs ==
  ASSUME NEW x \in Counter, NEW y \in Counter
  PROVE  /\ Console0!Ahead(x, y) = IF y <= x THEN x - y ELSE x - y + UINT
         /\ Console0!Ahead(x, y) \in Nat /\ Console0!Ahead(x, y) < UINT
         /\ Console0!Ahead(x, y) = 0 <=> x = y
<1>1. UINT \in Nat \ {0} /\ x \in Nat /\ y \in Nat /\ x < UINT /\ y < UINT
  BY ConsoleSizes DEF Counter
<1>2. PICK a \in Int : a = x - y
  BY <1>1
<1>3. -UINT <= a /\ a < 2 * UINT
  BY <1>1, <1>2
<1>4. a % UINT = IF a < 0 THEN a + UINT ELSE IF a < UINT THEN a ELSE a - UINT
  BY <1>1, <1>3, OneRound
<1> QED
  BY <1>1, <1>2, <1>4 DEF Console0!Ahead

LEMMA Forward ==
  ASSUME NEW x \in Counter, NEW n \in Nat, n <= UINT
  PROVE  /\ (x + n) % UINT = IF x + n < UINT THEN x + n ELSE x + n - UINT
         /\ (x + n) % UINT \in Counter
<1>1. UINT \in Nat \ {0} /\ x \in Nat /\ x < UINT
  BY ConsoleSizes DEF Counter
<1>2. PICK a \in Int : a = x + n
  BY <1>1
<1>3. -UINT <= a /\ a < 2 * UINT
  BY <1>1, <1>2
<1>4. a % UINT = IF a < 0 THEN a + UINT ELSE IF a < UINT THEN a ELSE a - UINT
  BY <1>1, <1>3, OneRound
<1> QED
  BY <1>1, <1>2, <1>4 DEF Counter

LEMMA Backward ==
  ASSUME NEW x \in Counter, NEW n \in Nat, n <= UINT
  PROVE  /\ (x - n) % UINT = IF n <= x THEN x - n ELSE x - n + UINT
         /\ n < UINT => (x - n) % UINT \in Counter
<1>1. UINT \in Nat \ {0} /\ x \in Nat /\ x < UINT
  BY ConsoleSizes DEF Counter
<1>2. PICK a \in Int : a = x - n
  BY <1>1
<1>3. -UINT <= a /\ a < 2 * UINT
  BY <1>1, <1>2
<1>4. a % UINT = IF a < 0 THEN a + UINT ELSE IF a < UINT THEN a ELSE a - UINT
  BY <1>1, <1>3, OneRound
<1> QED
  BY <1>1, <1>2, <1>4 DEF Counter

\* the k-th character from the place of a counter
Nth0(b, x, k) == b[(x + k - 1) % INPUT_BUF]

Ring == [0 .. INPUT_BUF - 1 -> Typed]

LEMMA NthTyped ==
  ASSUME NEW b \in Ring, NEW x \in Counter, NEW k \in Nat PROVE Nth0(b, x, k) \in Typed
<1>1. INPUT_BUF \in Nat \ {0} /\ x \in Nat
  BY ConsoleSizes DEF Counter
<1>2. PICK a \in Int : a = x + k - 1
  BY <1>1
<1>3. a % INPUT_BUF \in 0 .. INPUT_BUF - 1
  BY <1>1, DivMod
<1> QED
  BY <1>2, <1>3 DEF Ring, Nth0

\* a counter that is j further
LEMMA NthMoved ==
  ASSUME NEW b, NEW x \in Counter, NEW j \in Nat, j <= UINT, NEW k \in Nat
  PROVE  Nth0(b, (x + j) % UINT, k) = Nth0(b, x, j + k)
<1>1. UINT \in Nat \ {0} /\ x \in Nat /\ x < UINT /\ INPUT_BUF \in Nat \ {0}
  BY ConsoleSizes DEF Counter
<1>2. PICK q \in Int : UINT = q * INPUT_BUF
  BY ConsoleSizes
<1>3. PICK y \in Int : y = (x + j) % UINT
  BY Forward, <1>1 DEF Counter
<1>4. y = x + j \/ y = x + j - UINT
  BY <1>1, <1>3, Forward
<1>5. PICK c \in Int : c = y + k - 1
  BY <1>1
<1>6. PICK a \in Int : a = x + (j + k) - 1
  BY <1>1
<1>7. CASE y = x + j
  BY <1>1, <1>3, <1>5, <1>6, <1>7 DEF Nth0
<1>8. CASE y = x + j - UINT
  <2>1. a = c + q * INPUT_BUF
    BY <1>1, <1>2, <1>5, <1>6, <1>8
  <2>2. a % INPUT_BUF = c % INPUT_BUF
    BY <1>1, <1>2, <2>1, SameMod
  <2> QED
    BY <1>3, <1>5, <1>6, <2>2 DEF Nth0
<1> QED
  BY <1>4, <1>7, <1>8

\* a character that is put behind d others
PutAt(b, x, d, c) == [b EXCEPT ![(x + d) % INPUT_BUF] = c]

LEMMA NthPut ==
  ASSUME NEW b \in Ring, NEW x \in Counter, NEW d \in Nat, d < INPUT_BUF, NEW c \in Typed
  PROVE  /\ PutAt(b, x, d, c) \in Ring
         /\ Nth0(PutAt(b, x, d, c), x, d + 1) = c
         /\ \A k \in 1 .. d : Nth0(PutAt(b, x, d, c), x, k) = Nth0(b, x, k)
<1>1. INPUT_BUF \in Nat \ {0} /\ x \in Nat
  BY ConsoleSizes DEF Counter
<1>2. PICK a \in Int : a = x + d
  BY <1>1
<1>3. a % INPUT_BUF \in 0 .. INPUT_BUF - 1
  BY <1>1, DivMod
<1>4. PutAt(b, x, d, c) = [b EXCEPT ![a % INPUT_BUF] = c]
  BY <1>2 DEF PutAt
<1>5. PICK z : z = [b EXCEPT ![a % INPUT_BUF] = c]
  OBVIOUS
<1>6. /\ z \in Ring /\ z[a % INPUT_BUF] = c
      /\ \A i \in 0 .. INPUT_BUF - 1 : i # a % INPUT_BUF => z[i] = b[i]
  BY <1>3, <1>5 DEF Ring
<1>7. Nth0(z, x, d + 1) = c
  <2>1. x + (d + 1) - 1 = a
    BY <1>1, <1>2
  <2> QED
    BY <1>6, <2>1 DEF Nth0
<1>8. ASSUME NEW k \in 1 .. d PROVE Nth0(z, x, k) = Nth0(b, x, k)
  <2>1. PICK i \in Int : i = x + k - 1
    BY <1>1
  <2>2. i < a /\ a < i + INPUT_BUF
    BY <1>1, <1>2, <2>1
  <2>3. i % INPUT_BUF # a % INPUT_BUF
    BY <1>1, <2>2, OtherMod
  <2>4. i % INPUT_BUF \in 0 .. INPUT_BUF - 1
    BY <1>1, DivMod
  <2>5. z[i % INPUT_BUF] = b[i % INPUT_BUF]
    BY <1>6, <2>3, <2>4
  <2> QED
    BY <2>1, <2>5 DEF Nth0
<1> QED
  BY <1>4, <1>5, <1>6, <1>7, <1>8

-----------------------------------------------------------------------------
(* A stretch of the ring: n characters from the place of a counter *)

Stretch(b, x, n) == [k \in 1 .. n |-> Nth0(b, x, k)]

LEMMA StretchIs ==
  ASSUME NEW b \in Ring, NEW x \in Counter, NEW n \in Nat
  PROVE  /\ Stretch(b, x, n) \in Seq(Typed) /\ Len(Stretch(b, x, n)) = n
         /\ \A k \in 1 .. n : Stretch(b, x, n)[k] = Nth0(b, x, k)
<1>1. \A k \in 1 .. n : Nth0(b, x, k) \in Typed
  BY NthTyped
<1>2. Stretch(b, x, n) \in [1 .. n -> Typed]
  BY <1>1 DEF Stretch
<1>3. Stretch(b, x, n) \in Seq(Typed)
  BY <1>2, SeqDef
<1> QED
  BY <1>2, <1>3, LenProperties DEF Stretch

\* a sequence of these characters is the stretch
LEMMA StretchEqual ==
  ASSUME NEW b \in Ring, NEW x \in Counter, NEW n \in Nat, NEW s \in Seq(Typed),
         Len(s) = n, \A k \in 1 .. n : s[k] = Nth0(b, x, k)
  PROVE  s = Stretch(b, x, n)
<1>1. PICK t \in Seq(Typed) : t = Stretch(b, x, n)
  BY StretchIs
<1>2. Len(t) = n /\ \A k \in 1 .. n : t[k] = Nth0(b, x, k)
  BY <1>1, StretchIs
<1>3. s = t
  BY <1>2, SeqEqual
<1> QED
  BY <1>1, <1>3

LEMMA StretchFront ==
  ASSUME NEW b \in Ring, NEW x \in Counter, NEW n \in Nat \ {0}
  PROVE  Stretch(b, x, n - 1) = SubSeq(Stretch(b, x, n), 1, n - 1)
<1>1. PICK s \in Seq(Typed) : s = Stretch(b, x, n)
  BY StretchIs
<1>2. PICK m \in Nat : m = n - 1
  OBVIOUS
<1>3. Len(s) = n /\ \A k \in 1 .. n : s[k] = Nth0(b, x, k)
  BY <1>1, StretchIs
<1>4. \A i \in 1 .. m : s[i] \in Typed
  BY <1>2, <1>3, ElementOfSeq
<1>5. PICK u : u = SubSeq(s, 1, m)
  OBVIOUS
<1>6. u \in Seq(Typed) /\ Len(u) = m /\ \A k \in 1 .. m : u[k] = s[k]
  <2>1. /\ u \in Seq(Typed) /\ Len(u) = IF 1 <= m THEN m - 1 + 1 ELSE 0
        /\ \A k \in 1 .. m - 1 + 1 : u[k] = s[1 + k - 1]
    BY <1>4, <1>5, SubSeqProperties
  <2>2. m - 1 + 1 = m /\ (IF 1 <= m THEN m - 1 + 1 ELSE 0) = m
    BY <1>2
  <2>3. \A k \in 1 .. m : 1 + k - 1 = k
    OBVIOUS
  <2> QED
    BY <2>1, <2>2, <2>3
<1>7. \A k \in 1 .. m : u[k] = Nth0(b, x, k)
  BY <1>2, <1>3, <1>6
<1>8. u = Stretch(b, x, m)
  BY <1>6, <1>7, StretchEqual
<1> QED
  BY <1>1, <1>2, <1>5, <1>8

LEMMA StretchTail ==
  ASSUME NEW b \in Ring, NEW x \in Counter, NEW n \in Nat, n <= UINT, NEW j \in 0 .. n
  PROVE  Stretch(b, (x + j) % UINT, n - j) = SubSeq(Stretch(b, x, n), j + 1, n)
<1>1. PICK s \in Seq(Typed) : s = Stretch(b, x, n)
  BY StretchIs
<1>2. PICK m \in Nat : m = n - j
  OBVIOUS
<1>3. j <= UINT /\ j \in Nat
  BY ConsoleSizes
<1>4. PICK y \in Counter : y = (x + j) % UINT
  BY <1>3, Forward
<1>5. Len(s) = n /\ \A k \in 1 .. n : s[k] = Nth0(b, x, k)
  BY <1>1, StretchIs
<1>6. PICK h \in Nat : h = j + 1
  OBVIOUS
<1>7. \A i \in h .. n : s[i] \in Typed
  <2>1. \A i \in 1 .. n : s[i] \in Typed
    BY <1>5, ElementOfSeq
  <2> QED
    BY <1>6, <2>1
<1>8. PICK u : u = SubSeq(s, h, n)
  OBVIOUS
<1>9. /\ u \in Seq(Typed) /\ Len(u) = IF h <= n THEN n - h + 1 ELSE 0
      /\ \A k \in 1 .. n - h + 1 : u[k] = s[h + k - 1]
  BY <1>7, <1>8, SubSeqProperties
<1>10. Len(u) = m
  BY <1>2, <1>6, <1>9
<1>11. ASSUME NEW k \in 1 .. m PROVE u[k] = Nth0(b, y, k)
  <2>1. Nth0(b, y, k) = Nth0(b, x, j + k)
    BY <1>3, <1>4, NthMoved
  <2>2. k \in 1 .. n - h + 1 /\ h + k - 1 = j + k /\ j + k \in 1 .. n
    BY <1>2, <1>6
  <2>3. u[k] = s[j + k]
    BY <1>9, <2>2
  <2> QED
    BY <1>5, <2>1, <2>2, <2>3
<1>12. u = Stretch(b, y, m)
  BY <1>9, <1>10, <1>11, StretchEqual
<1> QED
  BY <1>1, <1>2, <1>4, <1>6, <1>8, <1>12

LEMMA StretchJoin ==
  ASSUME NEW b \in Ring, NEW x \in Counter, NEW n \in Nat, n <= UINT, NEW m \in Nat
  PROVE  Stretch(b, x, n + m) = Stretch(b, x, n) \o Stretch(b, (x + n) % UINT, m)
<1>1. PICK s \in Seq(Typed) : s = Stretch(b, x, n)
  BY StretchIs
<1>2. PICK y \in Counter : y = (x + n) % UINT
  BY Forward
<1>3. PICK t \in Seq(Typed) : t = Stretch(b, y, m)
  BY StretchIs
<1>4. Len(s) = n /\ \A k \in 1 .. n : s[k] = Nth0(b, x, k)
  BY <1>1, StretchIs
<1>5. Len(t) = m /\ \A k \in 1 .. m : t[k] = Nth0(b, y, k)
  BY <1>3, StretchIs
<1>6. PICK u : u = s \o t
  OBVIOUS
<1>7. /\ u \in Seq(Typed) /\ Len(u) = n + m
      /\ \A k \in 1 .. n + m : u[k] = IF k <= n THEN s[k] ELSE t[k - n]
  BY <1>4, <1>5, <1>6, ConcatProperties
<1>8. ASSUME NEW k \in 1 .. n + m PROVE u[k] = Nth0(b, x, k)
  <2>1. CASE k <= n
    <3>1. k \in 1 .. n /\ u[k] = s[k]
      BY <1>7, <2>1
    <3> QED
      BY <1>4, <3>1
  <2>2. CASE ~ (k <= n)
    <3>1. PICK i \in Nat : i = k - n
      BY <2>2
    <3>2. i \in 1 .. m /\ n + i = k /\ u[k] = t[i]
      BY <1>7, <2>2, <3>1
    <3>3. Nth0(b, y, i) = Nth0(b, x, n + i)
      BY <1>2, NthMoved
    <3> QED
      BY <1>5, <3>2, <3>3
  <2> QED
    BY <2>1, <2>2
<1>9. u = Stretch(b, x, n + m)
  BY <1>7, <1>8, StretchEqual
<1> QED
  BY <1>1, <1>2, <1>3, <1>6, <1>9

\* a character that is put behind the stretch leaves it alone, and one that is put at its
\* end is appended
LEMMA StretchKeep ==
  ASSUME NEW b \in Ring, NEW x \in Counter, NEW n \in Nat, NEW d \in Nat, n <= d,
         d < INPUT_BUF, NEW c \in Typed
  PROVE  Stretch(PutAt(b, x, d, c), x, n) = Stretch(b, x, n)
<1>1. \A k \in 1 .. n : Nth0(PutAt(b, x, d, c), x, k) = Nth0(b, x, k)
  BY NthPut
<1> QED
  BY <1>1 DEF Stretch

LEMMA StretchPut ==
  ASSUME NEW b \in Ring, NEW x \in Counter, NEW n \in Nat, n < INPUT_BUF, NEW c \in Typed
  PROVE  Stretch(PutAt(b, x, n, c), x, n + 1) = Append(Stretch(b, x, n), c)
<1>1. PICK z \in Ring : z = PutAt(b, x, n, c)
  BY NthPut
<1>2. Nth0(z, x, n + 1) = c
  BY <1>1, NthPut
<1>3. PICK s \in Seq(Typed) : s = Stretch(z, x, n)
  BY StretchIs
<1>4. s = Stretch(b, x, n)
  BY <1>1, <1>3, StretchKeep
<1>5. Len(s) = n /\ \A k \in 1 .. n : s[k] = Nth0(z, x, k)
  BY <1>3, StretchIs
<1>6. PICK u : u = Append(s, c)
  OBVIOUS
<1>7. /\ u \in Seq(Typed) /\ Len(u) = n + 1
      /\ \A k \in 1 .. n : u[k] = s[k]
      /\ u[n + 1] = c
  BY <1>5, <1>6, AppendProperties
<1>8. ASSUME NEW k \in 1 .. n + 1 PROVE u[k] = Nth0(z, x, k)
  <2>1. k \in 1 .. n \/ k = n + 1
    OBVIOUS
  <2>2. CASE k \in 1 .. n
    BY <1>5, <1>7, <2>2
  <2>3. CASE k = n + 1
    BY <1>2, <1>7, <2>3
  <2> QED
    BY <2>1, <2>2, <2>3
<1>9. u = Stretch(z, x, n + 1)
  BY <1>7, <1>8, StretchEqual
<1> QED
  BY <1>1, <1>4, <1>6, <1>9

-----------------------------------------------------------------------------
(* The state of the console: r, and how far w and e are ahead of it *)

LEMMA MovedOn ==
  ASSUME NEW x \in Counter, NEW j \in Nat, NEW k \in Nat, j + k <= UINT
  PROVE  (((x + j) % UINT) + k) % UINT = (x + (j + k)) % UINT
<1>1. UINT \in Nat \ {0} /\ x \in Nat /\ x < UINT
      /\ j <= UINT /\ j + k \in Nat
  BY ConsoleSizes DEF Counter
<1>2. PICK y \in Counter : y = (x + j) % UINT
  BY <1>1, Forward
<1>3. y = IF x + j < UINT THEN x + j ELSE x + j - UINT
  BY <1>1, <1>2, Forward
<1>4. (y + k) % UINT = IF y + k < UINT THEN y + k ELSE y + k - UINT
  BY <1>1, <1>2, Forward
<1>5. PICK n \in Nat : n = j + k
  OBVIOUS
<1>6. (x + n) % UINT = IF x + n < UINT THEN x + n ELSE x + n - UINT
  BY <1>1, <1>5, Forward
<1>7. y + k < UINT + UINT /\ y \in Nat /\ y < UINT
  BY <1>1, <1>2 DEF Counter
<1>8. (y + k) % UINT = (x + n) % UINT
  BY <1>1, <1>3, <1>4, <1>5, <1>6, <1>7
<1> QED
  BY <1>2, <1>5, <1>8

LEMMA MovedBack ==
  ASSUME NEW x \in Counter, NEW j \in Nat, NEW k \in 0 .. j, j < UINT
  PROVE  (((x + j) % UINT) - k) % UINT = (x + (j - k)) % UINT
<1>1. UINT \in Nat \ {0} /\ x \in Nat /\ x < UINT
      /\ j <= UINT /\ j - k \in Nat /\ j - k <= UINT
  BY ConsoleSizes DEF Counter
<1>2. PICK y \in Counter : y = (x + j) % UINT
  BY <1>1, Forward
<1>3. y = IF x + j < UINT THEN x + j ELSE x + j - UINT
  BY <1>1, <1>2, Forward
<1>4. (y - k) % UINT = IF k <= y THEN y - k ELSE y - k + UINT
  BY <1>1, <1>2, Backward
<1>5. PICK n \in Nat : n = j - k
  OBVIOUS
<1>6. (x + n) % UINT = IF x + n < UINT THEN x + n ELSE x + n - UINT
  BY <1>1, <1>5, Forward
<1>7. y \in Nat /\ y < UINT
  BY <1>1, <1>2 DEF Counter
<1>8. (y - k) % UINT = (x + n) % UINT
  BY <1>1, <1>3, <1>4, <1>5, <1>6, <1>7
<1> QED
  BY <1>2, <1>5, <1>8

LEMMA Distance ==
  ASSUME NEW x \in Counter, NEW j \in Nat, NEW i \in 0 .. j, j < UINT
  PROVE  Console0!Ahead((x + j) % UINT, (x + i) % UINT) = j - i
<1>1. UINT \in Nat \ {0} /\ x \in Nat /\ x < UINT
      /\ j <= UINT /\ i \in Nat /\ i <= UINT
  BY ConsoleSizes DEF Counter
<1>2. PICK y \in Counter : y = (x + j) % UINT
  BY <1>1, Forward
<1>3. PICK z \in Counter : z = (x + i) % UINT
  BY <1>1, Forward
<1>4. /\ y = IF x + j < UINT THEN x + j ELSE x + j - UINT
      /\ z = IF x + i < UINT THEN x + i ELSE x + i - UINT
  BY <1>1, <1>2, <1>3, Forward
<1>5. Console0!Ahead(y, z) = IF z <= y THEN y - z ELSE y - z + UINT
  BY AheadIs
<1>6. Console0!Ahead(y, z) = j - i
  BY <1>1, <1>4, <1>5
<1> QED
  BY <1>2, <1>3, <1>6

\* u characters can be read, l are edited
Placed(r, w, e, u, l) ==
  /\ r \in Counter /\ u \in Nat /\ l \in Nat /\ u + l <= INPUT_BUF
  /\ w = (r + u) % UINT /\ e = (r + (u + l)) % UINT

LEMMA PlacedIs ==
  ASSUME NEW r, NEW w, NEW e, NEW u, NEW l, Placed(r, w, e, u, l)
  PROVE  /\ r \in Counter /\ w \in Counter /\ e \in Counter
         /\ u \in Nat /\ l \in Nat /\ u + l <= INPUT_BUF /\ u + l < UINT
         /\ e = (w + l) % UINT
         /\ Console0!Ahead(w, r) = u /\ Console0!Ahead(e, w) = l
         /\ Console0!Ahead(e, r) = u + l
         /\ r = w <=> u = 0
         /\ e = w <=> l = 0
<1>1. /\ r \in Counter /\ u \in Nat /\ l \in Nat /\ u + l <= INPUT_BUF
      /\ w = (r + u) % UINT /\ e = (r + (u + l)) % UINT
      /\ INPUT_BUF \in Nat /\ UINT \in Nat \ {0} /\ INPUT_BUF < UINT
  BY ConsoleSizes DEF Placed
<1>2. PICK n \in Nat : n = u + l
  BY <1>1
<1>3. n < UINT /\ u \in 0 .. n /\ 0 \in 0 .. n /\ 0 \in 0 .. u /\ u < UINT /\ n \in Nat
  BY <1>1, <1>2
<1>4. w \in Counter /\ e \in Counter
  BY <1>1, <1>2, <1>3, Forward
<1>5. r = (r + 0) % UINT
  <2>1. (r + 0) % UINT = IF r + 0 < UINT THEN r + 0 ELSE r + 0 - UINT
    BY <1>1, Forward
  <2> QED
    BY <1>1, <2>1 DEF Counter
<1>6. e = (w + l) % UINT
  BY <1>1, <1>2, <1>3, MovedOn
<1>7. Console0!Ahead(w, r) = u - 0
  BY <1>1, <1>3, <1>5, Distance
<1>8. Console0!Ahead(e, w) = n - u
  BY <1>1, <1>2, <1>3, Distance
<1>9. Console0!Ahead(e, r) = n - 0
  BY <1>1, <1>2, <1>3, <1>5, Distance
<1>10. r = w <=> u = 0
  BY <1>1, <1>4, <1>7, AheadIs
<1>11. e = w <=> l = 0
  BY <1>1, <1>2, <1>4, <1>8, AheadIs
<1> QED
  BY <1>1, <1>2, <1>3, <1>4, <1>6, <1>7, <1>8, <1>9, <1>10, <1>11

LEMMA PlacedKey ==
  ASSUME NEW r, NEW w, NEW e, NEW u, NEW l, Placed(r, w, e, u, l), u + l < INPUT_BUF
  PROVE  /\ Placed(r, w, (e + 1) % UINT, u, l + 1)
         /\ Placed(r, (e + 1) % UINT, (e + 1) % UINT, u + l + 1, 0)
<1>1. /\ r \in Counter /\ u \in Nat /\ l \in Nat /\ w = (r + u) % UINT
      /\ e = (r + (u + l)) % UINT /\ INPUT_BUF \in Nat /\ INPUT_BUF < UINT /\ UINT \in Nat
  BY ConsoleSizes DEF Placed
<1>2. PICK n \in Nat : n = u + l
  BY <1>1
<1>3. n + 1 <= UINT
  BY <1>1, <1>2
<1>4. (e + 1) % UINT = (r + (n + 1)) % UINT
  BY <1>1, <1>2, <1>3, MovedOn
<1>5. u + (l + 1) = n + 1 /\ u + l + 1 = n + 1 /\ (n + 1) + 0 = n + 1 /\ n + 1 \in Nat
      /\ n + 1 <= INPUT_BUF /\ l + 1 \in Nat
  BY <1>1, <1>2
<1> QED
  BY <1>1, <1>4, <1>5 DEF Placed

LEMMA PlacedErase ==
  ASSUME NEW r, NEW w, NEW e, NEW u, NEW l, Placed(r, w, e, u, l), NEW k \in 0 .. l
  PROVE  Placed(r, w, (e - k) % UINT, u, l - k)
<1>1. /\ r \in Counter /\ u \in Nat /\ l \in Nat /\ w = (r + u) % UINT /\ u + l <= INPUT_BUF
      /\ e = (r + (u + l)) % UINT /\ INPUT_BUF \in Nat /\ INPUT_BUF < UINT /\ UINT \in Nat
  BY ConsoleSizes DEF Placed
<1>2. PICK n \in Nat : n = u + l
  BY <1>1
<1>3. n < UINT /\ k \in 0 .. n
  BY <1>1, <1>2
<1>4. (e - k) % UINT = (r + (n - k)) % UINT
  BY <1>1, <1>2, <1>3, MovedBack
<1>5. n - k = u + (l - k) /\ l - k \in Nat /\ u + (l - k) <= INPUT_BUF
  BY <1>1, <1>2
<1> QED
  BY <1>1, <1>4, <1>5 DEF Placed

LEMMA PlacedRead ==
  ASSUME NEW r, NEW w, NEW e, NEW u, NEW l, Placed(r, w, e, u, l), NEW k \in 0 .. u
  PROVE  Placed((r + k) % UINT, w, e, u - k, l)
<1>1. /\ r \in Counter /\ u \in Nat /\ l \in Nat /\ w = (r + u) % UINT /\ u + l <= INPUT_BUF
      /\ e = (r + (u + l)) % UINT /\ INPUT_BUF \in Nat /\ INPUT_BUF < UINT /\ UINT \in Nat
  BY ConsoleSizes DEF Placed
<1>2. PICK i \in Nat : i = u - k
  BY <1>1
<1>3. PICK j \in Nat : j = i + l
  BY <1>1
<1>4. k \in Nat /\ k + i = u /\ k + j = u + l /\ k + i <= UINT /\ k + j <= UINT
      /\ k <= UINT /\ i + l <= INPUT_BUF
  BY <1>1, <1>2, <1>3
<1>5. (((r + k) % UINT) + i) % UINT = w
  BY <1>1, <1>4, MovedOn
<1>6. (((r + k) % UINT) + j) % UINT = e
  BY <1>1, <1>4, MovedOn
<1>7. (r + k) % UINT \in Counter
  BY <1>1, <1>4, Forward
<1> QED
  BY <1>1, <1>2, <1>3, <1>4, <1>5, <1>6, <1>7 DEF Placed

\* the place of e is l behind w and u + l behind r
LEMMA PutHere ==
  ASSUME NEW b, NEW x \in Counter, NEW d \in Nat, d <= UINT, NEW c
  PROVE  [b EXCEPT ![((x + d) % UINT) % INPUT_BUF] = c] = PutAt(b, x, d, c)
<1>1. UINT \in Nat \ {0} /\ x \in Nat /\ x < UINT /\ INPUT_BUF \in Nat \ {0}
  BY ConsoleSizes DEF Counter
<1>2. PICK q \in Int : UINT = q * INPUT_BUF
  BY ConsoleSizes
<1>3. PICK y \in Int : y = (x + d) % UINT
  BY Forward, <1>1 DEF Counter
<1>4. y = x + d \/ y = x + d - UINT
  BY <1>1, <1>3, Forward
<1>5. PICK a \in Int : a = x + d
  BY <1>1
<1>6. CASE y = a - UINT
  <2>1. a = y + q * INPUT_BUF
    BY <1>1, <1>2, <1>6
  <2>2. a % INPUT_BUF = y % INPUT_BUF
    BY <1>1, <2>1, SameMod
  <2> QED
    BY <1>3, <1>5, <2>2 DEF PutAt
<1>7. CASE y = a
  BY <1>3, <1>5, <1>7 DEF PutAt
<1>8. y = a \/ y = a - UINT
  BY <1>1, <1>4, <1>5
<1> QED
  BY <1>6, <1>7, <1>8

-----------------------------------------------------------------------------
(* The invariant of the console *)

Ends == {Newline, Eof}

Readers == [Twin -> Console0!Reader]

ConsoleAt(b, r, w, e, rd, u, l) ==
  /\ b \in Ring /\ Placed(r, w, e, u, l) /\ rd \in Readers
  /\ \A k \in 1 .. l : Nth0(b, w, k) \notin Ends
  /\ u + l = INPUT_BUF => l = 0
  /\ \A p \in Twin : rd[p].state = "asleep" => u = 0
  /\ \A p \in Twin : rd[p].state # "user" => rd[p].n # 0

ConsoleInv ==
  \E u, l \in Nat : ConsoleAt(coBuf, coR, coW, coE, coReader, u, l)

LEMMA ConsoleIsCorrectAt ==
  ASSUME ConsoleInv
  PROVE  Console0!TypeOK /\ Console0!SleepersBlocked /\ Console0!FullIsEnded
<1>1. PICK u, l \in Nat : ConsoleAt(coBuf, coR, coW, coE, coReader, u, l)
  BY DEF ConsoleInv
<1>2. Placed(coR, coW, coE, u, l)
  BY <1>1 DEF ConsoleAt
<1>3. /\ coR \in Counter /\ coW \in Counter /\ coE \in Counter /\ u + l <= INPUT_BUF
      /\ Console0!Ahead(coW, coR) = u /\ Console0!Ahead(coE, coW) = l
      /\ Console0!Ahead(coE, coR) = u + l
      /\ coR = coW <=> u = 0
      /\ coE = coW <=> l = 0
  BY <1>2, PlacedIs
<1>4. Console0!TypeOK
  BY <1>1, <1>3 DEF Console0!TypeOK, ConsoleAt, Ring, Readers, Counter
<1>5. Console0!SleepersBlocked
  BY <1>1, <1>3 DEF Console0!SleepersBlocked, ConsoleAt
<1>6. Console0!FullIsEnded
  BY <1>1, <1>3 DEF Console0!FullIsEnded, ConsoleAt
<1> QED
  BY <1>4, <1>5, <1>6

\* the line that is edited and the ended ones
LEMMA BetweenIs ==
  ASSUME NEW u, NEW l, Placed(coR, coW, coE, u, l)
  PROVE  /\ Console0!Between(coR, coW) = Stretch(coBuf, coR, u)
         /\ Console0!Between(coW, coE) = Stretch(coBuf, coW, l)
<1>1. Console0!Ahead(coW, coR) = u /\ Console0!Ahead(coE, coW) = l
  BY PlacedIs
<1> QED
  BY <1>1 DEF Console0!Between, Stretch, Nth0

LEMMA BetweenNext ==
  ASSUME NEW u, NEW l, Placed(coR', coW', coE', u, l)
  PROVE  /\ Console0!Between(coR, coW)' = Stretch(coBuf', coR', u)
         /\ Console0!Between(coW, coE)' = Stretch(coBuf', coW', l)
<1>1. Console0!Ahead(coW', coR') = u /\ Console0!Ahead(coE', coW') = l
  BY PlacedIs
<1> QED
  BY <1>1 DEF Console0!Between, Stretch, Nth0

\* what is left of the refinement are steps of stretches of the ring
Views(u, l, v, m, ready, line, ready2, line2) ==
  /\ Placed(coR, coW, coE, u, l) /\ Placed(coR', coW', coE', v, m)
  /\ coBuf \in Ring /\ coBuf' \in Ring
  /\ ready = Stretch(coBuf, coR, u) /\ line = Stretch(coBuf, coW, l)
  /\ ready2 = Stretch(coBuf', coR', v) /\ line2 = Stretch(coBuf', coW', m)

LEMMA ViewsAre ==
  ASSUME NEW u, NEW l, NEW v, NEW m, NEW ready, NEW line, NEW ready2, NEW line2,
         Views(u, l, v, m, ready, line, ready2, line2)
  PROVE  /\ ready = Console0!Between(coR, coW) /\ line = Console0!Between(coW, coE)
         /\ ready2 = Console0!Between(coR, coW)' /\ line2 = Console0!Between(coW, coE)'
         /\ Len(ready) = u /\ Len(line) = l
         /\ \A k \in 1 .. u : ready[k] = Nth0(coBuf, coR, k)
<1>1. /\ ready = Console0!Between(coR, coW) /\ line = Console0!Between(coW, coE)
      /\ ready2 = Console0!Between(coR, coW)' /\ line2 = Console0!Between(coW, coE)'
  BY BetweenIs, BetweenNext DEF Views
<1>2. coR \in Counter /\ coW \in Counter /\ u \in Nat /\ l \in Nat
  BY PlacedIs DEF Views
<1>3. /\ Len(ready) = u /\ Len(line) = l
      /\ \A k \in 1 .. u : ready[k] = Nth0(coBuf, coR, k)
  BY <1>2, StretchIs DEF Views
<1> QED
  BY <1>1, <1>3

LEMMA TypeEnds ==
  ASSUME NEW u, NEW l, NEW v, NEW m, NEW ready, NEW line, NEW ready2, NEW line2,
         Views(u, l, v, m, ready, line, ready2, line2),
         NEW c, u + l # INPUT_BUF, c \in Ends \/ u + l + 1 = INPUT_BUF,
         ready2 = ready \o Append(line, c), line2 = <<>>
  PROVE  Console0!Lines!Type(c)
<1>1. /\ ready = Console0!Between(coR, coW) /\ line = Console0!Between(coW, coE)
      /\ ready2 = Console0!Between(coR, coW)' /\ line2 = Console0!Between(coW, coE)'
      /\ Len(ready) = u /\ Len(line) = l
  BY ViewsAre
<1>2. ~ Console0!Lines!Full
  BY <1>1 DEF Console0!Lines!Full
<1> QED
  BY <1>1, <1>2 DEF Console0!Lines!Type, Ends

LEMMA TypeIn ==
  ASSUME NEW u, NEW l, NEW v, NEW m, NEW ready, NEW line, NEW ready2, NEW line2,
         Views(u, l, v, m, ready, line, ready2, line2),
         NEW c, u + l # INPUT_BUF, ~ (c \in Ends \/ u + l + 1 = INPUT_BUF),
         ready2 = ready, line2 = Append(line, c)
  PROVE  Console0!Lines!Type(c)
<1>1. /\ ready = Console0!Between(coR, coW) /\ line = Console0!Between(coW, coE)
      /\ ready2 = Console0!Between(coR, coW)' /\ line2 = Console0!Between(coW, coE)'
      /\ Len(ready) = u /\ Len(line) = l
  BY ViewsAre
<1>2. ~ Console0!Lines!Full
  BY <1>1 DEF Console0!Lines!Full
<1> QED
  BY <1>1, <1>2 DEF Console0!Lines!Type, Ends

LEMMA LineErased ==
  ASSUME NEW u, NEW l, NEW v, NEW m, NEW ready, NEW line, NEW ready2, NEW line2,
         Views(u, l, v, m, ready, line, ready2, line2),
         line # <<>>, line2 = SubSeq(line, 1, l - 1) \/ line2 = <<>>, ready2 = ready
  PROVE  Console0!Lines!Erase
<1>1. /\ ready = Console0!Between(coR, coW) /\ line = Console0!Between(coW, coE)
      /\ ready2 = Console0!Between(coR, coW)' /\ line2 = Console0!Between(coW, coE)'
      /\ Len(ready) = u /\ Len(line) = l
  BY ViewsAre
<1> QED
  BY <1>1 DEF Console0!Lines!Erase

LEMMA LineRead ==
  ASSUME NEW u, NEW l, NEW v, NEW m, NEW ready, NEW line, NEW ready2, NEW line2,
         Views(u, l, v, m, ready, line, ready2, line2),
         NEW n \in 1 .. u, \A i \in 1 .. n - 1 : Nth0(coBuf, coR, i) \notin Ends,
         ready2 = SubSeq(ready, n + 1, u), line2 = line
  PROVE  Console0!Lines!Read
<1>1. /\ ready = Console0!Between(coR, coW) /\ line = Console0!Between(coW, coE)
      /\ ready2 = Console0!Between(coR, coW)' /\ line2 = Console0!Between(coW, coE)'
      /\ Len(ready) = u /\ Len(line) = l
      /\ \A k \in 1 .. u : ready[k] = Nth0(coBuf, coR, k)
  BY ViewsAre
<1>2. u \in Nat
  BY PlacedIs DEF Views
<1>3. \A i \in 1 .. n - 1 : ready[i] \notin {Newline, Eof}
  BY <1>1, <1>2 DEF Ends
<1> QED
  BY <1>1, <1>3 DEF Console0!Lines!Read

LEMMA LinesStay ==
  ASSUME NEW u, NEW l, NEW v, NEW m, NEW ready, NEW line, NEW ready2, NEW line2,
         Views(u, l, v, m, ready, line, ready2, line2), ready2 = ready, line2 = line
  PROVE  UNCHANGED Console0!Lines!vars
<1>1. /\ ready = Console0!Between(coR, coW) /\ line = Console0!Between(coW, coE)
      /\ ready2 = Console0!Between(coR, coW)' /\ line2 = Console0!Between(coW, coE)'
  BY ViewsAre
<1> QED
  BY <1>1 DEF Console0!Lines!vars

LEMMA ConsoleInit ==
  ASSUME Console0!Init PROVE ConsoleInv /\ Console0!Lines!Init
<1>1. /\ INPUT_BUF \in Nat \ {0} /\ UINT \in Nat \ {0} /\ MaxRead \in Nat /\ Newline \in Typed
  BY ConsoleSizes
<1>2. coR = 0 /\ coW = 0 /\ coE = 0
  BY DEF Console0!Init
<1>3. (0 + 0) % UINT = 0
  <2>1. 0 \in Counter /\ 0 \in Nat /\ 0 <= UINT
    BY <1>1 DEF Counter
  <2>2. (0 + 0) % UINT = IF 0 + 0 < UINT THEN 0 + 0 ELSE 0 + 0 - UINT
    BY <2>1, Forward
  <2> QED
    BY <1>1, <2>2
<1>4. Placed(coR, coW, coE, 0, 0)
  <2>1. 0 \in Counter /\ 0 + 0 = 0 /\ 0 <= INPUT_BUF
    BY <1>1 DEF Counter
  <2> QED
    BY <1>2, <1>3, <2>1 DEF Placed
<1>5. coBuf \in Ring
  <2>1. (CHOOSE c \in Typed : TRUE) \in Typed
    BY <1>1
  <2> QED
    BY <2>1 DEF Console0!Init, Ring
<1>6. coReader \in Readers /\ \A p \in Twin : coReader[p].state = "user"
  <2>1. [state |-> "user", target |-> 0, n |-> 0, killed |-> FALSE, eof |-> FALSE]
          \in Console0!Reader
    BY <1>1 DEF Console0!Reader
  <2> QED
    BY <2>1 DEF Console0!Init, Readers
<1>7. ConsoleAt(coBuf, coR, coW, coE, coReader, 0, 0)
  BY <1>4, <1>5, <1>6 DEF ConsoleAt
<1>8. ConsoleInv
  BY <1>7 DEF ConsoleInv
<1>9. Stretch(coBuf, coR, 0) = <<>> /\ Stretch(coBuf, coW, 0) = <<>>
  <2>1. coR \in Counter /\ coW \in Counter
    BY <1>4, PlacedIs
  <2>2. /\ Stretch(coBuf, coR, 0) \in Seq(Typed) /\ Len(Stretch(coBuf, coR, 0)) = 0
        /\ Stretch(coBuf, coW, 0) \in Seq(Typed) /\ Len(Stretch(coBuf, coW, 0)) = 0
    BY <1>5, <2>1, StretchIs
  <2> QED
    BY <2>2, EmptySeq
<1>10. Console0!Lines!Init
  BY <1>4, <1>9, BetweenIs DEF Console0!Lines!Init
<1> QED
  BY <1>8, <1>10


-----------------------------------------------------------------------------
(* Each step of the console keeps the invariant, and is a step of the lines *)

LineStep == [Console0!Lines!Next]_(Console0!Lines!vars)

LEMMA WokenReaders ==
  ASSUME coReader \in Readers, \A p \in Twin : coReader[p].state # "user" => coReader[p].n # 0,
         Console0!WakeReaders
  PROVE  /\ coReader' \in Readers
         /\ \A p \in Twin : coReader'[p].state # "asleep"
         /\ \A p \in Twin : coReader'[p].state # "user" => coReader'[p].n # 0
<1>1. ASSUME NEW p \in Twin
      PROVE  /\ coReader'[p] \in Console0!Reader /\ coReader'[p].state # "asleep"
             /\ coReader'[p].state # "user" => coReader'[p].n # 0
  <2>1. coReader[p] \in Console0!Reader
    BY DEF Readers
  <2>2. CASE coReader[p].state = "asleep"
    <3>1. coReader'[p] = [coReader[p] EXCEPT !.state = "ready"]
      BY <2>2 DEF Console0!WakeReaders
    <3> QED
      BY <2>1, <2>2, <3>1 DEF Console0!Reader
  <2>3. CASE coReader[p].state # "asleep"
    <3>1. coReader'[p] = coReader[p]
      BY <2>3 DEF Console0!WakeReaders
    <3> QED
      BY <2>1, <2>3, <3>1
  <2> QED
    BY <2>2, <2>3
<1>2. \E x : coReader' = [p \in Twin |-> x[p]]
  <2>1. PICK x : x = [p \in Twin |-> IF coReader[p].state = "asleep"
                        THEN [coReader[p] EXCEPT !.state = "ready"] ELSE coReader[p]]
    OBVIOUS
  <2>2. coReader' = [p \in Twin |-> x[p]]
    BY <2>1 DEF Console0!WakeReaders
  <2> QED
    BY <2>2
<1> QED
  BY <1>1, <1>2 DEF Readers

\* the test for the end of a ring that is full
LEMMA KeyEnds ==
  ASSUME NEW u, NEW l, Placed(coR, coW, coE, u, l), u + l < INPUT_BUF, NEW c
  PROVE  Console0!EndsLine(c) <=> (c \in Ends \/ u + l + 1 = INPUT_BUF)
<1>1. /\ coR \in Counter /\ u \in Nat /\ l \in Nat /\ coE = (coR + (u + l)) % UINT
      /\ INPUT_BUF \in Nat /\ INPUT_BUF < UINT /\ UINT \in Nat
  BY ConsoleSizes DEF Placed
<1>2. PICK n \in Nat : n = u + l
  BY <1>1
<1>3. n + 1 <= UINT /\ n + 1 \in 0 .. INPUT_BUF /\ INPUT_BUF <= UINT /\ n + 1 \in Nat
  BY <1>1, <1>2
<1>4. (coE + 1) % UINT = (coR + (n + 1)) % UINT
  BY <1>1, <1>2, <1>3, MovedOn
<1>5. Console0!Ahead((coR + INPUT_BUF) % UINT, (coR + (n + 1)) % UINT) = INPUT_BUF - (n + 1)
  BY <1>1, <1>3, Distance
<1>6. (coR + INPUT_BUF) % UINT \in Counter /\ (coR + (n + 1)) % UINT \in Counter
  BY <1>1, <1>3, Forward
<1>7. INPUT_BUF - (n + 1) = 0 <=> (coR + INPUT_BUF) % UINT = (coR + (n + 1)) % UINT
  BY <1>5, <1>6, AheadIs
<1>8. (coE + 1) % UINT = (coR + INPUT_BUF) % UINT <=> u + l + 1 = INPUT_BUF
  BY <1>1, <1>2, <1>4, <1>7
<1> QED
  BY <1>8 DEF Console0!EndsLine, Ends

LEMMA KeyPuts ==
  ASSUME NEW u, NEW l, ConsoleAt(coBuf, coR, coW, coE, coReader, u, l),
         NEW c \in Typed, Console0!Key(c)
  PROVE  /\ u + l < INPUT_BUF
         /\ coBuf' = PutAt(coBuf, coW, l, c) /\ coBuf' = PutAt(coBuf, coR, u + l, c)
<1>1. Placed(coR, coW, coE, u, l)
  BY DEF ConsoleAt
<1>2. /\ coR \in Counter /\ coW \in Counter /\ u \in Nat /\ l \in Nat
      /\ coE = (coW + l) % UINT /\ coE = (coR + (u + l)) % UINT
      /\ Console0!Ahead(coE, coR) = u + l
      /\ u + l \in Nat /\ u + l <= UINT /\ l <= UINT
  <2>1. u + l < UINT /\ u \in Nat /\ l \in Nat /\ UINT \in Nat
    BY <1>1, PlacedIs, ConsoleSizes
  <2>2. u + l \in Nat /\ u + l <= UINT /\ l <= UINT
    BY <2>1
  <2> QED
    BY <1>1, <2>2, PlacedIs DEF Placed
<1>3. coBuf' = [coBuf EXCEPT ![coE % INPUT_BUF] = c]
  BY DEF Console0!Key
<1>4. coBuf' = PutAt(coBuf, coW, l, c)
  BY <1>2, <1>3, PutHere
<1>5. coBuf' = PutAt(coBuf, coR, u + l, c)
  <2>1. PICK n \in Nat : n = u + l
    BY <1>2
  <2>2. n <= UINT /\ coE = (coR + n) % UINT
    BY <1>2, <2>1
  <2>3. coBuf' = PutAt(coBuf, coR, n, c)
    BY <1>2, <1>3, <2>2, PutHere
  <2> QED
    BY <2>1, <2>3
<1> QED
  BY <1>2, <1>4, <1>5 DEF Console0!Key, Console0!Room

LEMMA KeyEndsLine ==
  ASSUME NEW u, NEW l, ConsoleAt(coBuf, coR, coW, coE, coReader, u, l),
         NEW c \in Typed, Console0!Key(c), c \in Ends \/ u + l + 1 = INPUT_BUF
  PROVE  ConsoleInv' /\ LineStep
<1>1. Placed(coR, coW, coE, u, l) /\ coBuf \in Ring
  BY DEF ConsoleAt
<1>2. /\ coR \in Counter /\ coW \in Counter /\ u \in Nat /\ l \in Nat
      /\ u + l \in Nat /\ u + l + 1 \in Nat /\ u <= UINT
  <2>1. /\ coR \in Counter /\ coW \in Counter /\ u \in Nat /\ l \in Nat
        /\ u + l < UINT /\ UINT \in Nat
    BY <1>1, PlacedIs, ConsoleSizes
  <2> QED
    BY <2>1
<1>3. u + l < INPUT_BUF /\ coBuf' = PutAt(coBuf, coR, u + l, c)
  BY KeyPuts
<1>4. Console0!EndsLine(c)
  BY <1>1, <1>3, KeyEnds
<1>5. coR' = coR /\ coE' = (coE + 1) % UINT /\ coW' = coE' /\ Console0!WakeReaders
  BY <1>4 DEF Console0!Key, Console0!Wakes
<1>6. Placed(coR', coW', coE', u + l + 1, 0)
  BY <1>1, <1>3, <1>5, PlacedKey
<1>7. coBuf' \in Ring
  BY <1>1, <1>2, <1>3, NthPut
<1>8. /\ coReader' \in Readers
      /\ \A p \in Twin : coReader'[p].state # "asleep"
      /\ \A p \in Twin : coReader'[p].state # "user" => coReader'[p].n # 0
  BY <1>5, WokenReaders DEF ConsoleAt
<1>9. ConsoleAt(coBuf', coR', coW', coE', coReader', u + l + 1, 0)
  BY <1>6, <1>7, <1>8 DEF ConsoleAt
<1>10. ConsoleInv'
  BY <1>2, <1>9 DEF ConsoleInv
<1>11. PICK ready \in Seq(Typed) : ready = Stretch(coBuf, coR, u)
  BY <1>1, <1>2, StretchIs
<1>12. PICK line \in Seq(Typed) : line = Stretch(coBuf, coW, l)
  BY <1>1, <1>2, StretchIs
<1>13. Stretch(coBuf, coR, u + l) = ready \o line
  <2>1. coW = (coR + u) % UINT
    BY <1>1 DEF Placed
  <2>2. Stretch(coBuf, coR, u + l)
          = Stretch(coBuf, coR, u) \o Stretch(coBuf, (coR + u) % UINT, l)
    BY <1>1, <1>2, StretchJoin
  <2> QED
    BY <1>11, <1>12, <2>1, <2>2
<1>14. Stretch(coBuf', coR', u + l + 1) = Append(ready \o line, c)
  <2>1. PICK n \in Nat : n = u + l
    BY <1>2
  <2>2. Stretch(PutAt(coBuf, coR, n, c), coR, n + 1) = Append(Stretch(coBuf, coR, n), c)
    BY <1>1, <1>2, <1>3, <2>1, StretchPut
  <2> QED
    BY <1>3, <1>5, <1>13, <2>1, <2>2
<1>15. Append(ready \o line, c) = ready \o Append(line, c)
  <2>1. ready \o line \in Seq(Typed)
    BY ConcatProperties
  <2>2. /\ Append(ready \o line, c) = (ready \o line) \o <<c>>
        /\ Append(line, c) = line \o <<c>>
    BY <2>1, AppendIsConcat
  <2>3. <<c>> \in Seq(Typed)
    OBVIOUS
  <2>4. (ready \o line) \o <<c>> = ready \o (line \o <<c>>)
    BY <2>3, ConcatAssociative
  <2> QED
    BY <2>2, <2>4
<1>16. PICK ready2 : ready2 = Stretch(coBuf', coR', u + l + 1)
  OBVIOUS
<1>17. PICK line2 : line2 = Stretch(coBuf', coW', 0)
  OBVIOUS
<1>18. line2 = <<>>
  <2>1. coW' \in Counter
    BY <1>6, PlacedIs
  <2>2. line2 \in Seq(Typed) /\ Len(line2) = 0
    BY <1>7, <1>17, <2>1, StretchIs
  <2> QED
    BY <2>2, EmptySeq
<1>19. u + l # INPUT_BUF
  BY <1>2, <1>3
<1>20. ready2 = ready \o Append(line, c)
  BY <1>14, <1>15, <1>16
<1>21. Console0!Lines!Type(c)
  <2>1. Views(u, l, u + l + 1, 0, ready, line, ready2, line2)
    BY <1>1, <1>6, <1>7, <1>11, <1>12, <1>16, <1>17 DEF Views
  <2> QED
    BY <1>18, <1>19, <1>20, <2>1, TypeEnds
<1> QED
  BY <1>10, <1>21 DEF LineStep, Console0!Lines!Next

LEMMA KeyInLine ==
  ASSUME NEW u, NEW l, ConsoleAt(coBuf, coR, coW, coE, coReader, u, l),
         NEW c \in Typed, Console0!Key(c), ~ (c \in Ends \/ u + l + 1 = INPUT_BUF)
  PROVE  ConsoleInv' /\ LineStep
<1>1. Placed(coR, coW, coE, u, l) /\ coBuf \in Ring
  BY DEF ConsoleAt
<1>2. /\ coR \in Counter /\ coW \in Counter /\ u \in Nat /\ l \in Nat
      /\ u + l \in Nat /\ u <= u + l /\ l + 1 \in Nat /\ INPUT_BUF \in Nat
  <2>1. /\ coR \in Counter /\ coW \in Counter /\ u \in Nat /\ l \in Nat /\ INPUT_BUF \in Nat
    BY <1>1, PlacedIs, ConsoleSizes
  <2> QED
    BY <2>1
<1>3. /\ u + l < INPUT_BUF /\ coBuf' = PutAt(coBuf, coR, u + l, c)
      /\ coBuf' = PutAt(coBuf, coW, l, c) /\ l < INPUT_BUF
  BY <1>2, KeyPuts
<1>4. ~ Console0!EndsLine(c)
  BY <1>1, <1>3, KeyEnds
<1>5. coR' = coR /\ coE' = (coE + 1) % UINT /\ coW' = coW /\ coReader' = coReader
  BY <1>4 DEF Console0!Key
<1>6. Placed(coR', coW', coE', u, l + 1)
  BY <1>1, <1>3, <1>5, PlacedKey
<1>7. coBuf' \in Ring
  BY <1>1, <1>2, <1>3, NthPut
<1>8. ASSUME NEW k \in 1 .. l + 1 PROVE Nth0(coBuf', coW', k) \notin Ends
  <2>1. CASE k = l + 1
    <3>1. Nth0(coBuf', coW', l + 1) = c
      BY <1>1, <1>2, <1>3, <1>5, NthPut
    <3> QED
      BY <2>1, <3>1
  <2>2. CASE k # l + 1
    <3>1. k \in 1 .. l
      BY <1>2, <2>2
    <3>2. Nth0(coBuf', coW', k) = Nth0(coBuf, coW, k)
      BY <1>1, <1>2, <1>3, <1>5, <3>1, NthPut
    <3> QED
      BY <3>1, <3>2 DEF ConsoleAt
  <2> QED
    BY <2>1, <2>2
<1>9. u + (l + 1) # INPUT_BUF
  BY <1>2
<1>10. ConsoleAt(coBuf', coR', coW', coE', coReader', u, l + 1)
  BY <1>5, <1>6, <1>7, <1>8, <1>9 DEF ConsoleAt
<1>11. ConsoleInv'
  BY <1>2, <1>10 DEF ConsoleInv
<1>12. Stretch(coBuf', coR', u) = Stretch(coBuf, coR, u)
  BY <1>1, <1>2, <1>3, <1>5, StretchKeep
<1>13. Stretch(coBuf', coW', l + 1) = Append(Stretch(coBuf, coW, l), c)
  BY <1>1, <1>2, <1>3, <1>5, StretchPut
<1>14. PICK ready : ready = Stretch(coBuf, coR, u)
  OBVIOUS
<1>15. PICK line : line = Stretch(coBuf, coW, l)
  OBVIOUS
<1>16. PICK ready2 : ready2 = Stretch(coBuf', coR', u)
  OBVIOUS
<1>17. PICK line2 : line2 = Stretch(coBuf', coW', l + 1)
  OBVIOUS
<1>18. u + l # INPUT_BUF
  BY <1>2, <1>3
<1>19. line2 = Append(line, c) /\ ready2 = ready
  BY <1>12, <1>13, <1>14, <1>15, <1>16, <1>17
<1>20. Console0!Lines!Type(c)
  <2>1. Views(u, l, u, l + 1, ready, line, ready2, line2)
    BY <1>1, <1>6, <1>7, <1>14, <1>15, <1>16, <1>17 DEF Views
  <2> QED
    BY <1>18, <1>19, <2>1, TypeIn
<1> QED
  BY <1>11, <1>20 DEF LineStep, Console0!Lines!Next


LEMMA BackspaceKeeps ==
  ASSUME NEW u, NEW l, ConsoleAt(coBuf, coR, coW, coE, coReader, u, l), Console0!Backspace
  PROVE  ConsoleInv' /\ LineStep
<1>1. Placed(coR, coW, coE, u, l) /\ coBuf \in Ring
  BY DEF ConsoleAt
<1>2. /\ coR \in Counter /\ coW \in Counter /\ u \in Nat /\ l \in Nat
      /\ coE = coW <=> l = 0
  BY <1>1, PlacedIs
<1>3. /\ l # 0 /\ coE' = (coE - 1) % UINT /\ coBuf' = coBuf /\ coR' = coR /\ coW' = coW
      /\ coReader' = coReader
  BY <1>2 DEF Console0!Backspace, Console0!LineLeft
<1>4. 1 \in 0 .. l /\ l - 1 \in Nat /\ l \in Nat \ {0}
  BY <1>2, <1>3
<1>5. Placed(coR', coW', coE', u, l - 1)
  BY <1>1, <1>3, <1>4, PlacedErase
<1>6. u + (l - 1) = INPUT_BUF => l - 1 = 0
  BY <1>1, <1>2, <1>4 DEF Placed
<1>7. ConsoleAt(coBuf', coR', coW', coE', coReader', u, l - 1)
  BY <1>2, <1>3, <1>5, <1>6 DEF ConsoleAt
<1>8. ConsoleInv'
  BY <1>2, <1>4, <1>7 DEF ConsoleInv
<1>9. Stretch(coBuf', coW', l - 1) = SubSeq(Stretch(coBuf, coW, l), 1, l - 1)
  BY <1>1, <1>2, <1>3, <1>4, StretchFront
<1>10. PICK ready : ready = Stretch(coBuf, coR, u)
  OBVIOUS
<1>11. PICK line : line = Stretch(coBuf, coW, l)
  OBVIOUS
<1>12. PICK line2 : line2 = Stretch(coBuf', coW', l - 1)
  OBVIOUS
<1>13. line # <<>>
  <2>1. Len(line) = l
    BY <1>1, <1>2, <1>11, StretchIs
  <2> QED
    BY <1>3, <2>1
<1>14. Views(u, l, u, l - 1, ready, line, ready, line2)
  BY <1>1, <1>3, <1>5, <1>10, <1>11, <1>12 DEF Views
<1>15. line2 = SubSeq(line, 1, l - 1)
  BY <1>9, <1>11, <1>12
<1>16. Console0!Lines!Erase
  BY <1>13, <1>14, <1>15, LineErased
<1> QED
  BY <1>8, <1>16 DEF LineStep, Console0!Lines!Next

\* no newline is in the line: the loop goes back to w
LEMMA KillsAll ==
  ASSUME NEW u, NEW l, ConsoleAt(coBuf, coR, coW, coE, coReader, u, l),
         NEW k \in 0 .. l
  PROVE  ((coE - k) % UINT = coW \/ coBuf[(coE - k - 1) % INPUT_BUF] = Newline) <=> k = l
<1>1. Placed(coR, coW, coE, u, l)
  BY DEF ConsoleAt
<1>2. /\ coW \in Counter /\ coE \in Counter /\ l \in Nat /\ l < UINT /\ coE = (coW + l) % UINT
      /\ UINT \in Nat \ {0} /\ coW \in Nat /\ coW < UINT /\ l <= UINT
      /\ INPUT_BUF \in Nat \ {0}
  <2>1. /\ coW \in Counter /\ coE \in Counter /\ l \in Nat /\ coE = (coW + l) % UINT
        /\ u + l < UINT /\ u \in Nat /\ UINT \in Nat \ {0} /\ INPUT_BUF \in Nat \ {0}
    BY <1>1, PlacedIs, ConsoleSizes
  <2> QED
    BY <2>1 DEF Counter
<1>3. PICK n \in Nat : n = l - k
  BY <1>2
<1>4. n <= UINT /\ n < UINT /\ 0 \in 0 .. n /\ 0 <= UINT
  BY <1>2, <1>3
<1>5. (coE - k) % UINT = (coW + n) % UINT
  BY <1>2, <1>3, MovedBack
<1>6. coW = (coW + 0) % UINT
  <2>1. (coW + 0) % UINT = IF coW + 0 < UINT THEN coW + 0 ELSE coW + 0 - UINT
    BY <1>2, <1>4, Forward
  <2> QED
    BY <1>2, <2>1
<1>7. Console0!Ahead((coW + n) % UINT, coW) = n
  <2>1. Console0!Ahead((coW + n) % UINT, (coW + 0) % UINT) = n - 0
    BY <1>2, <1>4, Distance
  <2> QED
    BY <1>6, <2>1
<1>8. (coE - k) % UINT = coW <=> n = 0
  BY <1>2, <1>4, <1>5, <1>7, Forward, AheadIs
<1>9. CASE n = 0
  <2>1. k = l
    BY <1>2, <1>3, <1>9
  <2> QED
    BY <1>8, <1>9, <2>1
<1>10. CASE n # 0
  <2>1. PICK q \in Int : UINT = q * INPUT_BUF
    BY ConsoleSizes
  <2>2. coE = coW + l \/ coE = coW + l - UINT
    BY <1>2, Forward
  <2>3. PICK a \in Int : a = coW + n - 1
    BY <1>2
  <2>4. PICK c \in Int : c = coE - k - 1
    <3>1. coE \in Int /\ k \in Int
      BY <1>2 DEF Counter
    <3> QED
      BY <3>1
  <2>5. c = a \/ c = a - UINT
    BY <1>2, <1>3, <2>2, <2>3, <2>4
  <2>6. c % INPUT_BUF = a % INPUT_BUF
    <3>1. CASE c = a - UINT
      <4>1. a = c + q * INPUT_BUF
        BY <1>2, <2>1, <3>1
      <4> QED
        BY <1>2, <4>1, SameMod
    <3> QED
      BY <2>5, <3>1
  <2>7. coBuf[(coE - k - 1) % INPUT_BUF] = Nth0(coBuf, coW, n)
    BY <2>3, <2>4, <2>6 DEF Nth0
  <2>8. n \in 1 .. l /\ k # l
    BY <1>2, <1>3, <1>10
  <2>9. Nth0(coBuf, coW, n) # Newline
    BY <2>8 DEF ConsoleAt, Ends
  <2> QED
    BY <1>8, <1>10, <2>7, <2>8, <2>9
<1> QED
  BY <1>9, <1>10

LEMMA KillLineKeeps ==
  ASSUME NEW u, NEW l, ConsoleAt(coBuf, coR, coW, coE, coReader, u, l), Console0!KillLine
  PROVE  ConsoleInv' /\ LineStep
<1>1. Placed(coR, coW, coE, u, l) /\ coBuf \in Ring
  BY DEF ConsoleAt
<1>2. /\ coR \in Counter /\ coW \in Counter /\ u \in Nat /\ l \in Nat
      /\ coE = coW <=> l = 0
      /\ Console0!Ahead(coE, coW) = l
  BY <1>1, PlacedIs
<1>3. /\ l # 0 /\ coBuf' = coBuf /\ coR' = coR /\ coW' = coW /\ coReader' = coReader
  BY <1>2 DEF Console0!KillLine, Console0!LineLeft
<1>4. PICK T : T = {k \in 0 .. l : (coE - k) % UINT = coW
                                     \/ coBuf[(coE - k - 1) % INPUT_BUF] = Newline}
  OBVIOUS
<1>5. T = {l}
  <2>1. \A k \in 0 .. l : ((coE - k) % UINT = coW
                            \/ coBuf[(coE - k - 1) % INPUT_BUF] = Newline) <=> k = l
    BY KillsAll
  <2>2. l \in 0 .. l
    BY <1>2
  <2> QED
    BY <1>4, <2>1, <2>2
<1>6. Console0!Min(T) = l
  <2>1. Console0!Min(T) = CHOOSE x \in T : \A y \in T : x <= y
    BY DEF Console0!Min
  <2>2. l <= l
    BY <1>2
  <2> QED
    BY <1>5, <2>1, <2>2
<1>7. coE' = (coE - l) % UINT
  <2>1. coE' = (coE - Console0!Min(T)) % UINT
    BY <1>2, <1>4 DEF Console0!KillLine
  <2> QED
    BY <1>6, <2>1
<1>8. Placed(coR', coW', coE', u, l - l) /\ l - l = 0
  <2>1. l \in 0 .. l
    BY <1>2
  <2>2. Placed(coR, coW, (coE - l) % UINT, u, l - l)
    BY <1>1, <2>1, PlacedErase
  <2> QED
    BY <1>2, <1>3, <1>7, <2>2
<1>9. ConsoleAt(coBuf', coR', coW', coE', coReader', u, 0)
  BY <1>3, <1>8 DEF ConsoleAt
<1>10. ConsoleInv'
  BY <1>2, <1>9 DEF ConsoleInv
<1>11. PICK ready : ready = Stretch(coBuf, coR, u)
  OBVIOUS
<1>12. PICK line : line = Stretch(coBuf, coW, l)
  OBVIOUS
<1>13. PICK line2 : line2 = Stretch(coBuf', coW', 0)
  OBVIOUS
<1>14. line # <<>>
  <2>1. Len(line) = l
    BY <1>1, <1>2, <1>12, StretchIs
  <2> QED
    BY <1>3, <2>1
<1>15. line2 = <<>>
  <2>1. line2 \in Seq(Typed) /\ Len(line2) = 0
    BY <1>1, <1>2, <1>3, <1>13, StretchIs
  <2> QED
    BY <2>1, EmptySeq
<1>16. Views(u, l, u, 0, ready, line, ready, line2)
  BY <1>1, <1>3, <1>8, <1>11, <1>12, <1>13 DEF Views
<1>17. Console0!Lines!Erase
  BY <1>14, <1>15, <1>16, LineErased
<1> QED
  BY <1>10, <1>17 DEF LineStep, Console0!Lines!Next

\* k characters are read, and the readers move on
LEMMA ReadKeeps ==
  ASSUME NEW u, NEW l, ConsoleAt(coBuf, coR, coW, coE, coReader, u, l),
         NEW j \in 0 .. u, \A i \in 1 .. j - 1 : Nth0(coBuf, coR, i) \notin Ends,
         coR' = (coR + j) % UINT, coBuf' = coBuf, coW' = coW, coE' = coE,
         coReader' \in Readers,
         \A p \in Twin : coReader'[p].state = "asleep" => j = u,
         \A p \in Twin : coReader'[p].state # "user" => coReader'[p].n # 0
  PROVE  ConsoleInv' /\ LineStep
<1>1. Placed(coR, coW, coE, u, l) /\ coBuf \in Ring
  BY DEF ConsoleAt
<1>2. /\ coR \in Counter /\ coW \in Counter /\ u \in Nat /\ l \in Nat /\ u + l <= INPUT_BUF
      /\ j \in Nat /\ u <= UINT /\ u - j \in Nat /\ j <= u /\ INPUT_BUF \in Nat
  <2>1. /\ coR \in Counter /\ coW \in Counter /\ u \in Nat /\ l \in Nat /\ u + l <= INPUT_BUF
        /\ u + l < UINT /\ UINT \in Nat /\ INPUT_BUF \in Nat
    BY <1>1, PlacedIs, ConsoleSizes
  <2> QED
    BY <2>1
<1>3. Placed(coR', coW', coE', u - j, l)
  BY <1>1, PlacedRead
<1>4. (u - j) + l = INPUT_BUF => l = 0
  <2>1. (u - j) + l = INPUT_BUF => u + l = INPUT_BUF
    BY <1>2
  <2> QED
    BY <2>1 DEF ConsoleAt
<1>5. \A p \in Twin : coReader'[p].state = "asleep" => u - j = 0
  BY <1>2
<1>6. ConsoleAt(coBuf', coR', coW', coE', coReader', u - j, l)
  BY <1>1, <1>3, <1>4, <1>5 DEF ConsoleAt
<1>7. ConsoleInv'
  BY <1>2, <1>6 DEF ConsoleInv
<1>8. Stretch(coBuf, (coR + j) % UINT, u - j) = SubSeq(Stretch(coBuf, coR, u), j + 1, u)
  BY <1>1, <1>2, StretchTail
<1>9. PICK ready : ready = Stretch(coBuf, coR, u)
  OBVIOUS
<1>10. PICK line : line = Stretch(coBuf, coW, l)
  OBVIOUS
<1>11. PICK ready2 : ready2 = Stretch(coBuf', coR', u - j)
  OBVIOUS
<1>12. Views(u, l, u - j, l, ready, line, ready2, line)
  BY <1>1, <1>3, <1>9, <1>10, <1>11 DEF Views
<1>13. CASE j = 0
  <2>1. coR' = coR
    <3>1. (coR + 0) % UINT = IF coR + 0 < UINT THEN coR + 0 ELSE coR + 0 - UINT
      BY <1>2, ConsoleSizes, Forward
    <3> QED
      BY <1>2, <1>13, <3>1, ConsoleSizes DEF Counter
  <2>2. u - j = u
    BY <1>2, <1>13
  <2>3. ready2 = ready
    BY <1>9, <1>11, <2>1, <2>2
  <2> QED
    BY <1>7, <1>12, <2>3, LinesStay DEF LineStep
<1>14. CASE j # 0
  <2>1. j \in 1 .. u
    BY <1>2, <1>14
  <2>2. ready2 = SubSeq(ready, j + 1, u)
    BY <1>8, <1>9, <1>11
  <2>3. Console0!Lines!Read
    BY <1>12, <2>1, <2>2, LineRead
  <2> QED
    BY <1>7, <2>3 DEF LineStep, Console0!Lines!Next
<1> QED
  BY <1>13, <1>14


\* only the readers change
LEMMA OnlyReaders ==
  ASSUME NEW u, NEW l, ConsoleAt(coBuf, coR, coW, coE, coReader, u, l),
         coR' = coR, coBuf' = coBuf, coW' = coW, coE' = coE, coReader' \in Readers,
         \A p \in Twin : coReader'[p].state = "asleep" => u = 0,
         \A p \in Twin : coReader'[p].state # "user" => coReader'[p].n # 0
  PROVE  ConsoleInv' /\ LineStep
<1>1. u \in Nat /\ l \in Nat
  BY PlacedIs DEF ConsoleAt
<1>2. ConsoleAt(coBuf', coR', coW', coE', coReader', u, l)
  BY DEF ConsoleAt
<1>3. ConsoleInv'
  BY <1>1, <1>2 DEF ConsoleInv
<1>4. UNCHANGED Console0!Lines!vars
  BY DEF Console0!Lines!vars, Console0!Between, Console0!Ahead
<1> QED
  BY <1>3, <1>4 DEF LineStep

LEMMA ReaderAsks ==
  ASSUME NEW u, NEW l, ConsoleAt(coBuf, coR, coW, coE, coReader, u, l),
         NEW p \in Twin, NEW n \in 1 .. MaxRead, Console0!Read(p, n)
  PROVE  ConsoleInv' /\ LineStep
<1>1. /\ coReader \in Readers /\ coReader[p] \in Console0!Reader
      /\ Placed(coR, coW, coE, u, l)
  BY DEF ConsoleAt, Readers
<1>2. n \in 0 .. MaxRead /\ n # 0
  BY ConsoleSizes
<1>3. PICK x : x = [coReader[p] EXCEPT !.state = "ready", !.target = n, !.n = n]
  OBVIOUS
<1>4. x \in Console0!Reader /\ x.state = "ready" /\ x.n = n
  BY <1>1, <1>2, <1>3 DEF Console0!Reader
<1>5. coReader' = [coReader EXCEPT ![p] = x]
  BY <1>3 DEF Console0!Read
<1>6. coReader' \in Readers /\ \A q \in Twin : coReader'[q] = IF q = p THEN x ELSE coReader[q]
  BY <1>1, <1>4, <1>5 DEF Readers
<1>7. coBuf' = coBuf /\ coR' = coR /\ coW' = coW /\ coE' = coE
  BY DEF Console0!Read
<1>8. \A q \in Twin : coReader'[q].state = "asleep" => u = 0
  BY <1>4, <1>6 DEF ConsoleAt
<1>9. \A q \in Twin : coReader'[q].state # "user" => coReader'[q].n # 0
  BY <1>2, <1>4, <1>6 DEF ConsoleAt
<1> QED
  BY <1>6, <1>7, <1>8, <1>9, OnlyReaders

LEMMA ReaderKilled ==
  ASSUME NEW u, NEW l, ConsoleAt(coBuf, coR, coW, coE, coReader, u, l),
         NEW p \in Twin, Console0!Kill(p)
  PROVE  ConsoleInv' /\ LineStep
<1>1. coReader \in Readers /\ coReader[p] \in Console0!Reader
  BY DEF ConsoleAt, Readers
<1>2. PICK s : s = IF coReader[p].state = "asleep" THEN "ready" ELSE coReader[p].state
  OBVIOUS
<1>3. PICK x : x = [coReader[p] EXCEPT !.killed = TRUE, !.state = s]
  OBVIOUS
<1>4. /\ x \in Console0!Reader /\ x.state # "asleep" /\ x.n = coReader[p].n
      /\ x.state # "user" => coReader[p].state # "user"
  BY <1>1, <1>2, <1>3 DEF Console0!Reader
<1>5. coReader' = [coReader EXCEPT ![p] = x]
  BY <1>1, <1>2, <1>3 DEF Console0!Kill, Readers
<1>6. coReader' \in Readers /\ \A q \in Twin : coReader'[q] = IF q = p THEN x ELSE coReader[q]
  BY <1>1, <1>4, <1>5 DEF Readers
<1>7. coBuf' = coBuf /\ coR' = coR /\ coW' = coW /\ coE' = coE
  BY DEF Console0!Kill
<1>8. \A q \in Twin : coReader'[q].state = "asleep" => u = 0
  BY <1>4, <1>6 DEF ConsoleAt
<1>9. \A q \in Twin : coReader'[q].state # "user" => coReader'[q].n # 0
  BY <1>4, <1>6 DEF ConsoleAt
<1> QED
  BY <1>6, <1>7, <1>8, <1>9, OnlyReaders

LEMMA MinIs ==
  ASSUME NEW T \in SUBSET Nat, T # {}
  PROVE  Console0!Min(T) \in T /\ \A y \in T : Console0!Min(T) <= y
<1>1. \E x \in T : \A y \in T : x <= y
  BY Least
<1>2. Console0!Min(T) = CHOOSE x \in T : \A y \in T : x <= y
  BY DEF Console0!Min
<1> QED
  BY <1>1, <1>2

\* what consoleread() takes: not beyond the end of a line, nor more than asked for
LEMMA TakenIs ==
  ASSUME NEW u \in Nat, u # 0, Console0!Ahead(coW, coR) = u, NEW p \in Twin,
         NEW n \in Nat, n = coReader[p].n, n # 0, NEW k, k = Console0!Taken(p)
  PROVE  /\ k \in 1 .. u /\ k <= n
         /\ \A i \in 1 .. k - 1 : Nth0(coBuf, coR, i) \notin Ends
         /\ k = u \/ k = n \/ Nth0(coBuf, coR, k) \in Ends
         /\ Console0!Waiting(k) = Nth0(coBuf, coR, k)
<1>1. PICK m : m = Console0!Min({n, u})
  OBVIOUS
<1>2. m \in {n, u} /\ m <= n /\ m <= u
  <2>1. {n, u} \in SUBSET Nat /\ {n, u} # {}
    OBVIOUS
  <2>2. m \in {n, u} /\ \A y \in {n, u} : m <= y
    BY <1>1, <2>1, MinIs
  <2> QED
    BY <2>2
<1>3. \A i : Console0!Waiting(i) = Nth0(coBuf, coR, i)
  BY DEF Console0!Waiting, Nth0
<1>4. PICK T : T = {m} \cup {i \in 1 .. m : Console0!Waiting(i) \in {Newline, Eof}}
  OBVIOUS
<1>5. k = Console0!Min(T)
  BY <1>1, <1>4 DEF Console0!Taken
<1>6. T \in SUBSET Nat /\ T # {} /\ m \in T /\ m \in Nat
  BY <1>2, <1>4
<1>7. k \in T /\ \A y \in T : k <= y
  <2>1. T \in SUBSET Nat /\ T # {}
    BY <1>6
  <2>2. Console0!Min(T) \in T /\ \A y \in T : Console0!Min(T) <= y
    BY <2>1, MinIs
  <2> QED
    BY <1>5, <2>2
<1>8. k \in 1 .. u /\ k <= n /\ k <= m
  BY <1>2, <1>4, <1>6, <1>7
<1>9. ASSUME NEW i \in 1 .. k - 1 PROVE Nth0(coBuf, coR, i) \notin Ends
  <2>1. i \in 1 .. m /\ ~ (k <= i)
    BY <1>2, <1>8
  <2>2. i \notin T
    BY <1>7, <2>1
  <2>3. Console0!Waiting(i) \notin {Newline, Eof}
    BY <1>4, <2>1, <2>2
  <2> QED
    BY <1>3, <2>3 DEF Ends
<1>10. k = u \/ k = n \/ Nth0(coBuf, coR, k) \in Ends
  <2>1. CASE k = m
    BY <1>2, <2>1
  <2>2. CASE k # m
    BY <1>3, <1>4, <1>7, <2>2 DEF Ends
  <2> QED
    BY <2>1, <2>2
<1> QED
  BY <1>3, <1>8, <1>9, <1>10

\* the call of p is over
LEMMA ReaderReturns ==
  ASSUME coReader \in Readers, NEW p \in Twin, NEW b \in BOOLEAN
  PROVE  /\ Console0!Returned(p, b) \in Console0!Reader
         /\ Console0!Returned(p, b).state = "user"
<1>1. coReader[p] \in Console0!Reader /\ 0 \in 0 .. MaxRead
  BY ConsoleSizes DEF Readers
<1> QED
  BY <1>1 DEF Console0!Returned, Console0!Reader

\* j characters are taken, and p is left with x
LEMMA ReaderTakes ==
  ASSUME NEW u, NEW l, ConsoleAt(coBuf, coR, coW, coE, coReader, u, l),
         NEW j \in 0 .. u, \A i \in 1 .. j - 1 : Nth0(coBuf, coR, i) \notin Ends,
         coR' = (coR + j) % UINT, coBuf' = coBuf, coW' = coW, coE' = coE,
         NEW p \in Twin, NEW x \in Console0!Reader, coReader' = [coReader EXCEPT ![p] = x],
         x.state = "asleep" => j = u, x.state # "user" => x.n # 0
  PROVE  ConsoleInv' /\ LineStep
<1>1. coReader \in Readers /\ u \in Nat
  BY PlacedIs DEF ConsoleAt
<1>2. coReader' \in Readers /\ \A q \in Twin : coReader'[q] = IF q = p THEN x ELSE coReader[q]
  BY <1>1 DEF Readers
<1>3. \A q \in Twin : coReader'[q].state = "asleep" => j = u
  <2>1. \A q \in Twin : coReader[q].state = "asleep" => u = 0
    BY DEF ConsoleAt
  <2>2. u = 0 => j = u
    BY <1>1
  <2> QED
    BY <1>2, <2>1, <2>2
<1>4. \A q \in Twin : coReader'[q].state # "user" => coReader'[q].n # 0
  BY <1>2 DEF ConsoleAt
<1> QED
  BY <1>2, <1>3, <1>4, ReadKeeps

LEMMA consolereadKeeps ==
  ASSUME NEW u, NEW l, ConsoleAt(coBuf, coR, coW, coE, coReader, u, l),
         NEW p \in Twin, Console0!consoleread(p)
  PROVE  ConsoleInv' /\ LineStep
<1>1. Placed(coR, coW, coE, u, l) /\ coReader \in Readers
  BY DEF ConsoleAt
<1>2. /\ coR \in Counter /\ u \in Nat
      /\ coR = coW <=> u = 0
      /\ Console0!Ahead(coW, coR) = u
  BY <1>1, PlacedIs
<1>3. /\ coBuf' = coBuf /\ coW' = coW /\ coE' = coE /\ coReader[p].state = "ready"
      /\ coReader[p] \in Console0!Reader /\ coReader[p].n # 0
  BY <1>1 DEF Console0!consoleread, Readers, ConsoleAt
<1>4. PICK n \in 0 .. MaxRead : n = coReader[p].n
  BY <1>3 DEF Console0!Reader
<1>5. n # 0 /\ n \in Nat
  BY <1>3, <1>4, ConsoleSizes
<1>6. PICK k : k = Console0!Taken(p)
  OBVIOUS
<1>7. coR = (coR + 0) % UINT
  <2>1. (coR + 0) % UINT = IF coR + 0 < UINT THEN coR + 0 ELSE coR + 0 - UINT
    BY <1>2, ConsoleSizes, Forward
  <2> QED
    BY <1>2, <2>1, ConsoleSizes DEF Counter
<1>8. \A i \in 1 .. 0 - 1 : FALSE
  OBVIOUS
<1>9. 0 \in 0 .. u
  BY <1>2
<1>10. CASE /\ coR = coW /\ coR' = coR
            /\ coReader' = [coReader EXCEPT ![p] = Console0!Returned(p, FALSE)]
  <2>1. PICK x : x = Console0!Returned(p, FALSE)
    OBVIOUS
  <2>2. x \in Console0!Reader /\ x.state = "user"
    BY <1>1, <2>1, ReaderReturns
  <2>3. coR' = (coR + 0) % UINT
    BY <1>7, <1>10
  <2>4. coReader' = [coReader EXCEPT ![p] = x]
    BY <1>10, <2>1
  <2> QED
    BY <1>3, <1>8, <1>9, <2>2, <2>3, <2>4, ReaderTakes
<1>11. CASE coR = coW /\ coR' = coR /\ coReader' = [coReader EXCEPT ![p].state = "asleep"]
  <2>1. PICK x : x = [coReader[p] EXCEPT !.state = "asleep"]
    OBVIOUS
  <2>2. x \in Console0!Reader /\ x.n = n
    BY <1>3, <1>4, <2>1 DEF Console0!Reader
  <2>3. coR' = (coR + 0) % UINT
    BY <1>7, <1>11
  <2>4. coReader' = [coReader EXCEPT ![p] = x]
    BY <1>1, <1>11, <2>1 DEF Readers
  <2>5. 0 = u
    BY <1>2, <1>11
  <2> QED
    BY <1>3, <1>5, <1>8, <1>9, <2>2, <2>3, <2>4, <2>5, ReaderTakes
<1>12. coR # coW =>
        /\ k \in 1 .. u /\ k <= n
        /\ \A i \in 1 .. k - 1 : Nth0(coBuf, coR, i) \notin Ends
        /\ k = u \/ k = n \/ Nth0(coBuf, coR, k) \in Ends
        /\ Console0!Waiting(k) = Nth0(coBuf, coR, k)
  BY <1>2, <1>4, <1>5, <1>6, TakenIs
<1>13. CASE /\ coR # coW /\ coR' = (coR + IF Console0!SaveEof(p, k) THEN k - 1 ELSE k) % UINT
            /\ coReader' = [coReader EXCEPT ![p] = Console0!Returned(p, Console0!SaveEof(p, k))]
  <2>1. PICK b \in BOOLEAN : b = Console0!SaveEof(p, k)
    <3>1. PICK t \in Int : t = coReader[p].target
      BY <1>3, ConsoleSizes DEF Console0!Reader
    <3>2. PICK i \in Int : i = n - (k - 1)
      BY <1>5, <1>12, <1>13
    <3>3. Console0!SaveEof(p, k) = (i < t)
      BY <1>4, <3>1, <3>2 DEF Console0!SaveEof
    <3>4. (i < t) \in BOOLEAN
      OBVIOUS
    <3> QED
      BY <3>3, <3>4
  <2>2. PICK x : x = Console0!Returned(p, b)
    OBVIOUS
  <2>3. x \in Console0!Reader /\ x.state = "user"
    BY <1>1, <2>2, ReaderReturns
  <2>4. coReader' = [coReader EXCEPT ![p] = x]
    BY <1>13, <2>1, <2>2
  <2>5. PICK j \in {k - 1, k} : j = IF b THEN k - 1 ELSE k
    OBVIOUS
  <2>6. coR' = (coR + j) % UINT
    BY <1>13, <2>1, <2>5
  <2>7. j \in 0 .. u /\ \A i \in 1 .. j - 1 : i \in 1 .. k - 1
    BY <1>2, <1>12, <1>13, <2>5
  <2>8. \A i \in 1 .. j - 1 : Nth0(coBuf, coR, i) \notin Ends
    BY <1>12, <1>13, <2>7
  <2> QED
    BY <1>3, <2>3, <2>4, <2>6, <2>7, <2>8, ReaderTakes
<1>14. CASE /\ coR # coW /\ Console0!Waiting(k) # Eof /\ coR' = (coR + k) % UINT
            /\ coReader' = [coReader EXCEPT ![p] =
                 IF Console0!Waiting(k) = Newline \/ k = @.n \/ @.killed
                 THEN Console0!Returned(p, FALSE)
                 ELSE [coReader[p] EXCEPT !.n = @ - k, !.state = "asleep"]]
  <2>1. k \in 0 .. u
    BY <1>2, <1>12, <1>14
  <2>2. CASE Console0!Waiting(k) = Newline \/ k = coReader[p].n \/ coReader[p].killed
    <3>1. PICK x : x = Console0!Returned(p, FALSE)
      OBVIOUS
    <3>2. x \in Console0!Reader /\ x.state = "user"
      BY <1>1, <3>1, ReaderReturns
    <3>3. coReader' = [coReader EXCEPT ![p] = x]
      BY <1>14, <2>2, <3>1
    <3> QED
      BY <1>3, <1>12, <1>14, <2>1, <3>2, <3>3, ReaderTakes
  <2>3. CASE ~ (Console0!Waiting(k) = Newline \/ k = coReader[p].n \/ coReader[p].killed)
    <3>1. PICK x : x = [coReader[p] EXCEPT !.n = @ - k, !.state = "asleep"]
      OBVIOUS
    <3>2. n - k \in 0 .. MaxRead /\ n - k # 0
      BY <1>2, <1>4, <1>12, <1>14, <2>3, ConsoleSizes
    <3>3. x \in Console0!Reader /\ x.n = n - k
      BY <1>3, <1>4, <3>1, <3>2 DEF Console0!Reader
    <3>4. coReader' = [coReader EXCEPT ![p] = x]
      BY <1>1, <1>14, <2>3, <3>1 DEF Readers
    <3>5. k = u
      BY <1>4, <1>12, <1>14, <2>3 DEF Ends
    <3>6. x.n # 0
      BY <3>2, <3>3
    <3>7. \A i \in 1 .. k - 1 : Nth0(coBuf, coR, i) \notin Ends
      BY <1>12, <1>14
    <3>8. coR' = (coR + k) % UINT
      BY <1>14
    <3> QED
      BY <1>3, <2>1, <3>3, <3>4, <3>5, <3>6, <3>7, <3>8, ReaderTakes
  <2> QED
    BY <2>2, <2>3, Zenon
<1>15. \/ coR = coW /\ coR' = coR
          /\ coReader' = [coReader EXCEPT ![p] = Console0!Returned(p, FALSE)]
       \/ coR = coW /\ coR' = coR /\ coReader' = [coReader EXCEPT ![p].state = "asleep"]
       \/ /\ coR # coW /\ coR' = (coR + IF Console0!SaveEof(p, k) THEN k - 1 ELSE k) % UINT
          /\ coReader' = [coReader EXCEPT ![p] = Console0!Returned(p, Console0!SaveEof(p, k))]
       \/ /\ coR # coW /\ Console0!Waiting(k) # Eof /\ coR' = (coR + k) % UINT
          /\ coReader' = [coReader EXCEPT ![p] =
               IF Console0!Waiting(k) = Newline \/ k = @.n \/ @.killed
               THEN Console0!Returned(p, FALSE)
               ELSE [coReader[p] EXCEPT !.n = @ - k, !.state = "asleep"]]
  BY <1>6, Zenon DEF Console0!consoleread
<1> QED
  BY <1>10, <1>11, <1>13, <1>14, <1>15, Zenon

LEMMA ConsoleStep ==
  ASSUME ConsoleInv, Console0!Next PROVE ConsoleInv' /\ LineStep
<1>1. PICK u, l \in Nat : ConsoleAt(coBuf, coR, coW, coE, coReader, u, l)
  BY DEF ConsoleInv
<1>2. ASSUME NEW c \in Typed, Console0!Key(c) PROVE ConsoleInv' /\ LineStep
  <2>1. CASE c \in Ends \/ u + l + 1 = INPUT_BUF
    BY <1>1, <1>2, <2>1, KeyEndsLine
  <2>2. CASE ~ (c \in Ends \/ u + l + 1 = INPUT_BUF)
    BY <1>1, <1>2, <2>2, KeyInLine
  <2> QED
    BY <2>1, <2>2
<1>3. CASE Console0!Backspace
  BY <1>1, <1>3, BackspaceKeeps
<1>4. CASE Console0!KillLine
  BY <1>1, <1>4, KillLineKeeps
<1>5. ASSUME NEW p \in Twin, Console0!consoleread(p) PROVE ConsoleInv' /\ LineStep
  BY <1>1, <1>5, consolereadKeeps
<1>6. ASSUME NEW p \in Twin, Console0!Kill(p) PROVE ConsoleInv' /\ LineStep
  BY <1>1, <1>6, ReaderKilled
<1>7. ASSUME NEW p \in Twin, NEW n \in 1 .. MaxRead, Console0!Read(p, n)
      PROVE  ConsoleInv' /\ LineStep
  BY <1>1, <1>7, ReaderAsks
<1> QED
  BY <1>2, <1>3, <1>4, <1>5, <1>6, <1>7 DEF Console0!Next

LEMMA ConsoleSame == ASSUME ConsoleInv, UNCHANGED coVars PROVE ConsoleInv' /\ LineStep
<1>1. coBuf' = coBuf /\ coR' = coR /\ coW' = coW /\ coE' = coE /\ coReader' = coReader
  BY DEF coVars
<1>2. ConsoleInv'
  BY <1>1 DEF ConsoleInv
<1>3. UNCHANGED Console0!Lines!vars
  BY <1>1 DEF Console0!Lines!vars, Console0!Between, Console0!Ahead
<1> QED
  BY <1>2, <1>3 DEF LineStep


-----------------------------------------------------------------------------
(* The display is a window on the text *)

Shown == Glyph \cup {Console0!Blank, "bios"}

\* q rows have been scrolled off
ScreenAt(cells, at, s, q) ==
  /\ at \in Nat /\ at < ROWS * COLS
  /\ s \in Seq(Shown) /\ q \in Nat /\ Len(s) = at + q * COLS
  /\ cells = [n \in Console0!Cells |-> cells[n]]
  /\ \A n \in Console0!Cells :
       cells[n] = IF n < at THEN s[q * COLS + n + 1] ELSE Console0!Blank

ScreenInv == \E q \in Nat : ScreenAt(scCrt, scPos, scText, q)

LEMMA ScreenSizes ==
  ASSUME NEW N, N = ROWS * COLS
  PROVE  /\ ROWS \in Nat \ {0, 1} /\ COLS \in Nat \ {0} /\ N \in Nat /\ COLS <= N
         /\ (ROWS - 1) * COLS = N - COLS /\ (ROWS + 1) * COLS = N + COLS
         /\ Console0!Cells = 0 .. N + COLS - 1
<1>1. ROWS \in Nat \ {0, 1} /\ COLS \in Nat \ {0}
  BY SharedAssumption DEF Console0!ScreenAssumption
<1>2. PICK i \in Nat : ROWS = i + 2
  <2>1. ROWS - 2 \in Nat /\ ROWS = (ROWS - 2) + 2
    BY <1>1
  <2> QED
    BY <2>1
<1>3. PICK z \in Nat : z = i * COLS
  BY <1>1, <1>2, Z3
<1>4. /\ (i + 1) * COLS = z + COLS /\ (i + 2) * COLS = z + 2 * COLS
      /\ (i + 3) * COLS = z + 3 * COLS
  BY <1>1, <1>3, Z3
<1>5. N = z + 2 * COLS
  BY <1>2, <1>4
<1>6. ROWS - 1 = i + 1 /\ ROWS + 1 = i + 3
  BY <1>2
<1>7. (ROWS - 1) * COLS = N - COLS /\ (ROWS + 1) * COLS = N + COLS
  BY <1>1, <1>3, <1>4, <1>5, <1>6
<1>8. N \in Nat /\ COLS <= N
  BY <1>1, <1>3, <1>5
<1> QED
  BY <1>1, <1>7, <1>8 DEF Console0!Cells

\* whole rows
LEMMA Rows ==
  ASSUME NEW m \in Nat \ {0}, NEW k \in Nat, NEW a \in Nat
  PROVE  a \div m >= k <=> a >= k * m
<1> DEFINE qa == a \div m
           ra == a % m
<1>1. a = qa * m + ra /\ qa \in Int /\ ra \in 0 .. m - 1
  BY DivMod
<1> HIDE DEF qa, ra
<1>2. k * m \in Int /\ qa * m \in Int
  BY <1>1, Z3
<1>3. CASE qa >= k
  <2>1. PICK d \in Nat : qa = k + d
    <3>1. qa - k \in Nat /\ qa = k + (qa - k)
      BY <1>1, <1>3
    <3> QED
      BY <3>1
  <2>2. qa * m = k * m + d * m /\ d * m >= 0
    BY <2>1, Z3
  <2>3. a >= k * m
    BY <1>1, <1>2, <2>2, Z3
  <2> QED
    BY <1>3, <2>3 DEF qa
<1>4. CASE ~ (qa >= k)
  <2>1. PICK d \in Nat : k = qa + 1 + d
    <3>1. k - qa - 1 \in Nat /\ k = qa + 1 + (k - qa - 1)
      BY <1>1, <1>4
    <3> QED
      BY <3>1
  <2>2. k * m = qa * m + m + d * m /\ d * m >= 0
    BY <1>1, <2>1, Z3
  <2>3. a < k * m
    BY <1>1, <1>2, <2>2, Z3
  <2>4. ~ (a >= k * m)
    BY <1>2, <2>3
  <2> QED
    BY <1>4, <2>4 DEF qa
<1> QED
  BY <1>3, <1>4

\* a newline goes to the start of the next row
LEMMA NextRow ==
  ASSUME NEW N, N = ROWS * COLS, NEW at \in Nat, at < N
  PROVE  /\ COLS - (at % COLS) \in 1 .. COLS
         /\ at + (COLS - (at % COLS)) <= N
<1>1. ROWS \in Nat /\ COLS \in Nat \ {0} /\ N \in Nat
  BY ScreenSizes
<1> DEFINE qa == at \div COLS
           ra == at % COLS
<1>2. at = qa * COLS + ra /\ qa \in Int /\ ra \in 0 .. COLS - 1
  BY <1>1, DivMod
<1>3. ~ (qa >= ROWS)
  BY <1>1, Rows
<1> HIDE DEF qa, ra
<1>4. PICK d \in Nat : ROWS = qa + 1 + d
  <2>1. ROWS - qa - 1 \in Nat /\ ROWS = qa + 1 + (ROWS - qa - 1)
    BY <1>1, <1>2, <1>3
  <2> QED
    BY <2>1
<1>5. ROWS * COLS = qa * COLS + COLS + d * COLS /\ d * COLS >= 0
      /\ qa * COLS \in Int /\ d * COLS \in Int
  BY <1>1, <1>2, <1>4, Z3
<1>6. at + (COLS - ra) <= N
  <2>1. PICK y \in Int : y = qa * COLS
    BY <1>5
  <2>2. PICK z \in Int : z = d * COLS
    BY <1>5
  <2>3. at = y + ra /\ N = y + COLS + z /\ z >= 0
    BY <1>2, <1>5, <2>1, <2>2
  <2> QED
    BY <1>1, <1>2, <2>3
<1>7. COLS - ra \in 1 .. COLS
  BY <1>1, <1>2
<1> QED
  BY <1>6, <1>7 DEF ra

\* the text s ends at the cell `at` of `cells`, where the cursor comes to be
Written(cells, at, s, q) ==
  /\ cells = [n \in Console0!Cells |-> cells[n]]
  /\ at \in 0 .. ROWS * COLS
  /\ s \in Seq(Shown) /\ Len(s) = at + q * COLS
  /\ \A n \in Console0!Cells : n < at => cells[n] = s[q * COLS + n + 1]
  /\ \A n \in Console0!Cells : n > at \/ n = ROWS * COLS => cells[n] = Console0!Blank

LEMMA ShowKeeps ==
  ASSUME NEW q \in Nat, NEW cells, NEW at, NEW s, Written(cells, at, s, q),
         Console0!Show(cells, at), scText' = s
  PROVE  ScreenInv'
<1>0. PICK N : N = ROWS * COLS
  OBVIOUS
<1>01. cells = [n \in Console0!Cells |-> cells[n]] /\ at \in 0 .. N /\ s \in Seq(Shown)
  BY <1>0 DEF Written
<1>02. Len(s) = at + q * COLS
  BY DEF Written
<1>03. \A n \in Console0!Cells : n < at => cells[n] = s[q * COLS + n + 1]
  BY DEF Written
<1>04. \A n \in Console0!Cells : n > at \/ n = N => cells[n] = Console0!Blank
  BY <1>0 DEF Written
<1>1. /\ ROWS \in Nat \ {0, 1} /\ COLS \in Nat \ {0} /\ N \in Nat /\ COLS <= N
      /\ (ROWS - 1) * COLS = N - COLS /\ at \in Nat /\ at <= N
      /\ Console0!Cells = 0 .. N + COLS - 1
  BY <1>0, <1>01, ScreenSizes
<1>6. /\ N \in Nat /\ COLS \in Nat /\ 1 <= COLS /\ COLS <= N /\ at \in Nat /\ at <= N
      /\ Console0!Cells = 0 .. N + COLS - 1
  BY <1>1
<1>2. Console0!BelowRows(at) <=> at = N
  <2>1. at \div COLS >= ROWS <=> at >= ROWS * COLS
    BY <1>1, Rows
  <2>2. at >= N <=> at = N
    BY <1>1
  <2> QED
    BY <1>0, <2>1, <2>2 DEF Console0!BelowRows
<1>3. PICK z \in Nat : z = q * COLS
  BY <1>1, Z3
<1>4. CASE at # N
  <2>1. scPos' = at /\ scCrt' = [cells EXCEPT ![at] = Console0!Blank]
    BY <1>2, <1>4 DEF Console0!Show
  <2>2. at < N /\ at \in Console0!Cells
    BY <1>4, <1>6
  <2>3. PICK x : x = [cells EXCEPT ![at] = Console0!Blank]
    OBVIOUS
  <2>4. /\ x = [n \in Console0!Cells |-> x[n]]
        /\ \A n \in Console0!Cells : x[n] = IF n = at THEN Console0!Blank ELSE cells[n]
    BY <1>01, <2>2, <2>3
  <2>5. ASSUME NEW n \in Console0!Cells
        PROVE  x[n] = IF n < at THEN s[q * COLS + n + 1] ELSE Console0!Blank
    <3>1. n \in Int
      BY <1>6
    <3>2. CASE n < at
      <4>1. n # at
        BY <1>6, <3>1, <3>2
      <4> QED
        BY <1>03, <2>4, <3>2, <4>1
    <3>3. CASE n = at
      <4>1. ~ (n < at)
        BY <1>6, <3>3
      <4> QED
        BY <2>4, <3>3, <4>1
    <3>4. CASE n > at
      <4>1. n # at /\ ~ (n < at)
        BY <1>6, <3>1, <3>4
      <4> QED
        BY <1>04, <2>4, <3>4, <4>1
    <3> QED
      BY <1>6, <3>1, <3>2, <3>3, <3>4
  <2>6. ScreenAt(x, at, s, q)
    BY <1>0, <1>01, <1>02, <1>6, <2>2, <2>4, <2>5 DEF ScreenAt
  <2> QED
    BY <2>1, <2>3, <2>6 DEF ScreenInv
<1>5. CASE at = N
  <2>1. PICK t \in Nat : t = N - COLS
    BY <1>6
  <2>2. t < N /\ t + COLS = N /\ t \in Console0!Cells
    BY <1>6, <2>1
  <2>3. at - COLS = t
    BY <1>5, <2>1
  <2>4. scPos' = t /\ scCrt' = [Console0!Scrolled(cells, t) EXCEPT ![t] = Console0!Blank]
    BY <1>2, <1>5, <2>3 DEF Console0!Show
  <2>5. PICK y : y = Console0!Scrolled(cells, t)
    OBVIOUS
  <2>6. y = [n \in Console0!Cells |-> IF n < t THEN cells[n + COLS]
               ELSE IF n \in t .. N - 1 THEN Console0!Blank ELSE cells[n]]
    BY <1>0, <1>1, <2>1, <2>5 DEF Console0!Scrolled
  <2>7. PICK x : x = [y EXCEPT ![t] = Console0!Blank]
    OBVIOUS
  <2>8. /\ x = [n \in Console0!Cells |-> x[n]]
        /\ \A n \in Console0!Cells : x[n] = IF n = t THEN Console0!Blank ELSE y[n]
    BY <2>2, <2>6, <2>7
  <2>9. PICK j \in Nat : j = q + 1
    OBVIOUS
  <2>10. j * COLS = z + COLS
    BY <1>1, <1>3, <2>9, Z3
  <2>14. PICK v \in Nat : v = j * COLS
    BY <1>3, <1>6, <2>10
  <2>15. v = z + COLS
    BY <2>10, <2>14
  <2>11. Len(s) = t + j * COLS
    <3>1. Len(s) = at + z
      BY <1>02, <1>3
    <3>2. Len(s) = t + v
      BY <1>5, <1>6, <2>1, <2>15, <3>1
    <3> QED
      BY <2>14, <3>2
  <2>12. ASSUME NEW n \in Console0!Cells
         PROVE  x[n] = IF n < t THEN s[j * COLS + n + 1] ELSE Console0!Blank
    <3>1. n \in Nat
      BY <1>6
    <3>2. CASE n < t
      <4>1. n + COLS \in Console0!Cells /\ n + COLS < at /\ n # t
        BY <1>5, <1>6, <2>1, <3>1, <3>2
      <4>2. x[n] = cells[n + COLS]
        BY <2>6, <2>8, <3>2, <4>1
      <4>3. cells[n + COLS] = s[q * COLS + (n + COLS) + 1]
        BY <1>03, <4>1
      <4>4. q * COLS + (n + COLS) + 1 = j * COLS + n + 1
        <5>1. z + (n + COLS) + 1 = v + n + 1
          BY <1>6, <2>15, <3>1
        <5> QED
          BY <1>3, <2>14, <5>1
      <4> QED
        BY <3>2, <4>2, <4>3, <4>4
    <3>3. CASE ~ (n < t)
      <4>1. n = t \/ (n # t /\ n \in t .. N - 1) \/ (n # t /\ n \notin t .. N - 1 /\ n >= N)
        BY <1>6, <2>1, <3>1, <3>3
      <4>2. CASE n = t
        BY <2>8, <3>3, <4>2
      <4>3. CASE n # t /\ n \in t .. N - 1
        BY <2>6, <2>8, <3>3, <4>3
      <4>4. CASE n # t /\ n \notin t .. N - 1 /\ n >= N
        <5>1. n > at \/ n = N
          BY <1>5, <1>6, <3>1, <4>4
        <5> QED
          BY <1>04, <2>6, <2>8, <3>3, <4>4, <5>1
      <4> QED
        BY <4>1, <4>2, <4>3, <4>4
    <3> QED
      BY <3>2, <3>3
  <2>13. ScreenAt(x, t, s, j)
    BY <1>0, <1>01, <2>2, <2>8, <2>9, <2>11, <2>12 DEF ScreenAt
  <2> QED
    BY <2>4, <2>5, <2>7, <2>13 DEF ScreenInv
<1> QED
  BY <1>4, <1>5


\* the text, by its numbers
LEMMA ScreenIs ==
  ASSUME NEW q \in Nat, ScreenAt(scCrt, scPos, scText, q), NEW N, N = ROWS * COLS
  PROVE  /\ scPos \in Nat /\ scPos < N /\ N \in Nat /\ COLS \in Nat \ {0} /\ COLS <= N
         /\ q * COLS \in Nat
         /\ Console0!Cells = 0 .. N + COLS - 1
         /\ scText \in Seq(Shown) /\ Len(scText) = scPos + q * COLS
         /\ scCrt = [n \in Console0!Cells |-> scCrt[n]]
         /\ \A n \in Console0!Cells : n < scPos => scCrt[n] = scText[q * COLS + n + 1]
         /\ \A n \in Console0!Cells : ~ (n < scPos) => scCrt[n] = Console0!Blank
<1>1. COLS \in Nat \ {0} /\ N \in Nat /\ COLS <= N /\ Console0!Cells = 0 .. N + COLS - 1
  BY ScreenSizes
<1>2. q * COLS \in Nat
  BY <1>1, Z3
<1> QED
  BY <1>1, <1>2 DEF ScreenAt

LEMMA PutcKeeps ==
  ASSUME ScreenInv, Console0!Putc PROVE ScreenInv'
<1>1. PICK q \in Nat : ScreenAt(scCrt, scPos, scText, q)
  BY DEF ScreenInv
<1>2. PICK N : N = ROWS * COLS
  OBVIOUS
<1>3. /\ scPos \in Nat /\ scPos < N /\ N \in Nat /\ COLS \in Nat /\ 1 <= COLS /\ COLS <= N
      /\ Console0!Cells = 0 .. N + COLS - 1
  BY <1>1, <1>2, ScreenIs
<1>31. /\ scText \in Seq(Shown) /\ scCrt = [n \in Console0!Cells |-> scCrt[n]]
       /\ \A n \in Console0!Cells : ~ (n < scPos) => scCrt[n] = Console0!Blank
  BY <1>1, <1>2, ScreenIs
<1>4. PICK z \in Nat : z = q * COLS
  BY <1>1, <1>2, ScreenIs
<1>5. PICK len \in Nat : len = Len(scText) /\ len = scPos + z
  BY <1>1, <1>2, <1>3, <1>4, ScreenIs
<1>51. \A n \in Console0!Cells : n < scPos => scCrt[n] = scText[z + n + 1]
  BY <1>1, <1>2, <1>4, ScreenIs
<1>6. PICK c \in Glyph : /\ Console0!Show([scCrt EXCEPT ![scPos] = c], scPos + 1)
                         /\ scText' = Append(scText, c)
  BY DEF Console0!Putc
<1>7. PICK s : s = Append(scText, c)
  OBVIOUS
<1>8. /\ s \in Seq(Shown) /\ Len(s) = len + 1 /\ s[len + 1] = c
      /\ \A n \in 1 .. len : s[n] = scText[n]
  <2>1. /\ s \in Seq(Shown) /\ Len(s) = Len(scText) + 1 /\ s[Len(scText) + 1] = c
        /\ \A n \in 1 .. Len(scText) : s[n] = scText[n]
    BY <1>6, <1>7, <1>31, AppendProperties DEF Shown
  <2> QED
    BY <1>5, <2>1
<1>9. PICK x : x = [scCrt EXCEPT ![scPos] = c]
  OBVIOUS
<1>10. /\ x = [n \in Console0!Cells |-> x[n]]
       /\ \A n \in Console0!Cells : x[n] = IF n = scPos THEN c ELSE scCrt[n]
  BY <1>3, <1>9, <1>31
<1>11. PICK at \in Nat : at = scPos + 1
  BY <1>3
<1>12. at \in 0 .. N /\ Len(s) = at + z
  BY <1>3, <1>5, <1>8, <1>11
<1>13. ASSUME NEW n \in Console0!Cells, n < at PROVE x[n] = s[z + n + 1]
  <2>1. n \in Nat
    BY <1>3
  <2>2. CASE n = scPos
    <3>1. z + n + 1 = len + 1
      BY <1>3, <1>4, <1>5, <2>2
    <3> QED
      BY <1>8, <1>10, <2>2, <3>1
  <2>3. CASE n # scPos
    <3>1. n < scPos /\ z + n + 1 \in 1 .. len
      BY <1>3, <1>4, <1>5, <1>11, <1>13, <2>1, <2>3
    <3> QED
      BY <1>8, <1>10, <1>51, <2>3, <3>1
  <2> QED
    BY <2>2, <2>3
<1>14. ASSUME NEW n \in Console0!Cells, n > at \/ n = N PROVE x[n] = Console0!Blank
  <2>1. n # scPos /\ ~ (n < scPos)
    BY <1>3, <1>11, <1>14
  <2> QED
    BY <1>10, <1>31, <2>1
<1>15. Console0!Show(x, at) /\ scText' = s
  BY <1>6, <1>7, <1>9, <1>11
<1>16. /\ Len(s) = at + q * COLS
       /\ \A n \in Console0!Cells : n < at => x[n] = s[q * COLS + n + 1]
  BY <1>4, <1>12, <1>13
<1>17. Written(x, at, s, q)
  BY <1>2, <1>8, <1>10, <1>12, <1>14, <1>16 DEF Written
<1> QED
  BY <1>15, <1>17, ShowKeeps

LEMMA EraseKeeps ==
  ASSUME ScreenInv, Console0!Erase PROVE ScreenInv'
<1>1. PICK q \in Nat : ScreenAt(scCrt, scPos, scText, q)
  BY DEF ScreenInv
<1>2. PICK N : N = ROWS * COLS
  OBVIOUS
<1>3. /\ scPos \in Nat /\ scPos < N /\ N \in Nat /\ COLS \in Nat /\ 1 <= COLS /\ COLS <= N
      /\ Console0!Cells = 0 .. N + COLS - 1
  BY <1>1, <1>2, ScreenIs
<1>31. /\ scText \in Seq(Shown) /\ scCrt = [n \in Console0!Cells |-> scCrt[n]]
       /\ \A n \in Console0!Cells : ~ (n < scPos) => scCrt[n] = Console0!Blank
  BY <1>1, <1>2, ScreenIs
<1>4. PICK z \in Nat : z = q * COLS
  BY <1>1, <1>2, ScreenIs
<1>5. PICK len \in Nat : len = Len(scText) /\ len = scPos + z
  BY <1>1, <1>2, <1>3, <1>4, ScreenIs
<1>51. \A n \in Console0!Cells : n < scPos => scCrt[n] = scText[z + n + 1]
  BY <1>1, <1>2, <1>4, ScreenIs
<1>6. CASE scPos > 0
  <2>1. Console0!Show(scCrt, scPos - 1) /\ scText' = Console0!Front(scText)
    BY <1>6 DEF Console0!Erase
  <2>2. PICK m \in Nat : m = len - 1
    BY <1>3, <1>4, <1>5, <1>6
  <2>3. PICK s : s = SubSeq(scText, 1, m)
    OBVIOUS
  <2>4. scText' = s
    BY <1>5, <2>1, <2>2, <2>3 DEF Console0!Front
  <2>5. s \in Seq(Shown) /\ Len(s) = m /\ \A n \in 1 .. m : s[n] = scText[n]
    <3>1. \A i \in 1 .. m : scText[i] \in Shown
      <4>1. ASSUME NEW i \in 1 .. m PROVE i \in 1 .. Len(scText)
        BY <1>5, <2>2
      <4> QED
        BY <1>31, <4>1, ElementOfSeq
    <3>2. /\ s \in Seq(Shown) /\ Len(s) = IF 1 <= m THEN m - 1 + 1 ELSE 0
          /\ \A k \in 1 .. m - 1 + 1 : s[k] = scText[1 + k - 1]
      BY <2>3, <3>1, SubSeqProperties
    <3> QED
      BY <3>2
  <2>6. PICK at \in Nat : at = scPos - 1
    BY <1>3, <1>6
  <2>7. at \in 0 .. N /\ Len(s) = at + z
    <3>1. Len(s) = m
      BY <2>5
    <3>2. at \in 0 .. N /\ m = at + z
      BY <1>3, <1>5, <2>2, <2>6
    <3> QED
      BY <3>1, <3>2
  <2>8. ASSUME NEW n \in Console0!Cells, n < at PROVE scCrt[n] = s[z + n + 1]
    <3>1. n < scPos /\ z + n + 1 \in 1 .. m
      BY <1>3, <1>4, <1>5, <2>2, <2>6, <2>8
    <3> QED
      BY <1>51, <2>5, <3>1
  <2>9. ASSUME NEW n \in Console0!Cells, n > at \/ n = N PROVE scCrt[n] = Console0!Blank
    <3>1. ~ (n < scPos)
      BY <1>3, <2>6, <2>9
    <3> QED
      BY <1>31, <3>1
  <2>10. /\ Len(s) = at + q * COLS
         /\ \A n \in Console0!Cells : n < at => scCrt[n] = s[q * COLS + n + 1]
    BY <1>4, <2>7, <2>8
  <2>11. Console0!Show(scCrt, at)
    BY <2>1, <2>6
  <2>12. Written(scCrt, at, s, q)
    BY <1>2, <1>31, <2>5, <2>7, <2>9, <2>10 DEF Written
  <2> QED
    BY <2>4, <2>11, <2>12, ShowKeeps
<1>7. CASE ~ (scPos > 0)
  <2>1. Console0!Show(scCrt, scPos) /\ scText' = scText
    BY <1>7 DEF Console0!Erase
  <2>2. scPos \in 0 .. N
    BY <1>3
  <2>3. ASSUME NEW n \in Console0!Cells, n > scPos \/ n = N PROVE scCrt[n] = Console0!Blank
    <3>1. ~ (n < scPos)
      BY <1>3, <2>3
    <3> QED
      BY <1>31, <3>1
  <2>4. /\ len = scPos + q * COLS
        /\ \A n \in Console0!Cells : n < scPos => scCrt[n] = scText[q * COLS + n + 1]
    BY <1>4, <1>5, <1>51
  <2>5. Written(scCrt, scPos, scText, q)
    BY <1>2, <1>31, <2>2, <2>3, <2>4, <1>5 DEF Written
  <2> QED
    BY <2>1, <2>5, ShowKeeps
<1> QED
  BY <1>6, <1>7

LEMMA NextLineKeeps ==
  ASSUME ScreenInv, Console0!NextLine PROVE ScreenInv'
<1>1. PICK q \in Nat : ScreenAt(scCrt, scPos, scText, q)
  BY DEF ScreenInv
<1>2. PICK N : N = ROWS * COLS
  OBVIOUS
<1>3. /\ scPos \in Nat /\ scPos < N /\ N \in Nat /\ COLS \in Nat /\ 1 <= COLS /\ COLS <= N
      /\ Console0!Cells = 0 .. N + COLS - 1
  BY <1>1, <1>2, ScreenIs
<1>31. /\ scText \in Seq(Shown) /\ scCrt = [n \in Console0!Cells |-> scCrt[n]]
       /\ \A n \in Console0!Cells : ~ (n < scPos) => scCrt[n] = Console0!Blank
  BY <1>1, <1>2, ScreenIs
<1>4. PICK z \in Nat : z = q * COLS
  BY <1>1, <1>2, ScreenIs
<1>5. PICK len \in Nat : len = Len(scText) /\ len = scPos + z
  BY <1>1, <1>2, <1>3, <1>4, ScreenIs
<1>51. \A n \in Console0!Cells : n < scPos => scCrt[n] = scText[z + n + 1]
  BY <1>1, <1>2, <1>4, ScreenIs
<1>6. PICK skip \in 1 .. COLS : skip = COLS - (scPos % COLS)
  BY <1>2, <1>3, NextRow
<1>7. scPos + skip <= N
  BY <1>2, <1>3, <1>6, NextRow
<1>8. PICK b : b = [n \in 1 .. skip |-> Console0!Blank]
  OBVIOUS
<1>9. b \in Seq(Shown) /\ Len(b) = skip /\ \A n \in 1 .. skip : b[n] = Console0!Blank
  <2>1. b \in [1 .. skip -> Shown] /\ skip \in Nat
    BY <1>3, <1>6, <1>8 DEF Shown
  <2>2. b \in Seq(Shown)
    BY <2>1, SeqDef
  <2> QED
    BY <1>8, <2>1, <2>2, LenProperties
<1>10. Console0!Show(scCrt, scPos + skip) /\ scText' = scText \o b
  BY <1>6, <1>8 DEF Console0!NextLine
<1>11. PICK s : s = scText \o b
  OBVIOUS
<1>12. /\ s \in Seq(Shown) /\ Len(s) = len + skip
       /\ \A n \in 1 .. len + skip :
            s[n] = IF n <= len THEN scText[n] ELSE b[n - len]
  <2>1. /\ s \in Seq(Shown) /\ Len(s) = Len(scText) + Len(b)
        /\ \A n \in 1 .. Len(scText) + Len(b) :
             s[n] = IF n <= Len(scText) THEN scText[n] ELSE b[n - Len(scText)]
    BY <1>9, <1>11, <1>31, ConcatProperties
  <2> QED
    BY <1>5, <1>9, <2>1
<1>13. PICK at \in Nat : at = scPos + skip
  <2>1. scPos + skip \in Nat
    BY <1>3
  <2> QED
    BY <2>1
<1>14. at \in 0 .. N /\ Len(s) = at + z
  BY <1>3, <1>4, <1>5, <1>7, <1>12, <1>13
<1>15. ASSUME NEW n \in Console0!Cells, n < at PROVE scCrt[n] = s[z + n + 1]
  <2>1. n \in Nat
    BY <1>3
  <2>2. PICK i \in Nat : i = z + n + 1
    BY <1>4, <2>1
  <2>3. i \in 1 .. len + skip
    BY <1>3, <1>4, <1>5, <1>6, <1>13, <1>15, <2>1, <2>2
  <2>4. CASE n < scPos
    <3>1. i <= len
      BY <1>3, <1>4, <1>5, <2>1, <2>2, <2>4
    <3> QED
      BY <1>12, <1>51, <2>2, <2>3, <2>4, <3>1
  <2>5. CASE ~ (n < scPos)
    <3>1. PICK k \in Int : k = i - len
      BY <1>3, <1>4, <1>5
    <3>2. k \in 1 .. skip /\ ~ (i <= len)
      BY <1>3, <1>4, <1>5, <1>6, <1>13, <1>15, <2>1, <2>2, <2>5, <3>1
    <3>3. s[i] = Console0!Blank
      BY <1>9, <1>12, <2>3, <3>1, <3>2
    <3> QED
      BY <1>31, <2>2, <2>5, <3>3
  <2> QED
    BY <2>4, <2>5
<1>16. ASSUME NEW n \in Console0!Cells, n > at \/ n = N PROVE scCrt[n] = Console0!Blank
  <2>1. ~ (n < scPos)
    BY <1>3, <1>6, <1>13, <1>16
  <2> QED
    BY <1>31, <2>1
<1>17. /\ Len(s) = at + q * COLS
       /\ \A n \in Console0!Cells : n < at => scCrt[n] = s[q * COLS + n + 1]
  BY <1>4, <1>14, <1>15
<1>18. Console0!Show(scCrt, at) /\ scText' = s
  BY <1>10, <1>11, <1>13
<1>19. Written(scCrt, at, s, q)
  BY <1>2, <1>12, <1>14, <1>16, <1>17, <1>31 DEF Written
<1> QED
  BY <1>18, <1>19, ShowKeeps

LEMMA ScreenStarts == ASSUME Console0!ScreenInit PROVE ScreenInv
<1>1. PICK N : N = ROWS * COLS
  OBVIOUS
<1>2. COLS \in Nat \ {0} /\ N \in Nat /\ COLS <= N /\ Console0!Cells = 0 .. N + COLS - 1
  BY <1>1, ScreenSizes
<1>3. /\ scPos \in 0 .. N - 1
      /\ scCrt = [n \in Console0!Cells |-> IF n < scPos THEN "bios" ELSE Console0!Blank]
      /\ scText = [n \in 1 .. scPos |-> "bios"]
  BY <1>1 DEF Console0!ScreenInit
<1>4. scText \in Seq(Shown) /\ Len(scText) = scPos /\ \A n \in 1 .. scPos : scText[n] = "bios"
  <2>1. scText \in [1 .. scPos -> Shown] /\ scPos \in Nat
    BY <1>2, <1>3 DEF Shown
  <2>2. scText \in Seq(Shown)
    BY <2>1, SeqDef
  <2> QED
    BY <1>3, <2>1, <2>2, LenProperties
<1>5. 0 * COLS = 0
  BY <1>2
<1>6. scPos \in Nat /\ scPos < N /\ Len(scText) = scPos + 0 * COLS
  BY <1>2, <1>3, <1>4, <1>5
<1>7. ASSUME NEW n \in Console0!Cells
      PROVE  scCrt[n] = IF n < scPos THEN scText[0 * COLS + n + 1] ELSE Console0!Blank
  <2>1. CASE n < scPos
    <3>1. n + 1 \in 1 .. scPos /\ 0 * COLS + n + 1 = n + 1
      BY <1>2, <1>3, <1>5, <2>1
    <3> QED
      BY <1>3, <1>4, <2>1, <3>1
  <2>2. CASE ~ (n < scPos)
    BY <1>3, <2>2
  <2> QED
    BY <2>1, <2>2
<1>8. scCrt = [n \in Console0!Cells |-> scCrt[n]]
  BY <1>3
<1>9. ScreenAt(scCrt, scPos, scText, 0)
  BY <1>1, <1>4, <1>6, <1>7, <1>8 DEF ScreenAt
<1> QED
  BY <1>9 DEF ScreenInv

LEMMA ScreenShows == ASSUME ScreenInv PROVE Console0!ShowsText
<1>1. PICK q \in Nat : ScreenAt(scCrt, scPos, scText, q)
  BY DEF ScreenInv
<1>2. PICK N : N = ROWS * COLS
  OBVIOUS
<1>3. /\ scPos \in Nat /\ scPos < N /\ COLS \in Nat \ {0}
      /\ Console0!Cells = 0 .. N + COLS - 1 /\ N \in Nat
  BY <1>1, <1>2, ScreenIs
<1>4. PICK z \in Nat : z = q * COLS
  BY <1>1, <1>2, ScreenIs
<1>5. /\ Len(scText) = scPos + z
      /\ \A n \in Console0!Cells :
           scCrt[n] = IF n < scPos THEN scText[z + n + 1] ELSE Console0!Blank
  BY <1>1, <1>4 DEF ScreenAt
<1>6. Console0!Off = z
  BY <1>3, <1>5 DEF Console0!Off
<1>7. z % COLS = 0
  <2>1. z = 0 + q * COLS
    BY <1>4
  <2>2. z % COLS = 0 % COLS
    BY <1>3, <2>1, SameMod
  <2>3. 0 % COLS = IF 0 < 0 THEN 0 + COLS ELSE IF 0 < COLS THEN 0 ELSE 0 - COLS
    BY <1>3, OneRound
  <2> QED
    BY <1>3, <2>2, <2>3
<1> QED
  BY <1>2, <1>3, <1>5, <1>6, <1>7 DEF Console0!ShowsText

LEMMA ScreenStep == ASSUME ScreenInv, Console0!ScreenNext PROVE ScreenInv'
  BY PutcKeeps, EraseKeeps, NextLineKeeps DEF Console0!ScreenNext

LEMMA ScreenSame == ASSUME ScreenInv, UNCHANGED scVars PROVE ScreenInv'
  BY DEF ScreenInv, scVars

\* console.c: for any ring, any width of its counters that the ring divides, and any
\* number of readers, the ring is the line that is edited and the ended ones; for any
\* display, it is a window on the text
THEOREM ConsoleIsCorrect == SharedSpec => ConsoleCorrect
<1> DEFINE I == (part = "console" => ConsoleInv) /\ (part = "screen" => ScreenInv)
           R == part = "console" => LineStep
<1>1. SharedInit => I /\ (part = "console" => Console0!Lines!Init)
  BY ConsoleInit, ScreenStarts DEF SharedInit
<1>2. I /\ [SharedStep]_sharedVars => I' /\ R
  <2> SUFFICES ASSUME I, [SharedStep]_sharedVars PROVE I' /\ R
    OBVIOUS
  <2>1. part' = part
    BY DEF SharedStep, sharedVars
  <2>2. CASE part = "console"
    <3>1. ConsoleInv /\ (Console0!Next \/ UNCHANGED coVars)
      BY <2>2 DEF SharedStep, sharedVars
    <3>2. ConsoleInv' /\ LineStep
      BY <3>1, ConsoleStep, ConsoleSame
    <3> QED
      BY <2>1, <2>2, <3>2
  <2>3. CASE part = "screen"
    <3>1. ScreenInv /\ (Console0!ScreenNext \/ UNCHANGED scVars)
      BY <2>3 DEF SharedStep, sharedVars
    <3>2. ScreenInv'
      BY <3>1, ScreenStep, ScreenSame
    <3> QED
      BY <2>1, <2>3, <3>2
  <2> QED
    BY <2>1, <2>2, <2>3
<1>3. I => (part = "console" =>
              Console0!TypeOK /\ Console0!SleepersBlocked /\ Console0!FullIsEnded)
           /\ (part = "screen" => Console0!ShowsText)
  BY ConsoleIsCorrectAt, ScreenShows
<1>4. R => [part = "console" => [Console0!Lines!Next]_(Console0!Lines!vars)]_sharedVars
  BY DEF LineStep
<1> HIDE DEF I, R
<1> QED
  BY <1>1, <1>2, <1>3, <1>4, PTL DEF SharedSpec, ConsoleCorrect

-----------------------------------------------------------------------------
(* DirectoriesCorrect, for any number of processes, inodes and names.  First counting: *)
(* how many places of a set D a function has an x at.                                 *)

Count(D, h, x) == Cardinality({d \in D : h[d] = x})

LEMMA CountNat ==
  ASSUME NEW D, IsFiniteSet(D), NEW h, NEW x
  PROVE  Count(D, h, x) \in Nat /\ (Count(D, h, x) = 0 <=> \A d \in D : h[d] # x)
<1>1. PICK S : S = {d \in D : h[d] = x}
  OBVIOUS
<1>2. IsFiniteSet(S)
  BY <1>1, FS_Subset
<1>3. Cardinality(S) \in Nat /\ (Cardinality(S) = 0 <=> S = {})
  BY <1>2, FS_CardinalityType, FS_EmptySet
<1> QED
  BY <1>1, <1>3 DEF Count

LEMMA CountSame ==
  ASSUME NEW D, NEW h, NEW k, NEW x, \A d \in D : h[d] = x <=> k[d] = x
  PROVE  Count(D, k, x) = Count(D, h, x)
<1>1. {d \in D : k[d] = x} = {d \in D : h[d] = x}
  OBVIOUS
<1> QED
  BY <1>1 DEF Count

LEMMA CountFewer ==
  ASSUME NEW D, IsFiniteSet(D), NEW h, NEW k, NEW x, \A d \in D : k[d] = x => h[d] = x
  PROVE  Count(D, k, x) <= Count(D, h, x)
<1>1. PICK S : S = {d \in D : h[d] = x}
  OBVIOUS
<1>2. PICK T : T = {d \in D : k[d] = x}
  OBVIOUS
<1>3. IsFiniteSet(S) /\ T \subseteq S
  BY <1>1, <1>2, FS_Subset
<1>4. Cardinality(T) <= Cardinality(S)
  BY <1>3, FS_Subset
<1> QED
  BY <1>1, <1>2, <1>4 DEF Count

\* what is at one place changes
Differ(D, h, k, a) == a \in D /\ \A d \in D \ {a} : k[d] = h[d]

LEMMA CountOne ==
  ASSUME NEW D, IsFiniteSet(D), NEW h, NEW k, NEW a, NEW x, Differ(D, h, k, a)
  PROVE  /\ Count(D, k, x) \in Nat /\ Count(D, h, x) \in Nat
         /\ Count(D, k, x) = Count(D, h, x) + (IF k[a] = x THEN 1 ELSE 0)
                                            - (IF h[a] = x THEN 1 ELSE 0)
<1>1. PICK S : S = {d \in D \ {a} : h[d] = x}
  OBVIOUS
<1>2. IsFiniteSet(S) /\ a \notin S
  BY <1>1, FS_Subset
<1>3. IsFiniteSet(S \cup {a}) /\ Cardinality(S \cup {a}) = Cardinality(S) + 1
      /\ Cardinality(S) \in Nat
  BY <1>2, FS_AddElement, FS_CardinalityType
<1>4. {d \in D : h[d] = x} = (IF h[a] = x THEN S \cup {a} ELSE S)
  BY <1>1 DEF Differ
<1>5. {d \in D : k[d] = x} = (IF k[a] = x THEN S \cup {a} ELSE S)
  BY <1>1 DEF Differ
<1>6. Count(D, h, x) = Cardinality(S) + (IF h[a] = x THEN 1 ELSE 0)
  <2>1. Count(D, h, x) = Cardinality(IF h[a] = x THEN S \cup {a} ELSE S)
    BY <1>4 DEF Count
  <2> QED
    BY <2>1, <1>3
<1>7. Count(D, k, x) = Cardinality(S) + (IF k[a] = x THEN 1 ELSE 0)
  <2>1. Count(D, k, x) = Cardinality(IF k[a] = x THEN S \cup {a} ELSE S)
    BY <1>5 DEF Count
  <2> QED
    BY <2>1, <1>3
<1> QED
  BY <1>3, <1>6, <1>7

-----------------------------------------------------------------------------
(* Constants and paths *)

Inums == {Root} \cup Inode
Slot  == FileName \cup {".", ".."}
Paths == {s \in Seq(Slot) : 1 <= Len(s) /\ Len(s) <= PathLen}
Rest  == Paths \cup {<<>>}

LEMMA TreeLibrary ==
  \A S : /\ Tree!IsFiniteSet(S) <=> IsFiniteSet(S)
         /\ Tree!Cardinality(S) = Cardinality(S)
BY DEF Tree!IsFiniteSet, IsFiniteSet, Tree!Cardinality, Cardinality

LEMMA TreeConstants ==
  /\ IsFiniteSet(Caller) /\ IsFiniteSet(Inums) /\ IsFiniteSet(FileName)
  /\ Root \in Inums /\ Nil \notin Caller /\ Nil \notin Inums
  /\ "." \notin FileName /\ ".." \notin FileName /\ DirName \subseteq FileName
  /\ PathLen \in Nat \ {0}
  /\ Tree!Slots = Slot
BY SharedAssumption, TreeLibrary
   DEF Tree!InumAssumption, Tree!NameAssumption, Inums, Slot, Tree!Slots

LEMMA PathsAre ==
  ASSUME NEW E, E \subseteq Slot, NEW len \in 1 .. PathLen
  PROVE  Tree!PathsOf(E, len) \subseteq Rest
<1> SUFFICES ASSUME NEW s \in Tree!PathsOf(E, len) PROVE s \in Rest
  OBVIOUS
<1>1. PICK n \in 0 .. len : s \in [1 .. n -> E]
  BY DEF Tree!PathsOf
<1>2. n \in Nat /\ n <= PathLen
  BY <1>1, TreeConstants
<1>3. s \in Seq(Slot) /\ Len(s) = n
  BY <1>1, <1>2
<1>4. CASE n = 0
  BY <1>3, <1>4, EmptySeq DEF Rest
<1>5. CASE n # 0
  BY <1>2, <1>3, <1>5 DEF Paths, Rest
<1> QED
  BY <1>4, <1>5

LEMMA AllPaths == Tree!Paths = Rest
<1>1. Tree!Paths \subseteq Rest
  BY PathsAre, TreeConstants DEF Tree!Paths, Slot
<1>2. ASSUME NEW s \in Paths PROVE s \in Tree!Paths
  <2>1. PICK n : n = Len(s)
    OBVIOUS
  <2>2. n \in 0 .. PathLen /\ s \in [1 .. n -> Slot]
    BY <2>1, TreeConstants DEF Paths
  <2> QED
    BY <2>2 DEF Tree!Paths, Tree!PathsOf, Slot
<1>3. <<>> \in Tree!Paths
  <2>1. <<>> \in [1 .. 0 -> Slot] /\ 0 \in 0 .. PathLen
    BY TreeConstants
  <2> QED
    BY <2>1 DEF Tree!Paths, Tree!PathsOf, Slot
<1> QED
  BY <1>1, <1>2, <1>3 DEF Rest

LEMMA RestOfPath ==
  ASSUME NEW s \in Paths
  PROVE  /\ Head(s) \in Slot /\ Len(s) \in Nat
         /\ Tail(s) \in Paths \cup {<<>>} /\ (Len(s) # 1 => Tail(s) \in Paths)
<1>1. s \in Seq(Slot) /\ s # <<>> /\ Len(s) \in Nat /\ Len(s) >= 1 /\ Len(s) <= PathLen
  BY DEF Paths
<1>2. Head(s) \in Slot /\ Tail(s) \in Seq(Slot) /\ Len(Tail(s)) = Len(s) - 1
  BY <1>1, HeadTailProperties
<1>3. Len(s) # 1 => Tail(s) \in Paths
  BY <1>1, <1>2, TreeConstants DEF Paths
<1>4. Len(s) = 1 => Tail(s) = <<>>
  <2>1. Len(s) = 1 => Len(Tail(s)) = 0
    BY <1>2
  <2> QED
    BY <1>2, <2>1, EmptySeq
<1> QED
  BY <1>1, <1>2, <1>3, <1>4

LEMMA PathsNonempty == \A s \in Paths : s # <<>>
BY DEF Paths

-----------------------------------------------------------------------------
(* The counts of the invariant: entries that name an inode, directories named in it,  *)
(* calls half done that still count one of its links, and references to it            *)

Edge == Inums \X FileName
EntryAt(en) == [e \in Edge |-> en[e[1]][e[2]]]
ParentAt(en, ty) ==
  [e \in Edge |-> IF en[e[1]][e[2]] # Nil /\ ty[en[e[1]][e[2]]] = "dir" THEN e[1] ELSE Nil]

PendingOf(r) ==
  IF r.old # Nil THEN r.old ELSE IF r.pc = "unlinked" THEN r.child ELSE Nil
PendingAt(pr) == [p \in Caller |-> PendingOf(pr[p])]

IpOf(r) ==
  IF r.pc \in {"walk", "got", "parent", "linkbad", "unlink", "unlinkbad"} THEN r.ip ELSE Nil
ChildOf(r) ==
  IF r.pc \in {"unlink", "unlinked", "exists", "created"} THEN r.child ELSE Nil
PutOf(r)  == IF Len(r.puts) > 0 THEN r.puts[1] ELSE Nil
NextOf(r) == IF Len(r.puts) > 1 THEN r.puts[2] ELSE Nil

HeldOf(r) ==
  [cwd |-> r.cwd, file |-> r.file, old |-> r.old, ip |-> IpOf(r), child |-> ChildOf(r),
   put |-> PutOf(r), next |-> NextOf(r)]
Spot == Caller \X Tree!Place
HeldAt(pr) == [h \in Spot |-> HeldOf(pr[h[1]])[h[2]]]

Bit(x, i) == IF x = i THEN 1 ELSE 0
RefsOf(r, i) ==
  Bit(r.cwd, i) + Bit(r.file, i) + Bit(r.old, i) + Bit(IpOf(r), i) + Bit(ChildOf(r), i)
    + Bit(PutOf(r), i) + Bit(NextOf(r), i)

Named(i) == Count(Edge, EntryAt(fsEntry), i)
Subs(i)  == Count(Edge, ParentAt(fsEntry, fsType), i)
Pend(i)  == Count(Caller, PendingAt(fsProc), i)
Refs(i)  == Count(Spot, HeldAt(fsProc), i)

LEMMA EdgesFinite == IsFiniteSet(Edge)
BY TreeConstants, FS_Product DEF Edge

LEMMA SpotsFinite == IsFiniteSet(Spot)
<1>1. Tree!Place = {"cwd", "file", "old", "ip", "child", "put", "next"}
  BY DEF Tree!Place
<1>2. IsFiniteSet(Tree!Place)
  <2>1. IsFiniteSet({"cwd"})
    BY FS_Singleton
  <2>2. IsFiniteSet({"cwd"} \cup {"file"} \cup {"old"})
    BY <2>1, FS_AddElement
  <2>3. IsFiniteSet({"cwd"} \cup {"file"} \cup {"old"} \cup {"ip"} \cup {"child"})
    BY <2>2, FS_AddElement
  <2>4. IsFiniteSet({"cwd"} \cup {"file"} \cup {"old"} \cup {"ip"} \cup {"child"} \cup {"put"}
                      \cup {"next"})
    BY <2>3, FS_AddElement
  <2>5. {"cwd"} \cup {"file"} \cup {"old"} \cup {"ip"} \cup {"child"} \cup {"put"} \cup {"next"}
        = Tree!Place
    BY <1>1
  <2> QED
    BY <2>4, <2>5
<1> QED
  BY <1>2, TreeConstants, FS_Product DEF Spot

LEMMA LinksAre ==
  ASSUME NEW i \in Inums
  PROVE  Tree!Cardinality(Tree!Links(i)) = Named(i) /\ (Tree!Links(i) = {} <=> Named(i) = 0)
<1>1. Tree!Links(i) = {e \in Edge : EntryAt(fsEntry)[e] = i}
  BY DEF Tree!Links, Edge, EntryAt, Inums
<1>2. Named(i) = 0 <=> \A e \in Edge : EntryAt(fsEntry)[e] # i
  BY CountNat, EdgesFinite DEF Named
<1> QED
  BY <1>1, <1>2, TreeLibrary DEF Named, Count

LEMMA SubdirsAre ==
  ASSUME Tree!TypeOK, NEW i \in Inums
  PROVE  Tree!Cardinality(Tree!Subdirs(i)) = Subs(i)
<1>1. {e \in Edge : ParentAt(fsEntry, fsType)[e] = i} = {i} \X Tree!Subdirs(i)
  BY TreeConstants DEF Tree!Subdirs, Edge, ParentAt
<1>2. IsFiniteSet({i}) /\ Cardinality({i}) = 1
  BY FS_Singleton
<1>3. IsFiniteSet(Tree!Subdirs(i))
  BY TreeConstants, FS_Subset DEF Tree!Subdirs
<1>4. Cardinality({i} \X Tree!Subdirs(i)) = 1 * Cardinality(Tree!Subdirs(i))
  BY <1>2, <1>3, FS_Product
<1>5. Cardinality(Tree!Subdirs(i)) \in Nat
  BY <1>3, FS_CardinalityType
<1>6. Cardinality({i} \X Tree!Subdirs(i)) = Cardinality(Tree!Subdirs(i))
  BY <1>4, <1>5
<1> QED
  BY <1>1, <1>6, TreeLibrary DEF Subs, Count

LEMMA RefsAre ==
  ASSUME NEW i \in Inums
  PROVE  Tree!Cardinality({h \in Caller \X Tree!Place : Tree!Held(h[1])[h[2]] = i}) = Refs(i)
<1>1. \A p \in Caller : Tree!Held(p) = HeldOf(fsProc[p])
  BY DEF Tree!Held, HeldOf, IpOf, ChildOf, PutOf, NextOf
<1>2. {h \in Caller \X Tree!Place : Tree!Held(h[1])[h[2]] = i}
      = {h \in Spot : HeldAt(fsProc)[h] = i}
  BY <1>1 DEF Spot, HeldAt
<1> QED
  BY <1>2, TreeLibrary DEF Refs, Count

\* the places of one process
Row(h, p, i) ==
  Bit(h[<<p, "cwd">>], i) + Bit(h[<<p, "file">>], i) + Bit(h[<<p, "old">>], i)
    + Bit(h[<<p, "ip">>], i) + Bit(h[<<p, "child">>], i) + Bit(h[<<p, "put">>], i)
    + Bit(h[<<p, "next">>], i)
Mixed(h, k, p, S) == [d \in Spot |-> IF d[1] = p /\ d[2] \in S THEN k[d] ELSE h[d]]

LEMMA BitType == \A x, i : Bit(x, i) \in {0, 1} /\ (Bit(x, i) = 1 <=> x = i)
BY DEF Bit

LEMMA RowCount ==
  ASSUME NEW h, NEW k, NEW p \in Caller, NEW i, \A d \in Spot : d[1] # p => k[d] = h[d]
  PROVE  Count(Spot, k, i) = Count(Spot, h, i) + Row(k, p, i) - Row(h, p, i)
<1> DEFINE C(S) == Count(Spot, Mixed(h, k, p, S), i)
           D(a) == Bit(k[<<p, a>>], i) - Bit(h[<<p, a>>], i)
<1>1. C({}) = Count(Spot, h, i) /\ C({}) \in Nat
  <2>1. \A d \in Spot : Mixed(h, k, p, {})[d] = i <=> h[d] = i
    BY DEF Mixed
  <2> QED
    BY <2>1, CountSame, CountNat, SpotsFinite
<1>2. C(Tree!Place) = Count(Spot, k, i)
  <2>1. \A d \in Spot : k[d] = i <=> Mixed(h, k, p, Tree!Place)[d] = i
    BY DEF Mixed, Spot
  <2> QED
    BY <2>1, CountSame
<1>3. \A S, a : a \in Tree!Place /\ a \notin S =>
        C(S) \in Nat /\ C(S \cup {a}) \in Nat /\ C(S \cup {a}) = C(S) + D(a)
  <2> SUFFICES ASSUME NEW S, NEW a \in Tree!Place, a \notin S
               PROVE  C(S) \in Nat /\ C(S \cup {a}) \in Nat /\ C(S \cup {a}) = C(S) + D(a)
    OBVIOUS
  <2>1. \A x, y, u, v : (u \in {0, 1} /\ v \in {0, 1} /\ x \in Nat /\ y = x + u - v)
                           => y = x + (u - v)
    OBVIOUS
  <2>2. Bit(k[<<p, a>>], i) \in {0, 1} /\ Bit(h[<<p, a>>], i) \in {0, 1}
    BY BitType
  <2>3. /\ C(S) \in Nat /\ C(S \cup {a}) \in Nat
        /\ C(S \cup {a}) = C(S) + Bit(k[<<p, a>>], i) - Bit(h[<<p, a>>], i)
  <3>1. <<p, a>> \in Spot
    BY DEF Spot
  <3>2. Differ(Spot, Mixed(h, k, p, S), Mixed(h, k, p, S \cup {a}), <<p, a>>)
    <4>1. ASSUME NEW d \in Spot \ {<<p, a>>}
          PROVE  Mixed(h, k, p, S \cup {a})[d] = Mixed(h, k, p, S)[d]
      <5>1. PICK q \in Caller, b \in Tree!Place : d = <<q, b>>
        BY DEF Spot
      <5>2. ~ (q = p /\ b = a)
        BY <5>1, <4>1
      <5> QED
        BY <5>1, <5>2 DEF Mixed
    <4> QED
      BY <3>1, <4>1 DEF Differ
  <3>3. Mixed(h, k, p, S)[<<p, a>>] = h[<<p, a>>]
        /\ Mixed(h, k, p, S \cup {a})[<<p, a>>] = k[<<p, a>>]
    BY <3>1 DEF Mixed
  <3> QED
    BY <3>2, <3>3, CountOne, SpotsFinite DEF Bit
  <2> QED
    BY <2>1, <2>2, <2>3
<1>4. \A a : D(a) \in Int
  BY BitType
<1> HIDE DEF C, D
<1>5. Tree!Place = {"cwd", "file", "old", "ip", "child", "put", "next"}
  BY DEF Tree!Place
<1>6. C({"cwd"}) = C({}) + D("cwd") /\ C({"cwd"}) \in Nat
  <2>1. {} \cup {"cwd"} = {"cwd"}
    OBVIOUS
  <2> QED
    BY <1>3, <1>5, <2>1
<1>7. C({"cwd", "file"}) = C({"cwd"}) + D("file") /\ C({"cwd", "file"}) \in Nat
  <2>1. {"cwd"} \cup {"file"} = {"cwd", "file"} /\ "file" \notin {"cwd"}
    OBVIOUS
  <2> QED
    BY <1>3, <1>5, <2>1
<1>8. /\ C({"cwd", "file", "old"}) = C({"cwd", "file"}) + D("old")
      /\ C({"cwd", "file", "old"}) \in Nat
  <2>1. {"cwd", "file"} \cup {"old"} = {"cwd", "file", "old"} /\ "old" \notin {"cwd", "file"}
    OBVIOUS
  <2> QED
    BY <1>3, <1>5, <2>1
<1>9. /\ C({"cwd", "file", "old", "ip"}) = C({"cwd", "file", "old"}) + D("ip")
      /\ C({"cwd", "file", "old", "ip"}) \in Nat
  <2>1. /\ {"cwd", "file", "old"} \cup {"ip"} = {"cwd", "file", "old", "ip"}
        /\ "ip" \notin {"cwd", "file", "old"}
    OBVIOUS
  <2> QED
    BY <1>3, <1>5, <2>1
<1>10. /\ C({"cwd", "file", "old", "ip", "child"}) = C({"cwd", "file", "old", "ip"}) + D("child")
       /\ C({"cwd", "file", "old", "ip", "child"}) \in Nat
  <2>1. /\ {"cwd", "file", "old", "ip"} \cup {"child"} = {"cwd", "file", "old", "ip", "child"}
        /\ "child" \notin {"cwd", "file", "old", "ip"}
    OBVIOUS
  <2> QED
    BY <1>3, <1>5, <2>1
<1>11. /\ C({"cwd", "file", "old", "ip", "child", "put"})
            = C({"cwd", "file", "old", "ip", "child"}) + D("put")
       /\ C({"cwd", "file", "old", "ip", "child", "put"}) \in Nat
  <2>1. /\ {"cwd", "file", "old", "ip", "child"} \cup {"put"}
             = {"cwd", "file", "old", "ip", "child", "put"}
        /\ "put" \notin {"cwd", "file", "old", "ip", "child"}
    OBVIOUS
  <2> QED
    BY <1>3, <1>5, <2>1
<1>12. C(Tree!Place) = C({"cwd", "file", "old", "ip", "child", "put"}) + D("next")
  <2>1. /\ {"cwd", "file", "old", "ip", "child", "put"} \cup {"next"} = Tree!Place
        /\ "next" \notin {"cwd", "file", "old", "ip", "child", "put"} /\ "next" \in Tree!Place
    BY <1>5
  <2> QED
    BY <1>3, <2>1
<1>13. C(Tree!Place) = C({}) + (D("cwd") + D("file") + D("old") + D("ip") + D("child")
                                  + D("put") + D("next"))
  BY <1>1, <1>4, <1>6, <1>7, <1>8, <1>9, <1>10, <1>11, <1>12
<1>14. D("cwd") + D("file") + D("old") + D("ip") + D("child") + D("put") + D("next")
       = Row(k, p, i) - Row(h, p, i)
  BY BitType DEF D, Row
<1>15. Row(k, p, i) \in Int /\ Row(h, p, i) \in Int
  BY BitType DEF Row
<1> QED
  BY <1>1, <1>2, <1>13, <1>14, <1>15, BitType

-----------------------------------------------------------------------------
(* The inductive invariant.  Shape: the locals of a call, by where it is.             *)

Shape(r) ==
  /\ r.old # Nil => r.call = "link"
  /\ r.pc = "user" => r.old = Nil /\ r.call = "none"
  /\ r.pc \in {"walk", "got", "parent", "linkbad", "unlink", "unlinkbad"} => r.ip # Nil
  /\ r.pc \in {"unlink", "unlinked", "exists", "created"} => r.child # Nil
  /\ r.pc \in {"parent", "unlink"} => r.path # <<>>
  /\ r.pc \in {"unlink", "unlinkbad", "unlinked"} => r.call = "unlink"
  /\ r.pc \in {"exists", "created"} => r.call \in {"create", "mkdir"}
  /\ r.pc \in {"unlinknew", "linkbad"} => r.old # Nil
  /\ r.pc = "got" => r.old = Nil
  /\ r.call \in {"open", "create"} => r.file = Nil
  /\ Len(r.puts) <= 2
  /\ r.drop => r.puts # <<>>

\* what a call knows of the inodes it has come to, and the locks it holds
Own(p) ==
  LET r == fsProc[p] IN
  /\ r.old # Nil => fsType[r.old] = "file"
  /\ r.pc = "parent" => fsType[r.ip] = "dir"
  /\ r.pc \in {"linkbad", "unlink", "unlinkbad"} => fsLock[r.ip] = p
  /\ r.pc \in {"unlinked", "created"} => fsLock[r.child] = p
  /\ r.pc = "unlink" => fsEntry[r.ip][Head(r.path)] = r.child /\ Head(r.path) \in FileName
  /\ r.pc = "unlinked" /\ fsType[r.child] = "dir" =>
       /\ r.child # Root /\ Named(r.child) = 0
       /\ \A n \in FileName : fsEntry[r.child][n] = Nil

RefsExact == \A i \in Inums : fsRef[i] = Refs(i)
Covered   == \A i \in Inums : Named(i) + Subs(i) + Pend(i) <= fsNlink[i]
Unused ==
  \A i \in Inums : /\ fsType[i] = "free" => fsNlink[i] = 0
                   /\ fsType[i] # "dir" => fsEntry[i] = Tree!Empty
Rooted == fsType[Root] = "dir" /\ Named(Root) = 0 /\ fsEntry[Root][".."] = Root
Directories ==
  \A i \in Inums : fsType[i] = "dir" =>
    /\ fsEntry[i]["."] = i /\ fsEntry[i][".."] \in Inums
    /\ Named(i) <= 1
    /\ \A e \in Edge : fsEntry[e[1]][e[2]] = i => fsEntry[i][".."] = e[1]
    /\ i = Root \/ Named(i) # 0 => fsNlink[i] = 1 + Subs(i)

Locals ==
  /\ Tree!TypeOK
  /\ \A p \in Caller : Shape(fsProc[p])

TreeInv ==
  /\ Locals /\ RefsExact /\ Covered /\ Unused /\ Rooted /\ Directories
  /\ \A p \in Caller : Own(p)

-----------------------------------------------------------------------------
(* What the calls do to their locals and to the references                            *)

\* p moves: its locals, and the references it takes and gives back
Moves(p) ==
  /\ fsProc' = [fsProc EXCEPT ![p] = fsProc'[p]]
  /\ fsProc'[p] \in Tree!Locals /\ Shape(fsProc'[p])
  /\ fsRef' \in [Inums -> Int]
  /\ \A i \in Inums : fsRef'[i] = fsRef[i] + RefsOf(fsProc'[p], i) - RefsOf(fsProc[p], i)

\* the call goes on at pc
Goes(p, pc, path, ip, child, puts) ==
  LET q == fsProc[p]
      r == fsProc'[p] IN
  /\ fsProc' = [fsProc EXCEPT ![p] = r] /\ r \in Tree!Locals
  /\ r.call = q.call /\ r.new = q.new /\ r.old = q.old
  /\ r.cwd = q.cwd /\ r.file = q.file /\ r.drop = q.drop
  /\ r.pc = pc /\ r.path = path /\ r.ip = ip /\ r.child = child /\ r.puts = puts

\* it returns
Leaves(p, cwd, file, puts) ==
  LET q == fsProc[p]
      r == fsProc'[p] IN
  /\ fsProc' = [fsProc EXCEPT ![p] = r] /\ r \in Tree!Locals
  /\ r.call = "none" /\ r.pc = "user" /\ r.path = <<>> /\ r.new = <<>>
  /\ r.ip = Nil /\ r.child = Nil /\ r.old = Nil
  /\ r.cwd = cwd /\ r.file = file /\ r.drop = q.drop /\ r.puts = puts

\* it starts to walk a path at ip
Starts(p, sys, path, new, old, ip) ==
  LET q == fsProc[p]
      r == fsProc'[p] IN
  /\ fsProc' = [fsProc EXCEPT ![p] = r] /\ r \in Tree!Locals
  /\ r.call = sys /\ r.pc = "walk" /\ r.path = path /\ r.new = new
  /\ r.ip = ip /\ r.child = q.child /\ r.old = old
  /\ r.cwd = q.cwd /\ r.file = q.file /\ r.drop = q.drop /\ r.puts = q.puts

Call == Tree!Calls \cup {"none"}
Pc == {"user", "walk", "got", "parent", "unlink", "unlinkbad", "unlinked",
       "exists", "created", "linkbad", "unlinknew"}
Some == Inums \cup {Nil}
Puts == Seq(Inums)

LEMMA LocalsAre ==
  Tree!Locals = [call : Call, pc : Pc, path : Rest, new : Rest, ip : Some, child : Some,
                 old : Some, puts : Puts, drop : BOOLEAN, cwd : Inums, file : Some]
BY AllPaths DEF Tree!Locals, Call, Pc, Rest, Some, Puts, Inums

LEMMA LocalsType ==
  ASSUME Tree!TypeOK
  PROVE  /\ fsProc \in [Caller -> Tree!Locals] /\ fsRef \in [Inums -> Nat]
         /\ fsType \in [Inums -> {"free", "file", "dir"}] /\ fsNlink \in [Inums -> Nat]
         /\ fsEntry \in [Inums -> [Slot -> Some]] /\ fsLock \in [Inums -> Caller \cup {Nil}]
BY TreeConstants DEF Tree!TypeOK, Inums, Some

LEMMA LocalsOf ==
  ASSUME Tree!TypeOK, NEW p \in Caller
  PROVE  /\ fsProc[p] \in Tree!Locals
         /\ fsProc[p].path \in Rest /\ fsProc[p].new \in Rest
         /\ fsProc[p].ip \in Some /\ fsProc[p].child \in Some /\ fsProc[p].old \in Some
         /\ fsProc[p].puts \in Puts /\ fsProc[p].drop \in BOOLEAN
         /\ fsProc[p].cwd \in Inums /\ fsProc[p].file \in Some
BY LocalsType, LocalsAre

LEMMA GoesOn ==
  ASSUME Tree!TypeOK, NEW p \in Caller,
         NEW pc \in Pc, NEW path \in Rest, NEW ip \in Some, NEW child \in Some, NEW puts \in Puts,
         fsProc' = [fsProc EXCEPT ![p] =
           [fsProc[p] EXCEPT !.pc = pc, !.puts = puts, !.path = path, !.ip = ip, !.child = child]]
  PROVE  Goes(p, pc, path, ip, child, puts)
<1>1. fsProc \in [Caller -> Tree!Locals] /\ fsProc[p] \in Tree!Locals
  BY LocalsType
<1>2. PICK q \in Tree!Locals : q = fsProc[p]
  BY <1>1
<1>3. PICK r : r = [q EXCEPT !.pc = pc, !.puts = puts, !.path = path, !.ip = ip, !.child = child]
  OBVIOUS
<1>4. r \in Tree!Locals
  BY <1>3, LocalsAre
<1>5. /\ r.call = q.call /\ r.new = q.new /\ r.old = q.old
      /\ r.cwd = q.cwd /\ r.file = q.file /\ r.drop = q.drop
      /\ r.pc = pc /\ r.path = path /\ r.ip = ip /\ r.child = child /\ r.puts = puts
  BY <1>3, LocalsAre
<1>6. fsProc' = [fsProc EXCEPT ![p] = r] /\ fsProc'[p] = r
  BY <1>1, <1>2, <1>3
<1> QED
  BY <1>2, <1>4, <1>5, <1>6 DEF Goes

LEMMA EndsIn ==
  ASSUME Tree!TypeOK, NEW p \in Caller,
         NEW cwd \in Inums, NEW file \in Some, NEW puts \in Puts,
         fsProc' = [fsProc EXCEPT ![p] =
           [Tree!Return(p, puts) EXCEPT !.cwd = cwd, !.file = file]]
  PROVE  Leaves(p, cwd, file, puts)
<1>1. fsProc \in [Caller -> Tree!Locals] /\ fsProc[p] \in Tree!Locals
  BY LocalsType
<1>2. PICK q \in Tree!Locals : q = fsProc[p]
  BY <1>1
<1>3. PICK r : r = [[q EXCEPT !.pc = "user", !.call = "none", !.path = <<>>, !.new = <<>>,
                             !.ip = Nil, !.child = Nil, !.old = Nil, !.puts = puts]
                      EXCEPT !.cwd = cwd, !.file = file]
  OBVIOUS
<1>4. "user" \in Pc /\ "none" \in Call /\ <<>> \in Rest /\ Nil \in Some
  BY DEF Pc, Call, Rest, Some
<1>5. r \in Tree!Locals
  BY <1>3, <1>4, LocalsAre
<1>6. /\ r.call = "none" /\ r.pc = "user" /\ r.path = <<>> /\ r.new = <<>>
      /\ r.ip = Nil /\ r.child = Nil /\ r.old = Nil
      /\ r.cwd = cwd /\ r.file = file /\ r.drop = q.drop /\ r.puts = puts
  BY <1>3, LocalsAre
<1>7. fsProc' = [fsProc EXCEPT ![p] = r] /\ fsProc'[p] = r
  BY <1>1, <1>2, <1>3 DEF Tree!Return
<1> QED
  BY <1>2, <1>5, <1>6, <1>7 DEF Leaves

StartsAt(p, sys, path, new, old) ==
  \E ip \in Inums : /\ Starts(p, sys, path, new, old, ip)
                    /\ fsRef' = [fsRef EXCEPT ![ip] = @ + 1]

LEMMA StartsIn ==
  ASSUME Tree!TypeOK, NEW p \in Caller,
         NEW sys \in Call, NEW path \in Rest, NEW new \in Rest, NEW old \in Some,
         Tree!StartWalk(p, [fsProc[p] EXCEPT !.call = sys, !.old = old, !.new = new], path)
  PROVE  StartsAt(p, sys, path, new, old)
<1>1. fsProc \in [Caller -> Tree!Locals] /\ fsProc[p] \in Tree!Locals /\ fsProc[p].cwd \in Inums
  BY LocalsType, LocalsOf
<1>2. PICK q \in Tree!Locals : q = fsProc[p]
  BY <1>1
<1>3. PICK ip \in Inums :
        /\ fsProc' = [fsProc EXCEPT ![p] =
             [[q EXCEPT !.call = sys, !.old = old, !.new = new]
                EXCEPT !.pc = "walk", !.path = path, !.ip = ip]]
        /\ fsRef' = [fsRef EXCEPT ![ip] = @ + 1]
  BY <1>1, <1>2, TreeConstants DEF Tree!StartWalk, Tree!Become
<1>4. PICK r : r = [[q EXCEPT !.call = sys, !.old = old, !.new = new]
                      EXCEPT !.pc = "walk", !.path = path, !.ip = ip]
  OBVIOUS
<1>5. "walk" \in Pc /\ ip \in Some
  BY DEF Pc, Some
<1>6. r \in Tree!Locals
  BY <1>4, <1>5, LocalsAre
<1>7. /\ r.call = sys /\ r.pc = "walk" /\ r.path = path /\ r.new = new
      /\ r.ip = ip /\ r.child = q.child /\ r.old = old
      /\ r.cwd = q.cwd /\ r.file = q.file /\ r.drop = q.drop /\ r.puts = q.puts
  BY <1>4, LocalsAre
<1>8. fsProc' = [fsProc EXCEPT ![p] = r] /\ fsProc'[p] = r
  BY <1>1, <1>2, <1>3, <1>4
<1> QED
  BY <1>2, <1>3, <1>6, <1>7, <1>8 DEF Starts, StartsAt

LEMMA SameRecords ==
  ASSUME NEW q \in Tree!Locals, NEW pc, NEW puts, NEW path, NEW ip, NEW child, NEW cwd, NEW file
  PROVE  /\ [q EXCEPT !.pc = pc, !.puts = puts] =
              [q EXCEPT !.pc = pc, !.puts = puts, !.path = q.path, !.ip = q.ip, !.child = q.child]
         /\ [[q EXCEPT !.pc = pc, !.puts = puts] EXCEPT !.ip = ip, !.path = path] =
              [q EXCEPT !.pc = pc, !.puts = puts, !.path = path, !.ip = ip, !.child = q.child]
         /\ [[q EXCEPT !.pc = pc, !.puts = puts] EXCEPT !.child = child] =
              [q EXCEPT !.pc = pc, !.puts = puts, !.path = q.path, !.ip = q.ip, !.child = child]
<1>1. [q EXCEPT !.pc = pc, !.puts = puts] =
        [q EXCEPT !.pc = pc, !.puts = puts, !.path = q.path, !.ip = q.ip, !.child = q.child]
  BY LocalsAre
<1>2. [[q EXCEPT !.pc = pc, !.puts = puts] EXCEPT !.ip = ip, !.path = path] =
        [q EXCEPT !.pc = pc, !.puts = puts, !.path = path, !.ip = ip, !.child = q.child]
  BY LocalsAre
<1>3. [[q EXCEPT !.pc = pc, !.puts = puts] EXCEPT !.child = child] =
        [q EXCEPT !.pc = pc, !.puts = puts, !.path = q.path, !.ip = q.ip, !.child = child]
  BY LocalsAre
<1> QED
  BY <1>1, <1>2, <1>3

LEMMA SameReturns ==
  ASSUME Tree!TypeOK, NEW p \in Caller, NEW puts
  PROVE  /\ Tree!Return(p, puts) =
              [Tree!Return(p, puts) EXCEPT !.cwd = fsProc[p].cwd, !.file = fsProc[p].file]
         /\ \A file : [Tree!Return(p, puts) EXCEPT !.file = file] =
                        [Tree!Return(p, puts) EXCEPT !.cwd = fsProc[p].cwd, !.file = file]
         /\ \A cwd : [Tree!Return(p, puts) EXCEPT !.cwd = cwd] =
                       [Tree!Return(p, puts) EXCEPT !.cwd = cwd, !.file = fsProc[p].file]
<1>1. PICK q \in Tree!Locals : q = fsProc[p]
  BY LocalsType
<1>2. PICK r : r = [q EXCEPT !.pc = "user", !.call = "none", !.path = <<>>, !.new = <<>>,
                             !.ip = Nil, !.child = Nil, !.old = Nil, !.puts = puts]
  OBVIOUS
<1>3. r = Tree!Return(p, puts)
  BY <1>1, <1>2 DEF Tree!Return
<1>4. r.cwd = q.cwd /\ r.file = q.file
  BY <1>2, LocalsAre
<1>5. r = [r EXCEPT !.cwd = q.cwd, !.file = q.file]
  BY <1>2, <1>4, LocalsAre
<1>6. \A file : [r EXCEPT !.file = file] = [r EXCEPT !.cwd = q.cwd, !.file = file]
  BY <1>2, <1>4, LocalsAre
<1>7. \A cwd : [r EXCEPT !.cwd = cwd] = [r EXCEPT !.cwd = cwd, !.file = q.file]
  BY <1>2, <1>4, LocalsAre
<1> QED
  BY <1>1, <1>3, <1>5, <1>6, <1>7

\* the ways in which the actions write the locals
LEMMA Continues ==
  ASSUME Tree!TypeOK, NEW p \in Caller, NEW pc \in Pc, NEW puts \in Puts
  PROVE  /\ Tree!Become(p, Tree!Continue(p, pc, puts))
              => Goes(p, pc, fsProc[p].path, fsProc[p].ip, fsProc[p].child, puts)
         /\ \A path \in Rest, ip \in Some :
              Tree!Become(p, [Tree!Continue(p, pc, puts) EXCEPT !.ip = ip, !.path = path])
                => Goes(p, pc, path, ip, fsProc[p].child, puts)
         /\ \A child \in Some :
              Tree!Become(p, [Tree!Continue(p, pc, puts) EXCEPT !.child = child])
                => Goes(p, pc, fsProc[p].path, fsProc[p].ip, child, puts)
<1>1. fsProc[p] \in Tree!Locals /\ fsProc[p].path \in Rest /\ fsProc[p].ip \in Some
      /\ fsProc[p].child \in Some
  BY LocalsOf
<1>2. ASSUME Tree!Become(p, Tree!Continue(p, pc, puts))
      PROVE  Goes(p, pc, fsProc[p].path, fsProc[p].ip, fsProc[p].child, puts)
  BY <1>1, <1>2, SameRecords, GoesOn DEF Tree!Become, Tree!Continue
<1>3. ASSUME NEW path \in Rest, NEW ip \in Some,
             Tree!Become(p, [Tree!Continue(p, pc, puts) EXCEPT !.ip = ip, !.path = path])
      PROVE  Goes(p, pc, path, ip, fsProc[p].child, puts)
  BY <1>1, <1>3, SameRecords, GoesOn DEF Tree!Become, Tree!Continue
<1>4. ASSUME NEW child \in Some,
             Tree!Become(p, [Tree!Continue(p, pc, puts) EXCEPT !.child = child])
      PROVE  Goes(p, pc, fsProc[p].path, fsProc[p].ip, child, puts)
  BY <1>1, <1>4, SameRecords, GoesOn DEF Tree!Become, Tree!Continue
<1> QED
  BY <1>2, <1>3, <1>4

LEMMA Returns ==
  ASSUME Tree!TypeOK, NEW p \in Caller, NEW puts \in Puts
  PROVE  /\ Tree!Become(p, Tree!Return(p, puts)) => Leaves(p, fsProc[p].cwd, fsProc[p].file, puts)
         /\ \A file \in Some : Tree!Become(p, [Tree!Return(p, puts) EXCEPT !.file = file])
                                 => Leaves(p, fsProc[p].cwd, file, puts)
         /\ \A cwd \in Inums : Tree!Become(p, [Tree!Return(p, puts) EXCEPT !.cwd = cwd])
                                 => Leaves(p, cwd, fsProc[p].file, puts)
<1>1. fsProc[p].cwd \in Inums /\ fsProc[p].file \in Some
  BY LocalsOf
<1>2. ASSUME Tree!Become(p, Tree!Return(p, puts))
      PROVE  Leaves(p, fsProc[p].cwd, fsProc[p].file, puts)
  BY <1>1, <1>2, SameReturns, EndsIn DEF Tree!Become
<1>3. ASSUME NEW file \in Some, Tree!Become(p, [Tree!Return(p, puts) EXCEPT !.file = file])
      PROVE  Leaves(p, fsProc[p].cwd, file, puts)
  <2>1. [Tree!Return(p, puts) EXCEPT !.file = file] =
          [Tree!Return(p, puts) EXCEPT !.cwd = fsProc[p].cwd, !.file = file]
    <3>1. \A f : [Tree!Return(p, puts) EXCEPT !.file = f] =
                   [Tree!Return(p, puts) EXCEPT !.cwd = fsProc[p].cwd, !.file = f]
      BY SameReturns, Zenon
    <3> QED
      BY <3>1, Zenon
  <2>2. fsProc' = [fsProc EXCEPT ![p] =
          [Tree!Return(p, puts) EXCEPT !.cwd = fsProc[p].cwd, !.file = file]]
    BY <1>3, <2>1 DEF Tree!Become
  <2> QED
    BY <1>1, <2>2, EndsIn
<1>4. ASSUME NEW cwd \in Inums, Tree!Become(p, [Tree!Return(p, puts) EXCEPT !.cwd = cwd])
      PROVE  Leaves(p, cwd, fsProc[p].file, puts)
  <2>1. [Tree!Return(p, puts) EXCEPT !.cwd = cwd] =
          [Tree!Return(p, puts) EXCEPT !.cwd = cwd, !.file = fsProc[p].file]
    BY SameReturns
  <2>2. fsProc' = [fsProc EXCEPT ![p] =
          [Tree!Return(p, puts) EXCEPT !.cwd = cwd, !.file = fsProc[p].file]]
    BY <1>4, <2>1 DEF Tree!Become
  <2> QED
    BY <1>1, <2>2, EndsIn
<1> QED
  BY <1>2, <1>3, <1>4

\* the locks of the others stay
LocksMove(p) ==
  /\ fsLock' \in [Inums -> Caller \cup {Nil}]
  /\ \A i \in Inums : fsLock'[i] # fsLock[i] => fsLock[i] \in {Nil, p}

\* a step that leaves the inodes as they are
Quiet(p) ==
  /\ Moves(p) /\ LocksMove(p) /\ Own(p)'
  /\ UNCHANGED <<fsType, fsNlink, fsEntry>>
  /\ PendingOf(fsProc'[p]) = PendingOf(fsProc[p])

LEMMA PutsAre ==
  /\ <<>> \in Puts /\ Len(<<>>) = 0
  /\ \A i \in Inums : <<i>> \in Puts /\ Len(<<i>>) = 1 /\ <<i>>[1] = i /\ <<i>> # <<>>
  /\ \A i, j \in Inums : /\ <<i, j>> \in Puts /\ Len(<<i, j>>) = 2 /\ <<i, j>> # <<>>
                         /\ <<i, j>>[1] = i /\ <<i, j>>[2] = j
BY DEF Puts

\* what is to be put by a process, in each of the forms that the actions leave
LEMMA PutsOf ==
  ASSUME NEW r
  PROVE  /\ r.puts = <<>> => PutOf(r) = Nil /\ NextOf(r) = Nil
         /\ \A i \in Inums : r.puts = <<i>> => PutOf(r) = i /\ NextOf(r) = Nil
         /\ \A i, j \in Inums : r.puts = <<i, j>> => PutOf(r) = i /\ NextOf(r) = j
<1>1. r.puts = <<>> => PutOf(r) = Nil /\ NextOf(r) = Nil
  BY PutsAre DEF PutOf, NextOf
<1>2. \A i \in Inums : r.puts = <<i>> => PutOf(r) = i /\ NextOf(r) = Nil
  BY PutsAre DEF PutOf, NextOf
<1>3. \A i, j \in Inums : r.puts = <<i, j>> => PutOf(r) = i /\ NextOf(r) = j
  BY PutsAre DEF PutOf, NextOf
<1> QED
  BY <1>1, <1>2, <1>3

LEMMA SomeIs == Some = Inums \cup {Nil} /\ Nil \notin Inums
BY TreeConstants DEF Some

LEMMA SomeInum == \A x \in Some : x # Nil => x \in Inums
BY DEF Some

\* what is read at the start of a step
LEMMA StepAt ==
  ASSUME Locals, NEW p \in Caller, NEW pc, Tree!At(p, pc)
  PROVE  /\ fsProc[p].pc = pc /\ fsProc[p].puts = <<>> /\ ~ fsProc[p].drop
         /\ PutOf(fsProc[p]) = Nil /\ NextOf(fsProc[p]) = Nil
         /\ Shape(fsProc[p]) /\ Tree!TypeOK
<1>1. Tree!TypeOK /\ Shape(fsProc[p])
  BY DEF Locals
<1>2. fsProc[p].pc = pc /\ fsProc[p].puts = <<>>
  BY DEF Tree!At
<1>3. fsProc[p].drop \in BOOLEAN
  BY <1>1, LocalsOf
<1> QED
  BY <1>1, <1>2, <1>3, PutsOf DEF Shape

\* the record of a reference that is taken
LEMMA Taken ==
  ASSUME Tree!TypeOK, NEW i \in Inums, fsRef' = [fsRef EXCEPT ![i] = @ + 1]
  PROVE  /\ fsRef' \in [Inums -> Int]
         /\ \A j \in Inums : fsRef'[j] = fsRef[j] + Bit(i, j)
<1>1. fsRef \in [Inums -> Nat]
  BY LocalsType
<1> QED
  BY <1>1 DEF Bit

LEMMA Untaken ==
  ASSUME Tree!TypeOK, UNCHANGED fsRef
  PROVE  /\ fsRef' \in [Inums -> Int]
         /\ \A j \in Inums : fsRef'[j] = fsRef[j]
BY LocalsType

LEMMA UnchangedLocks ==
  ASSUME Tree!TypeOK, NEW p, UNCHANGED fsLock
  PROVE  LocksMove(p)
BY LocalsType DEF LocksMove

LEMMA IsQuiet ==
  ASSUME Tree!TypeOK, NEW p \in Caller,
         fsProc' = [fsProc EXCEPT ![p] = fsProc'[p]], fsProc'[p] \in Tree!Locals,
         Shape(fsProc'[p]), Own(p)', PendingOf(fsProc'[p]) = PendingOf(fsProc[p]),
         LocksMove(p), UNCHANGED <<fsType, fsNlink, fsEntry>>,
         fsRef' \in [Inums -> Int],
         \A i \in Inums : fsRef'[i] - fsRef[i] = RefsOf(fsProc'[p], i) - RefsOf(fsProc[p], i)
  PROVE  Quiet(p)
<1>1. \A i \in Inums : fsRef[i] \in Int /\ fsRef'[i] \in Int
  BY LocalsType
<1>2. \A i : RefsOf(fsProc'[p], i) \in Int /\ RefsOf(fsProc[p], i) \in Int
  BY DEF RefsOf, Bit
<1>3. \A a, b, c, d \in Int : a - b = c - d => a = b + c - d
  OBVIOUS
<1>4. \A i \in Inums : fsRef'[i] = fsRef[i] + RefsOf(fsProc'[p], i) - RefsOf(fsProc[p], i)
  BY <1>1, <1>2, <1>3
<1> QED
  BY <1>4 DEF Quiet, Moves

LEMMA SystemCallQuiet ==
  ASSUME Locals, NEW p \in Caller, NEW sys \in Tree!Calls, NEW path \in Rest,
         NEW new \in Rest, Tree!SystemCall(p, sys, path, new), Own(p)
  PROVE  Quiet(p)
<1> DEFINE q == fsProc[p]
           r == fsProc'[p]
<1>1. /\ q.pc = "user" /\ q.puts = <<>> /\ ~ q.drop /\ PutOf(q) = Nil /\ NextOf(q) = Nil
      /\ q.old = Nil /\ Tree!TypeOK
  BY StepAt DEF Tree!SystemCall, Shape
<1>2. /\ q.cwd \in Inums /\ q.file \in Some /\ q \in Tree!Locals
  BY <1>1, LocalsOf
<1>3. /\ sys \in {"open", "create"} => q.file = Nil
      /\ Tree!StartWalk(p, [q EXCEPT !.call = sys, !.new = new], path)
      /\ UNCHANGED <<fsType, fsNlink, fsEntry, fsLock>>
  BY DEF Tree!SystemCall
<1>4. [q EXCEPT !.call = sys, !.new = new]
        = [q EXCEPT !.call = sys, !.old = Nil, !.new = new]
  BY <1>1, <1>2, LocalsAre
<1>5. PICK ip \in Inums : /\ Starts(p, sys, path, new, Nil, ip)
                         /\ fsRef' = [fsRef EXCEPT ![ip] = @ + 1]
  <2>1. Tree!StartWalk(p, [q EXCEPT !.call = sys, !.old = Nil, !.new = new], path)
    BY <1>3, <1>4
  <2>2. sys \in Call /\ Nil \in Some
    BY DEF Call, Some
  <2>3. StartsAt(p, sys, path, new, Nil)
    BY <1>1, <2>1, <2>2, StartsIn
  <2> QED
    BY <2>3 DEF StartsAt
<1>6. fsRef' \in [Inums -> Int] /\ \A i \in Inums : fsRef'[i] = fsRef[i] + Bit(ip, i)
  BY <1>1, <1>5, Taken
<1>7. /\ r.pc = "walk" /\ r.old = Nil /\ r.cwd = q.cwd /\ r.file = q.file /\ r.ip = ip
      /\ r.puts = <<>> /\ r.call = sys /\ r.path = path /\ r.new = new /\ ~ r.drop
      /\ r \in Tree!Locals /\ fsProc' = [fsProc EXCEPT ![p] = r]
  BY <1>1, <1>5 DEF Starts
<1> HIDE DEF q, r
<1>8. PutOf(r) = Nil /\ NextOf(r) = Nil
  BY <1>7, PutsOf
<1>9. Shape(r)
  BY <1>2, <1>3, <1>7, TreeConstants DEF Shape, Paths
<1>10. \A i \in Inums : RefsOf(r, i) - RefsOf(q, i) = Bit(ip, i)
  BY <1>1, <1>7, <1>8, TreeConstants DEF RefsOf, IpOf, ChildOf, Bit
<1>11. \A i \in Inums : fsRef'[i] - fsRef[i] = RefsOf(r, i) - RefsOf(q, i)
  <2>1. \A i \in Inums : fsRef[i] \in Nat /\ Bit(ip, i) \in Int
    BY <1>1, LocalsType, BitType
  <2> QED
    BY <1>6, <1>10, <2>1
<1>12. Own(p)'
  BY <1>7 DEF Own, r
<1>13. LocksMove(p)
  BY <1>1, <1>3, UnchangedLocks
<1>14. PendingOf(r) = PendingOf(q)
  BY <1>1, <1>7 DEF PendingOf
<1> QED
  BY <1>1, <1>3, <1>6, <1>7, <1>9, <1>11, <1>12, <1>13, <1>14, IsQuiet DEF q, r

LEMMA FailGoes ==
  ASSUME Tree!TypeOK, NEW p \in Caller, NEW i \in Inums, Tree!Become(p, Tree!Fail(p, <<i>>))
  PROVE  \/ /\ fsProc[p].old # Nil
            /\ Goes(p, "unlinknew", fsProc[p].path, fsProc[p].ip, fsProc[p].child, <<i>>)
         \/ fsProc[p].old = Nil /\ Leaves(p, fsProc[p].cwd, fsProc[p].file, <<i>>)
BY PutsAre, Continues, Returns DEF Tree!Fail, Pc

\* a call that goes on or returns, with the inodes and their locks as they are
LEMMA WalkQuiet ==
  ASSUME Locals, NEW p \in Caller, Tree!Walk(p), Own(p)
  PROVE  Quiet(p)
<1> DEFINE q == fsProc[p]
           r == fsProc'[p]
           i == q.ip
           next == fsEntry[i][Head(q.path)]
<1>1. /\ q.pc = "walk" /\ q.puts = <<>> /\ ~ q.drop /\ PutOf(q) = Nil /\ NextOf(q) = Nil
      /\ Tree!TypeOK /\ Shape(q)
  BY StepAt DEF Tree!Walk
<1>2. /\ q.cwd \in Inums /\ q.file \in Some /\ q.old \in Some /\ i \in Inums
      /\ q.child \in Some /\ q \in Tree!Locals /\ q.path \in Paths
  BY <1>1, LocalsOf, SomeInum DEF Shape, Rest, Tree!Walk
<1>3. /\ Head(q.path) \in Slot /\ Tail(q.path) \in Rest
      /\ Len(q.path) # 1 => Tail(q.path) \in Paths
  BY <1>2, RestOfPath DEF Rest
<1>4. next \in Some
  BY <1>1, <1>2, <1>3, LocalsType
<1>5. UNCHANGED <<fsType, fsNlink, fsEntry, fsLock>> /\ LocksMove(p)
  BY <1>1, UnchangedLocks DEF Tree!Walk
<1>6. \/ Tree!Become(p, Tree!Fail(p, <<i>>)) /\ UNCHANGED fsRef
      \/ fsType[i] = "dir" /\ Tree!Become(p, Tree!Continue(p, "parent", <<>>)) /\ UNCHANGED fsRef
      \/ /\ next # Nil
         /\ Len(q.path) = 1 => ~ Tree!Parent(p)
         /\ fsRef' = [fsRef EXCEPT ![next] = @ + 1]
         /\ Tree!Become(p, [Tree!Continue(p, IF Len(q.path) = 1 THEN "got" ELSE "walk", <<i>>)
                              EXCEPT !.ip = next, !.path = Tail(q.path)])
  BY DEF Tree!Walk
<1>7. CASE Tree!Become(p, Tree!Fail(p, <<i>>)) /\ UNCHANGED fsRef
  <2>1. \/ q.old # Nil /\ Goes(p, "unlinknew", q.path, q.ip, q.child, <<i>>)
        \/ q.old = Nil /\ Leaves(p, q.cwd, q.file, <<i>>)
    BY <1>1, <1>2, <1>7, FailGoes
  <2>2. /\ \/ /\ q.old # Nil /\ r.old = q.old /\ r.pc = "unlinknew"
              /\ r.call = q.call /\ r.new = q.new
           \/ /\ q.old = Nil /\ r.old = Nil /\ r.pc = "user"
              /\ r.call = "none" /\ r.new = <<>>
        /\ r.cwd = q.cwd /\ r.file = q.file /\ r.puts = <<i>> /\ ~ r.drop
        /\ r \in Tree!Locals /\ fsProc' = [fsProc EXCEPT ![p] = r]
    BY <1>1, <2>1 DEF Goes, Leaves
  <2> HIDE DEF q, r, i, next
  <2>3. PutOf(r) = i /\ NextOf(r) = Nil /\ Len(r.puts) = 1
    BY <1>2, <2>2, PutsOf, PutsAre DEF i
  <2>4. Shape(r)
    BY <1>1, <2>2, <2>3 DEF Shape
  <2>5. \A j \in Inums : RefsOf(r, j) = RefsOf(q, j)
    BY <1>1, <2>2, <2>3, TreeConstants DEF RefsOf, IpOf, ChildOf, Bit, i
  <2>6. Own(p)'
    BY <1>5, <2>2 DEF Own, q, r
  <2>7. PendingOf(r) = PendingOf(q)
    BY <1>1, <2>2 DEF PendingOf
  <2>8. \A j \in Inums : fsRef'[j] - fsRef[j] = RefsOf(r, j) - RefsOf(q, j)
    BY <1>1, <1>7, <2>5, LocalsType DEF RefsOf, Bit
  <2> QED
    BY <1>1, <1>5, <1>7, <2>2, <2>4, <2>6, <2>7, <2>8, IsQuiet, Untaken DEF q, r
<1>8. CASE fsType[i] = "dir" /\ Tree!Become(p, Tree!Continue(p, "parent", <<>>)) /\ UNCHANGED fsRef
  <2>1. Goes(p, "parent", q.path, q.ip, q.child, <<>>)
    BY <1>1, <1>8, Continues, PutsAre DEF Pc
  <2>2. /\ r.pc = "parent" /\ r.path = q.path /\ r.ip = i /\ r.old = q.old
        /\ r.call = q.call /\ r.new = q.new
        /\ r.cwd = q.cwd /\ r.file = q.file /\ r.puts = <<>> /\ ~ r.drop
        /\ r \in Tree!Locals /\ fsProc' = [fsProc EXCEPT ![p] = r]
    BY <1>1, <2>1 DEF Goes
  <2> HIDE DEF q, r, i, next
  <2>3. PutOf(r) = Nil /\ NextOf(r) = Nil
    BY <2>2, PutsOf
  <2>4. Shape(r)
    BY <1>1, <1>2, <2>2, <2>3, PathsNonempty DEF Shape, i
  <2>5. \A j \in Inums : RefsOf(r, j) = RefsOf(q, j)
    BY <1>1, <2>2, <2>3 DEF RefsOf, IpOf, ChildOf, Bit, i
  <2>6. Own(p)'
    BY <1>5, <1>8, <2>2 DEF Own, q, r
  <2>7. PendingOf(r) = PendingOf(q)
    BY <1>1, <2>2 DEF PendingOf
  <2>8. \A j \in Inums : fsRef'[j] - fsRef[j] = RefsOf(r, j) - RefsOf(q, j)
    BY <1>1, <1>8, <2>5, LocalsType DEF RefsOf, Bit
  <2> QED
    BY <1>1, <1>5, <1>8, <2>2, <2>4, <2>6, <2>7, <2>8, IsQuiet, Untaken DEF q, r
<1>9. CASE /\ next # Nil
           /\ Len(q.path) = 1 => ~ Tree!Parent(p)
           /\ fsRef' = [fsRef EXCEPT ![next] = @ + 1]
           /\ Tree!Become(p, [Tree!Continue(p, IF Len(q.path) = 1 THEN "got" ELSE "walk", <<i>>)
                                EXCEPT !.ip = next, !.path = Tail(q.path)])
  <2> DEFINE pc == IF Len(q.path) = 1 THEN "got" ELSE "walk"
  <2>1. Goes(p, pc, Tail(q.path), next, q.child, <<i>>)
    <3>1. pc \in Pc /\ <<i>> \in Puts
      BY <1>2, PutsAre DEF Pc
    <3>2. Tree!Become(p, [Tree!Continue(p, pc, <<i>>) EXCEPT !.ip = next, !.path = Tail(q.path)])
      BY <1>9
    <3> HIDE DEF pc, next, i, q
    <3> QED
      BY <1>1, <1>3, <1>4, <3>1, <3>2, Continues DEF q
  <2>2. /\ r.pc = pc /\ r.path = Tail(q.path) /\ r.ip = next /\ r.old = q.old
        /\ r.call = q.call /\ r.new = q.new
        /\ r.cwd = q.cwd /\ r.file = q.file /\ r.puts = <<i>> /\ ~ r.drop
        /\ r \in Tree!Locals /\ fsProc' = [fsProc EXCEPT ![p] = r]
    BY <1>1, <2>1 DEF Goes
  <2>3. /\ next \in Inums /\ pc \in {"got", "walk"}
        /\ pc = "got" => q.old = Nil
        /\ pc = "walk" => Tail(q.path) # <<>>
    <3>1. next \in Inums
      BY <1>4, <1>9, SomeInum
    <3>2. Len(q.path) = 1 => q.old = Nil
      BY <1>9 DEF Tree!Parent
    <3>3. Len(q.path) # 1 => Tail(q.path) # <<>>
      BY <1>3, PathsNonempty
    <3> QED
      BY <3>1, <3>2, <3>3
  <2> HIDE DEF q, r, i, next, pc
  <2>4. PutOf(r) = i /\ NextOf(r) = Nil /\ Len(r.puts) = 1
    BY <1>2, <2>2, PutsOf, PutsAre DEF i
  <2>5. Shape(r)
    BY <1>1, <2>2, <2>3, <2>4, TreeConstants DEF Shape
  <2>6. \A j \in Inums : RefsOf(r, j) - RefsOf(q, j) = Bit(next, j)
    <3>1. IpOf(r) = next /\ ChildOf(r) = Nil /\ IpOf(q) = i /\ ChildOf(q) = Nil
      BY <1>1, <2>2, <2>3 DEF IpOf, ChildOf, i
    <3> QED
      BY <1>1, <1>2, <2>2, <2>4, <3>1, TreeConstants DEF RefsOf, Bit
  <2>7. Own(p)'
    BY <1>5, <2>2, <2>3 DEF Own, q, r
  <2>8. PendingOf(r) = PendingOf(q)
    BY <1>1, <2>2, <2>3 DEF PendingOf
  <2>9. fsRef' \in [Inums -> Int] /\ \A j \in Inums : fsRef'[j] = fsRef[j] + Bit(next, j)
    BY <1>1, <1>9, <2>3, Taken
  <2>10. \A j \in Inums : fsRef'[j] - fsRef[j] = RefsOf(r, j) - RefsOf(q, j)
    <3>1. \A j \in Inums : fsRef[j] \in Nat /\ Bit(next, j) \in Int
      BY <1>1, LocalsType, BitType
    <3> QED
      BY <2>6, <2>9, <3>1
  <2> QED
    BY <1>1, <1>5, <2>2, <2>5, <2>7, <2>8, <2>9, <2>10, IsQuiet DEF q, r
<1> QED
  BY <1>6, <1>7, <1>8, <1>9

\* namex() of a path without elements
LEMMA WalkEmptyQuiet ==
  ASSUME Locals, NEW p \in Caller, Tree!WalkEmpty(p), Own(p)
  PROVE  Quiet(p)
<1> DEFINE q == fsProc[p]
           r == fsProc'[p]
           i == q.ip
<1>1. /\ q.pc = "walk" /\ q.puts = <<>> /\ ~ q.drop /\ PutOf(q) = Nil /\ NextOf(q) = Nil
      /\ Tree!TypeOK /\ Shape(q)
  BY StepAt DEF Tree!WalkEmpty
<1>2. /\ q.cwd \in Inums /\ q.file \in Some /\ q.old \in Some /\ i \in Inums
      /\ q.child \in Some /\ q \in Tree!Locals
  BY <1>1, LocalsOf, SomeInum DEF Shape
<1>3. UNCHANGED <<fsType, fsNlink, fsEntry, fsLock>> /\ LocksMove(p) /\ UNCHANGED fsRef
  BY <1>1, UnchangedLocks DEF Tree!WalkEmpty
<1>4. \/ Tree!Become(p, Tree!Fail(p, <<i>>))
      \/ q.old = Nil /\ Tree!Become(p, Tree!Continue(p, "got", <<>>))
  BY DEF Tree!WalkEmpty, Tree!Parent
<1>5. CASE Tree!Become(p, Tree!Fail(p, <<i>>))
  <2>1. \/ q.old # Nil /\ Goes(p, "unlinknew", q.path, q.ip, q.child, <<i>>)
        \/ q.old = Nil /\ Leaves(p, q.cwd, q.file, <<i>>)
    BY <1>1, <1>2, <1>5, FailGoes
  <2>2. /\ \/ /\ q.old # Nil /\ r.old = q.old /\ r.pc = "unlinknew"
              /\ r.call = q.call /\ r.new = q.new
           \/ /\ q.old = Nil /\ r.old = Nil /\ r.pc = "user"
              /\ r.call = "none" /\ r.new = <<>>
        /\ r.cwd = q.cwd /\ r.file = q.file /\ r.puts = <<i>> /\ ~ r.drop
        /\ r \in Tree!Locals /\ fsProc' = [fsProc EXCEPT ![p] = r]
    BY <1>1, <2>1 DEF Goes, Leaves
  <2> HIDE DEF q, r, i
  <2>3. PutOf(r) = i /\ NextOf(r) = Nil /\ Len(r.puts) = 1
    BY <1>2, <2>2, PutsOf, PutsAre DEF i
  <2>4. Shape(r)
    BY <1>1, <2>2, <2>3 DEF Shape
  <2>5. \A j \in Inums : RefsOf(r, j) = RefsOf(q, j)
    BY <1>1, <2>2, <2>3, TreeConstants DEF RefsOf, IpOf, ChildOf, Bit, i
  <2>6. Own(p)'
    BY <1>3, <2>2 DEF Own, q, r
  <2>7. PendingOf(r) = PendingOf(q)
    BY <1>1, <2>2 DEF PendingOf
  <2>8. \A j \in Inums : fsRef'[j] - fsRef[j] = RefsOf(r, j) - RefsOf(q, j)
    BY <1>1, <1>3, <2>5, LocalsType DEF RefsOf, Bit
  <2> QED
    BY <1>1, <1>3, <2>2, <2>4, <2>6, <2>7, <2>8, IsQuiet, Untaken DEF q, r
<1>6. CASE q.old = Nil /\ Tree!Become(p, Tree!Continue(p, "got", <<>>))
  <2>1. Goes(p, "got", q.path, q.ip, q.child, <<>>)
    BY <1>1, <1>6, Continues, PutsAre DEF Pc
  <2>2. /\ r.pc = "got" /\ r.path = q.path /\ r.ip = i /\ r.old = Nil
        /\ r.call = q.call /\ r.new = q.new
        /\ r.cwd = q.cwd /\ r.file = q.file /\ r.puts = <<>> /\ ~ r.drop
        /\ r \in Tree!Locals /\ fsProc' = [fsProc EXCEPT ![p] = r]
    BY <1>1, <1>6, <2>1 DEF Goes
  <2> HIDE DEF q, r, i
  <2>3. PutOf(r) = Nil /\ NextOf(r) = Nil
    BY <2>2, PutsOf
  <2>4. Shape(r)
    BY <1>1, <2>2, <2>3 DEF Shape, i
  <2>5. \A j \in Inums : RefsOf(r, j) = RefsOf(q, j)
    BY <1>1, <1>6, <2>2, <2>3 DEF RefsOf, IpOf, ChildOf, Bit, i
  <2>6. Own(p)'
    BY <1>3, <2>2 DEF Own, q, r
  <2>7. PendingOf(r) = PendingOf(q)
    BY <1>1, <1>6, <2>2 DEF PendingOf
  <2>8. \A j \in Inums : fsRef'[j] - fsRef[j] = RefsOf(r, j) - RefsOf(q, j)
    BY <1>1, <1>3, <2>5, LocalsType DEF RefsOf, Bit
  <2> QED
    BY <1>1, <1>3, <2>2, <2>4, <2>6, <2>7, <2>8, IsQuiet, Untaken DEF q, r
<1> QED
  BY <1>4, <1>5, <1>6

LEMMA CloseQuiet ==
  ASSUME Locals, NEW p \in Caller, Tree!Close(p), Own(p)
  PROVE  Quiet(p)
<1> DEFINE q == fsProc[p]
           r == fsProc'[p]
<1>1. /\ q.pc = "user" /\ q.puts = <<>> /\ ~ q.drop /\ PutOf(q) = Nil /\ NextOf(q) = Nil
      /\ Tree!TypeOK /\ Shape(q)
  BY StepAt DEF Tree!Close
<1>2. q.file \in Inums /\ Nil \in Some
  BY <1>1, LocalsOf, SomeInum DEF Tree!Close, Some
<1>3. UNCHANGED <<fsType, fsNlink, fsEntry, fsRef, fsLock>> /\ LocksMove(p)
  BY <1>1, UnchangedLocks DEF Tree!Close
<1>4. Leaves(p, q.cwd, Nil, <<q.file>>)
  BY <1>1, <1>2, PutsAre, Returns DEF Tree!Close
<1>5. /\ r.old = Nil /\ r.pc = "user" /\ r.call = "none" /\ r.new = <<>>
      /\ r.cwd = q.cwd /\ r.file = Nil /\ r.puts = <<q.file>> /\ ~ r.drop
      /\ r \in Tree!Locals /\ fsProc' = [fsProc EXCEPT ![p] = r]
  BY <1>1, <1>4 DEF Leaves
<1> HIDE DEF q, r
<1>6. PutOf(r) = q.file /\ NextOf(r) = Nil /\ Len(r.puts) = 1
  BY <1>2, <1>5, PutsOf, PutsAre
<1>7. Shape(r)
  BY <1>1, <1>5, <1>6 DEF Shape
<1>8. \A j \in Inums : RefsOf(r, j) = RefsOf(q, j)
  BY <1>1, <1>5, <1>6, TreeConstants DEF RefsOf, IpOf, ChildOf, Bit, Shape
<1>9. Own(p)'
  BY <1>5 DEF Own, r
<1>10. PendingOf(r) = PendingOf(q)
  BY <1>1, <1>5 DEF PendingOf, Shape
<1>11. \A j \in Inums : fsRef'[j] - fsRef[j] = RefsOf(r, j) - RefsOf(q, j)
  BY <1>1, <1>3, <1>8, LocalsType DEF RefsOf, Bit
<1> QED
  BY <1>1, <1>3, <1>5, <1>7, <1>9, <1>10, <1>11, IsQuiet, Untaken DEF q, r

\* ref-- of the inode that is put
LEMMA DropQuiet ==
  ASSUME Locals, NEW p \in Caller, Tree!IputDrop(p), Own(p)
  PROVE  Quiet(p)
<1> DEFINE q == fsProc[p]
           r == fsProc'[p]
<1>1. Tree!TypeOK /\ Shape(q) /\ q.drop
  BY DEF Locals, Tree!IputDrop
<1>2. q \in Tree!Locals /\ q.puts \in Puts /\ fsProc \in [Caller -> Tree!Locals]
  BY <1>1, LocalsOf, LocalsType
<1>3. /\ q.puts # <<>> /\ Len(q.puts) \in {1, 2} /\ Head(q.puts) = q.puts[1]
      /\ q.puts[1] \in Inums /\ Tail(q.puts) \in Puts /\ Len(Tail(q.puts)) = Len(q.puts) - 1
      /\ Len(q.puts) = 2 => Tail(q.puts)[1] = q.puts[2] /\ q.puts[2] \in Inums
  <2>1. q.puts # <<>> /\ Len(q.puts) <= 2
    BY <1>1 DEF Shape
  <2> HIDE DEF q
  <2>2. q.puts \in Seq(Inums)
    BY <1>2 DEF Puts
  <2>3. PICK s \in Seq(Inums) : s = q.puts
    BY <2>2
  <2>4. s # <<>> /\ Len(s) \in {1, 2}
    <3>1. Len(s) \in Nat /\ (Len(s) = 0 => s = <<>>)
      BY EmptySeq
    <3>2. s # <<>> /\ Len(s) <= 2
      BY <2>1, <2>3
    <3>3. \A n \in Nat : n # 0 /\ n <= 2 => n \in {1, 2}
      OBVIOUS
    <3> QED
      BY <3>1, <3>2, <3>3
  <2>5. Head(s) = s[1] /\ s[1] \in Inums /\ Tail(s) \in Seq(Inums) /\ Len(Tail(s)) = Len(s) - 1
    BY <2>4
  <2>6. Len(s) = 2 => Tail(s)[1] = s[2] /\ s[2] \in Inums
    BY <2>4
  <2> QED
    BY <2>3, <2>4, <2>5, <2>6 DEF Puts
<1>4. UNCHANGED <<fsType, fsNlink, fsEntry, fsLock>> /\ LocksMove(p)
  BY <1>1, UnchangedLocks DEF Tree!IputDrop
<1>5. r = [q EXCEPT !.drop = FALSE, !.puts = Tail(q.puts)]
      /\ fsProc' = [fsProc EXCEPT ![p] = r] /\ fsRef' = [fsRef EXCEPT ![q.puts[1]] = @ - 1]
  BY <1>2, <1>3 DEF Tree!IputDrop, Tree!Become
<1> HIDE DEF q, r
<1>6. /\ r \in Tree!Locals
      /\ r.call = q.call /\ r.pc = q.pc /\ r.path = q.path /\ r.new = q.new /\ r.ip = q.ip
      /\ r.child = q.child /\ r.old = q.old /\ r.cwd = q.cwd /\ r.file = q.file
      /\ ~ r.drop /\ r.puts = Tail(q.puts)
  BY <1>2, <1>3, <1>5, LocalsAre
<1>7. Shape(r)
  BY <1>1, <1>3, <1>6 DEF Shape
<1>8. /\ PutOf(q) = q.puts[1] /\ PutOf(r) = NextOf(q) /\ NextOf(r) = Nil
  <2>1. CASE Len(q.puts) = 1
    BY <1>3, <1>6, <2>1 DEF PutOf, NextOf
  <2>2. CASE Len(q.puts) = 2
    BY <1>3, <1>6, <2>2 DEF PutOf, NextOf
  <2> QED
    BY <1>3, <2>1, <2>2
<1>9. IpOf(r) = IpOf(q) /\ ChildOf(r) = ChildOf(q) /\ PendingOf(r) = PendingOf(q)
  BY <1>6 DEF IpOf, ChildOf, PendingOf
<1>10. \A j \in Inums : RefsOf(q, j) = RefsOf(r, j) + Bit(q.puts[1], j)
  BY <1>3, <1>6, <1>8, <1>9, TreeConstants DEF RefsOf, Bit
<1>11. fsRef' \in [Inums -> Int] /\ \A j \in Inums : fsRef'[j] = fsRef[j] - Bit(q.puts[1], j)
  BY <1>1, <1>3, <1>5, LocalsType DEF Bit
<1>12. \A j \in Inums : fsRef'[j] - fsRef[j] = RefsOf(r, j) - RefsOf(q, j)
  <2>1. \A j \in Inums : /\ fsRef[j] \in Nat /\ Bit(q.puts[1], j) \in Int
                         /\ RefsOf(r, j) \in Int
    BY <1>1, LocalsType DEF RefsOf, Bit
  <2> QED
    BY <1>10, <1>11, <2>1
<1>13. Own(p)'
  BY <1>4, <1>6 DEF Own, Named, q, r
<1> QED
  BY <1>1, <1>4, <1>5, <1>6, <1>7, <1>9, <1>11, <1>12, <1>13, IsQuiet DEF q, r

\* iput() of an inode that is in use elsewhere, or of one that has links
LEMMA IputQuiet ==
  ASSUME Locals, NEW p \in Caller, Tree!Iput(p), Own(p),
         ~ Tree!LastUse(Head(fsProc[p].puts))
  PROVE  Quiet(p)
<1> DEFINE q == fsProc[p]
           r == fsProc'[p]
<1>1. Tree!TypeOK /\ Shape(q) /\ q.puts # <<>>
  BY DEF Locals, Tree!Iput
<1>2. q \in Tree!Locals /\ fsProc \in [Caller -> Tree!Locals]
  BY <1>1, LocalsType
<1>3. UNCHANGED <<fsType, fsNlink, fsEntry, fsRef, fsLock>> /\ LocksMove(p)
  BY <1>1, UnchangedLocks DEF Tree!Iput
<1>4. r = [q EXCEPT !.drop = TRUE] /\ fsProc' = [fsProc EXCEPT ![p] = r]
  BY <1>2 DEF Tree!Iput, Tree!Become
<1> HIDE DEF q, r
<1>5. /\ r \in Tree!Locals
      /\ r.call = q.call /\ r.pc = q.pc /\ r.path = q.path /\ r.new = q.new /\ r.ip = q.ip
      /\ r.child = q.child /\ r.old = q.old /\ r.cwd = q.cwd /\ r.file = q.file
      /\ r.puts = q.puts
  BY <1>2, <1>4, LocalsAre
<1>6. Shape(r)
  BY <1>1, <1>5 DEF Shape
<1>7. PendingOf(r) = PendingOf(q) /\ \A j \in Inums : RefsOf(q, j) = RefsOf(r, j)
  BY <1>5 DEF RefsOf, IpOf, ChildOf, PutOf, NextOf, PendingOf
<1>8. \A j \in Inums : fsRef'[j] - fsRef[j] = RefsOf(r, j) - RefsOf(q, j)
  BY <1>1, <1>3, <1>7, LocalsType DEF RefsOf, Bit
<1>9. Own(p)'
  BY <1>3, <1>5 DEF Own, Named, q, r
<1> QED
  BY <1>1, <1>3, <1>4, <1>5, <1>6, <1>7, <1>8, <1>9, IsQuiet, Untaken DEF q, r

LEMMA LockMoves ==
  ASSUME Tree!TypeOK, NEW p \in Caller, NEW i \in Inums
  PROVE  /\ fsLock[i] = p /\ fsLock' = [fsLock EXCEPT ![i] = Nil] => LocksMove(p)
         /\ fsLock[i] = Nil /\ fsLock' = [fsLock EXCEPT ![i] = p] => LocksMove(p)
BY LocalsType DEF LocksMove

LEMMA LinkBadQuiet ==
  ASSUME Locals, NEW p \in Caller, Tree!LinkBad(p), Own(p)
  PROVE  Quiet(p)
<1> DEFINE q == fsProc[p]
           r == fsProc'[p]
<1>1. /\ q.pc = "linkbad" /\ q.puts = <<>> /\ ~ q.drop /\ PutOf(q) = Nil /\ NextOf(q) = Nil
      /\ Tree!TypeOK /\ Shape(q)
  BY StepAt DEF Tree!LinkBad
<1>2. q.ip \in Inums /\ fsLock[q.ip] = p
  BY <1>1, LocalsOf, SomeInum DEF Shape, Own
<1>3. UNCHANGED <<fsType, fsNlink, fsEntry, fsRef>> /\ LocksMove(p)
  BY <1>1, <1>2, LockMoves DEF Tree!LinkBad
<1>4. Goes(p, "unlinknew", q.path, q.ip, q.child, <<q.ip>>)
  BY <1>1, <1>2, PutsAre, Continues DEF Tree!LinkBad, Pc
<1>5. /\ r.pc = "unlinknew" /\ r.old = q.old /\ r.call = q.call /\ r.new = q.new
      /\ r.cwd = q.cwd /\ r.file = q.file /\ r.puts = <<q.ip>> /\ ~ r.drop
      /\ r \in Tree!Locals /\ fsProc' = [fsProc EXCEPT ![p] = r]
  BY <1>1, <1>4 DEF Goes
<1> HIDE DEF q, r
<1>6. PutOf(r) = q.ip /\ NextOf(r) = Nil /\ Len(r.puts) = 1
  BY <1>2, <1>5, PutsOf, PutsAre
<1>7. Shape(r)
  BY <1>1, <1>5, <1>6 DEF Shape
<1>8. \A j \in Inums : RefsOf(r, j) = RefsOf(q, j)
  BY <1>1, <1>5, <1>6, TreeConstants DEF RefsOf, IpOf, ChildOf, Bit
<1>9. Own(p)'
  BY <1>3, <1>5 DEF Own, q, r
<1>10. PendingOf(r) = PendingOf(q)
  BY <1>1, <1>5 DEF PendingOf
<1>11. \A j \in Inums : fsRef'[j] - fsRef[j] = RefsOf(r, j) - RefsOf(q, j)
  BY <1>1, <1>3, <1>8, LocalsType DEF RefsOf, Bit
<1> QED
  BY <1>1, <1>3, <1>5, <1>7, <1>9, <1>10, <1>11, IsQuiet, Untaken DEF q, r

LEMMA UnlinkBadQuiet ==
  ASSUME Locals, NEW p \in Caller, Tree!UnlinkBad(p), Own(p)
  PROVE  Quiet(p)
<1> DEFINE q == fsProc[p]
           r == fsProc'[p]
<1>1. /\ q.pc = "unlinkbad" /\ q.puts = <<>> /\ ~ q.drop /\ PutOf(q) = Nil /\ NextOf(q) = Nil
      /\ Tree!TypeOK /\ Shape(q)
  BY StepAt DEF Tree!UnlinkBad
<1>2. q.ip \in Inums /\ fsLock[q.ip] = p /\ q.old = Nil
  BY <1>1, LocalsOf, SomeInum DEF Shape, Own
<1>3. UNCHANGED <<fsType, fsNlink, fsEntry, fsRef>> /\ LocksMove(p)
  BY <1>1, <1>2, LockMoves DEF Tree!UnlinkBad
<1>4. Leaves(p, q.cwd, q.file, <<q.ip>>)
  BY <1>1, <1>2, PutsAre, Returns DEF Tree!UnlinkBad
<1>5. /\ r.pc = "user" /\ r.old = Nil /\ r.call = "none" /\ r.new = <<>>
      /\ r.cwd = q.cwd /\ r.file = q.file /\ r.puts = <<q.ip>> /\ ~ r.drop
      /\ r \in Tree!Locals /\ fsProc' = [fsProc EXCEPT ![p] = r]
  BY <1>1, <1>4 DEF Leaves
<1> HIDE DEF q, r
<1>6. PutOf(r) = q.ip /\ NextOf(r) = Nil /\ Len(r.puts) = 1
  BY <1>2, <1>5, PutsOf, PutsAre
<1>7. Shape(r)
  BY <1>1, <1>5, <1>6 DEF Shape
<1>8. \A j \in Inums : RefsOf(r, j) = RefsOf(q, j)
  BY <1>1, <1>2, <1>5, <1>6, TreeConstants DEF RefsOf, IpOf, ChildOf, Bit
<1>9. Own(p)'
  BY <1>3, <1>5 DEF Own, q, r
<1>10. PendingOf(r) = PendingOf(q)
  BY <1>1, <1>2, <1>5 DEF PendingOf
<1>11. \A j \in Inums : fsRef'[j] - fsRef[j] = RefsOf(r, j) - RefsOf(q, j)
  BY <1>1, <1>3, <1>8, LocalsType DEF RefsOf, Bit
<1> QED
  BY <1>1, <1>3, <1>5, <1>7, <1>9, <1>10, <1>11, IsQuiet, Untaken DEF q, r

\* a call that returns the file it has found or made, or puts it
Found(q, c) ==
  /\ q.puts = <<>> /\ ~ q.drop /\ q.old = Nil
  /\ \/ q.pc \in {"exists", "created"} /\ q.child = c
     \/ q.pc = "got" /\ q.ip = c
Gives(p, c) ==
  \/ /\ fsProc[p].file = Nil
     /\ Tree!Become(p, [Tree!Return(p, <<>>) EXCEPT !.file = c])
  \/ Tree!Become(p, Tree!Return(p, <<c>>))
  \/ Tree!Become(p, [Tree!Return(p, <<fsProc[p].cwd>>) EXCEPT !.cwd = c])

LEMMA ReturnsQuiet ==
  ASSUME Locals, NEW p \in Caller, NEW c \in Inums, Found(fsProc[p], c), Gives(p, c),
         LocksMove(p), UNCHANGED <<fsType, fsNlink, fsEntry, fsRef>>
  PROVE  Quiet(p)
<1> DEFINE q == fsProc[p]
           r == fsProc'[p]
<1>1. /\ Tree!TypeOK /\ Shape(q) /\ PutOf(q) = Nil /\ NextOf(q) = Nil
  BY PutsOf DEF Locals, Found
<1>2. q.cwd \in Inums /\ q.file \in Some /\ c \in Some
  BY <1>1, LocalsOf DEF Some
<1>3. \/ q.file = Nil /\ Leaves(p, q.cwd, c, <<>>)
      \/ Leaves(p, q.cwd, q.file, <<c>>)
      \/ Leaves(p, c, q.file, <<q.cwd>>)
  BY <1>1, <1>2, PutsAre, Returns DEF Gives
<1>4. /\ r.pc = "user" /\ r.old = Nil /\ r.call = "none" /\ r.new = <<>> /\ ~ r.drop
      /\ \/ q.file = Nil /\ r.cwd = q.cwd /\ r.file = c /\ r.puts = <<>>
         \/ r.cwd = q.cwd /\ r.file = q.file /\ r.puts = <<c>>
         \/ r.cwd = c /\ r.file = q.file /\ r.puts = <<q.cwd>>
      /\ r \in Tree!Locals /\ fsProc' = [fsProc EXCEPT ![p] = r]
  BY <1>3 DEF Leaves, Found
<1>5. \/ q.pc \in {"exists", "created"} /\ q.child = c
      \/ q.pc = "got" /\ q.ip = c
  BY DEF Found
<1>6. q.old = Nil
  BY DEF Found
<1> HIDE DEF q, r
<1>7. /\ NextOf(r) = Nil /\ Len(r.puts) <= 2
      /\ \/ q.file = Nil /\ r.cwd = q.cwd /\ r.file = c /\ PutOf(r) = Nil
         \/ r.cwd = q.cwd /\ r.file = q.file /\ PutOf(r) = c
         \/ r.cwd = c /\ r.file = q.file /\ PutOf(r) = q.cwd
  BY <1>2, <1>4, PutsOf, PutsAre
<1>8. Shape(r)
  BY <1>1, <1>4, <1>7 DEF Shape
<1>9. \A j \in Inums : RefsOf(r, j) = RefsOf(q, j)
  <2>1. IpOf(r) = Nil /\ ChildOf(r) = Nil
    BY <1>4 DEF IpOf, ChildOf
  <2>2. \/ IpOf(q) = c /\ ChildOf(q) = Nil
        \/ IpOf(q) = Nil /\ ChildOf(q) = c
    BY <1>5 DEF IpOf, ChildOf
  <2> QED
    BY <1>1, <1>4, <1>6, <1>7, <2>1, <2>2, TreeConstants DEF RefsOf, Bit
<1>10. Own(p)'
  BY <1>4 DEF Own, q, r
<1>11. PendingOf(r) = PendingOf(q)
  BY <1>4, <1>5, <1>6 DEF PendingOf
<1>12. \A j \in Inums : fsRef'[j] - fsRef[j] = RefsOf(r, j) - RefsOf(q, j)
  BY <1>1, <1>9, LocalsType DEF RefsOf, Bit
<1> QED
  BY <1>1, <1>4, <1>8, <1>10, <1>11, <1>12, IsQuiet, Untaken DEF q, r

LEMMA ExistsQuiet ==
  ASSUME Locals, NEW p \in Caller, Tree!Exists(p)
  PROVE  Quiet(p)
<1>1. /\ fsProc[p].pc = "exists" /\ fsProc[p].puts = <<>> /\ ~ fsProc[p].drop
      /\ Tree!TypeOK /\ Shape(fsProc[p])
  BY StepAt DEF Tree!Exists
<1>2. fsProc[p].child \in Inums /\ fsProc[p].old = Nil
  BY <1>1, LocalsOf, SomeInum DEF Shape
<1>3. LocksMove(p)
  BY <1>1, UnchangedLocks DEF Tree!Exists
<1>4. fsProc[p].call = "create" => fsProc[p].file = Nil
  BY <1>1 DEF Shape
<1> QED
  BY <1>1, <1>2, <1>3, <1>4, ReturnsQuiet DEF Tree!Exists, Found, Gives

LEMMA CreatedQuiet ==
  ASSUME Locals, NEW p \in Caller, Tree!Created(p), Own(p)
  PROVE  Quiet(p)
<1>1. /\ fsProc[p].pc = "created" /\ fsProc[p].puts = <<>> /\ ~ fsProc[p].drop
      /\ Tree!TypeOK /\ Shape(fsProc[p])
  BY StepAt DEF Tree!Created
<1>2. /\ fsProc[p].child \in Inums /\ fsProc[p].old = Nil
      /\ fsLock[fsProc[p].child] = p
  BY <1>1, LocalsOf, SomeInum DEF Shape, Own
<1>3. LocksMove(p)
  BY <1>1, <1>2, LockMoves DEF Tree!Created
<1>4. fsProc[p].call = "create" => fsProc[p].file = Nil
  BY <1>1 DEF Shape
<1> QED
  BY <1>1, <1>2, <1>3, <1>4, ReturnsQuiet DEF Tree!Created, Found, Gives

\* link() counts the new name before it makes it
LinkCounted(p) ==
  LET i == fsProc[p].ip IN
  /\ Tree!At(p, "got") /\ fsType[i] \notin {"free", "dir"} /\ fsProc[p].call = "link"
  /\ fsNlink' = [fsNlink EXCEPT ![i] = @ + 1]
  /\ Tree!StartWalk(p, [fsProc[p] EXCEPT !.old = i, !.new = <<>>], fsProc[p].new)
  /\ UNCHANGED <<fsType, fsEntry, fsLock>>

\* open(), chdir() and link() with an inode that is not to be linked
LEMMA GotCases ==
  ASSUME Locals, NEW p \in Caller, Tree!Got(p)
  PROVE  Quiet(p) \/ LinkCounted(p)
<1>1. /\ fsProc[p].pc = "got" /\ fsProc[p].puts = <<>> /\ ~ fsProc[p].drop
      /\ Tree!TypeOK /\ Shape(fsProc[p])
  BY StepAt DEF Tree!Got
<1>2. fsProc[p].ip \in Inums /\ fsProc[p].old = Nil
  BY <1>1, LocalsOf, SomeInum DEF Shape
<1>3. LocksMove(p) /\ UNCHANGED <<fsType, fsEntry>>
  BY <1>1, UnchangedLocks DEF Tree!Got
<1>4. fsProc[p].call = "open" => fsProc[p].file = Nil
  BY <1>1 DEF Shape
<1>5. \/ Gives(p, fsProc[p].ip) /\ UNCHANGED <<fsNlink, fsRef>>
      \/ LinkCounted(p)
  BY <1>1, <1>4 DEF Tree!Got, Gives, LinkCounted, Tree!Counted, Tree!Linkable
<1>6. Found(fsProc[p], fsProc[p].ip)
  BY <1>1, <1>2 DEF Found
<1> QED
  BY <1>2, <1>3, <1>5, <1>6, ReturnsQuiet

\* a step of a call that has come to the parent of the last element
Parents(p) ==
  /\ fsProc[p].pc = "parent" /\ fsProc[p].puts = <<>> /\ ~ fsProc[p].drop
  /\ PutOf(fsProc[p]) = Nil /\ NextOf(fsProc[p]) = Nil
  /\ fsProc[p].ip \in Inums /\ fsType[fsProc[p].ip] = "dir"
  /\ fsProc[p].path \in Paths /\ Head(fsProc[p].path) \in Slot
  /\ fsEntry[fsProc[p].ip][Head(fsProc[p].path)] \in Some

LEMMA AtParent ==
  ASSUME Locals, NEW p \in Caller, Tree!At(p, "parent"), Own(p)
  PROVE  Parents(p)
<1>1. /\ fsProc[p].pc = "parent" /\ fsProc[p].puts = <<>> /\ ~ fsProc[p].drop
      /\ PutOf(fsProc[p]) = Nil /\ NextOf(fsProc[p]) = Nil
      /\ Tree!TypeOK /\ Shape(fsProc[p])
  BY StepAt
<1>2. fsProc[p].ip \in Inums /\ fsType[fsProc[p].ip] = "dir" /\ fsProc[p].path \in Paths
  BY <1>1, LocalsOf, SomeInum DEF Shape, Own, Rest
<1>3. Head(fsProc[p].path) \in Slot
  BY <1>2, RestOfPath
<1> QED
  BY <1>1, <1>2, <1>3, LocalsType DEF Parents

\* link() with a name that exists
LEMMA LinkQuiet ==
  ASSUME Locals, NEW p \in Caller, Tree!Link(p), Own(p),
         fsEntry[fsProc[p].ip][Head(fsProc[p].path)] # Nil
  PROVE  Quiet(p)
<1> DEFINE q == fsProc[p]
           r == fsProc'[p]
           c == fsEntry[q.ip][Head(q.path)]
<1>1. Parents(p) /\ Tree!TypeOK /\ Shape(q)
  BY AtParent DEF Tree!Link, Locals
<1>2. /\ q.pc = "parent" /\ q.puts = <<>> /\ ~ q.drop /\ PutOf(q) = Nil /\ NextOf(q) = Nil
      /\ q.ip \in Inums /\ c \in Inums
  BY <1>1, SomeInum DEF Parents
<1>3. /\ UNCHANGED <<fsType, fsNlink, fsEntry>> /\ q.old # Nil
      /\ fsLock[q.ip] = Nil /\ fsLock' = [fsLock EXCEPT ![q.ip] = p]
      /\ fsRef' = [fsRef EXCEPT ![c] = @ + 1]
      /\ Tree!Become(p, Tree!Continue(p, "linkbad", <<c>>))
  BY DEF Tree!Link, Tree!Unlocked
<1>4. LocksMove(p) /\ fsLock'[q.ip] = p
  <2>1. LocksMove(p)
    BY <1>1, <1>2, <1>3, LockMoves
  <2>2. fsLock'[q.ip] = p
    BY <1>1, <1>2, <1>3, LocalsType
  <2> QED
    BY <2>1, <2>2
<1> HIDE DEF c
<1>5. Goes(p, "linkbad", q.path, q.ip, q.child, <<c>>)
  BY <1>1, <1>2, <1>3, PutsAre, Continues DEF Pc
<1>6. /\ r.pc = "linkbad" /\ r.old = q.old /\ r.call = q.call /\ r.new = q.new /\ r.ip = q.ip
      /\ r.cwd = q.cwd /\ r.file = q.file /\ r.puts = <<c>> /\ ~ r.drop
      /\ r \in Tree!Locals /\ fsProc' = [fsProc EXCEPT ![p] = r]
  BY <1>2, <1>5 DEF Goes
<1>7. fsRef' \in [Inums -> Int] /\ \A j \in Inums : fsRef'[j] = fsRef[j] + Bit(c, j)
  BY <1>1, <1>2, <1>3, Taken
<1> HIDE DEF q, r
<1>8. PutOf(r) = c /\ NextOf(r) = Nil /\ Len(r.puts) = 1
  BY <1>2, <1>6, PutsOf, PutsAre
<1>9. Shape(r)
  BY <1>1, <1>2, <1>3, <1>6, <1>8, TreeConstants DEF Shape
<1>10. \A j \in Inums : RefsOf(r, j) - RefsOf(q, j) = Bit(c, j)
  BY <1>2, <1>6, <1>8, TreeConstants DEF RefsOf, IpOf, ChildOf, Bit
<1>11. \A j \in Inums : fsRef'[j] - fsRef[j] = RefsOf(r, j) - RefsOf(q, j)
  <2>1. \A j \in Inums : fsRef[j] \in Nat /\ Bit(c, j) \in Int
    BY <1>1, LocalsType, BitType
  <2> QED
    BY <1>7, <1>10, <2>1
<1>12. Own(p)'
  BY <1>3, <1>4, <1>6 DEF Own, q, r
<1>13. PendingOf(r) = PendingOf(q)
  BY <1>2, <1>6 DEF PendingOf
<1> QED
  BY <1>1, <1>3, <1>4, <1>6, <1>7, <1>9, <1>11, <1>12, <1>13, IsQuiet DEF q, r

LEMMA UnlinkQuiet ==
  ASSUME Locals, NEW p \in Caller, Tree!Unlink(p), Own(p)
  PROVE  Quiet(p)
<1> DEFINE q == fsProc[p]
           r == fsProc'[p]
           c == fsEntry[q.ip][Head(q.path)]
<1>1. Parents(p) /\ Tree!TypeOK /\ Shape(q)
  BY AtParent DEF Tree!Unlink, Locals
<1>2. /\ q.pc = "parent" /\ q.puts = <<>> /\ ~ q.drop /\ PutOf(q) = Nil /\ NextOf(q) = Nil
      /\ q.ip \in Inums /\ c \in Some /\ q.path \in Paths /\ Head(q.path) \in Slot
  BY <1>1 DEF Parents
<1>3. /\ UNCHANGED <<fsType, fsNlink, fsEntry>> /\ q.call = "unlink" /\ q.old = Nil
      /\ \/ Tree!Become(p, Tree!Return(p, <<q.ip>>)) /\ UNCHANGED <<fsRef, fsLock>>
         \/ /\ Head(q.path) \notin {".", ".."} /\ c # Nil
            /\ fsLock[q.ip] = Nil /\ fsLock' = [fsLock EXCEPT ![q.ip] = p]
            /\ fsRef' = [fsRef EXCEPT ![c] = @ + 1]
            /\ Tree!Become(p, [Tree!Continue(p, "unlink", <<>>) EXCEPT !.child = c])
  BY <1>1 DEF Tree!Unlink, Tree!Unlocked, Shape
<1>4. CASE Tree!Become(p, Tree!Return(p, <<q.ip>>)) /\ UNCHANGED <<fsRef, fsLock>>
  <2>1. Leaves(p, q.cwd, q.file, <<q.ip>>)
    BY <1>1, <1>2, <1>4, PutsAre, Returns
  <2>2. /\ r.pc = "user" /\ r.old = Nil /\ r.call = "none" /\ r.new = <<>>
        /\ r.cwd = q.cwd /\ r.file = q.file /\ r.puts = <<q.ip>> /\ ~ r.drop
        /\ r \in Tree!Locals /\ fsProc' = [fsProc EXCEPT ![p] = r]
    BY <1>2, <2>1 DEF Leaves
  <2> HIDE DEF q, r, c
  <2>3. PutOf(r) = q.ip /\ NextOf(r) = Nil /\ Len(r.puts) = 1
    BY <1>2, <2>2, PutsOf, PutsAre
  <2>4. Shape(r)
    BY <1>1, <2>2, <2>3 DEF Shape
  <2>5. \A j \in Inums : RefsOf(r, j) = RefsOf(q, j)
    BY <1>2, <1>3, <2>2, <2>3, TreeConstants DEF RefsOf, IpOf, ChildOf, Bit
  <2>6. Own(p)'
    BY <1>3, <2>2 DEF Own, q, r
  <2>7. PendingOf(r) = PendingOf(q)
    BY <1>2, <1>3, <2>2 DEF PendingOf
  <2>8. \A j \in Inums : fsRef'[j] - fsRef[j] = RefsOf(r, j) - RefsOf(q, j)
    BY <1>1, <1>4, <2>5, LocalsType DEF RefsOf, Bit
  <2> QED
    BY <1>1, <1>3, <1>4, <2>2, <2>4, <2>6, <2>7, <2>8, IsQuiet, Untaken, UnchangedLocks DEF q, r
<1>5. CASE /\ Head(q.path) \notin {".", ".."} /\ c # Nil
           /\ fsLock[q.ip] = Nil /\ fsLock' = [fsLock EXCEPT ![q.ip] = p]
           /\ fsRef' = [fsRef EXCEPT ![c] = @ + 1]
           /\ Tree!Become(p, [Tree!Continue(p, "unlink", <<>>) EXCEPT !.child = c])
  <2>1. c \in Inums /\ c \in Some
    BY <1>2, <1>5, SomeInum
  <2>2. LocksMove(p)
    BY <1>1, <1>2, <1>5, LockMoves
  <2>3. fsLock'[q.ip] = p
    BY <1>1, <1>2, <1>5, LocalsType
  <2>4. Goes(p, "unlink", q.path, q.ip, c, <<>>)
    <3>1. "unlink" \in Pc /\ <<>> \in Puts
      BY PutsAre DEF Pc
    <3>2. Tree!Become(p, [Tree!Continue(p, "unlink", <<>>) EXCEPT !.child = c])
      BY <1>5
    <3> HIDE DEF c
    <3> QED
      BY <1>1, <2>1, <3>1, <3>2, Continues
  <2>5. /\ r.pc = "unlink" /\ r.old = q.old /\ r.call = q.call /\ r.new = q.new
        /\ r.ip = q.ip /\ r.path = q.path /\ r.child = c
        /\ r.cwd = q.cwd /\ r.file = q.file /\ r.puts = <<>> /\ ~ r.drop
        /\ r \in Tree!Locals /\ fsProc' = [fsProc EXCEPT ![p] = r]
    BY <1>2, <2>4 DEF Goes
  <2>6. fsRef' \in [Inums -> Int] /\ \A j \in Inums : fsRef'[j] = fsRef[j] + Bit(c, j)
    BY <1>1, <1>5, <2>1, Taken
  <2>7. Own(p)'
    <3>1. Head(q.path) \in FileName
      BY <1>2, <1>5 DEF Slot
    <3> QED
      BY <1>3, <2>3, <2>5, <3>1 DEF Own
  <2> HIDE DEF q, r, c
  <2>8. PutOf(r) = Nil /\ NextOf(r) = Nil
    BY <2>5, PutsOf
  <2>9. Shape(r)
    BY <1>1, <1>2, <1>3, <2>1, <2>5, <2>8, PathsNonempty, TreeConstants DEF Shape
  <2>10. \A j \in Inums : RefsOf(r, j) - RefsOf(q, j) = Bit(c, j)
    BY <1>2, <1>3, <2>5, <2>8, TreeConstants DEF RefsOf, IpOf, ChildOf, Bit
  <2>11. \A j \in Inums : fsRef'[j] - fsRef[j] = RefsOf(r, j) - RefsOf(q, j)
    <3>1. \A j \in Inums : fsRef[j] \in Nat /\ Bit(c, j) \in Int
      BY <1>1, LocalsType, BitType
    <3> QED
      BY <2>6, <2>10, <3>1
  <2>12. PendingOf(r) = PendingOf(q)
    BY <1>2, <2>5 DEF PendingOf
  <2> QED
    BY <1>1, <1>3, <2>2, <2>5, <2>6, <2>7, <2>9, <2>11, <2>12, IsQuiet DEF q, r
<1> QED
  BY <1>3, <1>4, <1>5

\* unlink() of a directory that is not empty
LEMMA UnlinkFullQuiet ==
  ASSUME Locals, NEW p \in Caller, Tree!UnlinkEntry(p), Own(p),
         fsType[fsProc[p].child] = "dir", ~ Tree!IsDirEmpty(fsProc[p].child)
  PROVE  Quiet(p)
<1> DEFINE q == fsProc[p]
           r == fsProc'[p]
           c == q.child
<1>1. /\ q.pc = "unlink" /\ q.puts = <<>> /\ ~ q.drop /\ PutOf(q) = Nil /\ NextOf(q) = Nil
      /\ Tree!TypeOK /\ Shape(q)
  BY StepAt DEF Tree!UnlinkEntry
<1>2. c \in Inums /\ q.old = Nil /\ fsLock[q.ip] = p
  BY <1>1, LocalsOf, SomeInum DEF Shape, Own
<1>3. /\ UNCHANGED <<fsType, fsNlink, fsEntry, fsRef, fsLock>> /\ LocksMove(p)
      /\ Tree!Become(p, Tree!Continue(p, "unlinkbad", <<c>>))
  BY <1>1, UnchangedLocks DEF Tree!UnlinkEntry
<1>4. Goes(p, "unlinkbad", q.path, q.ip, q.child, <<c>>)
  BY <1>1, <1>2, <1>3, PutsAre, Continues DEF Pc
<1>5. /\ r.pc = "unlinkbad" /\ r.old = q.old /\ r.call = q.call /\ r.new = q.new /\ r.ip = q.ip
      /\ r.cwd = q.cwd /\ r.file = q.file /\ r.puts = <<c>> /\ ~ r.drop
      /\ r \in Tree!Locals /\ fsProc' = [fsProc EXCEPT ![p] = r]
  BY <1>1, <1>4 DEF Goes
<1> HIDE DEF q, r
<1>6. PutOf(r) = c /\ NextOf(r) = Nil /\ Len(r.puts) = 1
  BY <1>2, <1>5, PutsOf, PutsAre
<1>7. Shape(r)
  BY <1>1, <1>5, <1>6 DEF Shape
<1>8. \A j \in Inums : RefsOf(r, j) = RefsOf(q, j)
  BY <1>1, <1>2, <1>5, <1>6, TreeConstants DEF RefsOf, IpOf, ChildOf, Bit
<1>9. Own(p)'
  BY <1>2, <1>3, <1>5 DEF Own, q, r
<1>10. PendingOf(r) = PendingOf(q)
  BY <1>1, <1>2, <1>5 DEF PendingOf
<1>11. \A j \in Inums : fsRef'[j] - fsRef[j] = RefsOf(r, j) - RefsOf(q, j)
  BY <1>1, <1>3, <1>8, LocalsType DEF RefsOf, Bit
<1> QED
  BY <1>1, <1>3, <1>5, <1>7, <1>9, <1>10, <1>11, IsQuiet, Untaken DEF q, r

\* create() of a name that exists
LEMMA CreateExistingQuiet ==
  ASSUME Locals, NEW p \in Caller, Tree!CreateExisting(p), Own(p)
  PROVE  Quiet(p)
<1> DEFINE q == fsProc[p]
           r == fsProc'[p]
           c == fsEntry[q.ip][Head(q.path)]
<1>1. Parents(p) /\ Tree!TypeOK /\ Shape(q)
  BY AtParent DEF Tree!CreateExisting, Locals
<1>2. /\ q.pc = "parent" /\ q.puts = <<>> /\ ~ q.drop /\ PutOf(q) = Nil /\ NextOf(q) = Nil
      /\ q.ip \in Inums /\ c \in Some
  BY <1>1 DEF Parents
<1>3. /\ UNCHANGED <<fsType, fsNlink, fsEntry, fsLock>>
      /\ q.call \in {"create", "mkdir"} /\ q.old = Nil /\ c \in Inums
      /\ fsRef' = [fsRef EXCEPT ![c] = @ + 1]
      /\ Tree!Become(p, [Tree!Continue(p, "exists", <<q.ip>>) EXCEPT !.child = c])
  BY <1>1, <1>2, SomeInum DEF Tree!CreateExisting, Shape
<1>4. Goes(p, "exists", q.path, q.ip, c, <<q.ip>>)
  <2>1. "exists" \in Pc /\ <<q.ip>> \in Puts /\ c \in Some
    BY <1>2, PutsAre DEF Pc
  <2>2. Tree!Become(p, [Tree!Continue(p, "exists", <<q.ip>>) EXCEPT !.child = c])
    BY <1>3
  <2> HIDE DEF c
  <2> QED
    BY <1>1, <2>1, <2>2, Continues
<1>5. /\ r.pc = "exists" /\ r.old = q.old /\ r.call = q.call /\ r.new = q.new /\ r.child = c
      /\ r.cwd = q.cwd /\ r.file = q.file /\ r.puts = <<q.ip>> /\ ~ r.drop
      /\ r \in Tree!Locals /\ fsProc' = [fsProc EXCEPT ![p] = r]
  BY <1>2, <1>4 DEF Goes
<1>6. fsRef' \in [Inums -> Int] /\ \A j \in Inums : fsRef'[j] = fsRef[j] + Bit(c, j)
  BY <1>1, <1>3, Taken
<1> HIDE DEF q, r, c
<1>7. PutOf(r) = q.ip /\ NextOf(r) = Nil /\ Len(r.puts) = 1
  BY <1>2, <1>5, PutsOf, PutsAre
<1>8. Shape(r)
  BY <1>1, <1>3, <1>5, <1>7, TreeConstants DEF Shape
<1>9. \A j \in Inums : RefsOf(r, j) - RefsOf(q, j) = Bit(c, j)
  BY <1>2, <1>3, <1>5, <1>7, TreeConstants DEF RefsOf, IpOf, ChildOf, Bit
<1>10. \A j \in Inums : fsRef'[j] - fsRef[j] = RefsOf(r, j) - RefsOf(q, j)
  <2>1. \A j \in Inums : fsRef[j] \in Nat /\ Bit(c, j) \in Int
    BY <1>1, LocalsType, BitType
  <2> QED
    BY <1>6, <1>9, <2>1
<1>11. Own(p)'
  BY <1>3, <1>5 DEF Own, q, r
<1>12. PendingOf(r) = PendingOf(q)
  BY <1>2, <1>3, <1>5 DEF PendingOf
<1>13. LocksMove(p)
  BY <1>1, <1>3, UnchangedLocks
<1> QED
  BY <1>1, <1>3, <1>5, <1>6, <1>8, <1>10, <1>11, <1>12, <1>13, IsQuiet DEF q, r

-----------------------------------------------------------------------------
(* What follows from the counts                                                       *)

LEMMA Counts ==
  ASSUME NEW i
  PROVE  Named(i) \in Nat /\ Subs(i) \in Nat /\ Pend(i) \in Nat /\ Refs(i) \in Nat
BY CountNat, EdgesFinite, SpotsFinite, TreeConstants DEF Named, Subs, Pend, Refs

LEMMA NamedBy ==
  ASSUME NEW e \in Edge, NEW i, fsEntry[e[1]][e[2]] = i
  PROVE  Named(i) >= 1
<1>1. EntryAt(fsEntry)[e] = i
  BY DEF EntryAt
<1> QED
  BY <1>1, CountNat, EdgesFinite DEF Named

\* a call half done keeps its inode from being freed
LEMMA PendingUsed ==
  ASSUME Locals, Covered, Unused, NEW p \in Caller, PendingOf(fsProc[p]) # Nil
  PROVE  /\ PendingOf(fsProc[p]) \in Inums
         /\ fsNlink[PendingOf(fsProc[p])] >= 1 /\ fsType[PendingOf(fsProc[p])] # "free"
<1>1. Tree!TypeOK
  BY DEF Locals
<1>2. PICK i \in Inums : i = PendingOf(fsProc[p])
  BY <1>1, LocalsOf, SomeInum DEF PendingOf
<1>3. PendingAt(fsProc)[p] = i
  BY <1>2 DEF PendingAt
<1>4. Pend(i) # 0 /\ Pend(i) \in Nat
  BY <1>3, CountNat, TreeConstants DEF Pend
<1>5. fsNlink[i] >= 1
  <2>1. Named(i) \in Nat /\ Subs(i) \in Nat /\ Named(i) + Subs(i) + Pend(i) <= fsNlink[i]
        /\ fsNlink[i] \in Nat
    BY <1>1, <1>2, Counts, LocalsType DEF Covered
  <2> QED
    BY <1>4, <2>1
<1>6. fsType[i] # "free"
  BY <1>5 DEF Unused
<1> QED
  BY <1>2, <1>5, <1>6

LEMMA TwoHolders ==
  ASSUME NEW D, IsFiniteSet(D), NEW h, NEW x, NEW a \in D, NEW b \in D, a # b,
         h[a] = x, h[b] = x
  PROVE  Count(D, h, x) \in Nat /\ Count(D, h, x) >= 2
<1>1. PICK S : S = {d \in D : h[d] = x}
  OBVIOUS
<1>2. IsFiniteSet(S) /\ {a, b} \subseteq S
  BY <1>1, FS_Subset
<1>3. IsFiniteSet({a}) /\ Cardinality({a}) = 1
  BY FS_Singleton
<1>4. Cardinality({a} \cup {b}) = 2 /\ {a} \cup {b} = {a, b}
  <2>1. Cardinality({a} \cup {b}) = Cardinality({a}) + 1
    BY <1>3, FS_AddElement
  <2> QED
    BY <1>3, <2>1
<1>5. Cardinality({a, b}) <= Cardinality(S) /\ Cardinality(S) \in Nat
  BY <1>2, FS_Subset, FS_CardinalityType
<1> QED
  BY <1>1, <1>4, <1>5 DEF Count

\* the inode that a process puts is not free to go while a call uses it
LEMMA PutShared ==
  ASSUME RefsExact, NEW p \in Caller, NEW x \in Caller, NEW i \in Inums,
         PutOf(fsProc[p]) = i, IpOf(fsProc[x]) = i
  PROVE  fsRef[i] # 1
<1>1. <<p, "put">> \in Spot /\ <<x, "ip">> \in Spot /\ <<p, "put">> # <<x, "ip">>
  BY DEF Spot, Tree!Place
<1>2. HeldAt(fsProc)[<<p, "put">>] = i /\ HeldAt(fsProc)[<<x, "ip">>] = i
  BY <1>1 DEF HeldAt, HeldOf
<1>3. Refs(i) \in Nat /\ Refs(i) >= 2
  BY <1>1, <1>2, TwoHolders, SpotsFinite DEF Refs
<1> QED
  BY <1>3 DEF RefsExact

-----------------------------------------------------------------------------
(* What a step does to the counts                                                     *)

LEMMA MovesLocals ==
  ASSUME Locals, NEW p \in Caller, Moves(p)
  PROVE  /\ fsProc' \in [Caller -> Tree!Locals]
         /\ \A x \in Caller : Shape(fsProc'[x])
         /\ \A x \in Caller \ {p} : fsProc'[x] = fsProc[x]
BY LocalsType DEF Locals, Moves

LEMMA MovesRefs ==
  ASSUME Locals, RefsExact, NEW p \in Caller, Moves(p)
  PROVE  RefsExact' /\ fsRef' \in [Inums -> Nat]
<1>1. ASSUME NEW i \in Inums
      PROVE  fsRef'[i] = Refs(i)' /\ fsRef'[i] \in Nat
  <2>1. \A x \in Caller \ {p} : fsProc'[x] = fsProc[x]
    BY MovesLocals
  <2>2. \A h \in Spot : h[1] # p => HeldAt(fsProc')[h] = HeldAt(fsProc)[h]
    BY <2>1 DEF HeldAt, Spot
  <2>3. /\ Count(Spot, HeldAt(fsProc'), i)
             = Count(Spot, HeldAt(fsProc), i) + Row(HeldAt(fsProc'), p, i)
                                              - Row(HeldAt(fsProc), p, i)
    BY <2>2, RowCount
  <2>4. ASSUME NEW f
        PROVE  Row(HeldAt(f), p, i) = RefsOf(f[p], i)
    <3>1. \A a \in Tree!Place : <<p, a>> \in Spot /\ HeldAt(f)[<<p, a>>] = HeldOf(f[p])[a]
      BY DEF Spot, HeldAt
    <3> QED
      BY <3>1 DEF Row, RefsOf, HeldOf, Tree!Place
  <2>5. Refs(i)' = Refs(i) + RefsOf(fsProc'[p], i) - RefsOf(fsProc[p], i)
    BY <2>3, <2>4 DEF Refs
  <2>6. fsRef'[i] = fsRef[i] + RefsOf(fsProc'[p], i) - RefsOf(fsProc[p], i)
        /\ fsRef[i] = Refs(i)
    BY DEF Moves, RefsExact
  <2>7. Refs(i)' \in Nat
    BY CountNat, SpotsFinite DEF Refs
  <2> QED
    BY <2>5, <2>6, <2>7
<1>2. fsRef' \in [Inums -> Int]
  BY DEF Moves
<1> QED
  BY <1>1, <1>2 DEF RefsExact

LEMMA MovesPending ==
  ASSUME Locals, NEW p \in Caller, Moves(p), NEW i
  PROVE  /\ Pend(i)' \in Nat /\ Pend(i) \in Nat
         /\ Pend(i)' = Pend(i) + Bit(PendingOf(fsProc'[p]), i) - Bit(PendingOf(fsProc[p]), i)
<1>1. \A x \in Caller \ {p} : fsProc'[x] = fsProc[x]
  BY MovesLocals
<1>2. Differ(Caller, PendingAt(fsProc), PendingAt(fsProc'), p)
  BY <1>1 DEF Differ, PendingAt
<1>3. /\ PendingAt(fsProc)[p] = PendingOf(fsProc[p])
      /\ PendingAt(fsProc')[p] = PendingOf(fsProc'[p])
  BY DEF PendingAt
<1>4. /\ Count(Caller, PendingAt(fsProc'), i) \in Nat /\ Count(Caller, PendingAt(fsProc), i) \in Nat
      /\ Count(Caller, PendingAt(fsProc'), i) = Count(Caller, PendingAt(fsProc), i)
           + (IF PendingAt(fsProc')[p] = i THEN 1 ELSE 0)
           - (IF PendingAt(fsProc)[p] = i THEN 1 ELSE 0)
  BY <1>2, CountOne, TreeConstants
<1> QED
  BY <1>3, <1>4 DEF Pend, Bit

\* what a step of p may do to the inodes, for what the other calls know of them to hold
InodesMove(p) ==
  /\ LocksMove(p)
  /\ \A j \in Inums : fsLock[j] \in Caller \ {p} => fsEntry'[j] = fsEntry[j]
  /\ \A j \in Inums : fsType'[j] # fsType[j] =>
       \/ fsType[j] = "free"
       \/ fsNlink[j] = 0 /\ fsRef[j] = 1 /\ PutOf(fsProc[p]) = j
  /\ \A j \in Inums : fsType[j] = "dir" /\ Named(j) = 0 => Named(j)' = 0

LEMMA TypeStays ==
  ASSUME TreeInv, NEW p \in Caller, InodesMove(p), NEW x \in Caller
  PROVE  /\ PendingOf(fsProc[x]) # Nil
              => /\ PendingOf(fsProc[x]) \in Inums
                 /\ fsType'[PendingOf(fsProc[x])] = fsType[PendingOf(fsProc[x])]
         /\ fsProc[x].pc = "parent"
              => /\ fsProc[x].ip \in Inums
                 /\ fsType'[fsProc[x].ip] = fsType[fsProc[x].ip]
<1>1. ASSUME PendingOf(fsProc[x]) # Nil
      PROVE  /\ PendingOf(fsProc[x]) \in Inums
             /\ fsType'[PendingOf(fsProc[x])] = fsType[PendingOf(fsProc[x])]
  <2>1. PICK i \in Inums : /\ i = PendingOf(fsProc[x]) /\ fsNlink[i] >= 1
                           /\ fsType[i] # "free"
    BY <1>1, PendingUsed DEF TreeInv
  <2>2. fsNlink[i] # 0
    BY <2>1
  <2> QED
    BY <2>1, <2>2 DEF InodesMove
<1>2. ASSUME fsProc[x].pc = "parent"
      PROVE  fsProc[x].ip \in Inums /\ fsType'[fsProc[x].ip] = fsType[fsProc[x].ip]
  <2>1. Tree!TypeOK /\ Shape(fsProc[x]) /\ Own(x) /\ RefsExact
    BY DEF TreeInv, Locals
  <2>2. PICK i \in Inums : i = fsProc[x].ip
    BY <1>2, <2>1, LocalsOf, SomeInum DEF Shape
  <2>3. fsType[i] = "dir" /\ IpOf(fsProc[x]) = i
    BY <1>2, <2>1, <2>2 DEF Own, IpOf
  <2>4. ~ (fsRef[i] = 1 /\ PutOf(fsProc[p]) = i)
    BY <2>1, <2>3, PutShared
  <2> QED
    BY <2>2, <2>3, <2>4 DEF InodesMove
<1> QED
  BY <1>1, <1>2

\* also of p, where its step leaves its locals as far as they tell
LEMMA OwnStays ==
  ASSUME TreeInv, NEW p \in Caller, InodesMove(p), NEW x \in Caller,
         fsProc'[x].pc = fsProc[x].pc, fsProc'[x].old = fsProc[x].old,
         fsProc'[x].ip = fsProc[x].ip, fsProc'[x].child = fsProc[x].child,
         fsProc'[x].path = fsProc[x].path,
         \A j \in Inums : fsLock[j] = x => fsLock'[j] = x /\ fsEntry'[j] = fsEntry[j]
  PROVE  Own(x)'
<1> DEFINE q == fsProc[x]
<1>1. Tree!TypeOK /\ Shape(q) /\ Own(x)
  BY DEF TreeInv, Locals
<1>2. /\ q.ip \in Some /\ q.child \in Some /\ q.old \in Some
  BY <1>1, LocalsOf
<1>3. q.old # Nil => fsType'[q.old] = "file"
  BY <1>1, TypeStays DEF Own, PendingOf
<1>4. q.pc = "parent" => fsType'[q.ip] = "dir"
  BY <1>1, TypeStays DEF Own
<1>5. q.pc \in {"linkbad", "unlink", "unlinkbad"} => fsLock'[q.ip] = x
  BY <1>1, <1>2, SomeInum DEF Own, Shape
<1>6. q.pc \in {"unlinked", "created"} => fsLock'[q.child] = x
  BY <1>1, <1>2, SomeInum DEF Own, Shape
<1>7. q.pc = "unlink" => /\ fsEntry'[q.ip][Head(q.path)] = q.child
                         /\ Head(q.path) \in FileName
  BY <1>1, <1>2, SomeInum DEF Own, Shape
<1>8. ASSUME q.pc = "unlinked", fsType'[q.child] = "dir"
      PROVE  /\ q.child # Root /\ Named(q.child)' = 0
             /\ \A n \in FileName : fsEntry'[q.child][n] = Nil
  <2>1. q.old = Nil /\ q.child \in Inums /\ fsLock[q.child] = x
    BY <1>1, <1>2, <1>8, SomeInum DEF Own, Shape
  <2>2. fsType[q.child] = "dir"
    BY <1>8, <2>1, TypeStays, TreeConstants DEF PendingOf
  <2>3. /\ q.child # Root /\ Named(q.child) = 0
        /\ \A n \in FileName : fsEntry[q.child][n] = Nil
    BY <1>1, <1>8, <2>2 DEF Own
  <2>4. fsEntry'[q.child] = fsEntry[q.child]
    BY <2>1
  <2>5. \A j \in Inums : fsType[j] = "dir" /\ Named(j) = 0 => Named(j)' = 0
    BY DEF InodesMove
  <2>6. PICK c \in Inums : c = q.child
    BY <2>1
  <2>7. Named(c)' = 0
    BY <2>2, <2>3, <2>5, <2>6
  <2> QED
    BY <2>3, <2>4, <2>6, <2>7 DEF Named
<1> QED
  BY <1>3, <1>4, <1>5, <1>6, <1>7, <1>8 DEF Own, Named

LEMMA OthersStay ==
  ASSUME TreeInv, NEW p \in Caller, InodesMove(p), Moves(p), Own(p)'
  PROVE  \A x \in Caller : Own(x)'
<1> SUFFICES ASSUME NEW x \in Caller \ {p} PROVE Own(x)'
  OBVIOUS
<1>1. fsProc'[x] = fsProc[x]
  BY MovesLocals DEF TreeInv
<1>2. \A j \in Inums : fsLock[j] = x => fsLock'[j] = x /\ fsEntry'[j] = fsEntry[j]
  BY TreeConstants DEF InodesMove, LocksMove
<1> QED
  BY <1>1, <1>2, OwnStays

(* What is kept besides, while calls do not cross: the link counts are exact, and only  *)
(* the root and directories that are named have entries.                              *)

Exact ==
  \A i \in Inums \ {Root} : fsType[i] # "free" => fsNlink[i] = Named(i) + Subs(i) + Pend(i)
Seen(d) == d = Root \/ Named(d) # 0
Populated == \A d \in Inums, n \in FileName : fsEntry[d][n] # Nil => Seen(d)
Reached ==
  \A p \in Caller :
    fsProc[p].pc \in {"walk", "parent"} /\ fsType[fsProc[p].ip] = "dir" => Seen(fsProc[p].ip)

Tallied(p) ==
  /\ Exact /\ Populated => Exact'
  /\ Populated /\ Reached => Populated'
  /\ Populated /\ fsProc[p].pc # "unlink" => \A j \in Inums : Named(j) # 0 => Named(j)' # 0

LEMMA QuietInv ==
  ASSUME TreeInv, NEW p \in Caller, Quiet(p)
  PROVE  TreeInv' /\ Tallied(p)
<1>1. /\ Locals /\ Tree!TypeOK /\ RefsExact /\ Covered /\ Unused /\ Rooted /\ Directories
      /\ Moves(p) /\ LocksMove(p) /\ UNCHANGED <<fsType, fsNlink, fsEntry>>
  BY DEF TreeInv, Locals, Quiet
<1>2. \A i : Named(i)' = Named(i) /\ Subs(i)' = Subs(i)
  BY <1>1 DEF Named, Subs
<1>3. \A i : Pend(i)' = Pend(i)
  <2> SUFFICES ASSUME NEW i PROVE Pend(i)' = Pend(i)
    OBVIOUS
  <2>1. Bit(PendingOf(fsProc'[p]), i) = Bit(PendingOf(fsProc[p]), i)
    BY DEF Quiet
  <2> QED
    BY <1>1, <2>1, MovesPending, BitType
<1>4. InodesMove(p)
  BY <1>1, <1>2 DEF InodesMove
<1>5. \A x \in Caller : Own(x)'
  BY <1>1, <1>4, OthersStay DEF Quiet
<1>6. RefsExact' /\ fsRef' \in [Inums -> Nat]
  BY <1>1, MovesRefs
<1>7. Locals'
  <2>1. /\ fsProc' \in [Caller -> Tree!Locals] /\ \A x \in Caller : Shape(fsProc'[x])
    BY <1>1, MovesLocals
  <2>2. Tree!TypeOK'
    BY <1>1, <1>6, <2>1, LocalsType DEF Tree!TypeOK, LocksMove, Inums
  <2> QED
    BY <2>1, <2>2 DEF Locals
<1>8. Covered' /\ Unused' /\ Rooted' /\ Directories'
  BY <1>1, <1>2, <1>3 DEF Covered, Unused, Rooted, Directories
<1>9. Tallied(p)
  BY <1>1, <1>2, <1>3 DEF Tallied, Exact, Populated, Seen
<1> QED
  BY <1>5, <1>6, <1>7, <1>8, <1>9 DEF TreeInv

-----------------------------------------------------------------------------
(* The steps that change inodes                                                       *)

InodesTyped ==
  /\ fsType \in [Inums -> {"free", "file", "dir"}] /\ fsNlink \in [Inums -> Nat]
  /\ fsEntry \in [Inums -> [Slot -> Some]]

LEMMA StepInv ==
  ASSUME TreeInv, NEW p \in Caller, Moves(p), InodesMove(p), Own(p)',
         InodesTyped', Covered', Unused', Rooted', Directories'
  PROVE  TreeInv'
<1>1. \A x \in Caller : Own(x)'
  BY OthersStay
<1>2. RefsExact' /\ fsRef' \in [Inums -> Nat]
  BY MovesRefs DEF TreeInv
<1>3. Locals'
  <2>1. /\ fsProc' \in [Caller -> Tree!Locals] /\ \A x \in Caller : Shape(fsProc'[x])
    BY MovesLocals DEF TreeInv
  <2>2. Tree!TypeOK'
    BY <1>2, <2>1, TreeConstants
       DEF Tree!TypeOK, InodesMove, LocksMove, InodesTyped, Inums, Some
  <2> QED
    BY <2>1, <2>2 DEF Locals
<1> QED
  BY <1>1, <1>2, <1>3 DEF TreeInv

LEMMA IsMove ==
  ASSUME Tree!TypeOK, NEW p \in Caller,
         fsProc' = [fsProc EXCEPT ![p] = fsProc'[p]], fsProc'[p] \in Tree!Locals,
         Shape(fsProc'[p]), fsRef' \in [Inums -> Int],
         \A i \in Inums : fsRef'[i] - fsRef[i] = RefsOf(fsProc'[p], i) - RefsOf(fsProc[p], i)
  PROVE  Moves(p)
<1>1. \A i \in Inums : fsRef[i] \in Int /\ fsRef'[i] \in Int
  BY LocalsType
<1>2. \A i : RefsOf(fsProc'[p], i) \in Int /\ RefsOf(fsProc[p], i) \in Int
  BY DEF RefsOf, Bit
<1>3. \A a, b, c, d \in Int : a - b = c - d => a = b + c - d
  OBVIOUS
<1>4. \A i \in Inums : fsRef'[i] = fsRef[i] + RefsOf(fsProc'[p], i) - RefsOf(fsProc[p], i)
  BY <1>1, <1>2, <1>3
<1> QED
  BY <1>4 DEF Moves

\* the link count of an inode moves with the calls that hold it half done
LEMMA CountsWithPending ==
  ASSUME TreeInv, NEW p \in Caller, Moves(p), LocksMove(p), Own(p)',
         NEW c \in Inums, NEW d \in {1, -1},
         UNCHANGED <<fsType, fsEntry>>, fsNlink' = [fsNlink EXCEPT ![c] = @ + d],
         fsType[c] # "free", d = -1 => fsNlink[c] >= 1,
         \A i \in Inums : Bit(PendingOf(fsProc'[p]), i) - Bit(PendingOf(fsProc[p]), i)
                            = (IF i = c THEN d ELSE 0),
         fsType[c] = "dir" => c # Root /\ Named(c) = 0
  PROVE  TreeInv' /\ Tallied(p)
<1>1. /\ Locals /\ Tree!TypeOK /\ RefsExact /\ Covered /\ Unused /\ Rooted /\ Directories
  BY DEF TreeInv, Locals
<1>2. \A i : Named(i)' = Named(i) /\ Subs(i)' = Subs(i)
  BY DEF Named, Subs
<1>3. \A i \in Inums : Pend(i)' = Pend(i) + (IF i = c THEN d ELSE 0)
  <2> SUFFICES ASSUME NEW i \in Inums PROVE Pend(i)' = Pend(i) + (IF i = c THEN d ELSE 0)
    OBVIOUS
  <2>1. /\ Pend(i) \in Nat
        /\ Pend(i)' = Pend(i) + Bit(PendingOf(fsProc'[p]), i) - Bit(PendingOf(fsProc[p]), i)
    BY <1>1, MovesPending
  <2>2. Bit(PendingOf(fsProc'[p]), i) \in Int /\ Bit(PendingOf(fsProc[p]), i) \in Int
    BY BitType
  <2> QED
    BY <2>1, <2>2
<1>4. \A i \in Inums : /\ fsNlink[i] \in Nat
                       /\ fsNlink'[i] = fsNlink[i] + (IF i = c THEN d ELSE 0)
  BY <1>1, LocalsType
<1>5. InodesTyped'
  <2>1. \A i \in Inums : fsNlink'[i] \in Nat
    BY <1>4
  <2> QED
    BY <1>1, <2>1, LocalsType DEF InodesTyped
<1>6. InodesMove(p)
  BY <1>2 DEF InodesMove
<1>7. Covered'
  <2> SUFFICES ASSUME NEW i \in Inums
               PROVE  Named(i)' + Subs(i)' + Pend(i)' <= fsNlink'[i]
    BY DEF Covered
  <2>1. /\ Named(i) \in Nat /\ Subs(i) \in Nat /\ Pend(i) \in Nat
        /\ Named(i) + Subs(i) + Pend(i) <= fsNlink[i]
    BY <1>1, Counts DEF Covered
  <2> QED
    BY <1>2, <1>3, <1>4, <2>1
<1>8. Unused'
  BY <1>1, <1>4 DEF Unused
<1>9. Rooted'
  BY <1>1, <1>2 DEF Rooted
<1>10. Directories'
  <2>1. \A i \in Inums : fsType[i] = "dir" /\ (i = Root \/ Named(i) # 0)
                           => i # c /\ fsNlink'[i] = fsNlink[i]
    BY <1>4
  <2> QED
    BY <1>1, <1>2, <2>1 DEF Directories
<1>11. Tallied(p)
  <2>1. Exact => Exact'
    <3> SUFFICES ASSUME Exact, NEW i \in Inums \ {Root}, fsType'[i] # "free"
                 PROVE  fsNlink'[i] = Named(i)' + Subs(i)' + Pend(i)'
      BY DEF Exact
    <3>1. fsNlink[i] = Named(i) + Subs(i) + Pend(i)
      BY DEF Exact
    <3>2. Named(i) \in Nat /\ Subs(i) \in Nat /\ Pend(i) \in Nat
      BY Counts
    <3> QED
      BY <1>2, <1>3, <1>4, <3>1, <3>2
  <2>2. Populated => Populated'
    BY <1>2 DEF Populated, Seen
  <2> QED
    BY <1>2, <2>1, <2>2 DEF Tallied
<1>12. TreeInv'
  BY <1>5, <1>6, <1>7, <1>8, <1>9, <1>10, StepInv
<1> QED
  BY <1>11, <1>12

LEMMA LinkCountedInv ==
  ASSUME TreeInv, NEW p \in Caller, LinkCounted(p)
  PROVE  TreeInv' /\ Tallied(p)
<1> DEFINE q == fsProc[p]
           r == fsProc'[p]
           i == q.ip
<1>1. /\ q.pc = "got" /\ q.puts = <<>> /\ ~ q.drop /\ PutOf(q) = Nil /\ NextOf(q) = Nil
      /\ Tree!TypeOK /\ Shape(q) /\ q.call = "link" /\ q.old = Nil
  BY StepAt DEF LinkCounted, TreeInv, Shape
<1>2. /\ i \in Inums /\ q.cwd \in Inums /\ q.file \in Some /\ q.new \in Rest
      /\ q \in Tree!Locals
  BY <1>1, LocalsOf, SomeInum DEF Shape
<1>3. /\ fsType[i] = "file" /\ fsNlink' = [fsNlink EXCEPT ![i] = @ + 1]
      /\ Tree!StartWalk(p, [q EXCEPT !.old = i, !.new = <<>>], q.new)
      /\ UNCHANGED <<fsType, fsEntry, fsLock>>
  BY <1>1, <1>2, LocalsType DEF LinkCounted
<1>4. [q EXCEPT !.old = i, !.new = <<>>]
        = [q EXCEPT !.call = "link", !.old = i, !.new = <<>>]
  BY <1>1, <1>2, LocalsAre
<1>5. PICK ip \in Inums : /\ Starts(p, "link", q.new, <<>>, i, ip)
                         /\ fsRef' = [fsRef EXCEPT ![ip] = @ + 1]
  <2>1. Tree!StartWalk(p, [q EXCEPT !.call = "link", !.old = i, !.new = <<>>], q.new)
    BY <1>3, <1>4
  <2>2. "link" \in Call /\ i \in Some /\ <<>> \in Rest
    BY <1>2 DEF Call, Some, Rest, Tree!Calls
  <2>3. StartsAt(p, "link", q.new, <<>>, i)
    <3>1. Tree!TypeOK /\ q.new \in Rest
      BY <1>1, <1>2
    <3> QED
      BY <2>1, <2>2, <3>1, StartsIn, ZenonT(30)
  <2> QED
    BY <2>3 DEF StartsAt
<1>6. fsRef' \in [Inums -> Int] /\ \A j \in Inums : fsRef'[j] = fsRef[j] + Bit(ip, j)
  BY <1>1, <1>5, Taken
<1>7. /\ r.pc = "walk" /\ r.old = i /\ r.cwd = q.cwd /\ r.file = q.file /\ r.ip = ip
      /\ r.puts = <<>> /\ r.call = "link" /\ r.path = q.new /\ ~ r.drop
      /\ r \in Tree!Locals /\ fsProc' = [fsProc EXCEPT ![p] = r]
  BY <1>1, <1>5 DEF Starts
<1>8. Own(p)'
  BY <1>3, <1>7, <1>2, TreeConstants DEF Own
<1> HIDE DEF q, r, i
<1>9. PutOf(r) = Nil /\ NextOf(r) = Nil
  BY <1>7, PutsOf
<1>10. Shape(r)
  BY <1>2, <1>7, PutsAre, TreeConstants DEF Shape
<1>11. \A j \in Inums : RefsOf(r, j) - RefsOf(q, j) = Bit(ip, j)
  BY <1>1, <1>2, <1>7, <1>9, TreeConstants DEF RefsOf, IpOf, ChildOf, Bit, i
<1>12. \A j \in Inums : fsRef'[j] - fsRef[j] = RefsOf(r, j) - RefsOf(q, j)
  <2>1. \A j \in Inums : fsRef[j] \in Nat /\ Bit(ip, j) \in Int
    BY <1>1, LocalsType, BitType
  <2> QED
    BY <1>6, <1>11, <2>1
<1>13. Moves(p)
  BY <1>1, <1>6, <1>7, <1>10, <1>12, IsMove DEF q, r
<1>14. PendingOf(r) = i /\ PendingOf(q) = Nil
  BY <1>1, <1>2, <1>7, TreeConstants DEF PendingOf
<1>15. \A j \in Inums : Bit(PendingOf(r), j) - Bit(PendingOf(q), j) = (IF j = i THEN 1 ELSE 0)
  BY <1>14, TreeConstants DEF Bit
<1>16. LocksMove(p)
  BY <1>1, <1>3, UnchangedLocks
<1>17. /\ 1 \in {1, -1} /\ (1 = -1 => fsNlink[i] >= 1) /\ fsType[i] # "free"
       /\ fsType[i] = "dir" => i # Root /\ Named(i) = 0
  BY <1>3
<1>18. \A j \in Inums : Bit(PendingOf(fsProc'[p]), j) - Bit(PendingOf(fsProc[p]), j)
                         = (IF j = i THEN 1 ELSE 0)
  BY <1>15 DEF q, r
<1> QED
  BY <1>2, <1>3, <1>8, <1>13, <1>16, <1>17, <1>18, CountsWithPending

LEMMA UnlinkNewInv ==
  ASSUME TreeInv, NEW p \in Caller, Tree!UnlinkNew(p)
  PROVE  TreeInv' /\ Tallied(p)
<1> DEFINE q == fsProc[p]
           r == fsProc'[p]
           i == q.old
<1>1. /\ q.pc = "unlinknew" /\ q.puts = <<>> /\ ~ q.drop /\ PutOf(q) = Nil /\ NextOf(q) = Nil
      /\ Tree!TypeOK /\ Shape(q) /\ Own(p)
  BY StepAt DEF Tree!UnlinkNew, TreeInv
<1>2. /\ i \in Inums /\ q.cwd \in Inums /\ q.file \in Some /\ PendingOf(q) = i
  BY <1>1, LocalsOf, SomeInum DEF Shape, PendingOf
<1>3. /\ fsType[i] = "file" /\ fsNlink[i] >= 1
      /\ fsNlink' = [fsNlink EXCEPT ![i] = @ - 1]
      /\ UNCHANGED <<fsType, fsEntry, fsRef, fsLock>> /\ LocksMove(p)
  <2>1. fsNlink[i] >= 1
    BY <1>2, PendingUsed, TreeConstants DEF TreeInv
  <2> QED
    BY <1>1, <1>2, <2>1, TreeConstants, UnchangedLocks DEF Own, Tree!UnlinkNew
<1>4. Leaves(p, q.cwd, q.file, <<i>>)
  BY <1>1, <1>2, PutsAre, Returns DEF Tree!UnlinkNew
<1>5. /\ r.pc = "user" /\ r.old = Nil /\ r.call = "none" /\ r.new = <<>>
      /\ r.cwd = q.cwd /\ r.file = q.file /\ r.puts = <<i>> /\ ~ r.drop
      /\ r \in Tree!Locals /\ fsProc' = [fsProc EXCEPT ![p] = r]
  BY <1>1, <1>4 DEF Leaves
<1>6. Own(p)'
  BY <1>5 DEF Own
<1>7. fsNlink' = [fsNlink EXCEPT ![i] = @ + (-1)]
  <2>1. fsNlink \in [Inums -> Nat]
    BY <1>1, LocalsType
  <2>2. fsNlink[i] - 1 = fsNlink[i] + (-1)
    BY <1>2, <2>1
  <2> QED
    BY <1>3, <2>1, <2>2
<1> HIDE DEF q, r, i
<1>8. PutOf(r) = i /\ NextOf(r) = Nil /\ Len(r.puts) = 1
  BY <1>2, <1>5, PutsOf, PutsAre
<1>9. Shape(r)
  BY <1>5, <1>8 DEF Shape
<1>10. \A j \in Inums : RefsOf(r, j) = RefsOf(q, j)
  BY <1>1, <1>5, <1>8, TreeConstants DEF RefsOf, IpOf, ChildOf, Bit, i
<1>11. \A j \in Inums : fsRef'[j] - fsRef[j] = RefsOf(r, j) - RefsOf(q, j)
  BY <1>1, <1>3, <1>10, LocalsType DEF RefsOf, Bit
<1>12. Moves(p)
  BY <1>1, <1>3, <1>5, <1>9, <1>11, IsMove, Untaken DEF q, r
<1>13. PendingOf(r) = Nil
  BY <1>5 DEF PendingOf
<1>14. \A j \in Inums : Bit(PendingOf(fsProc'[p]), j) - Bit(PendingOf(fsProc[p]), j)
                          = (IF j = i THEN -1 ELSE 0)
  BY <1>2, <1>13, TreeConstants DEF Bit, q, r
<1>15. /\ -1 \in {1, -1} /\ (-1 = -1 => fsNlink[i] >= 1) /\ fsType[i] # "free"
       /\ fsType[i] = "dir" => i # Root /\ Named(i) = 0
  BY <1>3
<1> QED
  BY <1>2, <1>3, <1>6, <1>7, <1>12, <1>14, <1>15, CountsWithPending

LEMMA UnlinkInodeInv ==
  ASSUME TreeInv, NEW p \in Caller, Tree!UnlinkInode(p)
  PROVE  TreeInv' /\ Tallied(p)
<1> DEFINE q == fsProc[p]
           r == fsProc'[p]
           i == q.child
<1>1. /\ q.pc = "unlinked" /\ q.puts = <<>> /\ ~ q.drop /\ PutOf(q) = Nil /\ NextOf(q) = Nil
      /\ Tree!TypeOK /\ Shape(q) /\ Own(p)
  BY StepAt DEF Tree!UnlinkInode, TreeInv
<1>2. /\ i \in Inums /\ q.cwd \in Inums /\ q.file \in Some /\ PendingOf(q) = i /\ q.old = Nil
  BY <1>1, LocalsOf, SomeInum DEF Shape, PendingOf
<1>3. /\ fsType[i] # "free" /\ fsNlink[i] >= 1
      /\ fsType[i] = "dir" => i # Root /\ Named(i) = 0
      /\ fsNlink' = [fsNlink EXCEPT ![i] = @ - 1]
      /\ fsLock[i] = p /\ fsLock' = [fsLock EXCEPT ![i] = Nil]
      /\ UNCHANGED <<fsType, fsEntry, fsRef>>
  <2>1. fsNlink[i] >= 1 /\ fsType[i] # "free"
    BY <1>2, PendingUsed, TreeConstants DEF TreeInv
  <2> QED
    BY <1>1, <1>2, <2>1 DEF Own, Tree!UnlinkInode
<1>4. LocksMove(p)
  BY <1>1, <1>2, <1>3, LockMoves
<1>5. Leaves(p, q.cwd, q.file, <<i>>)
  BY <1>1, <1>2, PutsAre, Returns DEF Tree!UnlinkInode
<1>6. /\ r.pc = "user" /\ r.old = Nil /\ r.call = "none" /\ r.new = <<>>
      /\ r.cwd = q.cwd /\ r.file = q.file /\ r.puts = <<i>> /\ ~ r.drop
      /\ r \in Tree!Locals /\ fsProc' = [fsProc EXCEPT ![p] = r]
  BY <1>1, <1>5 DEF Leaves
<1>7. Own(p)'
  BY <1>6 DEF Own
<1>8. fsNlink' = [fsNlink EXCEPT ![i] = @ + (-1)]
  <2>1. fsNlink \in [Inums -> Nat]
    BY <1>1, LocalsType
  <2>2. fsNlink[i] - 1 = fsNlink[i] + (-1)
    BY <1>2, <2>1
  <2> QED
    BY <1>3, <2>1, <2>2
<1> HIDE DEF q, r, i
<1>9. PutOf(r) = i /\ NextOf(r) = Nil /\ Len(r.puts) = 1
  BY <1>2, <1>6, PutsOf, PutsAre
<1>10. Shape(r)
  BY <1>6, <1>9 DEF Shape
<1>11. \A j \in Inums : RefsOf(r, j) = RefsOf(q, j)
  BY <1>1, <1>2, <1>6, <1>9, TreeConstants DEF RefsOf, IpOf, ChildOf, Bit, i
<1>12. \A j \in Inums : fsRef'[j] - fsRef[j] = RefsOf(r, j) - RefsOf(q, j)
  BY <1>1, <1>3, <1>11, LocalsType DEF RefsOf, Bit
<1>13. Moves(p)
  BY <1>1, <1>3, <1>6, <1>10, <1>12, IsMove, Untaken DEF q, r
<1>14. PendingOf(r) = Nil
  BY <1>6 DEF PendingOf
<1>15. \A j \in Inums : Bit(PendingOf(fsProc'[p]), j) - Bit(PendingOf(fsProc[p]), j)
                          = (IF j = i THEN -1 ELSE 0)
  BY <1>2, <1>14, TreeConstants DEF Bit, q, r
<1>16. -1 \in {1, -1} /\ (-1 = -1 => fsNlink[i] >= 1)
  BY <1>3
<1> QED
  BY <1>2, <1>3, <1>4, <1>7, <1>8, <1>13, <1>15, <1>16, CountsWithPending

-----------------------------------------------------------------------------
(* and those that change a directory.  One entry changes: *)

LEMMA NamedChange ==
  ASSUME NEW e \in Edge, \A f \in Edge \ {e} : fsEntry'[f[1]][f[2]] = fsEntry[f[1]][f[2]], NEW i
  PROVE  Named(i)' = Named(i) + Bit(fsEntry'[e[1]][e[2]], i) - Bit(fsEntry[e[1]][e[2]], i)
<1>1. Differ(Edge, EntryAt(fsEntry), EntryAt(fsEntry'), e)
  BY DEF Differ, EntryAt
<1>2. /\ EntryAt(fsEntry)[e] = fsEntry[e[1]][e[2]]
      /\ EntryAt(fsEntry')[e] = fsEntry'[e[1]][e[2]]
  BY DEF EntryAt
<1>3. Count(Edge, EntryAt(fsEntry'), i) = Count(Edge, EntryAt(fsEntry), i)
        + (IF EntryAt(fsEntry')[e] = i THEN 1 ELSE 0)
        - (IF EntryAt(fsEntry)[e] = i THEN 1 ELSE 0)
  BY <1>1, CountOne, EdgesFinite
<1> QED
  BY <1>2, <1>3 DEF Named, Bit

LEMMA SubsChange ==
  ASSUME NEW e \in Edge, NEW i,
         \A f \in Edge \ {e} :
           ParentAt(fsEntry', fsType')[f] = ParentAt(fsEntry, fsType)[f]
  PROVE  Subs(i)' = Subs(i) + Bit(ParentAt(fsEntry', fsType')[e], i)
                            - Bit(ParentAt(fsEntry, fsType)[e], i)
<1>1. Differ(Edge, ParentAt(fsEntry, fsType), ParentAt(fsEntry', fsType'), e)
  BY DEF Differ
<1>2. /\ Count(Edge, ParentAt(fsEntry', fsType'), i) = Count(Edge, ParentAt(fsEntry, fsType), i)
        + (IF ParentAt(fsEntry', fsType')[e] = i THEN 1 ELSE 0)
        - (IF ParentAt(fsEntry, fsType)[e] = i THEN 1 ELSE 0)
  BY <1>1, CountOne, EdgesFinite
<1> QED
  BY <1>2 DEF Subs, Bit

\* a directory has its "." and "..": what is not in it is a name
LEMMA FreeName ==
  ASSUME TreeInv, NEW d \in Inums, fsType[d] = "dir", NEW n \in Slot, fsEntry[d][n] = Nil
  PROVE  n \in FileName /\ <<d, n>> \in Edge
BY TreeConstants DEF TreeInv, Directories, Slot, Edge

LEMMA EdgesApart ==
  ASSUME NEW d \in Inums, NEW n \in FileName, NEW f \in Edge \ {<<d, n>>}
  PROVE  /\ f[1] \in Inums /\ f[2] \in FileName /\ f = <<f[1], f[2]>>
         /\ f[1] # d \/ f[2] # n
BY DEF Edge

LEMMA LinkNewInv ==
  ASSUME TreeInv, NEW p \in Caller, Tree!Link(p),
         fsEntry[fsProc[p].ip][Head(fsProc[p].path)] = Nil
  PROVE  TreeInv' /\ Tallied(p)
<1> DEFINE q == fsProc[p]
           r == fsProc'[p]
           d == q.ip
           n == Head(q.path)
           i == q.old
<1>1. Parents(p) /\ Tree!TypeOK /\ Shape(q) /\ Own(p)
  BY AtParent DEF Tree!Link, Locals, TreeInv
<1>2. /\ q.pc = "parent" /\ q.puts = <<>> /\ ~ q.drop /\ PutOf(q) = Nil /\ NextOf(q) = Nil
      /\ d \in Inums /\ fsType[d] = "dir" /\ n \in Slot /\ fsEntry[d][n] = Nil
  BY <1>1 DEF Parents
<1>3. n \in FileName /\ <<d, n>> \in Edge /\ n # "." /\ n # ".."
  BY <1>2, FreeName, TreeConstants
<1>4. /\ i \in Inums /\ fsType[i] = "file" /\ PendingOf(q) = i
      /\ q.cwd \in Inums /\ q.file \in Some
  BY <1>1, LocalsOf, SomeInum DEF Tree!Link, Own, PendingOf
<1>5. /\ fsLock[d] = Nil /\ fsEntry' = [fsEntry EXCEPT ![d][n] = i]
      /\ Tree!Become(p, Tree!Return(p, <<d, i>>))
      /\ UNCHANGED <<fsType, fsNlink, fsRef, fsLock>>
  BY <1>2 DEF Tree!Link, Tree!Unlocked
<1>6. Leaves(p, q.cwd, q.file, <<d, i>>)
  BY <1>1, <1>2, <1>4, <1>5, PutsAre, Returns
<1>7. /\ r.pc = "user" /\ r.old = Nil /\ r.call = "none" /\ r.new = <<>>
      /\ r.cwd = q.cwd /\ r.file = q.file /\ r.puts = <<d, i>> /\ ~ r.drop
      /\ r \in Tree!Locals /\ fsProc' = [fsProc EXCEPT ![p] = r]
  BY <1>2, <1>6 DEF Leaves
<1>8. Own(p)'
  BY <1>7 DEF Own
<1> HIDE DEF q, r, d, n, i
<1>9. PutOf(r) = d /\ NextOf(r) = i /\ Len(r.puts) = 2
  BY <1>2, <1>4, <1>7, PutsOf, PutsAre
<1>10. Shape(r)
  BY <1>7, <1>9, PutsAre DEF Shape
<1>11. \A j \in Inums : RefsOf(r, j) = RefsOf(q, j)
  BY <1>2, <1>7, <1>9, TreeConstants DEF RefsOf, IpOf, ChildOf, Bit, i, d
<1>12. \A j \in Inums : fsRef'[j] - fsRef[j] = RefsOf(r, j) - RefsOf(q, j)
  BY <1>1, <1>5, <1>11, LocalsType DEF RefsOf, Bit
<1>13. Moves(p)
  BY <1>1, <1>5, <1>7, <1>10, <1>12, IsMove, Untaken DEF q, r
<1>14. \A j \in Inums : Pend(j) \in Nat /\ Pend(j)' = Pend(j) - Bit(i, j)
  <2> SUFFICES ASSUME NEW j \in Inums PROVE Pend(j) \in Nat /\ Pend(j)' = Pend(j) - Bit(i, j)
    OBVIOUS
  <2>1. PendingOf(fsProc'[p]) = Nil /\ PendingOf(fsProc[p]) = i
    BY <1>4, <1>7 DEF PendingOf, q, r
  <2>2. Bit(Nil, j) = 0
    BY TreeConstants DEF Bit
  <2> QED
    BY <1>13, <2>1, <2>2, MovesPending, BitType DEF TreeInv
<1>15. fsEntry \in [Inums -> [Slot -> Some]]
  BY <1>1, LocalsType
<1>16. /\ fsEntry' \in [Inums -> [Slot -> Some]] /\ fsEntry'[d][n] = i
       /\ \A j \in Inums : j # d => fsEntry'[j] = fsEntry[j]
       /\ \A m \in Slot : m # n => fsEntry'[d][m] = fsEntry[d][m]
  BY <1>2, <1>4, <1>5, <1>15 DEF Some
<1>17. \A f \in Edge \ {<<d, n>>} : fsEntry'[f[1]][f[2]] = fsEntry[f[1]][f[2]]
  BY <1>2, <1>3, <1>16, EdgesApart DEF Slot
<1>18. \A j \in Inums : Named(j) \in Nat /\ Named(j)' = Named(j) + Bit(i, j)
  <2> SUFFICES ASSUME NEW j \in Inums PROVE Named(j) \in Nat /\ Named(j)' = Named(j) + Bit(i, j)
    OBVIOUS
  <2>1. Named(j)' = Named(j) + Bit(i, j) - Bit(Nil, j)
    BY <1>2, <1>3, <1>16, <1>17, NamedChange
  <2>2. Bit(Nil, j) = 0
    BY TreeConstants DEF Bit
  <2> QED
    BY <2>1, <2>2, Counts, BitType
<1>19. \A j : Subs(j)' = Subs(j)
  <2>1. \A f \in Edge : ParentAt(fsEntry', fsType')[f] = ParentAt(fsEntry, fsType)[f]
    <3>1. ASSUME NEW f \in Edge \ {<<d, n>>}
          PROVE  ParentAt(fsEntry', fsType')[f] = ParentAt(fsEntry, fsType)[f]
      BY <1>5, <1>17 DEF ParentAt
    <3>2. ParentAt(fsEntry', fsType')[<<d, n>>] = ParentAt(fsEntry, fsType)[<<d, n>>]
      BY <1>2, <1>3, <1>4, <1>5, <1>16 DEF ParentAt
    <3> QED
      BY <3>1, <3>2
  <2>2. ParentAt(fsEntry', fsType') = ParentAt(fsEntry, fsType)
    <3>1. ParentAt(fsEntry', fsType') = [f \in Edge |-> ParentAt(fsEntry', fsType')[f]]
      BY DEF ParentAt
    <3>2. ParentAt(fsEntry, fsType) = [f \in Edge |-> ParentAt(fsEntry, fsType)[f]]
      BY DEF ParentAt
    <3> QED
      BY <2>1, <3>1, <3>2
  <2> QED
    BY <2>2 DEF Subs
<1>20. \A j \in Inums : fsType[j] = "dir" => Named(j)' = Named(j)
  <2>1. \A j \in Inums : fsType[j] = "dir" => Bit(i, j) = 0
    BY <1>4 DEF Bit
  <2> QED
    BY <1>18, <2>1
<1>21. /\ Covered /\ Unused /\ Rooted /\ Directories
  BY DEF TreeInv
<1>22. InodesMove(p)
  <2>1. LocksMove(p)
    BY <1>1, <1>5, UnchangedLocks
  <2> QED
    BY <1>5, <1>16, <1>20, <2>1, TreeConstants DEF InodesMove
<1>23. InodesTyped'
  BY <1>1, <1>5, <1>16, LocalsType DEF InodesTyped
<1>24. Covered'
  <2> SUFFICES ASSUME NEW j \in Inums
               PROVE  Named(j)' + Subs(j)' + Pend(j)' <= fsNlink'[j]
    BY DEF Covered
  <2>1. Named(j) + Subs(j) + Pend(j) <= fsNlink[j] /\ Subs(j) \in Nat /\ fsNlink[j] \in Nat
    BY <1>1, <1>21, Counts, LocalsType DEF Covered
  <2>2. Bit(i, j) \in {0, 1}
    BY BitType
  <2> QED
    BY <1>5, <1>14, <1>18, <1>19, <2>1, <2>2
<1>25. Unused'
  BY <1>2, <1>5, <1>16, <1>21 DEF Unused
<1>26. Rooted'
  BY <1>3, <1>5, <1>16, <1>20, <1>21, TreeConstants DEF Rooted, Slot
<1>27. Directories'
  <2> SUFFICES ASSUME NEW j \in Inums, fsType[j] = "dir"
               PROVE  /\ fsEntry'[j]["."] = j /\ fsEntry'[j][".."] \in Inums
                      /\ Named(j)' <= 1
                      /\ \A e \in Edge : fsEntry'[e[1]][e[2]] = j => fsEntry'[j][".."] = e[1]
                      /\ j = Root \/ Named(j)' # 0 => fsNlink'[j] = 1 + Subs(j)'
    BY <1>5 DEF Directories
  <2>1. fsEntry'[j]["."] = fsEntry[j]["."] /\ fsEntry'[j][".."] = fsEntry[j][".."]
    BY <1>3, <1>16 DEF Slot
  <2>2. \A e \in Edge : fsEntry'[e[1]][e[2]] = j => fsEntry[e[1]][e[2]] = j
    <3> SUFFICES ASSUME NEW e \in Edge, fsEntry'[e[1]][e[2]] = j PROVE fsEntry[e[1]][e[2]] = j
      OBVIOUS
    <3>1. e # <<d, n>>
      BY <1>4, <1>16
    <3> QED
      BY <1>17, <3>1
  <2> QED
    BY <1>5, <1>19, <1>20, <1>21, <2>1, <2>2 DEF Directories
<1>28. TreeInv'
  BY <1>8, <1>13, <1>22, <1>23, <1>24, <1>25, <1>26, <1>27, StepInv
<1>29. Exact => Exact'
  <2> SUFFICES ASSUME Exact, NEW j \in Inums \ {Root}, fsType'[j] # "free"
               PROVE  fsNlink'[j] = Named(j)' + Subs(j)' + Pend(j)'
    BY DEF Exact
  <2>1. fsNlink[j] = Named(j) + Subs(j) + Pend(j)
    BY <1>5 DEF Exact
  <2>2. Subs(j) \in Nat /\ Bit(i, j) \in {0, 1}
    BY Counts, BitType
  <2> QED
    BY <1>5, <1>14, <1>18, <1>19, <2>1, <2>2
<1>30. \A j \in Inums : Named(j) # 0 => Named(j)' # 0
  BY <1>18, BitType
<1>31. Populated /\ Reached => Populated'
  <2> SUFFICES ASSUME Populated, Reached, NEW x \in Inums, NEW m \in FileName,
                      fsEntry'[x][m] # Nil
               PROVE  x = Root \/ Named(x)' # 0
    BY DEF Populated, Seen
  <2>1. CASE x = d
    BY <1>2, <1>30, <2>1 DEF Reached, Seen, q, d
  <2>2. CASE x # d
    BY <1>16, <1>30, <2>2 DEF Populated, Seen
  <2> QED
    BY <2>1, <2>2
<1> QED
  BY <1>28, <1>29, <1>30, <1>31 DEF Tallied

\* unlink() takes the entry out and locks the inode that it named
LEMMA UnlinkEntryInv ==
  ASSUME TreeInv, NEW p \in Caller, Tree!UnlinkEntry(p),
         ~ (fsType[fsProc[p].child] = "dir" /\ ~ Tree!IsDirEmpty(fsProc[p].child))
  PROVE  TreeInv' /\ Tallied(p)
<1> DEFINE q == fsProc[p]
           r == fsProc'[p]
           d == q.ip
           n == Head(q.path)
           i == q.child
<1>1. /\ q.pc = "unlink" /\ q.puts = <<>> /\ ~ q.drop /\ PutOf(q) = Nil /\ NextOf(q) = Nil
      /\ Tree!TypeOK /\ Shape(q) /\ Own(p)
  BY StepAt DEF Tree!UnlinkEntry, TreeInv
<1>2. /\ Covered /\ Unused /\ Rooted /\ Directories
  BY DEF TreeInv
<1>3. /\ d \in Inums /\ i \in Inums /\ q.old = Nil /\ q.cwd \in Inums /\ q.file \in Some
      /\ fsLock[d] = p /\ fsEntry[d][n] = i /\ n \in FileName
  BY <1>1, LocalsOf, SomeInum DEF Shape, Own
<1>4. /\ fsLock[i] = Nil /\ fsType[i] # "free"
      /\ fsEntry' = [fsEntry EXCEPT ![d][n] = Nil]
      /\ fsNlink' = IF fsType[i] = "dir" THEN [fsNlink EXCEPT ![d] = @ - 1] ELSE fsNlink
      /\ fsLock' = [fsLock EXCEPT ![d] = Nil, ![i] = p]
      /\ Tree!Become(p, Tree!Continue(p, "unlinked", <<d>>))
      /\ UNCHANGED <<fsType, fsRef>>
      /\ fsType[i] = "dir" => \A m \in FileName : fsEntry[i][m] = Nil
  BY DEF Tree!UnlinkEntry, Tree!Unlocked, Tree!IsDirEmpty
<1>5. d # i /\ <<d, n>> \in Edge
  BY <1>3, <1>4, TreeConstants DEF Edge
<1>6. fsType[d] = "dir"
  <2>1. Tree!Empty[n] = Nil
    BY <1>3, TreeConstants DEF Tree!Empty, Slot
  <2> QED
    BY <1>2, <1>3, <2>1, TreeConstants DEF Unused
<1>7. Goes(p, "unlinked", q.path, q.ip, q.child, <<d>>)
  BY <1>1, <1>3, <1>4, PutsAre, Continues DEF Pc
<1>8. /\ r.pc = "unlinked" /\ r.old = Nil /\ r.call = q.call /\ r.new = q.new
      /\ r.ip = d /\ r.path = q.path /\ r.child = i
      /\ r.cwd = q.cwd /\ r.file = q.file /\ r.puts = <<d>> /\ ~ r.drop
      /\ r \in Tree!Locals /\ fsProc' = [fsProc EXCEPT ![p] = r]
  BY <1>1, <1>3, <1>7 DEF Goes
<1>9. fsLock' \in [Inums -> Caller \cup {Nil}] /\ fsLock'[i] = p
      /\ \A j \in Inums : j # d /\ j # i => fsLock'[j] = fsLock[j]
  <2>1. fsLock \in [Inums -> Caller \cup {Nil}]
    BY <1>1, LocalsType
  <2> HIDE DEF q, r, d, n, i
  <2> QED
    BY <1>3, <1>4, <2>1
<1>10. LocksMove(p)
  BY <1>3, <1>4, <1>9 DEF LocksMove
<1>11. fsEntry \in [Inums -> [Slot -> Some]]
  BY <1>1, LocalsType
<1>12. /\ fsEntry' \in [Inums -> [Slot -> Some]] /\ fsEntry'[d][n] = Nil
       /\ \A j \in Inums : j # d => fsEntry'[j] = fsEntry[j]
       /\ \A m \in Slot : m # n => fsEntry'[d][m] = fsEntry[d][m]
  BY <1>3, <1>4, <1>11 DEF Some, Slot
<1>13. \A f \in Edge \ {<<d, n>>} : fsEntry'[f[1]][f[2]] = fsEntry[f[1]][f[2]]
  BY <1>3, <1>12, EdgesApart DEF Slot
<1>14. \A j \in Inums : /\ Named(j) \in Nat /\ Named(j)' \in Nat
                        /\ Named(j)' = Named(j) - Bit(i, j)
  <2> SUFFICES ASSUME NEW j \in Inums
               PROVE  /\ Named(j) \in Nat /\ Named(j)' \in Nat
                      /\ Named(j)' = Named(j) - Bit(i, j)
    OBVIOUS
  <2>1. Named(j)' = Named(j) + Bit(Nil, j) - Bit(i, j)
    BY <1>3, <1>5, <1>12, <1>13, NamedChange
  <2>2. Bit(Nil, j) = 0
    BY TreeConstants DEF Bit
  <2>3. Named(j)' \in Nat
    BY CountNat, EdgesFinite DEF Named
  <2> QED
    BY <2>1, <2>2, <2>3, Counts, BitType
<1>15. Named(i) >= 1
  BY <1>3, <1>5, NamedBy
<1>16. Own(p)'
  <2>1. PICK c \in Inums : c = i
    BY <1>3
  <2>2. r.child = c /\ r.pc = "unlinked" /\ r.old = Nil
    BY <1>8, <2>1
  <2>3. ASSUME fsType'[c] = "dir"
        PROVE  /\ c # Root /\ Named(c)' = 0
               /\ \A m \in FileName : fsEntry'[c][m] = Nil
    <3>1. fsType[c] = "dir" /\ Named(c) <= 1 /\ Named(c) >= 1
      BY <1>2, <1>4, <1>15, <2>1, <2>3 DEF Directories
    <3>2. c # Root
      BY <1>2, <3>1 DEF Rooted
    <3>3. Named(c)' = 0
      <4>1. Named(c)' = Named(c) - Bit(c, c) /\ Named(c) \in Nat
        BY <1>14, <2>1
      <4> QED
        BY <3>1, <4>1 DEF Bit
    <3> QED
      BY <1>4, <1>5, <1>12, <2>1, <3>1, <3>2, <3>3
  <2>4. fsLock'[c] = p
    BY <1>9, <2>1
  <2> HIDE DEF q, d, n, i
  <2> QED
    BY <2>2, <2>3, <2>4 DEF Own, Named, r
<1> HIDE DEF q, r, d, n, i
<1>17. PutOf(r) = d /\ NextOf(r) = Nil /\ Len(r.puts) = 1
  BY <1>3, <1>8, PutsOf, PutsAre
<1>18. Shape(r)
  BY <1>1, <1>3, <1>8, <1>17, TreeConstants DEF Shape
<1>19. \A j \in Inums : RefsOf(r, j) = RefsOf(q, j)
  BY <1>1, <1>3, <1>8, <1>17, TreeConstants DEF RefsOf, IpOf, ChildOf, Bit, d, i
<1>20. \A j \in Inums : fsRef'[j] - fsRef[j] = RefsOf(r, j) - RefsOf(q, j)
  BY <1>1, <1>4, <1>19, LocalsType DEF RefsOf, Bit
<1>21. Moves(p)
  BY <1>1, <1>4, <1>8, <1>18, <1>20, IsMove, Untaken DEF q, r
<1>22. \A j \in Inums : Pend(j) \in Nat /\ Pend(j)' = Pend(j) + Bit(i, j)
  <2> SUFFICES ASSUME NEW j \in Inums PROVE Pend(j) \in Nat /\ Pend(j)' = Pend(j) + Bit(i, j)
    OBVIOUS
  <2>1. PendingOf(fsProc'[p]) = i /\ PendingOf(fsProc[p]) = Nil
    BY <1>1, <1>3, <1>8 DEF PendingOf, q, r
  <2>2. Bit(Nil, j) = 0
    BY TreeConstants DEF Bit
  <2> QED
    BY <1>21, <2>1, <2>2, MovesPending, BitType DEF TreeInv
<1>23. \A j \in Inums : /\ Subs(j) \in Nat /\ Subs(j)' \in Nat
                        /\ Subs(j)' = Subs(j) - (IF fsType[i] = "dir" THEN Bit(d, j) ELSE 0)
  <2> SUFFICES ASSUME NEW j \in Inums
               PROVE  /\ Subs(j) \in Nat /\ Subs(j)' \in Nat
                      /\ Subs(j)' = Subs(j) - (IF fsType[i] = "dir" THEN Bit(d, j) ELSE 0)
    OBVIOUS
  <2>1. \A f \in Edge \ {<<d, n>>} : ParentAt(fsEntry', fsType')[f] = ParentAt(fsEntry, fsType)[f]
    BY <1>4, <1>13 DEF ParentAt
  <2>2. /\ ParentAt(fsEntry', fsType')[<<d, n>>] = Nil
        /\ ParentAt(fsEntry, fsType)[<<d, n>>] = IF fsType[i] = "dir" THEN d ELSE Nil
    BY <1>3, <1>5, <1>12, TreeConstants DEF ParentAt
  <2>3. Subs(j)' = Subs(j) + Bit(Nil, j) - Bit(IF fsType[i] = "dir" THEN d ELSE Nil, j)
    BY <1>5, <2>1, <2>2, SubsChange
  <2>4. Bit(Nil, j) = 0
    BY TreeConstants DEF Bit
  <2>5. Subs(j)' \in Nat
    BY CountNat, EdgesFinite DEF Subs
  <2> QED
    BY <2>3, <2>4, <2>5, Counts, BitType
<1>24. \A j \in Inums : /\ fsNlink[j] \in Nat /\ fsNlink'[j] \in Nat
                        /\ fsNlink'[j] = fsNlink[j] - (IF fsType[i] = "dir" THEN Bit(d, j) ELSE 0)
  <2>1. fsNlink \in [Inums -> Nat]
    BY <1>1, LocalsType
  <2>2. fsType[i] = "dir" => fsNlink[d] >= 1
    <3>1. fsType[i] = "dir" => Subs(d) >= 1
      BY <1>3, <1>23 DEF Bit
    <3>2. Named(d) + Subs(d) + Pend(d) <= fsNlink[d]
      BY <1>2, <1>3 DEF Covered
    <3> QED
      BY <1>3, <2>1, <3>1, <3>2, Counts
  <2> SUFFICES ASSUME NEW j \in Inums
               PROVE  /\ fsNlink'[j] \in Nat
                      /\ fsNlink'[j] = fsNlink[j]
                                         - (IF fsType[i] = "dir" THEN Bit(d, j) ELSE 0)
    BY <2>1
  <2>3. fsNlink'[j] = fsNlink[j] - (IF fsType[i] = "dir" THEN Bit(d, j) ELSE 0)
    BY <1>3, <1>4, <2>1 DEF Bit
  <2> QED
    BY <2>1, <2>2, <2>3 DEF Bit
<1>25. fsNlink' \in [Inums -> Nat]
  BY <1>1, <1>3, <1>4, <1>24, LocalsType
<1>26. InodesMove(p)
  <2>1. \A j \in Inums : fsType[j] = "dir" /\ Named(j) = 0 => Named(j)' = 0
    BY <1>14 DEF Bit
  <2> QED
    BY <1>3, <1>4, <1>10, <1>12, <2>1 DEF InodesMove
<1>27. InodesTyped'
  BY <1>1, <1>4, <1>12, <1>25, LocalsType DEF InodesTyped
<1>28. Covered'
  <2> SUFFICES ASSUME NEW j \in Inums
               PROVE  Named(j)' + Subs(j)' + Pend(j)' <= fsNlink'[j]
    BY DEF Covered
  <2>1. Named(j) + Subs(j) + Pend(j) <= fsNlink[j]
    BY <1>2 DEF Covered
  <2>2. Bit(i, j) \in {0, 1} /\ (IF fsType[i] = "dir" THEN Bit(d, j) ELSE 0) \in {0, 1}
    BY BitType
  <2> QED
    BY <1>14, <1>22, <1>23, <1>24, <2>1, <2>2
<1>29. Unused'
  <2>1. \A j \in Inums : fsType[j] = "free" => fsNlink'[j] = fsNlink[j]
    BY <1>6, <1>24 DEF Bit
  <2> QED
    BY <1>2, <1>4, <1>6, <1>12, <2>1 DEF Unused
<1>30. Rooted'
  <2>1. i # Root
    BY <1>2, <1>15 DEF Rooted
  <2>2. Named(Root)' = Named(Root)
    BY <1>14, <2>1, TreeConstants DEF Bit
  <2>3. fsEntry'[Root][".."] = fsEntry[Root][".."]
    BY <1>3, <1>12, TreeConstants DEF Slot
  <2> QED
    BY <1>2, <1>4, <2>2, <2>3 DEF Rooted
<1>31. Directories'
  <2> SUFFICES ASSUME NEW j \in Inums, fsType[j] = "dir"
               PROVE  /\ fsEntry'[j]["."] = j /\ fsEntry'[j][".."] \in Inums
                      /\ Named(j)' <= 1
                      /\ \A e \in Edge : fsEntry'[e[1]][e[2]] = j => fsEntry'[j][".."] = e[1]
                      /\ j = Root \/ Named(j)' # 0 => fsNlink'[j] = 1 + Subs(j)'
    BY <1>4 DEF Directories
  <2>1. fsEntry'[j]["."] = fsEntry[j]["."] /\ fsEntry'[j][".."] = fsEntry[j][".."]
    BY <1>3, <1>12, TreeConstants DEF Slot
  <2>2. \A e \in Edge : fsEntry'[e[1]][e[2]] = j => fsEntry[e[1]][e[2]] = j
    <3> SUFFICES ASSUME NEW e \in Edge, fsEntry'[e[1]][e[2]] = j PROVE fsEntry[e[1]][e[2]] = j
      OBVIOUS
    <3>1. e # <<d, n>>
      BY <1>12, TreeConstants
    <3> QED
      BY <1>13, <3>1
  <2>3. Named(j)' <= Named(j) /\ (Named(j)' # 0 => Named(j) # 0)
    BY <1>14, BitType
  <2>4. Named(j) <= 1 /\ (j = Root \/ Named(j) # 0 => fsNlink[j] = 1 + Subs(j))
    BY <1>2 DEF Directories
  <2>5. fsNlink[j] = 1 + Subs(j) => fsNlink'[j] = 1 + Subs(j)'
    <3>1. (IF fsType[i] = "dir" THEN Bit(d, j) ELSE 0) \in {0, 1}
      BY BitType
    <3> QED
      BY <1>23, <1>24, <3>1
  <2>6. Named(j)' <= 1
    BY <1>14, <2>3, <2>4
  <2> QED
    BY <1>2, <2>1, <2>2, <2>3, <2>4, <2>5, <2>6 DEF Directories
<1>32. TreeInv'
  BY <1>16, <1>21, <1>26, <1>27, <1>28, <1>29, <1>30, <1>31, StepInv
<1>33. Exact => Exact'
  <2> SUFFICES ASSUME Exact, NEW j \in Inums \ {Root}, fsType'[j] # "free"
               PROVE  fsNlink'[j] = Named(j)' + Subs(j)' + Pend(j)'
    BY DEF Exact
  <2>1. fsNlink[j] = Named(j) + Subs(j) + Pend(j)
    BY <1>4 DEF Exact
  <2>2. Bit(i, j) \in {0, 1} /\ (IF fsType[i] = "dir" THEN Bit(d, j) ELSE 0) \in {0, 1}
    BY BitType
  <2> QED
    BY <1>14, <1>22, <1>23, <1>24, <2>1, <2>2
<1>34. Populated => Populated'
  <2> SUFFICES ASSUME Populated, NEW x \in Inums, NEW m \in FileName, fsEntry'[x][m] # Nil
               PROVE  x = Root \/ Named(x)' # 0
    BY DEF Populated, Seen
  <2>1. fsEntry[x][m] # Nil
    BY <1>12 DEF Slot
  <2>2. x # i
    <3>1. \A k \in FileName : fsEntry[i][k] = Nil
      <4>1. CASE fsType[i] = "dir"
        BY <1>4, <4>1
      <4>2. CASE fsType[i] # "dir"
        BY <1>2, <1>3, <4>2, TreeConstants DEF Unused, Tree!Empty, Slot
      <4> QED
        BY <4>1, <4>2
    <3> QED
      BY <2>1, <3>1
  <2>3. Named(x)' = Named(x)
    BY <1>14, <2>2 DEF Bit
  <2> QED
    BY <2>1, <2>3 DEF Populated, Seen
<1>35. fsProc[p].pc = "unlink"
  BY <1>1 DEF q
<1> QED
  BY <1>32, <1>33, <1>34, <1>35 DEF Tallied

\* iput() frees an inode: no entry names it and no call is to take it back
LEMMA IputFreeInv ==
  ASSUME TreeInv, NEW p \in Caller, Tree!Iput(p), Tree!LastUse(Head(fsProc[p].puts))
  PROVE  TreeInv' /\ Tallied(p)
<1> DEFINE q == fsProc[p]
           r == fsProc'[p]
<1>1. Tree!TypeOK /\ Shape(q) /\ q.puts # <<>> /\ ~ q.drop
  BY DEF TreeInv, Locals, Tree!Iput
<1>2. /\ Covered /\ Unused /\ Rooted /\ Directories /\ Locals
  BY DEF TreeInv
<1>3. q \in Tree!Locals /\ fsProc \in [Caller -> Tree!Locals] /\ q.puts \in Seq(Inums)
  BY <1>1, LocalsType, LocalsOf DEF Puts
<1>4. PICK i \in Inums : i = Head(q.puts) /\ i = PutOf(q)
  <2> HIDE DEF q
  <2>1. PICK s \in Seq(Inums) : s = q.puts
    BY <1>3
  <2>2. s # <<>> /\ Len(s) \in Nat /\ (Len(s) = 0 => s = <<>>)
    BY <1>1, <2>1, EmptySeq
  <2>3. Head(s) \in Inums /\ Head(s) = s[1] /\ Len(s) > 0
    BY <2>2
  <2> QED
    BY <2>1, <2>3 DEF PutOf
<1>5. /\ fsNlink[i] = 0 /\ fsRef[i] = 1 /\ fsLock[i] = Nil
      /\ fsType' = [fsType EXCEPT ![i] = "free"]
      /\ fsEntry' = [fsEntry EXCEPT ![i] = Tree!Empty]
      /\ UNCHANGED <<fsNlink, fsRef, fsLock>> /\ LocksMove(p)
      /\ r = [q EXCEPT !.drop = TRUE] /\ fsProc' = [fsProc EXCEPT ![p] = r]
  BY <1>1, <1>3, <1>4, UnchangedLocks DEF Tree!Iput, Tree!Become, Tree!LastUse, Tree!Unlocked
<1> HIDE DEF q, r
<1>6. /\ r \in Tree!Locals
      /\ r.call = q.call /\ r.pc = q.pc /\ r.path = q.path /\ r.new = q.new /\ r.ip = q.ip
      /\ r.child = q.child /\ r.old = q.old /\ r.cwd = q.cwd /\ r.file = q.file
      /\ r.puts = q.puts
  BY <1>3, <1>5, LocalsAre
<1>7. Shape(r)
  BY <1>1, <1>6 DEF Shape
<1>8. PendingOf(r) = PendingOf(q) /\ \A j \in Inums : RefsOf(q, j) = RefsOf(r, j)
  BY <1>6 DEF RefsOf, IpOf, ChildOf, PutOf, NextOf, PendingOf
<1>9. \A j \in Inums : fsRef'[j] - fsRef[j] = RefsOf(r, j) - RefsOf(q, j)
  <2>1. fsRef' = fsRef
    BY <1>5
  <2> QED
    BY <1>1, <1>8, <2>1, LocalsType DEF RefsOf, Bit
<1>10. Moves(p)
  BY <1>1, <1>5, <1>6, <1>7, <1>9, IsMove, Untaken DEF q, r
<1>11. \A j \in Inums : Pend(j)' = Pend(j)
  <2> SUFFICES ASSUME NEW j \in Inums PROVE Pend(j)' = Pend(j)
    OBVIOUS
  <2>1. Bit(PendingOf(fsProc'[p]), j) = Bit(PendingOf(fsProc[p]), j)
    BY <1>8 DEF q, r
  <2> QED
    BY <1>2, <1>10, <2>1, MovesPending, BitType
<1>12. Named(i) = 0 /\ Subs(i) = 0 /\ i # Root
  <2>1. Named(i) + Subs(i) + Pend(i) <= 0
    BY <1>2, <1>5 DEF Covered
  <2>2. Named(i) = 0 /\ Subs(i) = 0
    BY <2>1, Counts
  <2>3. fsNlink[Root] = 1 + Subs(Root) /\ Subs(Root) \in Nat
    BY <1>2, Counts, TreeConstants DEF Rooted, Directories
  <2> QED
    BY <1>5, <2>2, <2>3
<1>13. \A e \in Edge : fsEntry[e[1]][e[2]] # i
  BY <1>12, NamedBy
<1>14. /\ fsType \in [Inums -> {"free", "file", "dir"}] /\ fsNlink \in [Inums -> Nat]
       /\ fsEntry \in [Inums -> [Slot -> Some]] /\ Tree!Empty \in [Slot -> Some]
       /\ \A n \in FileName : Tree!Empty[n] = Nil
  BY <1>1, LocalsType, TreeConstants DEF Tree!Empty, Slot, Some
<1>15. /\ fsType'[i] = "free" /\ \A j \in Inums : j # i => fsType'[j] = fsType[j]
       /\ fsEntry'[i] = Tree!Empty /\ \A j \in Inums : j # i => fsEntry'[j] = fsEntry[j]
  BY <1>5, <1>14
<1>16. InodesTyped'
  BY <1>5, <1>14 DEF InodesTyped
<1>17. \A e \in Edge, j \in Inums : fsEntry'[e[1]][e[2]] = j => fsEntry[e[1]][e[2]] = j
  <2> SUFFICES ASSUME NEW e \in Edge, NEW j \in Inums, fsEntry'[e[1]][e[2]] = j
               PROVE  fsEntry[e[1]][e[2]] = j
    OBVIOUS
  <2>1. e[1] \in Inums /\ e[2] \in FileName
    BY DEF Edge
  <2>2. e[1] # i
    BY <1>14, <1>15, <2>1, TreeConstants
  <2> QED
    BY <1>15, <2>1, <2>2
<1>18. \A j \in Inums : Named(j) \in Nat /\ Named(j)' \in Nat /\ Named(j)' <= Named(j)
  <2> SUFFICES ASSUME NEW j \in Inums
               PROVE  Named(j) \in Nat /\ Named(j)' \in Nat /\ Named(j)' <= Named(j)
    OBVIOUS
  <2>1. \A e \in Edge : EntryAt(fsEntry')[e] = j => EntryAt(fsEntry)[e] = j
    BY <1>17 DEF EntryAt
  <2>2. Count(Edge, EntryAt(fsEntry'), j) <= Count(Edge, EntryAt(fsEntry), j)
    BY <2>1, CountFewer, EdgesFinite
  <2>3. Count(Edge, EntryAt(fsEntry'), j) \in Nat
    BY CountNat, EdgesFinite
  <2> QED
    BY <2>2, <2>3, Counts DEF Named
<1>19. \A j \in Inums : Subs(j)' = Subs(j)
  <2> SUFFICES ASSUME NEW j \in Inums PROVE Subs(j)' = Subs(j)
    OBVIOUS
  <2>1. \A e \in Edge : ParentAt(fsEntry, fsType)[e] = j <=> ParentAt(fsEntry', fsType')[e] = j
    <3> SUFFICES ASSUME NEW e \in Edge
                 PROVE  ParentAt(fsEntry', fsType')[e] = ParentAt(fsEntry, fsType)[e]
      OBVIOUS
    <3>1. e[1] \in Inums /\ e[2] \in FileName /\ e[2] \in Slot
      BY DEF Edge, Slot
    <3>2. CASE e[1] = i
      <4>1. ParentAt(fsEntry', fsType')[e] = Nil
        BY <1>14, <1>15, <3>1, <3>2 DEF ParentAt
      <4>2. ParentAt(fsEntry, fsType)[e] # i
        BY <1>12, CountNat, EdgesFinite DEF Subs
      <4>3. ParentAt(fsEntry, fsType)[e] \in {e[1], Nil}
        BY DEF ParentAt
      <4> QED
        BY <3>2, <4>1, <4>2, <4>3
    <3>3. CASE e[1] # i
      <4>1. fsEntry'[e[1]][e[2]] = fsEntry[e[1]][e[2]] /\ fsEntry[e[1]][e[2]] \in Some
        BY <1>14, <1>15, <3>1, <3>3
      <4>2. fsEntry[e[1]][e[2]] # Nil => fsType'[fsEntry[e[1]][e[2]]] = fsType[fsEntry[e[1]][e[2]]]
        BY <1>13, <1>15, <4>1, SomeInum
      <4> QED
        BY <4>1, <4>2 DEF ParentAt
    <3> QED
      BY <3>2, <3>3
  <2>2. Count(Edge, ParentAt(fsEntry', fsType'), j) = Count(Edge, ParentAt(fsEntry, fsType), j)
    BY <2>1, CountSame
  <2> QED
    BY <2>2 DEF Subs
<1>20. InodesMove(p)
  <2>1. \A j \in Inums : Named(j) = 0 => Named(j)' = 0
    BY <1>18
  <2> QED
    BY <1>4, <1>5, <1>15, <2>1, TreeConstants DEF InodesMove, q
<1>21. Own(p)'
  <2>1. \A j \in Inums : fsLock[j] = p => fsLock'[j] = p /\ fsEntry'[j] = fsEntry[j]
    BY <1>5, <1>15, TreeConstants
  <2>2. /\ fsProc'[p].pc = fsProc[p].pc /\ fsProc'[p].old = fsProc[p].old
        /\ fsProc'[p].ip = fsProc[p].ip /\ fsProc'[p].child = fsProc[p].child
        /\ fsProc'[p].path = fsProc[p].path
    BY <1>6 DEF q, r
  <2> QED
    BY <1>20, <2>1, <2>2, OwnStays
<1>22. Covered'
  <2> SUFFICES ASSUME NEW j \in Inums
               PROVE  Named(j)' + Subs(j)' + Pend(j)' <= fsNlink'[j]
    BY DEF Covered
  <2>1. /\ Named(j) + Subs(j) + Pend(j) <= fsNlink[j] /\ fsNlink[j] \in Nat
        /\ Subs(j) \in Nat /\ Pend(j) \in Nat
    BY <1>2, <1>14, Counts DEF Covered
  <2> QED
    BY <1>5, <1>11, <1>18, <1>19, <2>1
<1>23. Unused'
  BY <1>2, <1>5, <1>15 DEF Unused
<1>24. Rooted'
  <2>1. Named(Root)' = 0
    BY <1>2, <1>18, TreeConstants DEF Rooted
  <2> QED
    BY <1>2, <1>12, <1>15, <2>1, TreeConstants DEF Rooted
<1>25. Directories'
  <2> SUFFICES ASSUME NEW j \in Inums, fsType'[j] = "dir"
               PROVE  /\ fsEntry'[j]["."] = j /\ fsEntry'[j][".."] \in Inums
                      /\ Named(j)' <= 1
                      /\ \A e \in Edge : fsEntry'[e[1]][e[2]] = j => fsEntry'[j][".."] = e[1]
                      /\ j = Root \/ Named(j)' # 0 => fsNlink'[j] = 1 + Subs(j)'
    BY DEF Directories
  <2>1. fsType[j] = "dir" /\ fsEntry'[j] = fsEntry[j]
    BY <1>15
  <2>2. /\ Named(j) <= 1 /\ fsEntry[j]["."] = j /\ fsEntry[j][".."] \in Inums
        /\ \A e \in Edge : fsEntry[e[1]][e[2]] = j => fsEntry[j][".."] = e[1]
        /\ j = Root \/ Named(j) # 0 => fsNlink[j] = 1 + Subs(j)
    BY <1>2, <2>1 DEF Directories
  <2>3. Named(j)' <= 1 /\ (Named(j)' # 0 => Named(j) # 0)
    BY <1>18, <2>2
  <2> QED
    BY <1>5, <1>17, <1>19, <2>1, <2>2, <2>3
<1>26. TreeInv'
  BY <1>10, <1>16, <1>20, <1>21, <1>22, <1>23, <1>24, <1>25, StepInv
<1>27. ASSUME Populated PROVE \A j \in Inums : Named(j)' = Named(j)
  <2>1. \A m \in FileName : fsEntry[i][m] = Nil
    BY <1>12, <1>27 DEF Populated, Seen
  <2>2. EntryAt(fsEntry') = EntryAt(fsEntry)
    <3> SUFFICES ASSUME NEW e \in Edge PROVE fsEntry'[e[1]][e[2]] = fsEntry[e[1]][e[2]]
      BY DEF EntryAt
    <3>1. e[1] \in Inums /\ e[2] \in FileName
      BY DEF Edge
    <3> QED
      BY <1>14, <1>15, <2>1, <3>1
  <2> QED
    BY <2>2 DEF Named
<1>28. Exact /\ Populated => Exact'
  <2> SUFFICES ASSUME Exact, Populated, NEW j \in Inums \ {Root}, fsType'[j] # "free"
               PROVE  fsNlink'[j] = Named(j)' + Subs(j)' + Pend(j)'
    BY DEF Exact
  <2>1. fsNlink[j] = Named(j) + Subs(j) + Pend(j)
    BY <1>15 DEF Exact
  <2> QED
    BY <1>5, <1>11, <1>19, <1>27, <2>1
<1>29. Populated => Populated'
  <2> SUFFICES ASSUME Populated, NEW x \in Inums, NEW m \in FileName, fsEntry'[x][m] # Nil
               PROVE  x = Root \/ Named(x)' # 0
    BY DEF Populated, Seen
  <2>1. fsEntry[x][m] # Nil
    BY <1>14, <1>15
  <2> QED
    BY <1>27, <2>1 DEF Populated, Seen
<1> QED
  BY <1>26, <1>27, <1>28, <1>29 DEF Tallied

\* create() makes an inode and its entry, and locks it
LEMMA CreateNewInv ==
  ASSUME TreeInv, NEW p \in Caller, NEW c \in Inums, Tree!CreateNew(p, c)
  PROVE  TreeInv' /\ Tallied(p)
<1> DEFINE q == fsProc[p]
           r == fsProc'[p]
           d == q.ip
           n == Head(q.path)
           kind == IF q.call = "mkdir" THEN "dir" ELSE "file"
           up == IF kind = "dir" THEN 1 ELSE 0
           new == IF kind = "dir" THEN [Tree!Empty EXCEPT !["."] = c, ![".."] = d]
                                  ELSE Tree!Empty
<1>1. Parents(p) /\ Tree!TypeOK /\ Shape(q) /\ Own(p)
  BY AtParent DEF Tree!CreateNew, Locals, TreeInv
<1>2. /\ Covered /\ Unused /\ Rooted /\ Directories /\ Locals
  BY DEF TreeInv
<1>3. /\ q.pc = "parent" /\ q.puts = <<>> /\ ~ q.drop /\ PutOf(q) = Nil /\ NextOf(q) = Nil
      /\ d \in Inums /\ fsType[d] = "dir" /\ n \in Slot
      /\ q.call \in {"create", "mkdir"} /\ q.old = Nil
  BY <1>1 DEF Parents, Tree!CreateNew, Shape
<1>4. /\ fsLock[d] = Nil /\ fsLock[c] = Nil /\ fsEntry[d][n] = Nil /\ fsType[c] = "free"
      /\ fsType' = [fsType EXCEPT ![c] = kind]
      /\ fsNlink' = [fsNlink EXCEPT ![c] = 1, ![d] = @ + up]
      /\ fsEntry' = [fsEntry EXCEPT ![d][n] = c, ![c] = new]
      /\ fsRef' = [fsRef EXCEPT ![c] = @ + 1]
      /\ fsLock' = [fsLock EXCEPT ![c] = p]
      /\ Tree!Become(p, [Tree!Continue(p, "created", <<d>>) EXCEPT !.child = c])
  BY DEF Tree!CreateNew, Tree!Unlocked, Tree!ParentLink
<1>5. n \in FileName /\ <<d, n>> \in Edge /\ n # "." /\ n # ".." /\ d # c
  BY <1>3, <1>4, FreeName, TreeConstants
<1>6. Goes(p, "created", q.path, q.ip, c, <<d>>)
  <2>1. "created" \in Pc /\ <<d>> \in Puts /\ c \in Some
    BY <1>3, PutsAre DEF Pc, Some
  <2>2. Tree!Become(p, [Tree!Continue(p, "created", <<d>>) EXCEPT !.child = c])
    BY <1>4
  <2> HIDE DEF d
  <2>3. \A child \in Some :
          Tree!Become(p, [Tree!Continue(p, "created", <<d>>) EXCEPT !.child = child])
            => Goes(p, "created", q.path, q.ip, child, <<d>>)
    BY <1>1, <2>1, Continues, ZenonT(30)
  <2> QED
    BY <2>1, <2>2, <2>3
<1>7. /\ r.pc = "created" /\ r.old = Nil /\ r.call = q.call /\ r.new = q.new /\ r.child = c
      /\ r.cwd = q.cwd /\ r.file = q.file /\ r.puts = <<d>> /\ ~ r.drop
      /\ r \in Tree!Locals /\ fsProc' = [fsProc EXCEPT ![p] = r]
  BY <1>3, <1>6 DEF Goes
<1>8. fsRef' \in [Inums -> Int] /\ \A j \in Inums : fsRef'[j] = fsRef[j] + Bit(c, j)
  BY <1>1, <1>4, Taken
<1>9. LocksMove(p) /\ fsLock'[c] = p
  <2>1. LocksMove(p)
    BY <1>1, <1>4, LockMoves
  <2>2. fsLock'[c] = p
    BY <1>1, <1>4, LocalsType
  <2> QED
    BY <2>1, <2>2
<1>10. Own(p)'
  BY <1>7, <1>9 DEF Own
<1> HIDE DEF q, r, d, n, kind, up, new
<1>11. PutOf(r) = d /\ NextOf(r) = Nil /\ Len(r.puts) = 1
  BY <1>3, <1>7, PutsOf, PutsAre
<1>12. Shape(r)
  BY <1>1, <1>3, <1>7, <1>11, TreeConstants DEF Shape
<1>13. \A j \in Inums : RefsOf(r, j) - RefsOf(q, j) = Bit(c, j)
  BY <1>3, <1>7, <1>11, TreeConstants DEF RefsOf, IpOf, ChildOf, Bit, d
<1>14. \A j \in Inums : fsRef'[j] - fsRef[j] = RefsOf(r, j) - RefsOf(q, j)
  <2>1. \A j \in Inums : fsRef[j] \in Nat /\ Bit(c, j) \in Int
    BY <1>1, LocalsType, BitType
  <2> QED
    BY <1>8, <1>13, <2>1
<1>15. Moves(p)
  BY <1>1, <1>7, <1>8, <1>12, <1>14, IsMove DEF q, r
<1>16. \A j \in Inums : Pend(j)' = Pend(j)
  <2> SUFFICES ASSUME NEW j \in Inums PROVE Pend(j)' = Pend(j)
    OBVIOUS
  <2>1. PendingOf(fsProc'[p]) = Nil /\ PendingOf(fsProc[p]) = Nil
    BY <1>3, <1>7 DEF PendingOf, q, r
  <2> QED
    BY <1>2, <1>15, <2>1, MovesPending, BitType
<1>17. Named(c) = 0 /\ Subs(c) = 0 /\ Pend(c) = 0
  <2>1. Named(c) + Subs(c) + Pend(c) <= fsNlink[c] /\ fsNlink[c] = 0
    BY <1>2, <1>4 DEF Covered, Unused
  <2> QED
    BY <2>1, Counts
<1>18. /\ kind \in {"file", "dir"} /\ up \in {0, 1} /\ (kind = "dir" <=> up = 1)
       /\ new \in [Slot -> Some] /\ \A m \in FileName : new[m] = Nil
       /\ kind = "file" => new = Tree!Empty
       /\ kind = "dir" => new["."] = c /\ new[".."] = d
  BY <1>3, TreeConstants DEF kind, up, new, Tree!Empty, Slot, Some
<1>19. /\ fsType \in [Inums -> {"free", "file", "dir"}] /\ fsNlink \in [Inums -> Nat]
       /\ fsEntry \in [Inums -> [Slot -> Some]]
  BY <1>1, LocalsType
<1>20. fsType'[c] = kind /\ \A j \in Inums : j # c => fsType'[j] = fsType[j]
  BY <1>4, <1>19
<1>21. /\ fsNlink' \in [Inums -> Nat] /\ fsNlink'[c] = 1
       /\ \A j \in Inums : j # c => fsNlink'[j] = fsNlink[j] + (IF j = d THEN up ELSE 0)
  <2>1. fsNlink' = [fsNlink EXCEPT ![c] = 1, ![d] = @ + up]
    BY <1>4
  <2>2. PICK f : f = fsNlink
    OBVIOUS
  <2>3. PICK g : g = fsNlink'
    OBVIOUS
  <2>4. g = [f EXCEPT ![c] = 1, ![d] = @ + up]
    BY <2>1, <2>2, <2>3
  <2>5. f \in [Inums -> Nat] /\ d \in Inums /\ c # d /\ up \in {0, 1}
    BY <1>3, <1>5, <1>18, <1>19, <2>2
  <2>6. /\ g \in [Inums -> Nat] /\ g[c] = 1
        /\ \A j \in Inums : j # c => g[j] = f[j] + (IF j = d THEN up ELSE 0)
    <3>1. g = [j \in Inums |-> IF j = d THEN f[j] + up ELSE IF j = c THEN 1 ELSE f[j]]
      BY <1>3, <2>4, <2>5
    <3>2. \A j \in Inums : g[j] = IF j = d THEN f[j] + up ELSE IF j = c THEN 1 ELSE f[j]
      BY <3>1
    <3>3. \A j \in Inums : f[j] \in Nat /\ f[j] + up \in Nat /\ f[j] + 0 = f[j]
      BY <2>5
    <3>4. \A j \in Inums : g[j] \in Nat
      BY <3>2, <3>3
    <3>5. g[c] = 1 /\ \A j \in Inums : j # c => g[j] = f[j] + (IF j = d THEN up ELSE 0)
      BY <2>5, <3>2, <3>3
    <3> QED
      BY <3>1, <3>4, <3>5
  <2> QED
    BY <2>2, <2>3, <2>6
<1>22. /\ fsEntry'[c] = new /\ fsEntry'[d][n] = c
       /\ \A j \in Inums : j # c /\ j # d => fsEntry'[j] = fsEntry[j]
       /\ \A m \in Slot : m # n => fsEntry'[d][m] = fsEntry[d][m]
  <2>1. fsEntry' = [fsEntry EXCEPT ![d][n] = c, ![c] = new]
    BY <1>4
  <2> QED
    BY <1>3, <1>5, <1>19, <2>1
<1>23. InodesTyped'
  <2>1. fsType' \in [Inums -> {"free", "file", "dir"}]
    BY <1>4, <1>18, <1>19
  <2>2. fsEntry' \in [Inums -> [Slot -> Some]]
    <3>1. fsEntry' = [fsEntry EXCEPT ![d][n] = c, ![c] = new]
      BY <1>4
    <3>2. [fsEntry[d] EXCEPT ![n] = c] \in [Slot -> Some]
      BY <1>3, <1>19 DEF Some
    <3> QED
      BY <1>3, <1>5, <1>18, <1>19, <3>1, <3>2
  <2> QED
    BY <1>21, <2>1, <2>2 DEF InodesTyped
<1>24. /\ fsEntry[c] = Tree!Empty /\ \A m \in FileName : fsEntry[c][m] = Nil
  BY <1>2, <1>4, TreeConstants DEF Unused, Tree!Empty, Slot
<1>25. \A f \in Edge \ {<<d, n>>} : fsEntry'[f[1]][f[2]] = fsEntry[f[1]][f[2]]
  <2> SUFFICES ASSUME NEW f \in Edge \ {<<d, n>>}
               PROVE  fsEntry'[f[1]][f[2]] = fsEntry[f[1]][f[2]]
    OBVIOUS
  <2>1. /\ f[1] \in Inums /\ f[2] \in FileName /\ f[2] \in Slot
        /\ f[1] # d \/ f[2] # n
    BY <1>3, <1>5, EdgesApart DEF Slot
  <2>2. CASE f[1] = c
    BY <1>18, <1>22, <1>24, <2>1, <2>2
  <2>3. CASE f[1] # c
    BY <1>22, <2>1, <2>3
  <2> QED
    BY <2>2, <2>3
<1>26. \A f \in Edge : fsEntry[f[1]][f[2]] # c
  BY <1>17, NamedBy
<1>27. \A j \in Inums : Named(j) \in Nat /\ Named(j)' = Named(j) + Bit(c, j)
  <2> SUFFICES ASSUME NEW j \in Inums PROVE Named(j) \in Nat /\ Named(j)' = Named(j) + Bit(c, j)
    OBVIOUS
  <2>1. Named(j)' = Named(j) + Bit(c, j) - Bit(Nil, j)
    <3>1. PICK e \in Edge : e = <<d, n>> /\ e[1] = d /\ e[2] = n
      BY <1>5
    <3>2. fsEntry'[e[1]][e[2]] = c /\ fsEntry[e[1]][e[2]] = Nil
      BY <1>4, <1>22, <3>1
    <3>3. Named(j)' = Named(j) + Bit(fsEntry'[e[1]][e[2]], j) - Bit(fsEntry[e[1]][e[2]], j)
      BY <1>25, <3>1, NamedChange
    <3> QED
      BY <3>2, <3>3
  <2>2. Bit(Nil, j) = 0
    BY TreeConstants DEF Bit
  <2> QED
    BY <2>1, <2>2, Counts, BitType
<1>28. \A j \in Inums : Subs(j) \in Nat /\ Subs(j)' = Subs(j) + (IF j = d THEN up ELSE 0)
  <2> SUFFICES ASSUME NEW j \in Inums
               PROVE  Subs(j) \in Nat /\ Subs(j)' = Subs(j) + (IF j = d THEN up ELSE 0)
    OBVIOUS
  <2>1. ASSUME NEW f \in Edge \ {<<d, n>>}
        PROVE  ParentAt(fsEntry', fsType')[f] = ParentAt(fsEntry, fsType)[f]
    <3>1. f[1] \in Inums /\ f[2] \in FileName /\ f[2] \in Slot
      BY <1>3, <1>5, EdgesApart DEF Slot
    <3>2. fsEntry[f[1]][f[2]] \in Some /\ fsEntry[f[1]][f[2]] # c
      BY <1>19, <1>26, <3>1
    <3>3. fsEntry[f[1]][f[2]] # Nil => fsType'[fsEntry[f[1]][f[2]]] = fsType[fsEntry[f[1]][f[2]]]
      BY <1>20, <3>2, SomeInum
    <3> QED
      BY <1>25, <3>3 DEF ParentAt
  <2>2. ParentAt(fsEntry, fsType)[<<d, n>>] = Nil
    BY <1>4, <1>5 DEF ParentAt
  <2>3. ParentAt(fsEntry', fsType')[<<d, n>>] = IF kind = "dir" THEN d ELSE Nil
    BY <1>5, <1>20, <1>22, TreeConstants DEF ParentAt
  <2>4. Subs(j)' = Subs(j) + Bit(IF kind = "dir" THEN d ELSE Nil, j) - Bit(Nil, j)
    BY <1>5, <2>1, <2>2, <2>3, SubsChange
  <2>5. Bit(Nil, j) = 0 /\ Bit(IF kind = "dir" THEN d ELSE Nil, j) = (IF j = d THEN up ELSE 0)
    BY <1>18, TreeConstants DEF Bit
  <2> QED
    BY <1>18, <2>4, <2>5, Counts
<1>29. InodesMove(p)
  <2>1. \A j \in Inums : fsType[j] = "dir" /\ Named(j) = 0 => Named(j)' = 0
    BY <1>4, <1>27 DEF Bit
  <2> QED
    BY <1>4, <1>9, <1>20, <1>22, <2>1, TreeConstants DEF InodesMove
<1>30. Covered'
  <2> SUFFICES ASSUME NEW j \in Inums
               PROVE  Named(j)' + Subs(j)' + Pend(j)' <= fsNlink'[j]
    BY DEF Covered
  <2>1. CASE j = c
    BY <1>5, <1>16, <1>17, <1>21, <1>27, <1>28, <2>1 DEF Bit
  <2>2. CASE j # c
    <3>1. Named(j) + Subs(j) + Pend(j) <= fsNlink[j] /\ fsNlink[j] \in Nat /\ Pend(j) \in Nat
      BY <1>2, <1>19, Counts DEF Covered
    <3>2. Named(j)' = Named(j)
      BY <1>27, <2>2 DEF Bit
    <3> QED
      BY <1>16, <1>18, <1>21, <1>27, <1>28, <2>2, <3>1, <3>2
  <2> QED
    BY <2>1, <2>2
<1>31. Unused'
  <2> SUFFICES ASSUME NEW j \in Inums
               PROVE  /\ fsType'[j] = "free" => fsNlink'[j] = 0
                      /\ fsType'[j] # "dir" => fsEntry'[j] = Tree!Empty
    BY DEF Unused
  <2>1. CASE j = c
    BY <1>18, <1>20, <1>22, <2>1
  <2>2. CASE j # c
    BY <1>2, <1>3, <1>18, <1>19, <1>20, <1>21, <1>22, <2>2 DEF Unused
  <2> QED
    BY <2>1, <2>2
<1>32. Rooted'
  <2>1. Root # c
    BY <1>2, <1>4 DEF Rooted
  <2>2. Named(Root)' = 0
    BY <1>2, <1>27, <2>1, TreeConstants DEF Rooted, Bit
  <2>3. fsEntry'[Root][".."] = fsEntry[Root][".."]
    BY <1>5, <1>22, <2>1, TreeConstants DEF Slot
  <2> QED
    BY <1>2, <1>20, <2>1, <2>2, <2>3, TreeConstants DEF Rooted
<1>33. Directories'
  <2> SUFFICES ASSUME NEW j \in Inums, fsType'[j] = "dir"
               PROVE  /\ fsEntry'[j]["."] = j /\ fsEntry'[j][".."] \in Inums
                      /\ Named(j)' <= 1
                      /\ \A e \in Edge : fsEntry'[e[1]][e[2]] = j => fsEntry'[j][".."] = e[1]
                      /\ j = Root \/ Named(j)' # 0 => fsNlink'[j] = 1 + Subs(j)'
    BY DEF Directories
  <2>1. CASE j = c
    <3>1. kind = "dir" /\ fsEntry'[j]["."] = j /\ fsEntry'[j][".."] = d
      BY <1>18, <1>20, <1>22, <2>1
    <3>2. Named(j)' = 1 /\ Subs(j)' = 0 /\ fsNlink'[j] = 1
      BY <1>5, <1>17, <1>21, <1>27, <1>28, <2>1 DEF Bit
    <3>3. ASSUME NEW e \in Edge, fsEntry'[e[1]][e[2]] = j PROVE d = e[1]
      <4>1. e = <<d, n>>
        BY <1>25, <1>26, <2>1, <3>3
      <4> QED
        BY <4>1
    <3> QED
      BY <1>3, <3>1, <3>2, <3>3
  <2>2. CASE j # c
    <3>1. fsType[j] = "dir"
      BY <1>20, <2>2
    <3>2. /\ Named(j) <= 1 /\ fsEntry[j]["."] = j /\ fsEntry[j][".."] \in Inums
          /\ \A e \in Edge : fsEntry[e[1]][e[2]] = j => fsEntry[j][".."] = e[1]
          /\ j = Root \/ Named(j) # 0 => fsNlink[j] = 1 + Subs(j)
      BY <1>2, <3>1 DEF Directories
    <3>3. fsEntry'[j]["."] = fsEntry[j]["."] /\ fsEntry'[j][".."] = fsEntry[j][".."]
      BY <1>5, <1>22, <2>2 DEF Slot
    <3>4. \A e \in Edge : fsEntry'[e[1]][e[2]] = j => fsEntry[e[1]][e[2]] = j
      <4> SUFFICES ASSUME NEW e \in Edge, fsEntry'[e[1]][e[2]] = j
                   PROVE  fsEntry[e[1]][e[2]] = j
        OBVIOUS
      <4>1. e # <<d, n>>
        BY <1>22, <2>2
      <4> QED
        BY <1>25, <4>1
    <3>5. Named(j)' = Named(j)
      BY <1>27, <2>2 DEF Bit
    <3>6. fsNlink[j] = 1 + Subs(j) => fsNlink'[j] = 1 + Subs(j)'
      BY <1>18, <1>19, <1>21, <1>28, <2>2
    <3> QED
      BY <3>2, <3>3, <3>4, <3>5, <3>6
  <2> QED
    BY <2>1, <2>2
<1>34. TreeInv'
  BY <1>10, <1>15, <1>23, <1>29, <1>30, <1>31, <1>32, <1>33, StepInv
<1>35. Exact => Exact'
  <2> SUFFICES ASSUME Exact, NEW j \in Inums \ {Root}, fsType'[j] # "free"
               PROVE  fsNlink'[j] = Named(j)' + Subs(j)' + Pend(j)'
    BY DEF Exact
  <2>1. CASE j = c
    BY <1>5, <1>16, <1>17, <1>21, <1>27, <1>28, <2>1 DEF Bit
  <2>2. CASE j # c
    <3>1. fsNlink[j] = Named(j) + Subs(j) + Pend(j)
      BY <1>20, <2>2 DEF Exact
    <3>2. Named(j)' = Named(j) /\ Named(j) \in Nat /\ Pend(j) \in Nat
      BY <1>27, <2>2, Counts DEF Bit
    <3> QED
      BY <1>16, <1>18, <1>21, <1>28, <2>2, <3>1, <3>2
  <2> QED
    BY <2>1, <2>2
<1>36. \A j \in Inums : Named(j) # 0 => Named(j)' # 0
  BY <1>27, BitType
<1>37. Populated /\ Reached => Populated'
  <2> SUFFICES ASSUME Populated, Reached, NEW x \in Inums, NEW m \in FileName,
                      fsEntry'[x][m] # Nil
               PROVE  x = Root \/ Named(x)' # 0
    BY DEF Populated, Seen
  <2>1. CASE x = d
    BY <1>3, <1>36, <2>1 DEF Reached, Seen, q, d
  <2>2. CASE x = c
    BY <1>18, <1>22, <2>2
  <2>3. CASE x # d /\ x # c
    BY <1>22, <1>36, <2>3 DEF Populated, Seen
  <2> QED
    BY <2>1, <2>2, <2>3
<1> QED
  BY <1>34, <1>35, <1>36, <1>37 DEF Tallied

-----------------------------------------------------------------------------
(* The invariant holds at the start, is kept by every step, and implies the parts of  *)
(* DirectoriesCorrect that hold in every part.                                        *)

LEMMA StepOfInv ==
  ASSUME TreeInv, NEW p \in Caller, NEW calls, calls \subseteq Tree!Calls,
         NEW paths, paths \subseteq Rest, Tree!Step(p, calls, paths)
  PROVE  TreeInv' /\ Tallied(p)
<1>1. Locals /\ Own(p)
  BY DEF TreeInv
<1>2. ASSUME NEW sys \in calls, NEW path \in paths, NEW new \in paths,
             Tree!SystemCall(p, sys, path, new)
      PROVE  TreeInv' /\ Tallied(p)
  BY <1>1, <1>2, SystemCallQuiet, QuietInv
<1>3. CASE Tree!Close(p)
  BY <1>1, <1>3, CloseQuiet, QuietInv
<1>4. CASE Tree!Walk(p)
  BY <1>1, <1>4, WalkQuiet, QuietInv
<1>5. CASE Tree!WalkEmpty(p)
  BY <1>1, <1>5, WalkEmptyQuiet, QuietInv
<1>6. CASE Tree!Iput(p)
  BY <1>1, <1>6, IputQuiet, IputFreeInv, QuietInv
<1>7. CASE Tree!IputDrop(p)
  BY <1>1, <1>7, DropQuiet, QuietInv
<1>8. CASE Tree!Got(p)
  BY <1>1, <1>8, GotCases, LinkCountedInv, QuietInv
<1>9. CASE Tree!Link(p)
  BY <1>1, <1>9, LinkQuiet, LinkNewInv, QuietInv
<1>10. CASE Tree!LinkBad(p)
  BY <1>1, <1>10, LinkBadQuiet, QuietInv
<1>11. CASE Tree!UnlinkNew(p)
  BY <1>11, UnlinkNewInv
<1>12. CASE Tree!Unlink(p)
  BY <1>1, <1>12, UnlinkQuiet, QuietInv
<1>13. CASE Tree!UnlinkEntry(p)
  <2>1. CASE fsType[fsProc[p].child] = "dir" /\ ~ Tree!IsDirEmpty(fsProc[p].child)
    BY <1>1, <1>13, <2>1, UnlinkFullQuiet, QuietInv
  <2>2. CASE ~ (fsType[fsProc[p].child] = "dir" /\ ~ Tree!IsDirEmpty(fsProc[p].child))
    BY <1>13, <2>2, UnlinkEntryInv
  <2> QED
    BY <2>1, <2>2
<1>14. CASE Tree!UnlinkBad(p)
  BY <1>1, <1>14, UnlinkBadQuiet, QuietInv
<1>15. CASE Tree!UnlinkInode(p)
  BY <1>15, UnlinkInodeInv
<1>16. CASE Tree!CreateExisting(p)
  BY <1>1, <1>16, CreateExistingQuiet, QuietInv
<1>17. CASE Tree!Exists(p)
  BY <1>1, <1>17, ExistsQuiet, QuietInv
<1>18. CASE Tree!Created(p)
  BY <1>1, <1>18, CreatedQuiet, QuietInv
<1>19. ASSUME NEW c \in Inums, Tree!CreateNew(p, c)
       PROVE  TreeInv' /\ Tallied(p)
  BY <1>19, CreateNewInv
<1> QED
  BY <1>2, <1>3, <1>4, <1>5, <1>6, <1>7, <1>8, <1>9, <1>10, <1>11, <1>12, <1>13, <1>14,
     <1>15, <1>16, <1>17, <1>18, <1>19 DEF Tree!Step, Tree!InCall, Inums

LEMMA SameTree == ASSUME TreeInv, UNCHANGED fsVars PROVE TreeInv'
BY DEF TreeInv, fsVars, Locals, RefsExact, Covered, Unused, Rooted, Directories, Own, Named,
       Subs, Pend, Refs, Tree!TypeOK

LEMMA TreeStepInv == ASSUME TreeInv, TreeStep \/ UNCHANGED fsVars, part \in TreePart PROVE TreeInv'
<1>1. {"create", "unlink", "link", "open"} \subseteq Tree!Calls
      /\ {"mkdir", "unlink", "chdir", "link"} \subseteq Tree!Calls
      /\ Tree!Calls \ {"chdir"} \subseteq Tree!Calls
  BY DEF Tree!Calls
<1>2. /\ Tree!PathsOf(FileName, 1) \subseteq Rest
      /\ Tree!PathsOf(DirName, PathLen) \subseteq Rest
      /\ Tree!PathsOf(FileName \cup {".."}, PathLen) \subseteq Rest
  <2>1. 1 \in 1 .. PathLen /\ PathLen \in 1 .. PathLen
    BY TreeConstants
  <2>2. FileName \subseteq Slot /\ DirName \subseteq Slot /\ FileName \cup {".."} \subseteq Slot
    BY TreeConstants DEF Slot
  <2> QED
    BY <2>1, <2>2, PathsAre
<1>3. CASE UNCHANGED fsVars
  BY <1>3, SameTree
<1>4. CASE TreeStep
  <2>1. CASE part = "calls"
    BY <1>1, <1>2, <1>4, <2>1, StepOfInv DEF TreeStep, Tree!Next
  <2>2. CASE part = "dirs"
    BY <1>1, <1>2, <1>4, <2>2, StepOfInv DEF TreeStep, Tree!Next
  <2>3. CASE part = "counts"
    BY <1>1, <1>2, <1>4, <2>3, StepOfInv DEF TreeStep, Tree!NextAlone
  <2> QED
    BY <2>1, <2>2, <2>3 DEF TreePart
<1> QED
  BY <1>3, <1>4

LEMMA TreeIsCorrect ==
  ASSUME TreeInv
  PROVE  /\ Tree!TypeOK /\ Tree!RefsCounted
         /\ Tree!NamedIsUsed /\ Tree!LinksCovered /\ Tree!UnlinkFindsLink
         /\ Tree!DirectoryTree /\ Tree!DirLinksCounted
<1>1. /\ Tree!TypeOK /\ RefsExact /\ Covered /\ Unused /\ Rooted /\ Directories
      /\ \A p \in Caller : Own(p) /\ Shape(fsProc[p])
  BY DEF TreeInv, Locals
<1>2. /\ fsNlink \in [Inums -> Nat] /\ fsType \in [Inums -> {"free", "file", "dir"}]
  BY <1>1, LocalsType
<1>3. \A i \in Inums : /\ Named(i) \in Nat /\ Subs(i) \in Nat /\ Pend(i) \in Nat
                       /\ fsNlink[i] \in Nat
                       /\ Named(i) + Subs(i) + Pend(i) <= fsNlink[i]
  BY <1>1, <1>2, Counts DEF Covered
<1>4. Tree!RefsCounted
  BY <1>1, RefsAre DEF Tree!RefsCounted, RefsExact, Inums
<1>5. Tree!NamedIsUsed
  BY <1>1, <1>3, LinksAre DEF Tree!NamedIsUsed, Unused, Inums
<1>6. Tree!LinksCovered
  BY <1>3, LinksAre DEF Tree!LinksCovered, Inums
<1>7. Tree!UnlinkFindsLink
  <2> SUFFICES ASSUME NEW p \in Caller, Tree!At(p, "unlink")
               PROVE  fsNlink[fsProc[p].child] > 0
    BY DEF Tree!UnlinkFindsLink
  <2> DEFINE r == fsProc[p]
  <2>1. r.pc = "unlink" /\ r.ip \in Inums /\ r.child \in Inums
    BY <1>1, LocalsOf, SomeInum DEF Tree!At, Shape
  <2>2. fsEntry[r.ip][Head(r.path)] = r.child /\ Head(r.path) \in FileName
    BY <1>1, <2>1 DEF Own
  <2>3. PICK e \in Edge : e = <<r.ip, Head(r.path)>>
    BY <2>1, <2>2 DEF Edge
  <2>4. Named(r.child) >= 1
    <3>1. fsEntry[e[1]][e[2]] = r.child
      BY <2>2, <2>3
    <3> QED
      BY <3>1, NamedBy
  <2> QED
    BY <1>3, <2>1, <2>4
<1>8. Tree!DirectoryTree
  <2> SUFFICES ASSUME NEW i \in Inums, fsType[i] = "dir"
               PROVE  /\ Tree!Cardinality(Tree!Links(i)) <= 1
                      /\ \A e \in Tree!Links(i) : fsEntry[i][".."] = e[1]
                      /\ i = Root => Tree!Links(i) = {}
    BY DEF Tree!DirectoryTree, Inums
  <2>1. Named(i) <= 1 /\ \A e \in Edge : fsEntry[e[1]][e[2]] = i => fsEntry[i][".."] = e[1]
    BY <1>1 DEF Directories
  <2>2. Tree!Links(i) = {e \in Edge : fsEntry[e[1]][e[2]] = i}
    BY DEF Tree!Links, Edge, Inums
  <2>3. i = Root => Named(i) = 0
    BY <1>1 DEF Rooted
  <2> QED
    BY <2>1, <2>2, <2>3, LinksAre
<1>9. Tree!DirLinksCounted
  <2> SUFFICES ASSUME NEW i \in Inums, fsType[i] = "dir", i = Root \/ Tree!Links(i) # {}
               PROVE  fsNlink[i] = 1 + Tree!Cardinality(Tree!Subdirs(i))
    BY DEF Tree!DirLinksCounted, Inums
  <2>1. fsNlink[i] = 1 + Subs(i)
    BY <1>1, LinksAre DEF Directories
  <2> QED
    BY <1>1, <2>1, SubdirsAre
<1> QED
  BY <1>1, <1>4, <1>5, <1>6, <1>7, <1>8, <1>9

-----------------------------------------------------------------------------
(* The initial state: an empty root, where every process is                           *)

LEMMA TreeStarts ==
  ASSUME Tree!Init
  PROVE  /\ TreeInv /\ Exact /\ Populated /\ Reached
         /\ \A p \in Caller : /\ Tree!At(p, "user") /\ fsProc[p].file = Nil
                              /\ fsProc[p].cwd = Root /\ fsProc[p].call = "none"
<1> DEFINE idle == [call |-> "none", pc |-> "user", path |-> <<>>, new |-> <<>>, ip |-> Nil,
                    child |-> Nil, old |-> Nil, puts |-> <<>>, drop |-> FALSE,
                    cwd |-> Root, file |-> Nil]
<1>1. /\ fsType = [i \in Inums |-> IF i = Root THEN "dir" ELSE "free"]
      /\ fsNlink = [i \in Inums |-> IF i = Root THEN 1 ELSE 0]
      /\ fsEntry = [i \in Inums |-> IF i = Root
                                    THEN [Tree!Empty EXCEPT !["."] = i, ![".."] = i]
                                    ELSE Tree!Empty]
      /\ fsRef = [i \in Inums |-> IF i = Root THEN Cardinality(Caller) ELSE 0]
      /\ fsLock = [i \in Inums |-> Nil]
      /\ fsProc = [p \in Caller |-> idle]
  BY TreeLibrary DEF Tree!Init, Inums
<1>2. /\ idle.call = "none" /\ idle.pc = "user" /\ idle.old = Nil /\ idle.puts = <<>>
      /\ ~ idle.drop /\ idle.cwd = Root /\ idle.file = Nil
  OBVIOUS
<1>3. idle \in Tree!Locals
  BY TreeConstants, PutsAre, LocalsAre DEF Call, Pc, Rest, Some
<1> HIDE DEF idle
<1>4. \A p \in Caller : fsProc[p] = idle
  BY <1>1
<1>5. /\ Tree!Empty \in [Slot -> Some] /\ Root \in Inums
      /\ \A n \in FileName : Tree!Empty[n] = Nil
  BY TreeConstants DEF Tree!Empty, Slot, Some
<1>6. /\ \A i \in Inums : fsEntry[i] \in [Slot -> Some]
      /\ \A i \in Inums, n \in FileName : fsEntry[i][n] = Nil
      /\ \A i \in Inums : i # Root => fsEntry[i] = Tree!Empty
      /\ fsEntry[Root]["."] = Root /\ fsEntry[Root][".."] = Root
  BY <1>1, <1>5, TreeConstants DEF Slot, Some
<1>7. Cardinality(Caller) \in Nat
  BY TreeConstants, FS_CardinalityType
<1>8. Tree!TypeOK
  <2>1. /\ fsType \in [Inums -> {"free", "file", "dir"}] /\ fsNlink \in [Inums -> Nat]
        /\ fsRef \in [Inums -> Nat] /\ fsLock \in [Inums -> Caller \cup {Nil}]
        /\ fsProc \in [Caller -> Tree!Locals]
    BY <1>1, <1>3, <1>7
  <2>2. fsEntry \in [Inums -> [Slot -> Some]]
    BY <1>1, <1>6
  <2> QED
    BY <2>1, <2>2, TreeConstants DEF Tree!TypeOK, Inums, Some
<1>9. Locals
  <2>1. Shape(idle)
    BY <1>2, PutsAre, TreeConstants DEF Shape
  <2> QED
    BY <1>4, <1>8, <2>1 DEF Locals
<1>10. \A i \in Inums : Named(i) = 0 /\ Subs(i) = 0 /\ Pend(i) = 0
  <2> SUFFICES ASSUME NEW i \in Inums PROVE Named(i) = 0 /\ Subs(i) = 0 /\ Pend(i) = 0
    OBVIOUS
  <2>1. \A e \in Edge : EntryAt(fsEntry)[e] # i /\ ParentAt(fsEntry, fsType)[e] # i
    BY <1>6, TreeConstants DEF EntryAt, ParentAt, Edge
  <2>2. \A p \in Caller : PendingAt(fsProc)[p] # i
    BY <1>2, <1>4, TreeConstants DEF PendingAt, PendingOf
  <2> QED
    BY <2>1, <2>2, CountNat, EdgesFinite, TreeConstants DEF Named, Subs, Pend
<1>11. RefsExact
  <2> SUFFICES ASSUME NEW i \in Inums PROVE fsRef[i] = Refs(i)
    BY DEF RefsExact
  <2>1. /\ HeldOf(idle).cwd = Root /\ HeldOf(idle).file = Nil /\ HeldOf(idle).old = Nil
        /\ HeldOf(idle).ip = Nil /\ HeldOf(idle).child = Nil /\ HeldOf(idle).put = Nil
        /\ HeldOf(idle).next = Nil
    BY <1>2, PutsOf DEF HeldOf, IpOf, ChildOf
  <2>2. Tree!Place = {"cwd", "file", "old", "ip", "child", "put", "next"}
    BY DEF Tree!Place
  <2>3. ASSUME NEW p \in Caller, NEW a \in Tree!Place
        PROVE  HeldAt(fsProc)[<<p, a>>] = IF a = "cwd" THEN Root ELSE Nil
    <3>1. <<p, a>> \in Spot /\ HeldAt(fsProc)[<<p, a>>] = HeldOf(idle)[a]
      BY <1>4 DEF HeldAt, Spot
    <3>2. HeldOf(idle)[a] = IF a = "cwd" THEN Root ELSE Nil
      BY <2>1, <2>2
    <3> QED
      BY <3>1, <3>2
  <2>4. CASE i = Root
    <3>1. {h \in Spot : HeldAt(fsProc)[h] = i} = Caller \X {"cwd"}
      <4>1. ASSUME NEW h \in Spot PROVE HeldAt(fsProc)[h] = i <=> h \in Caller \X {"cwd"}
        <5>1. PICK p \in Caller, a \in Tree!Place : h = <<p, a>>
          BY DEF Spot
        <5>2. HeldAt(fsProc)[h] = IF a = "cwd" THEN Root ELSE Nil
          BY <2>3, <5>1
        <5>3. HeldAt(fsProc)[h] = i <=> a = "cwd"
          BY <2>4, <5>2, TreeConstants
        <5> QED
          BY <5>1, <5>3
      <4>2. Caller \X {"cwd"} \subseteq Spot
        BY <2>2 DEF Spot
      <4> QED
        BY <4>1, <4>2
    <3>2. IsFiniteSet({"cwd"}) /\ Cardinality({"cwd"}) = 1
      BY FS_Singleton
    <3>3. Cardinality(Caller \X {"cwd"}) = Cardinality(Caller) * 1
      BY <3>2, TreeConstants, FS_Product
    <3> QED
      BY <1>1, <1>7, <2>4, <3>1, <3>3 DEF Refs, Count
  <2>5. CASE i # Root
    <3>1. \A h \in Spot : HeldAt(fsProc)[h] # i
      BY <2>3, <2>5, TreeConstants DEF Spot
    <3> QED
      BY <1>1, <2>5, <3>1, CountNat, SpotsFinite DEF Refs
  <2> QED
    BY <2>4, <2>5
<1>12. Covered /\ Unused /\ Rooted
  BY <1>1, <1>5, <1>6, <1>10 DEF Covered, Unused, Rooted
<1>13. Directories
  <2>1. \A i \in Inums : fsType[i] = "dir" => i = Root
    BY <1>1
  <2>2. \A e \in Edge : fsEntry[e[1]][e[2]] # Root
    BY <1>6, TreeConstants DEF Edge
  <2>3. fsNlink[Root] = 1 /\ Named(Root) = 0 /\ Subs(Root) = 0
    BY <1>1, <1>5, <1>10
  <2>4. fsNlink[Root] = 1 + Subs(Root) /\ Named(Root) <= 1
    BY <2>3
  <2> SUFFICES ASSUME NEW i \in Inums, fsType[i] = "dir"
               PROVE  /\ fsEntry[i]["."] = i /\ fsEntry[i][".."] \in Inums
                      /\ Named(i) <= 1
                      /\ \A e \in Edge : fsEntry[e[1]][e[2]] = i => fsEntry[i][".."] = e[1]
                      /\ i = Root \/ Named(i) # 0 => fsNlink[i] = 1 + Subs(i)
    BY DEF Directories
  <2> QED
    BY <1>5, <1>6, <2>1, <2>2, <2>4
<1>14. \A p \in Caller : Own(p)
  BY <1>2, <1>4 DEF Own
<1>15. Exact /\ Populated /\ Reached
  BY <1>1, <1>2, <1>4, <1>6 DEF Exact, Populated, Reached
<1> QED
  BY <1>2, <1>4, <1>9, <1>11, <1>12, <1>13, <1>14, <1>15 DEF TreeInv, Tree!At

-----------------------------------------------------------------------------
(* The calls of one process at a time, without chdir()                                *)

AtRest(p) == Tree!At(p, "user") /\ fsProc[p].file = Nil
Homes == \A p \in Caller : fsProc[p].cwd = Root /\ fsProc[p].call # "chdir"
Serial == TreeInv /\ Homes /\ Exact /\ Populated /\ Reached

\* what a step of p leaves of its locals
Others(p) == \A x \in Caller \ {p} : fsProc'[x] = fsProc[x]
AtHome(p) == /\ fsProc'[p].cwd = fsProc[p].cwd
             /\ fsProc'[p].call \in {fsProc[p].call, "none"}
Settles(p) == Others(p) /\ AtHome(p) /\ fsProc'[p].pc \notin {"walk", "parent"}

\* where namex() comes to: the start of a path, the inode it is at, or one named in it
Arrives(p) ==
  LET q == fsProc[p]
      r == fsProc'[p] IN
  \/ r.ip = Root
  \/ /\ r.ip = q.ip /\ q.pc \in {"walk", "parent"}
     /\ fsType'[q.ip] = "dir" => fsType[q.ip] = "dir"
  \/ /\ q.pc = "walk" /\ q.path \in Paths /\ q.ip \in Inums /\ fsType[q.ip] = "dir"
     /\ r.ip = fsEntry[q.ip][Head(q.path)] /\ r.ip \in Inums
     /\ UNCHANGED <<fsType, fsEntry>>

LEMMA Settled ==
  ASSUME Tree!TypeOK, NEW p \in Caller, NEW puts \in Puts,
         \/ Tree!Become(p, Tree!Return(p, puts))
         \/ \E file \in Some : Tree!Become(p, [Tree!Return(p, puts) EXCEPT !.file = file])
         \/ \E pc \in Pc \ {"walk", "parent"} :
              \/ Tree!Become(p, Tree!Continue(p, pc, puts))
              \/ \E child \in Some :
                   Tree!Become(p, [Tree!Continue(p, pc, puts) EXCEPT !.child = child])
  PROVE  Settles(p)
<1> DEFINE q == fsProc[p]
<1>1. fsProc \in [Caller -> Tree!Locals]
  BY LocalsType
<1>2. \/ \E file : Leaves(p, q.cwd, file, puts)
      \/ \E pc \in Pc \ {"walk", "parent"} : \E child : Goes(p, pc, q.path, q.ip, child, puts)
  <2>1. CASE Tree!Become(p, Tree!Return(p, puts))
    BY <2>1, Returns
  <2>2. ASSUME NEW file \in Some, Tree!Become(p, [Tree!Return(p, puts) EXCEPT !.file = file])
        PROVE  Leaves(p, q.cwd, file, puts)
    <3>1. \A f \in Some : Tree!Become(p, [Tree!Return(p, puts) EXCEPT !.file = f])
                            => Leaves(p, fsProc[p].cwd, f, puts)
      BY Returns, ZenonT(30)
    <3> QED
      BY <2>2, <3>1, ZenonT(30)
  <2>3. ASSUME NEW pc \in Pc \ {"walk", "parent"}, Tree!Become(p, Tree!Continue(p, pc, puts))
        PROVE  Goes(p, pc, q.path, q.ip, q.child, puts)
    <3>1. Tree!Become(p, Tree!Continue(p, pc, puts))
            => Goes(p, pc, fsProc[p].path, fsProc[p].ip, fsProc[p].child, puts)
      BY Continues, ZenonT(30)
    <3> QED
      BY <2>3, <3>1
  <2>4. ASSUME NEW pc \in Pc \ {"walk", "parent"}, NEW child \in Some,
               Tree!Become(p, [Tree!Continue(p, pc, puts) EXCEPT !.child = child])
        PROVE  Goes(p, pc, q.path, q.ip, child, puts)
    <3>1. \A c \in Some : Tree!Become(p, [Tree!Continue(p, pc, puts) EXCEPT !.child = c])
                            => Goes(p, pc, fsProc[p].path, fsProc[p].ip, c, puts)
      BY Continues, ZenonT(30)
    <3> QED
      BY <2>4, <3>1, ZenonT(30)
  <2> QED
    BY <2>1, <2>2, <2>3, <2>4
<1>3. /\ fsProc' = [fsProc EXCEPT ![p] = fsProc'[p]]
      /\ fsProc'[p].cwd = q.cwd /\ fsProc'[p].call \in {q.call, "none"}
      /\ fsProc'[p].pc \notin {"walk", "parent"}
  BY <1>2 DEF Leaves, Goes
<1>4. Others(p)
  BY <1>1, <1>3 DEF Others
<1> QED
  BY <1>3, <1>4 DEF Settles, AtHome

LEMMA StartsHome ==
  ASSUME Tree!TypeOK, NEW p \in Caller, NEW sys, NEW path, NEW new, NEW old,
         fsProc[p].cwd = Root, Tree!StartWalk(p, [fsProc[p] EXCEPT !.call = sys, !.old = old,
                                                                   !.new = new], path)
  PROVE  /\ Others(p) /\ fsProc'[p].cwd = Root /\ fsProc'[p].ip = Root
         /\ fsProc'[p].call = sys
<1>1. fsProc \in [Caller -> Tree!Locals]
  BY LocalsType
<1>2. PICK q \in Tree!Locals : q = fsProc[p]
  BY <1>1
<1>3. PICK r : r = [[q EXCEPT !.call = sys, !.old = old, !.new = new]
                      EXCEPT !.pc = "walk", !.path = path, !.ip = Root]
  OBVIOUS
<1>4. fsProc' = [fsProc EXCEPT ![p] = r]
  BY <1>2, <1>3 DEF Tree!StartWalk, Tree!Become
<1>5. r.cwd = q.cwd /\ r.ip = Root /\ r.call = sys
  BY <1>3, LocalsAre
<1> QED
  BY <1>1, <1>2, <1>4, <1>5 DEF Others

Follows(p) ==
  /\ Others(p) /\ fsProc'[p].cwd = Root /\ fsProc'[p].call # "chdir"
  /\ fsProc'[p].pc \in {"walk", "parent"} => Arrives(p)

LEMMA StepOfLocals ==
  ASSUME TreeInv, NEW p \in Caller, Homes, NEW calls, calls \subseteq Tree!Calls \ {"chdir"},
         NEW paths, paths \subseteq Rest, Tree!Step(p, calls, paths)
  PROVE  Follows(p)
<1> DEFINE q == fsProc[p]
           r == fsProc'[p]
<1>1. /\ Locals /\ Tree!TypeOK /\ Shape(q) /\ Own(p) /\ q.cwd = Root /\ q.call # "chdir"
      /\ q \in Tree!Locals /\ fsProc \in [Caller -> Tree!Locals]
  BY LocalsType DEF TreeInv, Locals, Homes
<1>2. /\ q.file \in Some /\ q.ip \in Some /\ q.child \in Some /\ q.old \in Some
      /\ q.path \in Rest /\ q.puts \in Puts
  BY <1>1, LocalsOf
<1>3. Settles(p) => Follows(p)
  BY <1>1 DEF Settles, AtHome, Follows
<1>4. ASSUME NEW sys \in calls, NEW path \in paths, NEW new \in paths,
             Tree!SystemCall(p, sys, path, new)
      PROVE  Follows(p)
  <2>1. [q EXCEPT !.call = sys, !.new = new]
          = [q EXCEPT !.call = sys, !.old = q.old, !.new = new]
    BY <1>1, LocalsAre
  <2>2. Tree!StartWalk(p, [q EXCEPT !.call = sys, !.old = q.old, !.new = new], path)
    BY <1>4, <2>1 DEF Tree!SystemCall
  <2>3. Others(p) /\ r.cwd = Root /\ r.ip = Root /\ r.call = sys
    BY <1>1, <2>2, StartsHome, ZenonT(30)
  <2> QED
    BY <2>3 DEF Arrives, Follows
<1>5. CASE Tree!Close(p)
  <2>1. q.file \in Inums /\ Nil \in Some /\ <<q.file>> \in Puts
    BY <1>2, <1>5, SomeInum, PutsAre DEF Tree!Close, Some
  <2>2. Tree!Become(p, [Tree!Return(p, <<q.file>>) EXCEPT !.file = Nil])
    BY <1>5 DEF Tree!Close
  <2>3. Settles(p)
    BY <1>1, <2>1, <2>2, Settled, ZenonT(30)
  <2> QED
    BY <1>3, <2>3
<1>6. ASSUME NEW i \in Inums, Tree!Become(p, Tree!Fail(p, <<i>>))
      PROVE  Follows(p)
  <2>1. <<i>> \in Puts /\ "unlinknew" \in Pc \ {"walk", "parent"}
    BY PutsAre DEF Pc
  <2>2. Settles(p)
    BY <1>1, <1>6, <2>1, Settled DEF Tree!Fail
  <2> QED
    BY <1>3, <2>2
<1>7. CASE Tree!Walk(p)
  <2>1. q.pc = "walk" /\ q.ip \in Inums /\ q.path \in Paths /\ q.puts = <<>>
    BY <1>1, <1>2, <1>7, SomeInum DEF Tree!Walk, Tree!At, Shape, Rest
  <2>2. Head(q.path) \in Slot /\ Tail(q.path) \in Rest
    BY <2>1, RestOfPath DEF Rest
  <2> DEFINE next == fsEntry[q.ip][Head(q.path)]
             pc == IF Len(q.path) = 1 THEN "got" ELSE "walk"
  <2>3. next \in Some /\ pc \in Pc
    BY <1>1, <2>1, <2>2, LocalsType DEF Pc
  <2>4. UNCHANGED <<fsType, fsEntry>>
    BY <1>7 DEF Tree!Walk
  <2>5. \/ Tree!Become(p, Tree!Fail(p, <<q.ip>>))
        \/ Tree!Become(p, Tree!Continue(p, "parent", <<>>))
        \/ /\ fsType[q.ip] = "dir" /\ next # Nil
           /\ Tree!Become(p, [Tree!Continue(p, pc, <<q.ip>>)
                                EXCEPT !.ip = next, !.path = Tail(q.path)])
    BY <1>7 DEF Tree!Walk
  <2>6. CASE Tree!Become(p, Tree!Continue(p, "parent", <<>>))
    <3>1. "parent" \in Pc /\ <<>> \in Puts
      BY PutsAre DEF Pc
    <3>2. Tree!Become(p, Tree!Continue(p, "parent", <<>>))
            => Goes(p, "parent", fsProc[p].path, fsProc[p].ip, fsProc[p].child, <<>>)
      BY <1>1, <3>1, Continues, ZenonT(30)
    <3>3. /\ fsProc' = [fsProc EXCEPT ![p] = r] /\ r.ip = q.ip
          /\ r.cwd = q.cwd /\ r.call = q.call
      BY <2>6, <3>2 DEF Goes
    <3>4. Arrives(p)
      BY <2>1, <2>4, <3>3 DEF Arrives
    <3> HIDE DEF q, r
    <3> QED
      BY <1>1, <3>3, <3>4 DEF Others, Follows, q, r
  <2>7. CASE /\ fsType[q.ip] = "dir" /\ next # Nil
             /\ Tree!Become(p, [Tree!Continue(p, pc, <<q.ip>>)
                                  EXCEPT !.ip = next, !.path = Tail(q.path)])
    <3>1. <<q.ip>> \in Puts /\ next \in Inums
      BY <2>1, <2>3, <2>7, PutsAre, SomeInum
    <3> HIDE DEF next, pc
    <3>2. \A path \in Rest, ip \in Some :
              Tree!Become(p, [Tree!Continue(p, pc, <<q.ip>>) EXCEPT !.ip = ip, !.path = path])
                => Goes(p, pc, path, ip, fsProc[p].child, <<q.ip>>)
      BY <1>1, <2>3, <3>1, Continues, ZenonT(30)
    <3>3. Goes(p, pc, Tail(q.path), next, q.child, <<q.ip>>)
      BY <2>2, <2>3, <2>7, <3>2, ZenonT(30)
    <3>4. /\ fsProc' = [fsProc EXCEPT ![p] = r] /\ r.ip = next
          /\ r.cwd = q.cwd /\ r.call = q.call
      BY <3>3 DEF Goes
    <3>5. Arrives(p)
      BY <2>1, <2>4, <2>7, <3>1, <3>4 DEF Arrives, next
    <3> HIDE DEF q, r
    <3> QED
      BY <1>1, <3>4, <3>5 DEF Others, Follows, q, r
  <2> QED
    BY <1>6, <2>1, <2>5, <2>6, <2>7
<1>8. CASE Tree!WalkEmpty(p)
  <2>1. q.ip \in Inums /\ <<>> \in Puts /\ "got" \in Pc \ {"walk", "parent"}
    BY <1>1, <1>2, <1>8, SomeInum, PutsAre DEF Tree!WalkEmpty, Tree!At, Shape, Pc
  <2>2. CASE Tree!Become(p, Tree!Fail(p, <<q.ip>>))
    BY <1>6, <2>1, <2>2
  <2>3. CASE Tree!Become(p, Tree!Continue(p, "got", <<>>))
    BY <1>1, <1>3, <2>1, <2>3, Settled
  <2> QED
    BY <1>8, <2>2, <2>3 DEF Tree!WalkEmpty
<1>9. CASE Tree!Iput(p) \/ Tree!IputDrop(p)
  <2>1. \/ Tree!Become(p, [q EXCEPT !.drop = TRUE])
        \/ Tree!Become(p, [q EXCEPT !.drop = FALSE, !.puts = Tail(@)])
    BY <1>9 DEF Tree!Iput, Tree!IputDrop
  <2>2. /\ fsProc' = [fsProc EXCEPT ![p] = r]
        /\ r = [q EXCEPT !.drop = TRUE] \/ r = [q EXCEPT !.drop = FALSE, !.puts = Tail(q.puts)]
    BY <1>1, <2>1 DEF Tree!Become
  <2>3. \A j \in Inums : fsType'[j] = "dir" => fsType[j] = "dir"
    BY <1>1, <1>9, LocalsType DEF Tree!Iput, Tree!IputDrop
  <2> HIDE DEF q, r
  <2>4. r.ip = q.ip /\ r.pc = q.pc /\ r.cwd = q.cwd /\ r.call = q.call
    BY <1>1, <2>2, LocalsAre
  <2>5. Others(p)
    BY <1>1, <2>2 DEF Others, q
  <2>6. q.pc = "walk" \/ q.pc = "parent" => q.ip \in Inums
    BY <1>1, <1>2, SomeInum DEF Shape
  <2>7. r.pc \in {"walk", "parent"} => Arrives(p)
    BY <2>3, <2>4, <2>6 DEF Arrives, q, r
  <2>8. r.cwd = Root /\ r.call # "chdir"
    BY <1>1, <2>4 DEF q
  <2> QED
    BY <2>5, <2>7, <2>8 DEF Follows, r
<1>10. CASE Tree!Got(p)
  <2>1. q.ip \in Inums /\ q.pc = "got"
    BY <1>1, <1>2, <1>10, SomeInum DEF Tree!Got, Tree!At, Shape
  <2>2. <<>> \in Puts /\ <<q.ip>> \in Puts /\ q.ip \in Some
    BY <1>2, <2>1, PutsAre
  <2>3. \/ \E file \in Some : Tree!Become(p, [Tree!Return(p, <<>>) EXCEPT !.file = file])
        \/ Tree!Become(p, Tree!Return(p, <<q.ip>>))
        \/ Tree!StartWalk(p, [q EXCEPT !.old = q.ip, !.new = <<>>], q.new)
    BY <1>1, <1>10, <2>2 DEF Tree!Got
  <2>4. CASE \/ \E file \in Some : Tree!Become(p, [Tree!Return(p, <<>>) EXCEPT !.file = file])
             \/ Tree!Become(p, Tree!Return(p, <<q.ip>>))
    BY <1>1, <1>3, <2>2, <2>4, Settled
  <2>5. CASE Tree!StartWalk(p, [q EXCEPT !.old = q.ip, !.new = <<>>], q.new)
    <3>1. [q EXCEPT !.old = q.ip, !.new = <<>>]
            = [q EXCEPT !.call = q.call, !.old = q.ip, !.new = <<>>]
      BY <1>1, LocalsAre
    <3>2. Tree!StartWalk(p, [q EXCEPT !.call = q.call, !.old = q.ip, !.new = <<>>], q.new)
      BY <2>5, <3>1
    <3>3. Others(p) /\ r.cwd = Root /\ r.ip = Root /\ r.call = q.call
      BY <1>1, <3>2, StartsHome, ZenonT(30)
    <3> QED
      BY <1>1, <3>3 DEF Arrives, Follows
  <2> QED
    BY <2>3, <2>4, <2>5
<1>11. CASE Tree!Link(p)
  <2>1. q.ip \in Inums /\ q.old \in Inums /\ fsEntry[q.ip][Head(q.path)] \in Some
    BY <1>1, <1>2, <1>11, AtParent, SomeInum DEF Tree!Link, Parents
  <2> DEFINE c == fsEntry[q.ip][Head(q.path)]
  <2>2. \/ Tree!Become(p, Tree!Return(p, <<q.ip, q.old>>))
        \/ c \in Inums /\ Tree!Become(p, Tree!Continue(p, "linkbad", <<c>>))
    BY <1>11, <2>1, SomeInum DEF Tree!Link
  <2> HIDE DEF c
  <2>3. /\ <<q.ip, q.old>> \in Puts /\ (c \in Inums => <<c>> \in Puts)
        /\ "linkbad" \in Pc \ {"walk", "parent"}
    BY <2>1, PutsAre DEF Pc
  <2>4. Settles(p)
    BY <1>1, <2>2, <2>3, Settled
  <2> QED
    BY <1>3, <2>4
<1>12. CASE Tree!LinkBad(p)
  <2>1. q.ip \in Inums /\ <<q.ip>> \in Puts /\ "unlinknew" \in Pc \ {"walk", "parent"}
    BY <1>1, <1>2, <1>12, SomeInum, PutsAre DEF Tree!LinkBad, Tree!At, Shape, Pc
  <2> QED
    BY <1>1, <1>3, <1>12, <2>1, Settled DEF Tree!LinkBad
<1>13. CASE Tree!UnlinkNew(p)
  <2>1. q.old \in Inums /\ <<q.old>> \in Puts
    BY <1>1, <1>2, <1>13, SomeInum, PutsAre DEF Tree!UnlinkNew, Tree!At, Shape
  <2> QED
    BY <1>1, <1>3, <1>13, <2>1, Settled DEF Tree!UnlinkNew
<1>14. CASE Tree!Unlink(p)
  <2>1. q.ip \in Inums /\ fsEntry[q.ip][Head(q.path)] \in Some
    BY <1>1, <1>14, AtParent DEF Tree!Unlink, Parents
  <2> DEFINE c == fsEntry[q.ip][Head(q.path)]
  <2>2. \/ Tree!Become(p, Tree!Return(p, <<q.ip>>))
        \/ Tree!Become(p, [Tree!Continue(p, "unlink", <<>>) EXCEPT !.child = c])
    BY <1>14 DEF Tree!Unlink
  <2>3. <<q.ip>> \in Puts /\ <<>> \in Puts /\ c \in Some /\ "unlink" \in Pc \ {"walk", "parent"}
    BY <2>1, PutsAre DEF Pc
  <2> HIDE DEF c
  <2>4. Settles(p)
    BY <1>1, <2>2, <2>3, Settled
  <2> QED
    BY <1>3, <2>4
<1>15. CASE Tree!UnlinkEntry(p)
  <2>1. q.ip \in Inums /\ q.child \in Inums
    BY <1>1, <1>2, <1>15, SomeInum DEF Tree!UnlinkEntry, Tree!At, Shape
  <2>2. /\ <<q.ip>> \in Puts /\ <<q.child>> \in Puts
        /\ "unlinkbad" \in Pc \ {"walk", "parent"} /\ "unlinked" \in Pc \ {"walk", "parent"}
    BY <2>1, PutsAre DEF Pc
  <2>3. \/ Tree!Become(p, Tree!Continue(p, "unlinkbad", <<q.child>>))
        \/ Tree!Become(p, Tree!Continue(p, "unlinked", <<q.ip>>))
    BY <1>15 DEF Tree!UnlinkEntry
  <2>4. Settles(p)
    BY <1>1, <2>2, <2>3, Settled
  <2> QED
    BY <1>3, <2>4
<1>16. CASE Tree!UnlinkBad(p)
  <2>1. q.ip \in Inums /\ <<q.ip>> \in Puts
    BY <1>1, <1>2, <1>16, SomeInum, PutsAre DEF Tree!UnlinkBad, Tree!At, Shape
  <2> QED
    BY <1>1, <1>3, <1>16, <2>1, Settled DEF Tree!UnlinkBad
<1>17. CASE Tree!UnlinkInode(p)
  <2>1. q.child \in Inums /\ <<q.child>> \in Puts
    BY <1>1, <1>2, <1>17, SomeInum, PutsAre DEF Tree!UnlinkInode, Tree!At, Shape
  <2> QED
    BY <1>1, <1>3, <1>17, <2>1, Settled DEF Tree!UnlinkInode
<1>18. CASE Tree!CreateExisting(p)
  <2>1. q.ip \in Inums /\ fsEntry[q.ip][Head(q.path)] \in Some
    BY <1>1, <1>18, AtParent DEF Tree!CreateExisting, Parents
  <2> DEFINE c == fsEntry[q.ip][Head(q.path)]
  <2>2. Tree!Become(p, [Tree!Continue(p, "exists", <<q.ip>>) EXCEPT !.child = c])
    BY <1>18 DEF Tree!CreateExisting
  <2>3. <<q.ip>> \in Puts /\ c \in Some /\ "exists" \in Pc \ {"walk", "parent"}
    BY <2>1, PutsAre DEF Pc
  <2> HIDE DEF c
  <2>4. Settles(p)
    BY <1>1, <2>2, <2>3, Settled
  <2> QED
    BY <1>3, <2>4
<1>19. CASE Tree!Exists(p) \/ Tree!Created(p)
  <2>1. q.child \in Inums /\ <<q.child>> \in Puts /\ <<>> \in Puts
    BY <1>1, <1>2, <1>19, SomeInum, PutsAre DEF Tree!Exists, Tree!Created, Tree!At, Shape
  <2>2. \/ Tree!Become(p, [Tree!Return(p, <<>>) EXCEPT !.file = q.child])
        \/ Tree!Become(p, Tree!Return(p, <<q.child>>))
    BY <1>19 DEF Tree!Exists, Tree!Created
  <2>3. Settles(p)
    BY <1>1, <1>2, <2>1, <2>2, Settled
  <2> QED
    BY <1>3, <2>3
<1>20. ASSUME NEW c \in Inums, Tree!CreateNew(p, c)
       PROVE  Follows(p)
  <2>1. q.ip \in Inums /\ <<q.ip>> \in Puts /\ "created" \in Pc \ {"walk", "parent"}
        /\ c \in Some
    BY <1>1, <1>20, AtParent, PutsAre DEF Tree!CreateNew, Parents, Pc, Some
  <2>2. Tree!Become(p, [Tree!Continue(p, "created", <<q.ip>>) EXCEPT !.child = c])
    BY <1>20 DEF Tree!CreateNew
  <2>3. Settles(p)
    BY <1>1, <2>1, <2>2, Settled
  <2> QED
    BY <1>3, <2>3
<1>21. \/ Tree!Close(p) \/ Tree!Walk(p) \/ Tree!WalkEmpty(p) \/ Tree!Iput(p) \/ Tree!IputDrop(p)
       \/ Tree!Got(p) \/ Tree!Link(p) \/ Tree!LinkBad(p) \/ Tree!UnlinkNew(p) \/ Tree!Unlink(p)
       \/ Tree!UnlinkEntry(p) \/ Tree!UnlinkBad(p) \/ Tree!UnlinkInode(p)
       \/ Tree!CreateExisting(p) \/ Tree!Exists(p) \/ Tree!Created(p)
       \/ \E c \in Inums : Tree!CreateNew(p, c)
       \/ \E sys \in calls, path \in paths, new \in paths : Tree!SystemCall(p, sys, path, new)
  BY DEF Tree!Step, Tree!InCall, Inums
<1> QED
  BY <1>4, <1>5, <1>7, <1>8, <1>9, <1>10, <1>11, <1>12, <1>13, <1>14, <1>15, <1>16, <1>17,
     <1>18, <1>19, <1>20, <1>21

\* an entry that a call alone looks up in a directory that is reached is one that counts
LEMMA EntrySeen ==
  ASSUME TreeInv, Populated, NEW i \in Inums, NEW n \in Slot, fsType[i] = "dir", Seen(i),
         fsEntry[i][n] \in Inums
  PROVE  Seen(fsEntry[i][n])
<1>1. /\ Rooted /\ fsEntry[i]["."] = i
      /\ \A e \in Edge : fsEntry[e[1]][e[2]] = i => fsEntry[i][".."] = e[1]
  BY DEF TreeInv, Directories
<1>2. CASE n \in FileName
  <2>1. PICK e \in Edge : e = <<i, n>>
    BY <1>2 DEF Edge
  <2>2. Named(fsEntry[i][n]) >= 1 /\ Named(fsEntry[i][n]) \in Nat
    BY <2>1, NamedBy, CountNat, EdgesFinite DEF Named
  <2> QED
    BY <2>2 DEF Seen
<1>3. CASE n = "."
  BY <1>1, <1>3
<1>4. CASE n = ".." /\ i = Root
  BY <1>1, <1>4 DEF Rooted, Seen
<1>5. CASE n = ".." /\ i # Root
  <2>1. Named(i) # 0
    BY <1>5 DEF Seen
  <2>2. PICK e \in Edge : EntryAt(fsEntry)[e] = i
    BY <2>1, CountNat, EdgesFinite DEF Named
  <2>3. fsEntry[e[1]][e[2]] = i /\ i # Nil /\ e[1] \in Inums /\ e[2] \in FileName
    BY <2>2, TreeConstants DEF EntryAt, Edge
  <2>4. Seen(e[1])
    BY <2>3 DEF Populated
  <2> QED
    BY <1>1, <1>5, <2>3, <2>4
<1> QED
  BY <1>2, <1>3, <1>4, <1>5 DEF Slot

LEMMA SerialStep ==
  ASSUME Serial, NEW p \in Caller, \A x \in Caller \ {p} : AtRest(x),
         NEW calls, calls \subseteq Tree!Calls \ {"chdir"},
         NEW paths, paths \subseteq Rest, Tree!Step(p, calls, paths)
  PROVE  Serial'
<1>1. TreeInv /\ Homes /\ Exact /\ Populated /\ Reached
  BY DEF Serial
<1>2. TreeInv' /\ Tallied(p)
  <2>1. calls \subseteq Tree!Calls
    OBVIOUS
  <2> QED
    BY <1>1, <2>1, StepOfInv
<1>3. Others(p) /\ fsProc'[p].cwd = Root /\ fsProc'[p].call # "chdir"
      /\ (fsProc'[p].pc \in {"walk", "parent"} => Arrives(p))
  BY <1>1, StepOfLocals DEF Follows
<1>4. Exact' /\ Populated'
  BY <1>1, <1>2 DEF Tallied
<1>5. Homes'
  BY <1>1, <1>3 DEF Homes, Others
<1>6. ASSUME NEW x \in Caller, NEW d, d = fsProc'[x].ip, fsType'[d] = "dir",
             fsProc'[x].pc \in {"walk", "parent"}
      PROVE  Seen(d)'
  <2>1. x = p
    <3>1. fsProc[x].pc = "user" \/ x = p
      BY DEF AtRest, Tree!At
    <3> QED
      BY <1>3, <1>6, <3>1 DEF Others
  <2>2. d = fsProc'[p].ip
    BY <1>6, <2>1
  <2>3. PICK i : i = fsProc[p].ip
    OBVIOUS
  <2>4. ASSUME Seen(d), fsProc[p].pc # "unlink", d \in Inums
        PROVE  Seen(d)'
    BY <1>1, <1>2, <2>4 DEF Tallied, Seen
  <2>5. Tree!TypeOK /\ Shape(fsProc[p])
    BY <1>1 DEF TreeInv, Locals
  <2>6. CASE d = Root
    BY <2>6 DEF Seen
  <2>7. CASE /\ d = i /\ fsProc[p].pc \in {"walk", "parent"}
             /\ fsType'[i] = "dir" => fsType[i] = "dir"
    <3>1. i \in Inums
      BY <2>3, <2>5, <2>7, LocalsOf, SomeInum DEF Shape
    <3>2. fsType[i] = "dir"
      BY <1>6, <2>1, <2>2, <2>7
    <3>3. Seen(i)
      BY <1>1, <2>3, <2>7, <3>2 DEF Reached
    <3> QED
      BY <2>4, <2>7, <3>1, <3>3
  <2>8. CASE /\ fsProc[p].pc = "walk" /\ fsProc[p].path \in Paths /\ i \in Inums
             /\ fsType[i] = "dir" /\ d = fsEntry[i][Head(fsProc[p].path)] /\ d \in Inums
    <3>1. PICK n \in Slot : n = Head(fsProc[p].path)
      BY <2>8, RestOfPath
    <3>2. Seen(i)
      BY <1>1, <2>3, <2>8 DEF Reached
    <3>3. Seen(d)
      BY <1>1, <2>8, <3>1, <3>2, EntrySeen
    <3> QED
      BY <2>4, <2>8, <3>3
  <2>9. Seen(d)'
    BY <1>3, <1>6, <2>1, <2>2, <2>3, <2>6, <2>7, <2>8 DEF Arrives
  <2> QED
    BY <2>9
<1>7. Reached'
  BY <1>6 DEF Reached
<1> QED
  BY <1>2, <1>4, <1>5, <1>7 DEF Serial

LEMMA SameSerial == ASSUME Serial, UNCHANGED fsVars PROVE Serial'
<1>1. TreeInv' /\ UNCHANGED fsVars
  BY SameTree DEF Serial
<1>2. (Homes /\ Exact /\ Populated /\ Reached)'
  BY DEF Serial, fsVars, Homes, Exact, Populated, Reached, Seen, Named, Subs, Pend
<1> QED
  BY <1>1, <1>2 DEF Serial

LEMMA SerialStepInv == ASSUME Serial, TreeStep \/ UNCHANGED fsVars, part = "counts" PROVE Serial'
<1>1. CASE TreeStep
  <2>1. Tree!NextAlone(Tree!Calls \ {"chdir"}, Tree!PathsOf(FileName \cup {".."}, PathLen))
    BY <1>1 DEF TreeStep
  <2>2. Tree!PathsOf(FileName \cup {".."}, PathLen) \subseteq Rest
    <3>1. PathLen \in 1 .. PathLen /\ FileName \cup {".."} \subseteq Slot
      BY TreeConstants DEF Slot
    <3> QED
      BY <3>1, PathsAre
  <2>3. PICK p \in Caller :
          /\ \A x \in Caller \ {p} : AtRest(x)
          /\ Tree!Step(p, Tree!Calls \ {"chdir"}, Tree!PathsOf(FileName \cup {".."}, PathLen))
    BY <2>1 DEF Tree!NextAlone, AtRest
  <2> QED
    BY <2>2, <2>3, SerialStep
<1>2. CASE UNCHANGED fsVars
  BY <1>2, SameSerial
<1> QED
  BY <1>1, <1>2

LEMMA SerialIsExact == ASSUME Serial PROVE Tree!LinksExact
<1> SUFFICES ASSUME \A p \in Caller : Tree!At(p, "user"),
                    NEW i \in Inums \ {Root}, fsType[i] # "free"
             PROVE  fsNlink[i] = Tree!Cardinality(Tree!Links(i))
                                 + Tree!Cardinality(Tree!Subdirs(i))
  BY DEF Tree!LinksExact, Inums
<1>1. TreeInv /\ Exact /\ Tree!TypeOK /\ \A p \in Caller : Shape(fsProc[p])
  BY DEF Serial, TreeInv, Locals
<1>2. \A p \in Caller : PendingAt(fsProc)[p] = Nil
  BY <1>1 DEF Tree!At, Shape, PendingAt, PendingOf
<1>3. Pend(i) = 0
  BY <1>2, CountNat, TreeConstants DEF Pend
<1>4. Named(i) \in Nat /\ Subs(i) \in Nat
  BY CountNat, EdgesFinite DEF Named, Subs
<1>5. fsNlink[i] = Named(i) + Subs(i)
  BY <1>1, <1>3, <1>4 DEF Exact
<1> QED
  BY <1>1, <1>5, LinksAre, SubdirsAre

\* sysfile.c and fs.c: for any number of processes, inodes and names, paths of any length,
\* and all the calls on names crossing at every lock, references are counted, no name is
\* left with a freed inode, link counts cover the names, and the directories are a tree
\* where each counts its subdirectories
THEOREM CallsKeepTree ==
  Tree!Spec =>
    [](/\ Tree!TypeOK /\ Tree!RefsCounted
       /\ Tree!NamedIsUsed /\ Tree!LinksCovered /\ Tree!UnlinkFindsLink
       /\ Tree!DirectoryTree /\ Tree!DirLinksCounted)
<1>1. Tree!Init => TreeInv
  BY TreeStarts
<1>2. TreeInv /\ [Tree!Next(Tree!Calls, Tree!Paths)]_(Tree!vars) => TreeInv'
  <2> SUFFICES ASSUME TreeInv, [Tree!Next(Tree!Calls, Tree!Paths)]_(Tree!vars) PROVE TreeInv'
    OBVIOUS
  <2>1. CASE UNCHANGED Tree!vars
    BY <2>1, SameTree DEF Tree!vars, fsVars
  <2>2. CASE Tree!Next(Tree!Calls, Tree!Paths)
    <3>1. Tree!Paths \subseteq Rest
      <4>1. PathLen \in 1 .. PathLen /\ FileName \cup {".", ".."} \subseteq Slot
        BY TreeConstants DEF Slot
      <4> QED
        BY <4>1, PathsAre DEF Tree!Paths
    <3>2. PICK p \in Caller : Tree!Step(p, Tree!Calls, Tree!Paths)
      BY <2>2 DEF Tree!Next
    <3> QED
      BY <3>1, <3>2, StepOfInv
  <2> QED
    BY <2>1, <2>2
<1> QED
  BY <1>1, <1>2, TreeIsCorrect, PTL DEF Tree!Spec

\* the parts of the run: the same for them, and where the calls do not cross and none is
\* chdir(), the link counts are exact whenever a call has returned
THEOREM DirectoriesAreCorrect == SharedSpec => []DirectoriesCorrect
<1> DEFINE I == (part \in TreePart => TreeInv) /\ (part = "counts" => Serial)
<1>1. SharedInit => I
  <2> SUFFICES ASSUME SharedInit PROVE I
    OBVIOUS
  <2>1. CASE part \in TreePart
    <3>1. TreeInv /\ Exact /\ Populated /\ Reached
          /\ \A p \in Caller : fsProc[p].cwd = Root /\ fsProc[p].call = "none"
      BY <2>1, TreeStarts DEF SharedInit
    <3> QED
      BY <3>1 DEF Serial, Homes
  <2> QED
    BY <2>1 DEF TreePart
<1>2. I /\ [SharedStep]_sharedVars => I'
  <2> SUFFICES ASSUME I, [SharedStep]_sharedVars PROVE I'
    OBVIOUS
  <2>1. part' = part /\ (part \in TreePart => TreeStep \/ UNCHANGED fsVars)
    BY DEF SharedStep, sharedVars
  <2>2. part \in TreePart => TreeInv'
    BY <2>1, TreeStepInv
  <2>3. part = "counts" => Serial'
    BY <2>1, SerialStepInv DEF TreePart
  <2> QED
    BY <2>1, <2>2, <2>3
<1>3. I => DirectoriesCorrect
  BY TreeIsCorrect, SerialIsExact DEF DirectoriesCorrect
<1> HIDE DEF I
<1> QED
  BY <1>1, <1>2, <1>3, PTL DEF SharedSpec
=============================================================================
