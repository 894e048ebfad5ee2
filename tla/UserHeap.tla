------------------------------ MODULE UserHeap ------------------------------
(***************************************************************************)
(* malloc() and free() of umalloc.c: a circular list of free blocks in the *)
(* order of their addresses, over memory that sbrk() hands out.  Addresses *)
(* and sizes count units of a header; the first unit of a block is its     *)
(* header, and the static base, a block without units, is below all.       *)
(***************************************************************************)
EXTENDS Integers, FiniteSets

CONSTANTS
  Limit,    \* units of memory that sbrk() can hand out
  More,     \* the least that morecore() asks for
  Sizes,    \* bound: units that programs ask for, without the header
  None

HeapAssumption ==
  /\ Limit \in Nat /\ More \in Nat \ {0} /\ Sizes \subseteq Nat /\ None \notin Nat

VARIABLES
  ptr, size,   \* the headers
  freep,       \* where the next search starts
  brk,         \* the end of the memory
  used,        \* the blocks that malloc() returned
  foreign      \* units that the program got from sbrk() itself

vars == <<ptr, size, freep, brk, used, foreign>>

base    == 0
Address == 0 .. Limit

Init ==
  /\ ptr = [a \in Address |-> None] /\ size = [a \in Address |-> 0]
  /\ freep = None
  /\ brk = 1
  /\ used = {} /\ foreign = {}

\* the headers and freep, as malloc() and free() pass them on
Heap == [ptr |-> ptr, size |-> size, freep |-> freep]

Becomes(h) == ptr' = h.ptr /\ size' = h.size /\ freep' = h.freep

-----------------------------------------------------------------------------
\* the loop of free(): the block after which bp belongs
RECURSIVE PlaceFrom(_, _, _)
PlaceFrom(h, bp, p) ==
  LET n == h.ptr[p] IN
  IF (bp > p /\ bp < n) \/ (p >= n /\ (bp > p \/ bp < n)) THEN p ELSE PlaceFrom(h, bp, n)

\* mutant: neighbours are not joined
NeverTouches(a, s, b) == FALSE
Touches(a, s, b)      == a + s = b

\* the block at b becomes a part of the block at a; the old header is the program's
Join(h, a, b) ==
  [h EXCEPT !.ptr = [@ EXCEPT ![a] = h.ptr[b], ![b] = None],
            !.size = [@ EXCEPT ![a] = @ + h.size[b], ![b] = 0]]

Freed(h, bp) ==
  LET p == PlaceFrom(h, bp, h.freep)
      n == h.ptr[p]
      linked == [h EXCEPT !.ptr = [@ EXCEPT ![bp] = n, ![p] = bp], !.freep = p]
      up == IF Touches(bp, h.size[bp], n) THEN Join(linked, bp, n) ELSE linked IN
  IF Touches(p, h.size[p], bp) THEN Join(up, p, bp) ELSE up

Free(a) ==
  /\ a \in used
  /\ Becomes(Freed(Heap, a))
  /\ used' = used \ {a}
  /\ UNCHANGED <<brk, foreign>>

-----------------------------------------------------------------------------
\* the search of malloc() behind prevp, up to freep; None if nothing fits
RECURSIVE Search(_, _, _)
Search(h, prevp, n) ==
  LET p == h.ptr[prevp] IN
  IF h.size[p] >= n THEN prevp ELSE IF p = h.freep THEN None ELSE Search(h, p, n)

\* mutant: the rest of a block that is split keeps its size
WholeSize(s, n) == s
RestSize(s, n)  == s - n

\* the block behind prevp is taken, or its tail
Taken(h, prevp, n) ==
  LET p == h.ptr[prevp] IN
  IF h.size[p] = n
  THEN [block |-> p, heap |-> [h EXCEPT !.ptr = [@ EXCEPT ![prevp] = h.ptr[p], ![p] = None],
                                      !.freep = prevp]]
  ELSE LET q == p + h.size[p] - n IN
       [block |-> q,
        heap |-> [h EXCEPT !.size[p] = RestSize(@, n), !.size[q] = n, !.freep = prevp]]

\* the first call makes a list of the base
Started ==
  IF freep # None THEN Heap
  ELSE [ptr |-> [ptr EXCEPT ![base] = base], size |-> [size EXCEPT ![base] = 0], freep |-> base]

\* morecore(): what sbrk() returns is a block, which is freed
Units(n)   == IF n < More THEN More ELSE n
Grown(h, n) == Freed([h EXCEPT !.size[brk] = Units(n)], brk)

Return(t) == Becomes(t.heap) /\ used' = used \cup {t.block}

Malloc(m) ==
  LET n == m + 1
      h == Started
      prevp == Search(h, h.freep, n)
      g == Grown(h, n) IN
  /\ \/ /\ prevp # None
        /\ Return(Taken(h, prevp, n)) /\ UNCHANGED brk
     \/ /\ prevp = None /\ brk + Units(n) <= Limit
        /\ Return(Taken(g, Search(g, g.freep, n), n))
        /\ brk' = brk + Units(n)
     \/ /\ prevp = None /\ brk + Units(n) > Limit
        /\ Becomes(h) /\ UNCHANGED <<brk, used>>
  /\ UNCHANGED foreign

\* the program calls sbrk() itself
Sbrk ==
  /\ brk < Limit
  /\ foreign' = foreign \cup {brk} /\ brk' = brk + 1
  /\ UNCHANGED <<ptr, size, freep, used>>

Next == Sbrk \/ (\E a \in Address : Free(a)) \/ (\E m \in Sizes : Malloc(m))

Spec == Init /\ [][Next]_vars

-----------------------------------------------------------------------------
Reach[k \in 0 .. Limit] ==
  IF k = 0 THEN {freep} ELSE LET r == Reach[k - 1] IN r \cup {ptr[a] : a \in r}
FreeBlocks == IF freep = None THEN {} ELSE Reach[Limit]

Extent(a) == a .. a + size[a] - 1

\* the free list is a circle in the order of addresses, and no two blocks of it touch:
\* free() finds the place of a block and joins it to both neighbours, at the ends of the
\* circle too and with memory in between that is not the allocator's
ListInOrder ==
  freep # None =>
    /\ base \in FreeBlocks
    /\ \A a \in FreeBlocks :
         LET above == {b \in FreeBlocks : b > a} IN
         IF above = {} THEN ptr[a] = base
         ELSE /\ ptr[a] \in above /\ \A b \in above : ptr[a] <= b
              /\ a + size[a] < ptr[a] \/ (a = base /\ a + size[a] <= ptr[a])

\* each unit is in just one block, free or used, or the program's own: none is lost, none
\* is given to two callers
UnitsPartitioned ==
  /\ UNION {Extent(a) : a \in FreeBlocks \cup used} = (1 .. brk - 1) \ foreign
  /\ \A a, b \in FreeBlocks \cup used : a # b => Extent(a) \cap Extent(b) = {}
=============================================================================
