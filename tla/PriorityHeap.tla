---------------------------- MODULE PriorityHeap ----------------------------
(***************************************************************************)
(* heap.h: the heap of the last level of the MLFQ, ordered by the field    *)
(* priority of the processes in it.  A call runs under ptable.lock; one    *)
(* action is the call up to its loop, then one per round of the loop that  *)
(* moves a process up, or per call of the recursive heapify().             *)
(*                                                                         *)
(* The heap holds pointers: setpriority() (proc.c) and the aging of trap() *)
(* (trap.c) change the keys without the heap knowing.                      *)
(***************************************************************************)
EXTENDS Integers, FiniteSets

CONSTANTS
  NPROC,         \* length of the array
  Item,          \* the processes
  NoItem,        \* the null pointer
  MaxPriority,   \* 10 in the code
  Rekey          \* whether the priority of a process in the heap may change

NPROCAssumption    == NPROC \in Nat \ {0}
ItemAssumption     == NoItem \notin Item
PriorityAssumption == MaxPriority \in Nat /\ Rekey \in BOOLEAN

Index == 0 .. NPROC - 1

VARIABLES
  proc, size,     \* struct heap
  priority,       \* p->priority
  pc, i,          \* no call, insertheap() or heapify() at index i
  root,           \* the local of deleteheap()
  out             \* what the last call returned

vars == <<proc, size, priority, pc, i, root, out>>

TypeOK ==
  /\ proc \in [Index -> Item \cup {NoItem}]
  /\ size \in 0 .. NPROC
  /\ priority \in [Item -> 0 .. MaxPriority]
  /\ pc \in {"idle", "up", "down"}
  /\ i \in Index
  /\ root \in Item \cup {NoItem}
  /\ out \in Item \cup {NoItem}

Init ==
  /\ proc = [k \in Index |-> NoItem]
  /\ size = 0
  /\ priority = [p \in Item |-> 0]
  /\ pc = "idle"
  /\ i = 0
  /\ root = NoItem
  /\ out = NoItem

Live   == 0 .. size - 1
Key(k) == priority[proc[k]]
Up(k)  == (k - 1) \div 2

\* how many entries a process has: a slot that is used again may leave one of
\* its former life behind
Count == [p \in Item |-> Cardinality({k \in Live : proc[k] = p})]

\* during deleteheap() the root still counts: it is on its way to the caller
Members == [p \in Item |->
              Count[p] + (IF pc = "down" /\ root = p THEN 1 ELSE 0)]

SwapAt(a, b) == [proc EXCEPT ![a] = proc[b], ![b] = proc[a]]

\* isfullheap(); mutant: off by one
FullLate == size > NPROC
IsFull   == size = NPROC

-----------------------------------------------------------------------------
initheap ==
  /\ pc = "idle"
  /\ size' = 0
  /\ out' = NoItem
  /\ UNCHANGED <<proc, priority, pc, i, root>>

insertheap(p) ==
  /\ pc = "idle"
  /\ out' = NoItem
  /\ IF IsFull
     THEN UNCHANGED <<proc, size, pc, i>>
     ELSE /\ proc' = [proc EXCEPT ![size] = p]
          /\ size' = size + 1
          /\ pc' = "up"
          /\ i' = size
  /\ UNCHANGED <<priority, root>>

\* one round of the loop of insertheap(); mutant: a process stays below one of
\* its own priority plus one
Misplaced(k) == Key(Up(k)) + 1 < Key(k)
Rises(k)     == Key(Up(k)) < Key(k)

MoveUp ==
  /\ pc = "up"
  /\ IF i # 0 /\ Rises(i)
     THEN /\ proc' = SwapAt(i, Up(i))
          /\ i' = Up(i)
          /\ UNCHANGED pc
     ELSE pc' = "idle" /\ UNCHANGED <<proc, i>>
  /\ UNCHANGED <<size, priority, root, out>>

deleteheap ==
  /\ pc = "idle"
  /\ IF size = 0
     THEN out' = NoItem /\ UNCHANGED <<proc, size, pc, i, root>>
     ELSE /\ root' = proc[0]
          /\ proc' = [proc EXCEPT ![0] = proc[size - 1]]
          /\ size' = size - 1
          /\ pc' = "down"
          /\ i' = 0
          /\ UNCHANGED out
  /\ UNCHANGED priority

\* the largest of an index and its children; mutant: the right child is compared
\* with the parent, not with the largest so far
LargestSkewed(k) ==
  LET left == 2 * k + 1
      right == 2 * k + 2
  IN  IF right < size /\ Key(right) > Key(k) THEN right
      ELSE IF left < size /\ Key(left) > Key(k) THEN left ELSE k

Largest(k) ==
  LET Above(child, other) ==
        IF child < size /\ Key(child) > Key(other) THEN child ELSE other
  IN  Above(2 * k + 2, Above(2 * k + 1, k))

\* one call of heapify(); the last one returns through deleteheap()
heapify ==
  /\ pc = "down"
  /\ LET largest == Largest(i)
     IN  IF largest # i
         THEN /\ proc' = SwapAt(i, largest)
              /\ i' = largest
              /\ UNCHANGED <<pc, out>>
         ELSE /\ pc' = "idle"
              /\ out' = root
              /\ UNCHANGED <<proc, i>>
  /\ UNCHANGED <<size, priority, root>>

\* setpriority(), under ptable.lock, and the aging of a running process
SetPriority(p) ==
  /\ pc = "idle"
  /\ Rekey \/ Members[p] = 0
  /\ \E x \in 0 .. MaxPriority : priority' = [priority EXCEPT ![p] = x]
  /\ UNCHANGED <<proc, size, pc, i, root, out>>

Age(p) ==
  /\ Rekey \/ Members[p] = 0
  /\ priority[p] > 0
  /\ priority' = [priority EXCEPT ![p] = @ - 1]
  /\ UNCHANGED <<proc, size, pc, i, root, out>>

Next ==
  \/ initheap \/ deleteheap \/ MoveUp \/ heapify
  \/ \E p \in Item : insertheap(p) \/ SetPriority(p) \/ Age(p)

Spec == Init /\ [][Next]_vars

-----------------------------------------------------------------------------
\* as long as no key changes inside the heap: no process is above one of higher
\* priority, except for the one a call is moving, which is out of order with
\* its parent (on its way up) or with its children (on its way down)
HeapOrder ==
  \A k \in Live \ {0} :
    \/ Key(Up(k)) >= Key(k)
    \/ pc = "up" /\ k = i
    \/ pc = "down" /\ Up(k) = i

Bag == INSTANCE PriorityBag WITH count <- Members

\* insertheap() and deleteheap() implement the bag: nothing is lost or doubled
\* by the swaps, and what deleteheap() returns is of the highest priority
BagSpec == Bag!Spec

-----------------------------------------------------------------------------
\* heap.h, deleteheap(): "the root process (the largest element)"
RootLargest ==
  [][deleteheap /\ size > 0 =>
       \A k \in Live : Key(k) <= priority[root']]_vars
=============================================================================
