----------------------------- MODULE RingQueue -----------------------------
(***************************************************************************)
(* queue.h: the circular queue of the three levels of the MLFQ and of the  *)
(* MoQ, one action per function a caller uses.  One slot of the array      *)
(* stays empty to tell a full queue from an empty one.                     *)
(***************************************************************************)
EXTENDS Integers, Sequences

CONSTANTS
  NPROC,       \* length of the array
  Item,        \* the processes that are queued
  NoItem       \* the null pointer

ASSUME NPROCAssumption == NPROC \in Nat \ {0, 1}
ASSUME ItemAssumption  == NoItem \notin Item

Index == 0 .. NPROC - 1

VARIABLES
  proc, front, rear,     \* struct queue
  call, out              \* history: the last call, and what it returned

vars == <<proc, front, rear, call, out>>

TypeOK ==
  /\ proc \in [Index -> Item \cup {NoItem}]
  /\ front \in Index
  /\ rear \in Index

\* a global variable: all zero
Init ==
  /\ proc = [i \in Index |-> NoItem]
  /\ front = 0
  /\ rear = 0
  /\ call = "none"
  /\ out = NoItem

\* the function sizeofqueue()
SizeOf == (rear - front + NPROC) % NPROC

\* the next index; mutant: no wrap-around
NoWrap(i) == i + 1
Succ(i)   == (i + 1) % NPROC

\* the functions isfullqueue() and isemptyqueue(); mutant: nothing is ever full
NeverFull == FALSE
IsFull  == (front = 0 /\ rear = NPROC - 1) \/ front = Succ(rear)
IsEmpty == front % NPROC = rear % NPROC

initqueue ==
  /\ front' = 0
  /\ rear' = 0
  /\ call' = "init"
  /\ out' = NoItem
  /\ UNCHANGED proc

insertqueue(p) ==
  /\ IF IsFull
     THEN UNCHANGED <<proc, rear>>
     ELSE /\ proc' = [proc EXCEPT ![rear % NPROC] = p]
          /\ rear' = Succ(rear)
  /\ call' = "insert"
  /\ out' = NoItem
  /\ UNCHANGED front

deletequeue ==
  /\ IF IsEmpty
     THEN out' = NoItem /\ UNCHANGED front
     ELSE /\ out' = proc[front % NPROC]
          /\ front' = Succ(front)
  /\ call' = "delete"
  /\ UNCHANGED <<proc, rear>>

sizeofqueue ==
  /\ out' = SizeOf
  /\ call' = "size"
  /\ UNCHANGED <<proc, front, rear>>

Next ==
  \/ initqueue
  \/ \E p \in Item : insertqueue(p)
  \/ deletequeue
  \/ sizeofqueue

Spec == Init /\ [][Next]_vars

-----------------------------------------------------------------------------
\* the elements between front and rear, around the end of the array
Contents == [i \in 1 .. SizeOf |-> proc[(front + i - 1) % NPROC]]

Fifo == INSTANCE BoundedFifo WITH q <- Contents, Capacity <- NPROC - 1

\* the circular queue of queue.h is a FIFO of capacity NPROC - 1: no element is
\* overwritten, repeated or skipped however the indices wrap around
FifoSpec == Fifo!Spec

=============================================================================
