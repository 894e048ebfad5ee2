------------------------------ MODULE Startup ------------------------------
(***************************************************************************)
(* main(), startothers() and mpenter() of main.c with the free list of     *)
(* kalloc.c: the boot CPU starts the others one by one, each with a stack  *)
(* whose address is left at a fixed place for it, and the free list has no *)
(* lock until kinit2() is over.                                            *)
(***************************************************************************)
EXTENDS Integers, Sequences, SequencesExt, FiniteSets

CONSTANTS
  NCPU,          \* CPUs, of which 0 boots
  Early, Late,   \* the pages of kinit1() and of kinit2()
  None

\* startothers() does not test what kalloc() returns: there is a page for each CPU
StartupAssumption ==
  /\ NCPU \in Nat \ {0} /\ None \notin Nat \cup Early \cup Late
  /\ IsFiniteSet(Early) /\ IsFiniteSet(Late) /\ Early \cap Late = {}
  /\ Cardinality(Early) >= NCPU

VARIABLES
  pc,            \* by CPU: where it is
  freelist,      \* kmem.freelist
  use_lock, lock,
  code,          \* code-4: the stack for the CPU that is being started
  stack, started,
  next,          \* the CPU that startothers() is at
  read,          \* by CPU: the free list as kalloc() or kfree() read it
  page,          \* by CPU: the page it allocates, frees or has
  procs          \* is there a process to run

vars == <<pc, freelist, use_lock, lock, code, stack, started, next, read, page, procs>>

CPU  == 0 .. NCPU - 1
Page == Early \cup Late

Init ==
  /\ pc = [c \in CPU |-> IF c = 0 THEN "others" ELSE "off"]
  /\ freelist = SetToSeq(Early)
  /\ use_lock = FALSE /\ lock = None
  /\ code = None
  /\ stack = [c \in CPU |-> None] /\ started = [c \in CPU |-> FALSE]
  /\ next = 1
  /\ read = [c \in CPU |-> <<>>] /\ page = [c \in CPU |-> None]
  /\ procs = FALSE

Goto(c, from, to) == pc[c] = from /\ pc' = [pc EXCEPT ![c] = to]

-----------------------------------------------------------------------------
(* kalloc() and kfree(): one of them for the boot CPU in startothers(), for *)
(* kinit2(), and for the processes                                         *)

\* the lock is acquired, if there is one yet, and the free list is read
Enter(c) ==
  /\ \/ Goto(c, "alloc", "alloc1") \/ Goto(c, "stack", "stack1")
     \/ Goto(c, "free", "free1") \/ Goto(c, "kinit2", "kinit21")
  /\ use_lock => lock = None
  /\ lock' = IF use_lock THEN c ELSE lock
  /\ read' = [read EXCEPT ![c] = freelist]
  /\ UNCHANGED <<freelist, use_lock, code, stack, started, next, page, procs>>

\* the head is taken off
Take(c) ==
  /\ Goto(c, "alloc1", "alloc2") \/ Goto(c, "stack1", "stack2")
  /\ IF read[c] = <<>> THEN UNCHANGED <<freelist, page>>
     ELSE /\ freelist' = Tail(read[c])
          /\ page' = [page EXCEPT ![c] = Head(read[c])]
  /\ UNCHANGED <<use_lock, lock, code, stack, started, next, read, procs>>

\* a page becomes the head
Put(c) ==
  /\ Goto(c, "free1", "free2") \/ Goto(c, "kinit21", "kinit22")
  /\ freelist' = <<page[c]>> \o read[c]
  /\ page' = [page EXCEPT ![c] = None]
  /\ UNCHANGED <<use_lock, lock, code, stack, started, next, read, procs>>

\* release() panics if the CPU does not hold the lock
MayRelease(c) == use_lock => lock = c

Leave(c) ==
  /\ \/ Goto(c, "alloc2", "scheduler") \/ Goto(c, "free2", "scheduler")
     \/ Goto(c, "stack2", "args") \/ Goto(c, "kinit22", "kinit")
  /\ MayRelease(c)
  /\ lock' = IF use_lock THEN None ELSE lock
  /\ read' = [read EXCEPT ![c] = <<>>]
  /\ UNCHANGED <<freelist, use_lock, code, stack, started, next, page, procs>>

-----------------------------------------------------------------------------
(* startothers() *)

NextCpu ==
  /\ pc[0] = "others"
  /\ pc' = [pc EXCEPT ![0] = IF next < NCPU THEN "stack" ELSE "kinit"]
  /\ UNCHANGED <<freelist, use_lock, lock, code, stack, started, next, read, page, procs>>

\* the arguments below the code at 0x7000, and the startup interrupt
StartAp ==
  /\ pc[0] = "args"
  /\ code' = page[0] /\ page' = [page EXCEPT ![0] = None]
  /\ pc' = [pc EXCEPT ![0] = "spin", ![next] = "entry"]
  /\ UNCHANGED <<freelist, use_lock, lock, stack, started, next, read, procs>>

\* mutant: the CPU is not waited for
NotWaited(c) == TRUE
IsUp(c)      == started[c]

SpinStarted ==
  /\ Goto(0, "spin", "others")
  /\ IsUp(next)
  /\ next' = next + 1
  /\ UNCHANGED <<freelist, use_lock, lock, code, stack, started, read, page, procs>>

Spin == pc[0] = "spin" /\ ~ IsUp(next) /\ UNCHANGED vars

\* entryother.S takes its stack from below the code
ApEntry(c) ==
  /\ Goto(c, "entry", "mpmain")
  /\ stack' = [stack EXCEPT ![c] = code]
  /\ UNCHANGED <<freelist, use_lock, lock, code, started, next, read, page, procs>>

\* mutant: startothers() is not told
Unannounced(c) == started
Announced(c)   == [started EXCEPT ![c] = TRUE]

\* mpmain(): started is set by xchg, and the scheduler runs
Mpmain(c) ==
  /\ Goto(c, "mpmain", "scheduler")
  /\ started' = Announced(c)
  /\ UNCHANGED <<freelist, use_lock, lock, code, stack, next, read, page, procs>>

-----------------------------------------------------------------------------
(* kinit2() and userinit() *)

InList  == {freelist[n] : n \in DOMAIN freelist}
Missing == Late \ InList

\* a page of freerange(); after the last one the lock comes into use
Freerange ==
  /\ pc[0] = "kinit" /\ Missing # {} /\ ~ use_lock
  /\ page' = [page EXCEPT ![0] = CHOOSE g \in Missing : TRUE]
  /\ pc' = [pc EXCEPT ![0] = "kinit2"]
  /\ UNCHANGED <<freelist, use_lock, lock, code, stack, started, next, read, procs>>

UseLock ==
  /\ pc[0] = "kinit" /\ Missing = {}
  /\ use_lock' = TRUE
  /\ pc' = [pc EXCEPT ![0] = "userinit"]
  /\ UNCHANGED <<freelist, lock, code, stack, started, next, read, page, procs>>

\* its allocations are left out: no other CPU allocates before there is a process
Userinit ==
  /\ Goto(0, "userinit", "mpmain")
  /\ procs' = TRUE
  /\ UNCHANGED <<freelist, use_lock, lock, code, stack, started, next, read, page>>

-----------------------------------------------------------------------------
\* mutant: a CPU allocates before there is a process
AnyTime    == TRUE
HasProcess == procs

\* processes allocate pages and free them, on any CPU
Run(c) ==
  /\ pc[c] = "scheduler" /\ HasProcess
  /\ pc' = [pc EXCEPT ![c] = IF page[c] = None THEN "alloc" ELSE "free"]
  /\ UNCHANGED <<freelist, use_lock, lock, code, stack, started, next, read, page, procs>>

Boot == NextCpu \/ StartAp \/ SpinStarted \/ Freerange \/ UseLock \/ Userinit

Step(c) == Enter(c) \/ Take(c) \/ Put(c) \/ Leave(c) \/ ApEntry(c) \/ Mpmain(c) \/ Run(c)

Next == Boot \/ Spin \/ \E c \in CPU : Step(c)

\* the CPUs run
Spec == Init /\ [][Next]_vars /\ WF_vars(Boot) /\ \A c \in CPU : WF_vars(Step(c))

-----------------------------------------------------------------------------
\* each CPU runs on a stack of its own, which nobody can allocate
OwnStack ==
  /\ \A c, d \in CPU : c # d /\ stack[c] # None => stack[c] # stack[d]
  /\ \A c \in CPU : stack[c] \notin InList /\ \A d \in CPU : stack[c] # None => page[d] # stack[c]

\* a page is in the free list once, or has one owner, also while there is no lock
PagesOnce ==
  /\ \A m, n \in DOMAIN freelist : m # n => freelist[m] # freelist[n]
  /\ \A c, d \in CPU : page[c] # None => page[c] \notin InList /\ (c # d => page[c] # page[d])

\* a CPU that has acquired the lock of the free list, or has passed the test of use_lock
\* without, finds use_lock as it was when it releases
ReleasesWhatItHolds ==
  \A c \in CPU : pc[c] \in {"alloc2", "stack2", "free2", "kinit22"} =>
    MayRelease(c) /\ (~ use_lock => lock = None)

\* every CPU comes to run the scheduler
AllScheduling == \A c \in CPU : <>(pc[c] = "scheduler")
=============================================================================
