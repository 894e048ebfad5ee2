----------------------------- MODULE Scheduler -----------------------------
(***************************************************************************)
(* The process table and the MLFQ/MoQ scheduler of OS_project02            *)
(* (proc.c, trap.c): every CPU runs scheduler() or a process, a process is *)
(* in user space or at one of the points of the kernel where other CPUs or *)
(* a timer interrupt can come in between.                                  *)
(*                                                                         *)
(* One action is what a CPU does between two such points: a section under  *)
(* ptable.lock, one unlocked access of a shared field, or a return to user *)
(* space.  ptable.lock is carried across swtch() as in the code: yield()   *)
(* acquires it, the scheduler it switches to releases it or hands it on to *)
(* the process it picks, and that process releases it.                     *)
(*                                                                         *)
(* Left out: memory, files, the priorities of the heap.                    *)
(*                                                                         *)
(* The run queues of proc.c are values: the three circular queues q[0..2]  *)
(* and the priority heap h of "mlfq", and the circular queue of "moq".     *)
(* A circular queue of queue.h is the sequence of the slots in it, oldest  *)
(* first; module RingQueue shows that the array with its front and rear    *)
(* implements such a sequence of capacity NPROC - 1.  The heap of heap.h   *)
(* is a bag: how often each slot is in it.  deleteheap may return any      *)
(* member, which covers every order the array can be in (setpriority       *)
(* rewrites keys in place, see module PriorityHeap).                       *)
(***************************************************************************)
EXTENDS Integers, Sequences, FiniteSets

CONSTANTS
  NPROC,         \* slots of the process table, and of every queue array
  CPUS,          \* the CPUs
  BootCpu,       \* cpuid() = 0, the one that counts ticks
  NoCpu,         \* ptable.lock is free
  MaxPid,        \* bound: fork() is called while nextpid <= MaxPid
  BoostPeriod,   \* 100 in the code: ticks between two boosts
  TqBase,        \* 2 in the code: a quantum is TqBase + TqStep * level
  TqStep,        \* 2 in the code
  Calls,         \* the system calls the programs make
  PidArgs        \* the pids they pass to kill() and setmonopoly()

AllCalls == {"fork", "exit", "wait", "kill", "sleep", "yield",
             "setmonopoly", "monopolize", "unmonopolize"}

ASSUME NPROCAssumption  == NPROC \in Nat \ {0, 1}
ASSUME CPUSAssumption   == BootCpu \in CPUS /\ NoCpu \notin CPUS
ASSUME BoundsAssumption == MaxPid \in Nat /\ BoostPeriod \in Nat \ {0, 1}
ASSUME TqAssumption     == TqBase \in Nat \ {0} /\ TqStep \in Nat
ASSUME CallsAssumption  == Calls \subseteq AllCalls /\ PidArgs \subseteq Nat

Proc   == 0 .. NPROC - 1
QLevel == 0 .. 2

-----------------------------------------------------------------------------
(* Scans of the process table visit its slots in ascending order. *)
RankIn(S, p) == Cardinality({x \in S : x < p})

SlotOrder(S) ==
  [i \in 1 .. Cardinality(S) |-> CHOOSE p \in S : RankIn(S, p) = i - 1]

-----------------------------------------------------------------------------
(* queue.h *)
QueueCapacity == NPROC - 1

\* insertqueue of every element of s in turn: what does not fit is dropped
EnqueueAll(q, s) ==
  LET all == q \o s
  IN  [i \in 1 .. (IF Len(all) > QueueCapacity THEN QueueCapacity ELSE Len(all))
         |-> all[i]]

Enqueue(q, p) == EnqueueAll(q, <<p>>)

-----------------------------------------------------------------------------
(* The mlfq structure: queues of levels 0..2, and the heap of level 3. *)
Mlfq == [q : [QLevel -> Seq(Proc)], cnt : [Proc -> Nat]]

EmptyMlfq ==
  [q   |-> [l \in QLevel |-> <<>>],
   cnt |-> [p \in Proc |-> 0]]

\* the size of the heap: its entries, one pair for each
HeapSize(m) == Cardinality({e \in Proc \X (1 .. NPROC) : e[2] <= m.cnt[e[1]]})

\* insertmlfq called on every slot of W in slot order, levels read from lev;
\* a slot whose queue or heap is full is dropped
InsertMlfq(m, W, lev) ==
  LET heaped == {p \in W : lev[p] \notin QLevel}
      fit    == {p \in heaped : RankIn(heaped, p) < NPROC - HeapSize(m)}
  IN  [q   |-> [l \in QLevel |->
                   EnqueueAll(m.q[l], SlotOrder({p \in W : lev[p] = l}))],
       cnt |-> [p \in Proc |-> m.cnt[p] + (IF p \in fit THEN 1 ELSE 0)]]

DropHead(m, l) == [m EXCEPT !.q[l] = Tail(@)]

\* deleteheap, the root being any member
HeapMembers(m)   == {p \in Proc : m.cnt[p] > 0}
HeapRemove(m, p) == [m EXCEPT !.cnt[p] = @ - 1]

\* where the slots of the mlfq structure are: the number of entries of p
QueueEntries(m, p) ==
  {e \in QLevel \X (1 .. QueueCapacity) :
      e[2] <= Len(m.q[e[1]]) /\ m.q[e[1]][e[2]] = p}

Entries(m, p) == Cardinality(QueueEntries(m, p)) + m.cnt[p]

-----------------------------------------------------------------------------
NoProc   == -1
InitProc == 0            \* allocproc() gives the first slot to userinit()
Monopoly == 99           \* the level setmonopoly() assigns

VARIABLES
  \* struct proc
  state, pid, parent, chan, killed, level, tq, monopoly,
  \* globals: nextpid, ticks, the queues, the holder of ptable.lock
  nextpid, ticks, mlfq, moq, lock,
  \* struct cpu: where it is, its proc and monopoly fields, and the branch of
  \* scheduler() it dispatched from
  cpc, cproc, cmono, cbranch,
  \* the kernel stack of a process: the point it is at, the point of an
  \* interrupted trap() on top of it, and the locals np and level
  at, trap, np, loclevel,
  \* panic() has stopped the machine
  panicked

procVars   == <<pid, parent>>
trapVars   == <<trap, loclevel>>
stackVars  == <<at, trap, np, loclevel>>
cpuVars    == <<cpc, cproc, cmono, cbranch>>
queueVars  == <<mlfq, moq>>
schedVars  == <<level, tq, monopoly>>
vars == <<state, pid, parent, chan, killed, level, tq, monopoly, nextpid, ticks,
          mlfq, moq, lock, cpc, cproc, cmono, cbranch, at, trap, np, loclevel,
          panicked>>

States == {"UNUSED", "EMBRYO", "SLEEPING", "RUNNABLE", "RUNNING", "ZOMBIE"}
Levels == 0 .. 3 \cup {Monopoly}
Points == {"forkret", "user", "fork", "setmono", "wait", "sleepchk", "gosleep",
           "asleep", "exit"}
Traps  == {"none", "wakeup", "acct", "yieldtick", "count", "expire", "yieldlast"}

TypeOK ==
  /\ state \in [Proc -> States]
  /\ pid \in [Proc -> Nat]
  /\ parent \in [Proc -> Proc \cup {NoProc}]
  /\ chan \in [Proc -> {"none", "ticks", "self"}]
  /\ killed \in [Proc -> {0, 1}]
  /\ level \in [Proc -> Levels]
  /\ tq \in [Proc -> Nat]
  /\ monopoly \in [Proc -> {0, 1}]
  /\ nextpid \in Nat
  /\ ticks \in 0 .. BoostPeriod
  /\ mlfq \in Mlfq
  /\ moq \in Seq(Proc)
  /\ lock \in CPUS \cup {NoCpu}
  /\ cpc \in [CPUS -> {"loop", "tickwake", "resume", "run", "back"}]
  /\ cproc \in [CPUS -> Proc \cup {NoProc}]
  /\ cmono \in [CPUS -> {0, 1}]
  /\ cbranch \in [CPUS -> {"mlfq", "moq"}]
  /\ at \in [Proc -> Points]
  /\ trap \in [Proc -> Traps]
  /\ np \in [Proc -> Proc \cup {NoProc}]
  /\ loclevel \in [Proc -> Levels]
  /\ panicked \in BOOLEAN

\* after pinit() and userinit(): the first process is runnable, in q[0]
Init ==
  /\ state = [p \in Proc |-> IF p = InitProc THEN "RUNNABLE" ELSE "UNUSED"]
  /\ pid = [p \in Proc |-> IF p = InitProc THEN 1 ELSE 0]
  /\ nextpid = 2
  /\ parent = [p \in Proc |-> NoProc]
  /\ chan = [p \in Proc |-> "none"]
  /\ killed = [p \in Proc |-> 0]
  /\ level = [p \in Proc |-> 0]
  /\ tq = [p \in Proc |-> 0]
  /\ monopoly = [p \in Proc |-> 0]
  /\ ticks = 0
  /\ mlfq = InsertMlfq(EmptyMlfq, {InitProc}, level)
  /\ moq = <<>>
  /\ lock = NoCpu
  /\ cpc = [c \in CPUS |-> "loop"]
  /\ cproc = [c \in CPUS |-> NoProc]
  /\ cmono = [c \in CPUS |-> 0]
  /\ cbranch = [c \in CPUS |-> "mlfq"]
  /\ at = [p \in Proc |-> "forkret"]
  /\ trap = [p \in Proc |-> "none"]
  /\ np = [p \in Proc |-> NoProc]
  /\ loclevel = [p \in Proc |-> 0]
  /\ panicked = FALSE

-----------------------------------------------------------------------------
(* Helpers *)

\* ticks is the counter itself up to BoostPeriod, then modulo BoostPeriod:
\* the code only asks whether it is 0 and whether it is a multiple of 100
NextTick == IF ticks = BoostPeriod THEN 1 ELSE ticks + 1
BoostDue == ticks = BoostPeriod            \* ticks % 100 == 0 && ticks != 0
AtPeriod == ticks \in {0, BoostPeriod}     \* ticks % 100 == 0

Quantum(l) == TqBase + TqStep * l

\* priorityboosting() over a table whose states are st; mutants: processes that
\* are at level 0 are passed over, no initqueue() and initheap(), fields kept
BoostedLower(st) ==
  {p \in Proc : st[p] = "RUNNABLE" /\ monopoly[p] = 0 /\ level[p] # 0}
Boosted(st) == {p \in Proc : st[p] = "RUNNABLE" /\ monopoly[p] = 0}
BoostMlfqAppending(st)  == InsertMlfq(mlfq, Boosted(st), [p \in Proc |-> 0])
BoostFieldKept(st, f)   == f
BoostMlfq(st)     == InsertMlfq(EmptyMlfq, Boosted(st), [p \in Proc |-> 0])
BoostField(st, f) == [p \in Proc |-> IF p \in Boosted(st) THEN 0 ELSE f[p]]

\* wakeup1(): the sleepers S become runnable, the others of the MoQ stay out
\* of the MLFQ
Woken(st, S)  == [p \in Proc |-> IF p \in S THEN "RUNNABLE" ELSE st[p]]
Requeue(m, S) == InsertMlfq(m, {p \in S : monopoly[p] = 0}, level)
TickSleepers  == {p \in Proc : state[p] = "SLEEPING" /\ chan[p] = "ticks"}
Waiting(p)    == {q \in {p} \ {NoProc} : state[q] = "SLEEPING" /\ chan[q] = "self"}

\* the first slot of a set, in the order of a scan of the table
FirstSlot(S) == CHOOSE p \in S : \A q \in S : p <= q
WithPid(x)   == {p \in Proc : pid[p] = x}
Children(p)  == {q \in Proc : parent[q] = p}

\* p runs on c, outside any trap, at a point of the set S
Running(c, p, S) ==
  /\ cpc[c] = "run"
  /\ cproc[c] = p
  /\ trap[p] = "none"
  /\ at[p] \in S

\* entering the kernel for a call: a killed process does not get that far
Call(c, p, name) ==
  /\ Running(c, p, {"user"})
  /\ killed[p] = 0
  /\ name \in Calls

LockFree == lock = NoCpu

\* tickslock is held in the handler of the tick, and in sys_sleep() from the
\* comparison to the call of sleep()
TicksLockFree ==
  /\ \A c \in CPUS : cpc[c] # "tickwake"
  /\ \A p \in Proc : trap[p] # "wakeup" /\ at[p] \notin {"sleepchk", "gosleep"}

\* mutant: the lock is released before swtch()
SwitchUnlocked(c) ==
  /\ lock' = NoCpu
  /\ cpc' = [cpc EXCEPT ![c] = "back"]

\* sched(): back to the scheduler of this CPU, ptable.lock still held
SwitchToScheduler(c) ==
  /\ lock' = c
  /\ cpc' = [cpc EXCEPT ![c] = "back"]

-----------------------------------------------------------------------------
(* scheduler(), before it runs a process *)

Stale(p) == monopoly[p] = 1 \/ state[p] # "RUNNABLE"

\* the first queue of the MLFQ that is not empty, and what is left of the MLFQ
\* once the loop over the queues has ended without finding a process: a stale
\* head is gone, and with it the other entries' turn
AnyQueue(l)   == mlfq.q[l] # <<>>       \* mutant: levels in any order
FirstQueue(l) == mlfq.q[l] # <<>> /\ \A k \in QLevel : k < l => mlfq.q[k] = <<>>
NoQueueHead ==
  \A l \in QLevel : FirstQueue(l) => Stale(Head(mlfq.q[l]))
AfterQueues ==
  [mlfq EXCEPT !.q = [l \in QLevel |->
     IF FirstQueue(l) THEN Tail(mlfq.q[l]) ELSE mlfq.q[l]]]

\* acquire(&ptable.lock) at the top of the loop
InScheduler(c, m) ==
  /\ cpc[c] = "loop"
  /\ LockFree
  /\ cmono[c] = m

Dispatch(c, p, branch) ==
  /\ state' = [state EXCEPT ![p] = "RUNNING"]
  /\ lock' = c
  /\ cpc' = [cpc EXCEPT ![c] = "resume"]
  /\ cproc' = [cproc EXCEPT ![c] = p]
  /\ cbranch' = [cbranch EXCEPT ![c] = branch]
  /\ UNCHANGED <<procVars, chan, killed, schedVars, nextpid, ticks, cmono,
                 stackVars, panicked>>

PickQueue(c) ==
  /\ InScheduler(c, 0)
  /\ \E l \in QLevel :
       /\ FirstQueue(l)
       /\ ~ Stale(Head(mlfq.q[l]))
       /\ mlfq' = DropHead(mlfq, l)
       /\ Dispatch(c, Head(mlfq.q[l]), "mlfq")
  /\ UNCHANGED moq

PickHeap(c) ==
  /\ InScheduler(c, 0)
  /\ NoQueueHead
  /\ \E p \in HeapMembers(mlfq) :
       /\ ~ Stale(p)
       /\ mlfq' = HeapRemove(AfterQueues, p)
       /\ Dispatch(c, p, "mlfq")
  /\ UNCHANGED moq

\* the "continue" of the heap branch leaves ptable.lock held
PickHeapStale(c) ==
  /\ InScheduler(c, 0)
  /\ NoQueueHead
  /\ \E p \in HeapMembers(mlfq) :
       /\ Stale(p)
       /\ mlfq' = HeapRemove(AfterQueues, p)
  /\ lock' = c
  /\ UNCHANGED <<state, procVars, chan, killed, schedVars, nextpid, ticks, moq,
                 cpuVars, stackVars, panicked>>

\* the next acquire() by the CPU that already holds the lock
AcquirePanic(c) ==
  /\ cpc[c] = "loop"
  /\ lock = c
  /\ panicked' = TRUE
  /\ UNCHANGED <<state, procVars, chan, killed, schedVars, nextpid, ticks,
                 queueVars, lock, cpuVars, stackVars>>

PickNone(c) ==
  /\ InScheduler(c, 0)
  /\ NoQueueHead
  /\ HeapMembers(mlfq) = {}
  /\ IF BoostDue
     THEN /\ mlfq' = BoostMlfq(state)
          /\ level' = BoostField(state, level)
          /\ tq' = BoostField(state, tq)
          /\ ticks' = 0
     ELSE /\ mlfq' = AfterQueues
          /\ UNCHANGED <<level, tq, ticks>>
  /\ UNCHANGED <<state, procVars, chan, killed, monopoly, nextpid, moq, lock,
                 cpuVars, stackVars, panicked>>

PickMoq(c) ==
  /\ InScheduler(c, 1)
  /\ moq # <<>>
  /\ state[Head(moq)] = "RUNNABLE"
  /\ moq' = Tail(moq)
  /\ Dispatch(c, Head(moq), "moq")
  /\ UNCHANGED mlfq

RotateMoq(c) ==
  /\ InScheduler(c, 1)
  /\ moq # <<>>
  /\ state[Head(moq)] # "RUNNABLE"
  /\ moq' = Enqueue(Tail(moq), Head(moq))
  /\ UNCHANGED <<state, procVars, chan, killed, schedVars, nextpid, ticks, mlfq,
                 lock, cpuVars, stackVars, panicked>>

PickMoqEmpty(c) ==
  /\ InScheduler(c, 1)
  /\ moq = <<>>
  /\ cmono' = [cmono EXCEPT ![c] = 0]
  /\ ticks' = 0
  /\ UNCHANGED <<state, procVars, chan, killed, schedVars, nextpid, queueVars,
                 lock, cpc, cproc, cbranch, stackVars, panicked>>

-----------------------------------------------------------------------------
(* swtch() to the process, and back *)

\* the process releases ptable.lock and goes on where it gave up the CPU;
\* in wait() it keeps the lock and scans again, see WaitScan
Resume(c, p) ==
  /\ cpc[c] = "resume" /\ cproc[c] = p
  /\ at[p] # "wait"
  /\ lock' = NoCpu
  /\ cpc' = [cpc EXCEPT ![c] = "run"]
  /\ trap' = [trap EXCEPT ![p] = IF @ = "yieldtick" THEN "count" ELSE "none"]
  /\ IF trap[p] = "none"
     THEN /\ at' = [at EXCEPT ![p] =
                      IF @ \in {"forkret", "setmono"} THEN "user" ELSE @]
          /\ chan' = [chan EXCEPT ![p] = "none"]
     ELSE UNCHANGED <<at, chan>>
  /\ UNCHANGED <<state, procVars, killed, schedVars, nextpid, ticks,
                 queueVars, cproc, cmono, cbranch, np, loclevel, panicked>>

\* the rest of the loop of scheduler(), after swtch() returned
SchedBack(c) ==
  /\ cpc[c] = "back"
  /\ lock' = NoCpu
  /\ cpc' = [cpc EXCEPT ![c] = "loop"]
  /\ cproc' = [cproc EXCEPT ![c] = NoProc]
  /\ cbranch' = [cbranch EXCEPT ![c] = "mlfq"]
  /\ IF cbranch[c] = "mlfq" /\ BoostDue
     THEN /\ mlfq' = BoostMlfq(state)
          /\ level' = BoostField(state, level)
          /\ tq' = BoostField(state, tq)
          /\ ticks' = 0
     ELSE UNCHANGED <<mlfq, level, tq, ticks>>
  /\ UNCHANGED <<state, procVars, chan, killed, monopoly, nextpid, moq, cmono,
                 stackVars, panicked>>

\* yield() starts a new quantum; mutant: it does not
TqKept(p) == tq
NewTq(p)  == [tq EXCEPT ![p] = 0]

\* yield(), up to the swtch() in sched()
Yield(c, p) ==
  LET st == [state EXCEPT ![p] = "RUNNABLE"]
      t  == NewTq(p)
  IN  /\ LockFree
      /\ state' = st
      /\ IF cmono[c] = 0 /\ AtPeriod
         THEN /\ mlfq' = BoostMlfq(st)
              /\ level' = BoostField(st, level)
              /\ tq' = BoostField(st, t)
              /\ ticks' = 0
         ELSE /\ mlfq' = Requeue(mlfq, {p})
              /\ tq' = t
              /\ UNCHANGED <<level, ticks>>
      /\ SwitchToScheduler(c)
      /\ UNCHANGED <<procVars, chan, killed, monopoly, nextpid, moq, cproc,
                     cmono, cbranch, stackVars, panicked>>

-----------------------------------------------------------------------------
(* trap(): the timer interrupt *)

\* a process takes an interrupt wherever it holds no lock
Interruptible(c, p) ==
  Running(c, p, {"user", "fork", "setmono", "asleep", "exit"})

\* ticks++ under tickslock, on the CPU with cpuid() 0
Tick(c, p) ==
  /\ c = BootCpu
  /\ TicksLockFree
  /\ Interruptible(c, p)
  /\ trap' = [trap EXCEPT ![p] = "wakeup"]
  /\ ticks' = NextTick
  /\ UNCHANGED <<state, procVars, chan, killed, schedVars, nextpid, queueVars,
                 lock, cpuVars, at, np, loclevel, panicked>>

\* the same in the loop of the scheduler, before it acquires ptable.lock
IdleTick(c) ==
  /\ c = BootCpu
  /\ TicksLockFree
  /\ cpc[c] = "loop" /\ lock # c
  /\ cpc' = [cpc EXCEPT ![c] = "tickwake"]
  /\ ticks' = NextTick
  /\ UNCHANGED <<state, procVars, chan, killed, schedVars, nextpid, queueVars,
                 lock, cproc, cmono, cbranch, stackVars, panicked>>

\* a process killed meanwhile exits if the trap came from user space, else it
\* goes on to the accounting
AfterIrq(p) ==
  IF killed[p] = 1 /\ at[p] = "user"
  THEN trap' = [trap EXCEPT ![p] = "none"] /\ at' = [at EXCEPT ![p] = "exit"]
  ELSE trap' = [trap EXCEPT ![p] = "acct"] /\ UNCHANGED at

\* wakeup(&ticks)
WakeupTicks ==
  /\ LockFree
  /\ state' = Woken(state, TickSleepers)
  /\ mlfq' = Requeue(mlfq, TickSleepers)
  /\ UNCHANGED <<procVars, chan, killed, schedVars, nextpid, ticks, moq, lock,
                 cproc, cmono, cbranch, np, loclevel, panicked>>

InTrap(c, p, point) == cpc[c] = "run" /\ cproc[c] = p /\ trap[p] = point

TickWakeup(c, p) ==
  InTrap(c, p, "wakeup") /\ AfterIrq(p) /\ WakeupTicks /\ UNCHANGED cpc

IdleTickWakeup(c) ==
  /\ cpc[c] = "tickwake"
  /\ cpc' = [cpc EXCEPT ![c] = "loop"]
  /\ WakeupTicks
  /\ UNCHANGED <<trap, at>>

\* the timer of another CPU
OtherTimer(c, p) ==
  /\ c # BootCpu
  /\ Interruptible(c, p)
  /\ AfterIrq(p)
  /\ UNCHANGED <<state, procVars, chan, killed, schedVars, nextpid, ticks,
                 queueVars, lock, cpuVars, np, loclevel, panicked>>

\* int level = p->level; int tq = ++p->tq; if(tq >= 2 + level * 2)
Count(p) ==
  /\ tq' = [tq EXCEPT ![p] = @ + 1]
  /\ IF tq[p] + 1 >= Quantum(level[p])
     THEN /\ trap' = [trap EXCEPT ![p] = "expire"]
          /\ loclevel' = [loclevel EXCEPT ![p] = level[p]]
     ELSE /\ trap' = [trap EXCEPT ![p] = "none"]
          /\ UNCHANGED loclevel

\* which way the accounting goes: the MoQ has no quantum, and only a CPU that
\* has left the monopoly mode takes it from a process of the MoQ
TrapAccount(c, p) ==
  /\ InTrap(c, p, "acct")
  /\ \/ /\ monopoly[p] = 0
        /\ AtPeriod
        /\ trap' = [trap EXCEPT ![p] = "yieldtick"]
        /\ UNCHANGED <<tq, loclevel>>
     \/ /\ monopoly[p] = 0
        /\ ~ AtPeriod
        /\ Count(p)
     \/ /\ monopoly[p] = 1
        /\ trap' = [trap EXCEPT ![p] = IF cmono[c] = 0 THEN "yieldlast" ELSE "none"]
        /\ UNCHANGED <<tq, loclevel>>
  /\ UNCHANGED <<state, procVars, chan, killed, level, monopoly, nextpid, ticks,
                 queueVars, lock, cpuVars, at, np, panicked>>

TrapCount(c, p) ==
  /\ InTrap(c, p, "count")
  /\ Count(p)
  /\ UNCHANGED <<state, procVars, chan, killed, level, monopoly, nextpid, ticks,
                 queueVars, lock, cpuVars, at, np, panicked>>

\* the quantum is used up: down a level, by the parity of the pid from level 0;
\* mutant: the lowest level is not the last
NextLevelUnbounded(p) == level[p] + 1
NextLevel(p) ==
  CASE level[p] = 3                            -> 3
    [] level[p] # 3 /\ loclevel[p] \in {1, 2}  -> 3
    [] level[p] # 3 /\ loclevel[p] = 0         -> IF pid[p] % 2 = 1 THEN 1 ELSE 2
    [] OTHER                                   -> level[p]

TrapExpire(c, p) ==
  /\ InTrap(c, p, "expire")
  /\ level' = [level EXCEPT ![p] = NextLevel(p)]
  /\ loclevel' = [loclevel EXCEPT ![p] = 0]
  /\ trap' = [trap EXCEPT ![p] = "yieldlast"]
  /\ UNCHANGED <<state, procVars, chan, killed, tq, monopoly, nextpid, ticks,
                 queueVars, lock, cpuVars, at, np, panicked>>

TrapYield(c, p) ==
  /\ InTrap(c, p, "yieldtick") \/ InTrap(c, p, "yieldlast")
  /\ Yield(c, p)

\* "if(myproc()->killed) exit();" on the way into or out of a call or a trap
KilledExit(c, p) ==
  /\ Running(c, p, {"user"})
  /\ killed[p] = 1
  /\ at' = [at EXCEPT ![p] = "exit"]
  /\ UNCHANGED <<state, procVars, chan, killed, schedVars, nextpid, ticks,
                 queueVars, lock, cpuVars, trap, np, loclevel, panicked>>

-----------------------------------------------------------------------------
(* System calls *)

\* allocproc(): the first UNUSED slot becomes EMBRYO (fork() returns -1 and
\* changes nothing when there is none)
SysFork(c, p) ==
  /\ Call(c, p, "fork")
  /\ LockFree
  /\ nextpid <= MaxPid
  /\ \E q \in Proc : state[q] = "UNUSED"
  /\ LET q == FirstSlot({x \in Proc : state[x] = "UNUSED"})
     IN  /\ state' = [state EXCEPT ![q] = "EMBRYO"]
         /\ pid' = [pid EXCEPT ![q] = nextpid]
         /\ level' = [level EXCEPT ![q] = 0]
         /\ tq' = [tq EXCEPT ![q] = 0]
         /\ np' = [np EXCEPT ![p] = q]
         /\ at' = [at EXCEPT ![p] = "fork", ![q] = "forkret"]
  /\ nextpid' = nextpid + 1
  /\ UNCHANGED <<parent, chan, killed, monopoly, ticks, queueVars, lock,
                 cpuVars, trapVars, panicked>>

\* no memory for the kernel stack or the page table: the slot is given back,
\* without ptable.lock
ForkFail(c, p) ==
  /\ Running(c, p, {"fork"})
  /\ state' = [state EXCEPT ![np[p]] = "UNUSED"]
  /\ np' = [np EXCEPT ![p] = NoProc]
  /\ at' = [at EXCEPT ![p] = "user"]
  /\ UNCHANGED <<procVars, chan, killed, schedVars, nextpid, ticks, queueVars,
                 lock, cpuVars, trapVars, panicked>>

\* the level fork() gives the child; mutant: the assignment is forgotten
LevelKept(q)   == level
ForkedLevel(q) == [level EXCEPT ![q] = 0]

ForkDone(c, p) ==
  /\ Running(c, p, {"fork"})
  /\ LockFree
  /\ LET q    == np[p]
         lev  == ForkedLevel(q)
     IN  /\ parent' = [parent EXCEPT ![q] = p]
         /\ state' = [state EXCEPT ![q] = "RUNNABLE"]
         /\ level' = lev
         /\ tq' = [tq EXCEPT ![q] = 0]
         /\ monopoly' = [monopoly EXCEPT ![q] = 0]
         /\ mlfq' = InsertMlfq(mlfq, {q}, lev)
  /\ np' = [np EXCEPT ![p] = NoProc]
  /\ at' = [at EXCEPT ![p] = "user"]
  /\ UNCHANGED <<pid, chan, killed, nextpid, ticks, moq, lock, cpuVars,
                 trapVars, panicked>>

\* the programs: init never exits
SysExit(c, p) ==
  /\ p # InitProc
  /\ Call(c, p, "exit")
  /\ at' = [at EXCEPT ![p] = "exit"]
  /\ UNCHANGED <<state, procVars, chan, killed, schedVars, nextpid, ticks,
                 queueVars, lock, cpuVars, trapVars, np, panicked>>

\* exit() passes the children of p to init, and wakes it for a zombie; mutants:
\* children keep their parent, init is not woken
ParentsKept(p)  == parent
InitNotWoken(p) == {}
Reparented(p) == [q \in Proc |-> IF parent[q] = p THEN InitProc ELSE parent[q]]
InitWoken(p)  ==
  IF \E q \in Children(p) : state[q] = "ZOMBIE" THEN Waiting(InitProc) ELSE {}

\* exit() wakes its parent, hands its children to init and wakes init when one
\* of them is a zombie; init itself panics
Exit(c, p) ==
  /\ Running(c, p, {"exit"})
  /\ IF p = InitProc
     THEN /\ panicked' = TRUE
          /\ UNCHANGED <<state, parent, mlfq, lock, cpc>>
     ELSE /\ LockFree
          /\ LET woken1 == Waiting(parent[p])
                 woken2 == InitWoken(p) \ woken1
             IN  /\ state' = [Woken(state, woken1 \cup woken2) EXCEPT ![p] = "ZOMBIE"]
                 /\ mlfq' = Requeue(Requeue(mlfq, woken1), woken2)
          /\ parent' = Reparented(p)
          /\ SwitchToScheduler(c)
          /\ UNCHANGED panicked
  /\ UNCHANGED <<pid, chan, killed, schedVars, nextpid, ticks, moq, cproc,
                 cmono, cbranch, stackVars>>

\* wait(), from the call or from where sleep() left it: one scan of the table
\* under ptable.lock reaps the first zombie, gives up or goes to sleep
Reap(c, p) ==
  /\ \E z \in Children(p) : state[z] = "ZOMBIE"
  /\ LET z == FirstSlot({x \in Children(p) : state[x] = "ZOMBIE"})
     IN  /\ pid' = [pid EXCEPT ![z] = 0]
         /\ parent' = [parent EXCEPT ![z] = NoProc]
         /\ killed' = [killed EXCEPT ![z] = 0]
         /\ state' = [state EXCEPT ![z] = "UNUSED"]
  /\ at' = [at EXCEPT ![p] = "user"]
  /\ chan' = [chan EXCEPT ![p] = "none"]
  /\ lock' = NoCpu
  /\ cpc' = [cpc EXCEPT ![c] = "run"]
  /\ UNCHANGED moq

NoChild(c, p) ==
  /\ \A z \in Children(p) : state[z] # "ZOMBIE"
  /\ Children(p) = {} \/ killed[p] = 1
  /\ at' = [at EXCEPT ![p] = "user"]
  /\ chan' = [chan EXCEPT ![p] = "none"]
  /\ lock' = NoCpu
  /\ cpc' = [cpc EXCEPT ![c] = "run"]
  /\ UNCHANGED <<state, pid, parent, killed, moq>>

\* sleep() from its last test to sched(); a process of the MoQ keeps its place;
\* mutant: it does not
GoToSleepOutOfMoq(c, p, ch) ==
  /\ chan' = [chan EXCEPT ![p] = ch]
  /\ state' = [state EXCEPT ![p] = "SLEEPING"]
  /\ moq' = moq
  /\ SwitchToScheduler(c)

GoToSleep(c, p, ch) ==
  /\ chan' = [chan EXCEPT ![p] = ch]
  /\ state' = [state EXCEPT ![p] = "SLEEPING"]
  /\ moq' = IF monopoly[p] = 1 THEN Enqueue(moq, p) ELSE moq
  /\ SwitchToScheduler(c)

\* mutants: before it sleeps, wait() does not look at killed, or whether there
\* are any children
WaitSleepKilled(c, p) ==
  /\ \A z \in Children(p) : state[z] # "ZOMBIE"
  /\ Children(p) # {}
  /\ GoToSleep(c, p, "self")
  /\ at' = [at EXCEPT ![p] = "wait"]
  /\ UNCHANGED <<pid, parent, killed>>

WaitSleepChildless(c, p) ==
  /\ \A z \in Children(p) : state[z] # "ZOMBIE"
  /\ killed[p] = 0
  /\ GoToSleep(c, p, "self")
  /\ at' = [at EXCEPT ![p] = "wait"]
  /\ UNCHANGED <<pid, parent, killed>>

WaitSleep(c, p) ==
  /\ \A z \in Children(p) : state[z] # "ZOMBIE"
  /\ Children(p) # {} /\ killed[p] = 0
  /\ GoToSleep(c, p, "self")
  /\ at' = [at EXCEPT ![p] = "wait"]
  /\ UNCHANGED <<pid, parent, killed>>

WaitScan(c, p) ==
  /\ Reap(c, p) \/ NoChild(c, p) \/ WaitSleep(c, p)
  /\ UNCHANGED <<schedVars, nextpid, ticks, mlfq, cproc, cmono, cbranch,
                 trapVars, np, panicked>>

SysWait(c, p) == Call(c, p, "wait") /\ LockFree /\ WaitScan(c, p)

WaitAgain(c, p) ==
  cpc[c] = "resume" /\ cproc[c] = p /\ at[p] = "wait" /\ WaitScan(c, p)

SysKill(c, p) ==
  \E x \in PidArgs :
    /\ Call(c, p, "kill")
    /\ LockFree
    /\ WithPid(x) # {}
    /\ LET q == FirstSlot(WithPid(x))
       IN  /\ killed' = [killed EXCEPT ![q] = 1]
           /\ state' = [state EXCEPT ![q] = IF @ = "SLEEPING" THEN "RUNNABLE" ELSE @]
    /\ UNCHANGED <<procVars, chan, schedVars, nextpid, ticks, queueVars, lock,
                   cpuVars, stackVars, panicked>>

\* sys_sleep() acquires tickslock, at first and when sleep() returns, ...
SleepLock(p) ==
  /\ TicksLockFree
  /\ at' = [at EXCEPT ![p] = "sleepchk"]
  /\ UNCHANGED <<state, procVars, chan, killed, schedVars, nextpid, ticks,
                 queueVars, lock, cpuVars, trapVars, np, panicked>>

SysSleep(c, p)   == Call(c, p, "sleep") /\ SleepLock(p)
SleepAgain(c, p) == Running(c, p, {"asleep"}) /\ SleepLock(p)

\* ... returns when the time is over or it has been killed, else ...
SleepCheck(c, p) ==
  /\ Running(c, p, {"sleepchk"})
  /\ \/ at' = [at EXCEPT ![p] = "user"]
     \/ killed[p] = 0 /\ at' = [at EXCEPT ![p] = "gosleep"]
  /\ UNCHANGED <<state, procVars, chan, killed, schedVars, nextpid, ticks,
                 queueVars, lock, cpuVars, trapVars, np, panicked>>

\* ... sleeps: sleep() acquires ptable.lock before it releases tickslock
SleepOnTicks(c, p) ==
  /\ Running(c, p, {"gosleep"})
  /\ LockFree
  /\ GoToSleep(c, p, "ticks")
  /\ at' = [at EXCEPT ![p] = "asleep"]
  /\ UNCHANGED <<procVars, killed, schedVars, nextpid, ticks, mlfq, cproc,
                 cmono, cbranch, trapVars, np, panicked>>

SysYield(c, p) == Call(c, p, "yield") /\ Yield(c, p)

\* setmonopoly() with the password; a process that names itself then yields,
\* after it has released ptable.lock
SysSetMonopoly(c, p) ==
  \E x \in PidArgs :
    /\ Call(c, p, "setmonopoly")
    /\ LockFree
    /\ WithPid(x) # {}
    /\ LET q == FirstSlot(WithPid(x))
       IN  /\ monopoly' = [monopoly EXCEPT ![q] = 1]
           /\ level' = [level EXCEPT ![q] = Monopoly]
           /\ moq' = Enqueue(moq, q)
    /\ at' = [at EXCEPT ![p] = IF pid[p] = x THEN "setmono" ELSE "user"]
    /\ UNCHANGED <<state, procVars, chan, killed, tq, nextpid, ticks, mlfq, lock,
                   cpuVars, trapVars, np, panicked>>

SetMonopolyYield(c, p) ==
  Running(c, p, {"setmono"}) /\ Yield(c, p)

SetCpuMonopoly(c, v) == cmono' = [cmono EXCEPT ![c] = v]

SysMonopolize(c, p) ==
  /\ Call(c, p, "monopolize")
  /\ SetCpuMonopoly(c, 1)
  /\ UNCHANGED <<state, procVars, chan, killed, schedVars, nextpid, ticks,
                 queueVars, lock, cpc, cproc, cbranch, stackVars, panicked>>

SysUnmonopolize(c, p) ==
  /\ Call(c, p, "unmonopolize")
  /\ SetCpuMonopoly(c, 0)
  /\ ticks' = 0
  /\ UNCHANGED <<state, procVars, chan, killed, schedVars, nextpid, queueVars,
                 lock, cpc, cproc, cbranch, stackVars, panicked>>

-----------------------------------------------------------------------------
\* the loop of scheduler()
SchedulerStep(c) ==
  \/ PickQueue(c) \/ PickHeap(c) \/ PickHeapStale(c) \/ PickNone(c)
  \/ PickMoq(c) \/ RotateMoq(c) \/ PickMoqEmpty(c)
  \/ AcquirePanic(c) \/ SchedBack(c)

Timer(c, p) == Tick(c, p) \/ OtherTimer(c, p)

\* what a process goes on to do by itself: in an interrupt, ...
TrapStep(c, p) ==
  \/ Resume(c, p) \/ TickWakeup(c, p) \/ TrapAccount(c, p) \/ TrapCount(c, p)
  \/ TrapExpire(c, p) \/ TrapYield(c, p)

\* ... and in a call
CallStep(c, p) ==
  \/ KilledExit(c, p) \/ ForkFail(c, p) \/ ForkDone(c, p) \/ Exit(c, p)
  \/ WaitAgain(c, p) \/ SleepAgain(c, p) \/ SleepCheck(c, p)
  \/ SleepOnTicks(c, p) \/ SetMonopolyYield(c, p)

SystemCall(c, p) ==
  \/ SysFork(c, p) \/ SysExit(c, p) \/ SysWait(c, p) \/ SysKill(c, p)
  \/ SysSleep(c, p) \/ SysYield(c, p) \/ SysSetMonopoly(c, p)
  \/ SysMonopolize(c, p) \/ SysUnmonopolize(c, p)

ProcessStep(c, p) ==
  /\ cproc[c] = p
  /\ Timer(c, p) \/ TrapStep(c, p) \/ CallStep(c, p) \/ SystemCall(c, p)

Step(c) ==
  /\ ~ panicked
  /\ \/ SchedulerStep(c) \/ IdleTick(c) \/ IdleTickWakeup(c)
     \/ \E p \in Proc : ProcessStep(c, p)

Next == \E c \in CPUS : Step(c)

Spec == Init /\ [][Next]_vars

-----------------------------------------------------------------------------
(* Properties *)

\* sched() and swtch(): a process is on the stack of at most one CPU, and it is
\* RUNNING exactly while a CPU executes it.  The CPU that has set it RUNNABLE
\* still uses its stack, and only ptable.lock keeps the others from picking it.
OneCpu ==
  /\ \A c, d \in CPUS : cproc[c] = cproc[d] /\ c # d => cproc[c] = NoProc
  /\ \A p \in Proc :
       state[p] = "RUNNING" <=> \E c \in CPUS : cproc[c] = p /\ cpc[c] # "back"

\* wait() frees the stack of a zombie: never while the zombie is still on it,
\* on its way from exit() into the scheduler of its CPU
StackInUse ==
  \A c \in CPUS : \A p \in Proc : cproc[c] = p => state[p] \notin {"UNUSED", "EMBRYO"}

\* a process asleep in wait() has a child to wait for, and no exit has been
\* missed: none of its children, adopted ones included, is a zombie
NoMissedExit ==
  \A p \in Proc :
    state[p] = "SLEEPING" /\ chan[p] = "self" =>
      /\ Children(p) # {}
      /\ \A q \in Children(p) : state[q] # "ZOMBIE"

\* the parent a process reports its exit to is one that can still wait for it
ParentAlive ==
  \A p \in Proc :
    parent[p] # NoProc => state[parent[p]] \notin {"UNUSED", "EMBRYO", "ZOMBIE"}

\* kill() reaches a process that waits for its children: it is not asleep in
\* wait() with killed set, whatever the order of kill(), wakeups and the scan
KillReachesWait ==
  \A p \in Proc : killed[p] = 1 /\ state[p] = "SLEEPING" => chan[p] = "ticks"

\* as long as no process is monopolized: a runnable process waits in exactly
\* one place of the MLFQ and nothing else is in it, but for a process that
\* kill() made runnable, which no queue holds until the next boost
QueuedOnce ==
  \A p \in Proc :
    IF state[p] = "RUNNABLE"
    THEN Entries(mlfq, p) = 1 \/ (killed[p] = 1 /\ Entries(mlfq, p) = 0)
    ELSE Entries(mlfq, p) = 0

\* a process of the MLFQ waits in the queue of its level, in the heap at level 3
QueueOfLevel ==
  \A p \in Proc :
    /\ \A e \in QueueEntries(mlfq, p) : level[p] = e[1]
    /\ p \in HeapMembers(mlfq) => level[p] = 3

\* as long as no process is monopolized, the heap holds no process that
\* scheduler() would have to skip with ptable.lock held: a CPU in the loop of
\* scheduler() never holds it
LockReleased ==
  /\ ~ panicked
  /\ \A c \in CPUS : lock = c <=> cpc[c] \in {"resume", "back"}

\* as long as no process is monopolized, the three together: who waits, where, and
\* that scheduler() comes out of the queues with the lock it should have
QueuesCorrect == QueuedOnce /\ QueueOfLevel /\ LockReleased

\* a dispatch never passes over a queued process of a better level
PickLowestLevel ==
  [][\A p \in Proc :
       state[p] = "RUNNABLE" /\ state'[p] = "RUNNING" =>
         \A q \in Proc : state[q] = "RUNNABLE" /\ killed[q] = 0 => level[p] <= level[q]]_vars

\* a process off the timer interrupt has not used up the quantum of its level:
\* no path through yield(), sleep() or a boost lets it carry on with more
TqBounded ==
  \A p \in Proc : trap[p] = "none" /\ monopoly[p] = 0 => tq[p] < Quantum(level[p])

\* level 99 is left to the processes of the MoQ: a slot that was monopolized before
\* fork() finished or failed does not start with it, nor one that was monopolized in
\* its former life (whose exit() is out of the bounds of the run, not of the theorem)
MonopolyLevelOnly ==
  \A p \in Proc : level[p] = Monopoly => monopoly[p] = 1

\* the MoQ can take one more; a sleeping process of it is or is not in it
MoqHasRoom == Len(moq) < QueueCapacity

AsleepOutOfMoq(p) ==
  /\ state[p] = "SLEEPING"
  /\ monopoly[p] = 1
  /\ \A i \in DOMAIN moq : moq[i] # p

\* a process of the MoQ that sleeps can be found there when it is woken: no step
\* that begins with room in the MoQ, be it a dispatch, a rotation, a setmonopoly()
\* of this process or of another, or its own sleep(), leaves it in no queue.
\* (When the MoQ is full insertqueue() drops an entry, so that a process of it
\* does sleep outside, which the doubled entries of another one can bring about.)
MoqHoldsSleepers ==
  [][MoqHasRoom => \A p \in Proc : AsleepOutOfMoq(p)' => AsleepOutOfMoq(p)]_vars

\* (of SchedulerTiming) every runnable process runs again: the boost reaches the processes of the
\* lower queues, and those that kill() left out of every queue
NoStarvation ==
  \A p \in Proc : state[p] = "RUNNABLE" ~> state[p] = "RUNNING"

\* (of SchedulerTiming) a killed process exits, wherever it was killed
KilledExits ==
  \A p \in Proc : killed[p] = 1 ~> state[p] \in {"ZOMBIE", "UNUSED"}

-----------------------------------------------------------------------------
(* What the repository says and the code does not keep *)

\* spinlock.c, acquire(): a CPU that acquires a lock does not hold it
NoAcquirePanic == ~ panicked

\* param.h: NPROC is the "maximum number of processes": with that many, each
\* runnable one is still in the MLFQ, unless kill() made it runnable
RunnableQueued ==
  \A p \in Proc :
    state[p] = "RUNNABLE" /\ monopoly[p] = 0 /\ killed[p] = 0 =>
      Entries(mlfq, p) >= 1

\* test.c and rn_test.c count a process as monopolized when getlev() is 99
MonopolyHasLevel ==
  \A p \in Proc :
    monopoly[p] = 1 /\ state[p] \notin {"UNUSED", "EMBRYO"} => level[p] = Monopoly

\* (of SchedulerTiming) rn_test4: after monopolize() every process that monopolized itself runs to
\* its exit, and the parent waits for it
MonopolizedRuns ==
  \A p \in Proc :
    monopoly[p] = 1 /\ state[p] = "RUNNABLE" /\ (\E c \in CPUS : cmono[c] = 1)
      ~> state[p] = "RUNNING"
=============================================================================
