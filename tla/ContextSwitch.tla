--------------------------- MODULE ContextSwitch ---------------------------
(***************************************************************************)
(* Spin locks, the interrupt flag and the switch between kernel threads in *)
(* the kernel of project 1: acquire(), release(), pushcli() and popcli()   *)
(* of spinlock.c, scheduler(), sched(), forkret() and their callers in     *)
(* proc.c.  The interrupt flag and the nesting of pushcli() belong to a    *)
(* CPU, ptable.lock is handed from thread to thread, and a process may go  *)
(* on on another CPU than the one it left.                                 *)
(***************************************************************************)
EXTENDS Integers, Sequences

CONSTANTS
  Cpu, Proc,
  First,          \* the CPU that counts the ticks
  InitProc,       \* the process that forks and waits for the others
  None

ASSUME ThreadAssumption ==
  First \in Cpu /\ InitProc \in Proc /\ Cpu \cap Proc = {} /\ None \notin Cpu

VARIABLES
  cpu,            \* by CPU: interrupt flag, ncli, intena and the thread that runs
  lock,           \* by lock: the CPU that holds it
  state,          \* by process
  stack,          \* by thread: the frames of the kernel code it is in
  saved           \* by process: the local intena of sched()

vars == <<cpu, lock, state, stack, saved>>

Thread == Cpu \cup Proc          \* the scheduler thread of a CPU goes by its name
Lock   == {"ptable", "ticks"}

\* what the kernel does with locks and threads, step by step
Program == [
  scheduler |-> <<<<"sti">>, <<"acquire", "ptable">>, <<"pick">>, <<"release", "ptable">>>>,
  timer     |-> <<<<"acquire", "ticks">>, <<"acquire", "ptable">>, <<"wakeup">>,
                  <<"release", "ptable">>, <<"release", "ticks">>,
                  <<"acquire", "ptable">>, <<"sched", "RUNNABLE">>, <<"resume">>,
                  <<"release", "ptable">>, <<"iret">>>>,
  sleep     |-> <<<<"acquire", "ticks">>, <<"acquire", "ptable">>, <<"release", "ticks">>,
                  <<"sched", "SLEEPING">>, <<"resume">>, <<"release", "ptable">>,
                  <<"acquire", "ticks">>, <<"release", "ticks">>, <<"iret">>>>,
  wait      |-> <<<<"acquire", "ptable">>, <<"scan">>, <<"resume">>,
                  <<"release", "ptable">>, <<"iret">>>>,
  fork      |-> <<<<"acquire", "ptable">>, <<"fork">>, <<"release", "ptable">>, <<"iret">>>>,
  forkret   |-> <<<<"release", "ptable">>, <<"iret">>>>,
  exit      |-> <<<<"acquire", "ptable">>, <<"wakeup">>, <<"sched", "ZOMBIE">>>>]

Tick  == 1        \* where a timer interrupt starts, on the first CPU and
Yield == 6        \* on the others

\* flags: what pushcli() has read of the interrupt flag
Frame(code, pc) == [code |-> code, pc |-> pc, flags |-> None]

Top(t)    == stack[t][Len(stack[t])]
Op(t)     == Program[Top(t).code][Top(t).pc]
Running(c) == cpu[c].thread
InKernel(c) == stack[Running(c)] # <<>>
At(c, op) == InKernel(c) /\ Op(Running(c))[1] = op

Goto(t, pc)  == [stack EXCEPT ![t][Len(stack[t])] = Frame(@.code, pc)]
Advance(t)   == Goto(t, Top(t).pc + 1)

TypeOK ==
  /\ cpu \in [Cpu -> [if : BOOLEAN, ncli : 0 .. 2, intena : BOOLEAN, thread : Thread]]
  /\ lock \in [Lock -> Cpu \cup {None}]
  /\ state \in [Proc -> {"UNUSED", "RUNNABLE", "RUNNING", "SLEEPING", "ZOMBIE"}]
  /\ saved \in [Proc -> BOOLEAN]
  /\ \A t \in Thread : Len(stack[t]) <= 2

Init ==
  /\ cpu = [c \in Cpu |-> [if |-> FALSE, ncli |-> 0, intena |-> FALSE, thread |-> c]]
  /\ lock = [l \in Lock |-> None]
  /\ state = [p \in Proc |-> IF p = InitProc THEN "RUNNABLE" ELSE "UNUSED"]
  /\ stack = [t \in Thread |->
       IF t \in Cpu THEN <<Frame("scheduler", 1)>>
       ELSE IF t = InitProc THEN <<Frame("forkret", 1)>> ELSE <<>>]
  /\ saved = [p \in Proc |-> FALSE]

-----------------------------------------------------------------------------
(* spinlock.c *)

\* pushcli(): the flag is read; until it is cleared the thread may still be
\* interrupted, and go on on another CPU
ReadFlags(c) ==
  LET t == Running(c) IN
  /\ At(c, "acquire") /\ Top(t).flags = None
  /\ stack' = [stack EXCEPT ![t][Len(stack[t])].flags = cpu[c].if]
  /\ UNCHANGED <<cpu, lock, state, saved>>

Outermost(c) == cpu[c].ncli = 0

Acquire(c) ==
  LET t == Running(c)
      l == Op(t)[2] IN
  /\ At(c, "acquire") /\ Top(t).flags # None
  /\ lock[l] = None
  /\ lock' = [lock EXCEPT ![l] = c]
  /\ cpu' = [cpu EXCEPT ![c].if = FALSE, ![c].ncli = @ + 1,
                        ![c].intena = IF Outermost(c) THEN Top(t).flags ELSE @]
  /\ stack' = Advance(t)
  /\ UNCHANGED <<state, saved>>

\* mutant: release() leaves ncli as it is
StillNested(c) == cpu[c].ncli
Nested(c)      == cpu[c].ncli - 1

Release(c) ==
  LET t == Running(c)
      l == Op(t)[2] IN
  /\ At(c, "release")
  /\ lock[l] = c
  /\ lock' = [lock EXCEPT ![l] = None]
  /\ cpu' = [cpu EXCEPT ![c].ncli = Nested(c),
                        ![c].if = Nested(c) = 0 /\ cpu[c].intena]
  /\ stack' = IF Top(t).code = "scheduler" THEN Goto(t, 1)
              ELSE IF Top(t).code = "timer" /\ t \in Cpu /\ l = "ticks"
              THEN Goto(t, Len(Program["timer"]))          \* no process to yield
              ELSE Advance(t)
  /\ UNCHANGED <<state, saved>>

-----------------------------------------------------------------------------
(* traps *)

Interrupt(c) ==
  LET t == Running(c)
      start == IF c = First THEN Tick ELSE IF t \in Cpu THEN Len(Program["timer"]) ELSE Yield IN
  /\ cpu[c].if
  /\ cpu' = [cpu EXCEPT ![c].if = FALSE]
  /\ stack' = [stack EXCEPT ![t] = Append(@, Frame("timer", start))]
  /\ UNCHANGED <<lock, state, saved>>

SystemCall(c, call) ==
  LET p == Running(c) IN
  /\ p \in Proc /\ ~ InKernel(c)
  /\ call \in {"wait", "fork"} => p = InitProc
  /\ call = "exit" => p # InitProc
  /\ stack' = [stack EXCEPT ![p] = <<Frame(call, 1)>>]
  /\ UNCHANGED <<cpu, lock, state, saved>>

\* back to where the flag was on
Iret(c) ==
  LET t == Running(c) IN
  /\ At(c, "iret")
  /\ cpu' = [cpu EXCEPT ![c].if = TRUE]
  /\ stack' = [stack EXCEPT ![t] = SubSeq(@, 1, Len(@) - 1)]
  /\ UNCHANGED <<lock, state, saved>>

-----------------------------------------------------------------------------
(* proc.c *)

Sti(c) ==
  /\ At(c, "sti")
  /\ cpu' = [cpu EXCEPT ![c].if = TRUE]
  /\ stack' = Advance(Running(c))
  /\ UNCHANGED <<lock, state, saved>>

Pick(c) ==
  /\ At(c, "pick")
  /\ \/ \E p \in Proc :
          /\ state[p] = "RUNNABLE"
          /\ state' = [state EXCEPT ![p] = "RUNNING"]
          /\ cpu' = [cpu EXCEPT ![c].thread = p]
          /\ UNCHANGED stack
     \/ stack' = Advance(c) /\ UNCHANGED <<state, cpu>>
  /\ UNCHANGED <<lock, saved>>

\* what sched() asserts
MayLeave(c) == lock["ptable"] = c /\ cpu[c].ncli = 1 /\ ~ cpu[c].if

Leave(c, s) ==
  LET p == Running(c) IN
  /\ MayLeave(c)
  /\ state' = [state EXCEPT ![p] = s]
  /\ saved' = [saved EXCEPT ![p] = cpu[c].intena]
  /\ cpu' = [cpu EXCEPT ![c].thread = c]

Sched(c) ==
  LET p == Running(c) IN
  /\ At(c, "sched")
  /\ Leave(c, Op(p)[2])
  /\ stack' = Advance(p)
  /\ UNCHANGED lock

\* mutant: intena stays that of the CPU
OfCpu(c)    == cpu[c].intena
OfThread(c) == saved[Running(c)]

Resume(c) ==
  LET p == Running(c) IN
  /\ At(c, "resume")
  /\ cpu' = [cpu EXCEPT ![c].intena = OfThread(c)]
  /\ stack' = IF Top(p).code = "wait" THEN Goto(p, 2) ELSE Advance(p)
  /\ UNCHANGED <<lock, state, saved>>

\* mutant: wakeup1() does not look at the state
AnyState(p) == state[p] # "UNUSED"
Sleeps(p)   == state[p] = "SLEEPING"

Wakeup(c) ==
  /\ At(c, "wakeup")
  /\ state' = [p \in Proc |-> IF Sleeps(p) THEN "RUNNABLE" ELSE state[p]]
  /\ stack' = Advance(Running(c))
  /\ UNCHANGED <<cpu, lock, saved>>

\* the child starts in forkret(), as if it had left the CPU there
Fork(c) ==
  /\ At(c, "fork")
  /\ \/ \E q \in Proc :
          /\ state[q] = "UNUSED"
          /\ state' = [state EXCEPT ![q] = "RUNNABLE"]
          /\ stack' = [Advance(Running(c)) EXCEPT ![q] = <<Frame("forkret", 1)>>]
     \/ stack' = Advance(Running(c)) /\ UNCHANGED state
  /\ UNCHANGED <<cpu, lock, saved>>

Zombies == {p \in Proc : state[p] = "ZOMBIE"}

\* wait(): a dead child's stack is freed; without one the parent sleeps
Scan(c) ==
  LET p == Running(c)
      return == Top(p).pc + 2 IN
  /\ At(c, "scan")
  /\ \/ \E z \in Zombies :
          /\ state' = [state EXCEPT ![z] = "UNUSED"]
          /\ stack' = [Goto(p, return) EXCEPT ![z] = <<>>]
          /\ UNCHANGED <<cpu, saved>>
     \/ /\ Zombies = {} /\ \A q \in Proc \ {p} : state[q] = "UNUSED"
        /\ stack' = Goto(p, return)
        /\ UNCHANGED <<cpu, state, saved>>
     \/ /\ Zombies = {} /\ \E q \in Proc \ {p} : state[q] # "UNUSED"
        /\ Leave(c, "SLEEPING")
        /\ stack' = Advance(p)
  /\ UNCHANGED lock

Kernel(c) ==
  \/ ReadFlags(c) \/ Acquire(c) \/ Release(c) \/ Iret(c) \/ Sti(c) \/ Pick(c)
  \/ Sched(c) \/ Resume(c) \/ Wakeup(c) \/ Fork(c) \/ Scan(c)

Next ==
  \E c \in Cpu :
    \/ Kernel(c) \/ Interrupt(c)
    \/ \E call \in {"sleep", "wait", "fork", "exit"} : SystemCall(c, call)

Spec == Init /\ [][Next]_vars

-----------------------------------------------------------------------------
\* with locks held interrupts are off; without, they are as the thread has left them,
\* on, but off in an interrupt handler, whatever ran on its CPUs since.  Only the
\* scheduler, up to its sti(), and forkret(), up to its return to user code, take
\* over the flag of the thread before.
FlagOfThread ==
  \A c \in Cpu : InKernel(c) =>
    /\ cpu[c].ncli > 0 => ~ cpu[c].if
    /\ cpu[c].ncli = 0 /\ ~ At(c, "sti") /\ Top(Running(c)).code # "forkret" =>
         cpu[c].if = (Top(Running(c)).code # "timer")

\* no thread is on two CPUs, and none on a stack that has been freed
OneCpu ==
  \A c, d \in Cpu :
    /\ Running(c) = Running(d) => c = d
    /\ Running(c) \in Proc => state[Running(c)] = "RUNNING"

\* the assertions of acquire(), release(), sched() and forkret() hold
NoPanic ==
  \A c \in Cpu :
    /\ At(c, "acquire") => lock[Op(Running(c))[2]] # c
    /\ At(c, "release") => lock[Op(Running(c))[2]] = c /\ ~ cpu[c].if
    /\ At(c, "sched") => MayLeave(c)

\* a thread goes on with the interrupt flag it had, whatever CPU it goes on on; one CPU
\* executes it; and no panic() of the spin locks is reached
SwitchCorrect == TypeOK /\ FlagOfThread /\ OneCpu /\ NoPanic
=============================================================================
