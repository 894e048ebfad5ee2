-------------------------- MODULE ProcessesProofs --------------------------
(***************************************************************************)
(* Processes, for every value of the constants: the switch between their   *)
(* threads, their pipes, their memory and the clock, proved correct as     *)
(* they run side by side in MCProcesses.  The proof about a pipe is in     *)
(* Pipe, that about the memory in Memory.                                  *)
(***************************************************************************)
EXTENDS MCProcesses, SequenceTheorems, TLAPS

-----------------------------------------------------------------------------
(* SwitchCorrect, for any number of CPUs: threads keep their interrupt flag and the *)
(* locks they hold when they are switched.  The inductive invariant says, for each  *)
(* point of the kernel code, which locks the CPU at it holds, how deep its          *)
(* pushcli() nest and what the flag and intena are, and where a process is that no  *)
(* CPU runs.                                                                        *)

(* Points of the kernel code *)

AtHandover(f) ==              \* a process that comes out of swtch() in sched()
  \/ f.code = "timer" /\ f.pc = 8
  \/ f.code = "sleep" /\ f.pc = 5
  \/ f.code = "wait" /\ f.pc = 3
AtStart(f) == f.code = "forkret" /\ f.pc = 1
AtSti(f)   == f.code = "scheduler" /\ f.pc = 1
Gone(f)    == f.code = "exit" /\ f.pc = 4      \* after the last sched() of exit()

HoldsPtable(f) ==
  \/ f.code = "scheduler" /\ f.pc \in {3, 4}
  \/ f.code = "timer" /\ f.pc \in {3, 4, 7, 8, 9}
  \/ f.code = "sleep" /\ f.pc \in 3 .. 6
  \/ f.code = "wait" /\ f.pc \in 2 .. 4
  \/ f.code = "fork" /\ f.pc \in {2, 3}
  \/ f.code = "exit" /\ f.pc \in 2 .. 4
  \/ AtStart(f)
HoldsTicks(f) ==
  \/ f.code = "timer" /\ f.pc \in 2 .. 5
  \/ f.code = "sleep" /\ f.pc \in {2, 3, 8}

Holds(f, l) == (l = "ptable" /\ HoldsPtable(f)) \/ (l = "ticks" /\ HoldsTicks(f))
Quiet(f)    == ~ HoldsPtable(f) /\ ~ HoldsTicks(f)
Depth(f)    == (IF HoldsPtable(f) THEN 1 ELSE 0) + (IF HoldsTicks(f) THEN 1 ELSE 0)

IsPoint(f) ==
  \/ f.code \in {"scheduler", "exit", "fork"} /\ f.pc \in 1 .. 4
  \/ f.code = "timer" /\ f.pc \in 1 .. 10
  \/ f.code = "sleep" /\ f.pc \in 1 .. 9
  \/ f.code = "wait" /\ f.pc \in 1 .. 5
  \/ f.code = "forkret" /\ f.pc \in 1 .. 2

\* what pushcli() has read at the outermost acquire() is the flag of the thread
IsFrame(f) ==
  /\ f = [code |-> f.code, pc |-> f.pc, flags |-> f.flags]
  /\ IsPoint(f)
  /\ Quiet(f) /\ f.flags # None => f.flags = (f.code # "timer")

-----------------------------------------------------------------------------
(* The inductive invariant *)

Typed ==
  /\ cpu \in [Cpu -> [if : BOOLEAN, ncli : 0 .. 2, intena : BOOLEAN, thread : Thread]]
  /\ lock \in [Lock -> Cpu \cup {None}]
  /\ state \in [Proc -> {"UNUSED", "RUNNABLE", "RUNNING", "SLEEPING", "ZOMBIE"}]
  /\ saved \in [Proc -> BOOLEAN]
  /\ DOMAIN stack = Thread

\* a thread is in user space, in a call, in an interrupt, or in an interrupt of a call;
\* the interrupted call holds no lock
Plain(t) ==
  /\ stack[t] = <<Top(t)>>
  /\ (Top(t).code = "scheduler") = (t \in Cpu)
Interrupted(t) ==
  LET f == stack[t][1] IN
  /\ stack[t] = <<f, Top(t)>>
  /\ IsFrame(f) /\ Quiet(f) /\ f.code # "timer"
  /\ (f.code = "scheduler") = (t \in Cpu)
  /\ Top(t).code = "timer"
  /\ t \in Cpu => Top(t).pc \notin 6 .. 9
StackFormed(t) ==
  \/ stack[t] = <<>> /\ t \in Proc
  \/ stack[t] # <<>> /\ IsFrame(Top(t)) /\ (Plain(t) \/ Interrupted(t))

\* the locks and the flag of a CPU are those of the point its thread is at
Carries(c, f) ==
  /\ ~ Gone(f)
  /\ \A l \in Lock : lock[l] = c <=> Holds(f, l)
  /\ cpu[c].ncli = Depth(f)
  /\ Quiet(f) => \/ f.code = "forkret" \/ AtSti(f)
                 \/ cpu[c].if = (f.code # "timer")
  /\ ~ Quiet(f) => /\ ~ cpu[c].if
                   /\ \/ f.code \in {"scheduler", "forkret"} \/ AtHandover(f)
                      \/ cpu[c].intena = (f.code # "timer")

InUser(c) == (\A l \in Lock : lock[l] # c) /\ cpu[c].ncli = 0 /\ cpu[c].if

CpuFormed(c) ==
  /\ Running(c) \in {c} \cup Proc
  /\ Running(c) # c => Plain(c) /\ Top(c).pc = 3
  /\ InKernel(c) => Carries(c, Top(Running(c)))
  /\ ~ InKernel(c) => InUser(c)

\* a process that waits for a CPU is in sched() or new; its intena is kept there
ProcFormed(p) ==
  /\ state[p] = "UNUSED" => stack[p] = <<>>
  /\ state[p] \in {"RUNNABLE", "SLEEPING"} =>
       stack[p] # <<>> /\ (AtHandover(Top(p)) \/ AtStart(Top(p)))
  /\ stack[p] # <<>> /\ AtHandover(Top(p)) => saved[p] = (Top(p).code # "timer")

Inv ==
  /\ Typed
  /\ \A t \in Thread : StackFormed(t)
  /\ \A c \in Cpu : CpuFormed(c)
  /\ \A p \in Proc : ProcFormed(p)
  /\ OneCpu

-----------------------------------------------------------------------------
(* The operations of the kernel code, point by point *)

LEMMA ProgramOps ==
  /\ Program["scheduler"][1] = <<"sti">>
  /\ Program["scheduler"][2] = <<"acquire", "ptable">>
  /\ Program["scheduler"][3] = <<"pick">>
  /\ Program["scheduler"][4] = <<"release", "ptable">>
  /\ Program["timer"][1] = <<"acquire", "ticks">>
  /\ Program["timer"][2] = <<"acquire", "ptable">>
  /\ Program["timer"][3] = <<"wakeup">>
  /\ Program["timer"][4] = <<"release", "ptable">>
  /\ Program["timer"][5] = <<"release", "ticks">>
  /\ Program["timer"][6] = <<"acquire", "ptable">>
  /\ Program["timer"][7] = <<"sched", "RUNNABLE">>
  /\ Program["timer"][8] = <<"resume">>
  /\ Program["timer"][9] = <<"release", "ptable">>
  /\ Program["timer"][10] = <<"iret">>
  /\ Len(Program["timer"]) = 10
  /\ Program["sleep"][1] = <<"acquire", "ticks">>
  /\ Program["sleep"][2] = <<"acquire", "ptable">>
  /\ Program["sleep"][3] = <<"release", "ticks">>
  /\ Program["sleep"][4] = <<"sched", "SLEEPING">>
  /\ Program["sleep"][5] = <<"resume">>
  /\ Program["sleep"][6] = <<"release", "ptable">>
  /\ Program["sleep"][7] = <<"acquire", "ticks">>
  /\ Program["sleep"][8] = <<"release", "ticks">>
  /\ Program["sleep"][9] = <<"iret">>
  /\ Program["wait"][1] = <<"acquire", "ptable">>
  /\ Program["wait"][2] = <<"scan">>
  /\ Program["wait"][3] = <<"resume">>
  /\ Program["wait"][4] = <<"release", "ptable">>
  /\ Program["wait"][5] = <<"iret">>
  /\ Program["fork"][1] = <<"acquire", "ptable">>
  /\ Program["fork"][2] = <<"fork">>
  /\ Program["fork"][3] = <<"release", "ptable">>
  /\ Program["fork"][4] = <<"iret">>
  /\ Program["forkret"][1] = <<"release", "ptable">>
  /\ Program["forkret"][2] = <<"iret">>
  /\ Program["exit"][1] = <<"acquire", "ptable">>
  /\ Program["exit"][2] = <<"wakeup">>
  /\ Program["exit"][3] = <<"sched", "ZOMBIE">>
BY DEF Program

OpOf(f) == Program[f.code][f.pc]

IsAcquire(f) == <<f.code, f.pc, OpOf(f)[2]>> \in
  {<<"scheduler", 2, "ptable">>, <<"timer", 1, "ticks">>, <<"timer", 2, "ptable">>,
   <<"timer", 6, "ptable">>, <<"sleep", 1, "ticks">>, <<"sleep", 2, "ptable">>,
   <<"sleep", 7, "ticks">>, <<"wait", 1, "ptable">>, <<"fork", 1, "ptable">>,
   <<"exit", 1, "ptable">>}
IsRelease(f) == <<f.code, f.pc, OpOf(f)[2]>> \in
  {<<"scheduler", 4, "ptable">>, <<"timer", 4, "ptable">>, <<"timer", 5, "ticks">>,
   <<"timer", 9, "ptable">>, <<"sleep", 3, "ticks">>, <<"sleep", 6, "ptable">>,
   <<"sleep", 8, "ticks">>, <<"wait", 4, "ptable">>, <<"fork", 3, "ptable">>,
   <<"forkret", 1, "ptable">>}
IsSched(f) == <<f.code, f.pc, OpOf(f)[2]>> \in
  {<<"timer", 7, "RUNNABLE">>, <<"sleep", 4, "SLEEPING">>, <<"exit", 3, "ZOMBIE">>}
IsIret(f) == <<f.code, f.pc>> \in
  {<<"timer", 10>>, <<"sleep", 9>>, <<"wait", 5>>, <<"fork", 4>>, <<"forkret", 2>>}

OpFacts(f) ==
  /\ OpOf(f)[1] = "acquire" => IsAcquire(f)
  /\ OpOf(f)[1] = "release" => IsRelease(f)
  /\ OpOf(f)[1] = "sched" => IsSched(f)
  /\ OpOf(f)[1] = "resume" => AtHandover(f)
  /\ OpOf(f)[1] = "iret" => IsIret(f)
  /\ OpOf(f)[1] = "sti" <=> AtSti(f)
  /\ OpOf(f)[1] = "pick" => f.code = "scheduler" /\ f.pc = 3
  /\ OpOf(f)[1] = "wakeup" => <<f.code, f.pc>> \in {<<"timer", 3>>, <<"exit", 2>>}
  /\ OpOf(f)[1] = "scan" => f.code = "wait" /\ f.pc = 2
  /\ OpOf(f)[1] = "fork" => f.code = "fork" /\ f.pc = 2

\* at a point of the code the operation is the one written there
LEMMA OpAt ==
  ASSUME NEW f, IsPoint(f), ~ Gone(f)
  PROVE  OpFacts(f)
<1> USE ProgramOps
    DEF OpOf, OpFacts, IsAcquire, IsRelease, IsSched, IsIret, AtHandover, AtSti, Gone
<1>1. CASE f.code = "timer"
  BY <1>1 DEF IsPoint
<1>2. CASE f.code = "sleep"
  BY <1>2 DEF IsPoint
<1>3. CASE f.code \in {"wait", "forkret"}
  BY <1>3 DEF IsPoint
<1>4. CASE f.code \in {"scheduler", "exit", "fork"}
  BY <1>4 DEF IsPoint
<1> QED
  BY <1>1, <1>2, <1>3, <1>4 DEF IsPoint

\* acquire() and the point after it
LEMMA AcquireNext ==
  ASSUME NEW f, NEW g, IsPoint(f), IsAcquire(f),
         g = [code |-> f.code, pc |-> f.pc + 1, flags |-> None]
  PROVE  /\ OpOf(f)[2] \in Lock /\ ~ Holds(f, OpOf(f)[2])
         /\ f.code # "forkret" /\ ~ AtSti(f)
         /\ g.code = f.code /\ (f.pc < 5 => g.pc \notin 6 .. 9)
         /\ IsFrame(g) /\ ~ Quiet(g) /\ ~ AtHandover(g) /\ ~ AtStart(g) /\ ~ Gone(g)
         /\ \A l \in Lock : Holds(g, l) <=> Holds(f, l) \/ l = OpOf(f)[2]
         /\ Depth(g) = Depth(f) + 1 /\ Depth(g) \in 1 .. 2
BY DEF IsAcquire, IsFrame, IsPoint, Holds, HoldsPtable, HoldsTicks, Quiet, Depth, Lock,
   AtHandover, AtStart, AtSti, Gone
-----------------------------------------------------------------------------
(* Stacks *)

LEMMA GotoIs ==
  ASSUME NEW t, NEW pc
  PROVE  Goto(t, pc) = [stack EXCEPT ![t][Len(stack[t])] =
                          [code |-> Top(t).code, pc |-> pc, flags |-> None]]
BY DEF Goto, Frame, Top

\* the top frame of a stack is replaced by one of the same code
LEMMA TopReplaced ==
  ASSUME NEW t \in Thread, StackFormed(t), stack[t] # <<>>,
         NEW g, IsFrame(g), g.code = Top(t).code,
         t \in Cpu /\ g.code = "timer" => g.pc \notin 6 .. 9,
         stack'[t] = [stack[t] EXCEPT ![Len(stack[t])] = g]
  PROVE  stack'[t] # <<>> /\ Top(t)' = g /\ StackFormed(t)'
<1>1. CASE Plain(t)
  <2>1. stack'[t] = <<g>>
    BY <1>1 DEF Plain
  <2> QED
    BY <1>1, <2>1 DEF StackFormed, Plain, Top
<1>2. CASE Interrupted(t)
  <2>1. PICK a, b : stack[t] = <<a, b>>
    BY <1>2 DEF Interrupted
  <2>2. stack'[t] = <<a, g>> /\ a = stack[t][1]
    BY <2>1
  <2> QED
    BY <1>2, <2>2 DEF StackFormed, Interrupted, Top
<1> QED
  BY <1>1, <1>2 DEF StackFormed

\* a CPU whose thread, flags and locks are left alone
LEMMA OtherCpu ==
  ASSUME NEW d \in Cpu, CpuFormed(d), cpu'[d] = cpu[d],
         stack'[d] = stack[d], stack'[Running(d)] = stack[Running(d)],
         \A l \in Lock : lock'[l] = d <=> lock[l] = d
  PROVE  CpuFormed(d)'
BY DEF CpuFormed, Running, InKernel, Carries, InUser, Plain, Top

LEMMA OtherStack ==
  ASSUME NEW u, stack'[u] = stack[u], StackFormed(u)
  PROVE  StackFormed(u)'
BY DEF StackFormed, Plain, Interrupted, Top

LEMMA OtherProc ==
  ASSUME NEW p, ProcFormed(p), stack'[p] = stack[p], state'[p] = state[p], saved'[p] = saved[p]
  PROVE  ProcFormed(p)'
BY DEF ProcFormed, Top

\* the thread of a CPU in the kernel
LEMMA InKernelFacts ==
  ASSUME Inv, NEW c \in Cpu, InKernel(c)
  PROVE  LET t == Running(c) IN
         /\ t \in Thread /\ (t \in Cpu => t = c) /\ StackFormed(t) /\ IsFrame(Top(t))
         /\ OpFacts(Top(t)) /\ Carries(c, Top(t))
         /\ (t \in Cpu => \/ Top(t).code = "scheduler"
                          \/ Top(t).code = "timer" /\ Top(t).pc \notin 6 .. 9)
         /\ (t \notin Cpu => Top(t).code # "scheduler")
<1> DEFINE t == Running(c)
<1>1. t \in {c} \cup Proc /\ Carries(c, Top(t))
  BY DEF Inv, CpuFormed
<1>2. t \in Thread /\ (t \in Cpu => t = c)
  BY <1>1, ThreadAssumption DEF Thread
<1>3. StackFormed(t) /\ IsFrame(Top(t)) /\ (Plain(t) \/ Interrupted(t))
  BY <1>2 DEF Inv, StackFormed, InKernel
<1>4. OpFacts(Top(t))
  BY <1>1, <1>3, OpAt DEF Carries, IsFrame
<1> QED
  BY <1>1, <1>2, <1>3, <1>4 DEF Plain, Interrupted

LEMMA OtherThread ==
  ASSUME Inv, NEW c \in Cpu, NEW d \in Cpu, c # d
  PROVE  /\ Running(d) \in Thread /\ Running(d) # Running(c)
         /\ d # Running(c) /\ Running(d) # c
BY ThreadAssumption DEF Inv, CpuFormed, OneCpu, Thread

-----------------------------------------------------------------------------
(* Steps of the thread of a CPU that stays on it *)

\* what such a step does to the other threads: nothing, or it wakes a process up, frees
\* the stack of one that is no longer run, or makes one that starts in forkret()
Stays(u) ==
  /\ stack'[u] = stack[u]
  /\ u \in Proc => state'[u] = state[u] \/ (state[u] = "SLEEPING" /\ state'[u] = "RUNNABLE")
Freed(u) ==
  u \in Proc /\ state[u] # "RUNNING" /\ stack'[u] = <<>> /\ state'[u] = "UNUSED"
Forked(u) ==
  /\ u \in Proc /\ state[u] # "RUNNING"
  /\ stack'[u] = <<Frame("forkret", 1)>> /\ state'[u] = "RUNNABLE"
Rests(u) == Stays(u) \/ Freed(u) \/ Forked(u)

LEMMA RestsFormed ==
  ASSUME Inv, NEW u \in Thread, Rests(u), saved' = saved
  PROVE  StackFormed(u)' /\ (u \in Proc => ProcFormed(u)')
<1>1. StackFormed(u) /\ (u \in Proc => ProcFormed(u))
  BY DEF Inv
<1>2. CASE Stays(u)
  BY <1>1, <1>2 DEF Stays, StackFormed, Plain, Interrupted, ProcFormed, Top
<1>3. CASE Freed(u)
  BY <1>3 DEF Freed, StackFormed, ProcFormed
<1>4. CASE Forked(u)
  <2>1. Top(u)' = Frame("forkret", 1) /\ stack'[u] # <<>>
    BY <1>4 DEF Forked, Top
  <2>2. u \notin Cpu
    BY <1>4, ThreadAssumption DEF Forked
  <2>3. PICK f : f = Frame("forkret", 1)
    OBVIOUS
  <2>4. IsFrame(f) /\ AtStart(f) /\ ~ AtHandover(f) /\ f.code # "scheduler"
    BY <2>3 DEF Frame, IsFrame, IsPoint, Quiet, HoldsPtable, AtStart, AtHandover
  <2>5. stack'[u] = <<f>> /\ stack'[u] # <<>> /\ Top(u)' = f /\ state'[u] = "RUNNABLE"
    BY <1>4, <2>1, <2>3 DEF Forked
  <2>6. StackFormed(u)'
    BY <2>2, <2>4, <2>5 DEF StackFormed, Plain
  <2>7. ProcFormed(u)'
    BY <2>4, <2>5 DEF ProcFormed
  <2> QED
    BY <2>6, <2>7
<1> QED
  BY <1>2, <1>3, <1>4 DEF Rests

LEMMA StaysOn ==
  ASSUME Inv, NEW c \in Cpu, NEW t \in Thread, t = Running(c), Typed', StackFormed(t)',
         stack'[t] # <<>> => Carries(c, Top(t))' /\ ~ AtHandover(Top(t))',
         stack'[t] = <<>> => InUser(c)',
         t \in Proc => state'[t] = state[t],
         \A u \in Thread \ {t} : Rests(u), saved' = saved,
         cpu'[c].thread = cpu[c].thread,
         \A d \in Cpu \ {c} : /\ cpu'[d] = cpu[d]
                              /\ \A l \in Lock : lock'[l] = d <=> lock[l] = d
  PROVE  Inv'
<1>3. \A u \in Thread : StackFormed(u)'
  BY RestsFormed
<1>4. \A d \in Cpu : d # t => stack'[d] = stack[d]
  BY ThreadAssumption DEF Rests, Stays, Freed, Forked, Thread
<1>5. CpuFormed(c)'
  <2>1. Running(c)' = t
    BY DEF Running
  <2>2. t \in {c} \cup Proc /\ (t # c => Plain(c) /\ Top(c).pc = 3)
    BY DEF Inv, CpuFormed
  <2>3. t # c => Plain(c)' /\ Top(c)'.pc = 3
    BY <1>4, <2>2 DEF Plain, Top
  <2> QED
    BY <2>1, <2>2, <2>3 DEF CpuFormed, InKernel
<1>6. ASSUME NEW d \in Cpu, d # c PROVE CpuFormed(d)'
  <2>1. d # t /\ Running(d) \in Thread \ {t}
    BY <1>6, OtherThread
  <2>2. stack'[Running(d)] = stack[Running(d)]
    <3>1. Rests(Running(d)) /\ (Running(d) \in Proc => state[Running(d)] = "RUNNING")
      BY <2>1 DEF Inv, OneCpu
    <3> QED
      BY <3>1 DEF Rests, Stays, Freed, Forked
  <2> QED
    BY <1>4, <1>6, <2>1, <2>2, OtherCpu DEF Inv
<1>7. ASSUME NEW p \in Proc PROVE ProcFormed(p)'
  <2>1. CASE p = t
    <3>1. state'[p] = "RUNNING"
      BY <2>1 DEF Inv, OneCpu
    <3> QED
      BY <2>1, <3>1 DEF ProcFormed
  <2>2. CASE p # t
    BY <2>2, RestsFormed DEF Thread
  <2> QED
    BY <2>1, <2>2
<1>8. OneCpu'
  <2>1. \A d \in Cpu : Running(d)' = Running(d)
    BY DEF Running
  <2>2. ASSUME NEW d \in Cpu, Running(d) \in Proc PROVE state'[Running(d)] = "RUNNING"
    <3>1. state[Running(d)] = "RUNNING" /\ Running(d) \in Thread
      BY <2>2 DEF Inv, OneCpu, Thread
    <3> QED
      BY <2>2, <3>1 DEF Rests, Stays, Freed, Forked
  <2> QED
    BY <2>1, <2>2 DEF Inv, OneCpu
<1> QED
  BY <1>3, <1>5, <1>6, <1>7, <1>8 DEF Inv

LEMMA SameThread ==
  ASSUME Inv, NEW c \in Cpu, NEW g, InKernel(c),
         IsFrame(g), ~ AtHandover(g), g.code = Top(Running(c)).code,
         Running(c) \in Cpu /\ g.code = "timer" => g.pc \notin 6 .. 9,
         Typed', Carries(c, g)',
         stack'[Running(c)] = [stack[Running(c)] EXCEPT ![Len(stack[Running(c)])] = g],
         Running(c) \in Proc => state'[Running(c)] = state[Running(c)],
         \A u \in Thread \ {Running(c)} : Rests(u), saved' = saved,
         cpu'[c].thread = cpu[c].thread,
         \A d \in Cpu \ {c} : /\ cpu'[d] = cpu[d]
                              /\ \A l \in Lock : lock'[l] = d <=> lock[l] = d
  PROVE  Inv'
<1>0. PICK t \in Thread : t = Running(c)
  BY InKernelFacts
<1>1. StackFormed(t) /\ stack[t] # <<>>
  BY <1>0, InKernelFacts DEF InKernel
<1>2. stack'[t] # <<>> /\ Top(t)' = g /\ StackFormed(t)'
  BY <1>0, <1>1, TopReplaced
<1>3. Carries(c, Top(t))' /\ ~ AtHandover(Top(t))'
  BY <1>2 DEF Carries
<1> QED
  BY <1>0, <1>2, <1>3, StaysOn

-----------------------------------------------------------------------------
(* spinlock.c *)

\* what a step of the thread t of c, with the frame f on top, starts from
Runs(c, t, f) ==
  /\ t = Running(c) /\ f = Top(t) /\ Op(t) = OpOf(f)
  /\ IsFrame(f) /\ IsPoint(f) /\ OpFacts(f) /\ Carries(c, f)
  /\ stack[t] # <<>> /\ StackFormed(t)
  /\ t \in Cpu => /\ t = c
                  /\ f.code = "scheduler" \/ (f.code = "timer" /\ f.pc \notin 6 .. 9)
  /\ t \notin Cpu => t \in Proc /\ f.code # "scheduler" /\ state[t] = "RUNNING"

LEMMA StepFacts ==
  ASSUME Inv, NEW c \in Cpu, InKernel(c)
  PROVE  \E t \in Thread : \E f : Runs(c, t, f)
<1>1. Running(c) \in Thread /\ (Running(c) \notin Cpu => state[Running(c)] = "RUNNING")
  BY InKernelFacts DEF Inv, OneCpu, Thread
<1> QED
  BY <1>1, InKernelFacts DEF Runs, Op, OpOf, IsFrame, InKernel, Thread

LEMMA ReadFlagsStep ==
  ASSUME Inv, NEW c \in Cpu, ReadFlags(c)
  PROVE  Inv'
<1>1. InKernel(c)
  BY DEF ReadFlags, At
<1> PICK t \in Thread : \E f : Runs(c, t, f)
  BY <1>1, StepFacts
<1>2. PICK f : Runs(c, t, f)
  OBVIOUS
<1>3. PICK g : g = [code |-> f.code, pc |-> f.pc, flags |-> cpu[c].if]
  OBVIOUS
<1>4. IsAcquire(f)
  BY <1>2 DEF Runs, ReadFlags, At, OpFacts
<1>5. stack' = [stack EXCEPT ![t] = [stack[t] EXCEPT ![Len(stack[t])] = g]]
  <2>1. [f EXCEPT !.flags = cpu[c].if] = g
    BY <1>2, <1>3 DEF Runs, IsFrame
  <2>2. stack' = [stack EXCEPT ![t] = [stack[t] EXCEPT ![Len(stack[t])] =
                                           [f EXCEPT !.flags = cpu[c].if]]]
    BY <1>2 DEF Runs, ReadFlags, Top
  <2> QED
    BY <2>1, <2>2
<1>6. f.code # "forkret" /\ ~ AtSti(f) /\ ~ AtHandover(f)
  BY <1>4 DEF IsAcquire, AtSti, AtHandover
<1>7. IsFrame(g) /\ ~ AtHandover(g) /\ g.code = f.code /\ g.pc = f.pc
  BY <1>2, <1>3, <1>6 DEF Runs, IsFrame, IsPoint, Carries, Quiet, HoldsPtable, HoldsTicks, AtHandover, AtStart
<1>8. Carries(c, g)'
  BY <1>2, <1>7 DEF Runs, ReadFlags, Carries, Gone, Holds, HoldsPtable, HoldsTicks, Depth, Quiet, AtSti,
     AtHandover, AtStart
<1>9. Typed'
  BY <1>5 DEF Inv, Typed, ReadFlags
<1> QED
  BY <1>1, <1>2, <1>5, <1>7, <1>8, <1>9, SameThread DEF Runs, ReadFlags, Rests, Stays, Inv, Typed

LEMMA AdvanceIs ==
  ASSUME Inv, NEW c \in Cpu, NEW t \in Thread, NEW f, Runs(c, t, f), NEW pc,
         NEW g, g = [code |-> f.code, pc |-> pc, flags |-> None]
  PROVE  Goto(t, pc) = [stack EXCEPT ![t] = [stack[t] EXCEPT ![Len(stack[t])] = g]]
BY GotoIs DEF Runs

LEMMA AcquireStep ==
  ASSUME Inv, NEW c \in Cpu, Acquire(c)
  PROVE  Inv'
<1>1. InKernel(c)
  BY DEF Acquire, At
<1> PICK t \in Thread : \E f : Runs(c, t, f)
  BY <1>1, StepFacts
<1>2. PICK f : Runs(c, t, f)
  OBVIOUS
<1>3. PICK g : g = [code |-> f.code, pc |-> f.pc + 1, flags |-> None]
  OBVIOUS
<1>4. PICK l : l = OpOf(f)[2]
  OBVIOUS
<1>5. IsAcquire(f) /\ f.flags # None /\ lock[l] = None
  BY <1>2, <1>4 DEF Runs, Acquire, At, OpFacts
<1>6. /\ l \in Lock /\ ~ Holds(f, l)
      /\ f.code # "forkret" /\ ~ AtSti(f)
      /\ g.code = f.code /\ (f.pc < 5 => g.pc \notin 6 .. 9)
      /\ IsFrame(g) /\ ~ Quiet(g) /\ ~ AtHandover(g) /\ ~ AtStart(g) /\ ~ Gone(g)
      /\ \A k \in Lock : Holds(g, k) <=> Holds(f, k) \/ k = l
      /\ Depth(g) = Depth(f) + 1 /\ Depth(g) \in 1 .. 2
  BY <1>2, <1>3, <1>4, <1>5, AcquireNext DEF Runs
<1>7. stack' = [stack EXCEPT ![t] = [stack[t] EXCEPT ![Len(stack[t])] = g]]
  <2>1. stack' = Goto(t, f.pc + 1)
    BY <1>2 DEF Runs, Acquire, Advance
  <2> QED
    BY <1>2, <1>3, <2>1, AdvanceIs
<1>8. /\ lock' = [lock EXCEPT ![l] = c]
      /\ cpu'[c].if = FALSE /\ cpu'[c].ncli = cpu[c].ncli + 1 /\ cpu'[c].thread = cpu[c].thread
      /\ cpu'[c].intena = IF Outermost(c) THEN f.flags ELSE cpu[c].intena
      /\ \A d \in Cpu \ {c} : cpu'[d] = cpu[d]
  BY <1>2, <1>4 DEF Runs, Acquire, Inv, Typed
<1>9. Carries(c, f) /\ cpu[c].ncli = Depth(f) /\ (Outermost(c) <=> Quiet(f))
  BY <1>2 DEF Runs, Carries, Outermost, Depth, Quiet
<1>10. Outermost(c) => f.flags = (f.code # "timer")
  BY <1>2, <1>5, <1>9 DEF Runs, IsFrame
<1>11. Carries(c, g)'
  <2>1. \A k \in Lock : lock'[k] = c <=> Holds(g, k)
    BY <1>6, <1>8, <1>9 DEF Carries, Inv, Typed
  <2>2. f.code = "scheduler" \/ cpu'[c].intena = (g.code # "timer")
    <3>1. ~ Quiet(f) => ~ AtHandover(f)
      BY <1>5 DEF IsAcquire, AtHandover
    <3> QED
      BY <1>6, <1>8, <1>9, <1>10, <3>1 DEF Carries
  <2> QED
    BY <1>6, <1>8, <1>9, <2>1, <2>2 DEF Carries
<1>12. Typed'
  <2>1. cpu'[c].intena \in BOOLEAN
    <3>1. cpu[c].intena \in BOOLEAN
      BY DEF Inv, Typed
    <3>2. Outermost(c) => f.flags \in BOOLEAN
      BY <1>10
    <3> QED
      BY <1>8, <3>1, <3>2
  <2>2. cpu'[c].ncli \in 0 .. 2
    BY <1>6, <1>8, <1>9
  <2>3. cpu' \in [Cpu -> [if : BOOLEAN, ncli : 0 .. 2, intena : BOOLEAN, thread : Thread]]
    BY <1>8, <2>1, <2>2 DEF Acquire, Inv, Typed
  <2> QED
    BY <1>7, <1>8, <2>3 DEF Acquire, Inv, Typed
<1>13. Running(c) \in Cpu /\ g.code = "timer" => g.pc \notin 6 .. 9
  BY <1>2, <1>5, <1>6 DEF Runs, IsAcquire
<1>14. \A d \in Cpu \ {c} : \A k \in Lock : lock'[k] = d <=> lock[k] = d
  BY <1>5, <1>6, <1>8, ThreadAssumption DEF Inv, Typed
<1>15. \A u \in Thread \ {Running(c)} : Rests(u)
  BY <1>2, <1>7 DEF Runs, Acquire, Rests, Stays, Inv, Typed
<1>16. stack'[t] = [stack[t] EXCEPT ![Len(stack[t])] = g]
  BY <1>7 DEF Inv, Typed
<1> QED
  BY <1>1, <1>2, <1>6, <1>8, <1>11, <1>12, <1>13, <1>14, <1>15, <1>16, SameThread DEF Runs, Acquire
\* where release() takes the thread t: the scheduler starts over, and an interrupt of the
\* scheduler has no process to yield
AfterRelease(t, f) ==
  IF f.code = "scheduler" THEN 1
  ELSE IF f.code = "timer" /\ t \in Cpu /\ OpOf(f)[2] = "ticks" THEN 10
  ELSE f.pc + 1

LEMMA ReleaseNext ==
  ASSUME NEW t, NEW f, NEW g, IsPoint(f), IsRelease(f),
         t \in Cpu => f.code = "scheduler" \/ (f.code = "timer" /\ f.pc \notin 6 .. 9),
         g = [code |-> f.code, pc |-> AfterRelease(t, f), flags |-> None]
  PROVE  /\ OpOf(f)[2] \in Lock /\ Holds(f, OpOf(f)[2]) /\ ~ AtHandover(f)
         /\ g.code = f.code /\ (t \in Cpu /\ g.code = "timer" => g.pc \notin 6 .. 9)
         /\ IsFrame(g) /\ ~ AtHandover(g) /\ ~ AtStart(g) /\ ~ Gone(g)
         /\ g.code = "scheduler" => AtSti(g)
         /\ \A l \in Lock : Holds(g, l) <=> Holds(f, l) /\ l # OpOf(f)[2]
         /\ Depth(g) = Depth(f) - 1 /\ Depth(f) \in 1 .. 2 /\ (Depth(g) = 0 <=> Quiet(g))
<1> USE DEF IsRelease, IsFrame, IsPoint, Holds, HoldsPtable, HoldsTicks, Quiet, Depth, Lock,
   AtHandover, AtStart, AtSti, Gone, AfterRelease
<1>1. CASE f.code = "timer"
  <2>1. g.code = "timer" /\ g.pc = (IF t \in Cpu /\ f.pc = 5 THEN 10 ELSE f.pc + 1)
    BY <1>1
  <2> QED
    BY <1>1, <2>1
<1>2. CASE f.code = "scheduler"
  BY <1>2
<1>3. CASE f.code \notin {"timer", "scheduler"}
  <2>1. g.code = f.code /\ g.pc = f.pc + 1
    BY <1>3
  <2> QED
    BY <1>3, <2>1
<1> QED
  BY <1>1, <1>2, <1>3

LEMMA ReleaseStep ==
  ASSUME Inv, NEW c \in Cpu, Release(c)
  PROVE  Inv'
<1>1. InKernel(c)
  BY DEF Release, At
<1> PICK t \in Thread : \E f : Runs(c, t, f)
  BY <1>1, StepFacts
<1>2. PICK f : Runs(c, t, f)
  OBVIOUS
<1>3. PICK g : g = [code |-> f.code, pc |-> AfterRelease(t, f), flags |-> None]
  OBVIOUS
<1>4. PICK l : l = OpOf(f)[2]
  OBVIOUS
<1>5. IsRelease(f)
  BY <1>2 DEF Runs, Release, At, OpFacts
<1>6. /\ l \in Lock /\ Holds(f, l) /\ ~ AtHandover(f)
      /\ g.code = f.code /\ (t \in Cpu /\ g.code = "timer" => g.pc \notin 6 .. 9)
      /\ IsFrame(g) /\ ~ AtHandover(g) /\ ~ AtStart(g) /\ ~ Gone(g)
      /\ g.code = "scheduler" => AtSti(g)
      /\ \A k \in Lock : Holds(g, k) <=> Holds(f, k) /\ k # l
      /\ Depth(g) = Depth(f) - 1 /\ Depth(f) \in 1 .. 2 /\ (Depth(g) = 0 <=> Quiet(g))
  BY <1>2, <1>3, <1>4, <1>5, ReleaseNext DEF Runs
<1>7. stack' = [stack EXCEPT ![t] = [stack[t] EXCEPT ![Len(stack[t])] = g]]
  <2>1. stack' = Goto(t, AfterRelease(t, f))
    BY <1>2, ProgramOps DEF Runs, Release, Advance, AfterRelease
  <2> QED
    BY <1>2, <1>3, <2>1, AdvanceIs
<1>8. /\ lock' = [lock EXCEPT ![l] = None]
      /\ cpu'[c].ncli = cpu[c].ncli - 1 /\ cpu'[c].thread = cpu[c].thread
      /\ cpu'[c].if = (cpu[c].ncli - 1 = 0 /\ cpu[c].intena) /\ cpu'[c].intena = cpu[c].intena
      /\ \A d \in Cpu \ {c} : cpu'[d] = cpu[d]
  BY <1>2, <1>4 DEF Runs, Release, Nested, Inv, Typed
<1>9. Carries(c, f) /\ cpu[c].ncli = Depth(f) /\ ~ Quiet(f) /\ cpu[c].intena \in BOOLEAN
  BY <1>2, <1>6 DEF Runs, Carries, Depth, Quiet, Inv, Typed
<1>10. f.code \in {"scheduler", "forkret"} \/ cpu[c].intena = (f.code # "timer")
  BY <1>6, <1>9 DEF Carries
<1>11. Carries(c, g)'
  <2>1. \A k \in Lock : lock'[k] = c <=> Holds(g, k)
    BY <1>6, <1>8, <1>9, ThreadAssumption DEF Carries, Inv, Typed
  <2>2. cpu'[c].ncli = Depth(g)
    BY <1>6, <1>8, <1>9
  <2>3. Quiet(g) => \/ g.code = "forkret" \/ AtSti(g)
                    \/ cpu'[c].if = (g.code # "timer")
    <3>1. Quiet(g) => cpu'[c].if = cpu[c].intena
      BY <1>6, <1>8, <1>9
    <3> QED
      BY <1>6, <1>10, <3>1
  <2>4. ~ Quiet(g) => /\ ~ cpu'[c].if
                      /\ \/ g.code \in {"scheduler", "forkret"} \/ AtHandover(g)
                         \/ cpu'[c].intena = (g.code # "timer")
    <3>1. ~ Quiet(g) => ~ cpu'[c].if
      BY <1>6, <1>8, <1>9
    <3> QED
      BY <1>6, <1>8, <1>10, <3>1
  <2> QED
    BY <1>6, <2>1, <2>2, <2>3, <2>4 DEF Carries
<1>12. Typed'
  <2>1. cpu'[c].if \in BOOLEAN /\ Nested(c) \in 0 .. 2
    BY <1>6, <1>8, <1>9 DEF Nested
  <2>2. cpu' = [cpu EXCEPT ![c] = [cpu[c] EXCEPT !.ncli = Nested(c),
                                                 !.if = Nested(c) = 0 /\ cpu[c].intena]]
    BY DEF Release, Inv, Typed
  <2>3. cpu'[c] \in [if : BOOLEAN, ncli : 0 .. 2, intena : BOOLEAN, thread : Thread]
    BY <2>1, <2>2 DEF Inv, Typed
  <2>4. cpu' \in [Cpu -> [if : BOOLEAN, ncli : 0 .. 2, intena : BOOLEAN, thread : Thread]]
    BY <2>2, <2>3 DEF Inv, Typed
  <2> QED
    BY <1>7, <1>8, <2>4 DEF Release, Inv, Typed
<1>13. \A d \in Cpu \ {c} : \A k \in Lock : lock'[k] = d <=> lock[k] = d
  BY <1>4, <1>6, <1>8, <1>9, ThreadAssumption DEF Carries, Inv, Typed
<1>14. \A u \in Thread \ {Running(c)} : Rests(u)
  BY <1>2, <1>7 DEF Runs, Release, Rests, Stays, Inv, Typed
<1>15. stack'[t] = [stack[t] EXCEPT ![Len(stack[t])] = g]
  BY <1>7 DEF Inv, Typed
<1> QED
  BY <1>1, <1>2, <1>6, <1>8, <1>11, <1>12, <1>13, <1>14, <1>15, SameThread DEF Runs, Release

LEMMA StiStep ==
  ASSUME Inv, NEW c \in Cpu, Sti(c)
  PROVE  Inv'
<1>1. InKernel(c)
  BY DEF Sti, At
<1> PICK t \in Thread : \E f : Runs(c, t, f)
  BY <1>1, StepFacts
<1>2. PICK f : Runs(c, t, f)
  OBVIOUS
<1>3. PICK g : g = [code |-> f.code, pc |-> f.pc + 1, flags |-> None]
  OBVIOUS
<1>4. AtSti(f)
  BY <1>2 DEF Runs, Sti, At, OpFacts
<1>5. stack' = [stack EXCEPT ![t] = [stack[t] EXCEPT ![Len(stack[t])] = g]]
  <2>1. stack' = Goto(t, f.pc + 1)
    BY <1>2 DEF Runs, Sti, Advance
  <2> QED
    BY <1>2, <1>3, <2>1, AdvanceIs
<1>6. IsFrame(g) /\ ~ AtHandover(g) /\ g.code = f.code /\ g.code = "scheduler" /\ g.pc = 2
  BY <1>3, <1>4 DEF AtSti, IsFrame, IsPoint, Quiet, AtHandover
<1>7. Carries(c, g)'
  <2>1. Quiet(f) /\ Quiet(g)
    BY <1>4, <1>6 DEF AtSti, Quiet, HoldsPtable, HoldsTicks, AtStart
  <2>2. cpu'[c].if = TRUE /\ cpu'[c].ncli = cpu[c].ncli /\ lock' = lock
    BY DEF Sti, Inv, Typed
  <2>3. cpu[c].ncli = Depth(f) /\ Depth(f) = Depth(g) /\ \A l \in Lock : lock[l] # c
    BY <1>2, <2>1 DEF Runs, Carries, Depth, Quiet, Holds
  <2> QED
    BY <1>6, <2>1, <2>2, <2>3 DEF Carries, Gone, Holds, Quiet
<1>8. Typed'
  BY <1>5 DEF Sti, Inv, Typed
<1>9. \A u \in Thread \ {Running(c)} : Rests(u)
  BY <1>2, <1>5 DEF Runs, Sti, Rests, Stays, Inv, Typed
<1>10. stack'[t] = [stack[t] EXCEPT ![Len(stack[t])] = g]
  BY <1>5 DEF Inv, Typed
<1>11. cpu'[c].thread = cpu[c].thread /\ \A d \in Cpu \ {c} : cpu'[d] = cpu[d]
  BY DEF Sti, Inv, Typed
<1>12. lock' = lock /\ saved' = saved /\ state' = state
  BY DEF Sti
<1> QED
  BY <1>1, <1>2, <1>6, <1>7, <1>8, <1>9, <1>10, <1>11, <1>12, SameThread DEF Runs

-----------------------------------------------------------------------------
(* proc.c *)

\* the stacks after a step of t to another point of its code
LEMMA AfterGoto ==
  ASSUME Inv, NEW c \in Cpu, NEW t \in Thread, NEW f, Runs(c, t, f), NEW pc,
         NEW g, g = [code |-> f.code, pc |-> pc, flags |-> None], NEW s, s = Goto(t, pc)
  PROVE  /\ s[t] = [stack[t] EXCEPT ![Len(stack[t])] = g]
         /\ \A u \in Thread \ {t} : s[u] = stack[u]
         /\ DOMAIN s = Thread
<1>1. s = [stack EXCEPT ![t] = [stack[t] EXCEPT ![Len(stack[t])] = g]]
  BY AdvanceIs
<1> QED
  BY <1>1 DEF Inv, Typed

\* between two points that hold the same locks
LEMMA KeepsLocks ==
  ASSUME NEW c \in Cpu, NEW f, NEW g, Carries(c, f), ~ Quiet(f), ~ AtHandover(f),
         ~ Gone(g), g.code = f.code, lock' = lock, cpu'[c] = cpu[c],
         HoldsPtable(g) = HoldsPtable(f), HoldsTicks(g) = HoldsTicks(f)
  PROVE  Carries(c, g)'
BY DEF Carries, Holds, Quiet, Depth, AtSti

LEMMA ResumeStep ==
  ASSUME Inv, NEW c \in Cpu, Resume(c)
  PROVE  Inv'
<1>1. InKernel(c)
  BY DEF Resume, At
<1> PICK t \in Thread : \E f : Runs(c, t, f)
  BY <1>1, StepFacts
<1>2. PICK f : Runs(c, t, f)
  OBVIOUS
<1>3. PICK pc : pc = IF f.code = "wait" THEN 2 ELSE f.pc + 1
  OBVIOUS
<1>4. PICK g : g = [code |-> f.code, pc |-> pc, flags |-> None]
  OBVIOUS
<1>5. AtHandover(f)
  BY <1>2 DEF Runs, Resume, At, OpFacts
<1>6. t \in Proc /\ t # c
  BY <1>2, <1>5, ThreadAssumption DEF Runs, AtHandover
<1>7. /\ IsFrame(g) /\ ~ AtHandover(g) /\ g.code = f.code /\ ~ Gone(g) /\ ~ Quiet(g)
      /\ HoldsPtable(g) /\ HoldsPtable(f) /\ ~ HoldsTicks(g) /\ ~ HoldsTicks(f)
      /\ ~ AtStart(g) /\ f.code # "forkret" /\ f.code # "scheduler"
  BY <1>3, <1>4, <1>5
  DEF AtHandover, IsFrame, IsPoint, Gone, Quiet, HoldsPtable, HoldsTicks, AtStart
<1>8. saved[t] = (f.code # "timer")
  BY <1>2, <1>5, <1>6 DEF Runs, Inv, ProcFormed
<1>9. stack' = Goto(t, pc)
  BY <1>2, <1>3 DEF Runs, Resume, Advance
<1>10. /\ stack'[t] = [stack[t] EXCEPT ![Len(stack[t])] = g]
       /\ \A u \in Thread \ {t} : stack'[u] = stack[u]
       /\ DOMAIN stack' = Thread
  BY <1>2, <1>4, <1>9, AfterGoto
<1>11. /\ cpu' = [cpu EXCEPT ![c].intena = saved[t]]
       /\ lock' = lock /\ state' = state /\ saved' = saved
  BY <1>2 DEF Runs, Resume, OfThread
<1>12. /\ cpu'[c].if = cpu[c].if /\ cpu'[c].ncli = cpu[c].ncli /\ cpu'[c].intena = saved[t]
       /\ cpu'[c].thread = cpu[c].thread /\ \A d \in Cpu \ {c} : cpu'[d] = cpu[d]
  BY <1>11 DEF Inv, Typed
<1>13. Carries(c, g)'
  BY <1>2, <1>7, <1>8, <1>11, <1>12 DEF Runs, Carries, Holds, Quiet, Depth
<1>14. Typed'
  <2>1. saved[t] \in BOOLEAN
    BY <1>8
  <2> QED
    BY <1>10, <1>11, <2>1 DEF Inv, Typed
<1>15. \A u \in Thread \ {t} : Rests(u)
  BY <1>10, <1>11 DEF Rests, Stays
<1> QED
  BY <1>1, <1>2, <1>6, <1>7, <1>10, <1>11, <1>12, <1>13, <1>14, <1>15, ThreadAssumption, SameThread
  DEF Runs

LEMMA WakeupStep ==
  ASSUME Inv, NEW c \in Cpu, Wakeup(c)
  PROVE  Inv'
<1>1. InKernel(c)
  BY DEF Wakeup, At
<1> PICK t \in Thread : \E f : Runs(c, t, f)
  BY <1>1, StepFacts
<1>2. PICK f : Runs(c, t, f)
  OBVIOUS
<1>3. PICK g : g = [code |-> f.code, pc |-> f.pc + 1, flags |-> None]
  OBVIOUS
<1>4. <<f.code, f.pc>> \in {<<"timer", 3>>, <<"exit", 2>>}
  BY <1>2 DEF Runs, Wakeup, At, OpFacts
<1>5. /\ IsFrame(g) /\ ~ AtHandover(g) /\ g.code = f.code /\ ~ Gone(g) /\ ~ Quiet(f)
      /\ HoldsPtable(g) = HoldsPtable(f) /\ HoldsTicks(g) = HoldsTicks(f) /\ ~ AtHandover(f)
      /\ (g.code = "timer" => g.pc \notin 6 .. 9)
  BY <1>3, <1>4
  DEF AtHandover, IsFrame, IsPoint, Gone, Quiet, HoldsPtable, HoldsTicks, AtStart
<1>6. stack' = Goto(t, f.pc + 1)
  BY <1>2 DEF Runs, Wakeup, Advance
<1>7. /\ stack'[t] = [stack[t] EXCEPT ![Len(stack[t])] = g]
      /\ \A u \in Thread \ {t} : stack'[u] = stack[u]
      /\ DOMAIN stack' = Thread
  BY <1>2, <1>3, <1>6, AfterGoto
<1>8. cpu' = cpu /\ lock' = lock /\ saved' = saved
  BY DEF Wakeup
<1>9. \A p \in Proc : state'[p] = IF state[p] = "SLEEPING" THEN "RUNNABLE" ELSE state[p]
  BY DEF Wakeup, Sleeps
<1>10. Carries(c, g)'
  BY <1>2, <1>5, <1>8, KeepsLocks DEF Runs
<1>11. Typed'
  BY <1>7, <1>8 DEF Inv, Typed, Wakeup
<1>12. \A u \in Thread \ {t} : Rests(u)
  BY <1>7, <1>9 DEF Rests, Stays
<1>13. t \in Proc => state'[t] = state[t]
  BY <1>2, <1>9, ThreadAssumption DEF Runs
<1> QED
  BY <1>1, <1>2, <1>5, <1>7, <1>8, <1>10, <1>11, <1>12, <1>13, SameThread DEF Runs

LEMMA ForkStep ==
  ASSUME Inv, NEW c \in Cpu, Fork(c)
  PROVE  Inv'
<1>1. InKernel(c)
  BY DEF Fork, At
<1> PICK t \in Thread : \E f : Runs(c, t, f)
  BY <1>1, StepFacts
<1>2. PICK f : Runs(c, t, f)
  OBVIOUS
<1>3. PICK g : g = [code |-> f.code, pc |-> f.pc + 1, flags |-> None]
  OBVIOUS
<1>4. f.code = "fork" /\ f.pc = 2
  BY <1>2 DEF Runs, Fork, At, OpFacts
<1>5. /\ IsFrame(g) /\ ~ AtHandover(g) /\ g.code = f.code /\ ~ Gone(g) /\ ~ Quiet(f)
      /\ HoldsPtable(g) = HoldsPtable(f) /\ HoldsTicks(g) = HoldsTicks(f) /\ ~ AtHandover(f)
      /\ g.code # "timer"
  BY <1>3, <1>4
  DEF AtHandover, IsFrame, IsPoint, Gone, Quiet, HoldsPtable, HoldsTicks, AtStart
<1>6. PICK s : s = Goto(t, f.pc + 1)
  OBVIOUS
<1>7. /\ s[t] = [stack[t] EXCEPT ![Len(stack[t])] = g]
      /\ \A u \in Thread \ {t} : s[u] = stack[u]
      /\ DOMAIN s = Thread
  BY <1>2, <1>3, <1>6, AfterGoto
<1>8. cpu' = cpu /\ lock' = lock /\ saved' = saved
  BY DEF Fork
<1>9. Carries(c, g)'
  BY <1>2, <1>5, <1>8, KeepsLocks DEF Runs
<1>10. t \in Proc /\ state[t] = "RUNNING"
  BY <1>2, <1>4 DEF Runs
<1>11. \/ \E q \in Proc : /\ state[q] = "UNUSED"
                          /\ state' = [state EXCEPT ![q] = "RUNNABLE"]
                          /\ stack' = [s EXCEPT ![q] = <<Frame("forkret", 1)>>]
       \/ stack' = s /\ state' = state
  BY <1>2, <1>6 DEF Runs, Fork, Advance
<1>12. /\ Typed' /\ stack'[t] = s[t] /\ state'[t] = state[t]
       /\ \A u \in Thread \ {t} : Rests(u)
  <2>1. CASE stack' = s /\ state' = state
    BY <1>7, <1>8, <2>1 DEF Inv, Typed, Rests, Stays
  <2>2. ASSUME NEW q \in Proc, state[q] = "UNUSED", state' = [state EXCEPT ![q] = "RUNNABLE"],
               stack' = [s EXCEPT ![q] = <<Frame("forkret", 1)>>]
        PROVE <1>12!:
    <3>1. q # t /\ q \in Thread
      BY <1>10, <2>2 DEF Thread
    <3>2. Typed' /\ stack'[t] = s[t] /\ state'[t] = state[t]
      BY <1>7, <1>8, <1>10, <2>2, <3>1 DEF Inv, Typed
    <3>3. Forked(q)
      BY <1>7, <2>2, <3>1 DEF Forked, Inv, Typed
    <3>4. \A u \in Thread \ {t, q} : Stays(u)
      BY <1>7, <2>2, <3>1 DEF Stays, Inv, Typed
    <3> QED
      BY <3>2, <3>3, <3>4 DEF Rests
  <2> QED
    BY <1>11, <2>1, <2>2
<1> QED
  BY <1>1, <1>2, <1>5, <1>7, <1>8, <1>9, <1>12, SameThread DEF Runs

\* a process gives up its CPU to the scheduler thread, in sched()
LEMMA LeaveStep ==
  ASSUME Inv, NEW c \in Cpu, NEW t \in Thread, NEW f, Runs(c, t, f), t \in Proc,
         NEW s \in {"RUNNABLE", "SLEEPING", "ZOMBIE"}, Leave(c, s), lock' = lock,
         NEW pc, NEW g, g = [code |-> f.code, pc |-> pc, flags |-> None], stack' = Goto(t, pc),
         IsFrame(g), g.code \notin {"scheduler", "forkret"}, ~ AtHandover(f), HoldsPtable(f),
         s # "ZOMBIE" => AtHandover(g)
  PROVE  Inv'
<1>1. /\ stack'[t] = [stack[t] EXCEPT ![Len(stack[t])] = g]
      /\ \A u \in Thread \ {t} : stack'[u] = stack[u]
      /\ DOMAIN stack' = Thread
  BY AfterGoto
<1>2. t \notin Cpu /\ t # c /\ c \in Thread
  BY ThreadAssumption DEF Thread
<1>3. /\ lock["ptable"] = c /\ cpu[c].ncli = 1 /\ ~ cpu[c].if
      /\ state' = [state EXCEPT ![t] = s]
      /\ saved' = [saved EXCEPT ![t] = cpu[c].intena]
      /\ cpu' = [cpu EXCEPT ![c].thread = c]
  BY DEF Leave, MayLeave, Runs
<1>4. Carries(c, f) /\ cpu[c].intena = (f.code # "timer")
  <2>1. f.code = g.code /\ ~ Quiet(f)
    BY DEF Quiet
  <2> QED
    BY <2>1 DEF Runs, Carries
<1>5. stack'[t] # <<>> /\ Top(t)' = g /\ StackFormed(t)'
  BY <1>1, <1>2, TopReplaced DEF Runs
<1>6. Plain(c) /\ Top(c).pc = 3 /\ StackFormed(c) /\ CpuFormed(c)
  BY <1>2 DEF Inv, CpuFormed, Runs
<1>7. Plain(c)' /\ Top(c)' = Top(c) /\ stack'[c] = stack[c] /\ stack[c] # <<>>
  BY <1>1, <1>2, <1>6 DEF Plain, Top
<1>8. /\ cpu'[c].ncli = 1 /\ ~ cpu'[c].if /\ cpu'[c].thread = c
      /\ \A d \in Cpu \ {c} : cpu'[d] = cpu[d]
  BY <1>3 DEF Inv, Typed
<1>9. CpuFormed(c)'
  <2>1. PICK h : h = Top(c)
    OBVIOUS
  <2>2. h.code = "scheduler" /\ h.pc = 3
    BY <1>2, <1>6, <2>1 DEF Plain
  <2>3. HoldsPtable(h) /\ ~ HoldsTicks(h) /\ ~ Quiet(h) /\ Depth(h) = 1 /\ ~ Gone(h)
    BY <2>2 DEF HoldsPtable, HoldsTicks, Quiet, Depth, Gone
  <2>4. lock["ticks"] # c
    <3>1. Depth(f) = 1 /\ HoldsPtable(f)
      BY <1>3, <1>4 DEF Carries
    <3>2. ~ HoldsTicks(f)
      BY <3>1 DEF Depth
    <3>3. ~ Holds(f, "ticks") /\ "ticks" \in Lock
      BY <3>2 DEF Holds, Lock
    <3> QED
      BY <1>4, <3>3 DEF Carries
  <2>5. \A l \in Lock : lock'[l] = c <=> Holds(h, l)
    BY <1>3, <2>3, <2>4 DEF Holds, Lock
  <2>6. Carries(c, h)'
    BY <1>8, <2>2, <2>3, <2>5 DEF Carries
  <2>7. Running(c)' = c /\ Top(c)' = h
    BY <1>7, <1>8, <2>1 DEF Running
  <2>8. Carries(c, Top(c))'
    BY <2>6, <2>7 DEF Carries
  <2> QED
    BY <1>7, <2>7, <2>8 DEF CpuFormed, InKernel
<1>10. ASSUME NEW d \in Cpu, d # c PROVE CpuFormed(d)'
  <2>1. d # t /\ Running(d) \in Thread \ {t}
    BY <1>10, OtherThread DEF Runs
  <2>2. d \in Thread
    BY DEF Thread
  <2> QED
    BY <1>1, <1>8, <1>10, <2>1, <2>2, OtherCpu DEF Inv
<1>11. ASSUME NEW p \in Proc PROVE ProcFormed(p)'
  <2>1. CASE p = t
    <3>1. state'[p] = s /\ saved'[p] = (g.code # "timer")
      BY <1>3, <1>4, <2>1 DEF Inv, Typed
    <3> QED
      BY <1>5, <2>1, <3>1 DEF ProcFormed
  <2>2. CASE p # t
    <3>1. stack'[p] = stack[p] /\ state'[p] = state[p] /\ saved'[p] = saved[p]
      BY <1>1, <1>3, <2>2 DEF Inv, Typed, Thread
    <3> QED
      BY <3>1, OtherProc DEF Inv
  <2> QED
    BY <2>1, <2>2
<1>12. OneCpu'
  <2>1. \A d \in Cpu \ {c} : Running(d)' = Running(d) /\ Running(d) # t /\ Running(d) # c
    BY <1>8, OtherThread DEF Running, Runs
  <2>2. Running(c)' = c /\ c \notin Proc
    BY <1>8, ThreadAssumption DEF Running
  <2>3. ASSUME NEW d \in Cpu \ {c}, Running(d) \in Proc PROVE state'[Running(d)] = "RUNNING"
    BY <1>3, <2>1, <2>3 DEF Inv, OneCpu, Typed
  <2> QED
    BY <2>1, <2>2, <2>3 DEF Inv, OneCpu
<1>13. Typed'
  <2>1. cpu[c].intena \in BOOLEAN
    BY <1>4
  <2> QED
    BY <1>1, <1>2, <1>3, <2>1 DEF Inv, Typed
<1>14. ASSUME NEW u \in Thread PROVE StackFormed(u)'
  BY <1>1, <1>5, OtherStack DEF Inv
<1> QED
  BY <1>9, <1>10, <1>11, <1>12, <1>13, <1>14 DEF Inv

LEMMA SchedStep ==
  ASSUME Inv, NEW c \in Cpu, Sched(c)
  PROVE  Inv'
<1>1. InKernel(c)
  BY DEF Sched, At
<1> PICK t \in Thread : \E f : Runs(c, t, f)
  BY <1>1, StepFacts
<1>2. PICK f : Runs(c, t, f)
  OBVIOUS
<1>3. PICK g : g = [code |-> f.code, pc |-> f.pc + 1, flags |-> None]
  OBVIOUS
<1>4. IsSched(f)
  BY <1>2 DEF Runs, Sched, At, OpFacts
<1>5. PICK s : s = OpOf(f)[2]
  OBVIOUS
<1>6. /\ IsFrame(g) /\ g.code \notin {"scheduler", "forkret"} /\ ~ AtHandover(f)
      /\ HoldsPtable(f) /\ s \in {"RUNNABLE", "SLEEPING", "ZOMBIE"}
      /\ (s # "ZOMBIE" => AtHandover(g)) /\ (f.code = "timer" => f.pc \in 6 .. 9)
  BY <1>3, <1>4, <1>5
  DEF IsSched, IsFrame, IsPoint, AtHandover, HoldsPtable, HoldsTicks, Quiet
<1>7. t \in Proc
  BY <1>2, <1>3, <1>6 DEF Runs
<1>8. Leave(c, s) /\ stack' = Goto(t, f.pc + 1) /\ lock' = lock
  BY <1>2, <1>5 DEF Runs, Sched, Advance
<1> QED
  BY <1>2, <1>3, <1>6, <1>7, <1>8, LeaveStep

LEMMA ScanStep ==
  ASSUME Inv, NEW c \in Cpu, Scan(c)
  PROVE  Inv'
<1>1. InKernel(c)
  BY DEF Scan, At
<1> PICK t \in Thread : \E f : Runs(c, t, f)
  BY <1>1, StepFacts
<1>2. PICK f : Runs(c, t, f)
  OBVIOUS
<1>3. f.code = "wait" /\ f.pc = 2
  BY <1>2 DEF Runs, Scan, At, OpFacts
<1>4. t \in Proc /\ state[t] = "RUNNING"
  BY <1>2, <1>3 DEF Runs
<1>5. PICK g : g = [code |-> f.code, pc |-> 4, flags |-> None]
  OBVIOUS
<1>6. PICK h : h = [code |-> f.code, pc |-> 3, flags |-> None]
  OBVIOUS
<1>7. /\ IsFrame(g) /\ ~ AtHandover(g) /\ g.code = f.code /\ ~ Gone(g) /\ ~ Quiet(f)
      /\ HoldsPtable(g) = HoldsPtable(f) /\ HoldsTicks(g) = HoldsTicks(f) /\ ~ AtHandover(f)
      /\ g.code # "timer" /\ IsFrame(h) /\ AtHandover(h) /\ HoldsPtable(f)
      /\ h.code \notin {"scheduler", "forkret"}
  BY <1>3, <1>5, <1>6
  DEF AtHandover, IsFrame, IsPoint, Gone, Quiet, HoldsPtable, HoldsTicks, AtStart
<1>8. PICK s : s = Goto(t, 4)
  OBVIOUS
<1>9. /\ s[t] = [stack[t] EXCEPT ![Len(stack[t])] = g]
      /\ \A u \in Thread \ {t} : s[u] = stack[u]
      /\ DOMAIN s = Thread
  BY <1>2, <1>5, <1>8, AfterGoto
<1>10. lock' = lock /\
       \/ \E z \in Proc : /\ state[z] = "ZOMBIE"
                          /\ state' = [state EXCEPT ![z] = "UNUSED"]
                          /\ stack' = [s EXCEPT ![z] = <<>>]
                          /\ cpu' = cpu /\ saved' = saved
       \/ stack' = s /\ cpu' = cpu /\ saved' = saved /\ state' = state
       \/ Leave(c, "SLEEPING") /\ stack' = Goto(t, 3)
  BY <1>2, <1>3, <1>8 DEF Runs, Scan, Advance, Zombies
<1>11. CASE Leave(c, "SLEEPING") /\ stack' = Goto(t, 3)
  BY <1>2, <1>4, <1>6, <1>7, <1>10, <1>11, LeaveStep
<1>12. ASSUME /\ cpu' = cpu /\ saved' = saved /\ Typed' /\ stack'[t] = s[t] /\ state'[t] = state[t]
              /\ \A u \in Thread \ {t} : Rests(u)
       PROVE Inv'
  <2>1. Carries(c, g)'
    BY <1>2, <1>7, <1>10, <1>12, KeepsLocks DEF Runs
  <2> QED
    BY <1>1, <1>2, <1>7, <1>9, <1>10, <1>12, <2>1, SameThread DEF Runs
<1>13. CASE stack' = s /\ cpu' = cpu /\ saved' = saved /\ state' = state
  BY <1>9, <1>10, <1>12, <1>13 DEF Inv, Typed, Rests, Stays
<1>14. ASSUME NEW z \in Proc, state[z] = "ZOMBIE", state' = [state EXCEPT ![z] = "UNUSED"],
              stack' = [s EXCEPT ![z] = <<>>], cpu' = cpu, saved' = saved
       PROVE Inv'
  <2>1. z # t /\ z \in Thread
    BY <1>4, <1>14 DEF Thread
  <2>2. Typed' /\ stack'[t] = s[t] /\ state'[t] = state[t]
    BY <1>4, <1>9, <1>10, <1>14, <2>1 DEF Inv, Typed
  <2>3. Freed(z)
    BY <1>9, <1>14, <2>1 DEF Freed, Inv, Typed
  <2>4. \A u \in Thread \ {t, z} : Stays(u)
    BY <1>9, <1>14, <2>1 DEF Stays, Inv, Typed
  <2> QED
    BY <1>12, <1>14, <2>2, <2>3, <2>4 DEF Rests
<1> QED
  BY <1>10, <1>11, <1>13, <1>14

LEMMA PickStep ==
  ASSUME Inv, NEW c \in Cpu, Pick(c)
  PROVE  Inv'
<1>1. InKernel(c)
  BY DEF Pick, At
<1> PICK t \in Thread : \E f : Runs(c, t, f)
  BY <1>1, StepFacts
<1>2. PICK f : Runs(c, t, f)
  OBVIOUS
<1>3. f.code = "scheduler" /\ f.pc = 3
  BY <1>2 DEF Runs, Pick, At, OpFacts
<1>4. t = c /\ t \in Cpu /\ t \notin Proc
  BY <1>2, <1>3, ThreadAssumption DEF Runs
<1>5. lock' = lock /\ saved' = saved
  BY DEF Pick
<1>6. HoldsPtable(f) /\ ~ HoldsTicks(f) /\ ~ Quiet(f) /\ Depth(f) = 1 /\ ~ AtHandover(f)
  BY <1>3 DEF HoldsPtable, HoldsTicks, Quiet, Depth, AtHandover
<1>7. CASE stack' = Advance(c) /\ state' = state /\ cpu' = cpu
  <2>1. PICK g : g = [code |-> f.code, pc |-> 4, flags |-> None]
    OBVIOUS
  <2>2. /\ IsFrame(g) /\ ~ AtHandover(g) /\ g.code = f.code /\ ~ Gone(g) /\ g.code # "timer"
        /\ HoldsPtable(g) = HoldsPtable(f) /\ HoldsTicks(g) = HoldsTicks(f)
    BY <1>3, <2>1
    DEF AtHandover, IsFrame, IsPoint, Gone, Quiet, HoldsPtable, HoldsTicks, AtStart
  <2>3. stack' = Goto(t, 4)
    BY <1>2, <1>3, <1>4, <1>7 DEF Runs, Advance
  <2>4. /\ stack'[t] = [stack[t] EXCEPT ![Len(stack[t])] = g]
        /\ \A u \in Thread \ {t} : stack'[u] = stack[u]
        /\ DOMAIN stack' = Thread
    BY <1>2, <2>1, <2>3, AfterGoto
  <2>5. Carries(c, g)'
    BY <1>2, <1>5, <1>6, <1>7, <2>2, KeepsLocks DEF Runs
  <2>6. Typed' /\ \A u \in Thread \ {t} : Rests(u)
    BY <1>5, <1>7, <2>4 DEF Inv, Typed, Rests, Stays
  <2> QED
    BY <1>1, <1>2, <1>4, <1>5, <1>7, <2>2, <2>4, <2>5, <2>6, SameThread DEF Runs
<1>8. ASSUME NEW p \in Proc, state[p] = "RUNNABLE", state' = [state EXCEPT ![p] = "RUNNING"],
             cpu' = [cpu EXCEPT ![c].thread = p], stack' = stack
      PROVE Inv'
  <2>1. PICK h : h = Top(p)
    OBVIOUS
  <2>2. p \in Thread /\ p \notin Cpu /\ stack[p] # <<>> /\ IsFrame(h) /\ (AtHandover(h) \/ AtStart(h))
    BY <1>8, <2>1, ThreadAssumption DEF Inv, ProcFormed, StackFormed, Thread
  <2>3. HoldsPtable(h) /\ ~ HoldsTicks(h) /\ ~ Quiet(h) /\ Depth(h) = 1 /\ ~ Gone(h)
    BY <2>2 DEF HoldsPtable, HoldsTicks, Quiet, Depth, Gone, AtHandover, AtStart
  <2>4. /\ cpu'[c].ncli = cpu[c].ncli /\ cpu'[c].if = cpu[c].if /\ cpu'[c].thread = p
        /\ \A d \in Cpu \ {c} : cpu'[d] = cpu[d]
    BY <1>8 DEF Inv, Typed
  <2>5. \A l \in Lock : Holds(h, l) <=> Holds(f, l)
    BY <1>6, <2>3 DEF Holds
  <2>6. AtHandover(h) \/ h.code \in {"scheduler", "forkret"}
    BY <2>2 DEF AtStart
  <2>7. Carries(c, h)'
    BY <1>2, <1>5, <1>6, <2>3, <2>4, <2>5, <2>6 DEF Carries, Runs
  <2>8. Running(c)' = p /\ Top(p)' = h /\ Top(c)' = Top(c)
    BY <1>8, <2>1, <2>4 DEF Running, Top
  <2>9. Plain(c)
    BY <1>2, <1>3, <1>4 DEF Runs, StackFormed, Interrupted
  <2>10. Plain(c)' /\ Top(c)'.pc = 3
    BY <1>2, <1>3, <1>4, <1>8, <2>8, <2>9 DEF Plain, Runs
  <2>11. CpuFormed(c)'
    <3>1. Carries(c, Top(p))'
      BY <2>7, <2>8 DEF Carries
    <3>2. stack'[p] # <<>>
      BY <1>8, <2>2
    <3> QED
      BY <2>8, <2>10, <3>1, <3>2 DEF CpuFormed, InKernel
  <2>12. ASSUME NEW d \in Cpu, d # c PROVE CpuFormed(d)'
    BY <1>5, <1>8, <2>4, <2>12, OtherCpu DEF Inv
  <2>13. ASSUME NEW q \in Proc PROVE ProcFormed(q)'
    <3>1. CASE q # p
      BY <1>5, <1>8, <3>1, OtherProc DEF Inv, Typed
    <3>2. CASE q = p
      <4>1. state'[q] = "RUNNING" /\ saved'[q] = saved[q] /\ stack'[q] = stack[q] /\ ProcFormed(q)
        BY <1>5, <1>8, <3>2 DEF Inv, Typed
      <4> QED
        BY <4>1 DEF ProcFormed, Top
    <3> QED
      BY <3>1, <3>2
  <2>14. OneCpu'
    <3>1. \A d \in Cpu \ {c} : Running(d)' = Running(d) /\ Running(d) # p
      BY <1>8, <2>2, <2>4 DEF Running, Inv, OneCpu
    <3>2. ASSUME NEW d \in Cpu \ {c}, Running(d) \in Proc PROVE state'[Running(d)] = "RUNNING"
      BY <1>8, <3>1, <3>2 DEF Inv, OneCpu, Typed
    <3>3. state'[p] = "RUNNING"
      BY <1>8 DEF Inv, Typed
    <3> QED
      BY <2>8, <3>1, <3>2, <3>3 DEF Inv, OneCpu
  <2>15. Typed'
    BY <1>5, <1>8, <2>2 DEF Inv, Typed
  <2>16. ASSUME NEW u \in Thread PROVE StackFormed(u)'
    BY <1>8, OtherStack DEF Inv
  <2> QED
    BY <2>11, <2>12, <2>13, <2>14, <2>15, <2>16 DEF Inv
<1> QED
  BY <1>7, <1>8 DEF Pick

-----------------------------------------------------------------------------
(* traps *)

\* a stack of one frame pushed on, and one of two popped
LEMMA Pushed ==
  ASSUME NEW f, NEW g
  PROVE  Append(<<f>>, g) = <<f, g>>
<1>1. <<f>> \in Seq({f, g}) /\ <<f, g>> \in Seq({f, g})
  OBVIOUS
<1>2. Append(<<f>>, g) \in Seq({f, g})
  BY <1>1
<1>3. Len(Append(<<f>>, g)) = 2 /\ Append(<<f>>, g)[1] = f /\ Append(<<f>>, g)[2] = g
  BY <1>1
<1>4. \A i \in 1 .. Len(Append(<<f>>, g)) : Append(<<f>>, g)[i] = <<f, g>>[i]
  BY <1>3
<1> QED
  BY <1>1, <1>2, <1>3, <1>4, SeqEqual

LEMMA PairParts ==
  ASSUME NEW f, NEW g, NEW s, s = <<f, g>>
  PROVE  Len(s) = 2 /\ s[2] = g /\ s[1] = f
OBVIOUS

LEMMA Popped ==
  ASSUME NEW f, NEW g
  PROVE  SubSeq(<<f, g>>, 1, 1) = <<f>>
<1>1. <<f, g>> \in Seq({f, g}) /\ <<f>> \in Seq({f, g})
  OBVIOUS
<1>2. SubSeq(<<f, g>>, 1, 1) \in Seq({f, g})
  BY <1>1
<1>3. Len(SubSeq(<<f, g>>, 1, 1)) = 1 /\ SubSeq(<<f, g>>, 1, 1)[1] = f
  BY <1>1
<1>4. \A i \in 1 .. Len(SubSeq(<<f, g>>, 1, 1)) : SubSeq(<<f, g>>, 1, 1)[i] = <<f>>[i]
  BY <1>3
<1> QED
  BY <1>1, <1>2, <1>3, <1>4, SeqEqual

LEMMA IretStep ==
  ASSUME Inv, NEW c \in Cpu, Iret(c)
  PROVE  Inv'
<1>1. InKernel(c)
  BY DEF Iret, At
<1> PICK t \in Thread : \E f : Runs(c, t, f)
  BY <1>1, StepFacts
<1>2. PICK f : Runs(c, t, f)
  OBVIOUS
<1>3. IsIret(f)
  BY <1>2 DEF Runs, Iret, At, OpFacts
<1>4. Quiet(f) /\ Depth(f) = 0 /\ f.code # "scheduler" /\ \A l \in Lock : ~ Holds(f, l)
  BY <1>3 DEF IsIret, Quiet, HoldsPtable, HoldsTicks, Depth, AtStart, Holds
<1>5. /\ stack' = [stack EXCEPT ![t] = SubSeq(stack[t], 1, Len(stack[t]) - 1)]
      /\ cpu' = [cpu EXCEPT ![c].if = TRUE]
      /\ lock' = lock /\ state' = state /\ saved' = saved
  BY <1>2 DEF Runs, Iret
<1>6. /\ cpu'[c].if = TRUE /\ cpu'[c].ncli = cpu[c].ncli /\ cpu'[c].thread = cpu[c].thread
      /\ \A d \in Cpu \ {c} : cpu'[d] = cpu[d]
  BY <1>5 DEF Inv, Typed
<1>7. cpu'[c].ncli = 0 /\ \A l \in Lock : lock'[l] # c
  BY <1>2, <1>4, <1>5, <1>6 DEF Runs, Carries
<1>8. Typed' /\ \A u \in Thread \ {t} : Rests(u)
  BY <1>5 DEF Inv, Typed, Rests, Stays
<1>9. CASE Plain(t)
  <2>1. t \in Proc
    BY <1>2, <1>4, <1>9 DEF Plain, Runs
  <2>2. stack'[t] = <<>>
    BY <1>5, <1>9 DEF Plain, Inv, Typed
  <2>3. StackFormed(t)' /\ InUser(c)'
    BY <1>6, <1>7, <2>1, <2>2 DEF StackFormed, InUser
  <2> QED
    BY <1>2, <1>5, <1>6, <1>8, <2>2, <2>3, StaysOn DEF Runs
<1>10. CASE Interrupted(t)
  <2>1. PICK g : g = stack[t][1]
    OBVIOUS
  <2>2. /\ stack[t] = <<g, f>> /\ IsFrame(g) /\ Quiet(g) /\ g.code # "timer"
        /\ (g.code = "scheduler") = (t \in Cpu)
    BY <1>2, <1>10, <2>1 DEF Interrupted, Runs
  <2>3. stack'[t] = <<g>>
    <3>1. stack'[t] = SubSeq(<<g, f>>, 1, 1)
      BY <1>5, <2>2 DEF Inv, Typed
    <3> QED
      BY <3>1, Popped
  <2>4. stack'[t] # <<>> /\ Top(t)' = g
    BY <2>3 DEF Top
  <2>5. StackFormed(t)'
    BY <2>2, <2>3, <2>4 DEF StackFormed, Plain
  <2>6. ~ AtHandover(g) /\ ~ Gone(g) /\ Depth(g) = 0 /\ \A l \in Lock : ~ Holds(g, l)
    BY <2>2 DEF Quiet, HoldsPtable, HoldsTicks, AtHandover, Gone, Depth, Holds
  <2>7. Carries(c, g)'
    BY <1>6, <1>7, <2>2, <2>6 DEF Carries
  <2>8. Carries(c, Top(t))' /\ ~ AtHandover(Top(t))'
    BY <2>4, <2>6, <2>7 DEF Carries
  <2> QED
    BY <1>2, <1>5, <1>6, <1>8, <2>4, <2>5, <2>8, StaysOn DEF Runs
<1> QED
  BY <1>2, <1>9, <1>10 DEF Runs, StackFormed

\* a thread of c goes into the kernel: a frame with no lock is pushed on its stack
LEMMA EnterStep ==
  ASSUME Inv, NEW c \in Cpu, NEW t \in Thread, t = Running(c), NEW g,
         IsFrame(g), Quiet(g), g.code # "scheduler",
         stack' = [stack EXCEPT ![t] = Append(stack[t], g)],
         cpu'[c].ncli = 0, cpu'[c].if = (g.code # "timer"), \A l \in Lock : lock[l] # c,
         Typed', lock' = lock, state' = state, saved' = saved,
         cpu'[c].thread = cpu[c].thread, \A d \in Cpu \ {c} : cpu'[d] = cpu[d],
         \/ stack[t] = <<>> /\ t \in Proc
         \/ /\ g.code = "timer" /\ (t \in Cpu => g.pc \notin 6 .. 9)
            /\ stack[t] # <<>> /\ Plain(t)
            /\ IsFrame(Top(t)) /\ Quiet(Top(t)) /\ Top(t).code # "timer"
  PROVE  Inv'
<1>1. ~ AtHandover(g) /\ ~ Gone(g) /\ Depth(g) = 0 /\ \A l \in Lock : ~ Holds(g, l)
  BY DEF Quiet, HoldsPtable, HoldsTicks, AtHandover, Gone, Depth, Holds
<1>2. Carries(c, g)'
  BY <1>1 DEF Carries
<1>3. \A u \in Thread \ {t} : Rests(u)
  BY DEF Rests, Stays, Inv, Typed
<1>4. stack'[t] # <<>> /\ Top(t)' = g /\ StackFormed(t)'
  <2>1. CASE stack[t] = <<>> /\ t \in Proc
    <3>1. stack'[t] = <<g>>
      BY <2>1 DEF Inv, Typed
    <3>2. Top(t)' = g /\ t \notin Cpu /\ stack'[t] # <<>>
      BY <2>1, <3>1, ThreadAssumption DEF Top
    <3>3. stack'[t] = <<Top(t)'>>
      BY <3>1, <3>2
    <3> QED
      BY <2>1, <3>2, <3>3 DEF StackFormed, Plain
  <2>2. CASE /\ g.code = "timer" /\ (t \in Cpu => g.pc \notin 6 .. 9)
             /\ stack[t] # <<>> /\ Plain(t)
             /\ IsFrame(Top(t)) /\ Quiet(Top(t)) /\ Top(t).code # "timer"
    <3>1. PICK f : f = Top(t)
      OBVIOUS
    <3>2. stack[t] = <<f>> /\ (f.code = "scheduler") = (t \in Cpu)
      BY <2>2, <3>1 DEF Plain
    <3>3. stack'[t] = <<f, g>>
      <4>1. stack'[t] = Append(<<f>>, g)
        BY <3>2 DEF Inv, Typed
      <4> QED
        BY <4>1, Pushed
    <3>4. Top(t)' = g /\ stack'[t][1] = f
      <4>1. PICK s : s = stack'[t]
        OBVIOUS
      <4>2. Len(s) = 2 /\ s[2] = g /\ s[1] = f
        BY <3>3, <4>1, PairParts
      <4> QED
        BY <4>1, <4>2 DEF Top
    <3> QED
      BY <2>2, <3>1, <3>2, <3>3, <3>4 DEF StackFormed, Interrupted
  <2> QED
    BY <2>1, <2>2
<1>5. Carries(c, Top(t))' /\ ~ AtHandover(Top(t))'
  BY <1>1, <1>2, <1>4 DEF Carries
<1> QED
  BY <1>3, <1>4, <1>5, StaysOn

LEMMA InterruptStep ==
  ASSUME Inv, NEW c \in Cpu, Interrupt(c)
  PROVE  Inv'
<1>1. PICK t : t = Running(c)
  OBVIOUS
<1>2. t \in Thread /\ StackFormed(t) /\ (t \in Cpu => t = c)
  BY <1>1, ThreadAssumption DEF Inv, CpuFormed, Thread
<1>3. PICK g : g = Frame("timer", IF c = First THEN Tick
                                  ELSE IF t \in Cpu THEN Len(Program["timer"]) ELSE Yield)
  OBVIOUS
<1>4. /\ g.code = "timer" /\ g.flags = None /\ g.pc \in {1, 6, 10}
      /\ (t \in Cpu => g.pc \notin 6 .. 9) /\ g = [code |-> g.code, pc |-> g.pc, flags |-> g.flags]
  BY <1>3, ProgramOps DEF Frame, Tick, Yield
<1>5. IsFrame(g) /\ Quiet(g)
  BY <1>4 DEF IsFrame, IsPoint, Quiet, HoldsPtable, HoldsTicks, AtStart
<1>6. /\ cpu[c].if /\ cpu' = [cpu EXCEPT ![c].if = FALSE]
      /\ stack' = [stack EXCEPT ![t] = Append(stack[t], g)]
      /\ lock' = lock /\ state' = state /\ saved' = saved
  BY <1>1, <1>3 DEF Interrupt
<1>7. /\ cpu'[c].if = FALSE /\ cpu'[c].ncli = cpu[c].ncli /\ cpu'[c].thread = cpu[c].thread
      /\ \A d \in Cpu \ {c} : cpu'[d] = cpu[d]
  BY <1>6 DEF Inv, Typed
<1>8. Typed' /\ cpu'[c].if = (g.code # "timer") /\ g.code # "scheduler"
  <2>1. cpu'[c].if = FALSE /\ g.code = "timer"
    BY <1>4, <1>7
  <2>2. Typed'
    BY <1>6 DEF Inv, Typed
  <2> QED
    BY <2>1, <2>2
<1>9. CASE stack[t] = <<>>
  <2>1. t \in Proc /\ InUser(c)
    BY <1>1, <1>2, <1>9 DEF StackFormed, Inv, CpuFormed, InKernel
  <2>2. cpu'[c].ncli = 0 /\ \A l \in Lock : lock[l] # c
    BY <1>7, <2>1 DEF InUser
  <2> QED
    BY <1>1, <1>2, <1>4, <1>5, <1>6, <1>7, <1>8, <1>9, <2>1, <2>2, EnterStep
<1>10. CASE stack[t] # <<>>
  <2>1. PICK f : f = Top(t)
    OBVIOUS
  <2>2. Carries(c, f) /\ IsFrame(f) /\ (Plain(t) \/ Interrupted(t))
    BY <1>1, <1>2, <1>10, <2>1 DEF Inv, CpuFormed, InKernel, StackFormed
  <2>3. Quiet(f) /\ f.code # "timer"
    BY <1>6, <2>2 DEF Carries, AtSti
  <2>4. Plain(t)
    BY <2>1, <2>2, <2>3 DEF Interrupted
  <2>5. cpu'[c].ncli = 0 /\ \A l \in Lock : lock[l] # c
    BY <1>7, <2>2, <2>3 DEF Carries, Quiet, Depth, Holds
  <2> QED
    BY <1>1, <1>2, <1>4, <1>5, <1>6, <1>7, <1>8, <1>10, <2>1, <2>2, <2>3, <2>4, <2>5, EnterStep
<1> QED
  BY <1>9, <1>10

LEMMA SystemCallStep ==
  ASSUME Inv, NEW c \in Cpu, NEW call \in {"sleep", "wait", "fork", "exit"}, SystemCall(c, call)
  PROVE  Inv'
<1>1. PICK t : t = Running(c)
  OBVIOUS
<1>2. t \in Proc /\ t \in Thread /\ stack[t] = <<>> /\ InUser(c)
  BY <1>1 DEF SystemCall, InKernel, Thread, Inv, CpuFormed
<1>3. PICK g : g = Frame(call, 1)
  OBVIOUS
<1>4. /\ g.code = call /\ g.pc = 1 /\ g.flags = None
      /\ g = [code |-> g.code, pc |-> g.pc, flags |-> g.flags]
  BY <1>3 DEF Frame
<1>5. IsFrame(g) /\ Quiet(g) /\ g.code \notin {"scheduler", "timer"}
  BY <1>4 DEF IsFrame, IsPoint, Quiet, HoldsPtable, HoldsTicks, AtStart
<1>6. stack' = [stack EXCEPT ![t] = <<g>>] /\ <<g>> = Append(stack[t], g)
  BY <1>1, <1>2, <1>3 DEF SystemCall
<1>7. cpu' = cpu /\ lock' = lock /\ state' = state /\ saved' = saved
  BY DEF SystemCall
<1>8. Typed'
  BY <1>6, <1>7 DEF Inv, Typed
<1>9. cpu'[c].ncli = 0 /\ cpu'[c].if = TRUE /\ \A l \in Lock : lock[l] # c
  <2>1. cpu[c].if \in BOOLEAN
    BY DEF Inv, Typed
  <2> QED
    BY <1>2, <1>7, <2>1 DEF InUser
<1> QED
  BY <1>1, <1>2, <1>5, <1>6, <1>7, <1>8, <1>9, EnterStep

-----------------------------------------------------------------------------
(* The theorem *)

LEMMA InvInit ==
  Init => Inv
<1> SUFFICES ASSUME Init PROVE Inv
  OBVIOUS
<1>1. Typed
  BY ThreadAssumption DEF Init, Typed, Thread
<1>2. ASSUME NEW t \in Cpu
      PROVE /\ stack[t] = <<Frame("scheduler", 1)>> /\ stack[t] # <<>>
            /\ Top(t) = Frame("scheduler", 1)
  BY <1>2 DEF Init, Thread, Top
<1>3. ASSUME NEW p \in Proc
      PROVE /\ p = InitProc => /\ stack[p] = <<Frame("forkret", 1)>> /\ stack[p] # <<>>
                               /\ Top(p) = Frame("forkret", 1)
            /\ p # InitProc => stack[p] = <<>>
  BY <1>3, ThreadAssumption DEF Init, Thread, Top
<1>4. PICK f, g : f = Frame("scheduler", 1) /\ g = Frame("forkret", 1)
  OBVIOUS
<1>5. /\ IsFrame(f) /\ f.code = "scheduler" /\ AtSti(f) /\ Quiet(f) /\ Depth(f) = 0 /\ ~ Gone(f)
      /\ \A l \in Lock : ~ Holds(f, l)
      /\ IsFrame(g) /\ g.code = "forkret" /\ AtStart(g) /\ ~ AtHandover(g)
  BY <1>4 DEF Frame, IsFrame, IsPoint, AtSti, Quiet, HoldsPtable, HoldsTicks, Depth, Gone,
     Holds, AtStart, AtHandover
<1>6. ASSUME NEW t \in Thread PROVE StackFormed(t)
  <2>1. CASE t \in Cpu
    BY <1>2, <1>4, <1>5, <2>1 DEF StackFormed, Plain
  <2>2. CASE t \in Proc
    BY <1>3, <1>4, <1>5, <2>2, ThreadAssumption DEF StackFormed, Plain
  <2> QED
    BY <2>1, <2>2 DEF Thread
<1>7. ASSUME NEW c \in Cpu PROVE CpuFormed(c)
  <2>1. Running(c) = c /\ cpu[c].ncli = 0 /\ \A l \in Lock : lock[l] # c
    BY ThreadAssumption DEF Init, Running
  <2>2. Carries(c, f)
    BY <1>5, <2>1 DEF Carries
  <2> QED
    BY <1>2, <1>4, <2>1, <2>2 DEF CpuFormed, InKernel
<1>8. ASSUME NEW p \in Proc PROVE ProcFormed(p)
  BY <1>3, <1>4, <1>5 DEF ProcFormed, Init
<1>9. OneCpu
  BY ThreadAssumption DEF OneCpu, Init, Running
<1> QED
  BY <1>1, <1>6, <1>7, <1>8, <1>9 DEF Inv

LEMMA InvNext ==
  Inv /\ [Next]_vars => Inv'
<1> SUFFICES ASSUME Inv, [Next]_vars PROVE Inv'
  OBVIOUS
<1>1. CASE UNCHANGED vars
  BY <1>1 DEF vars, Inv, Typed, StackFormed, CpuFormed, ProcFormed, OneCpu, Plain, Interrupted,
     Carries, InUser, Running, InKernel, Top
<1>2. ASSUME NEW c \in Cpu, Kernel(c) PROVE Inv'
  BY <1>2, ReadFlagsStep, AcquireStep, ReleaseStep, IretStep, StiStep, PickStep, SchedStep,
     ResumeStep, WakeupStep, ForkStep, ScanStep DEF Kernel
<1>3. ASSUME NEW c \in Cpu, Interrupt(c) PROVE Inv'
  BY <1>3, InterruptStep
<1>4. ASSUME NEW c \in Cpu, NEW call \in {"sleep", "wait", "fork", "exit"}, SystemCall(c, call)
      PROVE Inv'
  BY <1>4, SystemCallStep
<1> QED
  BY <1>1, <1>2, <1>3, <1>4 DEF Next

\* what acquire(), release() and sched() assert holds where they are called
LEMMA InvNoPanic ==
  Inv => NoPanic
<1> SUFFICES ASSUME Inv, NEW c \in Cpu, InKernel(c)
             PROVE  /\ At(c, "acquire") => lock[Op(Running(c))[2]] # c
                    /\ At(c, "release") => lock[Op(Running(c))[2]] = c /\ ~ cpu[c].if
                    /\ At(c, "sched") => MayLeave(c)
  BY DEF NoPanic, At
<1> PICK t \in Thread : \E f : Runs(c, t, f)
  BY StepFacts
<1>1. PICK f : Runs(c, t, f)
  OBVIOUS
<1>2. ASSUME At(c, "acquire") PROVE lock[OpOf(f)[2]] # c
  <2>1. IsAcquire(f) /\ IsPoint(f)
    BY <1>1, <1>2 DEF Runs, At, OpFacts
  <2>2. OpOf(f)[2] \in Lock /\ ~ Holds(f, OpOf(f)[2])
    <3>1. PICK g : g = [code |-> f.code, pc |-> f.pc + 1, flags |-> None]
      OBVIOUS
    <3> QED
      BY <2>1, <3>1, AcquireNext
  <2> QED
    BY <1>1, <2>2 DEF Runs, Carries
<1>3. ASSUME At(c, "release") PROVE lock[OpOf(f)[2]] = c /\ ~ cpu[c].if
  <2>1. IsRelease(f) /\ IsPoint(f)
    BY <1>1, <1>3 DEF Runs, At, OpFacts
  <2>2. OpOf(f)[2] \in Lock /\ Holds(f, OpOf(f)[2])
    <3>1. PICK g : g = [code |-> f.code, pc |-> AfterRelease(t, f), flags |-> None]
      OBVIOUS
    <3> QED
      BY <1>1, <2>1, <3>1, ReleaseNext DEF Runs
  <2>3. ~ Quiet(f)
    BY <2>2 DEF Quiet, Holds
  <2> QED
    BY <1>1, <2>2, <2>3 DEF Runs, Carries
<1>4. ASSUME At(c, "sched") PROVE MayLeave(c)
  <2>1. IsSched(f)
    BY <1>1, <1>4 DEF Runs, At, OpFacts
  <2>2. ~ Quiet(f) /\ Depth(f) = 1 /\ Holds(f, "ptable") /\ "ptable" \in Lock
    BY <2>1 DEF IsSched, Quiet, Depth, HoldsPtable, HoldsTicks, Holds, Lock, AtStart
  <2> QED
    BY <1>1, <2>2 DEF Runs, Carries, MayLeave
<1> QED
  BY <1>1, <1>2, <1>3, <1>4 DEF Runs

LEMMA InvFlags ==
  Inv => FlagOfThread
<1> SUFFICES ASSUME Inv, NEW c \in Cpu, InKernel(c)
             PROVE  /\ cpu[c].ncli > 0 => ~ cpu[c].if
                    /\ cpu[c].ncli = 0 /\ ~ At(c, "sti") /\ Top(Running(c)).code # "forkret" =>
                         cpu[c].if = (Top(Running(c)).code # "timer")
  BY DEF FlagOfThread
<1> PICK t \in Thread : \E f : Runs(c, t, f)
  BY StepFacts
<1>1. PICK f : Runs(c, t, f)
  OBVIOUS
<1>2. Carries(c, f) /\ t = Running(c) /\ f = Top(t) /\ (AtSti(f) => At(c, "sti"))
  BY <1>1 DEF Runs, OpFacts, At
<1>3. cpu[c].ncli > 0 <=> ~ Quiet(f)
  BY <1>2 DEF Carries, Depth, Quiet
<1>4. cpu[c].ncli = 0 <=> Quiet(f)
  BY <1>2 DEF Carries, Depth, Quiet
<1> QED
  BY <1>2, <1>3, <1>4 DEF Carries

LEMMA InvTypeOK ==
  Inv => TypeOK
<1> SUFFICES ASSUME Inv, NEW t \in Thread PROVE Len(stack[t]) <= 2
  BY DEF TypeOK, Inv, Typed
<1>1. stack[t] = <<>> \/ stack[t] = <<Top(t)>> \/ stack[t] = <<stack[t][1], Top(t)>>
  BY DEF Inv, StackFormed, Plain, Interrupted
<1>2. CASE stack[t] = <<>>
  BY <1>2
<1>3. CASE stack[t] = <<Top(t)>>
  BY <1>3
<1>4. CASE stack[t] = <<stack[t][1], Top(t)>>
  <2>1. PICK s, f, g : s = stack[t] /\ s = <<g, f>>
    BY <1>4
  <2>2. Len(s) = 2
    BY <2>1, PairParts
  <2> QED
    BY <2>1, <2>2
<1> QED
  BY <1>1, <1>2, <1>3, <1>4

\* a thread goes on with the interrupt flag it had, whatever CPU it goes on on; one CPU
\* executes it, on a stack of its own; acquire(), release() and sched() do not panic
THEOREM SwitchIsCorrect == Spec => []SwitchCorrect
<1>1. Inv => SwitchCorrect
  BY InvNoPanic, InvFlags, InvTypeOK DEF SwitchCorrect, Inv
<1> QED
  BY InvInit, InvNext, <1>1, PTL DEF Spec

-----------------------------------------------------------------------------
(* PipesCorrect, from the proofs of Pipe *)

LEMMA BytesStep ==
  /\ Bytes!Init => Bytes!Inv /\ Bytes!Stream!Init
  /\ Bytes!Inv /\ [Bytes!Next]_(Bytes!vars) => Bytes!Inv' /\ [Bytes!Stream!Next]_(Bytes!Stream!vars)
<1>1. Bytes!PipeAssumption
  BY SideAssumption DEF Bytes!PipeAssumption
<1> QED
  BY <1>1, Bytes!Initially, Bytes!Keeps

LEMMA WaitsStep ==
  /\ Waits!Init => Waits!Inv
  /\ Waits!Inv /\ [Waits!Next]_(Waits!vars) => Waits!Inv'
<1>1. Waits!PipeAssumption
  BY SideAssumption DEF Waits!PipeAssumption
<1> QED
  BY <1>1, Waits!Initially, Waits!Keeps

\* For any writers and bytes, any size of the ring and any width of its counters that it
\* divides: pipe.c implements a stream of bytes and loses no wakeup (PipesCorrect)
THEOREM PipesAreCorrect == SideSpec => PipesCorrect
<1> DEFINE I == (part = "pipe" => Bytes!Inv) /\ (part = "waits" => Waits!Inv)
           R == part = "pipe" => [Bytes!Stream!Next]_(Bytes!Stream!vars)
<1>1. SideInit => I /\ (part = "pipe" => Bytes!Stream!Init)
  BY BytesStep, WaitsStep DEF SideInit
<1>2. ASSUME [SideStep]_sideVars
      PROVE  /\ part' = part
             /\ part = "pipe" => [Bytes!Next]_(Bytes!vars)
             /\ part = "waits" => [Waits!Next]_(Waits!vars)
  BY <1>2 DEF SideStep, sideVars, ppVars, Bytes!vars, Bytes!pipe, Waits!vars, Waits!pipe
<1>3. I /\ [SideStep]_sideVars => I' /\ R
  BY <1>2, BytesStep, WaitsStep
<1>4. /\ I => (part = "pipe" => Bytes!TypeOK)
      /\ I => (part = "waits" => Waits!SleepersBlocked)
  BY DEF Bytes!Inv, Waits!Inv
<1> QED
  BY <1>1, <1>3, <1>4, PTL DEF SideSpec, PipesCorrect

-----------------------------------------------------------------------------
(* MemoryCorrect, from the proofs of Memory *)

LEMMA MemoryStep ==
  /\ Memory0!Init => Memory0!Inv
  /\ Memory0!Inv /\ [Memory0!Next]_(Memory0!vars) => Memory0!Inv'
  /\ Memory0!Inv =>
       Memory0!TypeOK /\ Memory0!OnePlace /\ Memory0!SizeIsMapped /\ Memory0!FailureKeepsMemory
<1>1. Memory0!PageAssumption
  BY SideAssumption
<1> QED
  BY <1>1, Memory0!Initially, Memory0!Keeps, Memory0!InvImplies DEF Memory0!Inv

LEMMA SharedStep ==
  /\ Shared!Init => Shared!Inv
  /\ Shared!Inv /\ [Shared!Next]_(Shared!vars) => Shared!Inv'
  /\ Shared!Inv => Shared!OnePlace
<1>1. Shared!PageAssumption
  BY SideAssumption
<1> QED
  BY <1>1, Shared!Initially, Shared!Keeps, Shared!InvImplies

\* For any number of processes and pages, any size of them, and any programs: every page
\* is in one place, outside calls a process has the pages of its size, and a call that
\* fails leaves its memory as it was (MemoryCorrect)
THEOREM MemoryIsCorrect == SideSpec => []MemoryCorrect
<1> DEFINE I == (part = "memory" => Memory0!Inv) /\ (part = "shared" => Shared!Inv)
<1>1. SideInit => I
  BY MemoryStep, SharedStep DEF SideInit
<1>2. ASSUME [SideStep]_sideVars
      PROVE  /\ part' = part
             /\ part = "memory" => [Memory0!Next]_(Memory0!vars)
             /\ part = "shared" => [Shared!Next]_(Shared!vars)
  BY <1>2 DEF SideStep, sideVars, mmVars, Memory0!vars, Shared!vars
<1>3. I /\ [SideStep]_sideVars => I'
  BY <1>2, MemoryStep, SharedStep
<1>4. I => MemoryCorrect
  BY MemoryStep, SharedStep DEF MemoryCorrect
<1> QED
  BY <1>1, <1>3, <1>4, PTL DEF SideSpec

-----------------------------------------------------------------------------
(* ClockCorrect, for any processes and durations, and a counter of any width.  What  *)
(* is inductive is a bound on the ticks that a process has seen since it called      *)
(* sleep(), by those there were: the interrupt that is at work has not counted yet.  *)

InSleep(p) == ckPc[p] # "user" /\ ~ ckSetback[p]

\* a process holds tickslock between acquire(&tickslock) and sleep()
Held0 == \A p \in Pair : ckTickslock = p <=> ckPc[p] \in {"test", "sleep"}

\* who is about to sleep has compared ticks since the last interrupt
Compared ==
  \A p \in Pair :
    ckPc[p] = "sleep" \/ (ckPc[p] = "asleep" /\ ckTickslock # InitProc) =>
      ckTested[p] = ckElapsed

\* what the handler has read is not stale, for those whose sleep is not set back
Fresh ==
  \A p \in Pair : ckTickslock = InitProc /\ InSleep(p) => ckLoaded = ckTicks

Uncounted == IF ckTickslock = InitProc THEN 1 ELSE 0

Seen(p) == (ckTicks - ckTicks0[p]) % ClockModulus

Elapsed ==
  \A p \in Pair : InSleep(p) => Seen(p) + Uncounted <= ckElapsed - ckCalled[p]

ClockInv == Clock0!TypeOK /\ Held0 /\ Compared /\ Fresh /\ Elapsed

\* the difference that sys_sleep() computes grows by one at most, where the counter
\* wraps around too
LEMMA OneTick ==
  ASSUME NEW m \in Nat \ {0, 1}, NEW t \in 0 .. m - 1, NEW s \in 0 .. m - 1
  PROVE  (((t + 1) % m) - s) % m <= ((t - s) % m) + 1
<1>1. ASSUME NEW a \in 0 .. m - 1 PROVE a % m = a
  BY <1>1, Z3
<1>2. ASSUME NEW a \in -m .. -1 PROVE a % m = a + m
  BY <1>2, Z3
<1>3. (t + 1) % m = IF t + 1 = m THEN 0 ELSE t + 1
  <2>1. m % m = 0
    BY Z3
  <2> QED
    BY <1>1, <2>1
<1>4. (t - s) % m = IF t >= s THEN t - s ELSE t - s + m
  BY <1>1, <1>2
<1> DEFINE u == (t + 1) % m
<1>5. u \in 0 .. m - 1 /\ (u = 0 \/ u = t + 1) /\ (u = 0 => t + 1 = m)
  BY <1>3
<1> HIDE DEF u
<1>6. (u - s) % m = IF u >= s THEN u - s ELSE u - s + m
  BY <1>1, <1>2, <1>5
<1>7. (u - s) % m <= ((t - s) % m) + 1
  BY <1>4, <1>5, <1>6
<1> QED
  BY <1>7 DEF u

LEMMA Difference ==
  ASSUME NEW m \in Nat \ {0, 1}, NEW t \in 0 .. m - 1, NEW s \in 0 .. m - 1
  PROVE  (t - s) % m \in Nat /\ (t - t) % m = 0
  BY Z3

LEMMA ClockConstants ==
  /\ InitProc \notin Pair /\ None \notin Pair /\ None # InitProc
  /\ ClockModulus \in Nat \ {0, 1} /\ MaxElapsed \in Nat
  /\ Durations \subseteq 0 .. ClockModulus - 1
  /\ Clock0!Value = 0 .. ClockModulus - 1
  /\ 0 \in Clock0!Value
BY SideAssumption DEF Clock0!HolderAssumption, Clock0!ModulusAssumption,
   Clock0!DurationsAssumption, Clock0!BoundsAssumption, Clock0!Value

LEMMA ClockInit == Clock0!Init => ClockInv
<1> SUFFICES ASSUME Clock0!Init PROVE ClockInv
  OBVIOUS
<1> USE ClockConstants DEF Clock0!Init
<1>1. Clock0!TypeOK
  BY DEF Clock0!TypeOK
<1>2. Held0 /\ Compared /\ Fresh /\ Elapsed
  BY DEF Held0, Compared, Fresh, Elapsed, InSleep
<1> QED
  BY <1>1, <1>2 DEF ClockInv

\* the interrupt
LEMMA TickLoadStep == ASSUME ClockInv, Clock0!TickLoad PROVE ClockInv'
<1> USE ClockConstants DEF ClockInv, Clock0!TickLoad, Clock0!sleepVars
<1>1. Clock0!TypeOK'
  BY DEF Clock0!TypeOK
<1>2. Held0' /\ Compared' /\ Fresh'
  BY DEF Held0, Compared, Fresh, InSleep
<1>3. Elapsed'
  <2>1. \A p \in Pair : /\ InSleep(p)' <=> InSleep(p)
                        /\ Seen(p)' = Seen(p) /\ ckCalled'[p] = ckCalled[p]
    BY DEF InSleep, Seen
  <2>2. Uncounted = 0 /\ Uncounted' = 1 /\ ckElapsed' = ckElapsed + 1
    BY DEF Uncounted
  <2>3. ASSUME NEW p \in Pair PROVE Seen(p) \in Nat /\ ckElapsed \in Int /\ ckCalled[p] \in Int
    BY Difference DEF Seen, Clock0!TypeOK
  <2>4. Elapsed
    OBVIOUS
  <2> HIDE DEF ClockInv, Clock0!TickLoad
  <2> QED
    BY <2>1, <2>2, <2>3, <2>4 DEF Elapsed
<1> QED
  BY <1>1, <1>2, <1>3

LEMMA TickStoreStep == ASSUME ClockInv, Clock0!TickStore PROVE ClockInv'
<1> USE ClockConstants DEF ClockInv, Clock0!TickStore, Clock0!sleepVars, Clock0!history
<1>1. ckTicks' = (ckLoaded + 1) % ClockModulus
  BY DEF Clock0!Incremented
<1>2. ckTicks' \in Clock0!Value
  BY <1>1, Difference DEF Clock0!TypeOK
<1>3. Clock0!TypeOK'
  BY <1>2 DEF Clock0!TypeOK
<1>pc. \A p \in Pair : ckPc[p]' = IF ckPc[p] = "asleep" THEN "awake" ELSE ckPc[p]
  OBVIOUS
<1>held. \A p \in Pair : ckPc[p] \notin {"test", "sleep"}
  BY DEF Held0
<1>4. Held0'
  BY <1>pc, <1>held DEF Held0
<1>5. Compared'
  BY <1>pc, <1>held DEF Compared
<1>6. Fresh'
  BY DEF Fresh
<1>7. Elapsed'
  <2>1. \A p \in Pair : /\ InSleep(p)' => InSleep(p)
                        /\ ckCalled'[p] = ckCalled[p]
    BY <1>pc DEF InSleep
  <2>2. Uncounted = 1 /\ Uncounted' = 0 /\ ckElapsed' = ckElapsed
    BY DEF Uncounted
  <2>3. ASSUME NEW p \in Pair
        PROVE  /\ Seen(p) \in Nat /\ Seen(p)' \in Nat
               /\ ckElapsed \in Int /\ ckCalled[p] \in Int
    BY <1>3, Difference DEF Seen, Clock0!TypeOK
  <2>4. ASSUME NEW p \in Pair, InSleep(p) PROVE Seen(p)' <= Seen(p) + 1
    <3>1. ckTicks' = (ckTicks + 1) % ClockModulus /\ ckTicks0' = ckTicks0
      BY <1>1, <2>4 DEF Fresh
    <3>2. ckTicks \in Clock0!Value /\ ckTicks0[p] \in Clock0!Value
      BY DEF Clock0!TypeOK
    <3> QED
      BY <3>1, <3>2, OneTick DEF Seen
  <2>5. Elapsed
    OBVIOUS
  <2> HIDE DEF ClockInv, Clock0!TickStore
  <2> QED
    BY <2>1, <2>2, <2>3, <2>4, <2>5 DEF Elapsed
<1> QED
  BY <1>3, <1>4, <1>5, <1>6, <1>7

LEMMA ResetStep == ASSUME ClockInv, Clock0!Reset PROVE ClockInv'
<1> USE ClockConstants DEF ClockInv, Clock0!Reset, Clock0!sleepVars
<1>0. ckSetback' \in [Pair -> BOOLEAN]
  <2>1. ckSetback' = [p \in Pair |-> ckPc[p] # "user"]
    OBVIOUS
  <2> QED
    BY <2>1, Zenon
<1>1. Clock0!TypeOK'
  BY <1>0 DEF Clock0!TypeOK
<1>2. Held0' /\ Compared'
  BY DEF Held0, Compared
<1>3. \A p \in Pair : ~ InSleep(p)'
  BY DEF InSleep
<1>4. Fresh' /\ Elapsed'
  BY <1>3 DEF Fresh, Elapsed
<1> QED
  BY <1>1, <1>2, <1>4

(* The call.  What it does not move of the clock keeps what is said of the others. *)

Others(p) ==
  \A q \in Pair \ {p} :
    /\ UNCHANGED <<ckPc[q], ckTicks0[q], ckCalled[q], ckTested[q], ckSetback[q]>>

LEMMA SysSleepStep ==
  ASSUME ClockInv, NEW p \in Pair, Clock0!SysSleep(p) PROVE ClockInv'
<1> USE ClockConstants DEF ClockInv, Clock0!SysSleep, Clock0!tickVars, Clock0!Go
<1>1. Clock0!TypeOK'
  BY DEF Clock0!TypeOK
<1>2. ckPc'[p] = "test" /\ ckCalled'[p] = ckElapsed /\ ckTicks0'[p] = ckTicks
  BY DEF Clock0!TypeOK
<1>3. Others(p)
  BY DEF Others, Clock0!TypeOK
<1>4. Uncounted = 0 /\ Uncounted' = 0
  BY DEF Uncounted
<1>5. Held0' /\ Compared' /\ Fresh'
  BY <1>2, <1>3 DEF Held0, Compared, Fresh, InSleep, Others
<1>6. Seen(p)' = 0 /\ ckElapsed \in Int
  BY <1>2, Difference DEF Seen, Clock0!TypeOK
<1>7. \A q \in Pair \ {p} : Seen(q)' = Seen(q) /\ InSleep(q)' = InSleep(q) /\ ckCalled'[q] = ckCalled[q]
  BY <1>3 DEF Others, Seen, InSleep
<1>8. Elapsed'
  <2>1. Elapsed /\ ckElapsed' = ckElapsed
    OBVIOUS
  <2> HIDE DEF ClockInv, Clock0!SysSleep
  <2> QED
    BY <1>2, <1>4, <1>6, <1>7, <2>1 DEF Elapsed
<1> QED
  BY <1>1, <1>5, <1>8

LEMMA SleepReturnStep ==
  ASSUME ClockInv, NEW p \in Pair, Clock0!SleepReturn(p)
  PROVE  /\ ClockInv'
         /\ ckKilled[p] \/ ckSetback[p] \/ ckElapsed - ckCalled[p] >= ckN[p]
<1> USE ClockConstants DEF ClockInv, Clock0!SleepReturn, Clock0!tickVars, Clock0!Go
<1>1. Clock0!TypeOK'
  BY DEF Clock0!TypeOK
<1>2. ckPc'[p] = "user" /\ ckTickslock = p /\ ckTickslock' = None
  BY DEF Clock0!TypeOK, Held0
<1>3. Others(p)
  BY DEF Others, Clock0!TypeOK
<1>4. Uncounted = 0 /\ Uncounted' = 0
  BY <1>2 DEF Uncounted
<1>5. Held0' /\ Compared' /\ Fresh'
  BY <1>2, <1>3 DEF Held0, Compared, Fresh, InSleep, Others
<1>7. \A q \in Pair \ {p} : Seen(q)' = Seen(q) /\ InSleep(q)' = InSleep(q) /\ ckCalled'[q] = ckCalled[q]
  BY <1>3 DEF Others, Seen, InSleep
<1>8. Elapsed'
  <2>1. Elapsed /\ ckElapsed' = ckElapsed /\ ~ InSleep(p)'
    BY <1>2 DEF InSleep
  <2> HIDE DEF ClockInv, Clock0!SleepReturn
  <2> QED
    BY <1>4, <1>7, <2>1 DEF Elapsed
<1>9. ckKilled[p] \/ ckSetback[p] \/ ckElapsed - ckCalled[p] >= ckN[p]
  <2> SUFFICES ASSUME ~ ckKilled[p], ~ ckSetback[p] PROVE ckElapsed - ckCalled[p] >= ckN[p]
    OBVIOUS
  <2>1. Seen(p) >= ckN[p]
    BY DEF Seen, Clock0!Over
  <2>2. Seen(p) + 0 <= ckElapsed - ckCalled[p]
    BY <1>4 DEF Elapsed, InSleep
  <2>3. Seen(p) \in Nat /\ ckN[p] \in Int /\ ckElapsed \in Int /\ ckCalled[p] \in Int
    BY Difference DEF Seen, Clock0!TypeOK, Clock0!Value
  <2> QED
    BY <2>1, <2>2, <2>3
<1> QED
  BY <1>1, <1>5, <1>8, <1>9

\* steps that move neither the clock nor what a process has noted of it
LEMMA ElapsedKept ==
  ASSUME Elapsed, UNCHANGED <<ckTicks, ckTicks0, ckElapsed, ckCalled, ckSetback>>,
         \A p \in Pair : InSleep(p)' => InSleep(p), Uncounted' = Uncounted
  PROVE  Elapsed'
<1>1. \A p \in Pair : Seen(p)' = Seen(p) /\ ckCalled'[p] = ckCalled[p]
  BY DEF Seen
<1> QED
  BY <1>1 DEF Elapsed

LEMMA SleepTestStep ==
  ASSUME ClockInv, NEW p \in Pair, Clock0!SleepTest(p) PROVE ClockInv'
<1> USE ClockConstants DEF ClockInv, Clock0!SleepTest, Clock0!SleepTested, Clock0!tickVars,
        Clock0!sleepVars, Clock0!Go
<1>1. Clock0!TypeOK'
  BY DEF Clock0!TypeOK
<1>2. ckPc'[p] = "sleep" /\ ckTested'[p] = ckElapsed
  BY DEF Clock0!TypeOK
<1>3. Others(p)
  BY DEF Others, Clock0!TypeOK
<1>5. Held0' /\ Compared' /\ Fresh'
  BY <1>2, <1>3 DEF Held0, Compared, Fresh, InSleep, Others
<1>6. \A q \in Pair : InSleep(q)' => InSleep(q)
  BY <1>2, <1>3 DEF InSleep, Others
<1>7. Elapsed'
  BY <1>6, ElapsedKept DEF Uncounted
<1> QED
  BY <1>1, <1>5, <1>7

LEMMA SleepDownStep ==
  ASSUME ClockInv, NEW p \in Pair, Clock0!SleepDown(p) PROVE ClockInv'
<1> USE ClockConstants DEF ClockInv, Clock0!SleepDown, Clock0!tickVars, Clock0!sleepVars,
        Clock0!history, Clock0!Go
<1>2. ckPc'[p] = "asleep" /\ ckTickslock = p /\ ckTickslock' = None
  BY DEF Clock0!TypeOK, Held0
<1>1. Clock0!TypeOK'
  BY DEF Clock0!TypeOK
<1>3. Others(p) /\ UNCHANGED <<ckTested, ckElapsed>>
  BY DEF Others, Clock0!TypeOK
<1>5. Held0' /\ Compared' /\ Fresh'
  BY <1>2, <1>3 DEF Held0, Compared, Fresh, InSleep, Others
<1>6. \A q \in Pair : InSleep(q)' => InSleep(q)
  BY <1>2, <1>3 DEF InSleep, Others
<1>7. Elapsed'
  BY <1>2, <1>6, ElapsedKept DEF Uncounted
<1> QED
  BY <1>1, <1>5, <1>7

LEMMA SleepUpStep ==
  ASSUME ClockInv, NEW p \in Pair, Clock0!SleepUp(p) PROVE ClockInv'
<1> USE ClockConstants DEF ClockInv, Clock0!SleepUp, Clock0!tickVars, Clock0!sleepVars,
        Clock0!history, Clock0!Go
<1>1. Clock0!TypeOK'
  BY DEF Clock0!TypeOK
<1>2. ckPc'[p] = "test"
  BY DEF Clock0!TypeOK
<1>3. Others(p)
  BY DEF Others, Clock0!TypeOK
<1>5. Held0' /\ Compared' /\ Fresh'
  BY <1>2, <1>3 DEF Held0, Compared, Fresh, InSleep, Others
<1>6. \A q \in Pair : InSleep(q)' => InSleep(q)
  BY <1>2, <1>3 DEF InSleep, Others
<1>7. Elapsed'
  BY <1>6, ElapsedKept DEF Uncounted
<1> QED
  BY <1>1, <1>5, <1>7

LEMMA KillStep ==
  ASSUME ClockInv, NEW p \in Pair, Clock0!Kill(p) PROVE ClockInv'
<1> USE ClockConstants DEF ClockInv, Clock0!Kill, Clock0!tickVars, Clock0!sleepVars,
        Clock0!history, Clock0!Go
<1>0. ckKilled' \in [Pair -> BOOLEAN]
  BY DEF Clock0!TypeOK
<1>1. Clock0!TypeOK'
  BY <1>0 DEF Clock0!TypeOK
<1>2. ckPc'[p] = IF ckPc[p] = "asleep" THEN "awake" ELSE ckPc[p]
  BY DEF Clock0!TypeOK
<1>3. Others(p) /\ UNCHANGED <<ckTested, ckElapsed, ckTickslock, ckLoaded, ckTicks, ckSetback>>
  BY DEF Others, Clock0!TypeOK
<1>5. Held0' /\ Compared' /\ Fresh'
  BY <1>2, <1>3 DEF Held0, Compared, Fresh, InSleep, Others
<1>6. \A q \in Pair : InSleep(q)' => InSleep(q)
  BY <1>2, <1>3 DEF InSleep, Others
<1>7. Elapsed'
  BY <1>6, ElapsedKept DEF Uncounted
<1> QED
  BY <1>1, <1>5, <1>7

LEMMA ClockStutter == ASSUME ClockInv, UNCHANGED ckVars PROVE ClockInv'
<1>1. UNCHANGED <<ckTicks, ckTickslock, ckLoaded, ckPc, ckN, ckTicks0, ckKilled, ckElapsed,
                  ckCalled, ckTested, ckSetback>>
  BY DEF ckVars
<1>2. /\ Clock0!TypeOK' /\ Held0' /\ Compared' /\ Fresh'
  BY <1>1 DEF ClockInv, Clock0!TypeOK, Held0, Compared, Fresh, InSleep
<1>3. Elapsed'
  BY <1>1, ElapsedKept DEF ClockInv, InSleep, Uncounted
<1> QED
  BY <1>2, <1>3 DEF ClockInv

LongEnough(p) == ckKilled[p] \/ ckSetback[p] \/ ckElapsed - ckCalled[p] >= ckN[p]

LEMMA ClockStep ==
  ClockInv /\ (Clock0!Next \/ UNCHANGED ckVars) =>
    ClockInv' /\ \A p \in Pair : Clock0!SleepReturn(p) => LongEnough(p)
<1> SUFFICES ASSUME ClockInv, Clock0!Next \/ UNCHANGED ckVars PROVE ClockInv'
  BY SleepReturnStep DEF LongEnough
<1>1. ASSUME Clock0!TickLoad \/ Clock0!TickStore \/ Clock0!Reset PROVE ClockInv'
  BY <1>1, TickLoadStep, TickStoreStep, ResetStep
<1>2. ASSUME NEW p \in Pair, Clock0!SysSleep(p) \/ Clock0!SleepReturn(p) PROVE ClockInv'
  BY <1>2, SysSleepStep, SleepReturnStep
<1>3. ASSUME NEW p \in Pair, Clock0!SleepTest(p) \/ Clock0!SleepDown(p) PROVE ClockInv'
  BY <1>3, SleepTestStep, SleepDownStep
<1>4. ASSUME NEW p \in Pair, Clock0!SleepUp(p) \/ Clock0!Kill(p) PROVE ClockInv'
  BY <1>4, SleepUpStep, KillStep
<1> QED
  BY <1>1, <1>2, <1>3, <1>4, ClockStutter DEF Clock0!Next

\* For any processes, durations and width of the counter: nobody sleeps through a tick,
\* and sleep(n) takes n ticks at least, unless it is killed or set back (ClockCorrect)
THEOREM ClockIsCorrect == SideSpec => ClockCorrect
<1> DEFINE I == part = "clock" => ClockInv
           R == part = "clock" => \A p \in Pair : Clock0!SleepReturn(p) => LongEnough(p)
<1>1. SideInit => I
  BY ClockInit DEF SideInit
<1>2. I /\ [SideStep]_sideVars => I' /\ R
  BY ClockStep DEF SideStep, sideVars, ckVars
<1>3. I => (part = "clock" => Clock0!TypeOK /\ Clock0!NoTickMissed)
  BY ClockConstants DEF ClockInv, Compared, Clock0!NoTickMissed
<1> QED
  BY <1>1, <1>2, <1>3, PTL DEF SideSpec, ClockCorrect, LongEnough
=============================================================================
