-------------------------- MODULE SchedulerTiming --------------------------
(***************************************************************************)
(* Scheduler with what is known of its speed, for the liveness properties: *)
(* the timer is slow.  A CPU that finds something to run gets through the  *)
(* few instructions of the scheduler loop that have interrupts on without  *)
(* a tick; and between two ticks that it takes, interrupted code gets on,  *)
(* be it the idle loop of the scheduler, a system call or, with no step of *)
(* the model, the program in user space.                                   *)
(*                                                                         *)
(* Without the first of these a boost can be missed for ever: the tick     *)
(* that makes it due hits the loop, the process picked next runs into the  *)
(* following tick, and ticks % 100 == 0 is over when a scheduler looks.    *)
(***************************************************************************)
EXTENDS Scheduler

\* what a tick interrupted, and what has not got on since: processes, and NoProc
\* for the idle loop
VARIABLE ticked

timedVars == <<vars, ticked>>

Idle == HeapMembers(mlfq) = {} /\ \A l \in QLevel : mlfq.q[l] = <<>>

TickStep(c) ==
  LET p == cproc[c]
  IN  /\ ~ panicked
      /\ p \in ticked => p # NoProc /\ at[p] = "user"
      /\ \/ Idle /\ IdleTick(c)
         \/ p # NoProc /\ Timer(c, p)
      /\ ticked' = ticked \cup {p}

InterruptStep(c) ==
  /\ ~ panicked
  /\ IdleTickWakeup(c) \/ \E p \in Proc : TrapStep(c, p)
  /\ UNCHANGED ticked

KernelStep(c) ==
  /\ ~ panicked
  /\ \/ SchedulerStep(c) /\ ticked' = ticked \ {NoProc}
     \/ \E p \in Proc : CallStep(c, p) /\ ticked' = ticked \ {p}

ProgramStep(c) ==
  /\ ~ panicked
  /\ \E p \in Proc : SystemCall(c, p)
  /\ ticked' = ticked \ {cproc[c]}

TimedInit == Init /\ ticked = {}

TimedNext ==
  \E c \in CPUS :
    TickStep(c) \/ InterruptStep(c) \/ KernelStep(c) \/ ProgramStep(c)

\* A CPU goes on executing the kernel: weak fairness.  The timer goes off again
\* and again, and an interrupt that is disabled just then stays pending: strong
\* fairness.  Nothing is assumed of the programs.
Fairness ==
  \A c \in CPUS :
    /\ WF_timedVars(InterruptStep(c) \/ KernelStep(c))
    /\ SF_timedVars(TickStep(c))

TimedSpec == TimedInit /\ [][TimedNext]_timedVars /\ Fairness

-----------------------------------------------------------------------------
(* The workload of rn_test4 *)

\* the processes that enter the MoQ do it by themselves, once ...
SelfMonopoly ==
  Len(moq') > Len(moq) =>
    \E p \in Proc : monopoly[p] = 0 /\ at'[p] = "setmono" /\ at[p] # at'[p]

\* ... and exit when they have counted down
ChildExit(c) ==
  /\ ~ panicked
  /\ \E p \in Proc \ {InitProc} :
       cproc[c] = p /\ SysExit(c, p) /\ ticked' = ticked \ {p}

SelfMonopolySpec ==
  /\ TimedInit
  /\ [][TimedNext /\ SelfMonopoly]_timedVars
  /\ Fairness
  /\ \A c \in CPUS : SF_timedVars(ChildExit(c))
=============================================================================
