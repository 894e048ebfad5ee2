------------------------------- MODULE Clock -------------------------------
(***************************************************************************)
(* The tick counter and the call that waits for it: sys_sleep() of         *)
(* sysproc.c.  ticks is an unsigned integer of Modulus values.  The        *)
(* handler of the timer increments it under tickslock, in two steps, the   *)
(* read and the write of the memory; the scheduler sets it back to 0       *)
(* without tickslock, after a boost and in unmonopolize().                 *)
(***************************************************************************)
EXTENDS Integers

CONSTANTS
  Sleeper,         \* the processes
  Nobody, Handler, \* who else may hold tickslock
  Modulus,         \* 2^32 in the code
  Durations,       \* the arguments of sleep()
  MaxElapsed       \* bound: tick interrupts of a behaviour

HolderAssumption    ==
  Nobody \notin Sleeper /\ Handler \notin Sleeper /\ Nobody # Handler
ModulusAssumption   == Modulus \in Nat \ {0, 1}
DurationsAssumption == Durations \subseteq 0 .. Modulus - 1
BoundsAssumption    == MaxElapsed \in Nat

VARIABLES
  ticks,
  tickslock,       \* its holder
  loaded,          \* what the handler has read of ticks
  pc,              \* where a process is: in user space or in sys_sleep()
  n, ticks0,       \* the argument and the local of sys_sleep()
  killed,
  elapsed,         \* history: tick interrupts since start
  called, tested,  \* history: elapsed at the call of sys_sleep(), at its last test
  setback          \* history: ticks was set back since the call

tickVars  == <<ticks, loaded>>
sleepVars == <<n, ticks0>>
history   == <<elapsed, called, tested, setback>>
vars == <<ticks, tickslock, loaded, pc, n, ticks0, killed, elapsed,
          called, tested, setback>>

Value == 0 .. Modulus - 1

TypeOK ==
  /\ ticks \in Value
  /\ tickslock \in Sleeper \cup {Nobody, Handler}
  /\ loaded \in Value
  /\ pc \in [Sleeper -> {"user", "test", "sleep", "asleep", "awake"}]
  /\ n \in [Sleeper -> Value]
  /\ ticks0 \in [Sleeper -> Value]
  /\ killed \in [Sleeper -> BOOLEAN]
  /\ elapsed \in 0 .. MaxElapsed
  /\ called \in [Sleeper -> 0 .. MaxElapsed]
  /\ tested \in [Sleeper -> 0 .. MaxElapsed]
  /\ setback \in [Sleeper -> BOOLEAN]

Init ==
  /\ ticks = 0
  /\ tickslock = Nobody
  /\ loaded = 0
  /\ pc = [p \in Sleeper |-> "user"]
  /\ n = [p \in Sleeper |-> 0]
  /\ ticks0 = [p \in Sleeper |-> 0]
  /\ killed = [p \in Sleeper |-> FALSE]
  /\ elapsed = 0
  /\ called = [p \in Sleeper |-> 0]
  /\ tested = [p \in Sleeper |-> 0]
  /\ setback = [p \in Sleeper |-> FALSE]

Go(p, point) == pc' = [pc EXCEPT ![p] = point]

-----------------------------------------------------------------------------
(* trap(): the timer interrupt on the boot CPU *)
TickLoad ==
  /\ tickslock = Nobody
  /\ elapsed < MaxElapsed
  /\ tickslock' = Handler
  /\ loaded' = ticks
  /\ elapsed' = elapsed + 1
  /\ UNCHANGED <<ticks, pc, sleepVars, killed, called, tested, setback>>

\* mutant: the counter is not of the width it is compared in
Unbounded(t)   == t + 1
Incremented(t) == (t + 1) % Modulus

\* ... then wakeup(&ticks) and the release of tickslock
TickStore ==
  /\ tickslock = Handler
  /\ tickslock' = Nobody
  /\ ticks' = Incremented(loaded)
  /\ loaded' = 0
  /\ pc' = [p \in Sleeper |-> IF pc[p] = "asleep" THEN "awake" ELSE pc[p]]
  /\ UNCHANGED <<sleepVars, killed, history>>

(* proc.c: unmonopolize() sets ticks back at any time; scheduler() and yield()  *)
(* do it after a boost, whatever ticks is by then.  None holds tickslock.      *)
Reset ==
  /\ ticks' = 0
  /\ setback' = [p \in Sleeper |-> pc[p] # "user"]
  /\ UNCHANGED <<tickslock, loaded, pc, sleepVars, killed, elapsed, called, tested>>

-----------------------------------------------------------------------------
(* sys_sleep(): with tickslock from here to the call of sleep() or the return *)
SysSleep(p) ==
  /\ pc[p] = "user"
  /\ ~ killed[p]
  /\ tickslock = Nobody
  /\ tickslock' = p
  /\ \E k \in Durations : n' = [n EXCEPT ![p] = k]
  /\ ticks0' = [ticks0 EXCEPT ![p] = ticks]
  /\ called' = [called EXCEPT ![p] = elapsed]
  /\ setback' = [setback EXCEPT ![p] = FALSE]
  /\ Go(p, "test")
  /\ UNCHANGED <<tickVars, killed, elapsed, tested>>

\* ticks - ticks0 >= n, unsigned; mutant: the first tick is counted as a whole one
OverEarly(p) == (ticks - ticks0[p] + 1) % Modulus >= n[p]
Over(p)      == (ticks - ticks0[p]) % Modulus >= n[p]

\* the locals end with the call
SleepReturn(p) ==
  /\ pc[p] = "test"
  /\ Over(p) \/ killed[p]
  /\ tickslock' = Nobody
  /\ Go(p, "user")
  /\ n' = [n EXCEPT ![p] = 0]
  /\ ticks0' = [ticks0 EXCEPT ![p] = 0]
  /\ called' = [called EXCEPT ![p] = 0]
  /\ tested' = [tested EXCEPT ![p] = 0]
  /\ setback' = [setback EXCEPT ![p] = FALSE]
  /\ UNCHANGED <<tickVars, killed, elapsed>>

SleepTested(p) ==
  /\ pc[p] = "test"
  /\ ~ Over(p) /\ ~ killed[p]
  /\ Go(p, "sleep")
  /\ tested' = [tested EXCEPT ![p] = elapsed]
  /\ UNCHANGED <<tickVars, sleepVars, killed, elapsed, called, setback>>

\* mutant: tickslock is released before the call of sleep()
SleepUnlocked(p) == SleepTested(p) /\ tickslock' = Nobody
SleepTest(p)     == SleepTested(p) /\ tickslock' = tickslock

\* sleep(): under ptable.lock, tickslock is released and the process sleeps
SleepDown(p) ==
  /\ pc[p] = "sleep"
  /\ tickslock' = IF tickslock = p THEN Nobody ELSE tickslock
  /\ Go(p, "asleep")
  /\ UNCHANGED <<tickVars, sleepVars, killed, history>>

\* ... and, woken up, acquires tickslock for the next test
SleepUp(p) ==
  /\ pc[p] = "awake"
  /\ tickslock = Nobody
  /\ tickslock' = p
  /\ Go(p, "test")
  /\ UNCHANGED <<tickVars, sleepVars, killed, history>>

\* a process killed in user space does not come back
Kill(p) ==
  /\ killed' = [killed EXCEPT ![p] = TRUE]
  /\ Go(p, IF pc[p] = "asleep" THEN "awake" ELSE pc[p])
  /\ UNCHANGED <<tickVars, tickslock, sleepVars, history>>

Next ==
  \/ TickLoad \/ TickStore \/ Reset
  \/ \E p \in Sleeper :
       \/ SysSleep(p) \/ SleepReturn(p) \/ SleepTest(p)
       \/ SleepDown(p) \/ SleepUp(p) \/ Kill(p)

Spec == Init /\ [][Next]_vars

-----------------------------------------------------------------------------
\* no wakeup is lost: a process that is asleep on &ticks when tickslock is free
\* has compared ticks since the last tick
NoTickMissed ==
  \A p \in Sleeper :
    pc[p] = "asleep" /\ tickslock = Nobody => tested[p] = elapsed

\* sleep(n) returns after at least n ticks, the wrap-around of the counter
\* included, unless the process was killed or the scheduler set ticks back
SleepLongEnough ==
  [][\A p \in Sleeper :
       SleepReturn(p) =>
         killed[p] \/ setback[p] \/ elapsed - called[p] >= n[p]]_vars
=============================================================================
