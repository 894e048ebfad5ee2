----------------------------- MODULE SleepLock -----------------------------
(***************************************************************************)
(* acquiresleep() and releasesleep() of sleeplock.c on top of sleep(),     *)
(* wakeup() and kill() of proc.c, between processes on any number of CPUs. *)
(* A sleep lock is two spin locks at work: lk->lk for its own fields, and  *)
(* ptable.lock, which sleep() acquires before it releases lk->lk.          *)
(***************************************************************************)
CONSTANTS Proc, None

ASSUME NoneAssumption == None \notin Proc

VARIABLES
  locked, pid,    \* the fields of the sleep lock
  lk, ptable,     \* the spin locks: who holds them
  sleeping,       \* the processes that are SLEEPING with the lock as channel
  pc              \* by process: how far it is

vars == <<locked, pid, lk, ptable, sleeping, pc>>

Init ==
  /\ locked = FALSE /\ pid = None
  /\ lk = None /\ ptable = None
  /\ sleeping = {}
  /\ pc = [p \in Proc |-> "out"]

At(p, l)   == pc[p] = l
Goto(p, l) == pc' = [pc EXCEPT ![p] = l]

-----------------------------------------------------------------------------
AcquireLk(p, from, to) ==
  /\ At(p, from) /\ lk = None
  /\ lk' = p
  /\ Goto(p, to) /\ UNCHANGED <<locked, pid, ptable, sleeping>>

\* acquiresleep()
Enter(p) == AcquireLk(p, "out", "test")

\* mutant: a woken process takes the lock without another look
NoTest  == TRUE
IsFree  == ~ locked

Take(p) ==
  /\ At(p, "test") /\ IsFree
  /\ locked' = TRUE /\ pid' = p
  /\ Goto(p, "taken") /\ UNCHANGED <<lk, ptable, sleeping>>

Taken(p) ==
  /\ At(p, "taken")
  /\ lk' = None
  /\ Goto(p, "in") /\ UNCHANGED <<locked, pid, ptable, sleeping>>

\* sleep(): ptable.lock is acquired while lk is still held
MustWait(p) ==
  /\ At(p, "test") /\ locked /\ ptable = None
  /\ ptable' = p
  /\ Goto(p, "sleep1") /\ UNCHANGED <<locked, pid, lk, sleeping>>

\* mutant: lk is released first, and ptable.lock acquired in the next step
WaitUnlocked(p) ==
  \/ /\ At(p, "test") /\ locked
     /\ lk' = None
     /\ Goto(p, "sleep0") /\ UNCHANGED <<locked, pid, ptable, sleeping>>
  \/ /\ At(p, "sleep0") /\ ptable = None
     /\ ptable' = p
     /\ Goto(p, "sleep2") /\ UNCHANGED <<locked, pid, lk, sleeping>>
Wait(p) == MustWait(p)

SleepRelease(p) ==
  /\ At(p, "sleep1")
  /\ lk' = None
  /\ Goto(p, "sleep2") /\ UNCHANGED <<locked, pid, ptable, sleeping>>

\* the scheduler that sched() switches to releases ptable.lock
Sleep(p) ==
  /\ At(p, "sleep2")
  /\ sleeping' = sleeping \cup {p} /\ ptable' = None
  /\ Goto(p, "asleep") /\ UNCHANGED <<locked, pid, lk>>

\* the process runs again, made RUNNABLE by wakeup() or by kill()
Resume(p) ==
  /\ At(p, "asleep") /\ p \notin sleeping /\ ptable = None
  /\ Goto(p, "again") /\ UNCHANGED <<locked, pid, lk, ptable, sleeping>>

Again(p) == AcquireLk(p, "again", "test")

-----------------------------------------------------------------------------
\* releasesleep()
Leave(p) == AcquireLk(p, "in", "free")

Free(p) ==
  /\ At(p, "free")
  /\ locked' = FALSE /\ pid' = None
  /\ Goto(p, "wake") /\ UNCHANGED <<lk, ptable, sleeping>>

\* mutant: nobody is woken
StillAsleep == sleeping
AfterWakeup == {}

\* wakeup(): every sleeper at the channel
Wakeup(p) ==
  /\ At(p, "wake") /\ ptable = None
  /\ sleeping' = AfterWakeup
  /\ Goto(p, "woken") /\ UNCHANGED <<locked, pid, lk, ptable>>

Left(p) ==
  /\ At(p, "woken")
  /\ lk' = None
  /\ Goto(p, "out") /\ UNCHANGED <<locked, pid, ptable, sleeping>>

\* kill() from anywhere
Kill(p) ==
  /\ ptable = None /\ p \in sleeping
  /\ sleeping' = sleeping \ {p}
  /\ UNCHANGED <<locked, pid, lk, ptable, pc>>

-----------------------------------------------------------------------------
Step(p) ==
  \/ Enter(p) \/ Take(p) \/ Taken(p) \/ Wait(p) \/ SleepRelease(p) \/ Sleep(p)
  \/ Resume(p) \/ Again(p)
  \/ Leave(p) \/ Free(p) \/ Wakeup(p) \/ Left(p)

Next == \E p \in Proc : Step(p) \/ Kill(p)

Spec == Init /\ [][Next]_vars

\* A CPU goes on with what it runs, the scheduler runs what is RUNNABLE, and nobody
\* keeps a lock for ever.  A process need not begin another acquiresleep().
Finishes(p) == ~ At(p, "out") /\ Step(p)

FairSpec == Spec /\ \A p \in Proc : WF_vars(Finishes(p))

-----------------------------------------------------------------------------
TypeOK ==
  /\ locked \in BOOLEAN /\ pid \in Proc \cup {None}
  /\ lk \in Proc \cup {None} /\ ptable \in Proc \cup {None}
  /\ sleeping \subseteq Proc
  /\ pc \in [Proc -> {"out", "test", "taken", "sleep1", "sleep2", "asleep", "again",
                      "in", "free", "wake", "woken"}]

\* the sleep lock is a lock: although several sleepers are woken at once, and kill()
\* wakes one that nobody gave the lock to, it is held by one at a time
Lock == INSTANCE Mutex WITH holder <- pid

LockSpec == Lock!Spec

\* nobody sleeps on a free lock, except until the wakeup() under way in the
\* releasesleep() that freed it
NoLostWakeup == sleeping # {} => locked \/ \E q \in Proc : At(q, "wake")

\* a lock that somebody waits for changes hands: waiting processes may be overtaken,
\* they cannot all be left waiting
Waiting == \E p \in Proc : pc[p] \in {"test", "sleep1", "sleep2", "asleep", "again"}

FreeIsTaken == (Waiting /\ ~ locked) ~> locked
=============================================================================
