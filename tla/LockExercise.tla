---------------------------- MODULE LockExercise ----------------------------
(***************************************************************************)
(* pthread_lock_linux.c: main() creates threads that each increment        *)
(* shared_resource NUM_ITERS times under a lock made of xchg, joins them   *)
(* and prints the sum.  An increment is a load and a store.                *)
(***************************************************************************)
EXTENDS Integers

CONSTANTS NUM_THREADS, NUM_ITERS, None

ExerciseAssumption ==
  /\ NUM_THREADS \in Nat \ {0} /\ NUM_ITERS \in Nat \ {0}
  /\ None \notin 0 .. NUM_THREADS - 1

VARIABLES
  flag,              \* of the lock
  shared_resource,
  pc, i, loaded,     \* by thread; loaded is a register
  main               \* the thread that main() creates or joins next

vars == <<flag, shared_resource, pc, i, loaded, main>>

Thread == 0 .. NUM_THREADS - 1

Init ==
  /\ flag = 0 /\ shared_resource = 0
  /\ pc = [t \in Thread |-> "none"]
  /\ i = [t \in Thread |-> 0] /\ loaded = [t \in Thread |-> 0]
  /\ main = [create |-> 0, join |-> 0]

Goto(t, from, to) == pc[t] = from /\ pc' = [pc EXCEPT ![t] = to]

Create ==
  /\ main.create < NUM_THREADS
  /\ main' = [main EXCEPT !.create = @ + 1]
  /\ Goto(main.create, "none", "lock")
  /\ UNCHANGED <<flag, shared_resource, i, loaded>>

\* mutant: the flag is tested by an instruction of its own
AnyFlag == TRUE
WasFree == flag = 0

\* the xchg that finds 0; one that finds 1 changes nothing and is repeated
Lock(t) ==
  /\ WasFree /\ flag' = 1
  /\ Goto(t, "lock", "load")
  /\ UNCHANGED <<shared_resource, i, loaded, main>>

\* mutant: one round too many
OneMore(n) == n <= NUM_ITERS
Again(n)   == n < NUM_ITERS

Load(t) ==
  /\ Again(i[t])
  /\ loaded' = [loaded EXCEPT ![t] = shared_resource]
  /\ Goto(t, "load", "store")
  /\ UNCHANGED <<flag, shared_resource, i, main>>

Store(t) ==
  /\ shared_resource' = loaded[t] + 1
  /\ i' = [i EXCEPT ![t] = @ + 1]
  /\ Goto(t, "store", "load")
  /\ UNCHANGED <<flag, loaded, main>>

\* mutant: the flag stays set
StillSet == flag
Cleared  == 0

Unlock(t) ==
  /\ i[t] = NUM_ITERS
  /\ flag' = Cleared
  /\ Goto(t, "load", "done")
  /\ UNCHANGED <<shared_resource, i, loaded, main>>

Join ==
  /\ main.create = NUM_THREADS /\ main.join < NUM_THREADS
  /\ pc[main.join] = "done"
  /\ main' = [main EXCEPT !.join = @ + 1]
  /\ UNCHANGED <<flag, shared_resource, pc, i, loaded>>

Joined == main.join = NUM_THREADS

Run(t) == Lock(t) \/ Load(t) \/ Store(t) \/ Unlock(t)

Next == Create \/ Join \/ \E t \in Thread : Run(t)

\* every thread is run by the threads library, main() included
Spec == Init /\ [][Next]_vars /\ WF_vars(Create \/ Join) /\ \A t \in Thread : WF_vars(Run(t))

-----------------------------------------------------------------------------
TypeOK ==
  /\ flag \in {0, 1}
  /\ shared_resource \in 0 .. NUM_THREADS * NUM_ITERS
  /\ pc \in [Thread -> {"none", "lock", "load", "store", "done"}]
  /\ i \in [Thread -> 0 .. NUM_ITERS]
  /\ loaded \in [Thread -> 0 .. NUM_THREADS * NUM_ITERS]
  /\ main \in [create : 0 .. NUM_THREADS, join : 0 .. NUM_THREADS]

\* no increment is lost: what main() prints is the number of increments
SumPrinted == Joined => shared_resource = NUM_THREADS * NUM_ITERS

\* the lock is a lock: one thread is between lock() and unlock()
Holder ==
  IF \E t \in Thread : pc[t] \in {"load", "store"}
  THEN CHOOSE t \in Thread : pc[t] \in {"load", "store"} ELSE None

HeldByOne == INSTANCE Mutex WITH Proc <- Thread, holder <- Holder

LockSpec == HeldByOne!Spec

\* although lock() is not fair, each thread takes it once, so that all are joined
AllJoined == <>Joined
=============================================================================
