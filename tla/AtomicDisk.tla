----------------------------- MODULE AtomicDisk -----------------------------
(***************************************************************************)
(* What the log promises to the file system: operations change blocks in   *)
(* memory, all changes made so far become durable together and only while  *)
(* no operation is active, and a crash takes memory back to what was       *)
(* durable.                                                                *)
(***************************************************************************)
CONSTANTS Proc, Block, Value

VARIABLES
  mem,      \* what a read of a block returns
  dur,      \* what would be read after a crash
  active    \* the processes inside an operation

vars == <<mem, dur, active>>

Init ==
  /\ mem \in [Block -> Value]
  /\ dur = mem
  /\ active = {}

Begin(p) == active' = active \cup {p} /\ UNCHANGED <<mem, dur>>

Write(p) ==
  /\ p \in active
  /\ \E b \in Block, v \in Value : mem' = [mem EXCEPT ![b] = v]
  /\ UNCHANGED <<dur, active>>

End(p) == active' = active \ {p} /\ UNCHANGED <<mem, dur>>

Commit == active = {} /\ dur' = mem /\ UNCHANGED <<mem, active>>

Crash == mem' = dur /\ active' = {} /\ UNCHANGED dur

Next ==
  \/ \E p \in Proc : Begin(p) \/ Write(p) \/ End(p)
  \/ Commit
  \/ Crash

Spec == Init /\ [][Next]_vars
=============================================================================
