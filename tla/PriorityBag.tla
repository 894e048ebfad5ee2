---------------------------- MODULE PriorityBag ----------------------------
(***************************************************************************)
(* What the scheduler expects of the last level of the MLFQ: a bag of      *)
(* processes from which it takes one of the highest priority.  out is what *)
(* the last call returned.                                                 *)
(***************************************************************************)
EXTENDS Naturals, FiniteSets

CONSTANTS Item, NoItem, MaxPriority

VARIABLES count, priority, out

vars == <<count, priority, out>>

Members == {p \in Item : count[p] > 0}

Init ==
  /\ count = [p \in Item |-> 0]
  /\ priority = [p \in Item |-> 0]
  /\ out = NoItem

Clear ==
  /\ count' = [p \in Item |-> 0]
  /\ out' = NoItem
  /\ UNCHANGED priority

Put(p) ==
  /\ count' = [count EXCEPT ![p] = @ + 1]
  /\ out' = NoItem
  /\ UNCHANGED priority

\* the bag is full
Drop == out' = NoItem /\ UNCHANGED <<count, priority>>

Take ==
  /\ Members # {}
  /\ out' \in Members
  /\ \A p \in Members : priority[p] <= priority[out']
  /\ count' = [count EXCEPT ![out'] = @ - 1]
  /\ UNCHANGED priority

TakeNone ==
  /\ Members = {}
  /\ out' = NoItem
  /\ UNCHANGED <<count, priority>>

\* the priority of a process may change while it is not in the bag
Rank(p) ==
  /\ p \notin Members
  /\ \E x \in 0 .. MaxPriority : priority' = [priority EXCEPT ![p] = x]
  /\ UNCHANGED <<count, out>>

Next ==
  \/ Clear \/ Drop \/ Take \/ TakeNone
  \/ \E p \in Item : Put(p) \/ Rank(p)

Spec == Init /\ [][Next]_vars
=============================================================================
