---------------------------- MODULE BoundedFifo ----------------------------
(***************************************************************************)
(* What the scheduler expects of a run queue: a first-in first-out queue   *)
(* that drops what does not fit.  call is the last call, out what it       *)
(* returned.                                                               *)
(***************************************************************************)
EXTENDS Naturals, Sequences

CONSTANTS Item, NoItem, Capacity

VARIABLES q, call, out

Init == q = <<>> /\ call = "none" /\ out = NoItem

Clear == q' = <<>> /\ call' = "init" /\ out' = NoItem

Put(p) ==
  /\ q' = IF Len(q) < Capacity THEN Append(q, p) ELSE q
  /\ call' = "insert"
  /\ out' = NoItem

Get ==
  /\ \/ q # <<>> /\ q' = Tail(q) /\ out' = Head(q)
     \/ q = <<>> /\ q' = q /\ out' = NoItem
  /\ call' = "delete"

Size == q' = q /\ call' = "size" /\ out' = Len(q)

Next == Clear \/ (\E p \in Item : Put(p)) \/ Get \/ Size

Spec == Init /\ [][Next]_<<q, call, out>>
=============================================================================
