----------------------------- MODULE BlockStore -----------------------------
(***************************************************************************)
(* What the buffer cache promises: every block has one content, and one    *)
(* process at a time uses it, between bread() and brelse().                *)
(***************************************************************************)
CONSTANTS Proc, Block, Value

VARIABLES content, users    \* both by block

vars == <<content, users>>

Init == content \in [Block -> Value] /\ users = [b \in Block |-> {}]

Bread(p, b) ==
  /\ users[b] = {}
  /\ users' = [users EXCEPT ![b] = {p}]
  /\ UNCHANGED content

Change(p, b) ==
  /\ users[b] = {p}
  /\ \E v \in Value : content' = [content EXCEPT ![b] = v]
  /\ UNCHANGED users

Brelse(p, b) ==
  /\ users[b] = {p}
  /\ users' = [users EXCEPT ![b] = {}]
  /\ UNCHANGED content

Next == \E p \in Proc, b \in Block : Bread(p, b) \/ Change(p, b) \/ Brelse(p, b)

Spec == Init /\ [][Next]_vars
=============================================================================
