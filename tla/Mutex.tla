------------------------------- MODULE Mutex -------------------------------
(***************************************************************************)
(* What a lock promises: it is held by one at a time, and given back by    *)
(* the one that holds it.                                                  *)
(***************************************************************************)
CONSTANTS Proc, None

VARIABLE holder

Init == holder = None

Acquire(p) == holder = None /\ holder' = p
Release(p) == holder = p /\ holder' = None

Next == \E p \in Proc : Acquire(p) \/ Release(p)

Spec == Init /\ [][Next]_holder
=============================================================================
