----------------------------- MODULE LineInput -----------------------------
(***************************************************************************)
(* What the console promises of its input: a line that can be edited until *)
(* it is ended, and lines that are read in order, each character once.     *)
(***************************************************************************)
EXTENDS Integers, Sequences

CONSTANTS Char, Newline, Eof, Capacity

VARIABLES
  ready,     \* characters of ended lines, not yet read
  line       \* the line being edited

vars == <<ready, line>>

Init == ready = <<>> /\ line = <<>>

Full == Len(ready) + Len(line) = Capacity

\* a full buffer ends its line
Type(c) ==
  /\ ~ Full
  /\ IF c \in {Newline, Eof} \/ Len(ready) + Len(line) + 1 = Capacity
     THEN ready' = ready \o Append(line, c) /\ line' = <<>>
     ELSE line' = Append(line, c) /\ UNCHANGED ready

Erase == line # <<>> /\ line' \in {SubSeq(line, 1, Len(line) - 1), <<>>} /\ UNCHANGED ready

\* a read takes no character beyond the end of a line
Read ==
  \E n \in 1 .. Len(ready) :
    /\ \A i \in 1 .. n - 1 : ready[i] \notin {Newline, Eof}
    /\ ready' = SubSeq(ready, n + 1, Len(ready))
    /\ UNCHANGED line

Next == (\E c \in Char : Type(c)) \/ Erase \/ Read

Spec == Init /\ [][Next]_vars
=============================================================================
