----------------------------- MODULE ByteFiles -----------------------------
(***************************************************************************)
(* What files promise: a file is a sequence of bytes, an open file has an  *)
(* offset in it, and a write of no more than Chunk bytes is one step.      *)
(***************************************************************************)
EXTENDS Integers, Sequences

CONSTANTS Inode, File, Byte, Chunk, MaxSize

VARIABLES content, offset

vars == <<content, offset>>

Init == content = [i \in Inode |-> <<>>] /\ offset = [f \in File |-> 0]

\* s with n bytes v from position o on
Overlay(s, o, n, v) ==
  [k \in 1 .. (IF o + n > Len(s) THEN o + n ELSE Len(s)) |->
     IF k > o /\ k <= o + n THEN v ELSE s[k]]

Write(f, i, v, n) ==
  /\ offset[f] <= Len(content[i]) /\ offset[f] + n <= MaxSize
  /\ content' = [content EXCEPT ![i] = Overlay(@, offset[f], n, v)]
  /\ offset' = [offset EXCEPT ![f] = @ + n]

Read(f, i, n) ==
  /\ offset[f] + n <= Len(content[i])
  /\ offset' = [offset EXCEPT ![f] = @ + n]
  /\ UNCHANGED content

Open(f) == offset' = [offset EXCEPT ![f] = 0] /\ UNCHANGED content

Remove(i) == content' = [content EXCEPT ![i] = <<>>] /\ UNCHANGED offset

Next ==
  \/ \E f \in File, i \in Inode, n \in 1 .. Chunk, v \in Byte : Write(f, i, v, n)
  \/ \E f \in File, i \in Inode, n \in 1 .. MaxSize : Read(f, i, n)
  \/ \E f \in File : Open(f)
  \/ \E i \in Inode : Remove(i)

Spec == Init /\ [][Next]_vars
=============================================================================
