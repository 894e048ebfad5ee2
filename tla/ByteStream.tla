----------------------------- MODULE ByteStream -----------------------------
(***************************************************************************)
(* What a pipe promises: bytes come out in the order they went in, none    *)
(* lost or repeated, and the end of the stream is reported when it is      *)
(* empty and will stay so.                                                 *)
(***************************************************************************)
EXTENDS Naturals, Sequences

CONSTANTS Byte, Capacity

VARIABLES
  stream,    \* the bytes inside
  open,      \* somebody may still write
  out        \* what the last read returned

vars == <<stream, open, out>>

Init == stream = <<>> /\ open = TRUE /\ out = <<>>

Put ==
  /\ open
  /\ \E k \in 1 .. Capacity - Len(stream) : \E s \in [1 .. k -> Byte] : stream' = stream \o s
  /\ UNCHANGED <<open, out>>

Get ==
  /\ \E k \in 1 .. Len(stream) :
       /\ out' = SubSeq(stream, 1, k)
       /\ stream' = SubSeq(stream, k + 1, Len(stream))
  /\ UNCHANGED open

EndOfStream ==
  /\ stream = <<>> /\ ~ open
  /\ out' = <<>>
  /\ UNCHANGED <<stream, open>>

Close == open' = FALSE /\ UNCHANGED <<stream, out>>

Next == Put \/ Get \/ EndOfStream \/ Close

Spec == Init /\ [][Next]_vars
=============================================================================
