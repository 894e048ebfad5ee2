-------------------------------- MODULE Grep --------------------------------
(***************************************************************************)
(* grep.c: the matcher by recursive descent, and the loop that reads a     *)
(* file piece by piece into a buffer and takes the lines from it.          *)
(***************************************************************************)
EXTENDS Integers, Sequences, SequencesExt, FiniteSets

CONSTANTS
  BufSize,       \* sizeof(buf)
  MaxItems,      \* bound: the length of a pattern
  MaxInput,      \* bound: the length of the input
  Pipe           \* a read returns what there is, at times less than asked for

GrepAssumption ==
  BufSize \in Nat \ {0} /\ MaxItems \in Nat /\ MaxInput \in Nat /\ Pipe \in BOOLEAN

VARIABLES
  pattern,       \* the pattern, item by item
  input, at,     \* what the file holds and how much of it is read
  buf,           \* the first m bytes of the buffer
  out, done

vars == <<pattern, input, at, buf, out, done>>

NL == "newline"

Piece   == [c : {"a", "."}, star : BOOLEAN]
Pattern == [items : SeqOf(Piece, MaxItems), start : BOOLEAN, end : BOOLEAN]

\* the pattern as the user writes it
Re(p) ==
  (IF p.start THEN <<"^">> ELSE <<>>)
  \o FlattenSeq([n \in DOMAIN p.items |->
       IF p.items[n].star THEN <<p.items[n].c, "*">> ELSE <<p.items[n].c>>])
  \o (IF p.end THEN <<"$">> ELSE <<>>)

Init ==
  /\ pattern \in Pattern
  /\ input \in SeqOf({"a", "b", NL}, MaxInput)
  /\ at = 0 /\ buf = <<>> /\ out = <<>> /\ done = FALSE

-----------------------------------------------------------------------------
(* The matcher; the end of a sequence is the NUL of a string *)

Fits(c, text) == text # <<>> /\ c \in {".", Head(text)}

\* mutant: an x* takes at least one x
RECURSIVE MatchHere(_, _), MatchStar(_, _, _), MatchPlus(_, _, _)
MatchPlus(c, re, text) ==
  Fits(c, text) /\ (MatchHere(re, Tail(text)) \/ MatchPlus(c, re, Tail(text)))
MatchStar(c, re, text) ==
  MatchHere(re, text) \/ (Fits(c, text) /\ MatchStar(c, re, Tail(text)))

MatchHere(re, text) ==
  IF re = <<>> THEN TRUE
  ELSE IF Len(re) > 1 /\ re[2] = "*" THEN MatchStar(re[1], SubSeq(re, 3, Len(re)), text)
  ELSE IF re = <<"$">> THEN text = <<>>
  ELSE Fits(re[1], text) /\ MatchHere(Tail(re), Tail(text))

Match(re, text) ==
  IF re # <<>> /\ re[1] = "^" THEN MatchHere(Tail(re), text)
  ELSE \E n \in 1 .. Len(text) + 1 : MatchHere(re, SubSeq(text, n, Len(text)))

-----------------------------------------------------------------------------
\* the lines of a text, up to its last newline, and what follows
Split(text) ==
  FoldLeft(LAMBDA s, c : IF c = NL THEN [lines |-> Append(s.lines, s.rest), rest |-> <<>>]
                         ELSE [s EXCEPT !.rest = Append(@, c)],
           [lines |-> <<>>, rest |-> <<>>], text)

Matching(lines) == SelectSeq(lines, LAMBDA line : Match(Re(pattern), line))

\* mutant: what follows the last newline is not kept
NoRest(s) == <<>>
\* without a newline the buffer is emptied; otherwise the rest is moved to its start
Kept(s)   == IF s.lines = <<>> THEN <<>> ELSE s.rest

Room == BufSize - Len(buf) - 1
Left == Len(input) - at
Most == IF Room < Left THEN Room ELSE Left

Read ==
  /\ ~ done /\ Most > 0
  /\ \E n \in IF Pipe THEN 1 .. Most ELSE {Most} :
       LET s == Split(buf \o SubSeq(input, at + 1, at + n)) IN
       /\ at' = at + n
       /\ out' = out \o Matching(s.lines)
       /\ buf' = Kept(s)
  /\ UNCHANGED <<pattern, input, done>>

\* at the end of the file, or when a line fills the buffer
ReadNothing ==
  /\ ~ done /\ Most = 0
  /\ done' = TRUE
  /\ UNCHANGED <<pattern, input, at, buf, out>>

Next == Read \/ ReadNothing

Spec == Init /\ [][Next]_vars

-----------------------------------------------------------------------------
\* what a pattern means: a part of the line can be cut so that each cut fits its item
Means(p, line) ==
  LET items == DOMAIN p.items IN
  \E cut \in [0 .. Len(p.items) -> 0 .. Len(line)] :
    /\ \A n \in items :
         /\ IF p.items[n].star THEN cut[n] >= cut[n - 1] ELSE cut[n] = cut[n - 1] + 1
         /\ \A k \in cut[n - 1] + 1 .. cut[n] : p.items[n].c \in {".", line[k]}
    /\ p.start => cut[0] = 0
    /\ p.end => cut[Len(p.items)] = Len(line)

FitsBuffer == \A n \in DOMAIN Split(input).lines : Len(Split(input).lines[n]) + 2 <= BufSize

\* of a file whose lines fit into the buffer, grep prints the lines that end with a
\* newline and match, each once and whole, wherever the pieces begin
PrintsMatching ==
  done /\ FitsBuffer => out = SelectSeq(Split(input).lines, LAMBDA line : Means(pattern, line))
=============================================================================
