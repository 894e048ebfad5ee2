---------------------------- MODULE ShellParser ----------------------------
(***************************************************************************)
(* parsecmd() of sh.c: recursive descent over a line, next to the grammar  *)
(* it stands for, read off the line by its outermost operators.  A line is *)
(* a sequence of tokens as gettoken() returns them; a word is known by its *)
(* place in the line, to which argv[] and eargv[] point in the code.       *)
(***************************************************************************)
EXTENDS Integers, Sequences

CONSTANTS
  MAXARGS,     \* the entries of argv[]
  MaxTokens    \* bound: the length of a line

ParserAssumption == MAXARGS \in Nat \ {0, 1} /\ MaxTokens \in Nat

VARIABLE line

Word   == "a"
Token  == {Word, "<", ">", "|", "(", ")", ";", "&"}

Init == line = <<>>
Type == Len(line) < MaxTokens /\ \E t \in Token : line' = Append(line, t)
Spec == Init /\ [][Type]_line

-----------------------------------------------------------------------------
(* commands, and what a parsing function returns: the command and the rest *)

Cmd(t, l, r)  == [type |-> t, left |-> l, right |-> r]
Exec(args)    == Cmd("EXEC", args, 0)
Redir(c, f)   == Cmd("REDIR", c, f)
Result(c, i)  == [ok |-> TRUE, cmd |-> c, next |-> i]
Panic         == [ok |-> FALSE]

\* peek(): is the token at i one of ts
Peek(i, ts) == i <= Len(line) /\ line[i] \in ts

RECURSIVE ParseRedirs(_, _), ParseArgs(_, _, _), Wrapped(_, _)
RECURSIVE ParseLine(_), ParseBacks(_, _), ParsePipe(_), ParseExec(_)

ParseRedirs(fs, i) ==
  IF ~ Peek(i, {"<", ">"}) THEN Result(fs, i)
  ELSE IF ~ Peek(i + 1, {Word}) THEN Panic
  ELSE ParseRedirs(Append(fs, i + 1), i + 2)

\* redircmd() around a command, once for each file
Wrapped(c, fs) == IF fs = <<>> THEN c ELSE Wrapped(Redir(c, fs[1]), Tail(fs))

\* the loop of parseexec() over arguments and redirections
ParseArgs(args, fs, i) ==
  IF Peek(i, {"|", ")", "&", ";"}) \/ i > Len(line)
  THEN Result(Wrapped(Exec(args), fs), i)
  ELSE IF ~ Peek(i, {Word}) \/ Len(args) + 1 >= MAXARGS THEN Panic
  ELSE LET r == ParseRedirs(fs, i + 1) IN
       IF r.ok THEN ParseArgs(Append(args, i), r.cmd, r.next) ELSE Panic

ParseBlock(i) ==
  LET r == ParseLine(i + 1) IN
  IF ~ r.ok \/ ~ Peek(r.next, {")"}) THEN Panic
  ELSE LET f == ParseRedirs(<<>>, r.next + 1) IN
       IF f.ok THEN Result(Wrapped(r.cmd, f.cmd), f.next) ELSE Panic

ParseExec(i) ==
  IF Peek(i, {"("}) THEN ParseBlock(i)
  ELSE LET r == ParseRedirs(<<>>, i) IN
       IF r.ok THEN ParseArgs(<<>>, r.cmd, r.next) ELSE Panic

\* mutant: a pipe of two commands only
PipeOfTwo(i) == ParseExec(i)
PipeRest(i)  == ParsePipe(i)

ParsePipe(i) ==
  LET l == ParseExec(i) IN
  IF ~ l.ok \/ ~ Peek(l.next, {"|"}) THEN l
  ELSE LET r == PipeRest(l.next + 1) IN
       IF r.ok THEN Result(Cmd("PIPE", l.cmd, r.cmd), r.next) ELSE Panic

ParseBacks(c, i) ==
  IF Peek(i, {"&"}) THEN ParseBacks(Cmd("BACK", c, 0), i + 1) ELSE Result(c, i)

ParseLine(i) ==
  LET p == ParsePipe(i) IN
  IF ~ p.ok THEN Panic
  ELSE LET l == ParseBacks(p.cmd, p.next) IN
       IF ~ Peek(l.next, {";"}) THEN l
       ELSE LET r == ParseLine(l.next + 1) IN
            IF r.ok THEN Result(Cmd("LIST", l.cmd, r.cmd), r.next) ELSE Panic

\* parsecmd(): nothing may be left over
ParseCmd ==
  LET r == ParseLine(1) IN
  IF r.ok /\ r.next = Len(line) + 1 THEN r ELSE Panic

\* mutant: the files of redirections are not ended
FileKept(f)  == {}
FileEnded(f) == {f}

\* nulterminate(): the words that get their end
RECURSIVE NulTerminate(_)
NulTerminate(c) ==
  CASE c.type = "EXEC" -> {c.left[n] : n \in DOMAIN c.left}
    [] c.type = "REDIR" -> NulTerminate(c.left) \cup FileEnded(c.right)
    [] c.type = "BACK" -> NulTerminate(c.left)
    [] OTHER -> NulTerminate(c.left) \cup NulTerminate(c.right)

-----------------------------------------------------------------------------
(* the grammar, from the outside in: a list is split at its first ; outside *)
(* of parentheses, a job at its last &, a pipe at its first |               *)

Error == [type |-> "error"]

\* how deep in parentheses the token at i is, counted from lo
RECURSIVE Depth(_, _)
Depth(lo, i) ==
  IF i < lo THEN 0
  ELSE Depth(lo, i - 1) + (IF line[i] = "(" THEN 1 ELSE IF line[i] = ")" THEN -1 ELSE 0)

Outside(lo, hi, t) == {i \in lo .. hi : line[i] = t /\ Depth(lo, i) = 0}
First(S) == CHOOSE i \in S : \A j \in S : i <= j

Both(t, l, r) == IF Error \in {l, r} THEN Error ELSE Cmd(t, l, r)

RECURSIVE ListOf(_, _), JobOf(_, _), PipeOf(_, _), SimpleOf(_, _), RedirsOf(_, _, _)

ListOf(lo, hi) ==
  LET semis == Outside(lo, hi, ";") IN
  IF semis = {} THEN JobOf(lo, hi)
  ELSE Both("LIST", JobOf(lo, First(semis) - 1), ListOf(First(semis) + 1, hi))

JobOf(lo, hi) ==
  IF hi \in Outside(lo, hi, "&") THEN
    LET c == JobOf(lo, hi - 1) IN IF c = Error THEN Error ELSE Cmd("BACK", c, 0)
  ELSE PipeOf(lo, hi)

PipeOf(lo, hi) ==
  LET bars == Outside(lo, hi, "|") IN
  IF bars = {} THEN SimpleOf(lo, hi)
  ELSE Both("PIPE", SimpleOf(lo, First(bars) - 1), PipeOf(First(bars) + 1, hi))

\* c with the redirections lo .. hi, which may be nothing else
RedirsOf(c, lo, hi) ==
  IF lo > hi THEN c
  ELSE IF lo < hi /\ line[lo] \in {"<", ">"} /\ line[lo + 1] = Word
       THEN RedirsOf(Redir(c, lo + 1), lo + 2, hi)
       ELSE Error

SimpleOf(lo, hi) ==
  IF lo <= hi /\ line[lo] = "(" THEN
    LET ends == {i \in lo .. hi : line[i] = ")" /\ Depth(lo, i) = 0}
        c == IF ends = {} THEN Error ELSE ListOf(lo + 1, First(ends) - 1) IN
    IF c = Error THEN Error ELSE RedirsOf(c, First(ends) + 1, hi)
  ELSE
    LET files == {i \in lo + 1 .. hi : line[i] = Word /\ line[i - 1] \in {"<", ">"}}
        words == {i \in lo .. hi : line[i] = Word} \ files
        marks == {i \in lo .. hi : line[i] \in {"<", ">"}}
        Nth(S) == [n \in 1 .. Len(SelectSeq([i \in 1 .. Len(line) |-> i], LAMBDA i : i \in S)) |->
                     SelectSeq([i \in 1 .. Len(line) |-> i], LAMBDA i : i \in S)[n]] IN
    IF lo .. hi = words \cup files \cup marks /\ {i + 1 : i \in marks} = files
       /\ Len(Nth(words)) < MAXARGS
    THEN Wrapped(Exec(Nth(words)), Nth(files)) ELSE Error

-----------------------------------------------------------------------------
\* recursive descent with one token of look-ahead finds the command of the grammar, and
\* panics at every other line
FollowsGrammar ==
  LET c == ListOf(1, Len(line)) IN
  IF c = Error THEN ~ ParseCmd.ok ELSE ParseCmd.ok /\ ParseCmd.cmd = c

\* nulterminate() ends each word of the line, wherever in the command it is, so that no
\* name of a program, an argument or a file runs into what follows it
EveryWordEnds ==
  ParseCmd.ok => NulTerminate(ParseCmd.cmd) = {i \in 1 .. Len(line) : line[i] = Word}
=============================================================================
