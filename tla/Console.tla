------------------------------ MODULE Console ------------------------------
(***************************************************************************)
(* console.c.  The input: consoleintr() edits a line in a ring that        *)
(* consoleread() takes ended lines from.  Both hold cons.lock from their   *)
(* start to their end or their sleep(), so that each is one action;        *)
(* consoleintr() handles one key in each.  ^P is left out.                 *)
(*                                                                         *)
(* The display: cgaputc(), the text memory and the position of the cursor. *)
(* The code scrolls when the cursor reaches row 24 of the 25, so that the  *)
(* last row is never in use; here ROWS is that 24.  What is displayed does *)
(* not depend on the input: the two have variables and a next-state        *)
(* relation of their own.                                                  *)
(***************************************************************************)
EXTENDS Integers, Sequences, SequencesExt, FiniteSetsExt

CONSTANTS
  Proc,           \* the processes that read the console
  Char, Newline, Eof,
  INPUT_BUF,
  UINT,           \* the number of values of an unsigned integer
  MaxRead,        \* bound: bytes a read asks for
  ROWS, COLS,     \* the rows in use and the cells of a row
  Glyph,          \* what is put out, besides BACKSPACE and newline
  MaxText         \* bound: cells of text, with those that scrolled off

InputAssumption ==
  /\ {UINT, MaxRead} \subseteq Nat /\ INPUT_BUF \in Nat \ {0, 1}
  /\ UINT % INPUT_BUF = 0 /\ INPUT_BUF < UINT
  /\ {Newline, Eof} \subseteq Char /\ Newline # Eof

ScreenAssumption ==
  ROWS \in Nat \ {0, 1} /\ COLS \in Nat \ {0} /\ MaxText \in Nat

VARIABLES
  buf, r, w, e,   \* struct input
  reader,         \* by process: its call of consoleread()
  crt,            \* the cells of the display
  pos,            \* the cursor of the display
  text            \* history: the cells written since the start, erased ones left out

vars == <<buf, r, w, e, reader>>

\* state; target: bytes asked for; n: those still missing; killed;
\* eof: the last read was cut short by ^D
Reader == [state : {"user", "ready", "asleep"}, target : 0 .. MaxRead,
           n : 0 .. MaxRead, killed : BOOLEAN, eof : BOOLEAN]

\* the difference of two counters that may have wrapped around
Ahead(x, y) == (x - y) % UINT

TypeOK ==
  /\ buf \in [0 .. INPUT_BUF - 1 -> Char]
  /\ {r, w, e} \subseteq 0 .. UINT - 1
  /\ Ahead(w, r) + Ahead(e, w) = Ahead(e, r) /\ Ahead(e, r) <= INPUT_BUF
  /\ reader \in [Proc -> Reader]

Init ==
  /\ buf = [i \in 0 .. INPUT_BUF - 1 |-> CHOOSE c \in Char : TRUE]
  /\ r = 0 /\ w = 0 /\ e = 0
  /\ reader = [p \in Proc |-> [state |-> "user", target |-> 0, n |-> 0,
                               killed |-> FALSE, eof |-> FALSE]]

-----------------------------------------------------------------------------
\* wakeup(&input.r)
WakeReaders ==
  reader' = [p \in Proc |->
    IF reader[p].state = "asleep" THEN [reader[p] EXCEPT !.state = "ready"] ELSE reader[p]]

\* mutants: one character too many; a full ring does not end the line; a ring that
\* is full wakes nobody
RoomForOne    == Ahead(e, r) <= INPUT_BUF
Room          == Ahead(e, r) < INPUT_BUF
EndsByKey(c)  == c \in {Newline, Eof}
EndsLine(c)   == c \in {Newline, Eof} \/ (e + 1) % UINT = (r + INPUT_BUF) % UINT
WakesOnKey(c) == c \in {Newline, Eof}
Wakes(c)      == TRUE

Key(c) ==
  /\ Room
  /\ buf' = [buf EXCEPT ![e % INPUT_BUF] = c]
  /\ e' = (e + 1) % UINT
  /\ IF EndsLine(c) THEN w' = e' ELSE UNCHANGED w
  /\ IF EndsLine(c) /\ Wakes(c) THEN WakeReaders ELSE UNCHANGED reader
  /\ UNCHANGED r

\* mutant: the line is not kept apart from what has been ended
AnyLeft  == e # r
LineLeft == e # w

Backspace ==
  /\ LineLeft
  /\ e' = (e - 1) % UINT
  /\ UNCHANGED <<buf, r, w, reader>>

\* ^U: back to the newline before, or to input.w
KillLine ==
  LET stop(k) == (e - k) % UINT = w \/ buf[(e - k - 1) % INPUT_BUF] = Newline IN
  /\ LineLeft
  /\ e' = (e - Min({k \in 0 .. Ahead(e, w) : stop(k)})) % UINT
  /\ UNCHANGED <<buf, r, w, reader>>

-----------------------------------------------------------------------------
Read(p, n) ==
  /\ reader[p].state = "user" /\ ~ reader[p].killed
  /\ reader' = [reader EXCEPT ![p].state = "ready", ![p].target = n, ![p].n = n]
  /\ UNCHANGED <<buf, r, w, e>>

Kill(p) ==
  /\ ~ reader[p].killed
  /\ reader' = [reader EXCEPT ![p].killed = TRUE,
       ![p].state = IF @ = "asleep" THEN "ready" ELSE @]
  /\ UNCHANGED <<buf, r, w, e>>

Waiting(k)  == buf[(r + k - 1) % INPUT_BUF]      \* the k-th of the characters to read
Returned(p, eof) == [reader[p] EXCEPT !.state = "user", !.n = 0, !.target = 0, !.eof = eof]

\* the number of characters the loop takes, a ^D included
Taken(p) ==
  LET most == Min({reader[p].n, Ahead(w, r)}) IN
  Min({most} \cup {k \in 1 .. most : Waiting(k) \in {Newline, Eof}})

\* ^D is left for the next read, so that it returns 0 bytes
SaveEof(p, k) == reader[p].n - (k - 1) < reader[p].target

consoleread(p) ==
  LET k == Taken(p) IN
  /\ reader[p].state = "ready"
  /\ \/ /\ r = w /\ reader[p].killed
        /\ reader' = [reader EXCEPT ![p] = Returned(p, FALSE)]
        /\ UNCHANGED r
     \/ /\ r = w /\ ~ reader[p].killed
        /\ reader' = [reader EXCEPT ![p].state = "asleep"]
        /\ UNCHANGED r
     \/ /\ r # w /\ Waiting(k) = Eof
        /\ r' = (r + IF SaveEof(p, k) THEN k - 1 ELSE k) % UINT
        /\ reader' = [reader EXCEPT ![p] = Returned(p, SaveEof(p, k))]
     \/ /\ r # w /\ Waiting(k) # Eof
        /\ r' = (r + k) % UINT
        /\ reader' = [reader EXCEPT ![p] =
             IF Waiting(k) = Newline \/ k = @.n \/ @.killed THEN Returned(p, FALSE)
             ELSE [reader[p] EXCEPT !.n = @ - k, !.state = "asleep"]]
  /\ UNCHANGED <<buf, w, e>>

Next ==
  \/ \E c \in Char : Key(c)
  \/ Backspace \/ KillLine
  \/ \E p \in Proc : consoleread(p) \/ Kill(p) \/ \E n \in 1 .. MaxRead : Read(p, n)

Spec == Init /\ [][Next]_vars

-----------------------------------------------------------------------------
Between(x, y) == [k \in 1 .. Ahead(y, x) |-> buf[(x + k - 1) % INPUT_BUF]]

Lines == INSTANCE LineInput WITH
  Capacity <- INPUT_BUF, ready <- Between(r, w), line <- Between(w, e)

\* the ring is a line that is edited and a sequence of ended lines, each character
\* read once and in order, also when the counters wrap around
LineSpec == Lines!Spec

\* nobody sleeps while there is something to read
SleepersBlocked == \A p \in Proc : reader[p].state = "asleep" => r = w

\* a ring that is full can be read: otherwise no key would be accepted any more
FullIsEnded == Ahead(e, r) = INPUT_BUF => w = e

\* consoleread() says that ^D is saved to make sure that the caller gets a 0-byte
\* result: its next read finds it
EofIsSaved == \A p \in Proc : reader[p].eof => r # w /\ Waiting(1) = Eof

-----------------------------------------------------------------------------
(* The display *)

screenVars == <<crt, pos, text>>

Blank == " "
Cells == 0 .. (ROWS + 1) * COLS - 1

\* what the boot loader shows ends before the cursor
ScreenInit ==
  /\ pos \in 0 .. ROWS * COLS - 1
  /\ crt = [n \in Cells |-> IF n < pos THEN "bios" ELSE Blank]
  /\ text = [n \in 1 .. pos |-> "bios"]

\* mutant: the rows move up and the last one keeps its cells
MovedRows(cells, at) == [n \in Cells |-> IF n < (ROWS - 1) * COLS THEN cells[n + COLS] ELSE cells[n]]
Scrolled(cells, at)  ==
  [n \in Cells |-> IF n < (ROWS - 1) * COLS THEN cells[n + COLS]
                  ELSE IF n \in at .. ROWS * COLS - 1 THEN Blank
                  ELSE cells[n]]

\* mutant: the last row is kept free
LastRow(at)    == at \div COLS >= ROWS - 1
BelowRows(at)  == at \div COLS >= ROWS

\* the test for "pos under/overflow", the scrolling and the cursor's own blank
Show(cells, at) ==
  LET scroll == BelowRows(at)
      there  == IF scroll THEN at - COLS ELSE at
      moved  == IF scroll THEN Scrolled(cells, there) ELSE cells IN
  /\ at \in 0 .. (ROWS + 1) * COLS
  /\ pos' = there
  /\ crt' = [moved EXCEPT ![there] = Blank]

NextLine ==
  LET skip == COLS - (pos % COLS) IN
  /\ Len(text) + skip <= MaxText
  /\ Show(crt, pos + skip)
  /\ text' = text \o [n \in 1 .. skip |-> Blank]

Erase ==
  IF pos > 0 THEN Show(crt, pos - 1) /\ text' = Front(text)
  ELSE Show(crt, pos) /\ UNCHANGED text

Putc ==
  /\ Len(text) < MaxText
  /\ \E c \in Glyph :
       /\ Show([crt EXCEPT ![pos] = c], pos + 1)
       /\ text' = Append(text, c)

ScreenNext == NextLine \/ Erase \/ Putc

ScreenSpec == ScreenInit /\ [][ScreenNext]_screenVars

-----------------------------------------------------------------------------
\* the cursor has scrolled off whole rows, and stays in the rows in use
Off == Len(text) - pos

\* the display is a window on the text: its last rows up to the cursor, in the
\* place where they were written, and nothing from the cursor on
ShowsText ==
  /\ pos < ROWS * COLS /\ Off >= 0 /\ Off % COLS = 0
  /\ \A n \in Cells : crt[n] = IF n < pos THEN text[Off + n + 1] ELSE Blank

\* a row goes off only when the text has reached the row below the last one
ScrollsLate == [][Len(text') - pos' > Off => Len(text') = Off + ROWS * COLS]_screenVars
=============================================================================
