------------------------------- MODULE Shell -------------------------------
(***************************************************************************)
(* sh.c: the shell runs a line in a child, and runcmd() builds a tree of   *)
(* processes for it with fork(), wait(), pipe(), dup() and close().  What  *)
(* it runs are programs like cat, which copy a pipe until its end, or like *)
(* echo, which write a little.  Each may exit early, and so may any        *)
(* process of the shell whose fork() or pipe() fails.                      *)
(***************************************************************************)
EXTENDS Integers, FiniteSets, FiniteSetsExt

CONSTANTS
  Lines,     \* bound: the commands that are typed, as parsecmd() returns them
  NProc,     \* processes besides init and the shell
  NFile,     \* descriptors of a process
  Pipe,      \* pipes
  Capacity,  \* items a pipe holds
  Output     \* bound: items that a program without input writes

ShellAssumption ==
  /\ NProc \in Nat \ {0} /\ NFile \in 3 .. 16
  /\ Capacity \in Nat \ {0} /\ Output \in Nat
  /\ IsFiniteSet(Pipe)

Processes == 1 .. NProc
Init1 == 0      \* the process init
Sh == -1        \* the shell

Cmd(t, l, r) == [type |-> t, left |-> l, right |-> r]
NoCmd == [type |-> "none"]
Closed == [type |-> "closed"]
File == [type |-> "file"]
End(k, s) == [type |-> s, pipe |-> k]

VARIABLES
  shell,   \* "prompt", "wait" or "dead"
  pc, cmd, parent,
  fd,      \* by process: its descriptors
  pair,    \* by process: p[0] and p[1]
  more,    \* by process: what the program has still to write
  items,   \* by pipe: what it holds
  adrift   \* history: in the background, or left behind by a process that gave up

vars == <<shell, pc, cmd, parent, fd, pair, more, items, adrift>>

NoFiles == [n \in 0 .. NFile - 1 |-> Closed]
Console == [NoFiles EXCEPT ![0] = File, ![1] = File, ![2] = File]

Init ==
  /\ shell = "prompt"
  /\ pc = [p \in Processes |-> "free"] /\ cmd = [p \in Processes |-> NoCmd]
  /\ parent = [p \in Processes |-> Init1]
  /\ fd = [p \in Processes |-> NoFiles] /\ pair = [p \in Processes |-> <<0, 0>>]
  /\ more = [p \in Processes |-> 0]
  /\ items = [k \in Pipe |-> 0]
  /\ adrift = {}

Live     == {p \in Processes : pc[p] \notin {"free", "zombie"}}
Kids(p)  == {q \in Processes : pc[q] # "free" /\ parent[q] = p}
Dead(p)  == {q \in Kids(p) : pc[q] = "zombie"}
Writers(k) == {p \in Live : End(k, "write") \in {fd[p][n] : n \in 0 .. NFile - 1}}
Readers(k) == {p \in Live : End(k, "read") \in {fd[p][n] : n \in 0 .. NFile - 1}}
LowestFree(f) == Min({n \in DOMAIN f : f[n] = Closed})
FreeProcs == {p \in Processes : pc[p] = "free"}

-----------------------------------------------------------------------------
\* fork() of a child that goes on with command c at label l, the parent at label next
Fork(p, c, f, l, next, lost) ==
  LET q == Min(FreeProcs) IN
  /\ FreeProcs # {}
  /\ pc' = [n \in Processes |-> IF n = q THEN l ELSE IF n = p THEN next ELSE pc[n]]
  /\ cmd' = [cmd EXCEPT ![q] = c]
  /\ parent' = [parent EXCEPT ![q] = p]
  /\ fd' = [fd EXCEPT ![q] = f]
  /\ pair' = [pair EXCEPT ![q] = pair[p]]
  /\ adrift' = IF lost \/ p \in adrift THEN adrift \cup {q} ELSE adrift \ {q}
  /\ UNCHANGED <<shell, more, items>>

\* exit(): the children pass to init, which waits for them
Exit(p) ==
  /\ pc' = [q \in Processes |->
       CASE q = p -> IF parent[p] = Init1 THEN "free" ELSE "zombie"
         [] q \in Dead(p) -> "free"
         [] OTHER -> pc[q]]
  /\ parent' = [q \in Processes |-> IF q \in Kids(p) \/ (q = p /\ parent[p] = Init1)
                              THEN Init1 ELSE parent[q]]
  /\ fd' = [fd EXCEPT ![p] = NoFiles]
  /\ cmd' = [cmd EXCEPT ![p] = NoCmd] /\ more' = [more EXCEPT ![p] = 0]
  /\ pair' = [pair EXCEPT ![p] = <<0, 0>>]
  /\ items' = [k \in Pipe |-> IF (Writers(k) \cup Readers(k)) \ {p} = {} THEN 0 ELSE items[k]]
  /\ UNCHANGED shell

\* the shell's panic() when fork() or pipe() fails
Panic(p) == Exit(p) /\ adrift' = adrift \cup Kids(p)

Wait(p, from, next) ==
  \E q \in Dead(p) :
    /\ pc[p] = from
    /\ pc' = [pc EXCEPT ![q] = "free", ![p] = next]
    /\ parent' = [parent EXCEPT ![q] = Init1]
    /\ adrift' = adrift \ {q}

-----------------------------------------------------------------------------
(* main() of the shell, and of init when the shell has exited *)

ReadLine ==
  /\ shell = "prompt"
  /\ \E c \in Lines :
       \/ /\ FreeProcs # {}
          /\ LET q == Min(FreeProcs) IN
             /\ pc' = [pc EXCEPT ![q] = "run"] /\ cmd' = [cmd EXCEPT ![q] = c]
             /\ parent' = [parent EXCEPT ![q] = Sh] /\ fd' = [fd EXCEPT ![q] = Console]
             /\ adrift' = adrift \ {q}
          /\ shell' = "wait"
       \/ /\ FreeProcs = {}
          /\ shell' = "dead" /\ UNCHANGED <<pc, cmd, parent, fd, adrift>>
  /\ UNCHANGED <<pair, more, items>>

LineDone ==
  /\ shell = "wait" /\ \E q \in Dead(Sh) :
       /\ pc' = [pc EXCEPT ![q] = "free"]
       /\ parent' = [parent EXCEPT ![q] = Init1]
       /\ adrift' = adrift \ {q}
  /\ shell' = "prompt"
  /\ UNCHANGED <<cmd, fd, pair, more, items>>

Restart ==
  /\ shell = "dead" /\ shell' = "prompt"
  /\ UNCHANGED <<pc, cmd, parent, fd, pair, more, items, adrift>>

-----------------------------------------------------------------------------
(* runcmd() *)

Is(p, l, t) == pc[p] = l /\ cmd[p].type = t

\* EXEC: from here on the program runs
Exec(p) ==
  /\ Is(p, "run", "EXEC")
  /\ \/ /\ pc' = [pc EXCEPT ![p] = "program"]
        /\ more' = [more EXCEPT ![p] = IF fd[p][0].type = "read" THEN 0 ELSE Output]
        /\ UNCHANGED <<shell, cmd, parent, fd, pair, items, adrift>>
     \/ Exit(p) /\ UNCHANGED adrift

\* REDIR: close(), and open() into the lowest free descriptor
Redirect(p) ==
  /\ Is(p, "run", "REDIR")
  /\ LET f == [fd[p] EXCEPT ![cmd[p].right] = Closed] IN
     \/ /\ fd' = [fd EXCEPT ![p] = [f EXCEPT ![LowestFree(f)] = File]]
        /\ cmd' = [cmd EXCEPT ![p] = cmd[p].left]
        /\ items' = [k \in Pipe |->
             IF fd[p][cmd[p].right] \in {End(k, "read"), End(k, "write")}
                /\ (Writers(k) \cup Readers(k)) \ {p} = {} THEN 0 ELSE items[k]]
        /\ UNCHANGED <<shell, pc, parent, pair, more, adrift>>
     \/ Exit(p) /\ UNCHANGED adrift

ForkFails(p) == FreeProcs = {} /\ Panic(p)

List(p) ==
  /\ Is(p, "run", "LIST")
  /\ Fork(p, cmd[p].left, fd[p], "run", "list", FALSE) \/ ForkFails(p)

ListWait(p) ==
  /\ Wait(p, "list", "run")
  /\ cmd' = [cmd EXCEPT ![p] = cmd[p].right]
  /\ UNCHANGED <<shell, fd, pair, more, items>>

Back(p) ==
  /\ Is(p, "run", "BACK")
  /\ Fork(p, cmd[p].left, fd[p], "run", "done", TRUE) \/ ForkFails(p)

MakePipe(p) ==
  /\ Is(p, "run", "PIPE")
  /\ LET free == {n \in 0 .. NFile - 1 : fd[p][n] = Closed}
         p0 == Min(free)
         p1 == Min(free \ {p0})
         unused == {k \in Pipe : Writers(k) \cup Readers(k) = {}} IN
     \/ /\ Cardinality(free) >= 2 /\ unused # {}
        /\ LET k == CHOOSE k \in unused : TRUE IN
           fd' = [fd EXCEPT ![p][p0] = End(k, "read"), ![p][p1] = End(k, "write")]
        /\ pair' = [pair EXCEPT ![p] = <<p0, p1>>]
        /\ pc' = [pc EXCEPT ![p] = "left"]
        /\ UNCHANGED <<shell, cmd, parent, more, items, adrift>>
     \/ (Cardinality(free) < 2 \/ unused = {}) /\ Panic(p)

\* mutant: an end that the child does not use stays open
KeepsRead(f, p0, p1) == [f EXCEPT ![p1] = Closed]
\* mutant: the parent keeps the writing end
ClosesRead(f, p0, p1) == [f EXCEPT ![p0] = Closed]
CloseBoth(f, p0, p1) == [f EXCEPT ![p0] = Closed, ![p1] = Closed]

\* what the child does before its runcmd(): close(n), dup(p[n]), close(p[0]), close(p[1])
Redup(f, n, p0, p1) ==
  LET g == [f EXCEPT ![n] = Closed]
      h == [g EXCEPT ![LowestFree(g)] = IF n = 1 THEN g[p1] ELSE g[p0]] IN
  CloseBoth(h, p0, p1)

ForkLeft(p) ==
  /\ Is(p, "left", "PIPE")
  /\ Fork(p, cmd[p].left, fd[p], "stdout", "right", FALSE) \/ ForkFails(p)

ForkRight(p) ==
  /\ Is(p, "right", "PIPE")
  /\ Fork(p, cmd[p].right, fd[p], "stdin", "close", FALSE) \/ ForkFails(p)

Connect(p) ==
  /\ pc[p] \in {"stdin", "stdout"}
  /\ fd' = [fd EXCEPT ![p] =
       Redup(@, IF pc[p] = "stdout" THEN 1 ELSE 0, pair[p][1], pair[p][2])]
  /\ pc' = [pc EXCEPT ![p] = "run"]
  /\ UNCHANGED <<shell, cmd, parent, pair, more, items, adrift>>

ParentEnds(f, p0, p1) == CloseBoth(f, p0, p1)

Disconnect(p) ==
  /\ pc[p] = "close"
  /\ fd' = [fd EXCEPT ![p] = ParentEnds(@, pair[p][1], pair[p][2])]
  /\ pc' = [pc EXCEPT ![p] = "wait2"]
  /\ UNCHANGED <<shell, cmd, parent, pair, more, items, adrift>>

\* mutant: one wait() for the two children
OneWait   == "done"
NextWait  == "wait1"

PipeWait(p) ==
  /\ Wait(p, "wait2", NextWait) \/ Wait(p, "wait1", "done")
  /\ UNCHANGED <<shell, cmd, fd, pair, more, items>>

Done(p) == pc[p] = "done" /\ Exit(p) /\ UNCHANGED adrift

-----------------------------------------------------------------------------
(* programs *)

\* mutant: an item too many
RoomAlmost(k) == items[k] <= Capacity
HasRoom(k)    == items[k] < Capacity

Write(p) ==
  /\ pc[p] = "program" /\ more[p] > 0
  /\ \/ /\ fd[p][1].type # "write"
        /\ more' = [more EXCEPT ![p] = @ - 1] /\ UNCHANGED items
     \/ /\ fd[p][1].type = "write" /\ Readers(fd[p][1].pipe) # {}
        /\ HasRoom(fd[p][1].pipe)
        /\ items' = [items EXCEPT ![fd[p][1].pipe] = @ + 1]
        /\ more' = [more EXCEPT ![p] = @ - 1]
  /\ UNCHANGED <<shell, pc, cmd, parent, fd, pair, adrift>>

Read(p) ==
  /\ pc[p] = "program" /\ more[p] = 0
  /\ fd[p][0].type = "read" /\ items[fd[p][0].pipe] > 0
  /\ items' = [items EXCEPT ![fd[p][0].pipe] = @ - 1]
  /\ more' = [more EXCEPT ![p] = 1]
  /\ UNCHANGED <<shell, pc, cmd, parent, fd, pair, adrift>>

\* nothing more to read, or nobody left to write to
Ended(p) ==
  /\ pc[p] = "program"
  /\ IF more[p] > 0
     THEN fd[p][1].type = "write" /\ Readers(fd[p][1].pipe) = {}
     ELSE fd[p][0].type = "read" =>
            items[fd[p][0].pipe] = 0 /\ Writers(fd[p][0].pipe) = {}
  /\ Exit(p) /\ UNCHANGED adrift

Quit(p) == pc[p] = "program" /\ Exit(p) /\ UNCHANGED adrift

-----------------------------------------------------------------------------
Runs(p) ==
  \/ Exec(p) \/ Redirect(p) \/ List(p) \/ ListWait(p) \/ Back(p)
  \/ MakePipe(p) \/ ForkLeft(p) \/ ForkRight(p) \/ Connect(p) \/ Disconnect(p)
  \/ PipeWait(p) \/ Done(p)
  \/ Write(p) \/ Read(p) \/ Ended(p)

Next == ReadLine \/ LineDone \/ Restart \/ \E p \in Processes : Runs(p) \/ Quit(p)

Spec == Init /\ [][Next]_vars

\* The kernel runs each process; a line need not be typed, and a program that can
\* still read or write need not quit.
FairSpec == Spec /\ WF_vars(LineDone) /\ WF_vars(Restart) /\ \A p \in Processes : WF_vars(Runs(p))

-----------------------------------------------------------------------------
TypeOK ==
  /\ shell \in {"prompt", "wait", "dead"}
  /\ pc \in [Processes -> {"free", "zombie", "run", "program", "list", "left", "right", "stdin",
                      "stdout", "close", "wait2", "wait1", "done"}]
  /\ parent \in [Processes -> Processes \cup {Init1, Sh}]
  /\ \A p \in Processes, n \in 0 .. NFile - 1 :
       fd[p][n] \in {Closed, File} \cup {End(k, s) : k \in Pipe, s \in {"read", "write"}}
  /\ more \in [Processes -> 0 .. Output + 1] /\ items \in [Pipe -> 0 .. Capacity]
  /\ adrift \subseteq Processes

\* a program starts with its input, its output and its errors, and with no end of a
\* pipe of the shell besides: nobody else's end of file depends on it
OnlyStandard ==
  \A p \in Processes : pc[p] = "program" =>
    /\ \A n \in 0 .. 2 : fd[p][n] # Closed
    /\ \A n \in 3 .. NFile - 1 : fd[p][n] = Closed

\* the shell prompts when the line is over: what runs then is in the background, or
\* was left behind by a process of the shell whose fork() failed
Strays[n \in 0 .. NProc] ==
  IF n = 0 THEN adrift ELSE Strays[n - 1] \cup {p \in Processes : parent[p] \in Strays[n - 1]}

LineIsOver == shell = "prompt" => Live \subseteq Strays[NProc]

\* the shell prompts again, and what is in the background ends too: each program at the
\* end of a pipe is told that the others are gone
PromptReturns == shell = "wait" ~> shell = "prompt"
BackgroundEnds == \A p \in Processes : pc[p] # "free" ~> pc[p] = "free"
=============================================================================
