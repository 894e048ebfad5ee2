----------------------------- MODULE FileTable -----------------------------
(***************************************************************************)
(* file.c and the descriptors of sysfile.c: open files that processes      *)
(* share, counted, and what is done when the last descriptor is closed.    *)
(* A step is what runs under ftable.lock, or under the lock of a pipe, or  *)
(* touches only the caller's own descriptors.                              *)
(***************************************************************************)
EXTENDS Integers, FiniteSets, SequencesExt

CONSTANTS
  Proc, FirstProc,   \* FirstProc runs from the start
  File,              \* ftable.file
  NOFILE,            \* descriptors of a process
  Page,              \* the memory pipes are made of
  None

ProcAssumption ==
  /\ FirstProc \in Proc /\ None \notin Proc \cup File \cup Page
  /\ IsFiniteSet(Proc) /\ IsFiniteSet(File)
FDAssumption   == NOFILE \in Nat \ {0}

FD == 0 .. NOFILE - 1

\* what an open file stands for: an end of a pipe or an inode
InodeFile == [page |-> None, end |-> "inode"]
Nothing   == [page |-> None, end |-> "none"]
End(k, e) == [page |-> k, end |-> e]
Object == {InodeFile, Nothing} \cup {End(k, e) : k \in Page, e \in {"r", "w"}}

VARIABLES
  ref, object,     \* struct file: the count, and type, pipe, readable, writable
  ofile,           \* by process and descriptor
  ends,            \* struct pipe: the open ends; {} is a free page
  inodes,          \* references to inodes that open files hold
  pc,              \* by process: what it is doing
  got,             \* by process: the files a call has allocated
  todo,            \* by process: the files it has to close
  last             \* by process: the copy ff that fileclose() made

vars == <<ref, object, ofile, ends, inodes, pc, got, todo, last>>

Points == {"unused", "user", "pipe", "kalloc", "pipefds", "open", "close", "exit"}

TypeOK ==
  /\ ref \in [File -> Nat]
  /\ object \in [File -> Object]
  /\ ofile \in [Proc -> [FD -> File \cup {None}]]
  /\ ends \in [Page -> SUBSET {"r", "w"}]
  /\ inodes \in Nat
  /\ pc \in [Proc -> Points]
  /\ got \in [Proc -> Seq(File)]
  /\ todo \in [Proc -> Seq(File)]
  /\ last \in [Proc -> Object]

Init ==
  /\ ref = [f \in File |-> 0]
  /\ object = [f \in File |-> Nothing]
  /\ ofile = [p \in Proc |-> [d \in FD |-> None]]
  /\ ends = [k \in Page |-> {}]
  /\ inodes = 0
  /\ pc = [p \in Proc |-> IF p = FirstProc THEN "user" ELSE "unused"]
  /\ got = [p \in Proc |-> <<>>]
  /\ todo = [p \in Proc |-> <<>>]
  /\ last = [p \in Proc |-> Nothing]

Go(p, point) == pc' = [pc EXCEPT ![p] = point]

\* the lowest free descriptor; None when there is none
FreeFD(o) ==
  IF \E d \in FD : o[d] = None
  THEN CHOOSE d \in FD : o[d] = None /\ \A c \in FD : o[c] = None => d <= c
  ELSE None

-----------------------------------------------------------------------------
\* filealloc(), one of the free files: the order of the table is left out
FreeFile == {f \in File : ref[f] = 0}

Filealloc(p, next) ==
  IF FreeFile = {}
  THEN /\ todo' = [todo EXCEPT ![p] = got[p]] /\ got' = [got EXCEPT ![p] = <<>>]
       /\ Go(p, "close")
       /\ UNCHANGED ref
  ELSE \E f \in FreeFile :
         /\ ref' = [ref EXCEPT ![f] = 1]
         /\ got' = [got EXCEPT ![p] = Append(@, f)]
         /\ Go(p, next)
         /\ UNCHANGED todo

\* sys_pipe() and pipealloc(): two files ...
SysPipe(p) ==
  /\ pc[p] = "user"
  /\ Filealloc(p, "pipe")
  /\ UNCHANGED <<object, ofile, ends, inodes, last>>

SecondFile(p) ==
  /\ pc[p] = "pipe"
  /\ Filealloc(p, "kalloc")
  /\ UNCHANGED <<object, ofile, ends, inodes, last>>

\* ... a page, or none if memory is short ...
Kalloc(p) ==
  /\ pc[p] = "kalloc"
  /\ \/ \E k \in Page :
          /\ ends[k] = {}
          /\ ends' = [ends EXCEPT ![k] = {"r", "w"}]
          /\ object' = [object EXCEPT ![got[p][1]] = End(k, "r"),
                                      ![got[p][2]] = End(k, "w")]
          /\ Go(p, "pipefds")
          /\ UNCHANGED <<got, todo>>
     \/ /\ todo' = [todo EXCEPT ![p] = got[p]]
        /\ got' = [got EXCEPT ![p] = <<>>]
        /\ Go(p, "close")
        /\ UNCHANGED <<ends, object>>
  /\ UNCHANGED <<ref, ofile, inodes, last>>

\* ... and two descriptors.  mutant: the first one is kept when the second fails
KeepFirst(o, d) == o
DropFirst(o, d) == [o EXCEPT ![d] = None]

PipeDescriptors(p) ==
  /\ pc[p] = "pipefds"
  /\ LET o == ofile[p]
         d == FreeFD(o)
         o1 == IF d = None THEN o ELSE [o EXCEPT ![d] = got[p][1]]
         e == FreeFD(o1) IN
     IF e # None
     THEN /\ ofile' = [ofile EXCEPT ![p] = [o1 EXCEPT ![e] = got[p][2]]]
          /\ Go(p, "user")
          /\ UNCHANGED todo
     ELSE /\ ofile' = [ofile EXCEPT ![p] = IF d = None THEN o ELSE DropFirst(o1, d)]
          /\ todo' = [todo EXCEPT ![p] = got[p]]
          /\ Go(p, "close")
  /\ got' = [got EXCEPT ![p] = <<>>]
  /\ UNCHANGED <<ref, object, ends, inodes, last>>

\* sys_open() has an inode from create() or namei()
SysOpen(p) ==
  /\ pc[p] = "user"
  /\ Filealloc(p, "open")
  /\ UNCHANGED <<object, ofile, ends, inodes, last>>

OpenDescriptor(p) ==
  /\ pc[p] = "open"
  /\ LET d == FreeFD(ofile[p]) IN
     IF d = None
     THEN /\ todo' = [todo EXCEPT ![p] = got[p]]
          /\ Go(p, "close")
          /\ UNCHANGED <<ofile, object, inodes>>
     ELSE /\ ofile' = [ofile EXCEPT ![p][d] = got[p][1]]
          /\ object' = [object EXCEPT ![got[p][1]] = InodeFile]
          /\ inodes' = inodes + 1
          /\ Go(p, "user")
          /\ UNCHANGED todo
  /\ got' = [got EXCEPT ![p] = <<>>]
  /\ UNCHANGED <<ref, ends, last>>

-----------------------------------------------------------------------------
SysDup(p, d) ==
  /\ pc[p] = "user" /\ ofile[p][d] # None
  /\ FreeFD(ofile[p]) # None
  /\ ofile' = [ofile EXCEPT ![p][FreeFD(ofile[p])] = ofile[p][d]]
  /\ ref' = [ref EXCEPT ![ofile[p][d]] = @ + 1]
  /\ UNCHANGED <<object, ends, inodes, pc, got, todo, last>>

Uses(f, p) == Cardinality({d \in FD : ofile[p][d] = f})

\* fork(): filedup() for each descriptor; mutant: once for each file
DupOnce(f, p) == IF Uses(f, p) > 0 THEN 1 ELSE 0
DupEach(f, p) == Uses(f, p)

SysFork(p, c) ==
  /\ pc[p] = "user" /\ pc[c] = "unused"
  /\ ofile' = [ofile EXCEPT ![c] = ofile[p]]
  /\ ref' = [f \in File |-> ref[f] + DupEach(f, p)]
  /\ Go(c, "user")
  /\ UNCHANGED <<object, ends, inodes, got, todo, last>>

SysClose(p, d) ==
  /\ pc[p] = "user" /\ ofile[p][d] # None
  /\ ofile' = [ofile EXCEPT ![p][d] = None]
  /\ todo' = [todo EXCEPT ![p] = <<ofile[p][d]>>]
  /\ Go(p, "close")
  /\ UNCHANGED <<ref, object, ends, inodes, got, last>>

\* exit(): the process closes what it has open, one descriptor after the other; then
\* it may be reaped
Exit(p) ==
  /\ pc[p] = "user" /\ p # FirstProc
  /\ Go(p, "exit")
  /\ UNCHANGED <<ref, object, ofile, ends, inodes, got, todo, last>>

\* no fileclose() is under way
Idle(p) == todo[p] = <<>> /\ last[p] = Nothing

ExitClose(p, d) ==
  /\ pc[p] = "exit" /\ Idle(p)
  /\ ofile[p][d] # None /\ \A c \in FD : ofile[p][c] # None => d <= c
  /\ ofile' = [ofile EXCEPT ![p][d] = None]
  /\ todo' = [todo EXCEPT ![p] = <<ofile[p][d]>>]
  /\ UNCHANGED <<ref, object, ends, inodes, pc, got, last>>

Exited(p) ==
  /\ pc[p] = "exit" /\ Idle(p)
  /\ \A d \in FD : ofile[p][d] = None
  /\ Go(p, "unused")
  /\ UNCHANGED <<ref, object, ofile, ends, inodes, got, todo, last>>

\* mutant: every closer but the first is the last
ManyAreLast(f) == ref[f] <= 2
IsLast(f)      == ref[f] = 1

\* fileclose(): under ftable.lock ...
Fileclose(p) ==
  /\ todo[p] # <<>> /\ last[p] = Nothing
  /\ LET f == Head(todo[p]) IN
     /\ ref' = [ref EXCEPT ![f] = IF IsLast(f) THEN 0 ELSE @ - 1]
     /\ IF IsLast(f)
        THEN /\ last' = [last EXCEPT ![p] = object[f]]
             /\ object' = [object EXCEPT ![f] = Nothing]
        ELSE UNCHANGED <<last, object>>
  /\ todo' = [todo EXCEPT ![p] = Tail(@)]
  /\ UNCHANGED <<ofile, ends, inodes, pc, got>>

\* ... and after it pipeclose() or iput()
Release(p) ==
  LET o == last[p] IN
  /\ o # Nothing
  /\ ends' = IF o = InodeFile THEN ends ELSE [ends EXCEPT ![o.page] = @ \ {o.end}]
  /\ inodes' = IF o = InodeFile THEN inodes - 1 ELSE inodes
  /\ last' = [last EXCEPT ![p] = Nothing]
  /\ UNCHANGED <<ref, object, ofile, pc, got, todo>>

\* the call ends
ClosedAll(p) ==
  /\ pc[p] = "close" /\ Idle(p)
  /\ Go(p, "user")
  /\ UNCHANGED <<ref, object, ofile, ends, inodes, got, todo, last>>

Next ==
  \E p \in Proc :
    \/ SysPipe(p) \/ SecondFile(p) \/ Kalloc(p) \/ PipeDescriptors(p)
    \/ SysOpen(p) \/ OpenDescriptor(p)
    \/ \E d \in FD : SysDup(p, d) \/ SysClose(p, d) \/ ExitClose(p, d)
    \/ \E c \in Proc : SysFork(p, c)
    \/ Exit(p) \/ Exited(p) \/ Fileclose(p) \/ Release(p) \/ ClosedAll(p)

Spec == Init /\ [][Next]_vars

-----------------------------------------------------------------------------
\* where a file can be referred to from: a descriptor of a process, a call that is
\* setting it up, a close that is under way
Place == ({"fd"} \X Proc \X FD) \cup ({"got", "todo"} \X Proc \X {1, 2})

FileAt(r) ==
  IF r[1] = "fd" THEN ofile[r[2]][r[3]] ELSE
  LET s == IF r[1] = "got" THEN got[r[2]] ELSE todo[r[2]] IN
  IF r[3] \in DOMAIN s THEN s[r[3]] ELSE None

\* every reference is counted, and only once
RefsCounted == \A f \in File : ref[f] = Cardinality({r \in Place : FileAt(r) = f})

\* an end of a pipe is open while a file stands for it or its last closer is on
\* the way to pipeclose(): it is closed once, not too early, and not forgotten by
\* the failure paths of pipe(), so that readers see the end of the stream and the
\* page is freed once
EndsOpen ==
  \A k \in Page, e \in {"r", "w"} :
    LET holders == {f \in File : object[f] = End(k, e)}
        closers == {p \in Proc : last[p] = End(k, e)} IN
    /\ e \in ends[k] <=> holders \cup closers # {}
    /\ Cardinality(holders) + Cardinality(closers) <= 1

\* the references open files hold on inodes are given back by iput(), each once
InodesCounted ==
  inodes = Cardinality({f \in File : object[f] = InodeFile})
           + Cardinality({p \in Proc : last[p] = InodeFile})
=============================================================================
