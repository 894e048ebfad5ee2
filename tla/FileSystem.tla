----------------------------- MODULE FileSystem -----------------------------
(***************************************************************************)
(* Path names, directories and link counts: namex() and dirlink() of fs.c  *)
(* and the calls of sysfile.c that change directories.  A step goes from   *)
(* the acquisition of an inode's lock to its release, or to the next inode *)
(* the process must lock while it holds the first.                         *)
(***************************************************************************)
EXTENDS Integers, FiniteSets, Sequences

CONSTANTS
  Proc, Inum, Root,
  Name,           \* file names
  Element,        \* path elements programs use: names, ".", ".."
  PathLen,        \* bound: elements of a path
  None

InumAssumption ==
  /\ Root \in Inum /\ None \notin Proc \cup Inum
  /\ IsFiniteSet(Proc) /\ IsFiniteSet(Inum)
NameAssumption ==
  /\ IsFiniteSet(Name) /\ Name \cap {".", ".."} = {}
  /\ Element \subseteq Name \cup {".", ".."} /\ PathLen \in Nat \ {0}

VARIABLES
  type, nlink, entry,    \* of an inode; entry: of a directory, by name
  ref, lock,             \* of its in-memory copy
  proc                   \* by process: the locals of the call it is in

vars == <<type, nlink, entry, ref, lock, proc>>

Calls == {"open", "create", "mkdir", "link", "unlink", "chdir"}

PathsOf(elements, len) == UNION {[1 .. n -> elements] : n \in 0 .. len}
Paths == PathsOf(Element, PathLen)
Slots == Name \cup {".", ".."}
Empty == [n \in Slots |-> None]

\* call; pc; path: what is left of the path; ip: the inode namex() has come to;
\* child: an inode found in it; new, old: of link(); puts: the inodes whose iput()
\* comes before anything else; drop: the first of these has its ref-- left
Locals == [call : Calls \cup {"none"},
           pc : {"user", "walk", "got", "parent", "unlink", "unlinkbad", "unlinked",
                 "exists", "created", "linkbad", "unlinknew"},
           path : Paths, new : Paths,
           ip : Inum \cup {None}, child : Inum \cup {None}, old : Inum \cup {None},
           puts : Seq(Inum), drop : BOOLEAN,
           cwd : Inum, file : Inum \cup {None}]

TypeOK ==
  /\ type \in [Inum -> {"free", "file", "dir"}]
  /\ nlink \in [Inum -> Nat]
  /\ entry \in [Inum -> [Slots -> Inum \cup {None}]]
  /\ ref \in [Inum -> Nat]
  /\ lock \in [Inum -> Proc \cup {None}]
  /\ proc \in [Proc -> Locals]

\* what mkfs has written: an empty root directory
Init ==
  /\ type = [i \in Inum |-> IF i = Root THEN "dir" ELSE "free"]
  /\ nlink = [i \in Inum |-> IF i = Root THEN 1 ELSE 0]
  /\ entry = [i \in Inum |-> IF i = Root THEN [Empty EXCEPT !["."] = i, ![".."] = i]
                             ELSE Empty]
  /\ ref = [i \in Inum |-> IF i = Root THEN Cardinality(Proc) ELSE 0]
  /\ lock = [i \in Inum |-> None]
  /\ proc = [p \in Proc |->
       [call |-> "none", pc |-> "user", path |-> <<>>, new |-> <<>>, ip |-> None,
        child |-> None, old |-> None, puts |-> <<>>, drop |-> FALSE,
        cwd |-> Root, file |-> None]]

-----------------------------------------------------------------------------
\* the step of p at pc, with no iput() before it
At(p, pc) == proc[p].pc = pc /\ proc[p].puts = <<>>

Unlocked(i) == lock[i] = None

\* p goes on at pc, after the iput() of the inodes puts
Continue(p, pc, puts) == [proc[p] EXCEPT !.pc = pc, !.puts = puts]

\* the call returns
Return(p, puts) ==
  [proc[p] EXCEPT !.pc = "user", !.call = "none", !.path = <<>>, !.new = <<>>,
                  !.ip = None, !.child = None, !.old = None, !.puts = puts]

Become(p, r) == proc' = [proc EXCEPT ![p] = r]

\* iget() or idup() of the directory where a path starts: an absolute one at the root
StartWalk(p, r, path) ==
  \E start \in {Root, proc[p].cwd} :
    /\ Become(p, [r EXCEPT !.pc = "walk", !.path = path, !.ip = start])
    /\ ref' = [ref EXCEPT ![start] = @ + 1]

SystemCall(p, call, path, new) ==
  /\ At(p, "user")
  /\ call \in {"open", "create"} => proc[p].file = None
  /\ call # "link" => new = <<>>
  /\ StartWalk(p, [proc[p] EXCEPT !.call = call, !.new = new], path)
  /\ UNCHANGED <<type, nlink, entry, lock>>

Close(p) ==
  /\ At(p, "user") /\ proc[p].file # None
  /\ Become(p, [Return(p, <<proc[p].file>>) EXCEPT !.file = None])
  /\ UNCHANGED <<type, nlink, entry, ref, lock>>

\* the path of the caller is to end at the parent of its last element
Parent(p) == proc[p].call \in {"unlink", "create", "mkdir"} \/ proc[p].old # None

\* namex() fails: link() has to take back its nlink++
Fail(p, puts) ==
  IF proc[p].old # None THEN Continue(p, "unlinknew", puts) ELSE Return(p, puts)

\* namex(): one round of its loop; ilock() panics where type is "free"
Walk(p) ==
  LET i == proc[p].ip
      path == proc[p].path
      next == entry[i][Head(path)] IN
  /\ At(p, "walk") /\ path # <<>>
  /\ Unlocked(i) /\ type[i] # "free"
  /\ IF type[i] # "dir"
     THEN Become(p, Fail(p, <<i>>)) /\ UNCHANGED ref
     ELSE IF Parent(p) /\ Len(path) = 1
     THEN Become(p, Continue(p, "parent", <<>>)) /\ UNCHANGED ref
     ELSE IF next = None
     THEN Become(p, Fail(p, <<i>>)) /\ UNCHANGED ref
     ELSE /\ ref' = [ref EXCEPT ![next] = @ + 1]
          /\ Become(p, [Continue(p, IF Len(path) = 1 THEN "got" ELSE "walk", <<i>>)
                          EXCEPT !.ip = next, !.path = Tail(path)])
  /\ UNCHANGED <<type, nlink, entry, lock>>

\* ... of "" or "/", which have an inode and no parent
WalkEmpty(p) ==
  /\ At(p, "walk") /\ proc[p].path = <<>>
  /\ Become(p, IF Parent(p) THEN Fail(p, <<proc[p].ip>>) ELSE Continue(p, "got", <<>>))
  /\ UNCHANGED <<type, nlink, entry, ref, lock>>

-----------------------------------------------------------------------------
(* iput(): with the lock, free the inode if it has no links and this is its    *)
(* last reference; then, without it, ref--                                     *)

LastUse(i) == nlink[i] = 0 /\ ref[i] = 1

Iput(p) ==
  LET i == Head(proc[p].puts) IN
  /\ proc[p].puts # <<>> /\ ~ proc[p].drop
  /\ Unlocked(i)
  /\ IF LastUse(i)
     THEN /\ type' = [type EXCEPT ![i] = "free"]
          /\ entry' = [entry EXCEPT ![i] = Empty]
     ELSE UNCHANGED <<type, entry>>
  /\ Become(p, [proc[p] EXCEPT !.drop = TRUE])
  /\ UNCHANGED <<nlink, ref, lock>>

IputDrop(p) ==
  /\ proc[p].drop
  /\ ref' = [ref EXCEPT ![Head(proc[p].puts)] = @ - 1]
  /\ Become(p, [proc[p] EXCEPT !.drop = FALSE, !.puts = Tail(@)])
  /\ UNCHANGED <<type, nlink, entry, lock>>

-----------------------------------------------------------------------------
(* open() without O_CREATE, chdir() and link(), with the inode of the path *)

\* mutants: link() of a directory; a link that is counted twice or not at all
AnyInode(i)    == TRUE
Linkable(i)    == type[i] # "dir"
NotCounted(n)  == n
CountedTwice(n) == n + 2
Counted(n)     == n + 1

Got(p) ==
  LET i == proc[p].ip IN
  /\ At(p, "got") /\ Unlocked(i) /\ type[i] # "free"
  /\ \/ /\ proc[p].call = "open"
        /\ \/ Become(p, [Return(p, <<>>) EXCEPT !.file = i])
           \/ type[i] = "dir" /\ Become(p, Return(p, <<i>>))     \* not O_RDONLY
        /\ UNCHANGED <<nlink, ref>>
     \/ /\ proc[p].call = "chdir"
        /\ IF type[i] = "dir"
           THEN Become(p, [Return(p, <<proc[p].cwd>>) EXCEPT !.cwd = i])
           ELSE Become(p, Return(p, <<i>>))
        /\ UNCHANGED <<nlink, ref>>
     \/ /\ proc[p].call = "link" /\ ~ Linkable(i)
        /\ Become(p, Return(p, <<i>>))
        /\ UNCHANGED <<nlink, ref>>
     \/ /\ proc[p].call = "link" /\ Linkable(i)
        /\ nlink' = [nlink EXCEPT ![i] = Counted(@)]
        /\ StartWalk(p, [proc[p] EXCEPT !.old = i, !.new = <<>>], proc[p].new)
  /\ UNCHANGED <<type, entry, lock>>

\* link(): dirlink() in the parent of the new name.  If the name exists, dirlink()
\* gives up its inode with the lock of the directory held.
Link(p) ==
  LET dp == proc[p].ip
      name == Head(proc[p].path)
      c == entry[dp][name] IN
  /\ At(p, "parent") /\ proc[p].old # None
  /\ Unlocked(dp) /\ type[dp] # "free"
  /\ IF c = None
     THEN /\ entry' = [entry EXCEPT ![dp][name] = proc[p].old]
          /\ Become(p, Return(p, <<dp, proc[p].old>>))
          /\ UNCHANGED <<ref, lock>>
     ELSE /\ lock' = [lock EXCEPT ![dp] = p]
          /\ ref' = [ref EXCEPT ![c] = @ + 1]
          /\ Become(p, Continue(p, "linkbad", <<c>>))
          /\ UNCHANGED entry
  /\ UNCHANGED <<type, nlink>>

LinkBad(p) ==
  /\ At(p, "linkbad")
  /\ lock' = [lock EXCEPT ![proc[p].ip] = None]
  /\ Become(p, Continue(p, "unlinknew", <<proc[p].ip>>))
  /\ UNCHANGED <<type, nlink, entry, ref>>

UnlinkNew(p) ==
  /\ At(p, "unlinknew") /\ Unlocked(proc[p].old)
  /\ nlink' = [nlink EXCEPT ![proc[p].old] = @ - 1]
  /\ Become(p, Return(p, <<proc[p].old>>))
  /\ UNCHANGED <<type, entry, ref, lock>>

-----------------------------------------------------------------------------
(* unlink(): the lock of the directory, then that of the inode *)
Unlink(p) ==
  LET dp == proc[p].ip
      name == Head(proc[p].path)
      c == entry[dp][name] IN
  /\ At(p, "parent") /\ proc[p].call = "unlink"
  /\ Unlocked(dp) /\ type[dp] # "free"
  /\ IF name \in {".", ".."} \/ c = None
     THEN Become(p, Return(p, <<dp>>)) /\ UNCHANGED <<ref, lock>>
     ELSE /\ lock' = [lock EXCEPT ![dp] = p]
          /\ ref' = [ref EXCEPT ![c] = @ + 1]
          /\ Become(p, [Continue(p, "unlink", <<>>) EXCEPT !.child = c])
  /\ UNCHANGED <<type, nlink, entry>>

\* isdirempty(); mutant: every directory is
AlwaysEmpty(i) == TRUE
IsDirEmpty(i)  == \A n \in Name : entry[i][n] = None

\* unlink() panics where the inode has no link left
UnlinkEntry(p) ==
  LET dp == proc[p].ip
      c == proc[p].child IN
  /\ At(p, "unlink") /\ Unlocked(c) /\ type[c] # "free" /\ nlink[c] > 0
  /\ IF type[c] = "dir" /\ ~ IsDirEmpty(c)
     THEN /\ Become(p, Continue(p, "unlinkbad", <<c>>))
          /\ UNCHANGED <<nlink, entry, lock>>
     ELSE /\ entry' = [entry EXCEPT ![dp][Head(proc[p].path)] = None]
          /\ nlink' = IF type[c] = "dir" THEN [nlink EXCEPT ![dp] = @ - 1] ELSE nlink
          /\ lock' = [lock EXCEPT ![dp] = None, ![c] = p]
          /\ Become(p, Continue(p, "unlinked", <<dp>>))
  /\ UNCHANGED <<type, ref>>

UnlinkBad(p) ==
  /\ At(p, "unlinkbad")
  /\ lock' = [lock EXCEPT ![proc[p].ip] = None]
  /\ Become(p, Return(p, <<proc[p].ip>>))
  /\ UNCHANGED <<type, nlink, entry, ref>>

UnlinkInode(p) ==
  LET c == proc[p].child IN
  /\ At(p, "unlinked")
  /\ nlink' = [nlink EXCEPT ![c] = @ - 1]
  /\ lock' = [lock EXCEPT ![c] = None]
  /\ Become(p, Return(p, <<c>>))
  /\ UNCHANGED <<type, entry, ref>>

-----------------------------------------------------------------------------
(* create(), for open() with O_CREATE and for mkdir() *)

\* the name exists: the directory is given up before the inode is locked
CreateExisting(p) ==
  LET dp == proc[p].ip
      c == entry[dp][Head(proc[p].path)] IN
  /\ At(p, "parent") /\ proc[p].call \in {"create", "mkdir"}
  /\ Unlocked(dp) /\ type[dp] # "free"
  /\ c # None
  /\ ref' = [ref EXCEPT ![c] = @ + 1]
  /\ Become(p, [Continue(p, "exists", <<dp>>) EXCEPT !.child = c])
  /\ UNCHANGED <<type, nlink, entry, lock>>

Exists(p) ==
  LET c == proc[p].child IN
  /\ At(p, "exists") /\ Unlocked(c) /\ type[c] # "free"
  /\ IF proc[p].call = "create" /\ type[c] = "file"
     THEN Become(p, [Return(p, <<>>) EXCEPT !.file = c])
     ELSE Become(p, Return(p, <<c>>))
  /\ UNCHANGED <<type, nlink, entry, ref, lock>>

\* mutant: the ".." of a new directory is not counted
UncountedParent(dp, kind) == 0
ParentLink(dp, kind)      == IF kind = "dir" THEN 1 ELSE 0

\* ialloc() panics when there is none
CreateNew(p, c) ==
  LET dp == proc[p].ip
      kind == IF proc[p].call = "mkdir" THEN "dir" ELSE "file" IN
  /\ At(p, "parent") /\ proc[p].call \in {"create", "mkdir"}
  /\ Unlocked(dp) /\ type[dp] # "free"
  /\ entry[dp][Head(proc[p].path)] = None
  /\ type[c] = "free" /\ Unlocked(c)
  /\ type' = [type EXCEPT ![c] = kind]
  /\ nlink' = [nlink EXCEPT ![c] = 1, ![dp] = @ + ParentLink(dp, kind)]
  /\ entry' = [entry EXCEPT
       ![dp][Head(proc[p].path)] = c,
       ![c] = IF kind = "dir" THEN [Empty EXCEPT !["."] = c, ![".."] = dp] ELSE Empty]
  /\ ref' = [ref EXCEPT ![c] = @ + 1]
  /\ lock' = [lock EXCEPT ![c] = p]
  /\ Become(p, [Continue(p, "created", <<dp>>) EXCEPT !.child = c])

Created(p) ==
  LET c == proc[p].child IN
  /\ At(p, "created")
  /\ lock' = [lock EXCEPT ![c] = None]
  /\ IF proc[p].call = "create"
     THEN Become(p, [Return(p, <<>>) EXCEPT !.file = c])
     ELSE Become(p, Return(p, <<c>>))
  /\ UNCHANGED <<type, nlink, entry, ref>>

-----------------------------------------------------------------------------
InCall(p) ==
  \/ Walk(p) \/ WalkEmpty(p) \/ Iput(p) \/ IputDrop(p) \/ Got(p)
  \/ Link(p) \/ LinkBad(p) \/ UnlinkNew(p)
  \/ Unlink(p) \/ UnlinkEntry(p) \/ UnlinkBad(p) \/ UnlinkInode(p)
  \/ CreateExisting(p) \/ Exists(p) \/ Created(p)
  \/ \E c \in Inum : CreateNew(p, c)

\* calls, paths: bounds, what programs ask for
Step(p, calls, paths) ==
  \/ \E call \in calls, path, new \in paths : SystemCall(p, call, path, new)
  \/ Close(p)
  \/ InCall(p)

Next(calls, paths) == \E p \in Proc : Step(p, calls, paths)

\* bound: one process at a time, the others with nothing open
NextAlone(calls, paths) ==
  \E p \in Proc :
    /\ \A q \in Proc \ {p} : At(q, "user") /\ proc[q].file = None
    /\ Step(p, calls, paths)

Spec == Init /\ [][Next(Calls, Paths)]_vars

-----------------------------------------------------------------------------
\* the directory entries, the "." and ".." left out, that name an inode
Links(i) == {e \in Inum \X Name : entry[e[1]][e[2]] = i}
Subdirs(i) == {n \in Name : entry[i][n] # None /\ type[entry[i][n]] = "dir"}

\* where p has references to inodes: ip and child while its call uses them, and those
\* it is to give back
Place == {"cwd", "file", "old", "ip", "child", "put", "next"}
Held(p) ==
  LET r == proc[p] IN
  [cwd |-> r.cwd, file |-> r.file, old |-> r.old,
   ip |-> IF r.pc \in {"walk", "got", "parent", "linkbad", "unlink", "unlinkbad"}
          THEN r.ip ELSE None,
   child |-> IF r.pc \in {"unlink", "unlinked", "exists", "created"} THEN r.child ELSE None,
   put |-> IF Len(r.puts) > 0 THEN r.puts[1] ELSE None,
   next |-> IF Len(r.puts) > 1 THEN r.puts[2] ELSE None]

\* the reference count of an inode is the number of references that the calls under way,
\* the open files and the current directories have: each is taken and given back once
RefsCounted ==
  \A i \in Inum : ref[i] = Cardinality({h \in Proc \X Place : Held(h[1])[h[2]] = i})

\* no entry and no process is left with an inode that has been freed
NamedIsUsed ==
  \A i \in Inum : Links(i) # {} => type[i] # "free"

\* the link count never falls below the entries that name the inode, so that none
\* of them is left dangling, whatever link(), unlink() and their failures cross
LinksCovered == \A i \in Inum : Cardinality(Links(i)) <= nlink[i]

\* unlink() finds a link in the inode that it takes out of its directory
UnlinkFindsLink == \A p \in Proc : At(p, "unlink") => nlink[proc[p].child] > 0

\* the directories are a tree: one entry names a directory, and ".." leads back
\* to the directory of that entry
DirectoryTree ==
  \A i \in Inum : type[i] = "dir" =>
    /\ Cardinality(Links(i)) <= 1
    /\ \A e \in Links(i) : entry[i][".."] = e[1]
    /\ i = Root => Links(i) = {}

\* a directory that can be named counts its own name and the ".." of each of its
\* subdirectories, with calls of other processes half done
DirLinksCounted ==
  \A i \in Inum : type[i] = "dir" /\ (i = Root \/ Links(i) # {}) =>
    nlink[i] = 1 + Cardinality(Subdirs(i))

-----------------------------------------------------------------------------
\* the inode that p must lock for its next step
Wants(p) ==
  CASE proc[p].puts # <<>> /\ ~ proc[p].drop -> Head(proc[p].puts)
    [] At(p, "walk") /\ proc[p].path # <<>> -> proc[p].ip
    [] At(p, "got") \/ At(p, "parent") -> proc[p].ip
    [] At(p, "unlink") \/ At(p, "exists") -> proc[p].child
    [] At(p, "unlinknew") -> proc[p].old
    [] OTHER -> None

WaitsFor(p, q) == Wants(p) # None /\ lock[Wants(p)] = q

\* fs.c says that the separation of iget() and ilock() helps avoid deadlock: no two
\* processes wait for each other, and none for itself
NoDeadlock == \A p, q \in Proc : ~ (WaitsFor(p, q) /\ WaitsFor(q, p))
NoSelfDeadlock == \A p \in Proc : ~ WaitsFor(p, p)

\* ilock() asserts that the inode it reads has a type
IlockFindsType ==
  \A p \in Proc : Wants(p) # None /\ proc[p].puts = <<>> => type[Wants(p)] # "free"

\* fs.h says of nlink that it is the number of links to the inode: while no call
\* is under way, each inode with a link count is named by that many entries (a
\* directory also by the ".." of its subdirectories, the root by none)
LinksExact ==
  (\A p \in Proc : At(p, "user")) =>
    \A i \in Inum \ {Root} : type[i] # "free" =>
      nlink[i] = Cardinality(Links(i)) + Cardinality(Subdirs(i))
=============================================================================
