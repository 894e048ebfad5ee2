----------------------------- MODULE InodeCache -----------------------------
(***************************************************************************)
(* fs.c: the in-memory inodes.  Directory entries are only counted, by the *)
(* inode they name; a process holds at most one reference.  A step is what *)
(* runs under icache.lock, or under the lock of an inode or of a block.    *)
(***************************************************************************)
EXTENDS Integers, FiniteSets, Functions

CONSTANTS
  Proc, Inum, Slot,     \* Slot: icache.inode
  None,
  MaxLinks              \* bound: directory entries of an inode

NoneAssumption  == None \notin Proc \cup Inum \cup Slot
LinksAssumption == MaxLinks \in Nat \ {0}

VARIABLES
  dinode,                        \* on disk: used (type # 0), nlink
  entries,                       \* the directory entries that name an inode
  inum, ref, valid, lock, copy,  \* struct inode; copy: its type and nlink
  pc, ip, want                   \* by process: where it is, its reference, the
                                 \* inode it has allocated and not yet got

slots == <<inum, ref, valid, lock, copy>>
vars  == <<dinode, entries, slots, pc, ip, want>>

Dinode == [used : BOOLEAN, nlink : 0 .. MaxLinks]
Free   == [used |-> FALSE, nlink |-> 0]

TypeOK ==
  /\ dinode \in [Inum -> Dinode] /\ entries \in [Inum -> 0 .. MaxLinks]
  /\ inum \in [Slot -> Inum \cup {None}] /\ ref \in [Slot -> 0 .. Cardinality(Proc)]
  /\ valid \in [Slot -> BOOLEAN] /\ copy \in [Slot -> Dinode]
  /\ lock \in [Slot -> Proc \cup {None}]
  /\ pc \in [Proc -> {"none", "iget", "new", "ref", "locked", "free", "release", "drop"}]
  /\ ip \in [Proc -> Slot \cup {None}]
  /\ want \in [Proc -> Inum \cup {None}]

Init ==
  /\ dinode = [i \in Inum |-> Free] /\ entries = [i \in Inum |-> 0]
  /\ inum = [s \in Slot |-> None] /\ ref = [s \in Slot |-> 0]
  /\ valid = [s \in Slot |-> FALSE] /\ copy = [s \in Slot |-> Free]
  /\ lock = [s \in Slot |-> None]
  /\ pc = [p \in Proc |-> "none"]
  /\ ip = [p \in Proc |-> None] /\ want = [p \in Proc |-> None]

Go(p, point) == pc' = [pc EXCEPT ![p] = point]

-----------------------------------------------------------------------------
\* mutant: the copy of the former inode of the slot is taken for the new one's
KeepsCopy(s) == valid
Forgets(s)   == [valid EXCEPT ![s] = FALSE]

\* mutant: a slot that has not been read yet is not found
ReadOnly(s, i) == ref[s] > 0 /\ inum[s] = i /\ valid[s]
Caches(s, i)   == ref[s] > 0 /\ inum[s] = i

\* iget(): the slot of the inode, or one without references
Iget(p, i, next) ==
  /\ IF \E s \in Slot : Caches(s, i)
     THEN \E s \in Slot :
            /\ Caches(s, i)
            /\ ref' = [ref EXCEPT ![s] = @ + 1]
            /\ ip' = [ip EXCEPT ![p] = s]
            /\ UNCHANGED <<inum, valid>>
     ELSE \E s \in Slot :
            /\ ref[s] = 0
            /\ inum' = [inum EXCEPT ![s] = i]
            /\ ref' = [ref EXCEPT ![s] = 1]
            /\ valid' = Forgets(s)
            /\ ip' = [ip EXCEPT ![p] = s]
  /\ Go(p, next)
  /\ UNCHANGED <<entries, lock, copy>>

\* dirlookup() finds an entry, in a directory it has locked
dirlookup(p, i) ==
  /\ pc[p] = "none" /\ entries[i] > 0
  /\ Iget(p, i, "ref")
  /\ UNCHANGED <<dinode, want>>

\* ialloc(): a free inode is marked, in its block, ...
ialloc(p, i) ==
  /\ pc[p] = "none" /\ ~ dinode[i].used
  /\ dinode' = [dinode EXCEPT ![i] = [used |-> TRUE, nlink |-> 0]]
  /\ want' = [want EXCEPT ![p] = i]
  /\ Go(p, "iget")
  /\ UNCHANGED <<entries, slots, ip>>

\* ... and got
IgetNew(p) ==
  /\ pc[p] = "iget"
  /\ Iget(p, want[p], "new")
  /\ want' = [want EXCEPT ![p] = None]
  /\ UNCHANGED dinode

\* idup(), for a child of q or for a path that starts at a directory q has
idup(p, q) ==
  /\ pc[p] = "none" /\ pc[q] = "ref"
  /\ ref' = [ref EXCEPT ![ip[q]] = @ + 1]
  /\ ip' = [ip EXCEPT ![p] = ip[q]]
  /\ Go(p, "ref")
  /\ UNCHANGED <<dinode, entries, inum, valid, lock, copy, want>>

ilock(p) ==
  /\ pc[p] = "ref" /\ lock[ip[p]] = None
  /\ lock' = [lock EXCEPT ![ip[p]] = p]
  /\ copy' = IF valid[ip[p]] THEN copy
             ELSE [copy EXCEPT ![ip[p]] = dinode[inum[ip[p]]]]
  /\ valid' = [valid EXCEPT ![ip[p]] = TRUE]
  /\ Go(p, "locked")
  /\ UNCHANGED <<dinode, entries, inum, ref, ip, want>>

\* iupdate(): write-through; mutant: the change is not written to the disk
NoUpdate(s) == dinode
iupdate(s)  == [dinode EXCEPT ![inum[s]] = copy'[s]]

\* create(): the first lock of a new inode, nlink = 1, iupdate(), the entry in its
\* directory
create(p) ==
  LET s == ip[p] IN
  /\ pc[p] = "new" /\ lock[s] = None
  /\ lock' = [lock EXCEPT ![s] = p]
  /\ copy' = [copy EXCEPT ![s] = [used |-> IF valid[s] THEN @.used ELSE dinode[inum[s]].used,
                                   nlink |-> 1]]
  /\ valid' = [valid EXCEPT ![s] = TRUE]
  /\ dinode' = iupdate(s)
  /\ entries' = [entries EXCEPT ![inum[s]] = @ + 1]
  /\ Go(p, "locked")
  /\ UNCHANGED <<inum, ref, ip, want>>

iunlock(p) ==
  /\ pc[p] = "locked"
  /\ lock' = [lock EXCEPT ![ip[p]] = None]
  /\ Go(p, "ref")
  /\ UNCHANGED <<dinode, entries, inum, ref, valid, copy, ip, want>>

\* link() and create() add an entry, unlink() takes one away: with ip locked
ChangeLinks(p, k) ==
  LET s == ip[p] IN
  /\ pc[p] = "locked"
  /\ entries[inum[s]] + k \in 0 .. MaxLinks
  /\ entries' = [entries EXCEPT ![inum[s]] = @ + k]
  /\ copy' = [copy EXCEPT ![s].nlink = @ + k]
  /\ dinode' = iupdate(s)
  /\ UNCHANGED <<inum, ref, valid, lock, pc, ip, want>>

-----------------------------------------------------------------------------
\* iput(): with the lock, is this the last reference of an inode without links?
\* mutant: whatever the number of references
Unlinked(s) == valid[s] /\ copy[s].nlink = 0
LastOne(s)  == valid[s] /\ copy[s].nlink = 0 /\ ref[s] = 1

iput(p) ==
  /\ pc[p] = "ref" /\ lock[ip[p]] = None
  /\ lock' = [lock EXCEPT ![ip[p]] = p]
  /\ Go(p, IF LastOne(ip[p]) THEN "free" ELSE "release")
  /\ UNCHANGED <<dinode, entries, inum, ref, valid, copy, ip, want>>

\* itrunc(), type = 0, iupdate(), valid = 0
IputFree(p) ==
  /\ pc[p] = "free"
  /\ copy' = [copy EXCEPT ![ip[p]] = Free]
  /\ dinode' = iupdate(ip[p])
  /\ valid' = [valid EXCEPT ![ip[p]] = FALSE]
  /\ Go(p, "release")
  /\ UNCHANGED <<entries, inum, ref, lock, ip, want>>

IputRelease(p) ==
  /\ pc[p] = "release"
  /\ lock' = [lock EXCEPT ![ip[p]] = None]
  /\ Go(p, "drop")
  /\ UNCHANGED <<dinode, entries, inum, ref, valid, copy, ip, want>>

IputDrop(p) ==
  /\ pc[p] = "drop"
  /\ ref' = [ref EXCEPT ![ip[p]] = @ - 1]
  /\ ip' = [ip EXCEPT ![p] = None]
  /\ Go(p, "none")
  /\ UNCHANGED <<dinode, entries, inum, valid, lock, copy, want>>

Next ==
  \E p \in Proc :
    \/ \E i \in Inum : dirlookup(p, i) \/ ialloc(p, i)
    \/ \E q \in Proc : idup(p, q)
    \/ IgetNew(p) \/ create(p) \/ ilock(p) \/ iunlock(p)
    \/ \E k \in {1, -1} : ChangeLinks(p, k)
    \/ iput(p) \/ IputFree(p) \/ IputRelease(p) \/ IputDrop(p)

Spec == Init /\ [][Next]_vars

-----------------------------------------------------------------------------
\* one in-memory inode for each inode in use: the lock of the slot is the lock of
\* the inode, and its count is the number of processes that refer to it
OneSlot ==
  /\ \A s, t \in Slot : ref[s] > 0 /\ ref[t] > 0 /\ inum[s] = inum[t] => s = t
  /\ \A s \in Slot : ref[s] = Cardinality({p \in Proc : ip[p] = s})

\* write-through: what a slot holds is what the disk holds, also after the slot
\* or the number of the inode has been used again
CopyFresh ==
  \A s \in Slot : ref[s] > 0 /\ valid[s] => copy[s] = dinode[inum[s]]

\* an inode is freed only by its last user: none that a directory names, or that
\* another process refers to, loses its type, and ilock() never panics
InUseHasType ==
  /\ \A i \in Inum : entries[i] > 0 => dinode[i].used
  /\ \A p \in Proc : pc[p] \in {"new", "ref", "locked", "free"} => dinode[inum[ip[p]]].used

\* fs.c says of iput() that the last reference to an inode without links frees it:
\* an inode in use has a link, or somebody who will free it
UnlinkedHasUser ==
  \A i \in Inum : dinode[i].used /\ dinode[i].nlink = 0 =>
    \E p \in Proc : want[p] = i \/ (ip[p] # None /\ inum[ip[p]] = i)
=============================================================================
