---------------------------- MODULE FileContents ----------------------------
(***************************************************************************)
(* The contents of files: balloc(), bfree(), bmap(), itrunc(), readi() and *)
(* writei() of fs.c, below fileread() and filewrite() of file.c.           *)
(* A step takes one block: the lock of the inode is held from the first to *)
(* the last of a writei(), that of the bitmap within one only.  An address *)
(* takes as much of a block as a byte does here: NINDIRECT is BSIZE.       *)
(***************************************************************************)
EXTENDS Integers, Sequences, FiniteSets, FiniteSetsExt

CONSTANTS
  Proc, Inode, File,
  Byte,           \* what is written
  Block,          \* the data blocks of the disk
  BSIZE, NDIRECT,
  Chunk,          \* the most bytes that filewrite() writes in one transaction
  Lengths,        \* bound: the bytes programs read and write in one call
  None

FileAssumption ==
  /\ Block \subseteq Nat \ {0} /\ Byte \subseteq Nat \ {0}
  /\ {BSIZE, NDIRECT, Chunk} \subseteq Nat \ {0} /\ Lengths \subseteq Nat \ {0}
  /\ None \notin Proc \cup Inode \cup File

VARIABLES
  disk, bitmap,   \* the data blocks, and which of them are in use
  dinode,         \* the inodes on disk
  inode, lock,    \* their copies in memory, and who has locked them
  file,           \* by open file: inode and offset
  call,           \* by process: the filewrite() it is in
  before          \* history: what a file contained when it was locked

vars == <<disk, bitmap, dinode, inode, lock, file, call, before>>

NINDIRECT == BSIZE
MAXFILE   == NDIRECT + NINDIRECT
Word      == 0 .. BSIZE - 1
Zeroes    == [w \in Word |-> 0]
NoInode   == [addrs |-> [n \in 0 .. NDIRECT |-> 0], size |-> 0]

\* left: bytes still to write; end: where the writei() under way ends; pos: where it is
NoCall == [file |-> None, byte |-> 0, left |-> 0, pos |-> 0, end |-> 0]

Init ==
  /\ disk = [b \in Block |-> Zeroes] /\ bitmap = {}
  /\ dinode = [i \in Inode |-> NoInode] /\ inode = dinode
  /\ lock = [i \in Inode |-> None]
  /\ file = [f \in File |-> [ip |-> None, off |-> 0]]
  /\ call = [p \in Proc |-> NoCall]
  /\ before = [i \in Inode |-> <<>>]

-----------------------------------------------------------------------------
\* the block that bmap() finds for block n of inode i, 0 if there is none
BlockOf(i, n) ==
  LET a == inode[i].addrs IN
  IF n < NDIRECT THEN a[n]
  ELSE IF a[NDIRECT] = 0 THEN 0 ELSE disk[a[NDIRECT]][n - NDIRECT]

\* mutant: a block is used with what was in it
Unzeroed(d, b) == d
Bzero(d, b)    == [d EXCEPT ![b] = Zeroes]

\* balloc(): the first free block; it panics if there is none
Balloc(used) == Min(Block \ used)
HasRoom(used, n) == Cardinality(Block \ used) >= n

\* mutant: the bytes go to the start of the block
AtStart(b, o, m, v, d) == [d EXCEPT ![b] = [w \in Word |-> IF w < m THEN v ELSE d[b][w]]]
WriteWords(b, o, m, v, d) ==
  [d EXCEPT ![b] = [w \in Word |-> IF w >= o /\ w < o + m THEN v ELSE d[b][w]]]

\* bmap() and the write of m bytes from position o of block n of inode i
WriteBlock(i, n, o, m, v) ==
  LET b == BlockOf(i, n)
      direct == n < NDIRECT
      ind == inode[i].addrs[NDIRECT]
      newInd == ~ direct /\ ind = 0
      used1 == IF newInd THEN bitmap \cup {Balloc(bitmap)} ELSE bitmap
      ind1 == IF newInd THEN Balloc(bitmap) ELSE ind
      d1 == IF newInd THEN Bzero(disk, ind1) ELSE disk
      b2 == Balloc(used1)
      d2 == Bzero(d1, b2) IN
  IF b # 0
  THEN /\ disk' = WriteWords(b, o, m, v, disk)
       /\ UNCHANGED <<bitmap, inode>>
  ELSE /\ HasRoom(bitmap, IF newInd THEN 2 ELSE 1)
       /\ bitmap' = used1 \cup {b2}
       /\ inode' = [inode EXCEPT ![i].addrs =
            IF direct THEN [@ EXCEPT ![n] = b2] ELSE [@ EXCEPT ![NDIRECT] = ind1]]
       /\ disk' = WriteWords(b2, o, m, v,
            IF direct THEN d2 ELSE [d2 EXCEPT ![ind1][n - NDIRECT] = b2])

\* the bytes of a file
Content(i) ==
  [k \in 1 .. inode[i].size |->
     disk[BlockOf(i, (k - 1) \div BSIZE)][(k - 1) % BSIZE]]

-----------------------------------------------------------------------------
Open(f, i) ==
  /\ file[f].ip = None
  /\ file' = [file EXCEPT ![f] = [ip |-> i, off |-> 0]]
  /\ UNCHANGED <<disk, bitmap, dinode, inode, lock, call, before>>

Close(f) ==
  /\ file[f].ip # None /\ \A p \in Proc : call[p].file # f
  /\ file' = [file EXCEPT ![f] = [ip |-> None, off |-> 0]]
  /\ UNCHANGED <<disk, bitmap, dinode, inode, lock, call, before>>

Blocks(i) ==
  ({inode[i].addrs[n] : n \in 0 .. NDIRECT} \cup {BlockOf(i, n) : n \in 0 .. MAXFILE - 1})
  \ {0}

\* itrunc() of a file without links and users
Remove(i) ==
  /\ lock[i] = None /\ \A f \in File : file[f].ip # i
  /\ bitmap' = bitmap \ Blocks(i)
  /\ inode' = [inode EXCEPT ![i] = NoInode]
  /\ dinode' = [dinode EXCEPT ![i] = NoInode]
  /\ UNCHANGED <<disk, lock, file, call, before>>

\* mutant: readi() does not stop at the end of the file
PastEnd(o, n, size) == o + n
UpTo(o, n, size)    == Min({o + n, size})

\* fileread(): readi() reads up to the end of the file
FileRead(p, f, n) ==
  LET i == file[f].ip IN
  /\ call[p] = NoCall /\ i # None /\ lock[i] = None
  /\ file[f].off <= inode[i].size
  /\ file' = [file EXCEPT ![f].off = UpTo(@, n, inode[i].size)]
  /\ UNCHANGED <<disk, bitmap, dinode, inode, lock, call, before>>

FileWrite(p, f, v, n) ==
  /\ call[p] = NoCall /\ file[f].ip # None
  /\ call' = [call EXCEPT ![p] = [NoCall EXCEPT !.file = f, !.byte = v, !.left = n]]
  /\ UNCHANGED <<disk, bitmap, dinode, inode, lock, file, before>>

\* filewrite() locks the inode for one chunk; writei() fails at the largest size
Writei(p) ==
  LET c == call[p]
      i == file[c.file].ip
      o == file[c.file].off
      end == o + Min({c.left, Chunk}) IN
  /\ c.file # None /\ c.left > 0 /\ c.end = 0
  /\ lock[i] = None
  /\ IF o <= inode[i].size /\ end <= MAXFILE * BSIZE
     THEN /\ lock' = [lock EXCEPT ![i] = p]
          /\ call' = [call EXCEPT ![p].pos = o, ![p].end = end]
          /\ before' = [before EXCEPT ![i] = Content(i)]
     ELSE /\ call' = [call EXCEPT ![p] = NoCall]
          /\ UNCHANGED <<lock, before>>
  /\ UNCHANGED <<disk, bitmap, dinode, inode, file>>

WriteiBlock(p) ==
  LET c == call[p]
      m == Min({c.end - c.pos, BSIZE - (c.pos % BSIZE)}) IN
  /\ c.pos < c.end
  /\ WriteBlock(file[c.file].ip, c.pos \div BSIZE, c.pos % BSIZE, m, c.byte)
  /\ call' = [call EXCEPT ![p].pos = @ + m]
  /\ UNCHANGED <<dinode, lock, file, before>>

\* mutant: the inode is saved before its size is set
SavedFirst(i, new) == inode[i]
Iupdate(i, new)    == new

\* the end of writei() and of the round of filewrite()
WriteiEnd(p) ==
  LET c == call[p]
      i == file[c.file].ip
      n == c.end - file[c.file].off
      new == [inode[i] EXCEPT !.size = c.pos] IN
  /\ c.end # 0 /\ c.pos = c.end
  /\ IF c.pos > inode[i].size
     THEN /\ inode' = [inode EXCEPT ![i] = new]
          /\ dinode' = [dinode EXCEPT ![i] = Iupdate(i, new)]
     ELSE UNCHANGED <<inode, dinode>>
  /\ file' = [file EXCEPT ![c.file].off = c.end]
  /\ lock' = [lock EXCEPT ![i] = None]
  /\ call' = [call EXCEPT ![p] = IF n = c.left THEN NoCall
                                 ELSE [@ EXCEPT !.left = @ - n, !.pos = 0, !.end = 0]]
  /\ before' = [before EXCEPT ![i] = <<>>]
  /\ UNCHANGED <<disk, bitmap>>

Next ==
  \/ \E f \in File : Close(f) \/ \E i \in Inode : Open(f, i)
  \/ \E i \in Inode : Remove(i)
  \/ \E p \in Proc :
       \/ \E f \in File, n \in Lengths :
            FileRead(p, f, n) \/ \E v \in Byte : FileWrite(p, f, v, n)
       \/ Writei(p) \/ WriteiBlock(p) \/ WriteiEnd(p)

Spec == Init /\ [][Next]_vars

-----------------------------------------------------------------------------
TypeOK ==
  /\ disk \in [Block -> [Word -> Block \cup Byte \cup {0}]] /\ bitmap \subseteq Block
  /\ \A i \in Inode : \A n \in {inode, dinode} :
       /\ n[i].size \in 0 .. MAXFILE * BSIZE
       /\ n[i].addrs \in [0 .. NDIRECT -> Block \cup {0}]
  /\ lock \in [Inode -> Proc \cup {None}]
  /\ \A f \in File : file[f].ip \in Inode \cup {None} /\ file[f].off \in 0 .. MAXFILE * BSIZE

\* a file is a sequence of bytes, and a chunk is written to it in one step, at the
\* offset of the open file that other processes may be using too
Files == INSTANCE ByteFiles WITH
  MaxSize <- MAXFILE * BSIZE,
  content <- [i \in Inode |-> IF lock[i] = None THEN Content(i) ELSE before[i]],
  offset <- [f \in File |-> file[f].off]

FileSpec == Files!Spec

\* the bitmap marks just the blocks that inodes use, and no two places name the
\* same block
BlocksCounted ==
  /\ bitmap = UNION {Blocks(i) : i \in Inode}
  /\ \A i, j \in Inode : i # j => Blocks(i) \cap Blocks(j) = {}
  /\ \A i \in Inode :
       Cardinality(Blocks(i)) =
         Cardinality({n \in 0 .. MAXFILE - 1 : BlockOf(i, n) # 0})
         + (IF inode[i].addrs[NDIRECT] # 0 THEN 1 ELSE 0)

\* while an inode is not locked, what is on disk is what is in memory, although
\* writei() does not save it when the size stays the same
DinodeCurrent == \A i \in Inode : lock[i] = None => dinode[i] = inode[i]
=============================================================================
