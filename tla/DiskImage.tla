----------------------------- MODULE DiskImage -----------------------------
(***************************************************************************)
(* mkfs.c: the image of a file system with a root directory and the files  *)
(* named on the command line.  The image is looked at through bmap() and   *)
(* readi() of the kernel, as FileContents has them.  A directory entry     *)
(* takes as much of a block as a byte or an address does here.             *)
(***************************************************************************)
EXTENDS Integers, Sequences

CONSTANTS
  FSSIZE,     \* blocks of the image
  NMeta,      \* blocks 0 .. NMeta - 1: boot, super block, log, inodes, bitmap
  BSIZE, NDIRECT,
  NFiles,     \* bound: files on the command line
  MaxSize     \* bound: bytes of a file

ImageAssumption ==
  /\ {BSIZE, NDIRECT, NMeta, FSSIZE} \subseteq Nat \ {0} /\ NMeta < FSSIZE
  /\ NFiles \in Nat /\ MaxSize \in Nat

VARIABLES
  inode, disk,    \* the image: inodes and data blocks
  freeinode, freeblock,
  bitmap, done,
  input           \* history: by inode, what it should contain

vars == <<inode, disk, freeinode, freeblock, bitmap, done, input>>

Root    == 1
Inodes  == 1 .. NFiles + 1
Data    == NMeta .. FSSIZE - 1
MAXFILE == NDIRECT + BSIZE
Zeroes  == [w \in 0 .. BSIZE - 1 |-> 0]
NoInode == [addrs |-> [n \in 0 .. NDIRECT |-> 0], size |-> 0]

-----------------------------------------------------------------------------
\* what iappend() changes
Image == [inode |-> inode, disk |-> disk, free |-> freeblock]

\* the entry of an address table, or the next free block
\* mutant: the entry is not tested
AlwaysNew(img, a) == img.free
NewBlock(img, a)  == IF a = 0 THEN img.free ELSE a

\* the block for byte off of inode i, allocated if it is missing
WithBlock(img, i, off) ==
  LET n == off \div BSIZE
      addrs == img.inode[i].addrs IN
  IF n < NDIRECT
  THEN LET b == NewBlock(img, addrs[n]) IN
       [block |-> b, img |-> [img EXCEPT !.inode[i].addrs[n] = b,
                                         !.free = IF addrs[n] = 0 THEN @ + 1 ELSE @]]
  ELSE LET ind == NewBlock(img, addrs[NDIRECT])
           mid == [img EXCEPT !.inode[i].addrs[NDIRECT] = ind,
                              !.free = IF addrs[NDIRECT] = 0 THEN @ + 1 ELSE @]
           a == mid.disk[ind][n - NDIRECT]
           b == NewBlock(mid, a) IN
       [block |-> b, img |-> [mid EXCEPT !.disk[ind][n - NDIRECT] = b,
                                         !.free = IF a = 0 THEN @ + 1 ELSE @]]

\* iappend(), a byte at a time where the code takes as many as fit into the block; that the
\* file does not pass MAXFILE, which iappend() asserts, is tested before
RECURSIVE Append1(_, _, _)
Append1(img, i, s) ==
  IF s = <<>> THEN img
  ELSE LET off == img.inode[i].size
           w == WithBlock(img, i, off) IN
       Append1([w.img EXCEPT !.disk[w.block][off % BSIZE] = s[1], !.inode[i].size = off + 1],
               i, Tail(s))

Empty == [inode |-> [i \in Inodes |-> NoInode], disk |-> [b \in Data |-> Zeroes], free |-> NMeta]

\* . and .. of the root directory
Start == Append1(Empty, Root, <<Root, Root>>)

Init ==
  /\ inode = Start.inode /\ disk = Start.disk /\ freeblock = Start.free
  /\ freeinode = Root + 1
  /\ bitmap = {} /\ done = FALSE
  /\ input = [i \in Inodes |-> IF i = Root THEN <<Root, Root>> ELSE <<>>]

Fits(i, n) == inode[i].size + n <= MAXFILE * BSIZE

\* the entry in the root directory, and the contents
AddFile(n) ==
  LET i == freeinode
      s == [k \in 1 .. n |-> i]
      img == Append1(Append1(Image, Root, <<i>>), i, s) IN
  /\ ~ done /\ i \in Inodes /\ Fits(Root, 1) /\ Fits(i, n)
  /\ freeblock + 2 * ((n \div BSIZE) + 3) <= FSSIZE
  /\ inode' = img.inode /\ disk' = img.disk /\ freeblock' = img.free
  /\ freeinode' = i + 1
  /\ input' = [input EXCEPT ![Root] = @ \o <<i>>, ![i] = s]
  /\ UNCHANGED <<bitmap, done>>

\* mutant: the last block is not marked
MarkedAlmost == 0 .. freeblock - 2
Marked       == 0 .. freeblock - 1

\* the size of the root directory becomes a number of blocks, and balloc() writes the bitmap
Finish ==
  /\ ~ done
  /\ inode' = [inode EXCEPT ![Root].size = ((@ \div BSIZE) + 1) * BSIZE]
  /\ bitmap' = Marked
  /\ done' = TRUE
  /\ UNCHANGED <<disk, freeinode, freeblock, input>>

Next == Finish \/ \E n \in 0 .. MaxSize : AddFile(n)

Spec == Init /\ [][Next]_vars

-----------------------------------------------------------------------------
\* the kernel on this image: nothing is open or being written
Kernel == INSTANCE FileContents WITH
  Proc <- {}, Inode <- Inodes, File <- {}, Byte <- Inodes, Block <- Data, Chunk <- 1,
  Lengths <- {}, None <- 0,
  bitmap <- bitmap \cap Data, dinode <- inode,
  lock <- [i \in Inodes |-> 0], file <- <<>>, call <- <<>>, before <- <<>>

\* the kernel reads from each file what mkfs put there
FilesReadBack == done => \A i \in Inodes \ {Root} : Kernel!Content(i) = input[i]

\* and its allocator takes no block of a file, nor finds any block lost
BitmapExact == done => Kernel!BlocksCounted /\ 0 .. NMeta - 1 \subseteq bitmap

\* the blocks that the size of the root directory promises exist
RootHasBlocks ==
  done => \A n \in 0 .. (inode[Root].size \div BSIZE) - 1 : Kernel!BlockOf(Root, n) # 0
=============================================================================
