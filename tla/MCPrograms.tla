----------------------------- MODULE MCPrograms -----------------------------
(***************************************************************************)
(* Data structures, user programs, and what runs before the kernel, side   *)
(* by side, for TLC.  Most are sequential; what may go wrong is in the     *)
(* data.  They share no state, so that it is enough that one of them moves *)
(* (`part`).  RingQueue is extended, the others are instances with         *)
(* variables of their own.                                                 *)
(***************************************************************************)
EXTENDS RingQueue, SequencesExt

CONSTANTS
  Zero, Old     \* a cleared cell of memory, and what was in memory before

VARIABLES
  part,
  hpProc, hpSize, hpPriority, hpPc, hpI, hpRoot, hpOut,
  uhPtr, uhSize, uhFreep, uhBrk, uhUsed, uhForeign,
  spLine,
  grPattern, grInput, grAt, grBuf, grOut, grDone,
  arSz, arEsp, arArg,
  blElf, blPh, blPa, blEpa, blSector, blMem,
  diInode, diDisk, diFreeinode, diFreeblock, diBitmap, diDone, diInput

\* heap.h: three processes, priorities 0 to 2
Heap == INSTANCE PriorityHeap WITH
  NPROC <- 5, Item <- Item, NoItem <- NoItem, MaxPriority <- 2, Rekey <- FALSE,
  proc <- hpProc, size <- hpSize, priority <- hpPriority, pc <- hpPc, i <- hpI,
  root <- hpRoot, out <- hpOut

hpVars ==
  <<hpProc, hpSize, hpPriority, hpPc, hpI, hpRoot, hpOut>>

hpOff ==
  /\ hpProc = NoItem /\ hpSize = NoItem /\ hpPriority = NoItem /\ hpPc = NoItem
  /\ hpI = NoItem /\ hpRoot = NoItem /\ hpOut = NoItem

\* umalloc.c: eleven units of memory
UserHeap0 == INSTANCE UserHeap WITH
  Limit <- 10, More <- 3, Sizes <- {0, 1, 3}, None <- NoItem, ptr <- uhPtr,
  size <- uhSize, freep <- uhFreep, brk <- uhBrk, used <- uhUsed,
  foreign <- uhForeign

uhVars ==
  <<uhPtr, uhSize, uhFreep, uhBrk, uhUsed, uhForeign>>

uhOff ==
  /\ uhPtr = NoItem /\ uhSize = NoItem /\ uhFreep = NoItem /\ uhBrk = NoItem
  /\ uhUsed = NoItem /\ uhForeign = NoItem

\* the parser of sh.c: lines of up to six tokens
Parser == INSTANCE ShellParser WITH
  MAXARGS <- 3, MaxTokens <- 6, line <- spLine

spVars ==
  <<spLine>>

spOff ==
  /\ spLine = NoItem

\* grep.c: long patterns, then a file longer than the buffer
Patterns == INSTANCE Grep WITH
  BufSize <- 6, MaxItems <- 3, MaxInput <- 4, Pipe <- FALSE,
  pattern <- grPattern, input <- grInput, at <- grAt, buf <- grBuf,
  out <- grOut, done <- grDone
Pieces == INSTANCE Grep WITH
  BufSize <- 4, MaxItems <- 1, MaxInput <- 6, Pipe <- FALSE,
  pattern <- grPattern, input <- grInput, at <- grAt, buf <- grBuf,
  out <- grOut, done <- grDone

grVars ==
  <<grPattern, grInput, grAt, grBuf, grOut, grDone>>

grOff ==
  /\ grPattern = NoItem /\ grInput = NoItem /\ grAt = NoItem /\ grBuf = NoItem
  /\ grOut = NoItem /\ grDone = NoItem

\* the arguments of system calls, with words of five bits
Arguments0 == INSTANCE Arguments WITH
  W <- 5, IntSize <- 2, MaxArg <- 1, sz <- arSz, esp <- arEsp, arg <- arArg

arVars ==
  <<arSz, arEsp, arArg>>

arOff ==
  /\ arSz = NoItem /\ arEsp = NoItem /\ arArg = NoItem

\* bootmain.c: a kernel of two segments
Boot == INSTANCE BootLoader WITH
  SECTSIZE <- 3, Memory <- 8, File <- 6, MaxSegments <- 2, Zero <- Zero,
  Old <- Old, elf <- blElf, ph <- blPh, pa <- blPa, epa <- blEpa,
  sector <- blSector, mem <- blMem

blVars ==
  <<blElf, blPh, blPa, blEpa, blSector, blMem>>

blOff ==
  /\ blElf = NoItem /\ blPh = NoItem /\ blPa = NoItem /\ blEpa = NoItem
  /\ blSector = NoItem /\ blMem = NoItem

\* mkfs.c: three files of up to six bytes
Image == INSTANCE DiskImage WITH
  FSSIZE <- 26, NMeta <- 4, BSIZE <- 2, NDIRECT <- 1, NFiles <- 3, MaxSize <- 6,
  inode <- diInode, disk <- diDisk, freeinode <- diFreeinode,
  freeblock <- diFreeblock, bitmap <- diBitmap, done <- diDone,
  input <- diInput

diVars ==
  <<diInode, diDisk, diFreeinode, diFreeblock, diBitmap, diDone, diInput>>

diOff ==
  /\ diInode = NoItem /\ diDisk = NoItem /\ diFreeinode = NoItem
  /\ diFreeblock = NoItem /\ diBitmap = NoItem /\ diDone = NoItem /\ diInput = NoItem

-----------------------------------------------------------------------------
Part == {"queue", "heap", "umalloc", "parser", "patterns", "pieces",
         "arguments", "boot", "image"}

SideInit ==
  /\ part \in Part
  /\ Init
  /\ IF part = "heap" THEN Heap!Init ELSE hpOff
  /\ IF part = "umalloc" THEN UserHeap0!Init ELSE uhOff
  /\ IF part = "parser" THEN Parser!Init ELSE spOff
  /\ CASE part = "patterns" -> Patterns!Init
       [] part = "pieces" -> Pieces!Init
       [] OTHER -> grOff
  /\ IF part = "arguments" THEN Arguments0!Init ELSE arOff
  /\ IF part = "boot" THEN Boot!Init ELSE blOff
  /\ IF part = "image" THEN Image!Init ELSE diOff

SideStep ==
  /\ UNCHANGED part
  /\ IF part = "queue" THEN Next ELSE UNCHANGED vars
  /\ IF part = "heap" THEN Heap!Next ELSE UNCHANGED hpVars
  /\ IF part = "umalloc" THEN UserHeap0!Next ELSE UNCHANGED uhVars
  /\ IF part = "parser" THEN Parser!Type ELSE UNCHANGED spVars
  /\ CASE part = "patterns" -> Patterns!Next
       [] part = "pieces" -> Pieces!Next
       [] OTHER -> UNCHANGED grVars
  /\ IF part = "arguments" THEN Arguments0!Next ELSE UNCHANGED arVars
  /\ IF part = "boot" THEN Boot!Next ELSE UNCHANGED blVars
  /\ IF part = "image" THEN Image!Next ELSE UNCHANGED diVars

sideVars == <<part, vars, hpVars, uhVars, spVars, grVars, arVars, blVars, diVars>>

\* lines, files, kernels and images come to an end
Stops ==
  part \in {"parser", "patterns", "pieces", "boot", "image"} /\ UNCHANGED sideVars

SideSpec == SideInit /\ [][SideStep \/ Stops]_sideVars

Symmetry == Permutations(Item)

ASSUME SideAssumption ==
  /\ Heap!NPROCAssumption /\ Heap!ItemAssumption /\ Heap!PriorityAssumption
  /\ UserHeap0!HeapAssumption /\ Parser!ParserAssumption
  /\ Patterns!GrepAssumption /\ Pieces!GrepAssumption
  /\ Arguments0!WordAssumption /\ Boot!BootAssumption
  /\ Image!ImageAssumption

-----------------------------------------------------------------------------
(* FifoSpec is that of RingQueue.  One property for each of the others: its parts *)
(* are named where they are defined                                              *)

\* heap.h: nothing is lost or doubled, and what leaves is of the highest priority
\* (the refinement); nobody is above a process of higher priority
HeapCorrect ==
  /\ [](part = "heap" => Heap!TypeOK /\ Heap!HeapOrder)
  /\ part = "heap" => Heap!Bag!Init
  /\ [][part = "heap" => [Heap!Bag!Next]_(Heap!Bag!vars)]_sideVars

\* umalloc.c: the free list is a circle in the order of addresses, joined up, and each
\* unit is in one block
AllocatorCorrect ==
  part = "umalloc" => UserHeap0!ListInOrder /\ UserHeap0!UnitsPartitioned

\* sh.c: the parser finds the command of the grammar, or panics, and each word of a
\* line is ended
ParserCorrect == part = "parser" => Parser!FollowsGrammar /\ Parser!EveryWordEnds

\* grep.c: the lines that match are printed, each once and whole
GrepCorrect ==
  /\ part = "patterns" => Patterns!PrintsMatching
  /\ part = "pieces" => Pieces!PrintsMatching

\* syscall.c: an argument is accepted only if it is memory of the process
ArgumentsCorrect == part = "arguments" => Arguments0!ArgInMemory

\* bootmain.c: the segments are in memory as the file has them, the rest cleared;
\* mkfs.c: the kernel reads from each file what mkfs put there, and the bitmap marks
\* the blocks of files, and those before the data
ImagesCorrect ==
  /\ part = "boot" => Boot!SegmentsLoaded
  /\ part = "image" => Image!FilesReadBack /\ Image!BitmapExact
=============================================================================
