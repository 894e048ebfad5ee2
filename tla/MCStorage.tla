----------------------------- MODULE MCStorage -----------------------------
(***************************************************************************)
(* What keeps the disk, side by side, for TLC: the log, the buffer cache,  *)
(* the disk driver and the inode cache.  Each is checked over what it      *)
(* relies on, not over the others; they share no state, so that it is      *)
(* enough that one of them moves (`part`).  Log is extended, the others    *)
(* are instances with variables of their own.                              *)
(*                                                                         *)
(* Processes, blocks and buffers are interchangeable, and the sets stand   *)
(* for others of their size: a slot of the inode cache is named like a     *)
(* block, an inode like a buffer.                                          *)
(***************************************************************************)
EXTENDS Log

CONSTANTS
  Buf, MaxLinks

VARIABLES
  part,
  bcDisk, bcBlockno, bcValid, bcDirty, bcRefcnt, bcData, bcLock, bcList, bcPc,
  bcBuf,
  ctDisk, ctBlockno, ctValid, ctDirty, ctRefcnt, ctData, ctLock, ctList, ctPc,
  ctBuf,
  ideDisk, ideValid, ideDirty, ideData, ideIdequeue, ideCommand, ideSent,
  ideIntr, ideFailed, idePc, ideRead,
  icDinode, icEntries, icInum, icRef, icValid, icLock, icCopy, icPc, icIp,
  icWant

\* bio.c: three processes, three blocks, two buffers
Cache == INSTANCE BufferCache WITH
  Proc <- Proc, Block <- Block, Value <- Value, Buf <- Buf, None <- None,
  MaxDirty <- 1, disk <- bcDisk, blockno <- bcBlockno, valid <- bcValid,
  dirty <- bcDirty, refcnt <- bcRefcnt, data <- bcData, lock <- bcLock,
  list <- bcList, pc <- bcPc, buf <- bcBuf

bcVars ==
  <<bcDisk, bcBlockno, bcValid, bcDirty, bcRefcnt, bcData, bcLock, bcList, bcPc,
    bcBuf>>

bcOff ==
  /\ bcDisk = None /\ bcBlockno = None /\ bcValid = None /\ bcDirty = None
  /\ bcRefcnt = None /\ bcData = None /\ bcLock = None /\ bcList = None
  /\ bcPc = None /\ bcBuf = None

\* bio.c: two processes, four blocks, one of them in the log, and three buffers
Count == INSTANCE BufferCache WITH
  Proc <- Buf, Block <- 1 .. 4, Value <- {0}, Buf <- Block, None <- None,
  MaxDirty <- 1, disk <- ctDisk, blockno <- ctBlockno, valid <- ctValid,
  dirty <- ctDirty, refcnt <- ctRefcnt, data <- ctData, lock <- ctLock,
  list <- ctList, pc <- ctPc, buf <- ctBuf

ctVars ==
  <<ctDisk, ctBlockno, ctValid, ctDirty, ctRefcnt, ctData, ctLock, ctList, ctPc,
    ctBuf>>

ctOff ==
  /\ ctDisk = None /\ ctBlockno = None /\ ctValid = None /\ ctDirty = None
  /\ ctRefcnt = None /\ ctData = None /\ ctLock = None /\ ctList = None
  /\ ctPc = None /\ ctBuf = None

\* ide.c: three buffers
Ide0 == INSTANCE Ide WITH
  Buf <- Block, Value <- Value, Idle <- None, disk <- ideDisk,
  valid <- ideValid, dirty <- ideDirty, data <- ideData,
  idequeue <- ideIdequeue, command <- ideCommand, sent <- ideSent,
  intr <- ideIntr, failed <- ideFailed, pc <- idePc, read <- ideRead

ideVars ==
  <<ideDisk, ideValid, ideDirty, ideData, ideIdequeue, ideCommand, ideSent,
    ideIntr, ideFailed, idePc, ideRead>>

ideOff ==
  /\ ideDisk = None /\ ideValid = None /\ ideDirty = None /\ ideData = None
  /\ ideIdequeue = None /\ ideCommand = None /\ ideSent = None
  /\ ideIntr = None /\ ideFailed = None /\ idePc = None /\ ideRead = None

\* the inode cache of fs.c: three processes, two inodes, three slots
Inodes == INSTANCE InodeCache WITH
  Proc <- Proc, Inum <- Buf, Slot <- Block, None <- None, MaxLinks <- MaxLinks,
  dinode <- icDinode, entries <- icEntries, inum <- icInum, ref <- icRef,
  valid <- icValid, lock <- icLock, copy <- icCopy, pc <- icPc, ip <- icIp,
  want <- icWant

icVars ==
  <<icDinode, icEntries, icInum, icRef, icValid, icLock, icCopy, icPc, icIp,
    icWant>>

icOff ==
  /\ icDinode = None /\ icEntries = None /\ icInum = None /\ icRef = None
  /\ icValid = None /\ icLock = None /\ icCopy = None /\ icPc = None
  /\ icIp = None /\ icWant = None

-----------------------------------------------------------------------------
Part == {"log", "cache", "count", "ide", "inodes"}

SideInit ==
  /\ part \in Part
  /\ Init
  /\ part # "log" => home = [b \in Block |-> CHOOSE v \in Value : TRUE]
  /\ IF part = "cache" THEN Cache!Init ELSE bcOff
  /\ IF part = "count" THEN Count!Init ELSE ctOff
  /\ IF part = "ide" THEN Ide0!Init ELSE ideOff
  /\ IF part = "inodes" THEN Inodes!Init ELSE icOff

SideStep ==
  /\ UNCHANGED part
  /\ IF part = "log" THEN Next ELSE UNCHANGED vars
  /\ IF part = "cache" THEN Cache!Next ELSE UNCHANGED bcVars
  /\ IF part = "count" THEN Count!Next ELSE UNCHANGED ctVars
  /\ IF part = "ide" THEN Ide0!Next ELSE UNCHANGED ideVars
  /\ IF part = "inodes" THEN Inodes!Next ELSE UNCHANGED icVars

sideVars == <<part, vars, bcVars, ctVars, ideVars, icVars>>

\* ialloc() panics when no inode is left
Stops == part = "inodes" /\ UNCHANGED sideVars

SideSpec == SideInit /\ [][SideStep \/ Stops]_sideVars

Symmetry == Permutations(Proc) \cup Permutations(Block) \cup Permutations(Buf)

ASSUME SideAssumption ==
  /\ SizesAssumption /\ NoneAssumption
  /\ Cache!NoneAssumption /\ Cache!DirtyAssumption
  /\ Count!NoneAssumption /\ Count!DirtyAssumption
  /\ Ide0!IdleAssumption /\ Inodes!NoneAssumption /\ Inodes!LinksAssumption

-----------------------------------------------------------------------------
(* LogCorrect is that of Log.  One property for each of the others: its parts are *)
(* named where they are defined                                                  *)

\* bio.c: each block has one content and one user at a time (the refinement); no
\* process sleeps on the lock of a buffer that is free; and with as many buffers as
\* processes and blocks of the log, bget() finds one
CacheCorrect ==
  /\ [](part = "cache" => Cache!TypeOK /\ Cache!SleepersHaveHolder)
  /\ [](part = "count" => Count!TypeOK /\ Count!BufferFound)
  /\ part = "cache" => Cache!Store!Init
  /\ [][part = "cache" => [Cache!Store!Next]_(Cache!Store!vars)]_sideVars

\* ide.c: the disk works for the head of the queue and for it only, and who has come
\* out of iderw() has what it asked for, unless the disk failed
DiskCorrect ==
  part = "ide" => Ide0!TypeOK /\ Ide0!ActiveIsHead /\ Ide0!RequestDone

\* fs.c: an inode that somebody uses has one slot, a valid copy of it is what is on
\* disk, and it is freed by its last user only
InodesCorrect ==
  part = "inodes" =>
    Inodes!TypeOK /\ Inodes!OneSlot /\ Inodes!CopyFresh /\ Inodes!InUseHasType
=============================================================================
