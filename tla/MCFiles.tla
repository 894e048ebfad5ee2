------------------------------ MODULE MCFiles ------------------------------
(***************************************************************************)
(* Files, side by side, for TLC: the contents of files and names, and the  *)
(* parts of MCSharing (system calls on files and directories, open files,  *)
(* the console, the start of the CPUs, the lock exercise).  Each is        *)
(* checked over what it relies on, not over the others; they share no      *)
(* state, so that it is enough that one of them moves (`part`).            *)
(*                                                                         *)
(* The members of Caller and Inode are interchangeable; where a component  *)
(* needs a set of another kind, one of these stands for it.                *)
(***************************************************************************)
EXTENDS MCSharing, SequencesExt

VARIABLES
  fcDisk, fcBitmap, fcDinode, fcInode, fcLock, fcFile, fcCall, fcBefore,
  pnPath, pnName, pnEntries, pnWhole, pnTaken

\* readi(), writei() and the allocator of fs.c: the bytes of one file, opened twice
\* (the open files go by the names of inodes), then the blocks of two
Contents == INSTANCE FileContents WITH
  Proc <- Caller, Inode <- {Root}, File <- Inode, Byte <- {1, 2}, Block <- 1 .. 4,
  BSIZE <- 2, NDIRECT <- 1, Chunk <- 3, Lengths <- {5}, None <- Nil,
  disk <- fcDisk, bitmap <- fcBitmap, dinode <- fcDinode, inode <- fcInode,
  lock <- fcLock, file <- fcFile, call <- fcCall, before <- fcBefore
Blocks == INSTANCE FileContents WITH
  Proc <- Caller, Inode <- Inode, File <- {1, 2}, Byte <- {1}, Block <- 1 .. 6,
  BSIZE <- 2, NDIRECT <- 1, Chunk <- 3, Lengths <- {5}, None <- Nil,
  disk <- fcDisk, bitmap <- fcBitmap, dinode <- fcDinode, inode <- fcInode,
  lock <- fcLock, file <- fcFile, call <- fcCall, before <- fcBefore

fcVars ==
  <<fcDisk, fcBitmap, fcDinode, fcInode, fcLock, fcFile, fcCall, fcBefore>>

fcOff ==
  /\ fcDisk = Nil /\ fcBitmap = Nil /\ fcDinode = Nil /\ fcInode = Nil
  /\ fcLock = Nil /\ fcFile = Nil /\ fcCall = Nil /\ fcBefore = Nil

\* skipelem(), dirlookup() and dirlink() of fs.c, byte by byte
Names == INSTANCE PathNames WITH
  DIRSIZ <- 2, MaxPath <- 4, MaxEntries <- 2, path <- pnPath, name <- pnName,
  entries <- pnEntries, whole <- pnWhole, taken <- pnTaken

pnVars ==
  <<pnPath, pnName, pnEntries, pnWhole, pnTaken>>

pnOff ==
  /\ pnPath = Nil /\ pnName = Nil /\ pnEntries = Nil /\ pnWhole = Nil
  /\ pnTaken = Nil

-----------------------------------------------------------------------------
Part == {"contents", "blocks", "names"} \cup SharedPart

SideInit ==
  /\ part \in Part
  /\ CASE part = "contents" -> Contents!Init
       [] part = "blocks" -> Blocks!Init
       [] OTHER -> fcOff
  /\ IF part = "names" THEN Names!Init ELSE pnOff
  /\ SharedInit

SideStep ==
  /\ SharedStep
  /\ CASE part = "contents" -> Contents!Next
       [] part = "blocks" -> Blocks!Next
       [] OTHER -> UNCHANGED fcVars
  /\ IF part = "names" THEN Names!Next ELSE UNCHANGED pnVars

sideVars == <<sharedVars, fcVars, pnVars>>

\* the bounds of names, paths and contents come to an end; a console whose ring is full
\* takes no key, and its readers may all be killed; main() of the lock exercise returns,
\* and a thread that spins changes nothing
Stops ==
  /\ part \in {"calls", "dirs", "counts", "contents", "blocks", "console", "exercise"}
  /\ UNCHANGED sideVars

SideSpec == SideInit /\ [][SideStep \/ Stops]_sideVars

Symmetry == Permutations(Caller) \cup Permutations(Inode) \cup Permutations(Twin)

ASSUME SideAssumption ==
  /\ Contents!FileAssumption /\ Blocks!FileAssumption
  /\ Names!PathAssumption

-----------------------------------------------------------------------------
(* One property for each component: its parts are named where they are defined; *)
(* DirectoriesCorrect, OpenFilesCorrect, ConsoleCorrect, StartCorrect and       *)
(* ExerciseCorrect are those of MCSharing.                                      *)

\* file.c, fs.c: a file is a sequence of bytes, written in chunks (the refinement);
\* the bitmap marks just the blocks of inodes, no block is named twice, and an inode
\* that is not locked is on disk as it is in memory
ContentsCorrect ==
  /\ [](part = "contents" => Contents!TypeOK)
  /\ [](part = "blocks" => Blocks!BlocksCounted /\ Blocks!DinodeCurrent)
  /\ part = "contents" => Contents!Files!Init
  /\ [][part = "contents" => [Contents!Files!Next]_(Contents!Files!vars)]_sideVars

\* fs.c: namex() goes through the elements of a path in order; a name is the element
\* cut to DIRSIZ bytes, and finds the entry of that name
NamesCorrect == part = "names" => Names!ElementsInOrder /\ Names!FindsByElement
=============================================================================
