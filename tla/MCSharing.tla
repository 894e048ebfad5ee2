------------------------------ MODULE MCSharing ------------------------------
(***************************************************************************)
(* What is shared under locks, side by side: directories and inodes, the   *)
(* table of open files, the input and the display of the console, the free *)
(* list while the CPUs are started, and the counter of the lock exercise.  *)
(* They share no state with each other, so that it is enough that one of   *)
(* them moves (`part`).  Each is an instance with variables of its own.    *)
(* TLC runs them as parts of MCFiles; the proofs about them are in         *)
(* SharingProofs, and for directories and the console in FilesProofs.      *)
(***************************************************************************)
EXTENDS Integers

CONSTANTS
  Nil,
  Caller, Inode, Root, FileName, DirName, PathLen,  \* of the calls on directories
  User, FirstUser, File, NOFILE, PipePage,         \* of the open files
  Twin, Typed, Newline, Eof, INPUT_BUF, UINT, MaxRead,    \* of the console
  ROWS, COLS, Glyph, MaxText,
  NCPU, Early, Late,                               \* of the start
  NUM_THREADS, NUM_ITERS                           \* of the lock exercise

VARIABLES
  part,
  fsType, fsNlink, fsEntry, fsRef, fsLock, fsProc,
  ftRef, ftObject, ftOfile, ftEnds, ftInodes, ftPc, ftGot, ftTodo, ftLast,
  coBuf, coR, coW, coE, coReader,
  scCrt, scPos, scText,
  upPc, upFreelist, upUseLock, upLock, upCode, upStack, upStarted, upNext,
  upRead, upPage, upProcs,
  exFlag, exSharedResource, exPc, exI, exLoaded, exMain

\* sysfile.c and fs.c: two processes and two inodes besides the root directory
Tree == INSTANCE FileSystem WITH
  None <- Nil,
  Proc <- Caller, Inum <- {Root} \cup Inode, Name <- FileName,
  Element <- FileName \cup {".", ".."}, type <- fsType, nlink <- fsNlink,
  entry <- fsEntry, ref <- fsRef, lock <- fsLock, proc <- fsProc

fsVars ==
  <<fsType, fsNlink, fsEntry, fsRef, fsLock, fsProc>>

fsOff ==
  /\ fsType = Nil /\ fsNlink = Nil /\ fsEntry = Nil /\ fsRef = Nil
  /\ fsLock = Nil /\ fsProc = Nil

\* files in the root directory, then directories, by processes whose calls cross; then
\* all of them but chdir(), one call after the other
TreePart == {"calls", "dirs", "counts"}

TreeStep ==
  CASE part = "calls" ->
         Tree!Next({"create", "unlink", "link", "open"}, Tree!PathsOf(FileName, 1))
    [] part = "dirs" ->
         Tree!Next({"mkdir", "unlink", "chdir", "link"}, Tree!PathsOf(DirName, PathLen))
    [] part = "counts" ->
         Tree!NextAlone(Tree!Calls \ {"chdir"}, Tree!PathsOf(FileName \cup {".."}, PathLen))

\* file.c and the descriptors of sysfile.c: two processes, three open files, one pipe
Table == INSTANCE FileTable WITH
  None <- Nil,
  Proc <- User, FirstProc <- FirstUser, Page <- PipePage, ref <- ftRef,
  object <- ftObject, ofile <- ftOfile, ends <- ftEnds, inodes <- ftInodes, pc <- ftPc,
  got <- ftGot, todo <- ftTodo, last <- ftLast

ftVars ==
  <<ftRef, ftObject, ftOfile, ftEnds, ftInodes, ftPc, ftGot, ftTodo, ftLast>>

ftOff ==
  /\ ftRef = Nil /\ ftObject = Nil /\ ftOfile = Nil /\ ftEnds = Nil
  /\ ftInodes = Nil /\ ftPc = Nil /\ ftGot = Nil /\ ftTodo = Nil
  /\ ftLast = Nil

\* console.c: two readers, and a display of three rows of three cells
Console0 == INSTANCE Console WITH
  Proc <- Twin, Char <- Typed, buf <- coBuf, r <- coR, w <- coW, e <- coE, reader <- coReader,
  crt <- scCrt, pos <- scPos, text <- scText

coVars == <<coBuf, coR, coW, coE, coReader>>
scVars == <<scCrt, scPos, scText>>

coOff ==
  /\ coBuf = Nil /\ coR = Nil /\ coW = Nil /\ coE = Nil /\ coReader = Nil
scOff ==
  /\ scCrt = Nil /\ scPos = Nil /\ scText = Nil

\* main.c: three CPUs
Startup0 == INSTANCE Startup WITH
  None <- Nil,
  pc <- upPc, freelist <- upFreelist, use_lock <- upUseLock, lock <- upLock,
  code <- upCode, stack <- upStack, started <- upStarted, next <- upNext,
  read <- upRead, page <- upPage, procs <- upProcs

upVars ==
  <<upPc, upFreelist, upUseLock, upLock, upCode, upStack, upStarted, upNext,
    upRead, upPage, upProcs>>

upOff ==
  /\ upPc = Nil /\ upFreelist = Nil /\ upUseLock = Nil /\ upLock = Nil
  /\ upCode = Nil /\ upStack = Nil /\ upStarted = Nil /\ upNext = Nil
  /\ upRead = Nil /\ upPage = Nil /\ upProcs = Nil

\* pthread_lock_linux.c: three threads
Exercise == INSTANCE LockExercise WITH
  None <- Nil,
  flag <- exFlag, shared_resource <- exSharedResource, pc <- exPc, i <- exI,
  loaded <- exLoaded, main <- exMain

exVars == <<exFlag, exSharedResource, exPc, exI, exLoaded, exMain>>

exOff ==
  /\ exFlag = Nil /\ exSharedResource = Nil /\ exPc = Nil /\ exI = Nil
  /\ exLoaded = Nil /\ exMain = Nil

-----------------------------------------------------------------------------
SharedPart == TreePart \cup {"table", "console", "screen", "startup", "exercise"}

SharedInit ==
  /\ IF part \in TreePart THEN Tree!Init ELSE fsOff
  /\ IF part = "table" THEN Table!Init ELSE ftOff
  /\ IF part = "console" THEN Console0!Init ELSE coOff
  /\ IF part = "screen" THEN Console0!ScreenInit ELSE scOff
  /\ IF part = "startup" THEN Startup0!Init ELSE upOff
  /\ IF part = "exercise" THEN Exercise!Init ELSE exOff

SharedStep ==
  /\ UNCHANGED part
  /\ IF part \in TreePart THEN TreeStep ELSE UNCHANGED fsVars
  /\ IF part = "table" THEN Table!Next ELSE UNCHANGED ftVars
  /\ IF part = "console" THEN Console0!Next ELSE UNCHANGED coVars
  /\ IF part = "screen" THEN Console0!ScreenNext ELSE UNCHANGED scVars
  /\ IF part = "startup" THEN Startup0!Next ELSE UNCHANGED upVars
  /\ IF part = "exercise" THEN Exercise!Next ELSE UNCHANGED exVars

sharedVars == <<part, fsVars, ftVars, coVars, scVars, upVars, exVars>>

SharedSpec == SharedInit /\ [][SharedStep]_sharedVars

ASSUME SharedAssumption ==
  /\ Tree!InumAssumption /\ Tree!NameAssumption /\ DirName \subseteq FileName
  /\ Table!ProcAssumption /\ Table!FDAssumption
  /\ Console0!InputAssumption /\ Console0!ScreenAssumption
  /\ Startup0!StartupAssumption /\ Exercise!ExerciseAssumption

-----------------------------------------------------------------------------
(* One property for each component: its parts are named where they are defined. *)

\* sysfile.c: whatever link() and unlink() cross, the references to inodes are counted, no
\* entry is left with an inode that has been freed, the link count covers the entries, so
\* that unlink() finds it above 0, the directories are a tree, and each counts its name and
\* the ".." of its subdirectories.  Between calls that do not cross every link count is
\* exact, as long as nobody calls chdir(): a create() in a current directory that has been
\* removed, by its own process or another one, makes an inode that keeps a count of 1 when
\* the directory goes.
DirectoriesCorrect ==
  /\ part \in TreePart =>
       /\ Tree!TypeOK /\ Tree!RefsCounted
       /\ Tree!NamedIsUsed /\ Tree!LinksCovered /\ Tree!UnlinkFindsLink
       /\ Tree!DirectoryTree /\ Tree!DirLinksCounted
  /\ part = "counts" => Tree!LinksExact

\* file.c, sysfile.c: every reference to an open file is counted once, an end of a
\* pipe is open as long as a file stands for it, and the references to inodes are
\* given back, each once
OpenFilesCorrect ==
  part = "table" =>
    Table!TypeOK /\ Table!RefsCounted /\ Table!EndsOpen /\ Table!InodesCounted

\* console.c: the ring is a line that is edited and a sequence of ended lines (the
\* refinement), nobody sleeps while there is something to read, and a ring that is
\* full can be read; the display is a window on the text
ConsoleCorrect ==
  /\ [](part = "console" =>
          Console0!TypeOK /\ Console0!SleepersBlocked /\ Console0!FullIsEnded)
  /\ [](part = "screen" => Console0!ShowsText)
  /\ part = "console" => Console0!Lines!Init
  /\ [][part = "console" => [Console0!Lines!Next]_(Console0!Lines!vars)]_sharedVars

\* main.c, kalloc.c: each CPU comes up on a stack of its own, which nobody can allocate;
\* a page is in the free list once or has one owner, also while there is no lock; and a
\* CPU that passed the test of use_lock finds it as it was when it releases
StartCorrect ==
  part = "startup" =>
    Startup0!OwnStack /\ Startup0!PagesOnce /\ Startup0!ReleasesWhatItHolds

\* pthread_lock_linux.c: one thread is between lock() and unlock() (the refinement), and
\* no increment is lost
ExerciseCorrect ==
  /\ [](part = "exercise" => Exercise!TypeOK /\ Exercise!SumPrinted)
  /\ part = "exercise" => Exercise!HeldByOne!Init
  /\ [][part = "exercise" => [Exercise!HeldByOne!Next]_(Exercise!Holder)]_sharedVars
=============================================================================
