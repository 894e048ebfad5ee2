----------------------------- MODULE MCLiveness -----------------------------
(***************************************************************************)
(* The components whose processes wait for each other, side by side, for   *)
(* TLC.  They share no state, so that all there is to know of their        *)
(* interleavings is what each does alone: one of them moves (`part`), the  *)
(* others stand still.  Their states add up instead of being multiplied.   *)
(* SleepLock is extended, the others are instances with variables of their *)
(* own.                                                                    *)
(***************************************************************************)
EXTENDS SleepLock, Integers

CONSTANTS
  x, y      \* blocks, buffers, pipes

VARIABLES
  part,
  logHome, logLogged, logHead, logCache, logDirty, logLh, logOutstanding,
  logCommitting, logTail, logPc, logBuf, logWrote,
  ideDisk, ideValid, ideDirty, ideData, ideIdequeue, ideCommand, ideSent,
  ideIntr, ideFailed, idePc, ideRead,
  pipeData, pipeNread, pipeNwrite, pipeReadopen, pipeWriteopen, pipePc,
  pipeKilled, pipeTodo, pipeCount, pipeOut,
  exFlag, exSharedResource, exPc, exI, exLoaded, exMain,
  shShell, shPc, shCmd, shParent, shFd, shPair, shMore, shItems, shAdrift,
  upPc, upFreelist, upUseLock, upLock, upCode, upStack, upStarted, upNext,
  upRead, upPage, upProcs

\* the lines of the shell
Cmd(t, l, r) == [type |-> t, left |-> l, right |-> r]
NoCmd    == Cmd("none", 0, 0)
Program  == Cmd("EXEC", NoCmd, NoCmd)
Pipeline == Cmd("PIPE", Program, Cmd("PIPE", Program, Program))
Grouped  ==
  Cmd("PIPE", Cmd("LIST", Cmd("REDIR", Program, 1), Cmd("BACK", Program, NoCmd)), Program)

\* log.c, with two processes and two blocks
Log0 == INSTANCE Log WITH
  Proc <- {"p", "q"}, Block <- {x, y}, Value <- {0}, None <- None, LOGSIZE <- 4,
  MAXOPBLOCKS <- 2, LogBlocks <- 4, OpBlocks <- 1, home <- logHome,
  logged <- logLogged, head <- logHead, cache <- logCache, dirty <- logDirty,
  lh <- logLh, outstanding <- logOutstanding, committing <- logCommitting,
  tail <- logTail, pc <- logPc, buf <- logBuf, wrote <- logWrote
logVars ==
  <<logHome, logLogged, logHead, logCache, logDirty, logLh, logOutstanding,
    logCommitting, logTail, logPc, logBuf, logWrote>>

\* ide.c, with two buffers
Ide0 == INSTANCE Ide WITH
  Buf <- {x, y}, Value <- {0, 1}, Idle <- None, disk <- ideDisk,
  valid <- ideValid, dirty <- ideDirty, data <- ideData,
  idequeue <- ideIdequeue, command <- ideCommand, sent <- ideSent,
  intr <- ideIntr, failed <- ideFailed, pc <- idePc, read <- ideRead
ideVars ==
  <<ideDisk, ideValid, ideDirty, ideData, ideIdequeue, ideCommand, ideSent,
    ideIntr, ideFailed, idePc, ideRead>>

\* pipe.c, with two readers
Pipe0 == INSTANCE Pipe WITH
  Reader <- {"p", "q"}, Writer <- {"r"}, Byte <- {0}, PIPESIZE <- 1,
  Modulus <- 2, MaxCount <- 2, data <- pipeData, nread <- pipeNread,
  nwrite <- pipeNwrite, readopen <- pipeReadopen, writeopen <- pipeWriteopen,
  pc <- pipePc, killed <- pipeKilled, todo <- pipeTodo, count <- pipeCount,
  out <- pipeOut
pipeVars ==
  <<pipeData, pipeNread, pipeNwrite, pipeReadopen, pipeWriteopen, pipePc,
    pipeKilled, pipeTodo, pipeCount, pipeOut>>

\* pthread_lock_linux.c, with three threads
Exercise == INSTANCE LockExercise WITH
  NUM_THREADS <- 3, NUM_ITERS <- 2, None <- None, flag <- exFlag,
  shared_resource <- exSharedResource, pc <- exPc, i <- exI, loaded <- exLoaded,
  main <- exMain
exVars ==
  <<exFlag, exSharedResource, exPc, exI, exLoaded, exMain>>

\* sh.c: a | b | c with five processes, then (a > f ; b &) | c with three
Shell0 == INSTANCE Shell WITH
  Lines <- {Pipeline}, NProc <- 5, NFile <- 5, Pipe <- {x, y}, Capacity <- 1,
  Output <- 2, shell <- shShell, pc <- shPc, cmd <- shCmd, parent <- shParent,
  fd <- shFd, pair <- shPair, more <- shMore, items <- shItems,
  adrift <- shAdrift
Jobs == INSTANCE Shell WITH
  Lines <- {Grouped}, NProc <- 3, NFile <- 5, Pipe <- {x, y}, Capacity <- 1,
  Output <- 1, shell <- shShell, pc <- shPc, cmd <- shCmd, parent <- shParent,
  fd <- shFd, pair <- shPair, more <- shMore, items <- shItems,
  adrift <- shAdrift
shVars ==
  <<shShell, shPc, shCmd, shParent, shFd, shPair, shMore, shItems, shAdrift>>

\* main.c, with three CPUs
Startup0 == INSTANCE Startup WITH
  NCPU <- 3, Early <- {"p", "q", "r"}, Late <- {x}, None <- None, pc <- upPc,
  freelist <- upFreelist, use_lock <- upUseLock, lock <- upLock, code <- upCode,
  stack <- upStack, started <- upStarted, next <- upNext, read <- upRead,
  page <- upPage, procs <- upProcs
upVars ==
  <<upPc, upFreelist, upUseLock, upLock, upCode, upStack, upStarted, upNext,
    upRead, upPage, upProcs>>

-----------------------------------------------------------------------------
Part == {"sleeplock", "log", "ide", "pipe", "exercise", "shell", "jobs",
         "startup"}

SideInit ==
  /\ part \in Part
  /\ Init
  /\ Log0!Init
  /\ IF part = "ide" THEN Ide0!Init ELSE Ide0!Init /\ ideSent = 0
  /\ Pipe0!Init
  /\ Exercise!Init
  /\ CASE part = "shell" -> Shell0!Init
       [] part = "jobs" -> Jobs!Init
       [] OTHER -> Shell0!Init
  /\ Startup0!Init

SideStep ==
  /\ UNCHANGED part
  /\ IF part = "sleeplock" THEN Next ELSE UNCHANGED vars
  /\ IF part = "log" THEN Log0!Next ELSE UNCHANGED logVars
  /\ IF part = "ide" THEN Ide0!Next ELSE UNCHANGED ideVars
  /\ IF part = "pipe" THEN Pipe0!Next ELSE UNCHANGED pipeVars
  /\ IF part = "exercise" THEN Exercise!Next ELSE UNCHANGED exVars
  /\ CASE part = "shell" -> Shell0!Next
       [] part = "jobs" -> Jobs!Next
       [] OTHER -> UNCHANGED shVars
  /\ IF part = "startup" THEN Startup0!Next ELSE UNCHANGED upVars

sideVars == <<part, vars, logVars, ideVars, pipeVars, exVars, shVars, upVars>>

\* main() of the lock exercise returns, and a thread that spins changes nothing
Stops == part = "exercise" /\ UNCHANGED sideVars

\* the fairness of each component, which binds it only when it is the one that moves
SleepLockFair == \A t \in Proc : WF_vars(part = "sleeplock" /\ Finishes(t))

LogFair ==
  /\ WF_logVars(part = "log" /\ Log0!Committer)
  /\ WF_logVars(part = "log" /\ Log0!Recovery)
  /\ \A t \in {"p", "q"} :
       /\ WF_logVars(part = "log" /\ Log0!LogCheck(t))
       /\ WF_logVars(part = "log" /\ Log0!LogRecord(t))
       /\ SF_logVars(part = "log" /\ Log0!end_op(t))
       /\ WF_logVars(part = "log" /\ logPc[t] = "awake" /\ Log0!begin_op(t))

IdeFair ==
  /\ WF_ideVars(part = "ide" /\ Ide0!Disk)
  /\ WF_ideVars(part = "ide" /\ Ide0!ideintr)
  /\ \A b \in {x, y} : WF_ideVars(part = "ide" /\ Ide0!iderwWait(b))

PipeFair ==
  /\ WF_pipeVars(part = "pipe" /\ Pipe0!Puts("r"))
  /\ WF_pipeVars(part = "pipe" /\ "r" \in pipeKilled /\ Pipe0!CloseWrite("r"))
  /\ \A t \in {"p", "q"} :
       /\ WF_pipeVars(part = "pipe" /\ Pipe0!Reads(t))
       /\ WF_pipeVars(part = "pipe" /\
            (Pipe0!CloseRead(t) \/ \E n \in 1 .. 2 : Pipe0!Read(t, n)))

ExerciseFair ==
  /\ WF_exVars(part = "exercise" /\ (Exercise!Create \/ Exercise!Join))
  /\ \A t \in 0 .. 2 : WF_exVars(part = "exercise" /\ Exercise!Run(t))

ShellFair ==
  /\ WF_shVars(part = "shell" /\ Shell0!LineDone)
  /\ WF_shVars(part = "shell" /\ Shell0!Restart)
  /\ \A t \in 1 .. 5 : WF_shVars(part = "shell" /\ Shell0!Runs(t))
  /\ WF_shVars(part = "jobs" /\ Jobs!LineDone)
  /\ WF_shVars(part = "jobs" /\ Jobs!Restart)
  /\ \A t \in 1 .. 3 : WF_shVars(part = "jobs" /\ Jobs!Runs(t))

StartupFair ==
  /\ WF_upVars(part = "startup" /\ Startup0!Boot)
  /\ \A c \in 0 .. 2 : WF_upVars(part = "startup" /\ Startup0!Step(c))

SideSpec ==
  /\ SideInit /\ [][SideStep \/ Stops]_sideVars
  /\ SleepLockFair /\ LogFair /\ IdeFair /\ PipeFair
  /\ ExerciseFair /\ ShellFair /\ StartupFair

ASSUME SideAssumption ==
  /\ Log0!SizesAssumption /\ Log0!NoneAssumption /\ Ide0!IdleAssumption
  /\ Pipe0!EndsAssumption /\ Pipe0!SizesAssumption /\ Exercise!ExerciseAssumption
  /\ Shell0!ShellAssumption /\ Jobs!ShellAssumption /\ Startup0!StartupAssumption

-----------------------------------------------------------------------------
(* NoLostWakeup and LockSpec are those of SleepLock                            *)

\* whoever waits in the kernel gets on: for a sleep lock that is free, for space or a
\* commit in begin_op() with crashes at any time, for the disk whatever is requested
\* meanwhile, for a pipe whose readers go on reading or close, and for the CPUs that
\* main() starts, until every CPU runs the scheduler; and main() of the lock exercise
\* joins every thread although the lock is not fair
WaitsEnd ==
  /\ FreeIsTaken /\ Log0!WaitersWoken /\ Ide0!RequestsEnd /\ Pipe0!WritesEnd
  /\ part = "startup" => Startup0!AllScheduling
  /\ part = "exercise" => Exercise!AllJoined

\* a program starts with no end of a pipe of the shell besides its input and output,
\* and the shell prompts when the line is over, but for what is in the background or
\* was left behind by a failed fork()
ShellCorrect ==
  /\ part = "shell" => Shell0!TypeOK /\ Shell0!OnlyStandard /\ Shell0!LineIsOver
  /\ part = "jobs" => Jobs!TypeOK /\ Jobs!OnlyStandard /\ Jobs!LineIsOver

\* the shell prompts again after a pipeline: nobody waits for an end of file for ever;
\* and every process of a line ends, in the background too, when fork() fails at any
\* point
LinesEnd ==
  /\ part = "shell" => Shell0!PromptReturns
  /\ part = "jobs" => Jobs!BackgroundEnds
=============================================================================
