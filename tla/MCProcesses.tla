---------------------------- MODULE MCProcesses ----------------------------
(***************************************************************************)
(* Processes, side by side, for TLC: their pipes, the switch between them, *)
(* their memory and the clock.  Each is checked over what it relies on,    *)
(* not over the others; they share no state, so that it is enough that one *)
(* of them moves (`part`).  ContextSwitch is extended, the others are      *)
(* instances with variables of their own.                                  *)
(*                                                                         *)
(* The members of Pair and Twin are interchangeable: processes, readers,   *)
(* writers.                                                                *)
(***************************************************************************)
EXTENDS ContextSwitch, SequencesExt

CONSTANTS
  Pair, Twin,
  PIPESIZE, PipeModulus, Byte,           \* of the pipes
  MaxCount, MaxWait,
  NPROC, Page, PGSIZE, NPTENTRIES, MaxPages, Image, Grow, Shrink,   \* of the memory
  SharedProcs, SharedPage, SharedMaxPages,
  ClockModulus, Durations, MaxElapsed    \* of the clock

VARIABLES
  part,
  ppData, ppNread, ppNwrite, ppReadopen, ppWriteopen, ppPc, ppKilled, ppTodo,
  ppCount, ppOut,
  mmFree, mmState, mmParent, mmSz, mmKstack, mmAs, mmCall,
  ckTicks, ckTickslock, ckLoaded, ckPc, ckN, ckTicks0, ckKilled, ckElapsed,
  ckCalled, ckTested, ckSetback

\* pipe.c: one reader and two writers, then two readers (any names do)
Bytes == INSTANCE Pipe WITH
  Reader <- {InitProc}, Writer <- Pair, Modulus <- PipeModulus,
  data <- ppData, nread <- ppNread, nwrite <- ppNwrite,
  readopen <- ppReadopen, writeopen <- ppWriteopen, pc <- ppPc,
  killed <- ppKilled, todo <- ppTodo, count <- ppCount, out <- ppOut
Waits == INSTANCE Pipe WITH
  Reader <- Twin, Writer <- Pair, Byte <- {0}, Modulus <- PipeModulus,
  MaxCount <- MaxWait, data <- ppData, nread <- ppNread, nwrite <- ppNwrite,
  readopen <- ppReadopen, writeopen <- ppWriteopen, pc <- ppPc,
  killed <- ppKilled, todo <- ppTodo, count <- ppCount, out <- ppOut

ppVars ==
  <<ppData, ppNread, ppNwrite, ppReadopen, ppWriteopen, ppPc, ppKilled, ppTodo,
    ppCount, ppOut>>

ppOff ==
  /\ ppData = None /\ ppNread = None /\ ppNwrite = None /\ ppReadopen = None
  /\ ppWriteopen = None /\ ppPc = None /\ ppKilled = None /\ ppTodo = None
  /\ ppCount = None /\ ppOut = None

\* kalloc.c, vm.c, exec.c: processes with all calls, then more of them that just fork
\* and grow
Memory0 == INSTANCE Memory WITH
  GiveUpAll <- FALSE, free <- mmFree, state <- mmState, parent <- mmParent,
  sz <- mmSz, kstack <- mmKstack, as <- mmAs, call <- mmCall
Shared == INSTANCE Memory WITH
  NPROC <- SharedProcs, Page <- SharedPage, MaxPages <- SharedMaxPages,
  Image <- {}, Grow <- {1}, Shrink <- {}, GiveUpAll <- FALSE,
  free <- mmFree, state <- mmState, parent <- mmParent, sz <- mmSz,
  kstack <- mmKstack, as <- mmAs, call <- mmCall

mmVars ==
  <<mmFree, mmState, mmParent, mmSz, mmKstack, mmAs, mmCall>>

mmOff ==
  /\ mmFree = None /\ mmState = None /\ mmParent = None /\ mmSz = None
  /\ mmKstack = None /\ mmAs = None /\ mmCall = None

\* the ticks and sys_sleep(): two processes
Clock0 == INSTANCE Clock WITH
  Sleeper <- Pair, Nobody <- None, Handler <- InitProc,
  Modulus <- ClockModulus, ticks <- ckTicks, tickslock <- ckTickslock, loaded <- ckLoaded, pc <- ckPc, n <- ckN,
  ticks0 <- ckTicks0, killed <- ckKilled, elapsed <- ckElapsed,
  called <- ckCalled, tested <- ckTested, setback <- ckSetback

ckVars ==
  <<ckTicks, ckTickslock, ckLoaded, ckPc, ckN, ckTicks0, ckKilled, ckElapsed,
    ckCalled, ckTested, ckSetback>>

ckOff ==
  /\ ckTicks = None /\ ckTickslock = None /\ ckLoaded = None /\ ckPc = None
  /\ ckN = None /\ ckTicks0 = None /\ ckKilled = None /\ ckElapsed = None
  /\ ckCalled = None /\ ckTested = None /\ ckSetback = None

-----------------------------------------------------------------------------
Part == {"switch", "pipe", "waits", "memory", "shared", "clock"}

SideInit ==
  /\ part \in Part
  /\ Init
  /\ CASE part = "pipe" -> Bytes!Init
       [] part = "waits" -> Waits!Init
       [] OTHER -> ppOff
  /\ CASE part = "memory" -> Memory0!Init
       [] part = "shared" -> Shared!Init
       [] OTHER -> mmOff
  /\ IF part = "clock" THEN Clock0!Init ELSE ckOff

SideStep ==
  /\ UNCHANGED part
  /\ IF part = "switch" THEN Next ELSE UNCHANGED vars
  /\ CASE part = "pipe" -> Bytes!Next
       [] part = "waits" -> Waits!Next
       [] OTHER -> UNCHANGED ppVars
  /\ CASE part = "memory" -> Memory0!Next
       [] part = "shared" -> Shared!Next
       [] OTHER -> UNCHANGED mmVars
  /\ IF part = "clock" THEN Clock0!Next ELSE UNCHANGED ckVars

sideVars == <<part, vars, ppVars, mmVars, ckVars>>

SideSpec == SideInit /\ [][SideStep]_sideVars

Symmetry == Permutations(Pair) \cup Permutations(Twin)

ASSUME SideAssumption ==
  /\ Bytes!EndsAssumption /\ Bytes!SizesAssumption
  /\ Waits!EndsAssumption /\ Waits!SizesAssumption
  /\ Memory0!PageAssumption /\ Shared!PageAssumption
  /\ Clock0!HolderAssumption /\ Clock0!ModulusAssumption
  /\ Clock0!DurationsAssumption /\ Clock0!BoundsAssumption

-----------------------------------------------------------------------------
(* One property for each component: its parts are named where they are defined. *)
(* SwitchCorrect is that of ContextSwitch.                                      *)

\* pipe.c: the pipe is a stream of bytes, whoever closes, is killed or sleeps (the
\* refinement), and nobody sleeps who could read or write
PipesCorrect ==
  /\ [](part = "pipe" => Bytes!TypeOK)
  /\ [](part = "waits" => Waits!SleepersBlocked)
  /\ part = "pipe" => Bytes!Stream!Init
  /\ [][part = "pipe" => [Bytes!Stream!Next]_(Bytes!Stream!vars)]_sideVars

\* kalloc.c, vm.c, exec.c: every page is in one place, also when memory runs out
\* halfway; between calls a process has the pages of its size and no others; and a
\* call that fails leaves its memory as it was
MemoryCorrect ==
  /\ part = "memory" =>
       /\ Memory0!TypeOK /\ Memory0!OnePlace /\ Memory0!SizeIsMapped
       /\ Memory0!FailureKeepsMemory
  /\ part = "shared" => Shared!OnePlace

\* trap.c, sysproc.c: nobody sleeps through a tick, and sleep(n) takes n ticks at
\* least, unless killed or set back
ClockCorrect ==
  /\ [](part = "clock" => Clock0!TypeOK /\ Clock0!NoTickMissed)
  /\ [][part = "clock" =>
          \A p \in Pair :
            Clock0!SleepReturn(p) =>
              ckKilled[p] \/ ckSetback[p] \/ ckElapsed - ckCalled[p] >= ckN[p]]_sideVars
=============================================================================
