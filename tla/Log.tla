-------------------------------- MODULE Log --------------------------------
(***************************************************************************)
(* log.c: group commit of file system operations, and recovery.  Each      *)
(* write of a block to the disk is a step, and the machine may crash       *)
(* between any two.  The steps under log.lock are atomic.                  *)
(***************************************************************************)
EXTENDS Integers, FiniteSets, SequencesExt

CONSTANTS
  Proc, Block, Value,
  None,          \* no block, and the data of a block that is not cached
  LOGSIZE,       \* what begin_op() takes the log to hold
  MAXOPBLOCKS,   \* what begin_op() reserves for an operation
  LogBlocks,     \* sb.nlog: the blocks of the log on disk, its header included
  OpBlocks       \* bound: the different blocks one operation writes

SizesAssumption ==
  /\ {LOGSIZE, MAXOPBLOCKS, LogBlocks, OpBlocks} \subseteq Nat \ {0}
  /\ MAXOPBLOCKS <= LOGSIZE

NoneAssumption == None \notin Block \cup Value

VARIABLES
  home, logged, head,      \* the disk: blocks at home, the log, its header
  cache, dirty,            \* the buffer cache: what is cached, and B_DIRTY
  lh, outstanding, committing,  \* struct log
  tail,                    \* the loop of write_log() and install_trans()
  pc, buf, wrote           \* per process: where it is, the buffer it holds
                           \* locked, the blocks its operation has written

disk   == <<home, logged, head>>
memory == <<cache, dirty>>
vars   == <<disk, memory, lh, outstanding, committing, tail, pc, buf, wrote>>

\* the kernel's own part: nothing, or a step of commit() or recover_from_log()
Phases == {"idle", "write_log", "write_head", "install", "clear", "end",
           "read_head", "reinstall", "reclear"}

TypeOK ==
  /\ home \in [Block -> Value]
  /\ logged \in [1 .. LOGSIZE -> Value]
  /\ cache \in [Block -> Value \cup {None}]
  /\ dirty \subseteq Block
  /\ IsInjective(head) /\ ToSet(head) \subseteq Block
  /\ IsInjective(lh) /\ ToSet(lh) \subseteq Block
  /\ outstanding \in 0 .. Cardinality(Proc)
  /\ committing \in Phases
  /\ tail \in 0 .. LOGSIZE
  /\ pc \in [Proc -> {"out", "asleep", "awake", "in", "check", "record", "commit"}]
  /\ buf \in [Proc -> Block \cup {None}]
  /\ wrote \in [Proc -> SUBSET Block]

\* mkfs has written zeroes; initlog() finds an empty log
Init ==
  /\ \E v \in Value : /\ home = [b \in Block |-> v]
                      /\ logged = [i \in 1 .. LOGSIZE |-> v]
  /\ head = <<>> /\ lh = <<>>
  /\ cache = [b \in Block |-> None] /\ dirty = {}
  /\ outstanding = 0 /\ committing = "idle" /\ tail = 0
  /\ pc = [p \in Proc |-> "out"]
  /\ buf = [p \in Proc |-> None]
  /\ wrote = [p \in Proc |-> {}]

\* until initlog() has returned no process runs
Recovering == committing \in {"read_head", "reinstall", "reclear"}

\* what bread() finds in a buffer
Data(b) == IF cache[b] = None THEN home[b] ELSE cache[b]

\* wakeup(&log)
Woken == [p \in Proc |-> IF pc[p] = "asleep" THEN "awake" ELSE pc[p]]

-----------------------------------------------------------------------------
\* mutant: the operation itself is not counted
RoomForOthers == Len(lh) + outstanding * MAXOPBLOCKS <= LOGSIZE
Room          == Len(lh) + (outstanding + 1) * MAXOPBLOCKS <= LOGSIZE

begin_op(p) ==
  /\ pc[p] \in {"out", "awake"}
  /\ ~ Recovering
  /\ IF committing = "idle" /\ Room
     THEN /\ outstanding' = outstanding + 1
          /\ pc' = [pc EXCEPT ![p] = "in"]
     ELSE /\ pc' = [pc EXCEPT ![p] = "asleep"]
          /\ UNCHANGED outstanding
  /\ UNCHANGED <<disk, memory, lh, committing, tail, buf, wrote>>

\* an operation changes a block in the buffer it has locked
Modify(p, b, v) ==
  /\ pc[p] = "in"
  /\ \A q \in Proc : buf[q] # b
  /\ Cardinality(wrote[p] \cup {b}) <= OpBlocks
  /\ wrote' = [wrote EXCEPT ![p] = @ \cup {b}]
  /\ buf' = [buf EXCEPT ![p] = b]
  /\ cache' = [cache EXCEPT ![b] = v]
  /\ pc' = [pc EXCEPT ![p] = "check"]
  /\ UNCHANGED <<disk, dirty, lh, outstanding, committing, tail>>

\* log_write(): the tests before log.lock is acquired.  Where they fail, the
\* kernel panics: NoPanic says that they do not.
TooBig == Len(lh) >= LOGSIZE \/ Len(lh) >= LogBlocks - 1

LogCheck(p) ==
  /\ pc[p] = "check"
  /\ ~ TooBig
  /\ pc' = [pc EXCEPT ![p] = "record"]
  /\ UNCHANGED <<disk, memory, lh, outstanding, committing, tail, buf, wrote>>

\* absorption; mutant: without it
Appended(b) == Append(lh, b)
Absorbed(b) == IF Contains(lh, b) THEN lh ELSE Append(lh, b)

\* ... the pin, and the brelse() of the caller
LogRecord(p) ==
  /\ pc[p] = "record"
  /\ lh' = Absorbed(buf[p])
  /\ dirty' = dirty \cup {buf[p]}
  /\ buf' = [buf EXCEPT ![p] = None]
  /\ pc' = [pc EXCEPT ![p] = "in"]
  /\ UNCHANGED <<disk, cache, outstanding, committing, tail, wrote>>

\* mutants: the header is written, but not the blocks it names; a group of one
\* block is not committed
HeadOnly    == IF lh = <<>> THEN "end" ELSE "write_head"
CommitMany  == IF Len(lh) <= 1 THEN "end" ELSE "write_log"
CommitFirst == IF lh = <<>> THEN "end" ELSE "write_log"

end_op(p) ==
  /\ pc[p] = "in"
  /\ outstanding' = outstanding - 1
  /\ IF outstanding = 1
     THEN /\ committing' = CommitFirst
          /\ pc' = [pc EXCEPT ![p] = "commit"]
     ELSE /\ pc' = [Woken EXCEPT ![p] = "out"]
          /\ UNCHANGED committing
  /\ wrote' = [wrote EXCEPT ![p] = {}]
  /\ UNCHANGED <<disk, memory, lh, tail, buf>>

\* the buffer cache recycles a buffer that is neither held nor dirty
Evict(b) ==
  /\ cache[b] # None /\ b \notin dirty
  /\ \A p \in Proc : buf[p] # b
  /\ cache' = [cache EXCEPT ![b] = None]
  /\ UNCHANGED <<disk, dirty, lh, outstanding, committing, tail, pc, buf, wrote>>

-----------------------------------------------------------------------------
(* commit(): by the process of the last end_op(), without log.lock *)

WriteLog ==
  /\ committing = "write_log"
  /\ logged' = [logged EXCEPT ![tail + 1] = Data(lh[tail + 1])]
  /\ IF tail + 1 < Len(lh)
     THEN tail' = tail + 1 /\ UNCHANGED committing
     ELSE tail' = 0 /\ committing' = "write_head"
  /\ UNCHANGED <<home, head, memory, lh, outstanding, pc, buf, wrote>>

WriteHead ==
  /\ committing = "write_head"
  /\ head' = lh
  /\ committing' = "install"
  /\ UNCHANGED <<home, logged, memory, lh, outstanding, tail, pc, buf, wrote>>

\* install_trans(): one block.  bwrite() clears B_DIRTY.
InstallBlock(next) ==
  /\ home' = [home EXCEPT ![lh[tail + 1]] = logged[tail + 1]]
  /\ cache' = [cache EXCEPT ![lh[tail + 1]] = logged[tail + 1]]
  /\ dirty' = dirty \ {lh[tail + 1]}
  /\ IF tail + 1 < Len(lh)
     THEN tail' = tail + 1 /\ UNCHANGED committing
     ELSE tail' = 0 /\ committing' = next
  /\ UNCHANGED <<logged, head, lh, outstanding, pc, buf, wrote>>

Install == committing = "install" /\ InstallBlock("clear")

\* log.lh.n = 0 and write_head()
ClearHead(next) ==
  /\ lh' = <<>>
  /\ head' = <<>>
  /\ committing' = next
  /\ UNCHANGED <<home, logged, memory, outstanding, tail, pc, buf, wrote>>

Clear == committing = "clear" /\ ClearHead("end")

\* mutant: the waiters are left asleep
CommitWakesNobody == pc
CommitWakes       == Woken

EndCommit ==
  /\ committing = "end"
  /\ committing' = "idle"
  /\ pc' = [p \in Proc |-> IF pc[p] = "commit" THEN "out" ELSE CommitWakes[p]]
  /\ UNCHANGED <<disk, memory, lh, outstanding, tail, buf, wrote>>

-----------------------------------------------------------------------------
(* a crash leaves the disk; initlog() runs recover_from_log() before any      *)
(* process runs                                                               *)
Crash ==
  /\ cache' = [b \in Block |-> None] /\ dirty' = {}
  /\ lh' = <<>> /\ outstanding' = 0 /\ tail' = 0
  /\ committing' = "read_head"
  /\ pc' = [p \in Proc |-> "out"]
  /\ buf' = [p \in Proc |-> None]
  /\ wrote' = [p \in Proc |-> {}]
  /\ UNCHANGED disk

ReadHead ==
  /\ committing = "read_head"
  /\ lh' = head
  /\ committing' = IF head = <<>> THEN "reclear" ELSE "reinstall"
  /\ UNCHANGED <<disk, memory, outstanding, tail, pc, buf, wrote>>

Reinstall == committing = "reinstall" /\ InstallBlock("reclear")

Reclear == committing = "reclear" /\ ClearHead("idle")

Committer == WriteLog \/ WriteHead \/ Install \/ Clear \/ EndCommit
Recovery  == ReadHead \/ Reinstall \/ Reclear

Process(p) ==
  \/ begin_op(p) \/ LogCheck(p) \/ LogRecord(p) \/ end_op(p)
  \/ \E b \in Block, v \in Value : Modify(p, b, v)

Next ==
  \/ \E p \in Proc : Process(p)
  \/ \E b \in Block : Evict(b)
  \/ Committer \/ Recovery \/ Crash

\* the scheduler and the disk let commit, recovery and operations finish; an
\* operation ends, and a process that is awake in begin_op() tests again
Fairness ==
  /\ WF_vars(Committer) /\ WF_vars(Recovery)
  /\ \A p \in Proc :
       /\ WF_vars(LogCheck(p)) /\ WF_vars(LogRecord(p))
       /\ SF_vars(end_op(p))
       /\ WF_vars(pc[p] = "awake" /\ begin_op(p))

Spec == Init /\ [][Next]_vars /\ Fairness

-----------------------------------------------------------------------------
\* what recover_from_log() would restore from the disk
Durable ==
  [b \in Block |->
     IF \E i \in 1 .. Len(head) : head[i] = b
     THEN logged[CHOOSE i \in 1 .. Len(head) : head[i] = b]
     ELSE home[b]]

Atomic == INSTANCE AtomicDisk WITH
  mem    <- IF Recovering THEN Durable ELSE [b \in Block |-> Data(b)],
  dur    <- Durable,
  active <- {p \in Proc : pc[p] \in {"in", "check", "record"}}

\* the log implements atomic, durable groups of operations: wherever the
\* machine crashes, in a commit or in a recovery, all or none of the writes of
\* the operations that ran together survive
AtomicSpec == Atomic!Spec

\* nothing is lost once the last operation has returned: between groups of
\* operations the disk holds what memory holds, and no buffer stays pinned
QuietIsDurable ==
  committing = "idle" /\ outstanding = 0 =>
    Durable = [b \in Block |-> Data(b)] /\ dirty = {}

\* the assertions of log_write() and end_op(): the reservation of begin_op()
\* keeps the log from filling up, though log_write() looks at log.lh.n before it
\* has log.lock, and no operation ends while another group is being committed
NoPanic ==
  \A p \in Proc :
    /\ pc[p] = "check" => ~ TooBig
    /\ pc[p] = "record" => Len(lh) < LOGSIZE \/ Contains(lh, buf[p])
    /\ pc[p] \in {"in", "check", "record"} => committing = "idle"

\* log.c: with a crash at any time, all or none of a group of operations survives, and
\* between groups the disk holds what memory holds; the reservation of begin_op() keeps
\* the log from filling up, and no operation ends while a group is being committed
LogCorrect == [](TypeOK /\ QuietIsDurable /\ NoPanic) /\ AtomicSpec

\* a process that waits in begin_op() is woken to test again
WaitersWoken == \A p \in Proc : pc[p] = "asleep" ~> pc[p] # "asleep"
=============================================================================
