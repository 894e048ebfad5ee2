# Verification of the OS_project02 kernel

A TLA+ development of the operating-system course project in this repository:
an xv6 kernel for x86 multiprocessors whose scheduler was replaced by a
multi-level feedback queue (MLFQ) with a monopoly queue (MoQ), with its user
programs and the tool that builds its disk. TLC checks small instances of every
module (the `.cfg` files, one per run); TLAPS proves theorems about the core of
it for every value of the constants (section 4).

The models are translated from `src/OS_project02/xv6-public`; line numbers below
are of that directory. The repository holds two more copies of the kernel:
`OS_project03/xv6-public` has the same kernel sources, and
`OS_project01/xv6-public` is the kernel before the new scheduler, which differs
in `proc.c`, `trap.c`, `sysproc.c` and `syscall.c`; its scheduler takes a
process straight from the table, and the protocol of its switch, the part that
can go wrong, is the one of `ContextSwitch`. `OS_project04` holds a report only.
Hence two thirds of the implementation lines of the repository are copies, and
the `map` of `PROJECT.json` names one place of each thing: about 18% of all the
lines, about half of those of one kernel.

## 1. The system

| part | state | operations | interacts with |
|---|---|---|---|
| process table, `proc.c` | `ptable.proc[NPROC]` (state, pid, parent, chan, killed, level, tq, priority, monopoly, kernel stack), `nextpid`, `ptable.lock` | `allocproc fork exit wait kill sleep wakeup1 yield sched` | run queues; timer; every component that sleeps |
| scheduler, `proc.c:426-496` | per CPU: `proc`, `monopoly`, place in the loop | `scheduler priorityboosting setmonopoly monopolize unmonopolize setpriority` | takes processes from the queues, switches to them with `ptable.lock` held |
| timer and accounting, `trap.c:49-144` | `ticks`, `tickslock`, `p->tq`, `p->level`, `p->priority` | tick, wakeup of the sleepers, quantum, demotion, exit of killed processes | preempts processes and the scheduler loop |
| circular queue, `queue.h` | array, front, rear | `initqueue insertqueue deletequeue sizeofqueue isfull isempty` | levels 0-2 of the MLFQ, and the MoQ |
| priority heap, `heap.h` | array of pointers, size; keys live in `struct proc` | `initheap insertheap deleteheap heapify` | level 3; `setpriority` and the aging of `trap` change the keys |
| tick calls, `sysproc.c:59-91` | `ticks`, locals of `sys_sleep` | `sleep uptime` | `tickslock`; the scheduler sets `ticks` back |
| arguments of system calls, `syscall.c` | the user stack, `sz` | `fetchint fetchstr argint argptr argstr` | memory of the process |
| spin locks, `spinlock.c` | `locked`, `cpu`; per CPU `ncli`, `intena` | `acquire release holding pushcli popcli` | the interrupt flag; carried across `swtch()` |
| sleep locks, `sleeplock.c` | `locked`, `pid`, the inner spin lock | `acquiresleep releasesleep` | `sleep`, `wakeup`, `kill` |
| log, `log.c` | header in memory and on disk, `outstanding`, `committing` | `begin_op end_op log_write commit recover` | buffer cache, disk, crashes |
| buffer cache, `bio.c` | LRU list, `refcnt`, flags, one sleep lock per buffer | `bread bwrite brelse` | sleep locks, disk driver, log |
| disk driver, `ide.c` | request queue, the command at the disk | `iderw ideintr idestart` | the disk's interrupt, `sleep`/`wakeup` |
| inode cache, `fs.c` | `icache` (ref, valid, lock, copy), inodes on disk | `iget idup ilock iunlock iput iupdate ialloc` | log, buffer cache |
| files and directories, `fs.c`, `sysfile.c` | blocks, bitmap, directories, link counts | `balloc bfree bmap itrunc readi writei dirlookup dirlink namex create link unlink mkdir open chdir` | inode cache |
| open files, `file.c`, `sysfile.c` | `ftable`, descriptors | `filealloc filedup fileclose fileread filewrite` | inodes, pipes |
| pipes, `pipe.c` | ring, `nread`, `nwrite`, open ends | `piperead pipewrite pipeclose` | `sleep`/`wakeup`, `kill` |
| console, `console.c` | input ring `r w e`; the display and the cursor | `consoleintr consoleread cgaputc` | keyboard interrupt, `sleep`/`wakeup` |
| page allocator, `kalloc.c` | free list, `use_lock` | `kalloc kfree kinit1 kinit2` | all CPUs, also while they start |
| virtual memory, exec, `vm.c`, `exec.c` | page tables, `sz` | `allocuvm deallocuvm copyuvm freevm growproc exec` | page allocator |
| boot, `bootmain.c`, `main.c` | memory; per CPU its entry code, stack, flag | loading the kernel, `startothers mpenter` | page allocator |
| shell, `sh.c`; `init.c` | processes, descriptors, pipes | parse, run, redirect, wait | fork, exec, pipes |
| `umalloc.c`, `grep.c` | free list; buffer of a line | `malloc free`; `grep match` | `sbrk`; pipes |
| image builder, `mkfs.c` | inodes, bitmap, disk | `iappend ialloc balloc` | read by the kernel's `bmap()` |
| lock exercise, `OS_project03/pthread_lock_linux.c` | flag, shared counter | `lock unlock` | its threads |

### What is hard about it

* **The lock that crosses the switch.** `ptable.lock` is acquired by a process
  in `yield`, `sleep` or `exit`, and released by the scheduler it switches to, or
  the other way round (`proc.c:447-456`, `543`, `551`, `598`). In between, a
  process is marked RUNNABLE, SLEEPING or ZOMBIE while a CPU still uses its
  kernel stack.
* **Unlocked accesses.** `trap.c:105-139` reads `monopoly` and writes `level`
  and `tq` without `ptable.lock`; `ticks = 0` (`proc.c:99, 474, 492, 536`) is
  done without `tickslock`; `fork` gives a slot back without `ptable.lock`
  (`proc.c:306`).
* **Queues of pointers to slots that are reused.** Entries are not removed
  when a process is killed, monopolized, exits or is reaped; the dispatcher
  throws stale entries away (`proc.c:443`, `459`).
* **Wakeups.** `wait`/`exit`, `sleep`/tick, a sleep lock, a full pipe, a log that
  commits, the disk; and `kill` of a sleeper, which sets it RUNNABLE without
  putting it into a queue (`proc.c:648-649`); only the next boost does.
* **Crashes.** The disk keeps what was written, block by block; a commit, its
  installation and the recovery itself can each stop halfway.
* **Names for things that are reused.** A buffer is recycled for another block, a
  slot of the inode cache for another inode, an inode number for another file,
  while others wait for the old one's lock.
* **Time.** The boost is due only while `ticks % 100 == 0`; a tick that is not
  noticed costs a whole period.
* **Numbers.** The ring is full at `NPROC - 1`; the heap's children indices;
  `ticks - ticks0 < n` and the pipe's counters in unsigned arithmetic; sizes that
  fill the last block; a read that ends in the middle of a line.

`PROJECT.json` lists every such hazard at its line, with the properties that
cover it, or with the reason why none does.

### What makes each part correct

* process table and scheduler: a process is on one CPU at most; a stack is not
  freed under a CPU; `ptable.lock` is held exactly from a switch to its
  release; each runnable process waits in one queue, that of its level; the
  best level first; no exit missed, no orphan lost, a kill reaches the target;
  nobody starves.
* queue: a bounded FIFO. Heap: a bag from which a maximum is taken.
* clock: no tick lost between the test and the sleep; no early return.
* spin locks: interrupts off exactly while a lock is held or an interrupt is
  handled. Sleep locks: mutual exclusion, no lost wakeup.
* log: a group of operations survives a crash as a whole or not at all; the
  reserved space is enough. Buffer cache: one content and one user for a block.
  Driver: requests served in order, each waiter gets what it asked for. Inode
  cache: one slot for an inode, its copy that of the disk, freed by its last
  user only.
* files: a sequence of bytes; directories a tree whose link counts are right;
  every reference given back once. Pipes: a byte stream in order, no reader or
  writer left asleep. Console: the line read is the line edited.
* memory: no page twice, no page lost, also when a call fails halfway.
* boot and images: what is in memory, or on disk, is what the file says.

## 2. The modules

| module | models | kind |
|---|---|---|
| `Scheduler` | process table, scheduler, timer interrupt and the process calls, on any number of CPUs; the queues as values, with what `insertmlfq`, `insertmoq`, `deletequeue`, `deleteheap` and the slot order of table scans do to them | state machine |
| `SchedulerTiming` | `Scheduler` with a slow timer and fairness, and the workload of `rn_test4` (`rn_test.c:257-289`) | state machine |
| `SchedulerProofs` | the theorems about it | proofs |
| `BoundedFifo`, `RingQueue` | what `queue.h` promises; `queue.h` with its array and its two indices | abstract; implements it |
| `PriorityBag`, `PriorityHeap` | what `heap.h` promises; `heap.h`, a step per round of sift-up or per call of `heapify` | abstract; implements it |
| `ContextSwitch` | spin locks, the interrupt flag, interrupts and `swtch()`, instruction by instruction | state machine |
| `Clock` | `ticks`, `sys_sleep`, the tick handler, with the width of the counter | state machine |
| `Mutex`, `SleepLock` | a lock; sleep locks over `sleep`, `wakeup` and `kill` | abstract; implements it |
| `AtomicDisk`, `Log` | groups of writes that take effect as a whole; `log.c` | abstract; implements it |
| `BlockStore`, `BufferCache` | one content and one user for a block; `bio.c`, and the proof | abstract; implements it |
| `Ide`, `InodeCache` | `ide.c`; the in-memory inodes of `fs.c` | state machines |
| `MCStorage`, `StorageProofs` | the four of them for TLC; the theorems about the log, the disk driver, the buffer cache and the inode cache | for TLC; proofs |
| `FileSystem` | the calls on names: `create`, `link`, `unlink`, `mkdir`, `open`, `chdir`, with their locks and references | state machine |
| `ByteFiles`, `FileContents` | files as sequences of bytes; `readi`, `writei`, `bmap`, `balloc`, `itrunc` and the chunks of `filewrite` | abstract; implements it |
| `FileTable` | `file.c` and the descriptors | state machine |
| `PathNames` | `skipelem`, `namecmp`, `dirlookup`, `dirlink`, byte by byte | algorithm |
| `LineInput`, `Console` | a line editor; `consoleintr` and `consoleread`, and next to them the display, `cgaputc` | abstract; implements it |
| `MCFiles` | `FileContents`, `PathNames` and the parts of `MCSharing` | for TLC |
| `ByteStream`, `Pipe` | a stream of bytes; `pipe.c`, and the proof | abstract; implements it |
| `Memory` | `kalloc`, page tables, `fork`, `exec`, `growproc`, `wait`, each of which may fail halfway; the proofs about them | state machine; proofs |
| `MCProcesses`, `ProcessesProofs` | `ContextSwitch`, `Pipe`, `Memory` and `Clock`; the theorems about the switch, the pipes, the memory and the clock | for TLC; proofs |
| `Startup` | `main()` on all CPUs: the allocator before and after `use_lock`, `startothers`, `mpenter` | state machine |
| `LockExercise` | `pthread_lock_linux.c` | implements `Mutex` |
| `MCSharing`, `SharingProofs` | `FileSystem`, `FileTable`, `Console`, `Startup` and `LockExercise`; the theorems about the open files, the start, the lock exercise and the sleep lock | parts of `MCFiles`; proofs |
| `FilesProofs` | the theorems about directories and link counts, and about the two rings, `RingQueue` and `Console` | proofs |
| `Shell` | `sh.c` and `init.c` running a line: processes, descriptors, pipes, failures of `fork` | state machine |
| `MCLiveness` | `SleepLock`, `Log`, `Ide`, `Pipe`, `LockExercise`, `Shell` and `Startup`, with fairness | for TLC |
| `ShellParser`, `UserHeap`, `Grep`, `Arguments`, `BootLoader`, `DiskImage` | the parser of `sh.c`; `malloc` and `free`; `grep`; the fetching of arguments; `bootmain`; `mkfs` | algorithms |
| `MCPrograms` | these, with `RingQueue` and `PriorityHeap` | for TLC |

The `MC` modules of several components put them side by side: each has
variables of its own, `part` says which one moves, and the others stand still.
They share no state in the code (where one uses another, it is checked over what
that other promises), so all there is to know of their interleavings is what each
does alone, and their states add up instead of being multiplied. `SharedSpec` of
`MCSharing` is what the specification of `MCFiles` says of the variables of its
shared parts: `SideInit` and `SideStep` have `SharedInit` and `SharedStep` as
conjuncts, and `Stops` changes nothing. So the theorems of `SharingProofs` and
`FilesProofs` are about the very properties that the run `files` checks.

### Scheduler

State: the fields of `struct proc` that scheduling reads (`state`, `pid`,
`parent`, `chan`, `killed`, `level`, `tq`, `monopoly`), `nextpid`, `ticks`, the
queues (`mlfq`, `moq`), the holder of `ptable.lock` (`lock`), for each CPU
`cproc`, `cmono` and where it is (`cpc`: in the loop of `scheduler()`; in the
tick handler on top of that loop; `resume`, switched to a process that has not
released `ptable.lock` yet; `run`, executing a process; `back`, switched to by a
process that has given up). The kernel stack of a process is reduced to `at`,
the point of its own code, `trap`, the point of a timer interrupt on top of it,
and the locals that matter (`np` of `fork`, `level` of `trap`).

One action is what a CPU does between two points where another CPU or an
interrupt can come in:

* a section under `ptable.lock` is one action. The release of the lock belongs
  to the same action, unless the lock is carried across `swtch()`; then the
  switch is in the action (`SwitchToScheduler`, `Dispatch`) and the release is
  the first thing the other side does (`SchedBack`, `Resume`; in `wait()` the
  lock is kept and the scan is the other side's action, `WaitAgain`);
* what `trap()` does unlocked is an action per shared access that others can
  interleave with: the test of `monopoly` with the count (`TrapAccount`,
  `TrapCount`), the write of the level (`TrapExpire`), the call of `yield`
  (`TrapYield`);
* `fork()` is two sections: `allocproc` (`SysFork`), then success or failure of
  the memory allocations (`ForkDone`, `ForkFail`).

Abstractions: `ticks` counts to `BoostPeriod` and then modulo `BoostPeriod`,
since the code only tests `ticks % 100` and `ticks != 0`; the heap is a bag
whose root may be any member (`PriorityHeap` has the keys, and `setpriority` can
put them into any order); quantum and period are constants (`TqBase`, `TqStep`,
`BoostPeriod`; 2, 2 and 100 in the code). `tickslock` is the predicate
`TicksLockFree`: nobody is in the handler or between the comparison and the
sleep of `sys_sleep`. `nextpid <= MaxPid` bounds the number of forks.
`userinit()` gives the first slot to init, which never exits by itself, and a
process of the model may make any call of `Calls` at any moment: it may also
never make one.

### The others

* `RingQueue` has the array, `front` and `rear` of `struct queue` and one action
  per function; `PriorityHeap` has an action for the part of a call up to its
  loop, then `MoveUp` for a round of the loop, or `heapify` for one call of the
  recursion; `SetPriority` and `Age` change the keys. `Scheduler` uses the queues
  as values: `EnqueueAll`, `Tail` and `Head` are the
  operations of `BoundedFifo`, and adding to or taking from the bag `cnt` those
  of `PriorityBag` without its choice of a maximum, which `setpriority`
  invalidates.
* `ContextSwitch` gives each thread (the scheduler of a CPU, or a process) a stack
  of frames with a place in `acquire`, `release`, `sched`, an interrupt and so
  on, and each CPU `ncli`, `intena` and the flag; an interrupt can come before
  every instruction that has the flag on, and a process moves from one CPU to
  another.
* `Log` has the blocks of the disk (home, log, header), the buffers and `lh` in
  memory, and one action per write of a block, so that a crash can come between
  any two. `BufferCache` and `InodeCache` have an action per section of the lock of
  the cache, per handover of a sleep lock and per transfer; `Ide` one per call,
  interrupt and wakeup.
* `FileSystem` goes through each call lock by lock, by paths that begin at the root
  directory or at the current one and may be empty; directory contents are
  functions from names to inodes, `PathNames` has them byte by byte.
  `FileContents` has the block map, the bitmap and the on-disk copies of inodes.
  `Pipe` has the ring and its two counters modulo a power of two.
* `Memory` has page frames, page tables and the calls that build or tear them
  down, each allocation of which may fail; `Startup` has the same free list at boot,
  where several CPUs use it while `use_lock` is set.
* `Shell` runs the commands of a parsed line as processes with descriptors;
  `ShellParser` finds that command. The rest are algorithms a step at a time.

## 3. The runs

| run | module | bounds | shows |
|---|---|---|---|
| `sched_life` | `Scheduler` | 4 slots, 2 CPUs, pids to 3; `fork exit wait` | the life of processes on two CPUs: the switch, the stacks, the queues, the choice of the dispatcher |
| `sched_orphan` | `Scheduler` | 5 slots, 1 CPU, pids to 4; with `kill monopolize unmonopolize` | orphans: zombies and live children of a process that is no child of init; `kill` of a process anywhere |
| `sched_moq` | `Scheduler` | 3 slots, 1 CPU, pids to 3, of which two can be named; `fork sleep setmonopoly monopolize` | level 99 and the MoQ, with stale and doubled entries in both queues, up to a full MoQ |
| `sched_live` | `SchedulerTiming` | 4 slots, 1 CPU, period 5, quantum 2; `fork wait kill yield` | no starvation; a killed process exits; nobody runs past its quantum |
| `storage` | `MCStorage` | log: 3 processes, 3 blocks, `LOGSIZE` 4; cache: 3 processes, 3 blocks, 2 buffers, and 2, 4, 3; 3 requests to the disk; 3 processes, 2 inodes, 3 slots | atomic and durable groups of writes with crashes; one content and user of a block; requests answered; the inode cache coherent |
| `files` | `MCFiles` | 2 processes, 3 inodes; 2 names; files of 5 bytes in blocks of 2; 3 open files of 2 descriptors each; ring of 3 keys; screen of 3 by 3; paths of 4 bytes; 3 CPUs and 4 pages; 3 threads of 2 rounds | names and link counts, the tree, file contents, references, names, the console, the start, the lock exercise |
| `processes` | `MCProcesses` | 2 CPUs, 2 processes; pipe of 2 bytes; 13 or 14 pages; counters modulo 4 | interrupt flag across the switch, pipes, memory that runs out, the clock |
| `programs` | `MCPrograms` | array of 4 and of 5; 11 units of memory; 6 tokens; words of 5 bits; 8 bytes of memory, 26 blocks of disk | queue and heap; allocator, parser, `grep`; arguments; boot and images |
| `liveness` | `MCLiveness` | 2 or 3 processes each; 5 for the shell; 3 CPUs | everybody who waits gets on |
| `bug_heap_lock`, `bug_queue_full`, `bug_mono_lost` | `Scheduler`, `SchedulerTiming` | 3 slots | the disagreements of section 5 |

Deadlock is checked in all of them but `sched_moq` and the `bug_*` runs, where
`scheduler()` can panic (section 5) and the machine stops. The action `Stops` of
an `MC` module says which parts come to an end, and why: an algorithm that is
finished, or a bound on names, bytes or keys that is reached.

What the properties of a run are about:

* `OneCpu`, `StackInUse`: the protocol of `ptable.lock` around `swtch()`.
  Releasing the lock before the switch (the classical mistake) breaks both.
* `NoMissedExit`: a process that sleeps in `wait()` has children and none of
  them is a zombie, adopted ones included. `ParentAlive`: no process is left with
  a parent that has exited. `KillReachesWait`: no order of `kill`, wakeups and the
  scan of `wait` leaves a killed process asleep there.
* `QueuesCorrect`, `PickLowestLevel`: without `setmonopoly`, every runnable
  process has exactly one entry, in the queue of its level (but the one that
  `kill` made runnable, which has none until the next boost); so the dispatcher
  never meets a stale heap entry, which would leave the lock held, and never
  passes over a better level.
* `MonopolyLevelOnly`: level 99 never appears at a process that is not in
  monopoly mode, through `fork` that fails or not, `setmonopoly` of a slot it has
  not finished, and boosts. (The reuse of a monopolized slot after `exit` is beyond
  the bounds of the run; the theorem covers it.)
  `MoqHoldsSleepers`: no step that begins with room in the MoQ leaves a monopolized
  process asleep without an entry in it, where it is found once it is woken. When
  the MoQ is full, which the doubled entries of one process can bring about,
  `insertqueue()` drops the entry of another (`queue.h:48`), and that one does sleep
  outside of it; the run gets there, with two processes that can be named.
* `TqBounded`, `NoStarvation`, `KilledExits`: see "Fairness and time".
* `LogCorrect`, `CacheCorrect`: the refinements of `AtomicDisk` and `BlockStore`,
  with the space of the log, the durability of what is quiet, no lost wakeup at a
  buffer, and no `bget()` without a buffer when there are enough. `DiskCorrect`: who
  comes out of `iderw()` has what it asked for. `InodesCorrect`: an inode has one slot,
  its copy is what is on disk, nobody frees what another one uses.
* `DirectoriesCorrect`, `ContentsCorrect`, `OpenFilesCorrect`, `NamesCorrect`,
  `ConsoleCorrect`: the files. `SwitchCorrect`, `PipesCorrect`, `MemoryCorrect`,
  `ClockCorrect`: the processes. `FifoSpec`, `HeapCorrect`, `AllocatorCorrect`,
  `ParserCorrect`, `GrepCorrect`, `ArgumentsCorrect`, `ImagesCorrect`: the data
  structures and programs.
* `StartCorrect`: each CPU comes up on a stack of its own, and the free list stays whole
  while it has no lock. `ExerciseCorrect`: the xchg lock is a lock, no increment is lost.
* `NoLostWakeup`, `LockSpec`, `WaitsEnd`, `ShellCorrect`, `LinesEnd`: those who wait for
  each other.

A property of an `MC` module is the conjunction of the properties of one
component, which are named and explained where they are defined.

What they leave out, because the code does not do it or does not promise it:

* `RequestDone` of `Ide` is about requests, reads and writes, that the disk did not fail;
  `SleepersBlocked` of `Pipe` excepts the readers that a killed writer leaves
  asleep (section 5); `SleepLongEnough` excepts a sleep during which the
  scheduler set `ticks` back.
* `Grep` gets lines that fit into the buffer, and a last line without a newline is
  never searched. `BootLoader` assumes what the linker does: no sector of the file
  belongs to two segments. `balloc()` panics when the disk is full.
* The exact link counts of `DirectoriesCorrect` (`LinksExact`) are those between calls
  that do not cross (one process moves until it has returned and closed what it had
  opened, then another), and without `chdir()`. Both are needed: between two steps of a
  call a count runs ahead of the names, and a process whose current directory has
  been removed, by itself or by another one, can create a file there that keeps its
  count when the directory is freed (section 5). The rest of `DirectoriesCorrect`
  holds with all the calls crossing; the run lets those on files cross, and then those
  on directories, `chdir()` among them; `CallsKeepTree` of section 4 is about all of
  them at once. A process that waits for ever in a cycle of locks (section 5)
  violates none of this.
* `Startup` has `userinit()` as one step, without its allocations: no other CPU
  allocates before there is a process. `startothers()` does not test what `kalloc()`
  returns; `StartupAssumption` asks for a page of `kinit1()` for each CPU.

### Why the bounds are enough

With pids up to 3 there is init, two more processes, and a slot that has been
reaped and is used again: exit before wait, wait before exit, every way two
processes and their parent can meet. The table has one slot more than that,
because a queue holds one process less than the table (`bug_queue_full` is about
what happens otherwise). A fourth pid (`sched_orphan`) makes a process that is no
child of init a parent: only then is the zombie it hands on the one reason to
wake init, whose own children are all alive. `sched_moq` names the two
pids that are not init's (`PidArgs = {2, 3}`): they are reached by a process that
monopolizes itself, by another one, and while a fork is not finished or has failed.
Its MoQ has two places, which two entries of one of them fill. Two CPUs
give every pairwise race; a third would add only another contender for the same
lock, and all that is proved (section 4) is proved for any number of them. Period
2 and quantum 1 in the safety runs make boosts, demotions through all levels and
yields at a boost possible within few steps; every state of a longer period has
its counterpart (due, not due, 0).

The other components: a ring of 4 wraps around after 4 insertions, and an array
of 5 gives the heap a last parent with one child and one with two. The log is
as tight as that of the code: `begin_op()` admits two operations and makes the
third wait. With fewer buffers than blocks each block is recycled under a process
that waits for it; with three processes two wait while one holds. Two inodes
and three slots make an inode come back in another slot. Pipes and the console
have rings of 2 or 3 and counters that wrap around after 4 or 6, so that every
position of reader and writer occurs, and the counters overflow in the run.
Files of 5 bytes in blocks of 2 have a block reached directly, one by the
indirect block, and a last one that is not full. Memory of 13 pages suffices for
two processes, but not for what they ask for on top; every allocation fails in
some behaviour. Words of 5 bits wrap around. The lines of the shell have a
pipe in a pipe, a list, a redirection and a background job.

Members of `Proc`, `Block` and so on are interchangeable, and the safety runs
without `CHOOSE` over them use their symmetry; a set that is only a number of
things may stand for a set of other things of that number (the comment of each
`MC` module says so). The liveness run has no symmetry.

### Fairness and time

`SchedulerTiming` assumes what the machine gives: a CPU goes on executing the
kernel (weak fairness of the kernel steps of each CPU), and the timer goes off
again and again, an interrupt that finds interrupts disabled staying pending in
the local APIC (strong fairness of a tick). Programs owe nothing: a process may
compute for ever, and the properties must hold all the same.

It also assumes that the timer is slow compared with the kernel: a CPU that has
something to run finishes the few instructions of the scheduler loop that have
interrupts enabled without a tick, and the code a tick has interrupted gets on
before the next one. A program in user space gets on without a step of the
model. This is the case on the machine (10 ms between ticks), and it is needed:
without it the tick that makes a boost due can fall into the loop and the
process picked next can run into the following tick, so that no scheduler ever
sees `ticks % 100 == 0`. With processes sleeping on `&ticks` the same can
happen even with a slow timer, because the due tick itself wakes a sleeper that
then runs into the next tick; the run therefore has no `sleep` call. The period
is 5 with quantum 2 and four slots: long enough for every process of `q[0]` to
have its turn within a period. With many more CPU-bound processes than fit into
a period (about 50 for the constants of the code) a boost that rebuilds `q[0]` in slot
order starves the last slots; that is outside of what TLC can enumerate.

In `MCLiveness` each process that is awake takes its next step (weak fairness of
its kernel code), the disk answers, and the processor that commits or recovers
goes on, while crashes come at any time. Programs owe what is needed for others
to get on and no more: an operation that has begun ends (`end_op`, strong
fairness, since a crash may always come before it), the readers of a pipe go on
reading or close it, a killed process exits. Nobody is obliged to make a call.

## 4. What is proved

For every value of the constants that the named assumptions allow; they are
those of the modules (sets are not empty, "none" is not a member, a width or a
length is a positive number), unless something else is said here.

* `SchedulerProofs` (at least two slots, period at least 2, quantum at least 1;
  any number of CPUs, all the calls).
  - `TypeOK`, `OneCpu`, `StackInUse`. `OneCpu` alone is not inductive: a CPU may
    dispatch a RUNNABLE process only because no other CPU can still be on its
    stack. The inductive invariant `Inv` says why: a CPU that is between a switch
    and the release of `ptable.lock` holds it (`CpuInv`), so that whoever finds the
    lock free finds no CPU there; and the slot that a `fork` has allocated is
    EMBRYO and no other fork's (`ForkInv`), so that finishing it, or giving it back
    without the lock, concerns no CPU. Steps that move only sleepers and unused
    slots (`QuietMove`) preserve `CpuInv` by one lemma; the handovers (`Dispatch`,
    `SwitchToScheduler`, `Resume`, `SchedBack`) each have their own.
  - `ParentAlive`, `NoMissedExit`, `KillReachesWait`. They rest on each other and on
    the family tree (`FamilyInv`): init is live and has no parent; every parent is
    live, because `exit` passes its children to init before it becomes a zombie; a
    slot that `fork` has not finished has no parent yet, so that giving it back
    takes no child away from a sleeper; and nobody is its own parent. Then the
    scan and the sleep of `wait` under one holding of `ptable.lock` are what keeps
    a wakeup from being lost.
  - `QueuesCorrect` and `PickLowestLevel`, as long as a slot of the table is free
    (`SlotFree`; otherwise the queue overflows, `bug_queue_full`), nobody calls
    `setmonopoly` (which leaves stale entries, `bug_heap_lock`) and nobody kills
    init (its `exit` panics). `QueueInv` counts the entries of a process over all
    the queues, with the CPUs that have taken it out and not put it back.
  - `TqBounded`: the unlocked count of `trap()` is on the process that the CPU
    executes, and nobody else writes its quantum but to clear it.
  - `MonopolyLevelOnly`, also when a monopolized slot is reaped and used again. And
    `MoqHoldsSleepers`, a property of steps with the room in the MoQ as its
    hypothesis: `sleep()` and `setmonopoly()` insert the process in the section that
    puts it to sleep or makes it monopolized, a rotation puts back what it has taken
    out, and a dispatch takes out only what does not sleep (`MoqMove`).
* `StorageProofs` and `BufferCache`:
  - `LogCorrect`, for any number of processes and blocks, with a crash
    between any two writes. `RoomAssumption` is what the reservation of `begin_op()`
    needs: an operation writes fewer than `MAXOPBLOCKS` blocks (9 at most, of the 10
    the code reserves), and the log on disk has the room that implies. With exactly
    `MAXOPBLOCKS` it is false (section 5). `LogInv`: the header in memory lists each
    block once, has room for all that the running operations may still write
    (`Counted`, `Reserved`), nobody runs while one commits (`Alone`), what is
    listed is pinned in the cache (`Held`), the log on disk is a prefix of what the
    commit has got to (`Formed`, `Copied`). The refinement maps a step that writes the
    header to the commit of `AtomicDisk`, and every other write to a stutter.
  - `DiskCorrect`: the command at the disk is that of the head of the queue
    (`ActiveIsHead`), which alone can be changed by an interrupt; a process waits just
    for a buffer in the queue, and a buffer out of the queue is settled.
  - `ImplementsStore`, `CacheCorrect`: `refcnt` counts the processes that have a
    reference (`Counted`), a referenced buffer keeps its block (`Placed`), no block
    is in two buffers (`OneBuffer`), and a buffer that is valid and not written has
    what is on disk (`Fresh`). With buffers for all processes and all dirty blocks
    `bget()` finds one: the others are few enough to leave one free
    (`BuffersSuffice`).
  - `InodesCorrect`: `ref` counts the processes (`RefsCounted`); a valid copy is that of
    the disk unless the holder of the lock is between changing and writing it
    (`Copies`); the delicate part is who can still be about an inode that nobody
    names: the one that has just allocated it (`Fresh`), or the last user that is
    freeing it (`Dying`), and never another one.
* `SharingProofs`:
  - `SleepLock`: its type, `NoLostWakeup`, and that it implements `Mutex`. `LockInv`
    says who holds the inner spin lock and `ptable.lock` at each point, and that a
    process on its way to sleep holds one of them until it is asleep.
  - `OpenFilesCorrect`, for any finite sets of processes and files, any pages and
    number of descriptors. `TableInv` sees a file in the places it can be referred
    to from as one function (`Held`), so that a step is a file that moves from place
    to place, appears or disappears, and counting is about functions and not about
    descriptors (`Refs`). What is not obvious without it: a file that a call has
    just allocated is in no other place (`Own`), so that giving it its object, or
    giving it back, concerns nobody else; and what stands for an end of a pipe is
    exactly one file or one closer (`EndsOnce`), so that a page is free just when
    both have gone through `pipeclose()`.
  - `StartCorrect`, for any number of CPUs and any pages. `UpControl` is the order in
    which `main()` lets the others run: until `userinit()` has made a process, no
    other CPU allocates, which is all that protects the free list before `use_lock`
    is set (`UpLocks`). `UpPages` puts each page in one place, the stack that waits
    below the code at 0x7000 for its CPU included, and `UpEarly` says that the
    stacks are pages of `kinit1()`, so that `kinit2()` cannot hand one out again.
  - `ExerciseCorrect`, for any number of threads and rounds: `shared_resource` is the
    number of the increments that have been stored, and the one thread between
    `lock()` and `unlock()` (`OneInside`) has loaded what is still there.
* `FilesProofs`, about the circular queue, the console and the directories:
  - `RingQueue`: `front` and `rear` stay in the array, and it implements
    `BoundedFifo`, for every length of the array. The invariant is the type; the
    argument is the arithmetic of indices modulo the length.
  - `ConsoleCorrect`, for any readers and keys, any `INPUT_BUF` and counters of any
    width that it divides, as 128 divides 2^32. `ConsoleInv` gives `w` and `e` as
    `r` and two distances, the characters of ended lines and those of the line being
    edited, which together fit into the ring; the edited line holds no end of a
    line, a ring that is full has been ended, and who sleeps does so because there
    is no ended character. A step is then a change of the distances and of at most one
    place, and lemmas about stretches of the ring turn it into `Append`, `SubSeq` or
    concatenation of `LineInput`; the reader takes a stretch up to an end of a line,
    the smallest there is. `ScreenInv` says for the display, of any rows and columns,
    that what precedes the cursor is the end of the text after some whole rows that
    have been scrolled off, and that what follows is blank.
  - `CallsKeepTree`, for any finite sets of processes and inodes, any names and paths
    of any length, with all the calls crossing at every lock. `TreeInv` gives each
    process the locals that the point of its call has (`Shape`) and what it knows
    there of the inodes it has locked or refers to (`Own`); counts references
    (`RefsExact`); and counts what a link count stands for (`Covered`): names,
    subdirectories, and the count that a `link()` has made before its name or an
    `unlink()` has left after it (`Pend`). A free inode has no links, and what is no
    directory has no entries (`Unused`); the root is named by none (`Rooted`); another
    directory has one name at most, in the directory that its `..` leads to
    (`Directories`). Most steps move references
    only; one lemma (`QuietInv`) is for all of these, and the five that change an
    entry or a count have one each. Counting is about the places of an inode as a
    set, of which a step adds or takes one.
  - `DirectoriesCorrect`, from the same invariant. For `LinksExact`, `Serial` adds what
    holds where calls do not cross and nobody leaves the root: the counts are equal,
    not only covered (`Exact`), only the root and directories that are named have
    entries (`Populated`), and a path leads to such directories only (`Reached`), since
    one that has been removed is the current directory of nobody.
* `ProcessesProofs`, `Pipe` and `Memory`:
  - `SwitchCorrect`, for any number of processors and threads. `Inv` gives each
    thread the shape of its stack of frames at each point of the code it can be at
    (`StackFormed`), each CPU what `ncli` and the flag are given the frames of the
    thread it runs (`CpuFormed`), and each process that is switched out the one shape
    its stack can have, with the `intena` it will restore (`ProcFormed`).
  - `ImplementsStream`, `SleepersAreBlocked`, `PipesCorrect`: for any readers and
    writers, any `PIPESIZE` and counters of any width that it divides, as it divides
    2^32 (otherwise the place of a byte would jump where a counter wraps around). A
    process that is in a call has something to read or write (`InCall`), and an end
    is open exactly while somebody has it (`EndsHeld`); so whoever makes a pipe
    non-empty, non-full or half closed wakes those who slept because of it. The
    refinement is arithmetic: `Counters` and `Place` turn the counters, which are
    equal modulo their width, into positions of the ring, and `PutAppends` and
    `CopyTakes` say byte by byte that writing appends to the stream and reading
    takes its front.
  - `MemoryCorrect`, for any number of processes and pages, any size of a page, of a
    page table and of the address space. `PageAssumption` asks for the five pages
    that `userinit()` takes before anything can fail. `OnePlace`, with its map of
    all the places of a page, is not what a step is reasoned about: `WellPlaced`
    names the places one by one (`Cell`: a stack, the local `mem`, a directory, a
    table or a user page of an address space that is in use or being built) and
    says that two cells never hold the same page, and that a page in none is free;
    every step is then an assignment to a few cells (`OnePlaceIs` leads back). What a
    call that fails has to free is what it has built so far: `Progress` says that
    this is the pages below `next`, all of which are below the new size, so that
    `deallocuvm()` and `freevm()` find each of them. `Child` says that no two forks
    fill the same slot. The case left out, `GiveUpAll`, is the `sbrk()` for which
    the property is false (section 5).
  - `ClockCorrect`, for any processes, durations and width of the counter. What is
    inductive is that a process has seen no more ticks than there were since it
    called `sleep` (`Elapsed`), the one that the handler has read but not yet
    stored excepted (`Uncounted`, `Fresh`), and that it compares under `tickslock`
    what it sleeps on (`Compared`).

Only model-checked: liveness (fairness and ENABLED are beyond the prover); what a
recursive definition computes for every input, hence the modules that are
recursive by nature (`ShellParser`, `UserHeap`, `DiskImage`, `Grep`, `PathNames`) and
the algorithms whose result is defined by induction over data; and what has no
proof yet (section 7).

## 5. Where the code departs from what the repository says

Three runs end in a counterexample; `PROJECT.json` quotes the lines.

* `bug_heap_lock`: the `continue` of the heap branch (`proc.c:460`) does not
  release `ptable.lock`; the CPU panics in `acquire` when it comes around. One
  `setmonopoly()` of a process of level 3 is enough.
* `bug_mono_lost`: a process that monopolizes itself and is preempted before the
  `yield()` of `setmonopoly()` is in no queue afterwards; `rn_test4` waits for
  it for ever.
* `bug_queue_full`: with `NPROC` runnable processes a boost in `yield()` inserts
  all of them into `q[0]`, which holds `NPROC - 1`; the process of the last slot
  is dropped, at every boost again.

The models show more of them, each with a property that the code as modelled
does not satisfy; it is written at the property, or the property is defined for
this purpose and in no run.

| where | what | property |
|---|---|---|
| `trap.c:124` | the unlocked demotion overwrites level 99 | `MonopolyHasLevel` of `Scheduler` |
| `proc.c:41` | `setpriority()` changes the key of a process in the heap without moving it | `RootLargest` of `PriorityHeap`, with `Rekey` |
| `log.c:218`, `mkfs.c:25` | the log on disk has one block less than `begin_op()` counts on: three operations of `MAXOPBLOCKS` blocks meet "too big a transaction" | `NoPanic` of `Log`, with `OpBlocks = MAXOPBLOCKS` |
| `bio.c:92` | with more processes than buffers `bget()` panics instead of waiting | `BufferFound` of `BufferCache` |
| `ide.c:118-122` | after an error the buffer is marked as read, or as written | `ValidWasRead` of `Ide` |
| `pipe.c:86` | a killed writer leaves bytes in the pipe and does not wake the readers | `BytesAreRead` of `Pipe` |
| `fs.c:337` | two last references of an unlinked inode put at once: nobody frees it | `UnlinkedHasUser` of `InodeCache` |
| `sysfile.c:280` | `create()` locks the parent again with the child locked, `unlink()` the other way round | `NoDeadlock` of `FileSystem` |
| `fs.c:560` | `link(file, ".")` waits for the lock it holds | `NoSelfDeadlock` of `FileSystem` |
| `fs.c:309` | `..` of a removed directory leads to an inode that may be free | `IlockFindsType` of `FileSystem` |
| `sysfile.c:277` | `create()` in a removed directory leaves an inode without a name and with a link count; one process suffices: `mkdir a`, `chdir a`, `unlink ../a`, create `b`, `chdir ..` | `LinksExact` of `FileSystem`, with `chdir` among the calls |
| `console.c:258` | the `^D` that is saved for the next read is taken by another reader | `EofIsSaved` of `Console` |
| `proc.c:279` | `sbrk()` of minus the whole size frees the memory and reports failure | `FailureKeepsMemory` of `Memory`, with `GiveUpAll` |
| `mkfs.c:161` | the root directory is a block too large when its entries fill the last one | `RootHasBlocks` of `DiskImage` |
| `grep.c:29` | a piece of a line that holds no newline is dropped | `PrintsMatching` of `Grep`, with `Pipe` |

## 6. Not modelled

* The programming of the interrupt controllers and the search for processors
  (`lapic.c`, `ioapic.c`, `picirq.c`, `mp.c`): registers and tables of the BIOS, no
  state of the kernel's own. The serial port and the keyboard (`uart.c`, `kbd.c`):
  what arrives is the environment of `Console`.
* The formats of `cprintf()` and `printf()`, `panic()`, `procdump()`, `stati()` and the
  reading of the super block: reads and layout.
* Assembly that sets processor modes (`bootasm.S`, `entry.S`), the interrupt
  table, page faults; the layout of page tables and the kernel's mappings.
* The string routines and the small user programs, sequential and without state of
  their own.
* The two copies of the kernel (see the beginning).

## 7. What is left

Proofs of `ContentsCorrect`, of `ArgumentsCorrect` and of `ShellCorrect`. They are checked by TLC
on the instances of their runs.
