-------------------------------- MODULE Ide --------------------------------
(***************************************************************************)
(* ide.c: the queue of requests between processes that hold a buffer each  *)
(* and wait, and the interrupt of the disk, under idelock.  The buffer     *)
(* cache has no two buffers of a block, so a buffer stands for its block   *)
(* and for the process that has it locked.                                 *)
(***************************************************************************)
EXTENDS Integers, SequencesExt

CONSTANTS
  Buf, Value,
  Idle         \* the disk has no command

IdleAssumption   == Idle \notin Buf

VARIABLES
  disk,                  \* the blocks
  valid, dirty, data,    \* struct buf
  idequeue,
  command, sent,         \* the buffer the disk works for, the data it was sent
  intr, failed,          \* an interrupt is pending; its status has IDE_ERR
  pc,                    \* per buffer: where its process is
  read                   \* history: the data of the buffer came from the disk,
                         \* or were written there

buffers == <<valid, dirty, data>>
device  == <<disk, command, sent, intr, failed>>
vars    == <<disk, buffers, idequeue, command, sent, intr, failed, pc, read>>

TypeOK ==
  /\ disk \in [Buf -> Value] /\ data \in [Buf -> Value]
  /\ valid \in [Buf -> BOOLEAN] /\ dirty \in [Buf -> BOOLEAN]
  /\ idequeue \in Seq(Buf) /\ IsInjective(idequeue)
  /\ command \in Buf \cup {Idle} /\ sent \in Value
  /\ intr \in BOOLEAN /\ failed \in BOOLEAN
  /\ pc \in [Buf -> {"out", "asleep", "awake"}]
  /\ read \in [Buf -> BOOLEAN]

Init ==
  /\ \E v \in Value :
       disk = [b \in Buf |-> v] /\ data = [b \in Buf |-> v] /\ sent = v
  /\ valid = [b \in Buf |-> FALSE] /\ dirty = [b \in Buf |-> FALSE]
  /\ idequeue = <<>> /\ command = Idle
  /\ intr = FALSE /\ failed = FALSE
  /\ pc = [b \in Buf |-> "out"]
  /\ read = [b \in Buf |-> FALSE]

-----------------------------------------------------------------------------
\* idestart(): the command, and the data of a write
idestart(b) == command' = b /\ sent' = data'[b]

\* mutant: the disk is given a command while it works for another
StartAlways(q) == TRUE
StartFirst(q)  == Len(q) = 1

\* iderw(), called for a buffer that was just recycled, or by bwrite()
iderw(b, write, v) ==
  /\ pc[b] = "out"
  /\ IF write
     THEN /\ data' = [data EXCEPT ![b] = v]
          /\ dirty' = [dirty EXCEPT ![b] = TRUE]
          /\ UNCHANGED valid
     ELSE /\ valid' = [valid EXCEPT ![b] = FALSE]
          /\ dirty' = [dirty EXCEPT ![b] = FALSE]
          /\ UNCHANGED data
  /\ read' = [read EXCEPT ![b] = FALSE]
  /\ idequeue' = Append(idequeue, b)
  /\ IF StartFirst(idequeue') THEN idestart(b) ELSE UNCHANGED <<command, sent>>
  /\ pc' = [pc EXCEPT ![b] = "asleep"]
  /\ UNCHANGED <<disk, intr, failed>>

\* ... woken, by the interrupt or by kill(), the process tests the flags
\* again; mutant: only one of them
ValidOnly(b) == valid[b]
Done(b)      == valid[b] /\ ~ dirty[b]

iderwWait(b) ==
  /\ pc[b] = "awake"
  /\ pc' = [pc EXCEPT ![b] = IF Done(b) THEN "out" ELSE "asleep"]
  /\ UNCHANGED <<buffers, idequeue, device, read>>

Kill(b) ==
  /\ pc[b] = "asleep"
  /\ pc' = [pc EXCEPT ![b] = "awake"]
  /\ UNCHANGED <<buffers, idequeue, device, read>>

\* the disk: it finishes the command, a write that fails perhaps without effect, and
\* raises the interrupt
Disk ==
  /\ command # Idle /\ ~ intr
  /\ failed' \in BOOLEAN
  /\ \/ dirty[command] /\ disk' = [disk EXCEPT ![command] = sent]
     \/ (dirty[command] => failed') /\ UNCHANGED disk
  /\ intr' = TRUE
  /\ UNCHANGED <<buffers, idequeue, command, sent, pc, read>>

\* mutants: the interrupt takes the newest request; the next one is not started
Newest      == Last(idequeue)
Active      == Head(idequeue)
NoneLeft(q) == TRUE
AllDone(q)  == q = <<>>

\* the queue is never empty here: an interrupt follows a command
ideintr ==
  /\ intr /\ idequeue # <<>>
  /\ LET b == Active IN
     /\ idequeue' = Tail(idequeue)
     /\ data' = IF dirty[b] \/ failed THEN data ELSE [data EXCEPT ![b] = disk[b]]
     /\ read' = [read EXCEPT ![b] = ~ failed]
     /\ valid' = [valid EXCEPT ![b] = TRUE]
     /\ dirty' = [dirty EXCEPT ![b] = FALSE]
     /\ pc' = [pc EXCEPT ![b] = IF @ = "asleep" THEN "awake" ELSE @]
  /\ IF AllDone(idequeue')
     THEN command' = Idle /\ UNCHANGED sent
     ELSE idestart(Head(idequeue'))
  /\ intr' = FALSE /\ failed' = FALSE
  /\ UNCHANGED disk

Next ==
  \/ \E b \in Buf :
       \/ \E write \in BOOLEAN, v \in Value : iderw(b, write, v)
       \/ iderwWait(b) \/ Kill(b)
  \/ Disk \/ ideintr

\* the disk answers, its interrupt is taken, a process that is awake runs
Spec ==
  /\ Init /\ [][Next]_vars
  /\ WF_vars(Disk) /\ WF_vars(ideintr)
  /\ \A b \in Buf : WF_vars(iderwWait(b))

-----------------------------------------------------------------------------
\* the disk works for the head of the queue, and for it only: the order of the
\* queue is the order of the interrupts
ActiveIsHead ==
  command = IF idequeue = <<>> THEN Idle ELSE Head(idequeue)

\* a process that has come out of iderw() has what it asked for: after a read the
\* buffer holds the block, after a write the block the buffer, unless the disk failed
RequestDone ==
  \A b \in Buf : pc[b] = "out" /\ valid[b] => ~ dirty[b] /\ (read[b] => data[b] = disk[b])

\* every request is answered, whatever other processes request meanwhile
RequestsEnd == \A b \in Buf : pc[b] # "out" ~> pc[b] = "out"

\* buf.h says of B_VALID that the buffer has been read from disk
ValidWasRead == \A b \in Buf : pc[b] = "out" /\ valid[b] => read[b]
=============================================================================
