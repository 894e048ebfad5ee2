----------------------------- MODULE BootLoader -----------------------------
(***************************************************************************)
(* bootmain() and readseg() of bootmain.c: the segments of the kernel are  *)
(* read sector by sector, which writes to memory before and behind them.   *)
(* A cell of memory holds the offset in the kernel's file it came from.    *)
(***************************************************************************)
EXTENDS Integers, Sequences

CONSTANTS
  SECTSIZE,
  Memory,        \* cells of memory
  File,          \* length of the kernel's file
  MaxSegments,
  Zero, Old      \* a cleared cell, and what was in memory before

BootAssumption ==
  /\ SECTSIZE \in Nat \ {0} /\ Memory \in Nat /\ File \in Nat /\ MaxSegments \in Nat
  /\ Zero \notin Nat /\ Old \notin Nat

VARIABLES
  elf,           \* the program headers
  ph,            \* the one that is loaded
  pa, epa,       \* of readseg(): where the next sector goes, and the end
  sector,
  mem

vars == <<elf, ph, pa, epa, sector, mem>>

Cells == 0 .. Memory - 1

\* the linker puts a segment into memory and into the file at the same place of a
\* sector, and leaves no sector of memory to two segments
Header ==
  {h \in [paddr : Cells, off : 0 .. File - 1, filesz : 0 .. Memory, memsz : 1 .. Memory] :
     /\ h.filesz <= h.memsz /\ h.paddr + h.memsz <= Memory /\ h.off + h.filesz <= File
     /\ h.paddr % SECTSIZE = h.off % SECTSIZE}

Follows(g, h) == (g.paddr + g.memsz - 1) \div SECTSIZE < h.paddr \div SECTSIZE

Layouts == UNION {{s \in [1 .. k -> Header] : \A n \in 1 .. k - 1 : Follows(s[n], s[n + 1])}
                  : k \in 1 .. MaxSegments}

-----------------------------------------------------------------------------
\* mutant: the sector goes where the segment begins
AtSegment(h) == h.paddr
RoundDown(h) == h.paddr - (h.off % SECTSIZE)

Load(h) ==
  /\ pa' = RoundDown(h) /\ epa' = h.paddr + h.filesz
  /\ sector' = h.off \div SECTSIZE + 1

Init ==
  /\ elf \in Layouts
  /\ ph = 0 /\ pa = 0 /\ epa = 0 /\ sector = 0
  /\ mem = [a \in Cells |-> Old]

\* readsect(); the kernel begins in sector 1 of the disk
Readsect ==
  /\ ph \in DOMAIN elf /\ pa < epa
  /\ mem' = [a \in Cells |-> IF a \in pa .. pa + SECTSIZE - 1
                             THEN (sector - 1) * SECTSIZE + a - pa ELSE mem[a]]
  /\ pa' = pa + SECTSIZE /\ sector' = sector + 1
  /\ UNCHANGED <<elf, ph, epa>>

\* mutant: only what follows the last sector is cleared
BehindSectors(h) == [a \in Cells |-> IF a \in pa .. h.paddr + h.memsz - 1 THEN Zero ELSE mem[a]]
Stosb(h) ==
  [a \in Cells |-> IF a \in h.paddr + h.filesz .. h.paddr + h.memsz - 1 THEN Zero ELSE mem[a]]

\* the segment is read: its rest is cleared, and the next one comes
NextSegment ==
  /\ ph <= Len(elf) /\ pa >= epa
  /\ mem' = IF ph > 0 THEN Stosb(elf[ph]) ELSE mem
  /\ ph' = ph + 1
  /\ IF ph < Len(elf) THEN Load(elf[ph + 1]) ELSE UNCHANGED <<pa, epa, sector>>
  /\ UNCHANGED elf

Next == Readsect \/ NextSegment

Spec == Init /\ [][Next]_vars

-----------------------------------------------------------------------------
\* at entry(), every segment is in memory as the file has it and its rest is zero:
\* what was written before and behind the others has done no harm
SegmentsLoaded ==
  ph > Len(elf) =>
    \A n \in DOMAIN elf : \A k \in 0 .. elf[n].memsz - 1 :
      mem[elf[n].paddr + k] = IF k < elf[n].filesz THEN elf[n].off + k ELSE Zero
=============================================================================
