----------------------------- MODULE Arguments -----------------------------
(***************************************************************************)
(* fetchint(), fetchstr(), argint(), argptr() and argstr() of syscall.c:   *)
(* the checks that an argument of a system call lies in the memory of the  *)
(* process, in words of W bits that wrap around.                           *)
(***************************************************************************)
EXTENDS Integers

CONSTANTS
  W,             \* bits of a word
  IntSize,       \* bytes of an int
  MaxArg         \* the last argument of a call

WordAssumption == W \in Nat \ {0} /\ IntSize \in Nat \ {0} /\ MaxArg \in Nat

VARIABLES
  sz,            \* the memory of the process is 0 .. sz - 1
  esp,           \* the user's stack pointer, which may be any word
  arg            \* what the argument refers to, and whether it was accepted

vars == <<sz, esp, arg>>

Word     == 0 .. 2 ^ W - 1
Signed   == -(2 ^ (W - 1)) .. 2 ^ (W - 1) - 1
KERNBASE == 2 ^ (W - 1)
Plus(a, b) == (a + b) % (2 ^ W)

None == [addr |-> 0, size |-> 0, ok |-> TRUE]

Init == sz \in 1 .. KERNBASE /\ esp \in Word /\ arg = None

Arg(addr, size, ok) == arg' = [addr |-> addr, size |-> size, ok |-> ok] /\ UNCHANGED <<sz, esp>>

-----------------------------------------------------------------------------
\* mutant: only the end is tested
OnlyEnd(addr)  == Plus(addr, IntSize) <= sz
IntFits(addr)  == addr < sz /\ Plus(addr, IntSize) <= sz

BlockFits(addr, size) == size >= 0 /\ addr < sz /\ Plus(addr, size) <= sz

ArgAddr(n) == Plus(esp, IntSize + IntSize * n)

argint ==
  /\ arg = None
  /\ \E n \in 0 .. MaxArg : Arg(ArgAddr(n), IntSize, IntFits(ArgAddr(n)))

\* the argument holds any word; the size is the caller's, at times another argument
argptr ==
  /\ arg = None
  /\ \E n \in {k \in 0 .. MaxArg : IntFits(ArgAddr(k))}, addr \in Word, size \in Signed :
       Arg(addr, size, BlockFits(addr, size))

fetchstr(addr, nul) == addr < sz /\ nul < sz

\* nul: where the next NUL byte is, if there is one
argstr ==
  /\ arg = None
  /\ \E n \in {k \in 0 .. MaxArg : IntFits(ArgAddr(k))}, addr \in Word :
       \E nul \in addr .. 2 ^ W : Arg(addr, nul + 1 - addr, fetchstr(addr, nul))

\* the call is over, and the next one may come
Return == arg # None /\ arg' = None /\ UNCHANGED <<sz, esp>>

Next == Return \/ argint \/ argptr \/ argstr

Spec == Init /\ [][Next]_vars

-----------------------------------------------------------------------------
\* an argument is accepted only if each of its bytes is memory of the process, and
\* refused only if one is not, or if it starts at the end; the sums must not wrap
ArgInMemory ==
  arg.ok <=> arg.size >= 0 /\ arg.addr + arg.size <= sz /\ (arg.addr < sz \/ arg = None)
=============================================================================
