------------------------------- MODULE Memory -------------------------------
(***************************************************************************)
(* Physical pages and the address spaces made of them: kalloc.c, vm.c, and *)
(* fork(), exec(), growproc(), exit() and wait() as far as they allocate   *)
(* and free pages.  Every kalloc() is a step of its own and may find the   *)
(* free list empty; freeing needs none and goes with the step before.      *)
(***************************************************************************)
EXTENDS Integers, FiniteSets, FiniteSetsExt, Functions, FiniteSetTheorems, TLAPS

CONSTANTS
  NPROC,          \* the size of the process table
  Page,           \* the pages kinit1() and kinit2() put on the free list
  PGSIZE,         \* bytes of a page
  NPTENTRIES,     \* pages that one page table maps
  MaxPages,       \* pages below KERNBASE
  Image,          \* the numbers of pages of programs that exec() loads
  Grow, Shrink,   \* the bytes that programs ask of sbrk(), or give back
  GiveUpAll       \* whether a program asks sbrk() to take all it has

PageAssumption ==
  /\ NPROC \in Nat \ {0} /\ Page \subseteq Nat \ {0} /\ 1 .. 5 \subseteq Page
  /\ {PGSIZE, NPTENTRIES, MaxPages} \subseteq Nat \ {0}
  /\ Grow \cup Shrink \subseteq Nat \ {0} /\ Image \subseteq 1 .. MaxPages

VARIABLES
  free,           \* kmem.freelist, the order of which does not matter
  state, parent, sz, kstack,   \* of the process in a slot of ptable
  as,             \* its address space
  call            \* the locals of the call it is in

vars == <<free, state, parent, sz, kstack, as, call>>

Slot == 1 .. NPROC
Init1 == 1
Nil == 0         \* no page, no slot
Vpn == 0 .. MaxPages - 1
Table == 0 .. (MaxPages - 1) \div NPTENTRIES

\* dir: the page directory; kern: the page tables of the kernel's part; table: those
\* of the user part; user: its pages
Space == [dir : Page \cup {Nil}, kern : Page \cup {Nil},
          table : [Table -> Page \cup {Nil}], user : [Vpn -> Page \cup {Nil}]]
NoSpace == [dir |-> Nil, kern |-> Nil, table |-> [t \in Table |-> Nil],
            user |-> [v \in Vpn |-> Nil]]

\* new: the space that fork() or exec() builds; next, upto: where allocuvm() or
\* copyuvm() is; mem: the page it is about to map; size: the size to be
Call == [op : {"none", "fork", "exec", "sbrk"},
         pc : {"user", "kstack", "dir", "kern", "page", "map", "done"},
         new : Space, next : 0 .. MaxPages, upto : 0 .. MaxPages,
         mem : Page \cup {Nil}, size : 0 .. MaxPages * PGSIZE,
         child : Slot \cup {Nil}, failed : BOOLEAN, had : SUBSET Vpn]

TypeOK ==
  /\ free \subseteq Page
  /\ state \in [Slot -> {"UNUSED", "EMBRYO", "RUNNABLE", "ZOMBIE"}]
  /\ parent \in [Slot -> Slot \cup {Nil}]
  /\ sz \in [Slot -> 0 .. MaxPages * PGSIZE]
  /\ kstack \in [Slot -> Page \cup {Nil}]
  /\ as \in [Slot -> Space]
  /\ call \in [Slot -> Call]

Pages(n)  == (n + PGSIZE - 1) \div PGSIZE      \* PGROUNDUP
Mapped(s) == {v \in Vpn : s.user[v] # Nil}
Held(s)   == ({s.dir, s.kern} \cup Range(s.table) \cup Range(s.user)) \ {Nil}

AtUser(had) == [op |-> "none", pc |-> "user", new |-> NoSpace, next |-> 0, upto |-> 0,
                mem |-> Nil, size |-> 0, child |-> Nil, failed |-> FALSE, had |-> had]

\* userinit(): one process with one page
FirstSpace == [dir |-> 1, kern |-> 2, table |-> [t \in Table |-> IF t = 0 THEN 3 ELSE Nil],
               user |-> [v \in Vpn |-> IF v = 0 THEN 4 ELSE Nil]]

Init ==
  /\ free = Page \ 1 .. 5
  /\ state = [s \in Slot |-> IF s = Init1 THEN "RUNNABLE" ELSE "UNUSED"]
  /\ parent = [s \in Slot |-> Nil]
  /\ sz = [s \in Slot |-> IF s = Init1 THEN PGSIZE ELSE 0]
  /\ kstack = [s \in Slot |-> IF s = Init1 THEN 5 ELSE Nil]
  /\ as = [s \in Slot |-> IF s = Init1 THEN FirstSpace ELSE NoSpace]
  /\ call = [s \in Slot |-> AtUser(IF s = Init1 THEN {0} ELSE {})]

-----------------------------------------------------------------------------
At(p, pc) == state[p] = "RUNNABLE" /\ call[p].pc = pc
Become(p, c) == call' = [call EXCEPT ![p] = c]

\* kalloc(): a page, if there is one
Kalloc(g) == g = Min(free) /\ free' = free \ {g}
OutOfPages == free = {}

Start(p, op, pc) ==
  [AtUser(Mapped(as[p])) EXCEPT !.op = op, !.pc = pc]

\* mutant: PGROUNDDOWN
RoundedDown(newsz) == newsz \div PGSIZE
FirstFreed(newsz)  == Pages(newsz)

\* deallocuvm(): the pages from newsz on
Without(s, newsz) == [s EXCEPT !.user =
  [v \in Vpn |-> IF v >= FirstFreed(newsz) THEN Nil ELSE s.user[v]]]

\* the space that is built
Built(p) == IF call[p].op = "sbrk" THEN as[p] ELSE call[p].new

SetBuilt(p, c, s) ==
  IF c.op = "sbrk" THEN as' = [as EXCEPT ![p] = s] /\ Become(p, c)
                   ELSE UNCHANGED as /\ Become(p, [c EXCEPT !.new = s])

\* mutants: the page that could not be mapped is not freed; the pages that growproc()
\* has got are not taken back
KeepsMem(p)  == {}
MemOf(p)     == {call[p].mem} \ {Nil}
KeepsGrown(s, size) == s
TakeBack(s, size)   == Without(s, size)

\* a call fails: what it has allocated is freed, by freevm() or deallocuvm()
Fail(p) ==
  LET c == call[p]
      kept == TakeBack(as[p], sz[p])
      stack == IF c.op = "fork" THEN {kstack[c.child]} \ {Nil} ELSE {} IN
  /\ free' = free \cup MemOf(p) \cup Held(c.new) \cup stack
               \cup (IF c.op = "sbrk" THEN Held(as[p]) \ Held(kept) ELSE {})
  /\ as' = IF c.op = "sbrk" THEN [as EXCEPT ![p] = kept] ELSE as
  /\ IF c.op = "fork"
     THEN /\ state' = [state EXCEPT ![c.child] = "UNUSED"]
          /\ kstack' = [kstack EXCEPT ![c.child] = Nil]
     ELSE UNCHANGED <<state, kstack>>
  /\ Become(p, [AtUser(c.had) EXCEPT !.failed = TRUE])
  /\ UNCHANGED <<parent, sz>>

-----------------------------------------------------------------------------
(* The calls *)

\* fork(): allocproc() takes a slot
Fork(p, c) ==
  /\ At(p, "user") /\ state[c] = "UNUSED"
  /\ state' = [state EXCEPT ![c] = "EMBRYO"]
  /\ Become(p, [Start(p, "fork", "kstack") EXCEPT
       !.child = c, !.upto = Pages(sz[p]), !.size = sz[p]])
  /\ UNCHANGED <<free, parent, sz, kstack, as>>

Kstack(p) ==
  /\ At(p, "kstack")
  /\ \/ OutOfPages /\ Fail(p)
     \/ \E g \in free :
          /\ Kalloc(g)
          /\ kstack' = [kstack EXCEPT ![call[p].child] = g]
          /\ Become(p, [call[p] EXCEPT !.pc = "dir"])
          /\ UNCHANGED <<state, parent, sz, as>>

\* exec() of a program of n pages, and two for the stack; allocuvm() refuses one that
\* comes up to KERNBASE, and exec() gives up then as in ExecBad
Exec(p, n) ==
  /\ At(p, "user") /\ n + 2 < MaxPages
  /\ Become(p, [Start(p, "exec", "dir") EXCEPT !.upto = n + 2, !.size = (n + 2) * PGSIZE])
  /\ UNCHANGED <<free, state, parent, sz, kstack, as>>

\* setupkvm()
Dir(p) ==
  /\ At(p, "dir")
  /\ \/ OutOfPages /\ Fail(p)
     \/ \E g \in free :
          /\ Kalloc(g)
          /\ Become(p, [call[p] EXCEPT !.pc = "kern", !.new.dir = g])
          /\ UNCHANGED <<state, parent, sz, kstack, as>>

Kern(p) ==
  /\ At(p, "kern")
  /\ \/ OutOfPages /\ Fail(p)
     \/ \E g \in free :
          /\ Kalloc(g)
          /\ Become(p, [call[p] EXCEPT !.pc = "page", !.new.kern = g])
          /\ UNCHANGED <<state, parent, sz, kstack, as>>

\* mutant: only sizes that have wrapped around are refused
BelowZero(size) == size < 0
TooLarge(size)  == size >= MaxPages * PGSIZE

\* growproc(): sizes at KERNBASE or above are refused, and so is a size of 0, though
\* only after deallocuvm(); a size below 0 is a large unsigned one
Sbrk(p, n) ==
  LET size == sz[p] + n
      rest == Without(as[p], size) IN
  /\ At(p, "user")
  /\ size = 0 => GiveUpAll
  /\ \/ /\ n > 0 /\ TooLarge(size)
        /\ Become(p, [Start(p, "none", "user") EXCEPT !.failed = TRUE])
        /\ UNCHANGED <<free, sz, as>>
     \/ /\ n > 0 /\ ~ TooLarge(size)
        /\ Become(p, [Start(p, "sbrk", "page") EXCEPT
             !.next = Pages(sz[p]), !.upto = Pages(size), !.size = size])
        /\ UNCHANGED <<free, sz, as>>
     \/ /\ n < 0 /\ size >= 0
        /\ free' = free \cup (Held(as[p]) \ Held(rest))
        /\ as' = [as EXCEPT ![p] = rest]
        /\ sz' = IF size = 0 THEN sz ELSE [sz EXCEPT ![p] = size]
        /\ Become(p, [Start(p, "none", "user") EXCEPT !.failed = size = 0])
     \/ /\ n < 0 /\ size < 0
        /\ Become(p, Start(p, "none", "user"))
        /\ UNCHANGED <<free, sz, as>>
  /\ UNCHANGED <<state, parent, kstack>>

\* allocuvm(), copyuvm(): a page
NextPage(p) ==
  /\ At(p, "page")
  /\ IF call[p].next = call[p].upto
     THEN Become(p, [call[p] EXCEPT !.pc = "done"])
          /\ UNCHANGED <<free, state, parent, sz, kstack, as>>
     ELSE \/ OutOfPages /\ Fail(p)
          \/ \E g \in free :
               /\ Kalloc(g)
               /\ Become(p, [call[p] EXCEPT !.pc = "map", !.mem = g])
               /\ UNCHANGED <<state, parent, sz, kstack, as>>

\* mappages(), walkpgdir(): the page is entered in its table, which may be missing
MapPage(p) ==
  LET c == call[p]
      s == Built(p)
      t == c.next \div NPTENTRIES
      with(g) == [s EXCEPT !.table[t] = g, !.user[c.next] = c.mem]
      then == [c EXCEPT !.pc = "page", !.next = @ + 1, !.mem = Nil] IN
  /\ At(p, "map")
  /\ \/ /\ s.table[t] # Nil
        /\ SetBuilt(p, then, with(s.table[t]))
        /\ UNCHANGED <<free, state, parent, sz, kstack>>
     \/ s.table[t] = Nil /\ OutOfPages /\ Fail(p)
     \/ \E g \in free :
          /\ s.table[t] = Nil
          /\ Kalloc(g)
          /\ SetBuilt(p, then, with(g))
          /\ UNCHANGED <<state, parent, sz, kstack>>

\* exec(): a read fails, or the program or its arguments are bad
ExecBad(p) ==
  /\ call[p].op = "exec" /\ (At(p, "page") \/ At(p, "done"))
  /\ Fail(p)

Done(p) ==
  LET c == call[p] IN
  /\ At(p, "done")
  /\ \/ /\ c.op = "fork"
        /\ state' = [state EXCEPT ![c.child] = "RUNNABLE"]
        /\ parent' = [parent EXCEPT ![c.child] = p]
        /\ sz' = [sz EXCEPT ![c.child] = c.size]
        /\ as' = [as EXCEPT ![c.child] = c.new]
        /\ call' = [call EXCEPT ![p] = AtUser(Mapped(as[p])),
                                ![c.child] = AtUser(Mapped(c.new))]
        /\ UNCHANGED free
     \/ /\ c.op = "exec"
        /\ as' = [as EXCEPT ![p] = c.new]
        /\ sz' = [sz EXCEPT ![p] = c.size]
        /\ free' = free \cup Held(as[p])
        /\ Become(p, AtUser(Mapped(c.new)))
        /\ UNCHANGED <<state, parent>>
     \/ /\ c.op = "sbrk"
        /\ sz' = [sz EXCEPT ![p] = c.size]
        /\ Become(p, AtUser(Mapped(as[p])))
        /\ UNCHANGED <<free, state, parent, as>>
  /\ UNCHANGED kstack

Exit(p) ==
  /\ At(p, "user") /\ p # Init1
  /\ state' = [state EXCEPT ![p] = "ZOMBIE"]
  /\ parent' = [s \in Slot |-> IF parent[s] = p THEN Init1 ELSE parent[s]]
  /\ UNCHANGED <<free, sz, kstack, as, call>>

\* mutant: the kernel stack is not freed
FreesSpace(z) == Held(as[z])
Frees(z)      == {kstack[z]} \cup Held(as[z])

Wait(p, z) ==
  /\ At(p, "user") /\ parent[z] = p /\ state[z] = "ZOMBIE"
  /\ free' = free \cup Frees(z)
  /\ state' = [state EXCEPT ![z] = "UNUSED"]
  /\ parent' = [parent EXCEPT ![z] = Nil]
  /\ kstack' = [kstack EXCEPT ![z] = Nil]
  /\ as' = [as EXCEPT ![z] = NoSpace]
  /\ sz' = [sz EXCEPT ![z] = 0]
  /\ call' = [call EXCEPT ![z] = AtUser({})]

Next ==
  \E p \in Slot :
    \/ \E s \in Slot : Fork(p, s) \/ Wait(p, s)
    \/ \E n \in Image : Exec(p, n)
    \/ \E n \in Grow \cup {-k : k \in Shrink} : Sbrk(p, n)
    \/ Kstack(p) \/ Dir(p) \/ Kern(p) \/ NextPage(p) \/ MapPage(p)
    \/ ExecBad(p) \/ Done(p) \/ Exit(p)

Spec == Init /\ [][Next]_vars

-----------------------------------------------------------------------------
Uses(s, g) ==
  (IF s.dir = g THEN {<<"dir">>} ELSE {}) \cup (IF s.kern = g THEN {<<"kern">>} ELSE {})
  \cup {<<"table", t>> : t \in {t \in Table : s.table[t] = g}}
  \cup {<<"user", v>> : v \in {v \in Vpn : s.user[v] = g}}

\* the places where a page is
Places(g) ==
  (IF g \in free THEN {<<"free">>} ELSE {})
  \cup {<<"stack", s>> : s \in {s \in Slot : kstack[s] = g}}
  \cup {<<"mem", s>> : s \in {s \in Slot : call[s].mem = g}}
  \cup {<<"as", u>> : u \in UNION {{s} \X Uses(as[s], g) : s \in Slot}}
  \cup {<<"new", u>> : u \in UNION {{s} \X Uses(call[s].new, g) : s \in Slot}}

\* every page is free or in one place of one process, also when calls run out of
\* memory halfway: none is lost, and none is used twice
OnePlace == \A g \in Page : Cardinality(Places(g)) = 1

\* between its calls a process has the pages of its size, those that copyuvm() is to
\* find, and no others
SizeIsMapped ==
  \A p \in Slot : At(p, "user") => Mapped(as[p]) = 0 .. Pages(sz[p]) - 1

\* a call that has failed has left the memory of its process as it was
FailureKeepsMemory ==
  \A p \in Slot : At(p, "user") /\ call[p].failed => Mapped(as[p]) = call[p].had

-----------------------------------------------------------------------------
(* The proofs, for any number of processes and pages, any sizes of them, and *)
(* any programs: a page is in one place, a process has the pages of its      *)
(* size, and a call that fails leaves them as they were.                     *)
(*                                                                           *)
(* The places of a page are the free list and the cells: the variables and   *)
(* fields in which one page can be.  A step fills cells from the free list   *)
(* or from each other, or empties them.  The rest of the invariant follows   *)
(* each call from step to step: which pages of its new address space it has, *)
(* which sizes belong to them, and whose slot it is filling.                 *)

Whole == <<"whole", 0>>
Part  == {<<"dir", 0>>, <<"kern", 0>>} \cup ({"table"} \X Table) \cup ({"user"} \X Vpn)
Cell  == ({"stack", "mem"} \X Slot \X {Whole}) \cup ({"as", "new"} \X Slot \X Part)

PageAt(s, w) ==
  IF w[1] = "dir" THEN s.dir ELSE
  IF w[1] = "kern" THEN s.kern ELSE
  IF w[1] = "table" THEN s.table[w[2]] ELSE s.user[w[2]]

PageIn(a, s, w) ==
  IF a = "stack" THEN kstack[s] ELSE
  IF a = "mem" THEN call[s].mem ELSE
  IF a = "as" THEN PageAt(as[s], w) ELSE PageAt(call[s].new, w)

Contents == [c \in Cell |-> PageIn(c[1], c[2], c[3])]

\* each page is free or in one cell
WellPlaced(F, C, f) ==
  /\ F \subseteq Page
  /\ \A c \in C : f[c] \notin F
  /\ \A c, d \in C : f[c] = f[d] /\ f[c] # Nil => c = d
  /\ \A g \in Page \ F : \E c \in C : f[c] = g

\* where a call is
Shape(c) ==
  /\ c.op = "none" <=> c.pc = "user"
  /\ c.op = "fork" <=> c.child # Nil
  /\ c.pc = "kstack" => c.op = "fork"
  /\ c.op = "sbrk" => c.pc \in {"page", "map", "done"}
  /\ c.mem = Nil <=> c.pc # "map"
  /\ c.pc \in {"user", "kstack", "dir"} \/ c.op = "sbrk" => c.new = NoSpace
  /\ c.pc = "kern" => c.new = [NoSpace EXCEPT !.dir = c.new.dir]

\* how far it has got: the space that it builds has the pages up to the next one
Progress(p) ==
  LET c == call[p] IN
  /\ c.pc \in {"kstack", "dir", "kern"} => c.next = 0
  /\ c.pc # "user" =>
       /\ state[p] = "RUNNABLE"
       /\ c.upto = Pages(c.size)
       /\ c.next <= c.upto
       /\ c.pc = "map" => c.next < c.upto
       /\ c.pc = "done" => c.next = c.upto
       /\ Mapped(Built(p)) = 0 .. c.next - 1
       /\ c.had = 0 .. Pages(sz[p]) - 1
  /\ c.op = "sbrk" => Pages(sz[p]) <= c.next

\* its own space has those of its size, but while it grows
Sized(p) ==
  state[p] = "RUNNABLE" /\ call[p].op # "sbrk" => Mapped(as[p]) = 0 .. Pages(sz[p]) - 1

\* the slot that a fork() has taken is nobody else's
Child(p) ==
  LET c == call[p] IN
  c.op = "fork" =>
    /\ state[c.child] = "EMBRYO"
    /\ c.pc = "kstack" <=> kstack[c.child] = Nil
    /\ \A q \in Slot : call[q].child = c.child => q = p

Unborn(s) ==
  /\ state[s] \in {"UNUSED", "EMBRYO"} => as[s] = NoSpace
  /\ state[s] = "UNUSED" => kstack[s] = Nil
  /\ state[s] \in {"RUNNABLE", "ZOMBIE"} => kstack[s] # Nil

Kept(p) == At(p, "user") /\ call[p].failed => Mapped(as[p]) = call[p].had

InvAt(p) ==
  Shape(call[p]) /\ Progress(p) /\ Sized(p) /\ Child(p) /\ Unborn(p) /\ Kept(p)

Inv ==
  /\ TypeOK
  /\ WellPlaced(free, Cell, Contents)
  /\ \A p \in Slot : InvAt(p)

-----------------------------------------------------------------------------
(* Pages that move *)

\* kalloc()
LEMMA TakeKeeps ==
  ASSUME NEW F, NEW C, NEW f, NEW h, WellPlaced(F, C, f),
         NEW g \in F, NEW x \in C, f[x] = Nil, h[x] = g,
         \A c \in C : c # x => h[c] = f[c], Nil \notin Page
  PROVE  WellPlaced(F \ {g}, C, h)
<1> USE DEF WellPlaced
<1>1. F \ {g} \subseteq Page /\ g \in Page /\ g # Nil
  BY DEF Nil
<1>2. \A c \in C : h[c] \notin F \ {g}
  OBVIOUS
<1>3. ASSUME NEW c \in C, NEW d \in C, h[c] = h[d], h[c] # Nil PROVE c = d
  BY <1>1, <1>3
<1>4. ASSUME NEW p \in Page \ (F \ {g}) PROVE \E c \in C : h[c] = p
  <2>1. CASE p = g
    BY <2>1
  <2>2. CASE p # g
    <3>1. PICK c \in C : f[c] = p
      BY <2>2
    <3> QED
      BY <3>1
  <2> QED
    BY <2>1, <2>2
<1> QED
  BY <1>1, <1>2, <1>3, <1>4

\* kfree() of what the cells of S hold
LEMMA GiveKeeps ==
  ASSUME NEW F, NEW C, NEW f, NEW h, WellPlaced(F, C, f), NEW S, S \subseteq C,
         \A c \in S : h[c] = Nil, \A c \in C \ S : h[c] = f[c],
         \A c \in C : f[c] \in Page \cup {Nil}, Nil \notin Page,
         NEW G, \A g : g \in G <=> g \in F \/ (g # Nil /\ \E c \in S : f[c] = g)
  PROVE  WellPlaced(G, C, h)
<1> USE DEF WellPlaced
<1>1. G \subseteq Page
  OBVIOUS
<1>2. ASSUME NEW c \in C PROVE h[c] \notin G
  <2>1. CASE c \in S
    BY <1>1, <2>1
  <2>2. CASE c \notin S
    BY <2>2
  <2> QED
    BY <2>1, <2>2
<1>3. ASSUME NEW c \in C, NEW d \in C, h[c] = h[d], h[c] # Nil PROVE c = d
  BY <1>3
<1>4. ASSUME NEW p \in Page \ G PROVE \E c \in C : h[c] = p
  <2>1. PICK c \in C : f[c] = p
    BY <1>4
  <2>2. c \notin S
    BY <2>1, <1>4
  <2> QED
    BY <2>1, <2>2
<1> QED
  BY <1>1, <1>2, <1>3, <1>4

\* pages that change their cells
LEMMA PermuteKeeps ==
  ASSUME NEW F, NEW C, NEW f, NEW h, WellPlaced(F, C, f), NEW m \in [C -> C],
         \A c \in C : m[m[c]] = c, \A c \in C : h[c] = f[m[c]]
  PROVE  WellPlaced(F, C, h)
<1> USE DEF WellPlaced
<1>1. \A c \in C : m[c] \in C
  OBVIOUS
<1>2. \A c \in C : h[c] \notin F
  BY <1>1
<1>3. ASSUME NEW c \in C, NEW d \in C, h[c] = h[d], h[c] # Nil PROVE c = d
  <2>1. m[c] = m[d]
    BY <1>1, <1>3
  <2> QED
    BY <2>1
<1>4. ASSUME NEW p \in Page \ F PROVE \E c \in C : h[c] = p
  <2>1. PICK d \in C : f[d] = p
    OBVIOUS
  <2>2. m[d] \in C /\ h[m[d]] = f[d]
    BY <1>1
  <2> QED
    BY <2>1, <2>2
<1> QED
  BY <1>2, <1>3, <1>4

-----------------------------------------------------------------------------
(* Cells *)

LEMMA PagesAreNotNil == ASSUME PageAssumption PROVE Nil \notin Page
  BY DEF PageAssumption, Nil

LEMMA Cells ==
  /\ \A s \in Slot : <<"stack", s, Whole>> \in Cell /\ <<"mem", s, Whole>> \in Cell
  /\ \A s \in Slot, w \in Part : <<"as", s, w>> \in Cell /\ <<"new", s, w>> \in Cell
  /\ \A c \in Cell : \E s \in Slot :
       \/ c = <<"stack", s, Whole>> \/ c = <<"mem", s, Whole>>
       \/ \E w \in Part : c = <<"as", s, w>> \/ c = <<"new", s, w>>
  BY DEF Cell

LEMMA Parts ==
  /\ <<"dir", 0>> \in Part /\ <<"kern", 0>> \in Part
  /\ \A t \in Table : <<"table", t>> \in Part
  /\ \A v \in Vpn : <<"user", v>> \in Part
  /\ \A w \in Part : \/ w = <<"dir", 0>> \/ w = <<"kern", 0>>
                     \/ \E t \in Table : w = <<"table", t>>
                     \/ \E v \in Vpn : w = <<"user", v>>
  BY DEF Part

LEMMA PageAtIs ==
  ASSUME NEW s
  PROVE  /\ PageAt(s, <<"dir", 0>>) = s.dir /\ PageAt(s, <<"kern", 0>>) = s.kern
         /\ \A t \in Table : PageAt(s, <<"table", t>>) = s.table[t]
         /\ \A v \in Vpn : PageAt(s, <<"user", v>>) = s.user[v]
  BY DEF PageAt

LEMMA ContentsAre ==
  /\ \A s \in Slot : /\ Contents[<<"stack", s, Whole>>] = kstack[s]
                     /\ Contents[<<"mem", s, Whole>>] = call[s].mem
  /\ \A s \in Slot, w \in Part : /\ Contents[<<"as", s, w>>] = PageAt(as[s], w)
                                  /\ Contents[<<"new", s, w>>] = PageAt(call[s].new, w)
  BY Cells DEF Contents, PageIn

LEMMA UsesIs ==
  ASSUME NEW s, NEW g
  PROVE  /\ (\A w \in Part : PageAt(s, w) # g) => Uses(s, g) = {}
         /\ \A w \in Part :
              (\A x \in Part : PageAt(s, x) = g <=> x = w) => \E u : Uses(s, g) = {u}
<1>1. ASSUME \A w \in Part : PageAt(s, w) # g PROVE Uses(s, g) = {}
  BY <1>1, Parts, PageAtIs DEF Uses
<1>2. ASSUME NEW w \in Part, \A x \in Part : PageAt(s, x) = g <=> x = w
      PROVE  \E u : Uses(s, g) = {u}
  <2>0. /\ s.dir = g <=> w = <<"dir", 0>>
        /\ s.kern = g <=> w = <<"kern", 0>>
        /\ \A t \in Table : s.table[t] = g <=> w = <<"table", t>>
        /\ \A v \in Vpn : s.user[v] = g <=> w = <<"user", v>>
    <3>1. \A x \in Part : PageAt(s, x) = g <=> x = w
      BY <1>2
    <3> QED
      BY <3>1, Parts, PageAtIs
  <2>1. CASE w = <<"dir", 0>>
    <3>1. /\ s.dir = g /\ s.kern # g
          /\ \A t \in Table : s.table[t] # g
          /\ \A v \in Vpn : s.user[v] # g
      BY <2>0, <2>1
    <3>2. Uses(s, g) = {<<"dir">>}
      BY <3>1 DEF Uses
    <3> QED
      BY <3>2
  <2>2. CASE w = <<"kern", 0>>
    <3>1. /\ s.dir # g /\ s.kern = g
          /\ \A t \in Table : s.table[t] # g
          /\ \A v \in Vpn : s.user[v] # g
      BY <2>0, <2>2
    <3>2. Uses(s, g) = {<<"kern">>}
      BY <3>1 DEF Uses
    <3> QED
      BY <3>2
  <2>3. ASSUME NEW t \in Table, w = <<"table", t>> PROVE \E u : Uses(s, g) = {u}
    <3>1. /\ s.dir # g /\ s.kern # g
          /\ \A x \in Table : s.table[x] = g <=> x = t
          /\ \A v \in Vpn : s.user[v] # g
      BY <2>0, <2>3
    <3>2. Uses(s, g) = {<<"table", t>>}
      BY <3>1 DEF Uses
    <3> QED
      BY <3>2
  <2>4. ASSUME NEW v \in Vpn, w = <<"user", v>> PROVE \E u : Uses(s, g) = {u}
    <3>1. /\ s.dir # g /\ s.kern # g
          /\ \A t \in Table : s.table[t] # g
          /\ \A x \in Vpn : s.user[x] = g <=> x = v
      BY <2>0, <2>4
    <3>2. Uses(s, g) = {<<"user", v>>}
      BY <3>1 DEF Uses
    <3> QED
      BY <3>2
  <2> QED
    BY <2>1, <2>2, <2>3, <2>4, Parts
<1> QED
  BY <1>1, <1>2

LEMMA CellsDiffer ==
  /\ \A s, z \in Slot : /\ <<"stack", s, Whole>> # <<"mem", z, Whole>>
                        /\ <<"stack", s, Whole>> = <<"stack", z, Whole>> => s = z
                        /\ <<"mem", s, Whole>> = <<"mem", z, Whole>> => s = z
  /\ \A s, z \in Slot, w \in Part :
       /\ <<"stack", s, Whole>> # <<"as", z, w>> /\ <<"stack", s, Whole>> # <<"new", z, w>>
       /\ <<"mem", s, Whole>> # <<"as", z, w>> /\ <<"mem", s, Whole>> # <<"new", z, w>>
  /\ \A s, z \in Slot : \A w, x \in Part :
       /\ <<"as", s, w>> # <<"new", z, x>>
       /\ <<"as", s, w>> = <<"as", z, x>> => s = z /\ w = x
       /\ <<"new", s, w>> = <<"new", z, x>> => s = z /\ w = x
  OBVIOUS

\* the page g is in cell c and in no other, nor free
LEMMA OneCell ==
  ASSUME NEW g, g \notin free, NEW c \in Cell, \A d \in Cell : Contents[d] = g <=> d = c
  PROVE  \E x : Places(g) = {x}
<1>a. ASSUME NEW s \in Slot
      PROVE  /\ kstack[s] = g <=> c = <<"stack", s, Whole>>
             /\ call[s].mem = g <=> c = <<"mem", s, Whole>>
  BY Cells, ContentsAre
<1>b. ASSUME NEW s \in Slot, NEW w \in Part
      PROVE  /\ PageAt(as[s], w) = g <=> c = <<"as", s, w>>
             /\ PageAt(call[s].new, w) = g <=> c = <<"new", s, w>>
  <2>1. <<"as", s, w>> \in Cell /\ <<"new", s, w>> \in Cell
    BY Cells
  <2>2. /\ Contents[<<"as", s, w>>] = PageAt(as[s], w)
        /\ Contents[<<"new", s, w>>] = PageAt(call[s].new, w)
    BY ContentsAre
  <2> QED
    BY <2>1, <2>2
<1>0. /\ \A s \in Slot : kstack[s] = g <=> c = <<"stack", s, Whole>>
      /\ \A s \in Slot : call[s].mem = g <=> c = <<"mem", s, Whole>>
      /\ \A s \in Slot, w \in Part : PageAt(as[s], w) = g <=> c = <<"as", s, w>>
      /\ \A s \in Slot, w \in Part : PageAt(call[s].new, w) = g <=> c = <<"new", s, w>>
  BY <1>a, <1>b
<1>1. ASSUME NEW s \in Slot, c = <<"stack", s, Whole>> PROVE \E x : Places(g) = {x}
  <2>1. /\ \A z \in Slot : kstack[z] = g <=> z = s
        /\ \A z \in Slot : call[z].mem # g
        /\ \A z \in Slot, w \in Part : PageAt(as[z], w) # g /\ PageAt(call[z].new, w) # g
    BY <1>0, <1>1, CellsDiffer
  <2>2. ASSUME NEW z \in Slot PROVE Uses(as[z], g) = {} /\ Uses(call[z].new, g) = {}
    <3>1. \A w \in Part : PageAt(as[z], w) # g
      BY <2>1
    <3>2. \A w \in Part : PageAt(call[z].new, w) # g
      BY <2>1
    <3> QED
      BY <3>1, <3>2, UsesIs
  <2>3. Places(g) = {<<"stack", s>>}
    BY <2>1, <2>2 DEF Places
  <2> QED
    BY <2>3
<1>2. ASSUME NEW s \in Slot, c = <<"mem", s, Whole>> PROVE \E x : Places(g) = {x}
  <2>1. /\ \A z \in Slot : kstack[z] # g
        /\ \A z \in Slot : call[z].mem = g <=> z = s
        /\ \A z \in Slot, w \in Part : PageAt(as[z], w) # g /\ PageAt(call[z].new, w) # g
    BY <1>0, <1>2, CellsDiffer
  <2>2. ASSUME NEW z \in Slot PROVE Uses(as[z], g) = {} /\ Uses(call[z].new, g) = {}
    <3>1. \A w \in Part : PageAt(as[z], w) # g
      BY <2>1
    <3>2. \A w \in Part : PageAt(call[z].new, w) # g
      BY <2>1
    <3> QED
      BY <3>1, <3>2, UsesIs
  <2>3. Places(g) = {<<"mem", s>>}
    BY <2>1, <2>2 DEF Places
  <2> QED
    BY <2>3
<1>3. ASSUME NEW s \in Slot, NEW w \in Part, c = <<"as", s, w>> PROVE \E x : Places(g) = {x}
  <2>1. /\ \A z \in Slot : kstack[z] # g /\ call[z].mem # g
        /\ \A z \in Slot, x \in Part : PageAt(as[z], x) = g <=> z = s /\ x = w
        /\ \A z \in Slot, x \in Part : PageAt(call[z].new, x) # g
    BY <1>0, <1>3, CellsDiffer
  <2>2. ASSUME NEW z \in Slot
        PROVE  /\ z # s => Uses(as[z], g) = {}
               /\ Uses(call[z].new, g) = {}
    <3>1. z # s => \A x \in Part : PageAt(as[z], x) # g
      BY <2>1
    <3>2. \A x \in Part : PageAt(call[z].new, x) # g
      BY <2>1
    <3> QED
      BY <3>1, <3>2, UsesIs
  <2>3. PICK u : Uses(as[s], g) = {u}
    <3>1. \A x \in Part : PageAt(as[s], x) = g <=> x = w
      BY <2>1
    <3> QED
      BY <3>1, UsesIs
  <2> DEFINE A == UNION {{z} \X Uses(as[z], g) : z \in Slot}
             B == UNION {{z} \X Uses(call[z].new, g) : z \in Slot}
  <2>5. A = {<<s, u>>} /\ B = {}
    <3>1. {s} \X Uses(as[s], g) = {<<s, u>>}
      BY <2>3
    <3>2. ASSUME NEW z \in Slot
          PROVE  /\ z # s => {z} \X Uses(as[z], g) = {}
                 /\ {z} \X Uses(call[z].new, g) = {}
      BY <2>2
    <3>3. ASSUME NEW x \in A PROVE x = <<s, u>>
      <4>1. PICK z \in Slot : x \in {z} \X Uses(as[z], g)
        OBVIOUS
      <4> QED
        BY <3>1, <3>2, <4>1
    <3>4. <<s, u>> \in A
      BY <3>1
    <3>5. ASSUME NEW x \in B PROVE FALSE
      <4>1. PICK z \in Slot : x \in {z} \X Uses(call[z].new, g)
        OBVIOUS
      <4> QED
        BY <3>2, <4>1
    <3> HIDE DEF A, B
    <3>6. A = {<<s, u>>}
      BY <3>3, <3>4
    <3>7. B = {}
      BY <3>5
    <3> QED
      BY <3>6, <3>7
  <2>4. Places(g) = {<<"as", <<s, u>>>>}
    BY <2>1, <2>5 DEF Places
  <2> QED
    BY <2>4
<1>4. ASSUME NEW s \in Slot, NEW w \in Part, c = <<"new", s, w>> PROVE \E x : Places(g) = {x}
  <2>1. /\ \A z \in Slot : kstack[z] # g /\ call[z].mem # g
        /\ \A z \in Slot, x \in Part : PageAt(call[z].new, x) = g <=> z = s /\ x = w
        /\ \A z \in Slot, x \in Part : PageAt(as[z], x) # g
    BY <1>0, <1>4, CellsDiffer
  <2>2. ASSUME NEW z \in Slot
        PROVE  /\ z # s => Uses(call[z].new, g) = {}
               /\ Uses(as[z], g) = {}
    <3>1. z # s => \A x \in Part : PageAt(call[z].new, x) # g
      BY <2>1
    <3>2. \A x \in Part : PageAt(as[z], x) # g
      BY <2>1
    <3> QED
      BY <3>1, <3>2, UsesIs
  <2>3. PICK u : Uses(call[s].new, g) = {u}
    <3>1. \A x \in Part : PageAt(call[s].new, x) = g <=> x = w
      BY <2>1
    <3> QED
      BY <3>1, UsesIs
  <2> DEFINE A == UNION {{z} \X Uses(call[z].new, g) : z \in Slot}
             B == UNION {{z} \X Uses(as[z], g) : z \in Slot}
  <2>5. A = {<<s, u>>} /\ B = {}
    <3>1. {s} \X Uses(call[s].new, g) = {<<s, u>>}
      BY <2>3
    <3>2. ASSUME NEW z \in Slot
          PROVE  /\ z # s => {z} \X Uses(call[z].new, g) = {}
                 /\ {z} \X Uses(as[z], g) = {}
      BY <2>2
    <3>3. ASSUME NEW x \in A PROVE x = <<s, u>>
      <4>1. PICK z \in Slot : x \in {z} \X Uses(call[z].new, g)
        OBVIOUS
      <4> QED
        BY <3>1, <3>2, <4>1
    <3>4. <<s, u>> \in A
      BY <3>1
    <3>5. ASSUME NEW x \in B PROVE FALSE
      <4>1. PICK z \in Slot : x \in {z} \X Uses(as[z], g)
        OBVIOUS
      <4> QED
        BY <3>2, <4>1
    <3> HIDE DEF A, B
    <3>6. A = {<<s, u>>}
      BY <3>3, <3>4
    <3>7. B = {}
      BY <3>5
    <3> QED
      BY <3>6, <3>7
  <2>4. Places(g) = {<<"new", <<s, u>>>>}
    BY <2>1, <2>5 DEF Places
  <2> QED
    BY <2>4
<1> QED
  BY <1>1, <1>2, <1>3, <1>4, Cells

LEMMA OnePlaceIs ==
  ASSUME PageAssumption, WellPlaced(free, Cell, Contents) PROVE OnePlace
<1> SUFFICES ASSUME NEW g \in Page PROVE \E x : Places(g) = {x}
  BY FS_Singleton DEF OnePlace
<1>0. g # Nil
  BY PagesAreNotNil
<1>1. CASE g \in free
  <2>1. \A c \in Cell : Contents[c] # g
    BY <1>1 DEF WellPlaced
  <2>2. /\ \A z \in Slot : kstack[z] # g /\ call[z].mem # g
        /\ \A z \in Slot, w \in Part : PageAt(as[z], w) # g /\ PageAt(call[z].new, w) # g
    <3>1. ASSUME NEW z \in Slot PROVE kstack[z] # g /\ call[z].mem # g
      BY <2>1, Cells, ContentsAre
    <3>2. ASSUME NEW z \in Slot, NEW w \in Part
          PROVE  PageAt(as[z], w) # g /\ PageAt(call[z].new, w) # g
    <4>1. <<"as", z, w>> \in Cell /\ <<"new", z, w>> \in Cell
      BY Cells
    <4>2. /\ Contents[<<"as", z, w>>] = PageAt(as[z], w)
          /\ Contents[<<"new", z, w>>] = PageAt(call[z].new, w)
      BY ContentsAre
    <4> QED
      BY <2>1, <4>1, <4>2
    <3> QED
      BY <3>1, <3>2
  <2>3. ASSUME NEW z \in Slot PROVE Uses(as[z], g) = {} /\ Uses(call[z].new, g) = {}
    <3>1. \A w \in Part : PageAt(as[z], w) # g
      BY <2>2
    <3>2. \A w \in Part : PageAt(call[z].new, w) # g
      BY <2>2
    <3> QED
      BY <3>1, <3>2, UsesIs
  <2>4. Places(g) = {<<"free">>}
    BY <1>1, <2>2, <2>3 DEF Places
  <2> QED
    BY <2>4
<1>2. CASE g \notin free
  <2>1. PICK c \in Cell : Contents[c] = g
    BY <1>2 DEF WellPlaced
  <2>2. \A d \in Cell : Contents[d] = g <=> d = c
    BY <1>0, <2>1 DEF WellPlaced
  <2> QED
    BY <1>2, <2>2, OneCell
<1> QED
  BY <1>1, <1>2

-----------------------------------------------------------------------------
(* Sizes *)

LEMMA DivMod ==
  ASSUME NEW m \in Nat \ {0}, NEW a \in Int
  PROVE  /\ a = ((a \div m) * m) + (a % m)
         /\ a \div m \in Int /\ a % m \in 0 .. m - 1
  BY Z3

LEMMA DivMonotone ==
  ASSUME NEW m \in Nat \ {0}, NEW a \in Int, NEW b \in Int, a <= b
  PROVE  a \div m <= b \div m
<1> DEFINE qa == a \div m
           qb == b \div m
           ra == a % m
           rb == b % m
<1>1. a = qa * m + ra /\ qa \in Int /\ ra \in 0 .. m - 1
  BY DivMod
<1>2. b = qb * m + rb /\ qb \in Int /\ rb \in 0 .. m - 1
  BY DivMod
<1> HIDE DEF qa, qb, ra, rb
<1>3. ASSUME qa >= qb + 1 PROVE FALSE
  <2>1. (qa - qb) * m >= m
    BY <1>1, <1>2, <1>3, Z3
  <2>2. qa * m - qb * m >= m
    BY <2>1, <1>1, <1>2, Z3
  <2> QED
    BY <1>1, <1>2, <2>2, Z3
<1>4. qa <= qb
  BY <1>1, <1>2, <1>3
<1> QED
  BY <1>4 DEF qa, qb

LEMMA DivNat ==
  ASSUME NEW m \in Nat \ {0}, NEW a \in Nat PROVE a \div m \in Nat
  BY Z3

LEMMA DivExact ==
  ASSUME NEW m \in Nat \ {0}, NEW k \in Nat
  PROVE  (k * m + m - 1) \div m = k /\ (k * m) \div m = k
  BY Z3

LEMMA Constants == ASSUME PageAssumption
  PROVE  /\ PGSIZE \in Nat \ {0} /\ NPTENTRIES \in Nat \ {0} /\ MaxPages \in Nat \ {0}
         /\ Page \subseteq Nat \ {0} /\ 1 .. 5 \subseteq Page
         /\ NPROC \in Nat \ {0} /\ Slot = 1 .. NPROC /\ Vpn = 0 .. MaxPages - 1
         /\ Init1 \in Slot /\ Nil \notin Slot /\ 0 \in Vpn
         /\ MaxPages * PGSIZE \in Nat
  BY DEF PageAssumption, Slot, Vpn, Init1, Nil

LEMMA TablesAre == ASSUME PageAssumption
  PROVE  /\ 0 \in Table
         /\ \A v \in Vpn : v \div NPTENTRIES \in Table
<1> DEFINE top == (MaxPages - 1) \div NPTENTRIES
<1>0. Table = 0 .. top
  BY DEF Table
<1>1. ASSUME NEW v \in Vpn PROVE v \div NPTENTRIES \in Table
  <2>1. v \in Int /\ 0 <= v /\ v <= MaxPages - 1 /\ MaxPages - 1 \in Int
    BY Constants
  <2>2. v \div NPTENTRIES <= top
    BY <2>1, Constants, DivMonotone
  <2>3. v \div NPTENTRIES \in Nat
    <3>1. v \in Nat /\ NPTENTRIES \in Nat \ {0}
      BY <2>1, Constants
    <3> QED
      BY <3>1, DivNat
  <2>4. top \in Int
    BY <2>1, Constants, DivMod
  <2> HIDE DEF top
  <2> QED
    BY <1>0, <2>2, <2>3, <2>4
<1>2. 0 \div NPTENTRIES = 0
  <2>1. (0 * NPTENTRIES) \div NPTENTRIES = 0
    BY Constants, DivExact
  <2> QED
    BY <2>1, Constants
<1> QED
  BY <1>1, <1>2, Constants

LEMMA PagesAre == ASSUME PageAssumption
  PROVE  /\ \A n \in Nat : Pages(n) \in Nat
         /\ \A n, k \in Nat : n <= k => Pages(n) <= Pages(k)
         /\ \A k \in Nat : Pages(k * PGSIZE) = k
         /\ \A n \in 0 .. MaxPages * PGSIZE : Pages(n) \in 0 .. MaxPages
         /\ Pages(PGSIZE) = 1 /\ Pages(0) = 0
<1>1. ASSUME NEW k \in Nat PROVE Pages(k * PGSIZE) = k
  <2>1. PGSIZE \in Nat \ {0}
    BY Constants
  <2>2. ((k * PGSIZE) + PGSIZE - 1) \div PGSIZE = k
    BY <2>1, Z3
  <2> QED
    BY <2>2 DEF Pages
<1>2. ASSUME NEW n \in Nat, NEW k \in Nat, n <= k PROVE Pages(n) <= Pages(k)
  <2>0. PGSIZE \in Nat \ {0}
    BY Constants
  <2>1. n + PGSIZE - 1 <= k + PGSIZE - 1 /\ n + PGSIZE - 1 \in Int /\ k + PGSIZE - 1 \in Int
    BY <1>2, <2>0
  <2> QED
    BY <2>1, Constants, DivMonotone DEF Pages
<1>3. Pages(0) = 0 /\ Pages(PGSIZE) = 1
  <2>1. Pages(0 * PGSIZE) = 0 /\ Pages(1 * PGSIZE) = 1
    BY <1>1
  <2>2. 0 * PGSIZE = 0 /\ 1 * PGSIZE = PGSIZE
    BY Constants
  <2> QED
    BY <2>1, <2>2
<1>4. ASSUME NEW n \in Nat PROVE Pages(n) \in Nat
  <2>0. PGSIZE \in Nat \ {0}
    BY Constants
  <2>1. n + PGSIZE - 1 \in Int
    BY <2>0
  <2>2. Pages(n) \in Int
    BY <2>1, Constants, DivMod DEF Pages
  <2>3. Pages(0) <= Pages(n)
    BY <1>2
  <2> QED
    BY <1>3, <2>2, <2>3
<1>5. ASSUME NEW n \in 0 .. MaxPages * PGSIZE PROVE Pages(n) \in 0 .. MaxPages
  <2>1. n \in Nat /\ n <= MaxPages * PGSIZE /\ MaxPages * PGSIZE \in Nat
    BY Constants
  <2>2. Pages(n) <= Pages(MaxPages * PGSIZE)
    BY <2>1, <1>2
  <2>3. Pages(MaxPages * PGSIZE) = MaxPages
    BY <1>1, Constants
  <2>4. Pages(n) \in Nat
    BY <2>1, <1>4
  <2> QED
    BY <2>2, <2>3, <2>4, Constants
<1> QED
  BY <1>1, <1>2, <1>3, <1>4, <1>5

-----------------------------------------------------------------------------
(* Spaces *)

LEMMA SpaceIs ==
  ASSUME NEW s \in Space
  PROVE  /\ s = [dir |-> s.dir, kern |-> s.kern, table |-> s.table, user |-> s.user]
         /\ s.dir \in Page \cup {Nil} /\ s.kern \in Page \cup {Nil}
         /\ s.table \in [Table -> Page \cup {Nil}] /\ s.user \in [Vpn -> Page \cup {Nil}]
         /\ \A w \in Part : PageAt(s, w) \in Page \cup {Nil}
<1>1. /\ s = [dir |-> s.dir, kern |-> s.kern, table |-> s.table, user |-> s.user]
      /\ s.dir \in Page \cup {Nil} /\ s.kern \in Page \cup {Nil}
      /\ s.table \in [Table -> Page \cup {Nil}] /\ s.user \in [Vpn -> Page \cup {Nil}]
  BY DEF Space
<1>2. ASSUME NEW w \in Part PROVE PageAt(s, w) \in Page \cup {Nil}
  BY <1>1, Parts, PageAtIs
<1> QED
  BY <1>1, <1>2

LEMMA NoSpaceIs ==
  /\ NoSpace \in Space /\ Mapped(NoSpace) = {}
  /\ \A w \in Part : PageAt(NoSpace, w) = Nil
<1>1. NoSpace \in Space
  BY DEF Space, NoSpace
<1>2. Mapped(NoSpace) = {}
  BY DEF Mapped, NoSpace
<1>3. ASSUME NEW w \in Part PROVE PageAt(NoSpace, w) = Nil
  BY Parts, PageAtIs DEF NoSpace
<1> QED
  BY <1>1, <1>2, <1>3

LEMMA HeldIs ==
  ASSUME NEW s \in Space
  PROVE  Held(s) = {PageAt(s, w) : w \in Part} \ {Nil}
<1> DEFINE P == {PageAt(s, w) : w \in Part}
<1>1. ASSUME NEW g \in Held(s) PROVE g \in P /\ g # Nil
  <2>0. g # Nil
    BY DEF Held
  <2>1. CASE g = s.dir \/ g = s.kern
    BY <2>0, <2>1, Parts, PageAtIs
  <2>2. CASE g \in Range(s.table)
    <3>1. PICK t \in Table : g = s.table[t]
      BY <2>2, SpaceIs DEF Range
    <3>2. g = PageAt(s, <<"table", t>>) /\ <<"table", t>> \in Part
      BY <3>1, Parts, PageAtIs
    <3> QED
      BY <2>0, <3>2
  <2>3. CASE g \in Range(s.user)
    <3>1. PICK v \in Vpn : g = s.user[v]
      BY <2>3, SpaceIs DEF Range
    <3>2. g = PageAt(s, <<"user", v>>) /\ <<"user", v>> \in Part
      BY <3>1, Parts, PageAtIs
    <3> QED
      BY <2>0, <3>2
  <2> QED
    BY <2>1, <2>2, <2>3 DEF Held
<1>2. ASSUME NEW w \in Part, PageAt(s, w) # Nil PROVE PageAt(s, w) \in Held(s)
  <2>1. \/ PageAt(s, w) = s.dir \/ PageAt(s, w) = s.kern
        \/ \E t \in Table : PageAt(s, w) = s.table[t]
        \/ \E v \in Vpn : PageAt(s, w) = s.user[v]
    BY Parts, PageAtIs
  <2>2. DOMAIN s.table = Table /\ DOMAIN s.user = Vpn
    BY SpaceIs
  <2> QED
    BY <1>2, <2>1, <2>2 DEF Held, Range
<1> QED
  BY <1>1, <1>2

\* a page is entered
Entered(s, t, g, v, m) == [s EXCEPT !.table[t] = g, !.user[v] = m]

LEMMA MapIs ==
  ASSUME NEW s \in Space, NEW t \in Table, NEW v \in Vpn,
         NEW g \in Page \cup {Nil}, NEW m \in Page \cup {Nil}
  PROVE  /\ Entered(s, t, g, v, m) \in Space
         /\ \A w \in Part : PageAt(Entered(s, t, g, v, m), w) =
              IF w = <<"table", t>> THEN g ELSE IF w = <<"user", v>> THEN m ELSE PageAt(s, w)
         /\ m # Nil => Mapped(Entered(s, t, g, v, m)) = Mapped(s) \cup {v}
<1> DEFINE z == Entered(s, t, g, v, m)
<1>1. /\ z = [dir |-> s.dir, kern |-> s.kern, table |-> [s.table EXCEPT ![t] = g],
              user |-> [s.user EXCEPT ![v] = m]]
  <2>1. z = [s EXCEPT !.table[t] = g, !.user[v] = m]
    BY Zenon DEF Entered
  <2> HIDE DEF z
  <2> QED
    BY <2>1 DEF Space
<1> HIDE DEF z
<1>2. z \in Space
  BY <1>1, SpaceIs DEF Space
<1>3. /\ z.dir = s.dir /\ z.kern = s.kern
      /\ \A x \in Table : z.table[x] = IF x = t THEN g ELSE s.table[x]
      /\ \A x \in Vpn : z.user[x] = IF x = v THEN m ELSE s.user[x]
  BY <1>1, SpaceIs
<1>4. ASSUME NEW w \in Part
      PROVE  PageAt(z, w) = IF w = <<"table", t>> THEN g
                            ELSE IF w = <<"user", v>> THEN m ELSE PageAt(s, w)
  <2>s. /\ PageAt(s, <<"dir", 0>>) = s.dir /\ PageAt(s, <<"kern", 0>>) = s.kern
        /\ \A x \in Table : PageAt(s, <<"table", x>>) = s.table[x]
        /\ \A x \in Vpn : PageAt(s, <<"user", x>>) = s.user[x]
    BY PageAtIs
  <2>z. /\ PageAt(z, <<"dir", 0>>) = z.dir /\ PageAt(z, <<"kern", 0>>) = z.kern
        /\ \A x \in Table : PageAt(z, <<"table", x>>) = z.table[x]
        /\ \A x \in Vpn : PageAt(z, <<"user", x>>) = z.user[x]
    BY PageAtIs
  <2>1. CASE w = <<"dir", 0>> \/ w = <<"kern", 0>>
    <3>1. w # <<"table", t>> /\ w # <<"user", v>>
      BY <2>1
    <3> QED
      BY <1>3, <2>1, <2>s, <2>z, <3>1
  <2>2. ASSUME NEW x \in Table, w = <<"table", x>>
        PROVE  PageAt(z, w) = IF w = <<"table", t>> THEN g ELSE PageAt(s, w)
    <3>1. w = <<"table", t>> <=> x = t
      BY <2>2
    <3> QED
      BY <1>3, <2>2, <2>s, <2>z, <3>1
  <2>3. ASSUME NEW x \in Vpn, w = <<"user", x>>
        PROVE  PageAt(z, w) = IF w = <<"user", v>> THEN m ELSE PageAt(s, w)
    <3>1. w = <<"user", v>> <=> x = v
      BY <2>3
    <3> QED
      BY <1>3, <2>3, <2>s, <2>z, <3>1
  <2>4. (w = <<"table", t>> => w # <<"user", v>>) /\ \A x \in Table : w = <<"table", x>> => w # <<"user", v>>
    OBVIOUS
  <2>5. \A x \in Vpn : w = <<"user", x>> => w # <<"table", t>>
    OBVIOUS
  <2> QED
    BY <2>1, <2>2, <2>3, <2>4, <2>5, Parts
<1>5. m # Nil => Mapped(z) = Mapped(s) \cup {v}
  BY <1>3 DEF Mapped
<1> QED
  BY <1>2, <1>4, <1>5 DEF z

\* setupkvm(), in two steps
LEMMA DirIs ==
  ASSUME NEW s \in Space, NEW g \in Page \cup {Nil}
  PROVE  /\ [s EXCEPT !.dir = g] \in Space /\ [s EXCEPT !.kern = g] \in Space
         /\ Mapped([s EXCEPT !.dir = g]) = Mapped(s) /\ Mapped([s EXCEPT !.kern = g]) = Mapped(s)
         /\ \A w \in Part : PageAt([s EXCEPT !.dir = g], w) =
                             IF w = <<"dir", 0>> THEN g ELSE PageAt(s, w)
         /\ \A w \in Part : PageAt([s EXCEPT !.kern = g], w) =
                             IF w = <<"kern", 0>> THEN g ELSE PageAt(s, w)
<1>1. /\ [s EXCEPT !.dir = g] = [dir |-> g, kern |-> s.kern, table |-> s.table, user |-> s.user]
      /\ [s EXCEPT !.kern = g] = [dir |-> s.dir, kern |-> g, table |-> s.table, user |-> s.user]
  BY SpaceIs
<1>2. [s EXCEPT !.dir = g] \in Space /\ [s EXCEPT !.kern = g] \in Space
  BY <1>1, SpaceIs DEF Space
<1>3. Mapped([s EXCEPT !.dir = g]) = Mapped(s) /\ Mapped([s EXCEPT !.kern = g]) = Mapped(s)
  BY <1>1 DEF Mapped
<1>4. ASSUME NEW w \in Part
      PROVE  /\ PageAt([s EXCEPT !.dir = g], w) = IF w = <<"dir", 0>> THEN g ELSE PageAt(s, w)
             /\ PageAt([s EXCEPT !.kern = g], w) = IF w = <<"kern", 0>> THEN g ELSE PageAt(s, w)
  <2> DEFINE y == [s EXCEPT !.dir = g]
             z == [s EXCEPT !.kern = g]
  <2>s. /\ PageAt(s, <<"dir", 0>>) = s.dir /\ PageAt(s, <<"kern", 0>>) = s.kern
        /\ \A x \in Table : PageAt(s, <<"table", x>>) = s.table[x]
        /\ \A x \in Vpn : PageAt(s, <<"user", x>>) = s.user[x]
    BY PageAtIs
  <2>y. /\ PageAt(y, <<"dir", 0>>) = y.dir /\ PageAt(y, <<"kern", 0>>) = y.kern
        /\ \A x \in Table : PageAt(y, <<"table", x>>) = y.table[x]
        /\ \A x \in Vpn : PageAt(y, <<"user", x>>) = y.user[x]
    BY PageAtIs
  <2>z. /\ PageAt(z, <<"dir", 0>>) = z.dir /\ PageAt(z, <<"kern", 0>>) = z.kern
        /\ \A x \in Table : PageAt(z, <<"table", x>>) = z.table[x]
        /\ \A x \in Vpn : PageAt(z, <<"user", x>>) = z.user[x]
    BY PageAtIs
  <2>0. /\ y.dir = g /\ y.kern = s.kern /\ y.table = s.table /\ y.user = s.user
        /\ z.dir = s.dir /\ z.kern = g /\ z.table = s.table /\ z.user = s.user
    BY <1>1
  <2> HIDE DEF y, z
  <2>1. ASSUME w = <<"dir", 0>> PROVE PageAt(y, w) = g /\ PageAt(z, w) = PageAt(s, w)
    BY <2>0, <2>s, <2>y, <2>z, <2>1
  <2>2. ASSUME w = <<"kern", 0>> PROVE PageAt(y, w) = PageAt(s, w) /\ PageAt(z, w) = g
    BY <2>0, <2>s, <2>y, <2>z, <2>2
  <2>3. ASSUME NEW x \in Table, w = <<"table", x>>
        PROVE  PageAt(y, w) = PageAt(s, w) /\ PageAt(z, w) = PageAt(s, w)
    BY <2>0, <2>s, <2>y, <2>z, <2>3
  <2>4. ASSUME NEW x \in Vpn, w = <<"user", x>>
        PROVE  PageAt(y, w) = PageAt(s, w) /\ PageAt(z, w) = PageAt(s, w)
    BY <2>0, <2>s, <2>y, <2>z, <2>4
  <2>5. /\ PageAt(y, w) = IF w = <<"dir", 0>> THEN g ELSE PageAt(s, w)
        /\ PageAt(z, w) = IF w = <<"kern", 0>> THEN g ELSE PageAt(s, w)
    BY <2>1, <2>2, <2>3, <2>4, Parts
  <2> QED
    BY <2>5 DEF y, z
<1> QED
  BY <1>2, <1>3, <1>4

\* deallocuvm()
LEMMA WithoutIs ==
  ASSUME PageAssumption, NEW s \in Space, NEW n \in Nat
  PROVE  /\ Without(s, n) \in Space
         /\ Mapped(Without(s, n)) = {v \in Mapped(s) : v < Pages(n)}
         /\ \A w \in Part : PageAt(Without(s, n), w) \in {Nil, PageAt(s, w)}
<1> DEFINE z == Without(s, n)
<1>1. z = [dir |-> s.dir, kern |-> s.kern, table |-> s.table,
           user |-> [v \in Vpn |-> IF v >= Pages(n) THEN Nil ELSE s.user[v]]]
  BY SpaceIs DEF Without, FirstFreed
<1>2. z \in Space
  BY <1>1, SpaceIs DEF Space
<1>3. /\ z.dir = s.dir /\ z.kern = s.kern /\ z.table = s.table
      /\ \A v \in Vpn : z.user[v] = IF v >= Pages(n) THEN Nil ELSE s.user[v]
  BY <1>1
<1> HIDE DEF z
<1>4. Pages(n) \in Nat /\ \A v \in Vpn : v \in Nat
  <2>1. Pages(n) \in Nat
    BY PagesAre
  <2>2. \A v \in Vpn : v \in Nat
    BY Constants
  <2> QED
    BY <2>1, <2>2
<1>5. Mapped(z) = {v \in Mapped(s) : v < Pages(n)}
  BY <1>3, <1>4 DEF Mapped
<1>6. ASSUME NEW w \in Part PROVE PageAt(z, w) \in {Nil, PageAt(s, w)}
  <2>1. CASE w = <<"dir", 0>> \/ w = <<"kern", 0>>
    BY <1>3, <2>1, PageAtIs
  <2>2. ASSUME NEW x \in Table, w = <<"table", x>> PROVE PageAt(z, w) = PageAt(s, w)
    BY <1>3, <2>2, PageAtIs
  <2>3. ASSUME NEW x \in Vpn, w = <<"user", x>> PROVE PageAt(z, w) \in {Nil, PageAt(s, w)}
    BY <1>3, <2>3, PageAtIs
  <2> QED
    BY <2>1, <2>2, <2>3, Parts
<1> QED
  BY <1>2, <1>5, <1>6 DEF z

-----------------------------------------------------------------------------
(* The invariant, step by step *)

LEMMA CallIs ==
  ASSUME NEW c \in Call
  PROVE  /\ c = [op |-> c.op, pc |-> c.pc, new |-> c.new, next |-> c.next, upto |-> c.upto,
                 mem |-> c.mem, size |-> c.size, child |-> c.child, failed |-> c.failed,
                 had |-> c.had]
         /\ c.op \in {"none", "fork", "exec", "sbrk"}
         /\ c.pc \in {"user", "kstack", "dir", "kern", "page", "map", "done"}
         /\ c.new \in Space /\ c.next \in 0 .. MaxPages /\ c.upto \in 0 .. MaxPages
         /\ c.mem \in Page \cup {Nil} /\ c.size \in 0 .. MaxPages * PGSIZE
         /\ c.child \in Slot \cup {Nil} /\ c.failed \in BOOLEAN /\ c.had \in SUBSET Vpn
  BY DEF Call

LEMMA AtUserIs ==
  ASSUME PageAssumption, NEW had \in SUBSET Vpn
  PROVE  /\ AtUser(had) \in Call /\ [AtUser(had) EXCEPT !.failed = TRUE] \in Call
         /\ Shape(AtUser(had)) /\ Shape([AtUser(had) EXCEPT !.failed = TRUE])
<1>1. 0 \in 0 .. MaxPages /\ 0 \in 0 .. MaxPages * PGSIZE
  BY Constants
<1>2. AtUser(had) \in Call /\ [AtUser(had) EXCEPT !.failed = TRUE] \in Call
  BY <1>1, NoSpaceIs DEF AtUser, Call
<1>3. Shape(AtUser(had)) /\ Shape([AtUser(had) EXCEPT !.failed = TRUE])
  BY DEF AtUser, Shape, Nil
<1> QED
  BY <1>2, <1>3

LEMMA ContentsTyped ==
  ASSUME TypeOK PROVE \A c \in Cell : Contents[c] \in Page \cup {Nil}
<1> SUFFICES ASSUME NEW c \in Cell PROVE Contents[c] \in Page \cup {Nil}
  OBVIOUS
<1>1. ASSUME NEW s \in Slot
      PROVE  kstack[s] \in Page \cup {Nil} /\ call[s].mem \in Page \cup {Nil}
  BY CallIs DEF TypeOK
<1>2. ASSUME NEW s \in Slot, NEW w \in Part
      PROVE  PageAt(as[s], w) \in Page \cup {Nil} /\ PageAt(call[s].new, w) \in Page \cup {Nil}
  <2>1. as[s] \in Space /\ call[s].new \in Space
    BY CallIs DEF TypeOK
  <2> QED
    BY <2>1, SpaceIs
<1>3. PICK s \in Slot :
        \/ c = <<"stack", s, Whole>> \/ c = <<"mem", s, Whole>>
        \/ \E w \in Part : c = <<"as", s, w>> \/ c = <<"new", s, w>>
  BY Cells
<1>4. CASE c = <<"stack", s, Whole>> \/ c = <<"mem", s, Whole>>
  BY <1>1, <1>4, ContentsAre
<1>5. ASSUME NEW w \in Part, c = <<"as", s, w>> \/ c = <<"new", s, w>>
      PROVE  Contents[c] \in Page \cup {Nil}
  <2>1. CASE c = <<"as", s, w>>
    <3>1. Contents[c] = PageAt(as[s], w)
      BY <2>1 DEF Contents, PageIn
    <3> QED
      BY <1>2, <3>1
  <2>2. CASE c = <<"new", s, w>>
    <3>1. Contents[c] = PageAt(call[s].new, w)
      BY <2>2 DEF Contents, PageIn
    <3> QED
      BY <1>2, <3>1
  <2> QED
    BY <1>5, <2>1, <2>2
<1> QED
  BY <1>3, <1>4, <1>5

\* the cells that a step leaves alone
LEMMA SameCells ==
  ASSUME NEW X, X \subseteq Cell,
         \A s \in Slot : <<"stack", s, Whole>> \notin X => kstack'[s] = kstack[s],
         \A s \in Slot : <<"mem", s, Whole>> \notin X => call'[s].mem = call[s].mem,
         \A s \in Slot, w \in Part :
           <<"as", s, w>> \notin X => PageAt(as'[s], w) = PageAt(as[s], w),
         \A s \in Slot, w \in Part :
           <<"new", s, w>> \notin X => PageAt(call'[s].new, w) = PageAt(call[s].new, w)
  PROVE  \A c \in Cell \ X : Contents'[c] = Contents[c]
<1> SUFFICES ASSUME NEW c \in Cell \ X PROVE Contents'[c] = Contents[c]
  OBVIOUS
<1>0. PICK s \in Slot :
        \/ c = <<"stack", s, Whole>> \/ c = <<"mem", s, Whole>>
        \/ \E w \in Part : c = <<"as", s, w>> \/ c = <<"new", s, w>>
  BY Cells
<1>1. CASE c = <<"stack", s, Whole>>
  <2>1. Contents[c] = kstack[s] /\ Contents'[c] = kstack'[s]
    BY <1>1, Cells DEF Contents, PageIn
  <2> QED
    BY <1>1, <2>1
<1>2. CASE c = <<"mem", s, Whole>>
  <2>1. Contents[c] = call[s].mem /\ Contents'[c] = call'[s].mem
    BY <1>2, Cells DEF Contents, PageIn
  <2> QED
    BY <1>2, <2>1
<1>3. ASSUME NEW w \in Part, c = <<"as", s, w>> PROVE Contents'[c] = Contents[c]
  <2>1. Contents[c] = PageAt(as[s], w) /\ Contents'[c] = PageAt(as'[s], w)
    BY <1>3, Cells DEF Contents, PageIn
  <2> QED
    BY <1>3, <2>1
<1>4. ASSUME NEW w \in Part, c = <<"new", s, w>> PROVE Contents'[c] = Contents[c]
  <2>1. Contents[c] = PageAt(call[s].new, w) /\ Contents'[c] = PageAt(call'[s].new, w)
    BY <1>4, Cells DEF Contents, PageIn
  <2> QED
    BY <1>4, <2>1
<1> QED
  BY <1>0, <1>1, <1>2, <1>3, <1>4

LEMMA ContentsNext ==
  /\ \A s \in Slot : /\ Contents'[<<"stack", s, Whole>>] = kstack'[s]
                     /\ Contents'[<<"mem", s, Whole>>] = call'[s].mem
  /\ \A s \in Slot, w \in Part : /\ Contents'[<<"as", s, w>>] = PageAt(as'[s], w)
                                  /\ Contents'[<<"new", s, w>>] = PageAt(call'[s].new, w)
  BY Cells DEF Contents, PageIn

\* what a step of p leaves alone of a process q
LEMMA OtherKeeps ==
  ASSUME NEW p \in Slot, NEW q \in Slot \ {p}, InvAt(q),
         UNCHANGED <<call[q], state[q], sz[q], as[q]>>,
         state[q] # "EMBRYO" => kstack'[q] = kstack[q],
         \A r \in Slot \ {p} : call'[r].child = call[r].child,
         call[q].op = "fork" =>
           /\ state'[call[q].child] = state[call[q].child]
           /\ kstack'[call[q].child] = kstack[call[q].child]
           /\ call'[p].child # call[q].child
  PROVE  InvAt(q)'
<1> USE DEF InvAt
<1>1. Shape(call[q])' /\ Unborn(q)' /\ Sized(q)' /\ Kept(q)'
  BY DEF Unborn, Sized, Kept, At
<1>2. Progress(q)'
  BY DEF Progress, Built
<1>3. Child(q)'
  BY DEF Child
<1> QED
  BY <1>1, <1>2, <1>3

\* a slot that is free, taken by a fork(), or a zombie
LEMMA IdleKeeps ==
  ASSUME NEW q \in Slot, InvAt(q), state[q] # "RUNNABLE", state'[q] # "RUNNABLE",
         call'[q] = call[q], Unborn(q)'
  PROVE  InvAt(q)'
<1> USE DEF InvAt
<1>1. call[q].pc = "user" /\ call[q].op = "none"
  BY DEF Progress, Shape
<1>2. Shape(call[q])' /\ Progress(q)' /\ Sized(q)' /\ Child(q)' /\ Kept(q)'
  BY <1>1 DEF Progress, Sized, Child, Kept, At
<1> QED
  BY <1>2

\* the pages that deallocuvm() frees
LEMMA TakenBack ==
  ASSUME PageAssumption, TypeOK, WellPlaced(free, Cell, Contents), NEW p \in Slot, NEW n \in Nat
  PROVE  \A g : g \in Held(as[p]) \ Held(Without(as[p], n)) <=>
               g # Nil /\ \E w \in Part : /\ PageAt(Without(as[p], n), w) = Nil
                                         /\ PageAt(as[p], w) = g
<1> DEFINE z == Without(as[p], n)
<1>0. as[p] \in Space
  BY DEF TypeOK
<1>1. z \in Space /\ \A w \in Part : PageAt(z, w) \in {Nil, PageAt(as[p], w)}
  BY <1>0, WithoutIs
<1>2. /\ Held(as[p]) = {PageAt(as[p], w) : w \in Part} \ {Nil}
      /\ Held(z) = {PageAt(z, w) : w \in Part} \ {Nil}
  BY <1>0, <1>1, HeldIs
<1>3. ASSUME NEW w \in Part, NEW x \in Part, PageAt(as[p], w) = PageAt(as[p], x),
             PageAt(as[p], w) # Nil
      PROVE  w = x
  <2>1. /\ <<"as", p, w>> \in Cell /\ <<"as", p, x>> \in Cell
    BY Cells
  <2>2. Contents[<<"as", p, w>>] = PageAt(as[p], w) /\ Contents[<<"as", p, x>>] = PageAt(as[p], x)
    BY ContentsAre
  <2>3. <<"as", p, w>> = <<"as", p, x>>
    BY <1>3, <2>1, <2>2 DEF WellPlaced
  <2> QED
    BY <2>3
<1> HIDE DEF z
<1>4. ASSUME NEW g, g \in Held(as[p]) \ Held(z)
      PROVE  g # Nil /\ \E w \in Part : PageAt(z, w) = Nil /\ PageAt(as[p], w) = g
  <2>1. PICK w \in Part : g = PageAt(as[p], w) /\ g # Nil
    BY <1>2, <1>4
  <2>2. PageAt(z, w) # g
    BY <1>2, <1>4, <2>1
  <2> QED
    BY <1>1, <2>1, <2>2
<1>5. ASSUME NEW g, g # Nil, NEW w \in Part, PageAt(z, w) = Nil, PageAt(as[p], w) = g
      PROVE  g \in Held(as[p]) \ Held(z)
  <2>1. g \in Held(as[p])
    BY <1>2, <1>5
  <2>2. ASSUME NEW x \in Part, PageAt(z, x) = g PROVE FALSE
    <3>1. PageAt(as[p], x) = g
      BY <1>1, <1>5, <2>2
    <3>2. x = w
      BY <1>3, <1>5, <3>1
    <3> QED
      BY <1>5, <2>2, <3>2
  <2> QED
    BY <1>2, <2>1, <2>2
<1>6. \A g : g \in Held(as[p]) \ Held(z) <=>
            g # Nil /\ \E w \in Part : PageAt(z, w) = Nil /\ PageAt(as[p], w) = g
  BY <1>4, <1>5
<1> QED
  BY <1>6 DEF z

\* a call that fails: all that it has taken goes back
LEMMA FailStep ==
  ASSUME PageAssumption, Inv, NEW p \in Slot, call[p].pc # "user", Fail(p)
  PROVE  Inv'
<1> DEFINE c == call[p]
           kept == TakeBack(as[p], sz[p])
           stack == IF c.op = "fork" THEN {kstack[c.child]} \ {Nil} ELSE {}
<1>0. /\ TypeOK /\ WellPlaced(free, Cell, Contents) /\ \A q \in Slot : InvAt(q)
      /\ InvAt(p) /\ state[p] = "RUNNABLE"
  BY DEF Inv, InvAt, Progress
<1>1. /\ c \in Call /\ as[p] \in Space /\ sz[p] \in Nat
  <2>1. sz[p] \in 0 .. MaxPages * PGSIZE /\ MaxPages * PGSIZE \in Nat
    BY <1>0, Constants DEF TypeOK
  <2>2. sz[p] \in Nat
    BY <2>1
  <2> QED
    BY <1>0, <2>2 DEF TypeOK
<1>2. /\ free' = free \cup MemOf(p) \cup Held(c.new) \cup stack
                 \cup (IF c.op = "sbrk" THEN Held(as[p]) \ Held(kept) ELSE {})
      /\ as' = IF c.op = "sbrk" THEN [as EXCEPT ![p] = kept] ELSE as
      /\ c.op = "fork" => /\ state' = [state EXCEPT ![c.child] = "UNUSED"]
                          /\ kstack' = [kstack EXCEPT ![c.child] = Nil]
      /\ c.op # "fork" => UNCHANGED <<state, kstack>>
      /\ call' = [call EXCEPT ![p] = [AtUser(c.had) EXCEPT !.failed = TRUE]]
      /\ UNCHANGED <<parent, sz>>
  BY DEF Fail, Become
<1>3. /\ kept \in Space /\ kept = Without(as[p], sz[p])
      /\ \A w \in Part : PageAt(kept, w) \in {Nil, PageAt(as[p], w)}
  BY <1>1, WithoutIs DEF TakeBack
<1>4. /\ [AtUser(c.had) EXCEPT !.failed = TRUE] \in Call
      /\ Shape([AtUser(c.had) EXCEPT !.failed = TRUE])
  BY <1>1, CallIs, AtUserIs
<1>5. /\ call'[p].new = NoSpace /\ call'[p].mem = Nil /\ call'[p].op = "none"
      /\ call'[p].pc = "user" /\ call'[p].child = Nil /\ call'[p].had = c.had
      /\ \A q \in Slot \ {p} : call'[q] = call[q]
  BY <1>0, <1>2 DEF AtUser, TypeOK
<1>6. /\ c.op = "fork" <=> c.child # Nil
      /\ c.op = "fork" => c.child \in Slot /\ c.child # p /\ state[c.child] = "EMBRYO"
  BY <1>0, <1>1, CallIs DEF InvAt, Shape, Child
<1> HIDE DEF c, kept, stack
<1>7. \A q \in Slot : as'[q] = IF c.op = "sbrk" /\ q = p THEN kept ELSE as[q]
  BY <1>0, <1>2 DEF TypeOK
<1>8. /\ \A q \in Slot : kstack'[q] = IF c.op = "fork" /\ q = c.child THEN Nil ELSE kstack[q]
      /\ \A q \in Slot : state'[q] = IF c.op = "fork" /\ q = c.child THEN "UNUSED" ELSE state[q]
  BY <1>0, <1>2, <1>6 DEF TypeOK
<1> DEFINE S == {<<"mem", p, Whole>>} \cup {<<"new", p, w>> : w \in Part}
                \cup (IF c.op = "fork" THEN {<<"stack", c.child, Whole>>} ELSE {})
                \cup (IF c.op = "sbrk" THEN {<<"as", p, w>> : w \in {w \in Part : PageAt(kept, w) = Nil}}
                                       ELSE {})
<1>9. WellPlaced(free, Cell, Contents)'
  <2>1. S \subseteq Cell
    BY <1>6, Cells
  <2>2. ASSUME NEW x \in S PROVE Contents'[x] = Nil
    <3>1. CASE x = <<"mem", p, Whole>>
      BY <3>1, <1>5, ContentsNext
    <3>2. ASSUME NEW w \in Part, x = <<"new", p, w>> PROVE Contents'[x] = Nil
      BY <3>2, <1>5, ContentsNext, NoSpaceIs
    <3>3. CASE c.op = "fork" /\ x = <<"stack", c.child, Whole>>
      BY <3>3, <1>6, <1>8, ContentsNext
    <3>4. ASSUME c.op = "sbrk", NEW w \in Part, PageAt(kept, w) = Nil, x = <<"as", p, w>>
          PROVE  Contents'[x] = Nil
      BY <3>4, <1>7, ContentsNext
    <3> QED
      BY <3>1, <3>2, <3>3, <3>4
  <2>3. \A x \in Cell \ S : Contents'[x] = Contents[x]
    <3>1. \A s \in Slot : <<"stack", s, Whole>> \notin S => kstack'[s] = kstack[s]
      BY <1>8
    <3>2. \A s \in Slot : <<"mem", s, Whole>> \notin S => call'[s].mem = call[s].mem
      BY <1>5
    <3>3. ASSUME NEW s \in Slot, NEW w \in Part, <<"as", s, w>> \notin S
          PROVE  PageAt(as'[s], w) = PageAt(as[s], w)
      <4>1. c.op = "sbrk" /\ s = p => PageAt(kept, w) # Nil
        BY <3>3
      <4> QED
        BY <4>1, <1>3, <1>7
    <3>4. ASSUME NEW s \in Slot, NEW w \in Part, <<"new", s, w>> \notin S
          PROVE  PageAt(call'[s].new, w) = PageAt(call[s].new, w)
      <4>1. s # p
        BY <3>4
      <4> QED
        BY <4>1, <1>5
    <3> HIDE DEF S
    <3> QED
      BY <2>1, <3>1, <3>2, <3>3, <3>4, SameCells
  <2>4. ASSUME NEW g
        PROVE  g \in free' <=> g \in free \/ (g # Nil /\ \E x \in S : Contents[x] = g)
    <3>1. g \in MemOf(p) <=> g # Nil /\ Contents[<<"mem", p, Whole>>] = g
      BY ContentsAre DEF MemOf
    <3>2. g \in Held(c.new) <=> g # Nil /\ \E w \in Part : Contents[<<"new", p, w>>] = g
      <4>1. Held(c.new) = {PageAt(c.new, w) : w \in Part} \ {Nil}
        BY <1>1, CallIs, HeldIs
      <4>2. \A w \in Part : Contents[<<"new", p, w>>] = PageAt(c.new, w)
        BY ContentsAre DEF c
      <4> QED
        BY <4>1, <4>2
    <3>3. g \in stack <=> c.op = "fork" /\ g # Nil /\ Contents[<<"stack", c.child, Whole>>] = g
      BY <1>6, ContentsAre DEF stack
    <3>4. g \in Held(as[p]) \ Held(kept) <=>
            g # Nil /\ \E w \in Part : PageAt(kept, w) = Nil /\ Contents[<<"as", p, w>>] = g
      <4>1. \A w \in Part : Contents[<<"as", p, w>>] = PageAt(as[p], w)
        BY ContentsAre
      <4>2. g \in Held(as[p]) \ Held(kept) <=>
              g # Nil /\ \E w \in Part : PageAt(kept, w) = Nil /\ PageAt(as[p], w) = g
        <5>1. sz[p] \in Nat
          BY <1>1
        <5>2. \A h : h \in Held(as[p]) \ Held(Without(as[p], sz[p])) <=>
                     h # Nil /\ \E w \in Part : /\ PageAt(Without(as[p], sz[p]), w) = Nil
                                               /\ PageAt(as[p], w) = h
          BY <1>0, <5>1, TakenBack, Zenon
        <5> QED
          BY <5>2, <1>3
      <4> QED
        BY <4>1, <4>2
    <3>5. (\E x \in S : Contents[x] = g) <=>
            \/ Contents[<<"mem", p, Whole>>] = g
            \/ \E w \in Part : Contents[<<"new", p, w>>] = g
            \/ c.op = "fork" /\ Contents[<<"stack", c.child, Whole>>] = g
            \/ c.op = "sbrk" /\ \E w \in Part : PageAt(kept, w) = Nil /\ Contents[<<"as", p, w>>] = g
      OBVIOUS
    <3> QED
      BY <1>2, <3>1, <3>2, <3>3, <3>4, <3>5
  <2> HIDE DEF S
  <2>5. \A x \in Cell : Contents[x] \in Page \cup {Nil}
    BY <1>0, ContentsTyped
  <2> QED
    BY <1>0, <2>1, <2>2, <2>3, <2>4, <2>5, PagesAreNotNil, GiveKeeps
<1> HIDE DEF S
<1>10. TypeOK'
  <2>1. free' \subseteq Page
    BY <1>9 DEF WellPlaced
  <2>2. /\ state' \in [Slot -> {"UNUSED", "EMBRYO", "RUNNABLE", "ZOMBIE"}]
        /\ kstack' \in [Slot -> Page \cup {Nil}]
    BY <1>0, <1>2 DEF TypeOK
  <2>3. /\ parent' \in [Slot -> Slot \cup {Nil}] /\ sz' \in [Slot -> 0 .. MaxPages * PGSIZE]
        /\ as' \in [Slot -> Space] /\ call' \in [Slot -> Call]
    BY <1>0, <1>2, <1>3, <1>4 DEF TypeOK
  <2> QED
    BY <2>1, <2>2, <2>3 DEF TypeOK
<1>11. InvAt(p)'
  <2>1. state'[p] = "RUNNABLE" /\ sz'[p] = sz[p]
    BY <1>0, <1>2, <1>6, <1>8
  <2>2. Mapped(as'[p]) = 0 .. Pages(sz[p]) - 1
    <3>1. CASE c.op = "sbrk"
      <4>1. Mapped(as[p]) = 0 .. c.next - 1 /\ Pages(sz[p]) <= c.next
        BY <1>0, <3>1 DEF InvAt, Progress, Shape, Built, c
      <4>2. Mapped(kept) = {v \in Mapped(as[p]) : v < Pages(sz[p])}
        BY <1>1, <1>3, WithoutIs
      <4>3. Pages(sz[p]) \in Nat /\ c.next \in Nat
        BY <1>1, PagesAre, CallIs
      <4>4. Mapped(kept) = 0 .. Pages(sz[p]) - 1
        BY <4>1, <4>2, <4>3
      <4> QED
        BY <3>1, <4>4, <1>7
    <3>2. CASE c.op # "sbrk"
      BY <1>0, <1>7, <3>2 DEF InvAt, Sized, c
    <3> QED
      BY <3>1, <3>2
  <2>3. c.had = 0 .. Pages(sz[p]) - 1
    BY <1>0 DEF InvAt, Progress, c
  <2>4. Shape(call[p])'
    BY <1>0, <1>2, <1>4 DEF TypeOK
  <2>5. Progress(p)' /\ Child(p)'
    BY <2>1, <1>5 DEF Progress, Child
  <2>7. Unborn(p)'
    <3>1. kstack[p] # Nil /\ kstack'[p] = kstack[p]
      BY <1>0, <1>6, <1>8 DEF InvAt, Unborn
    <3> QED
      BY <2>1, <3>1 DEF Unborn
  <2>6. Sized(p)' /\ Kept(p)'
    BY <2>1, <2>2, <2>3, <1>5 DEF Sized, Kept
  <2> QED
    BY <2>4, <2>5, <2>6, <2>7 DEF InvAt
<1>12. ASSUME NEW q \in Slot \ {p} PROVE InvAt(q)'
  <2>1. /\ UNCHANGED <<call[q], sz[q], as[q]>> /\ InvAt(q)
    BY <1>0, <1>2, <1>5, <1>7
  <2>2. CASE c.op = "fork" /\ q = c.child
    <3>1. state[q] # "RUNNABLE" /\ state'[q] # "RUNNABLE" /\ Unborn(q)'
      BY <1>6, <1>8, <2>1, <2>2 DEF InvAt, Unborn
    <3> QED
      BY <2>1, <3>1, IdleKeeps
  <2>3. CASE ~ (c.op = "fork" /\ q = c.child)
    <3>1. state'[q] = state[q] /\ kstack'[q] = kstack[q]
      BY <1>8, <2>3
    <3>2. call[q].op = "fork" => /\ call[q].child # Nil /\ call[q].child \in Slot
                                 /\ c.op = "fork" => call[q].child # c.child
      <4>1. call[q] \in Call
        BY <1>0 DEF TypeOK
      <4>2. call[q].op = "fork" => call[q].child # Nil /\ call[q].child \in Slot
        BY <2>1, <4>1, CallIs DEF InvAt, Shape
      <4>3. c.op = "fork" => \A r \in Slot : call[r].child = c.child => r = p
        BY <1>0 DEF InvAt, Child, c
      <4> QED
        BY <4>2, <4>3
    <3>3. call[q].op = "fork" => /\ state'[call[q].child] = state[call[q].child]
                                 /\ kstack'[call[q].child] = kstack[call[q].child]
                                 /\ call'[p].child # call[q].child
      BY <1>5, <1>8, <3>2
    <3> QED
      BY <2>1, <3>1, <3>3, <1>5, OtherKeeps
  <2> QED
    BY <2>2, <2>3
<1> QED
  BY <1>9, <1>10, <1>11, <1>12 DEF Inv

LEMMA FirstSpaceIs ==
  ASSUME PageAssumption
  PROVE  /\ FirstSpace \in Space /\ Mapped(FirstSpace) = {0}
         /\ \A w \in Part : /\ PageAt(FirstSpace, w) \in 0 .. 4
                            /\ PageAt(FirstSpace, w) = 1 <=> w = <<"dir", 0>>
                            /\ PageAt(FirstSpace, w) = 2 <=> w = <<"kern", 0>>
                            /\ PageAt(FirstSpace, w) = 3 <=> w = <<"table", 0>>
                            /\ PageAt(FirstSpace, w) = 4 <=> w = <<"user", 0>>
<1>1. FirstSpace \in Space
  BY Constants DEF FirstSpace, Space
<1>2. Mapped(FirstSpace) = {0}
  BY Constants DEF FirstSpace, Mapped, Nil
<1>3. ASSUME NEW w \in Part
      PROVE  /\ PageAt(FirstSpace, w) \in 0 .. 4
             /\ PageAt(FirstSpace, w) = 1 <=> w = <<"dir", 0>>
             /\ PageAt(FirstSpace, w) = 2 <=> w = <<"kern", 0>>
             /\ PageAt(FirstSpace, w) = 3 <=> w = <<"table", 0>>
             /\ PageAt(FirstSpace, w) = 4 <=> w = <<"user", 0>>
  <2>0. /\ PageAt(FirstSpace, <<"dir", 0>>) = 1 /\ PageAt(FirstSpace, <<"kern", 0>>) = 2
        /\ \A t \in Table : PageAt(FirstSpace, <<"table", t>>) = IF t = 0 THEN 3 ELSE 0
        /\ \A v \in Vpn : PageAt(FirstSpace, <<"user", v>>) = IF v = 0 THEN 4 ELSE 0
    BY PageAtIs DEF FirstSpace, Nil
  <2>1. CASE w = <<"dir", 0>> \/ w = <<"kern", 0>>
    BY <2>0, <2>1
  <2>2. ASSUME NEW t \in Table, w = <<"table", t>>
        PROVE  /\ PageAt(FirstSpace, w) = IF t = 0 THEN 3 ELSE 0
               /\ w = <<"table", 0>> <=> t = 0
               /\ w # <<"dir", 0>> /\ w # <<"kern", 0>> /\ w # <<"user", 0>>
    BY <2>0, <2>2
  <2>3. ASSUME NEW v \in Vpn, w = <<"user", v>>
        PROVE  /\ PageAt(FirstSpace, w) = IF v = 0 THEN 4 ELSE 0
               /\ w = <<"user", 0>> <=> v = 0
               /\ w # <<"dir", 0>> /\ w # <<"kern", 0>> /\ w # <<"table", 0>>
    BY <2>0, <2>3
  <2>4. CASE \E t \in Table : w = <<"table", t>>
    BY <2>2, <2>4
  <2>5. CASE \E v \in Vpn : w = <<"user", v>>
    BY <2>3, <2>5
  <2> QED
    BY <2>1, <2>4, <2>5, Parts
<1> QED
  BY <1>1, <1>2, <1>3

LEMMA InitPlaced ==
  ASSUME PageAssumption, Init PROVE WellPlaced(free, Cell, Contents)
<1> DEFINE x1 == <<"as", Init1, <<"dir", 0>>>>
           x2 == <<"as", Init1, <<"kern", 0>>>>
           x3 == <<"as", Init1, <<"table", 0>>>>
           x4 == <<"as", Init1, <<"user", 0>>>>
           x5 == <<"stack", Init1, Whole>>
<1>1. x1 \in Cell /\ x2 \in Cell /\ x3 \in Cell /\ x4 \in Cell /\ x5 \in Cell
  BY Constants, TablesAre, Cells, Parts
<1>2. ASSUME NEW c \in Cell
      PROVE  /\ Contents[c] \in 0 .. 5
             /\ Contents[c] = 1 <=> c = x1
             /\ Contents[c] = 2 <=> c = x2
             /\ Contents[c] = 3 <=> c = x3
             /\ Contents[c] = 4 <=> c = x4
             /\ Contents[c] = 5 <=> c = x5
  <2>0. PICK s \in Slot :
          \/ c = <<"stack", s, Whole>> \/ c = <<"mem", s, Whole>>
          \/ \E w \in Part : c = <<"as", s, w>> \/ c = <<"new", s, w>>
    BY Cells
  <2>1. CASE c = <<"stack", s, Whole>>
    <3>1. Contents[c] = IF s = Init1 THEN 5 ELSE 0
      BY <2>1, ContentsAre DEF Init, Nil
    <3> QED
      BY <2>1, <3>1
  <2>2. CASE c = <<"mem", s, Whole>>
    <3>1. Contents[c] = 0
      BY <2>2, ContentsAre DEF Init, AtUser, Nil
    <3> QED
      BY <2>2, <3>1
  <2>3. ASSUME NEW w \in Part, c = <<"as", s, w>>
        PROVE  /\ Contents[c] \in 0 .. 5
               /\ Contents[c] = 1 <=> c = x1
               /\ Contents[c] = 2 <=> c = x2
               /\ Contents[c] = 3 <=> c = x3
               /\ Contents[c] = 4 <=> c = x4
               /\ Contents[c] = 5 <=> c = x5
    <3>1. Contents[c] = PageAt(as[s], w)
      BY <2>3, Cells DEF Contents, PageIn
    <3>2. CASE s = Init1
      <4>1. as[s] = FirstSpace
        BY <3>2 DEF Init
      <4>2. /\ c = x1 <=> w = <<"dir", 0>>
            /\ c = x2 <=> w = <<"kern", 0>>
            /\ c = x3 <=> w = <<"table", 0>>
            /\ c = x4 <=> w = <<"user", 0>>
            /\ c # x5
        BY <2>3, <3>2
      <4>3. /\ PageAt(FirstSpace, w) \in 0 .. 4
            /\ PageAt(FirstSpace, w) = 1 <=> w = <<"dir", 0>>
            /\ PageAt(FirstSpace, w) = 2 <=> w = <<"kern", 0>>
            /\ PageAt(FirstSpace, w) = 3 <=> w = <<"table", 0>>
            /\ PageAt(FirstSpace, w) = 4 <=> w = <<"user", 0>>
        BY FirstSpaceIs
      <4> HIDE DEF x1, x2, x3, x4, x5
      <4> QED
        BY <3>1, <4>1, <4>2, <4>3
    <3>3. CASE s # Init1
      <4>1. Contents[c] = 0
        BY <3>1, <3>3, NoSpaceIs DEF Init, Nil
      <4>2. c # x1 /\ c # x2 /\ c # x3 /\ c # x4 /\ c # x5
        BY <2>3, <3>3
      <4> QED
        BY <4>1, <4>2
    <3> QED
      BY <3>2, <3>3
  <2>4. ASSUME NEW w \in Part, c = <<"new", s, w>>
        PROVE  /\ Contents[c] = 0 /\ c # x1 /\ c # x2 /\ c # x3 /\ c # x4 /\ c # x5
    <3>1. Contents[c] = PageAt(call[s].new, w) /\ call[s].new = NoSpace
      BY <2>4, Cells DEF Contents, PageIn, Init, AtUser
    <3> QED
      BY <2>4, <3>1, NoSpaceIs DEF Nil
  <2> HIDE DEF x1, x2, x3, x4, x5
  <2> QED
    BY <2>0, <2>1, <2>2, <2>3, <2>4
<1> HIDE DEF x1, x2, x3, x4, x5
<1>3. free = Page \ 1 .. 5 /\ 1 .. 5 \subseteq Page /\ Page \subseteq Nat \ {0}
  BY Constants DEF Init
<1>4. \A c \in Cell : Contents[c] \notin free
  BY <1>2, <1>3
<1>5. ASSUME NEW c \in Cell, NEW d \in Cell, Contents[c] = Contents[d], Contents[c] # Nil
      PROVE  c = d
  <2>1. Contents[c] \in {1, 2, 3, 4, 5}
    BY <1>2, <1>5 DEF Nil
  <2> QED
    BY <1>2, <1>5, <2>1
<1>6. ASSUME NEW g \in Page \ free PROVE \E c \in Cell : Contents[c] = g
  <2>1. g \in {1, 2, 3, 4, 5}
    BY <1>3
  <2> QED
    BY <1>1, <1>2, <2>1
<1> QED
  BY <1>3, <1>4, <1>5, <1>6 DEF WellPlaced

LEMMA Initially == ASSUME PageAssumption PROVE Init => Inv
<1> SUFFICES ASSUME Init PROVE Inv
  OBVIOUS
<1>1. PGSIZE \in 0 .. MaxPages * PGSIZE /\ 0 \in 0 .. MaxPages * PGSIZE /\ 0 \in Vpn
  <2>1. MaxPages \in Nat /\ MaxPages >= 1 /\ PGSIZE \in Nat
    BY Constants
  <2>2. MaxPages * PGSIZE >= PGSIZE
    BY <2>1, Z3
  <2> QED
    BY <2>1, <2>2, Constants
<1>2. 5 \in Page /\ Page \ 1 .. 5 \subseteq Page
  BY Constants
<1>3. \A s \in Slot : call[s] \in Call /\ Shape(call[s])
  BY <1>1, AtUserIs DEF Init
<1>4. TypeOK
  <2>1. call \in [Slot -> Call]
    BY <1>3 DEF Init
  <2>2. as \in [Slot -> Space]
    BY FirstSpaceIs, NoSpaceIs DEF Init
  <2>3. /\ free \subseteq Page /\ kstack \in [Slot -> Page \cup {Nil}]
        /\ state \in [Slot -> {"UNUSED", "EMBRYO", "RUNNABLE", "ZOMBIE"}]
    BY <1>2 DEF Init
  <2>4. parent \in [Slot -> Slot \cup {Nil}] /\ sz \in [Slot -> 0 .. MaxPages * PGSIZE]
    BY <1>1 DEF Init
  <2> QED
    BY <2>1, <2>2, <2>3, <2>4 DEF TypeOK
<1>5. ASSUME NEW p \in Slot PROVE InvAt(p)
  <2>1. call[p].op = "none" /\ call[p].pc = "user" /\ ~ call[p].failed
    BY DEF Init, AtUser
  <2>2. Progress(p) /\ Child(p) /\ Kept(p)
    BY <2>1 DEF Progress, Child, Kept
  <2>3. Sized(p)
    <3>1. p = Init1 => Mapped(as[p]) = {0} /\ sz[p] = PGSIZE
      BY FirstSpaceIs DEF Init
    <3>2. Pages(PGSIZE) = 1
      BY PagesAre
    <3>3. 0 .. 1 - 1 = {0}
      OBVIOUS
    <3>4. p # Init1 => state[p] = "UNUSED"
      BY DEF Init
    <3> QED
      BY <3>1, <3>2, <3>3, <3>4 DEF Sized
  <2>4. Unborn(p)
    <3>1. p = Init1 => state[p] = "RUNNABLE" /\ kstack[p] = 5
      BY DEF Init
    <3>3. 5 # Nil
      BY DEF Nil
    <3>2. p # Init1 => state[p] = "UNUSED" /\ kstack[p] = Nil /\ as[p] = NoSpace
      BY DEF Init
    <3> QED
      BY <3>1, <3>2, <3>3 DEF Unborn
  <2> QED
    BY <1>3, <2>2, <2>3, <2>4 DEF InvAt
<1> QED
  BY <1>4, <1>5, InitPlaced DEF Inv

\* nothing of the others changes
LEMMA AloneKeeps ==
  ASSUME Inv, NEW p \in Slot, state[p] = "RUNNABLE", UNCHANGED kstack,
         call'[p].child \in {call[p].child, Nil},
         \A r \in Slot \ {p} : /\ call'[r] = call[r] /\ state'[r] = state[r]
                               /\ sz'[r] = sz[r] /\ as'[r] = as[r]
  PROVE  \A q \in Slot \ {p} : InvAt(q)'
<1> SUFFICES ASSUME NEW q \in Slot \ {p} PROVE InvAt(q)'
  OBVIOUS
<1>1. InvAt(q) /\ call[q] \in Call
  BY DEF Inv, TypeOK
<1>2. call[q].op = "fork" => /\ call[q].child \in Slot /\ call[q].child # Nil
                             /\ call[q].child # p /\ call[p].child # call[q].child
  <2>1. call[q].op = "fork" => call[q].child \in Slot /\ call[q].child # Nil
    BY <1>1, CallIs DEF InvAt, Shape
  <2>2. call[q].op = "fork" => /\ state[call[q].child] = "EMBRYO"
                               /\ call[p].child # call[q].child
    BY <1>1 DEF InvAt, Child
  <2> QED
    BY <2>1, <2>2
<1>3. call[q].op = "fork" => /\ state'[call[q].child] = state[call[q].child]
                             /\ kstack'[call[q].child] = kstack[call[q].child]
                             /\ call'[p].child # call[q].child
  BY <1>2
<1> QED
  BY <1>1, <1>3, OtherKeeps

\* no page moves
LEMMA Stay ==
  ASSUME Inv, NEW p \in Slot, UNCHANGED <<free, kstack, as>>,
         \A r \in Slot \ {p} : call'[r] = call[r],
         call'[p].mem = call[p].mem, call'[p].new = call[p].new
  PROVE  WellPlaced(free, Cell, Contents)'
<1>1. \A c \in Cell \ {} : Contents'[c] = Contents[c]
  <2>1. \A s \in Slot : call'[s].mem = call[s].mem /\ call'[s].new = call[s].new
    OBVIOUS
  <2> QED
    BY <2>1, SameCells
<1>2. WellPlaced(free, Cell, Contents) /\ free' = free
  BY DEF Inv
<1> QED
  BY <1>1, <1>2 DEF WellPlaced

\* kalloc() for the cell x
LEMMA Take ==
  ASSUME PageAssumption, Inv, NEW x \in Cell, NEW g \in free, free' = free \ {g},
         Contents[x] = Nil, Contents'[x] = g, \A c \in Cell \ {x} : Contents'[c] = Contents[c]
  PROVE  WellPlaced(free, Cell, Contents)'
<1>1. WellPlaced(free, Cell, Contents)
  BY DEF Inv
<1>2. WellPlaced(free \ {g}, Cell, Contents')
  BY <1>1, PagesAreNotNil, TakeKeeps
<1> QED
  BY <1>2

\* what holds at the beginning of a call
LEMMA StartIs ==
  ASSUME PageAssumption, Inv, NEW p \in Slot, At(p, "user")
  PROVE  /\ Mapped(as[p]) = 0 .. Pages(sz[p]) - 1 /\ Mapped(as[p]) \in SUBSET Vpn
         /\ call[p].op = "none" /\ call[p].mem = Nil /\ call[p].new = NoSpace
         /\ call[p].child = Nil /\ state[p] = "RUNNABLE" /\ call[p].pc = "user"
         /\ AtUser(Mapped(as[p])) \in Call
<1>1. /\ Shape(call[p]) /\ Sized(p) /\ state[p] = "RUNNABLE" /\ call[p].pc = "user"
      /\ call[p] \in Call
  BY DEF Inv, TypeOK, InvAt, At
<1>2. call[p].op = "none" /\ call[p].mem = Nil /\ call[p].new = NoSpace
  BY <1>1 DEF Shape
<1>3. call[p].child = Nil
  BY <1>1, <1>2 DEF Shape
<1>4. Mapped(as[p]) = 0 .. Pages(sz[p]) - 1
  BY <1>1, <1>2 DEF Sized
<1>5. Mapped(as[p]) \in SUBSET Vpn
  BY DEF Mapped
<1> QED
  BY <1>1, <1>2, <1>3, <1>4, <1>5, AtUserIs

LEMMA ForkStep ==
  ASSUME PageAssumption, Inv, NEW p \in Slot, NEW c \in Slot, Fork(p, c)
  PROVE  Inv'
<1> DEFINE d == [Start(p, "fork", "kstack") EXCEPT
                   !.child = c, !.upto = Pages(sz[p]), !.size = sz[p]]
<1>0. /\ TypeOK /\ \A q \in Slot : InvAt(q)
      /\ At(p, "user") /\ state[c] = "UNUSED" /\ call' = [call EXCEPT ![p] = d]
      /\ state' = [state EXCEPT ![c] = "EMBRYO"]
      /\ UNCHANGED <<free, parent, sz, kstack, as>>
  BY DEF Inv, Fork, Become
<1>1. /\ Mapped(as[p]) = 0 .. Pages(sz[p]) - 1 /\ Mapped(as[p]) \in SUBSET Vpn
      /\ call[p].op = "none" /\ call[p].mem = Nil /\ call[p].new = NoSpace
      /\ call[p].child = Nil /\ state[p] = "RUNNABLE"
  BY <1>0, StartIs
<1>2. sz[p] \in 0 .. MaxPages * PGSIZE /\ Pages(sz[p]) \in 0 .. MaxPages /\ Pages(sz[p]) \in Nat
  <2>1. sz[p] \in 0 .. MaxPages * PGSIZE
    BY <1>0 DEF TypeOK
  <2>2. Pages(sz[p]) \in 0 .. MaxPages
    BY <2>1, PagesAre
  <2> QED
    BY <2>1, <2>2
<1>3. /\ d.op = "fork" /\ d.pc = "kstack" /\ d.new = NoSpace /\ d.next = 0
      /\ d.upto = Pages(sz[p]) /\ d.mem = Nil /\ d.size = sz[p] /\ d.child = c
      /\ ~ d.failed /\ d.had = Mapped(as[p])
  BY DEF Start, AtUser
<1>4. d \in Call
  <2>1. AtUser(Mapped(as[p])) \in Call
    BY <1>0, StartIs
  <2> QED
    BY <2>1, <1>2 DEF Start, Call
<1> HIDE DEF d
<1>5. call'[p] = d /\ \A q \in Slot \ {p} : call'[q] = call[q]
  BY <1>0 DEF TypeOK
<1>6. TypeOK'
  BY <1>0, <1>4 DEF TypeOK
<1>7. WellPlaced(free, Cell, Contents)'
  BY <1>0, <1>1, <1>3, <1>5, Stay
<1>8. c # p /\ c # Nil
  BY <1>0, <1>1, Constants
<1>9. /\ state'[c] = "EMBRYO" /\ \A q \in Slot \ {c} : state'[q] = state[q]
  BY <1>0 DEF TypeOK
<1>10. ASSUME NEW q \in Slot PROVE call[q].child # c
  <2>1. Shape(call[q]) /\ Child(q)
    BY <1>0 DEF InvAt
  <2> QED
    BY <1>0, <1>8, <2>1 DEF Shape, Child
<1>11. InvAt(p)'
  <2>1. Shape(call[p])'
    BY <1>3, <1>5, <1>8 DEF Shape
  <2>2. Progress(p)'
    <3>1. state'[p] = "RUNNABLE" /\ sz'[p] = sz[p] /\ Mapped(NoSpace) = 0 .. 0 - 1
      BY <1>0, <1>1, <1>8, <1>9, NoSpaceIs
    <3>2. Built(p)' = NoSpace
      BY <1>3, <1>5 DEF Built
    <3>3. (Mapped(Built(p)) = 0 .. call[p].next - 1)'
      BY <1>3, <1>5, <3>1, <3>2
    <3>4. call'[p].next <= call'[p].upto
      BY <1>2, <1>3, <1>5
    <3> QED
      BY <3>1, <3>3, <3>4, <1>1, <1>3, <1>5 DEF Progress
  <2>3. Sized(p)' /\ Kept(p)'
    BY <1>0, <1>1, <1>3, <1>5 DEF Sized, Kept, At
  <2>4. Child(p)'
    <3>1. kstack'[c] = Nil
      BY <1>0 DEF InvAt, Unborn
    <3> QED
      BY <3>1, <1>3, <1>5, <1>9, <1>10 DEF Child
  <2>5. Unborn(p)'
    BY <1>0, <1>1, <1>8, <1>9 DEF Unborn, InvAt
  <2> QED
    BY <2>1, <2>2, <2>3, <2>4, <2>5 DEF InvAt
<1>12. InvAt(c)'
  <2>1. Unborn(c)'
    BY <1>0, <1>9 DEF InvAt, Unborn
  <2> QED
    BY <2>1, <1>0, <1>5, <1>8, <1>9, IdleKeeps
<1>13. ASSUME NEW q \in Slot \ {p, c} PROVE InvAt(q)'
  <2>1. call[q].op = "fork" => call[q].child \in Slot \ {c}
    <3>1. call[q] \in Call /\ Shape(call[q])
      BY <1>0 DEF TypeOK, InvAt
    <3> QED
      BY <3>1, <1>10, CallIs DEF Shape
  <2>2. call[q].op = "fork" => /\ state'[call[q].child] = state[call[q].child]
                               /\ kstack'[call[q].child] = kstack[call[q].child]
                               /\ call'[p].child # call[q].child
    BY <1>0, <1>3, <1>5, <1>9, <2>1
  <2>3. UNCHANGED <<call[q], state[q], sz[q], as[q]>> /\ InvAt(q)
    BY <1>0, <1>5, <1>9
  <2> QED
    BY <2>2, <2>3, <1>0, <1>5, OtherKeeps
<1> QED
  BY <1>6, <1>7, <1>11, <1>12, <1>13 DEF Inv

LEMMA ExecStep ==
  ASSUME PageAssumption, Inv, NEW p \in Slot, NEW n \in Image, Exec(p, n)
  PROVE  Inv'
<1> DEFINE d == [Start(p, "exec", "dir") EXCEPT !.upto = n + 2, !.size = (n + 2) * PGSIZE]
<1>0. /\ TypeOK /\ \A q \in Slot : InvAt(q)
      /\ At(p, "user") /\ n + 2 < MaxPages /\ call' = [call EXCEPT ![p] = d]
      /\ UNCHANGED <<free, state, parent, sz, kstack, as>>
  BY DEF Inv, Exec, Become
<1>1. /\ Mapped(as[p]) = 0 .. Pages(sz[p]) - 1 /\ Mapped(as[p]) \in SUBSET Vpn
      /\ call[p].op = "none" /\ call[p].mem = Nil /\ call[p].new = NoSpace
      /\ call[p].child = Nil /\ state[p] = "RUNNABLE"
  BY <1>0, StartIs
<1>2. /\ n + 2 \in Nat /\ n + 2 \in 0 .. MaxPages
      /\ (n + 2) * PGSIZE \in 0 .. MaxPages * PGSIZE /\ Pages((n + 2) * PGSIZE) = n + 2
  <2>1. n \in Nat
    BY DEF PageAssumption
  <2>0. MaxPages \in Nat /\ PGSIZE \in Nat
    BY Constants
  <2>2. n + 2 \in Nat /\ n + 2 \in 0 .. MaxPages /\ MaxPages \in Nat /\ PGSIZE \in Nat
    BY <2>0, <2>1, <1>0
  <2>3. \A x, y, z \in Nat : x <= y => x * z \in 0 .. y * z
    BY Z3
  <2>4. (n + 2) * PGSIZE \in 0 .. MaxPages * PGSIZE
    BY <1>0, <2>2, <2>3
  <2>5. Pages((n + 2) * PGSIZE) = n + 2
    BY <2>2, PagesAre
  <2> QED
    BY <2>2, <2>4, <2>5
<1>3. /\ d.op = "exec" /\ d.pc = "dir" /\ d.new = NoSpace /\ d.next = 0
      /\ d.upto = n + 2 /\ d.mem = Nil /\ d.size = (n + 2) * PGSIZE /\ d.child = Nil
      /\ ~ d.failed /\ d.had = Mapped(as[p])
  BY DEF Start, AtUser
<1>4. d \in Call
  <2>1. AtUser(Mapped(as[p])) \in Call
    BY <1>0, StartIs
  <2> QED
    BY <2>1, <1>2 DEF Start, Call
<1> HIDE DEF d
<1>5. call'[p] = d /\ \A q \in Slot \ {p} : call'[q] = call[q]
  BY <1>0 DEF TypeOK
<1>6. TypeOK'
  BY <1>0, <1>4 DEF TypeOK
<1>7. WellPlaced(free, Cell, Contents)'
  BY <1>0, <1>1, <1>3, <1>5, Stay
<1>8. InvAt(p)'
  <2>1. Shape(call[p])'
    BY <1>3, <1>5 DEF Shape
  <2>2. Progress(p)'
    <3>1. state'[p] = "RUNNABLE" /\ sz'[p] = sz[p] /\ Mapped(NoSpace) = 0 .. 0 - 1
      BY <1>0, <1>1, NoSpaceIs
    <3>2. Built(p)' = NoSpace
      BY <1>3, <1>5 DEF Built
    <3>3. (Mapped(Built(p)) = 0 .. call[p].next - 1)'
      BY <1>3, <1>5, <3>1, <3>2
    <3>4. call'[p].next <= call'[p].upto
      BY <1>2, <1>3, <1>5
    <3>5. call'[p].upto = Pages(call'[p].size)
      BY <1>2, <1>3, <1>5
    <3> QED
      BY <3>1, <3>3, <3>4, <3>5, <1>1, <1>3, <1>5 DEF Progress
  <2>3. Sized(p)' /\ Kept(p)' /\ Child(p)' /\ Unborn(p)'
    BY <1>0, <1>1, <1>3, <1>5 DEF Sized, Kept, At, Child, Unborn, InvAt
  <2> QED
    BY <2>1, <2>2, <2>3 DEF InvAt
<1>9. \A q \in Slot \ {p} : InvAt(q)'
  BY <1>0, <1>1, <1>3, <1>5, AloneKeeps
<1> QED
  BY <1>6, <1>7, <1>8, <1>9 DEF Inv

LEMMA KstackStep ==
  ASSUME PageAssumption, Inv, NEW p \in Slot, Kstack(p)
  PROVE  Inv'
<1>0. /\ TypeOK /\ WellPlaced(free, Cell, Contents) /\ \A q \in Slot : InvAt(q)
      /\ call[p] \in Call /\ call[p].pc = "kstack" /\ state[p] = "RUNNABLE"
  BY DEF Inv, Kstack, At, TypeOK
<1>1. CASE OutOfPages /\ Fail(p)
  BY <1>0, <1>1, FailStep
<1>2. ASSUME NEW g \in free, Kalloc(g),
             kstack' = [kstack EXCEPT ![call[p].child] = g],
             Become(p, [call[p] EXCEPT !.pc = "dir"]),
             UNCHANGED <<state, parent, sz, as>>
      PROVE  Inv'
  <2>c. PICK c \in Slot \cup {Nil} : c = call[p].child
    BY <1>0, CallIs
  <2> DEFINE d == [call[p] EXCEPT !.pc = "dir"]
  <2>1. /\ d \in Call /\ d.pc = "dir" /\ d.op = call[p].op /\ d.new = call[p].new
        /\ d.next = call[p].next /\ d.upto = call[p].upto /\ d.mem = call[p].mem
        /\ d.size = call[p].size /\ d.child = c /\ d.failed = call[p].failed
        /\ d.had = call[p].had
    BY <1>0, <2>c DEF Call
  <2>2. /\ Shape(call[p]) /\ Progress(p) /\ Sized(p) /\ Child(p) /\ call[p].op = "fork"
        /\ call[p].new = NoSpace /\ call[p].mem = Nil
    BY <1>0 DEF InvAt, Shape
  <2>3. /\ c \in Slot /\ c # Nil /\ state[c] = "EMBRYO" /\ kstack[c] = Nil /\ c # p
        /\ \A q \in Slot : call[q].child = c => q = p
    <3>1. c \in Slot /\ c # Nil
      BY <2>2, <2>c DEF Shape
    <3>2. state[c] = "EMBRYO" /\ kstack[c] = Nil /\ \A q \in Slot : call[q].child = c => q = p
      BY <1>0, <2>2, <2>c DEF Child
    <3> QED
      BY <1>0, <3>1, <3>2
  <2> HIDE DEF d
  <2>4. call' = [call EXCEPT ![p] = d] /\ free' = free \ {g} /\ kstack' = [kstack EXCEPT ![c] = g]
    BY <1>2, <2>c DEF Become, Kalloc, d
  <2>5. call'[p] = d /\ \A q \in Slot \ {p} : call'[q] = call[q]
    BY <2>4, <1>0 DEF TypeOK
  <2>6. kstack'[c] = g /\ \A q \in Slot \ {c} : kstack'[q] = kstack[q]
    BY <2>3, <2>4, <1>0 DEF TypeOK
  <2>7. TypeOK'
    <3>1. free' \subseteq Page /\ g \in Page
      BY <1>0, <2>4 DEF TypeOK
    <3>2. kstack' \in [Slot -> Page \cup {Nil}] /\ call' \in [Slot -> Call]
      BY <1>0, <2>1, <2>4, <3>1 DEF TypeOK
    <3> QED
      BY <1>0, <1>2, <3>1, <3>2 DEF TypeOK
  <2>8. WellPlaced(free, Cell, Contents)'
    <3> DEFINE x == <<"stack", c, Whole>>
    <3>1. x \in Cell /\ Contents[x] = Nil /\ Contents'[x] = g
      BY <2>3, <2>6, Cells, ContentsAre, ContentsNext
    <3>2. \A y \in Cell \ {x} : Contents'[y] = Contents[y]
      <4>1. \A s \in Slot : <<"stack", s, Whole>> \notin {x} => kstack'[s] = kstack[s]
        BY <2>6
      <4>2. \A s \in Slot : call'[s].mem = call[s].mem /\ call'[s].new = call[s].new
        BY <2>1, <2>5
      <4>3. {x} \subseteq Cell /\ as' = as
        BY <1>2, <3>1
      <4> HIDE DEF x
      <4> QED
        BY <4>1, <4>2, <4>3, SameCells
    <3> HIDE DEF x
    <3> QED
      BY <2>4, <3>1, <3>2, Take
  <2>9. InvAt(p)'
    <3>1. Shape(call[p])'
      BY <2>1, <2>2, <2>c, <2>5 DEF Shape
    <3>2. Progress(p)'
      BY <1>0, <1>2, <2>1, <2>2, <2>5 DEF Progress, Built
    <3>3. Sized(p)' /\ Kept(p)'
      BY <1>0, <1>2, <2>1, <2>2, <2>5 DEF Sized, Kept, At
    <3>u. Unborn(p)'
      BY <1>0, <1>2, <2>3, <2>6 DEF Unborn, InvAt
    <3>4. Child(p)'
      <4>1. g # Nil
        BY <1>0, PagesAreNotNil DEF TypeOK
      <4> QED
        BY <1>2, <2>1, <2>3, <2>5, <2>6, <4>1 DEF Child
    <3> QED
      BY <3>1, <3>2, <3>3, <3>u, <3>4 DEF InvAt
  <2>10. InvAt(c)'
    <3>1. Unborn(c)'
      BY <1>0, <1>2, <2>3 DEF InvAt, Unborn
    <3> QED
      BY <1>0, <1>2, <2>3, <2>5, <3>1, IdleKeeps
  <2>11. ASSUME NEW q \in Slot \ {p, c} PROVE InvAt(q)'
    <3>1. InvAt(q) /\ call[q] \in Call
      BY <1>0 DEF TypeOK
    <3>2. call[q].op = "fork" => call[q].child \in Slot \ {c}
      BY <2>3, <3>1, CallIs DEF InvAt, Shape
    <3>3. call[q].op = "fork" => /\ state'[call[q].child] = state[call[q].child]
                                 /\ kstack'[call[q].child] = kstack[call[q].child]
                                 /\ call'[p].child # call[q].child
      BY <1>2, <2>1, <2>5, <2>6, <3>2
    <3>4. UNCHANGED <<call[q], state[q], sz[q], as[q]>> /\ kstack'[q] = kstack[q]
      BY <1>2, <2>5, <2>6
    <3> QED
      BY <3>1, <3>3, <3>4, <2>5, OtherKeeps
  <2> QED
    BY <2>7, <2>8, <2>9, <2>10, <2>11 DEF Inv
<1> QED
  BY <1>1, <1>2 DEF Kstack

LEMMA DirStep ==
  ASSUME PageAssumption, Inv, NEW p \in Slot, Dir(p)
  PROVE  Inv'
<1>0. /\ TypeOK /\ WellPlaced(free, Cell, Contents) /\ \A q \in Slot : InvAt(q)
      /\ call[p] \in Call /\ call[p].pc = "dir" /\ state[p] = "RUNNABLE"
  BY DEF Inv, Dir, At, TypeOK
<1>1. CASE OutOfPages /\ Fail(p)
  BY <1>0, <1>1, FailStep
<1>2. ASSUME NEW g \in free, Kalloc(g),
             Become(p, [call[p] EXCEPT !.pc = "kern", !.new.dir = g]),
             UNCHANGED <<state, parent, sz, kstack, as>>
      PROVE  Inv'
  <2> DEFINE s == [call[p].new EXCEPT !.dir = g]
             d == [call[p] EXCEPT !.pc = "kern", !.new.dir = g]
  <2>0. g \in Page /\ call[p].new \in Space
    BY <1>0, CallIs DEF TypeOK
  <2>s. /\ s \in Space /\ Mapped(s) = Mapped(call[p].new)
        /\ \A w \in Part : PageAt(s, w) = IF w = <<"dir", 0>> THEN g ELSE PageAt(call[p].new, w)
    BY <2>0, DirIs
  <2>1. /\ d.pc = "kern" /\ d.op = call[p].op /\ d.new = s
        /\ d.next = call[p].next /\ d.upto = call[p].upto /\ d.mem = call[p].mem
        /\ d.size = call[p].size /\ d.child = call[p].child /\ d.failed = call[p].failed
        /\ d.had = call[p].had
    BY <1>0 DEF Call
  <2>2. d \in Call
    <3>1. d = [call[p] EXCEPT !.pc = "kern", !.new = s]
      BY <1>0 DEF Call
    <3> HIDE DEF s, d
    <3> QED
      BY <1>0, <2>s, <3>1 DEF Call
  <2>3. /\ Shape(call[p]) /\ Progress(p) /\ Sized(p) /\ Child(p) /\ call[p].op # "sbrk"
        /\ call[p].op # "none" /\ call[p].mem = Nil
    BY <1>0 DEF InvAt, Shape
  <2>4. PageAt(call[p].new, <<"dir", 0>>) = Nil
    <3>1. call[p].new = NoSpace
      BY <1>0, <2>3 DEF Shape
    <3> QED
      BY <3>1, NoSpaceIs, Parts
  <2>h. s = [NoSpace EXCEPT !.dir = s.dir]
    BY <1>0, <2>3, SpaceIs, NoSpaceIs DEF Shape
  <2> HIDE DEF d, s
  <2>5. call' = [call EXCEPT ![p] = d] /\ free' = free \ {g}
    BY <1>2 DEF Become, Kalloc, d
  <2>6. call'[p] = d /\ \A q \in Slot \ {p} : call'[q] = call[q]
    BY <2>5, <1>0 DEF TypeOK
  <2>7. TypeOK'
    <3>1. free' \subseteq Page /\ call' \in [Slot -> Call]
      BY <1>0, <2>2, <2>5 DEF TypeOK
    <3> QED
      BY <1>0, <1>2, <3>1 DEF TypeOK
  <2>8. WellPlaced(free, Cell, Contents)'
    <3>0. PICK x : x = <<"new", p, <<"dir", 0>>>>
      OBVIOUS
    <3>p. <<"dir", 0>> \in Part
      BY Parts
    <3>1. x \in Cell /\ Contents[x] = Nil /\ Contents'[x] = g
      <4>1. x \in Cell
        BY <3>0, <3>p, Cells
      <4>2. Contents[x] = PageAt(call[p].new, <<"dir", 0>>)
        BY <3>0, <3>p, ContentsAre
      <4>3. Contents'[x] = PageAt(call'[p].new, <<"dir", 0>>)
        BY <3>0, <3>p, ContentsNext
      <4>4. PageAt(s, <<"dir", 0>>) = g
        BY <2>s, <3>p
      <4> QED
        BY <2>1, <2>4, <2>6, <4>1, <4>2, <4>3, <4>4
    <3>2. \A y \in Cell \ {x} : Contents'[y] = Contents[y]
      <4>1. kstack' = kstack /\ as' = as /\ {x} \subseteq Cell
        BY <1>2, <3>1
      <4>2. \A r \in Slot : call'[r].mem = call[r].mem
        BY <2>1, <2>6
      <4>3. ASSUME NEW r \in Slot, NEW w \in Part, <<"new", r, w>> \notin {x}
            PROVE  PageAt(call'[r].new, w) = PageAt(call[r].new, w)
        <5>1. CASE r = p
          <6>1. w # <<"dir", 0>>
            BY <3>0, <4>3, <5>1
          <6> QED
            BY <2>1, <2>6, <2>s, <5>1, <6>1
        <5>2. CASE r # p
          BY <2>6, <5>2
        <5> QED
          BY <5>1, <5>2
      <4> QED
        BY <4>1, <4>2, <4>3, SameCells
    <3> QED
      BY <2>5, <3>1, <3>2, Take
  <2>9. InvAt(p)'
    <3>1. Shape(call[p])'
      BY <1>0, <2>1, <2>3, <2>6, <2>h DEF Shape
    <3>2. Progress(p)'
      <4>1. Mapped(Built(p)) = 0 .. call[p].next - 1 /\ Built(p) = call[p].new
        BY <1>0, <2>3 DEF Progress, Built
      <4>2. Built(p)' = s
        BY <2>1, <2>3, <2>6 DEF Built
      <4>3. (Mapped(Built(p)) = 0 .. call[p].next - 1)'
        BY <2>1, <2>6, <2>s, <4>1, <4>2
      <4> QED
        BY <1>0, <1>2, <2>1, <2>3, <2>6, <4>3 DEF Progress
    <3>3. Sized(p)' /\ Kept(p)' /\ Child(p)'
      BY <1>0, <1>2, <2>1, <2>3, <2>6 DEF Sized, Kept, At, Child
    <3>4. Unborn(p)'
      BY <1>0, <1>2 DEF Unborn, InvAt
    <3> QED
      BY <3>1, <3>2, <3>3, <3>4 DEF InvAt
  <2>10. \A q \in Slot \ {p} : InvAt(q)'
    BY <1>0, <1>2, <2>1, <2>6, AloneKeeps
  <2> QED
    BY <2>7, <2>8, <2>9, <2>10 DEF Inv
<1> QED
  BY <1>1, <1>2 DEF Dir

LEMMA KernStep ==
  ASSUME PageAssumption, Inv, NEW p \in Slot, Kern(p)
  PROVE  Inv'
<1>0. /\ TypeOK /\ WellPlaced(free, Cell, Contents) /\ \A q \in Slot : InvAt(q)
      /\ call[p] \in Call /\ call[p].pc = "kern" /\ state[p] = "RUNNABLE"
  BY DEF Inv, Kern, At, TypeOK
<1>1. CASE OutOfPages /\ Fail(p)
  BY <1>0, <1>1, FailStep
<1>2. ASSUME NEW g \in free, Kalloc(g),
             Become(p, [call[p] EXCEPT !.pc = "page", !.new.kern = g]),
             UNCHANGED <<state, parent, sz, kstack, as>>
      PROVE  Inv'
  <2> DEFINE s == [call[p].new EXCEPT !.kern = g]
             d == [call[p] EXCEPT !.pc = "page", !.new.kern = g]
  <2>0. g \in Page /\ call[p].new \in Space
    BY <1>0, CallIs DEF TypeOK
  <2>s. /\ s \in Space /\ Mapped(s) = Mapped(call[p].new)
        /\ \A w \in Part : PageAt(s, w) = IF w = <<"kern", 0>> THEN g ELSE PageAt(call[p].new, w)
    BY <2>0, DirIs
  <2>1. /\ d.pc = "page" /\ d.op = call[p].op /\ d.new = s
        /\ d.next = call[p].next /\ d.upto = call[p].upto /\ d.mem = call[p].mem
        /\ d.size = call[p].size /\ d.child = call[p].child /\ d.failed = call[p].failed
        /\ d.had = call[p].had
    BY <1>0 DEF Call
  <2>2. d \in Call
    <3>1. d = [call[p] EXCEPT !.pc = "page", !.new = s]
      BY <1>0 DEF Call
    <3> HIDE DEF s, d
    <3> QED
      BY <1>0, <2>s, <3>1 DEF Call
  <2>3. /\ Shape(call[p]) /\ Progress(p) /\ Sized(p) /\ Child(p) /\ call[p].op # "sbrk"
        /\ call[p].op # "none" /\ call[p].mem = Nil
    BY <1>0 DEF InvAt, Shape
  <2>4. PageAt(call[p].new, <<"kern", 0>>) = Nil
    <3>1. call[p].new.kern = Nil
      BY <1>0, <2>3 DEF Shape, NoSpace
    <3> QED
      BY <3>1, PageAtIs
  <2> HIDE DEF d, s
  <2>5. call' = [call EXCEPT ![p] = d] /\ free' = free \ {g}
    BY <1>2 DEF Become, Kalloc, d
  <2>6. call'[p] = d /\ \A q \in Slot \ {p} : call'[q] = call[q]
    BY <2>5, <1>0 DEF TypeOK
  <2>7. TypeOK'
    <3>1. free' \subseteq Page /\ call' \in [Slot -> Call]
      BY <1>0, <2>2, <2>5 DEF TypeOK
    <3> QED
      BY <1>0, <1>2, <3>1 DEF TypeOK
  <2>8. WellPlaced(free, Cell, Contents)'
    <3>0. PICK x : x = <<"new", p, <<"kern", 0>>>>
      OBVIOUS
    <3>p. <<"kern", 0>> \in Part
      BY Parts
    <3>1. x \in Cell /\ Contents[x] = Nil /\ Contents'[x] = g
      <4>1. x \in Cell
        BY <3>0, <3>p, Cells
      <4>2. Contents[x] = PageAt(call[p].new, <<"kern", 0>>)
        BY <3>0, <3>p, ContentsAre
      <4>3. Contents'[x] = PageAt(call'[p].new, <<"kern", 0>>)
        BY <3>0, <3>p, ContentsNext
      <4>4. PageAt(s, <<"kern", 0>>) = g
        BY <2>s, <3>p
      <4> QED
        BY <2>1, <2>4, <2>6, <4>1, <4>2, <4>3, <4>4
    <3>2. \A y \in Cell \ {x} : Contents'[y] = Contents[y]
      <4>1. kstack' = kstack /\ as' = as /\ {x} \subseteq Cell
        BY <1>2, <3>1
      <4>2. \A r \in Slot : call'[r].mem = call[r].mem
        BY <2>1, <2>6
      <4>3. ASSUME NEW r \in Slot, NEW w \in Part, <<"new", r, w>> \notin {x}
            PROVE  PageAt(call'[r].new, w) = PageAt(call[r].new, w)
        <5>1. CASE r = p
          <6>1. w # <<"kern", 0>>
            BY <3>0, <4>3, <5>1
          <6> QED
            BY <2>1, <2>6, <2>s, <5>1, <6>1
        <5>2. CASE r # p
          BY <2>6, <5>2
        <5> QED
          BY <5>1, <5>2
      <4> QED
        BY <4>1, <4>2, <4>3, SameCells
    <3> QED
      BY <2>5, <3>1, <3>2, Take
  <2>9. InvAt(p)'
    <3>1. Shape(call[p])'
      BY <1>0, <2>1, <2>3, <2>6 DEF Shape
    <3>2. Progress(p)'
      <4>1. Mapped(Built(p)) = 0 .. call[p].next - 1 /\ Built(p) = call[p].new
        BY <1>0, <2>3 DEF Progress, Built
      <4>2. Built(p)' = s
        BY <2>1, <2>3, <2>6 DEF Built
      <4>3. (Mapped(Built(p)) = 0 .. call[p].next - 1)'
        BY <2>1, <2>6, <2>s, <4>1, <4>2
      <4> QED
        BY <1>0, <1>2, <2>1, <2>3, <2>6, <4>3 DEF Progress
    <3>3. Sized(p)' /\ Kept(p)' /\ Child(p)'
      BY <1>0, <1>2, <2>1, <2>3, <2>6 DEF Sized, Kept, At, Child
    <3>4. Unborn(p)'
      BY <1>0, <1>2 DEF Unborn, InvAt
    <3> QED
      BY <3>1, <3>2, <3>3, <3>4 DEF InvAt
  <2>10. \A q \in Slot \ {p} : InvAt(q)'
    BY <1>0, <1>2, <2>1, <2>6, AloneKeeps
  <2> QED
    BY <2>7, <2>8, <2>9, <2>10 DEF Inv
<1> QED
  BY <1>1, <1>2 DEF Kern

\* a call that ends at once, or has not begun
LEMMA Refused ==
  ASSUME PageAssumption, Inv, NEW p \in Slot, At(p, "user"), NEW d \in Call,
         d.op = "none", d.pc = "user", d.new = NoSpace, d.mem = Nil, d.child = Nil,
         d.had = Mapped(as[p]), call' = [call EXCEPT ![p] = d],
         UNCHANGED <<free, state, parent, sz, kstack, as>>
  PROVE  Inv'
<1>0. TypeOK /\ \A q \in Slot : InvAt(q)
  BY DEF Inv
<1>1. /\ call[p].op = "none" /\ call[p].mem = Nil /\ call[p].new = NoSpace
      /\ call[p].child = Nil /\ state[p] = "RUNNABLE"
  BY StartIs
<1>2. call'[p] = d /\ \A q \in Slot \ {p} : call'[q] = call[q]
  BY <1>0 DEF TypeOK
<1>3. TypeOK'
  BY <1>0 DEF TypeOK
<1>4. WellPlaced(free, Cell, Contents)'
  BY <1>1, <1>2, Stay
<1>5. InvAt(p)'
  <2>1. Shape(call[p])'
    BY <1>2 DEF Shape
  <2>2. Progress(p)' /\ Child(p)'
    BY <1>2 DEF Progress, Child
  <2>3. Sized(p)' /\ Kept(p)' /\ Unborn(p)'
    BY <1>0, <1>1, <1>2 DEF Sized, Kept, Unborn, InvAt
  <2> QED
    BY <2>1, <2>2, <2>3 DEF InvAt
<1>6. \A q \in Slot \ {p} : InvAt(q)'
  BY <1>1, <1>2, AloneKeeps
<1> QED
  BY <1>3, <1>4, <1>5, <1>6 DEF Inv

LEMMA SbrkStep ==
  ASSUME PageAssumption, ~ GiveUpAll, Inv, NEW p \in Slot,
         NEW n \in Grow \cup {-k : k \in Shrink}, Sbrk(p, n)
  PROVE  Inv'
<1> DEFINE size == sz[p] + n
           rest == Without(as[p], size)
<1>0. /\ TypeOK /\ \A q \in Slot : InvAt(q) /\ WellPlaced(free, Cell, Contents)
      /\ At(p, "user") /\ UNCHANGED <<state, parent, kstack>> /\ size # 0
  BY DEF Inv, Sbrk
<1>1. /\ Mapped(as[p]) = 0 .. Pages(sz[p]) - 1 /\ Mapped(as[p]) \in SUBSET Vpn
      /\ call[p].op = "none" /\ call[p].mem = Nil /\ call[p].new = NoSpace
      /\ call[p].child = Nil /\ state[p] = "RUNNABLE"
      /\ AtUser(Mapped(as[p])) \in Call /\ as[p] \in Space
  BY <1>0, StartIs DEF TypeOK
<1>2. /\ n \in Int /\ sz[p] \in Nat /\ size \in Int /\ sz[p] \in 0 .. MaxPages * PGSIZE
      /\ MaxPages * PGSIZE \in Nat
  <2>1. n \in Int
    BY DEF PageAssumption
  <2>2. sz[p] \in 0 .. MaxPages * PGSIZE /\ MaxPages * PGSIZE \in Nat
    BY <1>0, Constants DEF TypeOK
  <2> QED
    BY <2>1, <2>2
<1>3. CASE n > 0 /\ TooLarge(size) /\ UNCHANGED <<free, sz, as>>
           /\ Become(p, [Start(p, "none", "user") EXCEPT !.failed = TRUE])
  <2> DEFINE d == [Start(p, "none", "user") EXCEPT !.failed = TRUE]
  <2>1. /\ d.op = "none" /\ d.pc = "user" /\ d.new = NoSpace /\ d.mem = Nil /\ d.child = Nil
        /\ d.had = Mapped(as[p])
    BY DEF Start, AtUser
  <2>2. d \in Call
    BY <1>1 DEF Start, Call
  <2>3. call' = [call EXCEPT ![p] = d]
    BY <1>3 DEF Become
  <2> HIDE DEF d
  <2> QED
    BY <1>0, <1>3, <2>1, <2>2, <2>3, Refused
<1>4. CASE n < 0 /\ size < 0 /\ UNCHANGED <<free, sz, as>>
           /\ Become(p, Start(p, "none", "user"))
  <2> DEFINE d == Start(p, "none", "user")
  <2>1. /\ d.op = "none" /\ d.pc = "user" /\ d.new = NoSpace /\ d.mem = Nil /\ d.child = Nil
        /\ d.had = Mapped(as[p])
    BY DEF Start, AtUser
  <2>2. d \in Call
    BY <1>1 DEF Start, Call
  <2>3. call' = [call EXCEPT ![p] = d]
    BY <1>4 DEF Become
  <2> HIDE DEF d
  <2> QED
    BY <1>0, <1>4, <2>1, <2>2, <2>3, Refused
<1>5. CASE n > 0 /\ ~ TooLarge(size) /\ UNCHANGED <<free, sz, as>>
           /\ Become(p, [Start(p, "sbrk", "page") EXCEPT
                !.next = Pages(sz[p]), !.upto = Pages(size), !.size = size])
  <2> DEFINE d == [Start(p, "sbrk", "page") EXCEPT
                     !.next = Pages(sz[p]), !.upto = Pages(size), !.size = size]
  <2>1. /\ d.op = "sbrk" /\ d.pc = "page" /\ d.new = NoSpace /\ d.mem = Nil /\ d.child = Nil
        /\ d.had = Mapped(as[p]) /\ d.next = Pages(sz[p]) /\ d.upto = Pages(size)
        /\ d.size = size /\ ~ d.failed
    BY DEF Start, AtUser
  <2>2. size \in 0 .. MaxPages * PGSIZE /\ size \in Nat /\ sz[p] <= size
    BY <1>2, <1>5 DEF TooLarge
  <2>3. /\ Pages(sz[p]) \in 0 .. MaxPages /\ Pages(size) \in 0 .. MaxPages
        /\ Pages(sz[p]) <= Pages(size)
    <3> HIDE DEF size
    <3> QED
      BY <1>2, <2>2, PagesAre
  <2>4. d \in Call
    <3> HIDE DEF size
    <3> QED
      BY <1>1, <2>2, <2>3 DEF Start, Call
  <2>5. call' = [call EXCEPT ![p] = d]
    BY <1>5 DEF Become
  <2> HIDE DEF d, size
  <2>6. call'[p] = d /\ \A q \in Slot \ {p} : call'[q] = call[q]
    BY <1>0, <2>5 DEF TypeOK
  <2>7. TypeOK'
    BY <1>0, <1>5, <2>4, <2>5 DEF TypeOK
  <2>8. WellPlaced(free, Cell, Contents)'
    BY <1>0, <1>1, <1>5, <2>1, <2>6, Stay
  <2>9. InvAt(p)'
    <3>1. Shape(call[p])'
      BY <2>1, <2>6 DEF Shape
    <3>2. Progress(p)'
      <4>1. Built(p)' = as[p]
        BY <1>5, <2>1, <2>6 DEF Built
      <4>2. (Mapped(Built(p)) = 0 .. call[p].next - 1)'
        BY <1>1, <2>1, <2>6, <4>1
      <4>3. call'[p].upto = Pages(call'[p].size) /\ state'[p] = "RUNNABLE" /\ sz'[p] = sz[p]
        BY <1>0, <1>1, <1>5, <2>1, <2>6
      <4>4. call'[p].next <= call'[p].upto /\ Pages(sz[p]) <= call'[p].next
        BY <2>1, <2>3, <2>6
      <4> QED
        BY <1>1, <2>1, <2>6, <4>2, <4>3, <4>4 DEF Progress
    <3>3. Sized(p)' /\ Kept(p)' /\ Unborn(p)' /\ Child(p)'
      BY <1>0, <1>1, <1>5, <2>1, <2>6 DEF Sized, Kept, At, Unborn, Child, InvAt
    <3> QED
      BY <3>1, <3>2, <3>3 DEF InvAt
  <2>10. \A q \in Slot \ {p} : InvAt(q)'
    BY <1>0, <1>1, <1>5, <2>1, <2>6, AloneKeeps
  <2> QED
    BY <2>7, <2>8, <2>9, <2>10 DEF Inv
<1>6. CASE /\ n < 0 /\ size >= 0 /\ free' = free \cup (Held(as[p]) \ Held(rest))
           /\ as' = [as EXCEPT ![p] = rest]
           /\ sz' = IF size = 0 THEN sz ELSE [sz EXCEPT ![p] = size]
           /\ Become(p, [Start(p, "none", "user") EXCEPT !.failed = size = 0])
  <2> DEFINE d == [Start(p, "none", "user") EXCEPT !.failed = size = 0]
  <2>1. /\ d.op = "none" /\ d.pc = "user" /\ d.new = NoSpace /\ d.mem = Nil /\ d.child = Nil
        /\ d.failed = (size = 0)
    BY DEF Start, AtUser
  <2>2. d \in Call
    <3>1. (size = 0) \in BOOLEAN
      OBVIOUS
    <3> HIDE DEF size
    <3> QED
      BY <1>1, <3>1 DEF Start, Call
  <2>3. size \in Nat /\ size <= sz[p] /\ size \in 0 .. MaxPages * PGSIZE
    BY <1>2, <1>6
  <2> HIDE DEF size
  <2>4. /\ rest \in Space
        /\ Mapped(rest) = {v \in Mapped(as[p]) : v < Pages(size)}
        /\ \A w \in Part : PageAt(rest, w) \in {Nil, PageAt(as[p], w)}
    BY <1>1, <2>3, WithoutIs
  <2>5. Pages(size) \in Nat /\ Pages(sz[p]) \in Nat /\ Pages(size) <= Pages(sz[p])
    BY <1>2, <2>3, PagesAre
  <2>6. Mapped(rest) = 0 .. Pages(size) - 1
    BY <1>1, <2>4, <2>5
  <2>7. /\ call' = [call EXCEPT ![p] = d] /\ sz' = [sz EXCEPT ![p] = size]
    BY <1>0, <1>6 DEF Become
  <2> HIDE DEF d, rest
  <2>8. /\ call'[p] = d /\ sz'[p] = size /\ as'[p] = rest
        /\ \A q \in Slot \ {p} : call'[q] = call[q] /\ sz'[q] = sz[q] /\ as'[q] = as[q]
    BY <1>0, <1>6, <2>7 DEF TypeOK
  <2>9. WellPlaced(free, Cell, Contents)'
    <3> DEFINE S == {<<"as", p, w>> : w \in {w \in Part : PageAt(rest, w) = Nil}}
    <3>1. S \subseteq Cell
      BY Cells
    <3>2. ASSUME NEW x \in S PROVE Contents'[x] = Nil
      BY <2>8, ContentsNext
    <3>3. \A x \in Cell \ S : Contents'[x] = Contents[x]
      <4>1. ASSUME NEW r \in Slot, NEW w \in Part, <<"as", r, w>> \notin S
            PROVE  PageAt(as'[r], w) = PageAt(as[r], w)
        <5>1. r = p => PageAt(rest, w) # Nil
          BY <4>1
        <5> QED
          BY <2>4, <2>8, <5>1
      <4>2. \A r \in Slot : call'[r].mem = call[r].mem /\ call'[r].new = call[r].new
        BY <1>1, <2>1, <2>8
      <4>3. kstack' = kstack
        BY <1>0
      <4> HIDE DEF S
      <4> QED
        BY <3>1, <4>1, <4>2, <4>3, SameCells
    <3>4. ASSUME NEW g PROVE g \in free' <=> g \in free \/ (g # Nil /\ \E x \in S : Contents[x] = g)
      <4>1. \A w \in Part : Contents[<<"as", p, w>>] = PageAt(as[p], w)
        BY ContentsAre
      <4>2. \A h : h \in Held(as[p]) \ Held(Without(as[p], size)) <=>
                   h # Nil /\ \E w \in Part : /\ PageAt(Without(as[p], size), w) = Nil
                                             /\ PageAt(as[p], w) = h
        BY <1>0, <2>3, TakenBack, Zenon
      <4>3. \A h : h \in Held(as[p]) \ Held(rest) <=>
                   h # Nil /\ \E w \in Part : PageAt(rest, w) = Nil /\ PageAt(as[p], w) = h
        BY <4>2 DEF rest
      <4>4. (\E x \in S : Contents[x] = g) <=>
              \E w \in Part : PageAt(rest, w) = Nil /\ PageAt(as[p], w) = g
        BY <4>1
      <4> HIDE DEF S
      <4> QED
        BY <1>6, <4>3, <4>4
    <3> HIDE DEF S
    <3>5. \A x \in Cell : Contents[x] \in Page \cup {Nil}
      BY <1>0, ContentsTyped
    <3> QED
      BY <1>0, <3>1, <3>2, <3>3, <3>4, <3>5, PagesAreNotNil, GiveKeeps
  <2>10. TypeOK'
    <3>1. free' \subseteq Page
      BY <2>9 DEF WellPlaced
    <3>2. /\ sz' \in [Slot -> 0 .. MaxPages * PGSIZE] /\ as' \in [Slot -> Space]
          /\ call' \in [Slot -> Call]
      BY <1>0, <1>6, <2>2, <2>3, <2>4, <2>7 DEF TypeOK
    <3> QED
      BY <1>0, <3>1, <3>2 DEF TypeOK
  <2>11. InvAt(p)'
    <3>1. Shape(call[p])'
      BY <2>1, <2>8 DEF Shape
    <3>2. Progress(p)' /\ Child(p)'
      BY <2>1, <2>8 DEF Progress, Child
    <3>3. Sized(p)'
      BY <2>6, <2>8 DEF Sized
    <3>4. Kept(p)' /\ Unborn(p)'
      BY <1>0, <1>1, <2>1, <2>8 DEF Kept, Unborn, InvAt
    <3> QED
      BY <3>1, <3>2, <3>3, <3>4 DEF InvAt
  <2>12. \A q \in Slot \ {p} : InvAt(q)'
    BY <1>0, <1>1, <2>1, <2>8, AloneKeeps
  <2> QED
    BY <2>9, <2>10, <2>11, <2>12 DEF Inv
<1> QED
  BY <1>3, <1>4, <1>5, <1>6 DEF Sbrk

\* what a call that is busy with pages has
LEMMA BusyIs ==
  ASSUME PageAssumption, Inv, NEW p \in Slot, state[p] = "RUNNABLE",
         call[p].pc \in {"page", "map", "done"}
  PROVE  /\ call[p] \in Call /\ call[p].op # "none" /\ Shape(call[p])
         /\ call[p].upto = Pages(call[p].size) /\ call[p].next <= call[p].upto
         /\ call[p].pc = "map" => call[p].next < call[p].upto
         /\ call[p].pc = "done" => call[p].next = call[p].upto
         /\ Mapped(Built(p)) = 0 .. call[p].next - 1
         /\ call[p].had = 0 .. Pages(sz[p]) - 1
         /\ call[p].op = "sbrk" => Pages(sz[p]) <= call[p].next
         /\ call[p].op # "sbrk" => Mapped(as[p]) = 0 .. Pages(sz[p]) - 1
         /\ kstack[p] # Nil
<1>1. InvAt(p) /\ call[p] \in Call
  BY DEF Inv, TypeOK
<1> QED
  BY <1>1 DEF InvAt, Shape, Progress, Sized, Unborn

LEMMA ChildKeeps ==
  ASSUME NEW p \in Slot, Child(p), UNCHANGED <<state, kstack>>,
         call[p].pc # "kstack", call'[p].pc # "kstack",
         call'[p].op = call[p].op, call'[p].child = call[p].child,
         \A q \in Slot \ {p} : call'[q] = call[q]
  PROVE  Child(p)'
<1>1. \A q \in Slot : call'[q].child = call[q].child
  OBVIOUS
<1>2. ASSUME call'[p].op = "fork" PROVE state'[call'[p].child] = "EMBRYO"
  BY <1>2 DEF Child
<1>3. ASSUME call'[p].op = "fork" PROVE kstack'[call'[p].child] # Nil
  BY <1>3 DEF Child
<1>4. ASSUME call'[p].op = "fork", NEW q \in Slot, call'[q].child = call'[p].child PROVE q = p
  BY <1>1, <1>4 DEF Child
<1> QED
  BY <1>2, <1>3, <1>4 DEF Child

LEMMA NextPageStep ==
  ASSUME PageAssumption, Inv, NEW p \in Slot, NextPage(p)
  PROVE  Inv'
<1>0. /\ TypeOK /\ WellPlaced(free, Cell, Contents) /\ \A q \in Slot : InvAt(q)
      /\ call[p].pc = "page" /\ state[p] = "RUNNABLE"
  BY DEF Inv, NextPage, At
<1>1. CASE OutOfPages /\ Fail(p)
  BY <1>0, <1>1, FailStep
<1>b. /\ call[p] \in Call /\ call[p].op # "none" /\ Shape(call[p])
      /\ call[p].upto = Pages(call[p].size) /\ call[p].next <= call[p].upto
      /\ Mapped(Built(p)) = 0 .. call[p].next - 1
      /\ call[p].had = 0 .. Pages(sz[p]) - 1
      /\ call[p].op = "sbrk" => Pages(sz[p]) <= call[p].next
      /\ call[p].op # "sbrk" => Mapped(as[p]) = 0 .. Pages(sz[p]) - 1
      /\ kstack[p] # Nil /\ call[p].mem = Nil
      /\ call[p].next \in 0 .. MaxPages /\ call[p].upto \in 0 .. MaxPages
  <2>1. call[p] \in Call /\ Shape(call[p])
    BY <1>0, BusyIs
  <2>2. call[p].mem = Nil
    BY <1>0, <2>1 DEF Shape
  <2> QED
    BY <1>0, <2>1, <2>2, BusyIs, CallIs
<1>2. CASE /\ call[p].next = call[p].upto /\ Become(p, [call[p] EXCEPT !.pc = "done"])
           /\ UNCHANGED <<free, state, parent, sz, kstack, as>>
  <2> DEFINE d == [call[p] EXCEPT !.pc = "done"]
  <2>1. /\ d \in Call /\ d.pc = "done" /\ d.op = call[p].op /\ d.new = call[p].new
        /\ d.next = call[p].next /\ d.upto = call[p].upto /\ d.mem = call[p].mem
        /\ d.size = call[p].size /\ d.child = call[p].child /\ d.failed = call[p].failed
        /\ d.had = call[p].had
    BY <1>b DEF Call
  <2>2. call' = [call EXCEPT ![p] = d]
    BY <1>2 DEF Become
  <2> HIDE DEF d
  <2>3. call'[p] = d /\ \A q \in Slot \ {p} : call'[q] = call[q]
    BY <2>2, <1>0 DEF TypeOK
  <2>4. TypeOK'
    BY <1>0, <1>2, <2>1, <2>2 DEF TypeOK
  <2>5. WellPlaced(free, Cell, Contents)'
    BY <1>2, <2>1, <2>3, Stay
  <2>6. InvAt(p)'
    <3>1. Shape(call[p])'
      BY <1>0, <1>b, <2>1, <2>3 DEF Shape
    <3>2. Progress(p)'
      <4>1. Built(p)' = Built(p)
        BY <1>2, <2>1, <2>3 DEF Built
      <4>2. (Mapped(Built(p)) = 0 .. call[p].next - 1)'
        BY <1>b, <2>1, <2>3, <4>1
      <4>3. /\ call'[p].upto = Pages(call'[p].size) /\ state'[p] = "RUNNABLE" /\ sz'[p] = sz[p]
            /\ call'[p].next <= call'[p].upto /\ call'[p].next = call'[p].upto
            /\ call'[p].had = 0 .. Pages(sz[p]) - 1
            /\ call'[p].op = "sbrk" => Pages(sz[p]) <= call'[p].next
        BY <1>0, <1>2, <1>b, <2>1, <2>3
      <4> QED
        BY <2>1, <2>3, <4>2, <4>3 DEF Progress
    <3>3. Sized(p)' /\ Kept(p)' /\ Unborn(p)'
      BY <1>0, <1>2, <1>b, <2>1, <2>3 DEF Sized, Kept, At, Unborn
    <3>4. Child(p)'
      BY <1>0, <1>2, <2>1, <2>3, ChildKeeps DEF InvAt
    <3> QED
      BY <3>1, <3>2, <3>3, <3>4 DEF InvAt
  <2>7. \A q \in Slot \ {p} : InvAt(q)'
    BY <1>0, <1>2, <2>1, <2>3, AloneKeeps
  <2> QED
    BY <2>4, <2>5, <2>6, <2>7 DEF Inv
<1>3. ASSUME call[p].next # call[p].upto, NEW g \in free, Kalloc(g),
             Become(p, [call[p] EXCEPT !.pc = "map", !.mem = g]),
             UNCHANGED <<state, parent, sz, kstack, as>>
      PROVE  Inv'
  <2> DEFINE d == [call[p] EXCEPT !.pc = "map", !.mem = g]
  <2>0. g \in Page /\ g # Nil
    BY <1>0, PagesAreNotNil DEF TypeOK
  <2>1. /\ d \in Call /\ d.pc = "map" /\ d.op = call[p].op /\ d.new = call[p].new
        /\ d.next = call[p].next /\ d.upto = call[p].upto /\ d.mem = g
        /\ d.size = call[p].size /\ d.child = call[p].child /\ d.failed = call[p].failed
        /\ d.had = call[p].had
    BY <1>b, <2>0 DEF Call
  <2>2. call' = [call EXCEPT ![p] = d] /\ free' = free \ {g}
    BY <1>3 DEF Become, Kalloc
  <2> HIDE DEF d
  <2>3. call'[p] = d /\ \A q \in Slot \ {p} : call'[q] = call[q]
    BY <2>2, <1>0 DEF TypeOK
  <2>4. TypeOK'
    BY <1>0, <1>3, <2>1, <2>2 DEF TypeOK
  <2>5. WellPlaced(free, Cell, Contents)'
    <3>0. PICK x : x = <<"mem", p, Whole>>
      OBVIOUS
    <3>1. x \in Cell /\ Contents[x] = Nil /\ Contents'[x] = g
      BY <1>b, <2>1, <2>3, <3>0, Cells, ContentsAre, ContentsNext
    <3>2. \A y \in Cell \ {x} : Contents'[y] = Contents[y]
      <4>1. \A r \in Slot : call'[r].new = call[r].new
        BY <2>1, <2>3
      <4>2. \A r \in Slot : <<"mem", r, Whole>> \notin {x} => call'[r].mem = call[r].mem
        BY <2>3, <3>0
      <4>3. {x} \subseteq Cell /\ kstack' = kstack /\ as' = as
        BY <1>3, <3>1
      <4> QED
        BY <4>1, <4>2, <4>3, SameCells
    <3> QED
      BY <2>2, <3>1, <3>2, Take
  <2>6. InvAt(p)'
    <3>1. Shape(call[p])'
      BY <1>0, <1>b, <2>0, <2>1, <2>3 DEF Shape
    <3>2. Progress(p)'
      <4>1. Built(p)' = Built(p)
        BY <1>3, <2>1, <2>3 DEF Built
      <4>2. (Mapped(Built(p)) = 0 .. call[p].next - 1)'
        BY <1>b, <2>1, <2>3, <4>1
      <4>3. /\ call'[p].upto = Pages(call'[p].size) /\ state'[p] = "RUNNABLE" /\ sz'[p] = sz[p]
            /\ call'[p].next <= call'[p].upto
            /\ call'[p].had = 0 .. Pages(sz[p]) - 1
            /\ call'[p].op = "sbrk" => Pages(sz[p]) <= call'[p].next
        BY <1>0, <1>3, <1>b, <2>1, <2>3
      <4>4. call'[p].next < call'[p].upto
        BY <1>3, <1>b, <2>1, <2>3
      <4> QED
        BY <2>1, <2>3, <4>2, <4>3, <4>4 DEF Progress
    <3>3. Sized(p)' /\ Kept(p)' /\ Unborn(p)'
      BY <1>0, <1>3, <1>b, <2>1, <2>3 DEF Sized, Kept, At, Unborn
    <3>4. Child(p)'
      BY <1>0, <1>3, <2>1, <2>3, ChildKeeps DEF InvAt
    <3> QED
      BY <3>1, <3>2, <3>3, <3>4 DEF InvAt
  <2>7. \A q \in Slot \ {p} : InvAt(q)'
    BY <1>0, <1>3, <2>1, <2>3, AloneKeeps
  <2> QED
    BY <2>4, <2>5, <2>6, <2>7 DEF Inv
<1> QED
  BY <1>1, <1>2, <1>3 DEF NextPage

LEMMA ExecBadStep ==
  ASSUME PageAssumption, Inv, NEW p \in Slot, ExecBad(p)
  PROVE  Inv'
<1>1. call[p].pc # "user" /\ Fail(p)
  BY DEF ExecBad, At
<1> QED
  BY <1>1, FailStep

LEMMA ExitStep ==
  ASSUME PageAssumption, Inv, NEW p \in Slot, Exit(p)
  PROVE  Inv'
<1>0. /\ TypeOK /\ \A q \in Slot : InvAt(q)
      /\ At(p, "user") /\ state' = [state EXCEPT ![p] = "ZOMBIE"]
      /\ parent' = [s \in Slot |-> IF parent[s] = p THEN Init1 ELSE parent[s]]
      /\ UNCHANGED <<free, sz, kstack, as, call>>
  BY DEF Inv, Exit
<1>1. call[p].op = "none" /\ state[p] = "RUNNABLE" /\ call[p].pc = "user"
  BY <1>0, StartIs
<1>2. state'[p] = "ZOMBIE" /\ \A q \in Slot \ {p} : state'[q] = state[q]
  BY <1>0 DEF TypeOK
<1>3. TypeOK'
  <2>1. parent' \in [Slot -> Slot \cup {Nil}]
    BY <1>0, Constants DEF TypeOK
  <2> QED
    BY <1>0, <2>1 DEF TypeOK
<1>4. WellPlaced(free, Cell, Contents)'
  BY <1>0, Stay
<1>5. InvAt(p)'
  BY <1>0, <1>1, <1>2 DEF InvAt, Progress, Sized, Child, Unborn, Kept, At
<1>6. \A q \in Slot \ {p} : InvAt(q)'
  BY <1>0, <1>1, <1>2, AloneKeeps
<1> QED
  BY <1>3, <1>4, <1>5, <1>6 DEF Inv

LEMMA MapStep ==
  ASSUME PageAssumption, Inv, NEW p \in Slot, state[p] = "RUNNABLE", call[p].pc = "map",
         NEW t, t = call[p].next \div NPTENTRIES, NEW g \in Page \cup {Nil},
         NEW z, z = Entered(Built(p), t, g, call[p].next, call[p].mem),
         SetBuilt(p, [call[p] EXCEPT !.pc = "page", !.next = @ + 1, !.mem = Nil], z),
         \/ Built(p).table[t] = g /\ free' = free
         \/ Built(p).table[t] = Nil /\ g \in free /\ free' = free \ {g},
         UNCHANGED <<state, parent, sz, kstack>>
  PROVE  Inv'
<1>0. TypeOK /\ WellPlaced(free, Cell, Contents) /\ \A q \in Slot : InvAt(q)
  BY DEF Inv
<1>b. /\ call[p] \in Call /\ call[p].op # "none" /\ Shape(call[p])
      /\ call[p].upto = Pages(call[p].size) /\ call[p].next < call[p].upto
      /\ Mapped(Built(p)) = 0 .. call[p].next - 1
      /\ call[p].had = 0 .. Pages(sz[p]) - 1
      /\ call[p].op = "sbrk" => Pages(sz[p]) <= call[p].next
      /\ call[p].op # "sbrk" => Mapped(as[p]) = 0 .. Pages(sz[p]) - 1
      /\ kstack[p] # Nil
  BY BusyIs
<1>n. PICK n \in 0 .. MaxPages : n = call[p].next
  BY <1>b, CallIs
<1>m. PICK m \in Page : m = call[p].mem /\ m # Nil
  BY <1>b, CallIs DEF Shape
<1>s. PICK s \in Space : s = Built(p)
  BY <1>0, <1>b, CallIs DEF Built, TypeOK
<1>1. /\ n \in Vpn /\ n \in Nat /\ n + 1 <= call[p].upto /\ n + 1 \in 0 .. MaxPages
      /\ Mapped(s) = 0 .. n - 1 /\ s.user[n] = Nil /\ t \in Table
  <2>1. call[p].upto \in 0 .. MaxPages /\ MaxPages \in Nat
    BY <1>b, CallIs, Constants
  <2>2. n < call[p].upto /\ Mapped(s) = 0 .. n - 1
    BY <1>b, <1>n, <1>s
  <2>3. n \in 0 .. MaxPages - 1 /\ n \in Nat /\ n + 1 <= call[p].upto /\ n + 1 \in 0 .. MaxPages
        /\ n \notin 0 .. n - 1
    BY <2>1, <2>2
  <2>4. n \in Vpn
    BY <2>3 DEF Vpn
  <2>5. s.user[n] = Nil
    BY <2>2, <2>3, <2>4 DEF Mapped
  <2>6. t \in Table
    BY <1>n, <2>4, TablesAre
  <2> QED
    BY <2>2, <2>3, <2>4, <2>5, <2>6
<1>2. /\ z \in Space /\ Mapped(z) = Mapped(s) \cup {n}
      /\ \A w \in Part : PageAt(z, w) = IF w = <<"table", t>> THEN g
                                        ELSE IF w = <<"user", n>> THEN m ELSE PageAt(s, w)
  <2>1. z = Entered(s, t, g, n, m)
    BY <1>n, <1>m, <1>s
  <2>2. m \in Page \cup {Nil} /\ t \in Table /\ n \in Vpn /\ m # Nil
    BY <1>1, <1>m
  <2> QED
    BY <2>1, <2>2, MapIs
<1>3. PICK d \in Call :
        /\ call' = [call EXCEPT ![p] = d]
        /\ d.pc = "page" /\ d.op = call[p].op /\ d.next = n + 1 /\ d.upto = call[p].upto
        /\ d.mem = Nil /\ d.size = call[p].size /\ d.child = call[p].child
        /\ d.failed = call[p].failed /\ d.had = call[p].had
        /\ d.new = IF call[p].op = "sbrk" THEN call[p].new ELSE z
  <2> DEFINE c == [call[p] EXCEPT !.pc = "page", !.next = @ + 1, !.mem = Nil]
             e == [c EXCEPT !.new = z]
  <2>1. call[p].next + 1 \in 0 .. MaxPages
    BY <1>n, <1>1
  <2>2. /\ c \in Call /\ c.pc = "page" /\ c.op = call[p].op /\ c.next = call[p].next + 1
        /\ c.upto = call[p].upto /\ c.mem = Nil /\ c.size = call[p].size
        /\ c.child = call[p].child /\ c.failed = call[p].failed /\ c.had = call[p].had
        /\ c.new = call[p].new
    BY <1>b, <2>1 DEF Call
  <2>c. SetBuilt(p, c, z)
    OBVIOUS
  <2> HIDE DEF c, e
  <2>3. call[p].op = "sbrk" => call' = [call EXCEPT ![p] = c]
    BY <2>2, <2>c DEF SetBuilt, Become
  <2>4. call[p].op # "sbrk" => call' = [call EXCEPT ![p] = e]
    BY <2>2, <2>c DEF SetBuilt, Become, e
  <2>5. /\ e \in Call /\ e.pc = "page" /\ e.op = call[p].op /\ e.next = call[p].next + 1
        /\ e.upto = call[p].upto /\ e.mem = Nil /\ e.size = call[p].size
        /\ e.child = call[p].child /\ e.failed = call[p].failed /\ e.had = call[p].had
        /\ e.new = z
    BY <1>2, <2>2 DEF Call, e
  <2>6. CASE call[p].op = "sbrk"
    BY <1>n, <2>2, <2>3, <2>6
  <2>7. CASE call[p].op # "sbrk"
    BY <1>n, <2>4, <2>5, <2>7
  <2> QED
    BY <2>6, <2>7
<1>4. /\ call[p].op = "sbrk" => as' = [as EXCEPT ![p] = z]
      /\ call[p].op # "sbrk" => as' = as
  <2>1. [call[p] EXCEPT !.pc = "page", !.next = @ + 1, !.mem = Nil].op = call[p].op
    BY <1>b DEF Call
  <2> QED
    BY <2>1 DEF SetBuilt
<1>5. /\ call'[p] = d /\ \A q \in Slot \ {p} : call'[q] = call[q]
      /\ as'[p] = (IF call[p].op = "sbrk" THEN z ELSE as[p])
      /\ \A q \in Slot \ {p} : as'[q] = as[q]
  BY <1>0, <1>3, <1>4 DEF TypeOK
<1>6. WellPlaced(free, Cell, Contents)'
  <2>a. PICK a : a = IF call[p].op = "sbrk" THEN "as" ELSE "new"
    OBVIOUS
  <2>c. PICK mc, uc, tc : /\ mc = <<"mem", p, Whole>> /\ uc = <<a, p, <<"user", n>>>>
                          /\ tc = <<a, p, <<"table", t>>>>
    OBVIOUS
  <2>1. \A w \in Part : /\ <<a, p, w>> \in Cell
                        /\ Contents[<<a, p, w>>] = PageAt(s, w)
                        /\ Contents'[<<a, p, w>>] = PageAt(z, w)
    <3>1. CASE call[p].op = "sbrk"
      <4>1. a = "as" /\ s = as[p] /\ as'[p] = z
        BY <1>s, <1>5, <2>a, <3>1 DEF Built
      <4>2. ASSUME NEW w \in Part
            PROVE  /\ <<"as", p, w>> \in Cell
                   /\ Contents[<<"as", p, w>>] = PageAt(as[p], w)
                   /\ Contents'[<<"as", p, w>>] = PageAt(as'[p], w)
        BY Cells, ContentsAre, ContentsNext
      <4> QED
        BY <4>1, <4>2
    <3>2. CASE call[p].op # "sbrk"
      <4>1. a = "new" /\ s = call[p].new /\ call'[p].new = z
        BY <1>s, <1>3, <1>5, <2>a, <3>2 DEF Built
      <4>2. ASSUME NEW w \in Part
            PROVE  /\ <<"new", p, w>> \in Cell
                   /\ Contents[<<"new", p, w>>] = PageAt(call[p].new, w)
                   /\ Contents'[<<"new", p, w>>] = PageAt(call'[p].new, w)
        BY Cells, ContentsAre, ContentsNext
      <4> QED
        BY <4>1, <4>2
    <3> QED
      BY <3>1, <3>2
  <2>2. /\ mc \in Cell /\ uc \in Cell /\ tc \in Cell /\ mc # uc /\ mc # tc /\ uc # tc
        /\ <<"user", n>> \in Part /\ <<"table", t>> \in Part
        /\ <<"user", n>> # <<"table", t>>
    <3>1. <<"user", n>> \in Part /\ <<"table", t>> \in Part
      BY <1>1, Parts
    <3>2. mc \in Cell /\ uc \in Cell /\ tc \in Cell
      BY <3>1, <2>1, <2>c, Cells
    <3>3. <<"user", n>> # <<"table", t>>
      OBVIOUS
    <3>4. a # "mem"
      BY <2>a
    <3> QED
      BY <3>1, <3>2, <3>3, <3>4, <2>c
  <2>3. /\ Contents[mc] = m /\ Contents'[mc] = Nil
        /\ Contents[uc] = Nil /\ Contents'[uc] = m
        /\ Contents[tc] = s.table[t] /\ Contents'[tc] = g
    <3>1. Contents[mc] = m /\ Contents'[mc] = Nil
      BY <1>m, <1>3, <1>5, <2>c, ContentsAre, ContentsNext
    <3>2. Contents[uc] = PageAt(s, <<"user", n>>) /\ Contents[tc] = PageAt(s, <<"table", t>>)
      BY <2>1, <2>2, <2>c
    <3>3. Contents'[uc] = PageAt(z, <<"user", n>>) /\ Contents'[tc] = PageAt(z, <<"table", t>>)
      BY <2>1, <2>2, <2>c
    <3>4. PageAt(s, <<"user", n>>) = Nil /\ PageAt(s, <<"table", t>>) = s.table[t]
      BY <1>1, PageAtIs
    <3>5. PageAt(z, <<"user", n>>) = m /\ PageAt(z, <<"table", t>>) = g
      BY <1>2, <2>2
    <3> QED
      BY <3>1, <3>2, <3>3, <3>4, <3>5
  <2>4. \A y \in Cell \ {mc, uc, tc} : Contents'[y] = Contents[y]
    <3>1. {mc, uc, tc} \subseteq Cell
      BY <2>2
    <3>2. \A r \in Slot : <<"mem", r, Whole>> \notin {mc, uc, tc} => call'[r].mem = call[r].mem
      BY <1>5, <2>c
    <3>3. ASSUME NEW r \in Slot, NEW w \in Part, <<"as", r, w>> \notin {mc, uc, tc}
          PROVE  PageAt(as'[r], w) = PageAt(as[r], w)
      <4>1. CASE r = p /\ call[p].op = "sbrk"
        <5>1. w # <<"user", n>> /\ w # <<"table", t>> /\ s = as[p]
          BY <1>s, <2>a, <2>c, <3>3, <4>1 DEF Built
        <5> QED
          BY <1>2, <1>5, <4>1, <5>1
      <4>2. CASE r = p /\ call[p].op # "sbrk"
        BY <1>5, <4>2
      <4>3. CASE r # p
        BY <1>5, <4>3
      <4> QED
        BY <4>1, <4>2, <4>3
    <3>4. ASSUME NEW r \in Slot, NEW w \in Part, <<"new", r, w>> \notin {mc, uc, tc}
          PROVE  PageAt(call'[r].new, w) = PageAt(call[r].new, w)
      <4>1. CASE r = p /\ call[p].op # "sbrk"
        <5>1. w # <<"user", n>> /\ w # <<"table", t>> /\ s = call[p].new
          BY <1>s, <2>a, <2>c, <3>4, <4>1 DEF Built
        <5> QED
          BY <1>2, <1>3, <1>5, <4>1, <5>1
      <4>2. CASE r = p /\ call[p].op = "sbrk"
        BY <1>3, <1>5, <4>2
      <4>3. CASE r # p
        BY <1>5, <4>3
      <4> QED
        BY <4>1, <4>2, <4>3
    <3> QED
      BY <3>1, <3>2, <3>3, <3>4, SameCells
  <2> DEFINE swap == [y \in Cell |-> IF y = mc THEN uc ELSE IF y = uc THEN mc ELSE y]
             h == [y \in Cell |-> Contents[swap[y]]]
  <2>5. WellPlaced(free, Cell, h)
    <3>1. swap \in [Cell -> Cell] /\ \A y \in Cell : swap[swap[y]] = y
      BY <2>2
    <3>2. \A y \in Cell : h[y] = Contents[swap[y]]
      OBVIOUS
    <3> HIDE DEF swap, h
    <3> QED
      BY <1>0, <3>1, <3>2, PermuteKeeps
  <2>6. /\ \A y \in Cell \ {tc} : Contents'[y] = h[y]
        /\ h[tc] = s.table[t]
    BY <2>2, <2>3, <2>4
  <2> HIDE DEF swap, h
  <2>7. CASE Built(p).table[t] = g /\ free' = free
    <3>1. \A y \in Cell : Contents'[y] = h[y]
      BY <1>s, <2>3, <2>6, <2>7
    <3> QED
      BY <2>5, <2>7, <3>1 DEF WellPlaced
  <2>8. CASE Built(p).table[t] = Nil /\ g \in free /\ free' = free \ {g}
    <3>1. h[tc] = Nil /\ Contents'[tc] = g /\ tc \in Cell
      BY <1>s, <2>2, <2>3, <2>6, <2>8
    <3>2. WellPlaced(free \ {g}, Cell, Contents')
      BY <2>5, <2>6, <2>8, <3>1, PagesAreNotNil, TakeKeeps
    <3> QED
      BY <2>8, <3>2
  <2> QED
    BY <2>7, <2>8
<1>7. TypeOK'
  <2>1. free' \subseteq Page
    BY <1>6 DEF WellPlaced
  <2>2. call' \in [Slot -> Call]
    BY <1>0, <1>3 DEF TypeOK
  <2>3. as' \in [Slot -> Space]
    BY <1>0, <1>2, <1>4 DEF TypeOK
  <2> QED
    BY <1>0, <2>1, <2>2, <2>3 DEF TypeOK
<1>8. InvAt(p)'
  <2>1. Shape(call[p])'
    BY <1>b, <1>3, <1>5 DEF Shape
  <2>2. Progress(p)'
    <3>1. Built(p)' = z
      <4>1. CASE call[p].op = "sbrk"
        <5>1. call'[p].op = "sbrk" /\ as'[p] = z
          BY <1>3, <1>5, <4>1
        <5> QED
          BY <5>1 DEF Built
      <4>2. CASE call[p].op # "sbrk"
        <5>1. call'[p].op # "sbrk" /\ call'[p].new = z
          BY <1>3, <1>5, <4>2
        <5> QED
          BY <5>1 DEF Built
      <4> QED
        BY <4>1, <4>2
    <3>2. Mapped(z) = 0 .. (n + 1) - 1
      <4>1. \A k \in Nat : (0 .. k - 1) \cup {k} = 0 .. (k + 1) - 1
        OBVIOUS
      <4>2. n \in Nat /\ Mapped(z) = (0 .. n - 1) \cup {n}
        BY <1>1, <1>2
      <4> QED
        BY <4>1, <4>2, Zenon
    <3>3. (Mapped(Built(p)) = 0 .. call[p].next - 1)'
      BY <1>3, <1>5, <3>1, <3>2
    <3>4. /\ call'[p].upto = Pages(call'[p].size) /\ state'[p] = "RUNNABLE" /\ sz'[p] = sz[p]
          /\ call'[p].next <= call'[p].upto /\ call'[p].had = 0 .. Pages(sz[p]) - 1
      BY <1>b, <1>1, <1>3, <1>5
    <3>5. call'[p].op = "sbrk" => Pages(sz[p]) <= call'[p].next
      <4>1. sz[p] \in Nat
        <5>1. sz[p] \in 0 .. MaxPages * PGSIZE /\ MaxPages * PGSIZE \in Nat
          BY <1>0, Constants DEF TypeOK
        <5> QED
          BY <5>1
      <4>2. Pages(sz[p]) \in Nat
        BY <4>1, PagesAre
      <4>3. call[p].op = "sbrk" => Pages(sz[p]) <= n
        BY <1>b, <1>n
      <4> QED
        BY <1>1, <1>3, <1>5, <4>2, <4>3
    <3> QED
      BY <1>3, <1>5, <3>3, <3>4, <3>5 DEF Progress
  <2>3. Sized(p)' /\ Kept(p)' /\ Unborn(p)'
    BY <1>b, <1>3, <1>5 DEF Sized, Kept, At, Unborn
  <2>4. Child(p)'
    BY <1>0, <1>3, <1>5, ChildKeeps DEF InvAt
  <2> QED
    BY <2>1, <2>2, <2>3, <2>4 DEF InvAt
<1>9. \A q \in Slot \ {p} : InvAt(q)'
  BY <1>3, <1>5, AloneKeeps
<1> QED
  BY <1>6, <1>7, <1>8, <1>9 DEF Inv

LEMMA MapPageStep ==
  ASSUME PageAssumption, Inv, NEW p \in Slot, MapPage(p)
  PROVE  Inv'
<1> DEFINE c == call[p]
           s == Built(p)
           t == c.next \div NPTENTRIES
           with(g) == [s EXCEPT !.table[t] = g, !.user[c.next] = c.mem]
           then == [c EXCEPT !.pc = "page", !.next = @ + 1, !.mem = Nil]
<1>0. /\ TypeOK /\ call[p] \in Call /\ call[p].pc = "map" /\ state[p] = "RUNNABLE"
  BY DEF Inv, MapPage, At, TypeOK
<1>1. CASE OutOfPages /\ Fail(p)
  BY <1>0, <1>1, FailStep
<1>2. CASE /\ SetBuilt(p, then, with(s.table[t]))
           /\ UNCHANGED <<free, state, parent, sz, kstack>>
  <2>1. s.table[t] \in Page \cup {Nil}
    <3>1. s \in Space /\ c.next \in 0 .. MaxPages /\ c.upto \in 0 .. MaxPages
      BY <1>0, CallIs DEF Built, TypeOK
    <3>2. c.next < c.upto /\ MaxPages \in Nat
      BY <1>0, BusyIs, Constants
    <3>3. c.next \in Vpn
      BY <3>1, <3>2 DEF Vpn
    <3>4. t \in Table
      BY <3>3, TablesAre
    <3> QED
      BY <3>1, <3>4, SpaceIs
  <2>2. with(s.table[t]) = Entered(s, t, s.table[t], c.next, c.mem)
    BY DEF Entered
  <2> HIDE DEF with
  <2> QED
    BY <1>0, <1>2, <2>1, <2>2, MapStep
<1>3. ASSUME NEW g \in free, s.table[t] = Nil, Kalloc(g), SetBuilt(p, then, with(g)),
             UNCHANGED <<state, parent, sz, kstack>>
      PROVE  Inv'
  <2>1. g \in Page \cup {Nil} /\ free' = free \ {g}
    BY <1>0, <1>3 DEF TypeOK, Kalloc
  <2>2. with(g) = Entered(s, t, g, c.next, c.mem)
    BY DEF Entered
  <2> HIDE DEF with
  <2> QED
    BY <1>0, <1>3, <2>1, <2>2, MapStep
<1> QED
  BY <1>1, <1>2, <1>3 DEF MapPage

\* two spaces that change places
LEMMA SwapKeeps ==
  ASSUME NEW F, NEW f, NEW h, WellPlaced(F, Cell, f), NEW p \in Slot, NEW q \in Slot,
         \A w \in Part : h[<<"as", q, w>>] = f[<<"new", p, w>>],
         \A w \in Part : h[<<"new", p, w>>] = f[<<"as", q, w>>],
         \A c \in Cell : ~ (c[1] = "as" /\ c[2] = q) /\ ~ (c[1] = "new" /\ c[2] = p) => h[c] = f[c]
  PROVE  WellPlaced(F, Cell, h)
<1> DEFINE m == [c \in Cell |->
              IF c[1] = "as" /\ c[2] = q THEN <<"new", p, c[3]>> ELSE
              IF c[1] = "new" /\ c[2] = p THEN <<"as", q, c[3]>> ELSE c]
<1>1. ASSUME NEW c \in Cell, c[1] = "as" /\ c[2] = q
      PROVE  /\ c[3] \in Part /\ c = <<"as", q, c[3]>> /\ m[c] = <<"new", p, c[3]>>
             /\ m[c] \in Cell /\ m[m[c]] = c /\ h[c] = f[m[c]]
  <2>1. c[3] \in Part /\ c = <<"as", q, c[3]>>
    BY <1>1 DEF Cell
  <2>2. <<"new", p, c[3]>> \in Cell
    BY <2>1, Cells
  <2>3. m[c] = <<"new", p, c[3]>>
    BY <1>1
  <2>4. m[<<"new", p, c[3]>>] = <<"as", q, c[3]>>
    BY <2>2
  <2> HIDE DEF m
  <2>5. h[c] = f[m[c]]
    BY <2>1, <2>3
  <2> QED
    BY <2>1, <2>2, <2>3, <2>4, <2>5
<1>2. ASSUME NEW c \in Cell, c[1] = "new" /\ c[2] = p
      PROVE  /\ m[c] \in Cell /\ m[m[c]] = c /\ h[c] = f[m[c]]
  <2>1. c[3] \in Part /\ c = <<"new", p, c[3]>>
    BY <1>2 DEF Cell
  <2>2. <<"as", q, c[3]>> \in Cell
    BY <2>1, Cells
  <2>3. m[c] = <<"as", q, c[3]>>
    BY <1>2
  <2>4. m[<<"as", q, c[3]>>] = <<"new", p, c[3]>>
    BY <2>2
  <2> HIDE DEF m
  <2>5. h[c] = f[m[c]]
    BY <2>1, <2>3
  <2> QED
    BY <2>1, <2>2, <2>3, <2>4, <2>5
<1>3. ASSUME NEW c \in Cell, ~ (c[1] = "as" /\ c[2] = q), ~ (c[1] = "new" /\ c[2] = p)
      PROVE  m[c] = c /\ h[c] = f[c]
  BY <1>3
<1>4. m \in [Cell -> Cell] /\ (\A c \in Cell : m[m[c]] = c) /\ \A c \in Cell : h[c] = f[m[c]]
  <2>1. m = [c \in Cell |-> m[c]]
    OBVIOUS
  <2> HIDE DEF m
  <2>2. \A c \in Cell : m[c] \in Cell /\ m[m[c]] = c /\ h[c] = f[m[c]]
    BY <1>1, <1>2, <1>3
  <2> QED
    BY <2>1, <2>2
<1> HIDE DEF m
<1> QED
  BY <1>4, PermuteKeeps

\* the cells of a space that is freed
LEMMA FreeSpace ==
  ASSUME TypeOK, NEW p \in Slot, NEW g
  PROVE  g \in Held(as[p]) <=> g # Nil /\ \E w \in Part : Contents[<<"as", p, w>>] = g
<1>1. as[p] \in Space
  BY DEF TypeOK
<1>2. Held(as[p]) = {PageAt(as[p], w) : w \in Part} \ {Nil}
  BY <1>1, HeldIs
<1>3. \A w \in Part : Contents[<<"as", p, w>>] = PageAt(as[p], w)
  BY ContentsAre
<1> QED
  BY <1>2, <1>3

LEMMA ForkDone ==
  ASSUME PageAssumption, Inv, NEW p \in Slot, At(p, "done"), call[p].op = "fork", Done(p)
  PROVE  Inv'
<1>0. TypeOK /\ WellPlaced(free, Cell, Contents) /\ \A q \in Slot : InvAt(q)
  BY DEF Inv
<1>1. state[p] = "RUNNABLE" /\ call[p].pc = "done"
  BY DEF At
<1>b. /\ call[p] \in Call /\ Shape(call[p])
      /\ call[p].upto = Pages(call[p].size) /\ call[p].next = call[p].upto
      /\ Mapped(Built(p)) = 0 .. call[p].next - 1
      /\ Mapped(as[p]) = 0 .. Pages(sz[p]) - 1
      /\ kstack[p] # Nil /\ call[p].mem = Nil /\ call[p].new \in Space
      /\ call[p].size \in 0 .. MaxPages * PGSIZE
  <2>1. /\ call[p] \in Call /\ Shape(call[p])
        /\ call[p].upto = Pages(call[p].size) /\ call[p].next = call[p].upto
        /\ Mapped(Built(p)) = 0 .. call[p].next - 1
        /\ Mapped(as[p]) = 0 .. Pages(sz[p]) - 1
        /\ kstack[p] # Nil
    BY <1>1, BusyIs
  <2>2. call[p].mem = Nil
    BY <1>1, <2>1 DEF Shape
  <2> QED
    BY <2>1, <2>2, CallIs
<1>c. PICK c \in Slot :
        /\ c = call[p].child /\ c # Nil /\ c # p /\ state[c] = "EMBRYO" /\ kstack[c] # Nil
        /\ \A q \in Slot : call[q].child = c => q = p
  <2>1. call[p].child # Nil /\ call[p].child \in Slot
    BY <1>b, CallIs DEF Shape
  <2> QED
    BY <1>0, <1>1, <2>1 DEF InvAt, Child
<1>d. /\ call[c].pc = "user" /\ call[c].mem = Nil /\ call[c].new = NoSpace /\ as[c] = NoSpace
      /\ call[c].op = "none" /\ call[c].child = Nil
  <2>1. call[c].pc = "user" /\ Shape(call[c]) /\ as[c] = NoSpace
    BY <1>0, <1>c DEF InvAt, Progress, Unborn
  <2>2. call[c].op = "none" /\ call[c].mem = Nil /\ call[c].new = NoSpace
    BY <2>1 DEF Shape
  <2> QED
    BY <2>1, <2>2 DEF Shape
<1>s. PICK s \in Space : s = call[p].new
  BY <1>b
<1>2. Mapped(as[p]) \in SUBSET Vpn /\ Mapped(s) \in SUBSET Vpn
  BY DEF Mapped
<1>u. PICK u \in Call, v \in Call : u = AtUser(Mapped(as[p])) /\ v = AtUser(Mapped(s))
  BY <1>2, AtUserIs
<1>3. /\ state' = [state EXCEPT ![c] = "RUNNABLE"]
      /\ parent' = [parent EXCEPT ![c] = p]
      /\ sz' = [sz EXCEPT ![c] = call[p].size]
      /\ as' = [as EXCEPT ![c] = s]
      /\ call' = [call EXCEPT ![p] = u, ![c] = v]
      /\ UNCHANGED <<free, kstack>>
  BY <1>c, <1>s, <1>u DEF Done
<1>4. /\ u.op = "none" /\ u.pc = "user" /\ u.new = NoSpace /\ u.mem = Nil /\ u.child = Nil
      /\ v.op = "none" /\ v.pc = "user" /\ v.new = NoSpace /\ v.mem = Nil /\ v.child = Nil
      /\ ~ u.failed /\ ~ v.failed
  BY <1>u DEF AtUser
<1>5. /\ call'[p] = u /\ call'[c] = v /\ \A q \in Slot \ {p, c} : call'[q] = call[q]
      /\ state'[c] = "RUNNABLE" /\ sz'[c] = call[p].size /\ as'[c] = s
      /\ \A q \in Slot \ {c} : state'[q] = state[q] /\ sz'[q] = sz[q] /\ as'[q] = as[q]
  BY <1>0, <1>3, <1>c DEF TypeOK
<1>6. TypeOK'
  <2>1. call' \in [Slot -> Call] /\ as' \in [Slot -> Space]
    BY <1>0, <1>3 DEF TypeOK
  <2>2. /\ parent' \in [Slot -> Slot \cup {Nil}] /\ sz' \in [Slot -> 0 .. MaxPages * PGSIZE]
        /\ state' \in [Slot -> {"UNUSED", "EMBRYO", "RUNNABLE", "ZOMBIE"}]
    BY <1>0, <1>3, <1>b DEF TypeOK
  <2> QED
    BY <1>0, <1>3, <2>1, <2>2 DEF TypeOK
<1>7. WellPlaced(free, Cell, Contents)'
  <2>1. ASSUME NEW w \in Part PROVE Contents'[<<"as", c, w>>] = Contents[<<"new", p, w>>]
    <3>1. Contents'[<<"as", c, w>>] = PageAt(as'[c], w)
      BY ContentsNext
    <3>2. Contents[<<"new", p, w>>] = PageAt(call[p].new, w)
      BY ContentsAre
    <3> QED
      BY <1>s, <1>5, <3>1, <3>2
  <2>2. ASSUME NEW w \in Part PROVE Contents'[<<"new", p, w>>] = Contents[<<"as", c, w>>]
    <3>1. Contents'[<<"new", p, w>>] = PageAt(call'[p].new, w)
      BY ContentsNext
    <3>2. Contents[<<"as", c, w>>] = PageAt(as[c], w)
      BY ContentsAre
    <3> QED
      BY <1>4, <1>5, <1>d, <3>1, <3>2
  <2>x. PICK X : X = {y \in Cell : (y[1] = "as" /\ y[2] = c) \/ (y[1] = "new" /\ y[2] = p)}
    OBVIOUS
  <2>3. \A y \in Cell \ X : Contents'[y] = Contents[y]
    <3>1. X \subseteq Cell
      BY <2>x
    <3>2. kstack' = kstack /\ \A r \in Slot : call'[r].mem = call[r].mem
      BY <1>3, <1>4, <1>5, <1>b, <1>d
    <3>3. ASSUME NEW r \in Slot, NEW w \in Part, <<"as", r, w>> \notin X
          PROVE  PageAt(as'[r], w) = PageAt(as[r], w)
      <4>1. r # c
        BY <2>x, <3>3, Cells
      <4> QED
        BY <1>5, <4>1
    <3>4. ASSUME NEW r \in Slot, NEW w \in Part, <<"new", r, w>> \notin X
          PROVE  PageAt(call'[r].new, w) = PageAt(call[r].new, w)
      <4>1. r # p
        BY <2>x, <3>4, Cells
      <4> QED
        BY <1>4, <1>5, <1>d, <4>1
    <3> QED
      BY <3>1, <3>2, <3>3, <3>4, SameCells
  <2>4. \A y \in Cell : ~ (y[1] = "as" /\ y[2] = c) /\ ~ (y[1] = "new" /\ y[2] = p)
                        => Contents'[y] = Contents[y]
    BY <2>x, <2>3
  <2>5. WellPlaced(free, Cell, Contents')
    BY <1>0, <2>1, <2>2, <2>4, SwapKeeps
  <2> QED
    BY <1>3, <2>5
<1>8. InvAt(p)'
  <2>1. Shape(call[p])' /\ Progress(p)' /\ Child(p)'
    BY <1>4, <1>5 DEF Shape, Progress, Child
  <2>2. Sized(p)' /\ Kept(p)' /\ Unborn(p)'
    BY <1>1, <1>3, <1>4, <1>5, <1>b, <1>c DEF Sized, Kept, Unborn
  <2> QED
    BY <2>1, <2>2 DEF InvAt
<1>9. InvAt(c)'
  <2>1. Shape(call[c])' /\ Progress(c)' /\ Child(c)'
    BY <1>4, <1>5 DEF Shape, Progress, Child
  <2>2. Sized(c)'
    <3>1. Mapped(s) = 0 .. Pages(call[p].size) - 1
      BY <1>b, <1>s DEF Built
    <3> QED
      BY <1>5, <3>1 DEF Sized
  <2>3. Kept(c)' /\ Unborn(c)'
    BY <1>3, <1>4, <1>5, <1>c DEF Kept, Unborn
  <2> QED
    BY <2>1, <2>2, <2>3 DEF InvAt
<1>10. ASSUME NEW q \in Slot \ {p, c} PROVE InvAt(q)'
  <2>1. InvAt(q) /\ call[q] \in Call
    BY <1>0 DEF TypeOK
  <2>2. call[q].op = "fork" => call[q].child \in Slot \ {c}
    BY <1>c, <2>1, CallIs DEF InvAt, Shape
  <2>3. call[q].op = "fork" => /\ state'[call[q].child] = state[call[q].child]
                               /\ kstack'[call[q].child] = kstack[call[q].child]
                               /\ call'[p].child # call[q].child
    <3>1. call[q].op = "fork" => call[q].child # Nil
      BY <2>1 DEF InvAt, Shape
    <3> QED
      BY <1>3, <1>4, <1>5, <2>2, <3>1
  <2>4. \A r \in Slot \ {p} : call'[r].child = call[r].child
    BY <1>4, <1>5, <1>d
  <2>5. UNCHANGED <<call[q], state[q], sz[q], as[q]>> /\ kstack'[q] = kstack[q]
    BY <1>3, <1>5
  <2> QED
    BY <2>1, <2>3, <2>4, <2>5, OtherKeeps
<1> QED
  BY <1>6, <1>7, <1>8, <1>9, <1>10 DEF Inv

LEMMA ExecDone ==
  ASSUME PageAssumption, Inv, NEW p \in Slot, At(p, "done"), call[p].op = "exec", Done(p)
  PROVE  Inv'
<1>0. TypeOK /\ WellPlaced(free, Cell, Contents) /\ \A q \in Slot : InvAt(q)
  BY DEF Inv
<1>1. state[p] = "RUNNABLE" /\ call[p].pc = "done"
  BY DEF At
<1>b. /\ call[p].upto = Pages(call[p].size) /\ call[p].next = call[p].upto
      /\ Mapped(Built(p)) = 0 .. call[p].next - 1
      /\ kstack[p] # Nil /\ call[p].mem = Nil /\ call[p].new \in Space
      /\ call[p].size \in 0 .. MaxPages * PGSIZE
  <2>1. /\ call[p] \in Call /\ Shape(call[p])
        /\ call[p].upto = Pages(call[p].size) /\ call[p].next = call[p].upto
        /\ Mapped(Built(p)) = 0 .. call[p].next - 1 /\ kstack[p] # Nil
    BY <1>1, BusyIs
  <2>2. call[p].mem = Nil
    BY <1>1, <2>1 DEF Shape
  <2> QED
    BY <2>1, <2>2, CallIs
<1>s. PICK s \in Space : s = call[p].new
  BY <1>b
<1>2. Mapped(s) \in SUBSET Vpn
  BY DEF Mapped
<1>u. PICK u \in Call : u = AtUser(Mapped(s))
  BY <1>2, AtUserIs
<1>3. /\ as' = [as EXCEPT ![p] = s] /\ sz' = [sz EXCEPT ![p] = call[p].size]
      /\ free' = free \cup Held(as[p]) /\ call' = [call EXCEPT ![p] = u]
      /\ UNCHANGED <<state, parent, kstack>>
  BY <1>s, <1>u DEF Done, Become
<1>4. /\ u.op = "none" /\ u.pc = "user" /\ u.new = NoSpace /\ u.mem = Nil /\ u.child = Nil
      /\ ~ u.failed
  BY <1>u DEF AtUser
<1>5. /\ call'[p] = u /\ as'[p] = s /\ sz'[p] = call[p].size
      /\ \A q \in Slot \ {p} : call'[q] = call[q] /\ as'[q] = as[q] /\ sz'[q] = sz[q]
  BY <1>0, <1>3 DEF TypeOK
<1>6. WellPlaced(free, Cell, Contents)'
  <2>x. PICK X : X = {<<"as", p, w>> : w \in Part}
    OBVIOUS
  <2>h. PICK h : h = [y \in Cell |-> IF y \in X THEN Nil ELSE Contents[y]]
    OBVIOUS
  <2>g. PICK G : G = free \cup Held(as[p])
    OBVIOUS
  <2>1. WellPlaced(G, Cell, h)
    <3>1. X \subseteq Cell
      BY <2>x, Cells
    <3>2. /\ \A y \in X : h[y] = Nil
          /\ \A y \in Cell \ X : h[y] = Contents[y]
      BY <2>h, <3>1
    <3>3. \A y \in Cell : Contents[y] \in Page \cup {Nil}
      BY <1>0, ContentsTyped
    <3>4. ASSUME NEW g
          PROVE  g \in G <=>
                   g \in free \/ (g # Nil /\ \E y \in X : Contents[y] = g)
      <4>1. g \in Held(as[p]) <=> g # Nil /\ \E w \in Part : Contents[<<"as", p, w>>] = g
        BY <1>0, FreeSpace
      <4> QED
        BY <2>x, <2>g, <4>1
    <3> QED
      BY <1>0, <3>1, <3>2, <3>3, <3>4, PagesAreNotNil, GiveKeeps
  <2>2. ASSUME NEW w \in Part
        PROVE  /\ Contents'[<<"as", p, w>>] = h[<<"new", p, w>>]
               /\ Contents'[<<"new", p, w>>] = h[<<"as", p, w>>]
    <3>1. <<"as", p, w>> \in Cell /\ <<"new", p, w>> \in Cell
      BY Cells
    <3>2. h[<<"as", p, w>>] = Nil /\ h[<<"new", p, w>>] = Contents[<<"new", p, w>>]
      BY <2>h, <2>x, <3>1
    <3>3. Contents[<<"new", p, w>>] = PageAt(call[p].new, w)
      BY ContentsAre
    <3>4. Contents'[<<"as", p, w>>] = PageAt(as'[p], w)
      BY ContentsNext
    <3>5. Contents'[<<"new", p, w>>] = PageAt(call'[p].new, w)
      BY ContentsNext
    <3>6. PageAt(NoSpace, w) = Nil
      BY NoSpaceIs
    <3> QED
      BY <1>s, <1>4, <1>5, <3>2, <3>3, <3>4, <3>5, <3>6
  <2>y. PICK Y : Y = {y \in Cell : (y[1] = "as" /\ y[2] = p) \/ (y[1] = "new" /\ y[2] = p)}
    OBVIOUS
  <2>3. \A y \in Cell \ Y : Contents'[y] = Contents[y]
    <3>1. Y \subseteq Cell
      BY <2>y
    <3>2. kstack' = kstack /\ \A r \in Slot : call'[r].mem = call[r].mem
      BY <1>3, <1>4, <1>5, <1>b
    <3>3. ASSUME NEW r \in Slot, NEW w \in Part, <<"as", r, w>> \notin Y
          PROVE  PageAt(as'[r], w) = PageAt(as[r], w)
      <4>1. r # p
        BY <2>y, <3>3, Cells
      <4> QED
        BY <1>5, <4>1
    <3>4. ASSUME NEW r \in Slot, NEW w \in Part, <<"new", r, w>> \notin Y
          PROVE  PageAt(call'[r].new, w) = PageAt(call[r].new, w)
      <4>1. r # p
        BY <2>y, <3>4, Cells
      <4> QED
        BY <1>5, <4>1
    <3> QED
      BY <3>1, <3>2, <3>3, <3>4, SameCells
  <2>4. \A y \in Cell : ~ (y[1] = "as" /\ y[2] = p) /\ ~ (y[1] = "new" /\ y[2] = p)
                        => Contents'[y] = h[y]
    <3>1. \A y \in X : y[1] = "as" /\ y[2] = p
      BY <2>x
    <3> QED
      BY <2>h, <2>y, <2>3, <3>1
  <2>5. WellPlaced(G, Cell, Contents')
    BY <2>1, <2>2, <2>4, SwapKeeps
  <2> QED
    BY <1>3, <2>5, <2>g
<1>7. TypeOK'
  <2>1. free' \subseteq Page
    BY <1>6 DEF WellPlaced
  <2>2. /\ call' \in [Slot -> Call] /\ as' \in [Slot -> Space]
        /\ sz' \in [Slot -> 0 .. MaxPages * PGSIZE]
    BY <1>0, <1>3, <1>b DEF TypeOK
  <2> QED
    BY <1>0, <1>3, <2>1, <2>2 DEF TypeOK
<1>8. InvAt(p)'
  <2>1. Shape(call[p])' /\ Progress(p)' /\ Child(p)'
    BY <1>4, <1>5 DEF Shape, Progress, Child
  <2>2. Sized(p)'
    <3>1. Mapped(s) = 0 .. Pages(call[p].size) - 1
      BY <1>b, <1>s DEF Built
    <3> QED
      BY <1>5, <3>1 DEF Sized
  <2>3. Kept(p)' /\ Unborn(p)'
    BY <1>1, <1>3, <1>4, <1>5, <1>b DEF Kept, Unborn
  <2> QED
    BY <2>1, <2>2, <2>3 DEF InvAt
<1>9. \A q \in Slot \ {p} : InvAt(q)'
  BY <1>1, <1>3, <1>4, <1>5, AloneKeeps
<1> QED
  BY <1>6, <1>7, <1>8, <1>9 DEF Inv

LEMMA SbrkDone ==
  ASSUME PageAssumption, Inv, NEW p \in Slot, At(p, "done"), call[p].op = "sbrk", Done(p)
  PROVE  Inv'
<1>0. TypeOK /\ WellPlaced(free, Cell, Contents) /\ \A q \in Slot : InvAt(q)
  BY DEF Inv
<1>1. state[p] = "RUNNABLE" /\ call[p].pc = "done"
  BY DEF At
<1>b. /\ call[p].mem = Nil /\ call[p].new = NoSpace /\ kstack[p] # Nil
      /\ Mapped(as[p]) = 0 .. Pages(call[p].size) - 1
      /\ call[p].size \in 0 .. MaxPages * PGSIZE
  <2>1. /\ call[p] \in Call /\ Shape(call[p])
        /\ call[p].upto = Pages(call[p].size) /\ call[p].next = call[p].upto
        /\ Mapped(Built(p)) = 0 .. call[p].next - 1 /\ kstack[p] # Nil
    BY <1>1, BusyIs
  <2>2. call[p].mem = Nil /\ call[p].new = NoSpace
    BY <1>1, <2>1 DEF Shape
  <2>3. Mapped(as[p]) = 0 .. Pages(call[p].size) - 1
    BY <2>1 DEF Built
  <2> QED
    BY <2>1, <2>2, <2>3, CallIs
<1>2. Mapped(as[p]) \in SUBSET Vpn
  BY DEF Mapped
<1>u. PICK u \in Call : u = AtUser(Mapped(as[p]))
  BY <1>2, AtUserIs
<1>3. /\ sz' = [sz EXCEPT ![p] = call[p].size] /\ call' = [call EXCEPT ![p] = u]
      /\ UNCHANGED <<free, state, parent, kstack, as>>
  BY <1>u DEF Done, Become
<1>4. /\ u.op = "none" /\ u.pc = "user" /\ u.new = NoSpace /\ u.mem = Nil /\ u.child = Nil
      /\ ~ u.failed
  BY <1>u DEF AtUser
<1>5. /\ call'[p] = u /\ sz'[p] = call[p].size
      /\ \A q \in Slot \ {p} : call'[q] = call[q] /\ sz'[q] = sz[q]
  BY <1>0, <1>3 DEF TypeOK
<1>6. WellPlaced(free, Cell, Contents)'
  BY <1>3, <1>4, <1>5, <1>b, Stay
<1>7. TypeOK'
  <2>1. call' \in [Slot -> Call] /\ sz' \in [Slot -> 0 .. MaxPages * PGSIZE]
    BY <1>0, <1>3, <1>b DEF TypeOK
  <2> QED
    BY <1>0, <1>3, <2>1 DEF TypeOK
<1>8. InvAt(p)'
  <2>1. Shape(call[p])' /\ Progress(p)' /\ Child(p)'
    BY <1>4, <1>5 DEF Shape, Progress, Child
  <2>2. Sized(p)'
    BY <1>3, <1>5, <1>b DEF Sized
  <2>3. Kept(p)' /\ Unborn(p)'
    BY <1>1, <1>3, <1>4, <1>5, <1>b DEF Kept, Unborn
  <2> QED
    BY <2>1, <2>2, <2>3 DEF InvAt
<1>9. \A q \in Slot \ {p} : InvAt(q)'
  BY <1>1, <1>3, <1>4, <1>5, AloneKeeps
<1> QED
  BY <1>6, <1>7, <1>8, <1>9 DEF Inv

LEMMA DoneStep ==
  ASSUME PageAssumption, Inv, NEW p \in Slot, Done(p)
  PROVE  Inv'
<1>1. At(p, "done") /\ call[p].op \in {"fork", "exec", "sbrk"}
  BY DEF Done
<1> QED
  BY <1>1, ForkDone, ExecDone, SbrkDone

LEMMA WaitStep ==
  ASSUME PageAssumption, Inv, NEW p \in Slot, NEW z \in Slot, Wait(p, z)
  PROVE  Inv'
<1>0. TypeOK /\ WellPlaced(free, Cell, Contents) /\ \A q \in Slot : InvAt(q)
  BY DEF Inv
<1>1. state[z] = "ZOMBIE" /\ kstack[z] # Nil /\ call[z].mem = Nil
      /\ call[z].new = NoSpace /\ call[z].child = Nil
  <2>1. state[z] = "ZOMBIE" /\ InvAt(z)
    BY <1>0 DEF Wait
  <2>2. kstack[z] # Nil /\ call[z].pc = "user" /\ Shape(call[z])
    BY <2>1 DEF InvAt, Unborn, Progress
  <2>3. call[z].op = "none" /\ call[z].mem = Nil /\ call[z].new = NoSpace
    BY <2>2 DEF Shape
  <2> QED
    BY <2>1, <2>2, <2>3 DEF Shape
<1>u. PICK u \in Call : u = AtUser({})
  BY AtUserIs
<1>2. /\ free' = free \cup {kstack[z]} \cup Held(as[z])
      /\ state' = [state EXCEPT ![z] = "UNUSED"]
      /\ parent' = [parent EXCEPT ![z] = Nil]
      /\ kstack' = [kstack EXCEPT ![z] = Nil]
      /\ as' = [as EXCEPT ![z] = NoSpace]
      /\ sz' = [sz EXCEPT ![z] = 0]
      /\ call' = [call EXCEPT ![z] = u]
  BY <1>u DEF Wait, Frees
<1>3. /\ u.op = "none" /\ u.pc = "user" /\ u.new = NoSpace /\ u.mem = Nil /\ u.child = Nil
  BY <1>u DEF AtUser
<1>4. /\ call'[z] = u /\ as'[z] = NoSpace /\ kstack'[z] = Nil /\ state'[z] = "UNUSED"
      /\ \A q \in Slot \ {z} : /\ call'[q] = call[q] /\ as'[q] = as[q] /\ sz'[q] = sz[q]
                               /\ state'[q] = state[q] /\ kstack'[q] = kstack[q]
  BY <1>0, <1>2 DEF TypeOK
<1>5. WellPlaced(free, Cell, Contents)'
  <2>x. PICK X : X = {<<"stack", z, Whole>>} \cup {<<"as", z, w>> : w \in Part}
    OBVIOUS
  <2>1. X \subseteq Cell
    BY <2>x, Cells
  <2>2. ASSUME NEW y \in X PROVE Contents'[y] = Nil
    <3>1. CASE y = <<"stack", z, Whole>>
      BY <1>4, <3>1, ContentsNext
    <3>2. ASSUME NEW w \in Part, y = <<"as", z, w>> PROVE Contents'[y] = Nil
      <4>1. Contents'[<<"as", z, w>>] = PageAt(as'[z], w)
        BY ContentsNext
      <4> QED
        BY <1>4, <3>2, <4>1, NoSpaceIs
    <3> QED
      BY <2>x, <3>1, <3>2
  <2>3. \A y \in Cell \ X : Contents'[y] = Contents[y]
    <3>1. \A r \in Slot : <<"stack", r, Whole>> \notin X => kstack'[r] = kstack[r]
      BY <1>4, <2>x
    <3>2. \A r \in Slot : call'[r].mem = call[r].mem /\ call'[r].new = call[r].new
      BY <1>1, <1>3, <1>4
    <3>3. ASSUME NEW r \in Slot, NEW w \in Part, <<"as", r, w>> \notin X
          PROVE  PageAt(as'[r], w) = PageAt(as[r], w)
      <4>1. r # z
        BY <2>x, <3>3
      <4> QED
        BY <1>4, <4>1
    <3> QED
      BY <2>1, <3>1, <3>2, <3>3, SameCells
  <2>4. ASSUME NEW g
        PROVE  g \in free' <=> g \in free \/ (g # Nil /\ \E y \in X : Contents[y] = g)
    <3>1. g \in Held(as[z]) <=> g # Nil /\ \E w \in Part : Contents[<<"as", z, w>>] = g
      BY <1>0, FreeSpace
    <3>2. Contents[<<"stack", z, Whole>>] = kstack[z]
      BY ContentsAre
    <3>3. (\E y \in X : Contents[y] = g) <=>
            Contents[<<"stack", z, Whole>>] = g \/ \E w \in Part : Contents[<<"as", z, w>>] = g
      BY <2>x
    <3> QED
      BY <1>1, <1>2, <3>1, <3>2, <3>3
  <2>5. \A y \in Cell : Contents[y] \in Page \cup {Nil}
    BY <1>0, ContentsTyped
  <2> QED
    BY <1>0, <2>1, <2>2, <2>3, <2>4, <2>5, PagesAreNotNil, GiveKeeps
<1>6. TypeOK'
  <2>1. free' \subseteq Page
    BY <1>5 DEF WellPlaced
  <2>2. 0 \in 0 .. MaxPages * PGSIZE
    BY Constants
  <2>3. /\ call' \in [Slot -> Call] /\ as' \in [Slot -> Space]
        /\ sz' \in [Slot -> 0 .. MaxPages * PGSIZE]
        /\ state' \in [Slot -> {"UNUSED", "EMBRYO", "RUNNABLE", "ZOMBIE"}]
    BY <1>0, <1>2, <2>2, NoSpaceIs DEF TypeOK
  <2>4. parent' \in [Slot -> Slot \cup {Nil}] /\ kstack' \in [Slot -> Page \cup {Nil}]
    BY <1>0, <1>2 DEF TypeOK
  <2> QED
    BY <2>1, <2>3, <2>4 DEF TypeOK
<1>7. InvAt(z)'
  BY <1>3, <1>4 DEF InvAt, Shape, Progress, Sized, Child, Unborn, Kept, At
<1>8. ASSUME NEW q \in Slot \ {z} PROVE InvAt(q)'
  <2>1. InvAt(q) /\ call[q] \in Call
    BY <1>0 DEF TypeOK
  <2>2. call[q].op = "fork" => /\ call[q].child \in Slot \ {z} /\ call[q].child # Nil
    <3>1. call[q].op = "fork" => call[q].child # Nil /\ state[call[q].child] = "EMBRYO"
      BY <2>1 DEF InvAt, Shape, Child
    <3> QED
      BY <1>1, <2>1, <3>1, CallIs
  <2>3. call[q].op = "fork" => /\ state'[call[q].child] = state[call[q].child]
                               /\ kstack'[call[q].child] = kstack[call[q].child]
                               /\ call'[z].child # call[q].child
    BY <1>3, <1>4, <2>2
  <2>4. \A r \in Slot \ {z} : call'[r].child = call[r].child
    BY <1>4
  <2>5. UNCHANGED <<call[q], state[q], sz[q], as[q]>> /\ kstack'[q] = kstack[q]
    BY <1>4
  <2> QED
    BY <2>1, <2>3, <2>4, <2>5, OtherKeeps
<1> QED
  BY <1>5, <1>6, <1>7, <1>8 DEF Inv

LEMMA Keeps == ASSUME PageAssumption, ~ GiveUpAll PROVE Inv /\ [Next]_vars => Inv'
<1> SUFFICES ASSUME Inv, [Next]_vars PROVE Inv'
  OBVIOUS
<1>1. CASE UNCHANGED vars
  <2>1. Contents' = Contents
    BY <1>1 DEF vars, Contents, PageIn
  <2>2. TypeOK'
    BY <1>1 DEF vars, Inv, TypeOK
  <2>3. ASSUME NEW p \in Slot PROVE InvAt(p)'
    <3>1. UNCHANGED <<state, sz, kstack, as, call>> /\ InvAt(p)
      BY <1>1 DEF vars, Inv
    <3>2. Shape(call[p])' /\ Sized(p)' /\ Unborn(p)' /\ Kept(p)'
      BY <3>1 DEF InvAt, Sized, Unborn, Kept, At
    <3>3. Progress(p)'
      BY <3>1 DEF InvAt, Progress, Built
    <3>4. Child(p)'
      BY <3>1 DEF InvAt, Child
    <3> QED
      BY <3>2, <3>3, <3>4 DEF InvAt
  <2> QED
    BY <1>1, <2>1, <2>2, <2>3 DEF Inv, vars
<1>2. ASSUME NEW p \in Slot, NEW s \in Slot, Fork(p, s) \/ Wait(p, s) PROVE Inv'
  BY <1>2, ForkStep, WaitStep
<1>3. ASSUME NEW p \in Slot, NEW n \in Image, Exec(p, n) PROVE Inv'
  BY <1>3, ExecStep
<1>4. ASSUME NEW p \in Slot, NEW n \in Grow \cup {-k : k \in Shrink}, Sbrk(p, n) PROVE Inv'
  BY <1>4, SbrkStep
<1>5. ASSUME NEW p \in Slot,
             \/ Kstack(p) \/ Dir(p) \/ Kern(p) \/ NextPage(p) \/ MapPage(p)
             \/ ExecBad(p) \/ Done(p) \/ Exit(p)
      PROVE  Inv'
  BY <1>5, KstackStep, DirStep, KernStep, NextPageStep, MapPageStep, ExecBadStep, DoneStep,
     ExitStep
<1> QED
  BY <1>1, <1>2, <1>3, <1>4, <1>5 DEF Next

\* what the invariant says of pages and sizes
LEMMA InvImplies ==
  ASSUME PageAssumption, Inv PROVE OnePlace /\ SizeIsMapped /\ FailureKeepsMemory
<1>1. OnePlace
  BY OnePlaceIs DEF Inv
<1>2. SizeIsMapped
  <2> SUFFICES ASSUME NEW p \in Slot, At(p, "user")
               PROVE  Mapped(as[p]) = 0 .. Pages(sz[p]) - 1
    BY DEF SizeIsMapped
  <2> QED
    BY StartIs
<1>3. FailureKeepsMemory
  BY DEF FailureKeepsMemory, Inv, InvAt, Kept
<1> QED
  BY <1>1, <1>2, <1>3

\* kalloc.c, vm.c, proc.c, exec.c: no page is lost, given twice or given while somebody
\* has it, wherever a call runs out of memory; outside calls the mapping of a process
\* is that of its size; and a fork(), exec() or growproc() that fails changes nothing
\* of what the process had, unless growproc() was to take all of it
THEOREM MemoryIsInPlace ==
  ASSUME PageAssumption, ~ GiveUpAll
  PROVE  Spec => [](TypeOK /\ OnePlace /\ SizeIsMapped /\ FailureKeepsMemory)
<1>1. Inv => TypeOK /\ OnePlace /\ SizeIsMapped /\ FailureKeepsMemory
  BY InvImplies DEF Inv
<1>2. Init => Inv
  BY Initially
<1>3. Inv /\ [Next]_vars => Inv'
  BY Keeps
<1> QED
  BY <1>1, <1>2, <1>3, PTL DEF Spec
=============================================================================
