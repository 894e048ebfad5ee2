----------------------------- MODULE PathNames -----------------------------
(***************************************************************************)
(* skipelem() of fs.c takes a path apart into names of DIRSIZ bytes, which *)
(* end with a NUL only if there is room for it; dirlink() copies a name to *)
(* an entry with strncpy() and dirlookup() finds it with namecmp().  The   *)
(* buffer of the name is used again for each element and starts with what  *)
(* was on the stack.                                                       *)
(***************************************************************************)
EXTENDS Integers, Sequences, SequencesExt, FiniteSets

CONSTANTS
  DIRSIZ,
  MaxPath,       \* bound: the length of a path
  MaxEntries     \* bound: the entries of the directory

PathAssumption == DIRSIZ \in Nat \ {0} /\ MaxPath \in Nat /\ MaxEntries \in Nat

VARIABLES
  path, name,    \* as skipelem() leaves them
  entries,       \* the names in the directory
  whole, taken   \* history: the path that namex() was called with, and its elements so far

vars == <<path, name, entries, whole, taken>>

NUL   == "nul"
Char  == {"a", "b"}
Byte  == 1 .. DIRSIZ
Name  == [Byte -> Char \cup {NUL}]
Path  == SeqOf(Char \cup {"/"}, MaxPath)

Init ==
  /\ path = <<>> /\ whole = <<>> /\ taken = <<>>
  /\ name \in Name
  /\ entries = <<>>

-----------------------------------------------------------------------------
(* string.c *)

\* the bytes before the n-th are not the end
Before(s, n) == \A k \in 1 .. n - 1 : s[k] # NUL

strncmp(s, t) == \A n \in Byte : Before(s, n) /\ (\A k \in 1 .. n - 1 : s[k] = t[k]) => s[n] = t[n]

strncpy(s) == [n \in Byte |-> IF Before(s, n) THEN s[n] ELSE NUL]

\* memmove() of len bytes to the start of the buffer
memmove(to, s, len) == [n \in Byte |-> IF n <= len THEN s[n] ELSE to[n]]

-----------------------------------------------------------------------------
(* fs.c *)

NoSlashes(s) == LET n == {k \in DOMAIN s : s[k] # "/"} IN
                SubSeq(s, CHOOSE k \in n \cup {Len(s) + 1} : \A j \in n : k <= j, Len(s))

\* the bytes up to the next slash
Element(s) == SelectInSeq(s \o <<"/">>, LAMBDA c : c = "/") - 1

\* mutant: the NUL is left out
NotEnded(to, s, len) == memmove(to, s, len)
Ended(to, s, len)    == [memmove(to, s, len) EXCEPT ![len + 1] = NUL]

\* mutant: the slashes after the element stay
WithSlashes(s) == s
Rest(s)        == NoSlashes(s)

skipelem ==
  LET s   == NoSlashes(path)
      len == Element(s) IN
  /\ s # <<>>
  /\ name' = IF len >= DIRSIZ THEN memmove(name, s, DIRSIZ) ELSE Ended(name, s, len)
  /\ path' = Rest(SubSeq(s, len + 1, Len(s)))
  /\ taken' = Append(taken, SubSeq(s, 1, len))
  /\ UNCHANGED <<entries, whole>>

\* a call of namex() with another path
namex ==
  /\ NoSlashes(path) = <<>>
  /\ \E p \in Path : path' = p /\ whole' = p
  /\ taken' = <<>>
  /\ UNCHANGED <<name, entries>>

\* mutant: what follows the NUL is compared as well
AllBytes(s, t) == s = t
namecmp(s, t)  == strncmp(s, t)

dirlookup == {n \in DOMAIN entries : namecmp(name, entries[n])}

\* dirlink() of the last name of a path
dirlink ==
  /\ path = <<>> /\ taken # <<>> /\ dirlookup = {}
  /\ Len(entries) < MaxEntries
  /\ entries' = Append(entries, strncpy(name))
  /\ UNCHANGED <<path, name, whole, taken>>

Next == skipelem \/ namex \/ dirlink

Spec == Init /\ [][Next]_vars

-----------------------------------------------------------------------------
\* the elements of a path: the longest parts without a slash
RECURSIVE Elements(_)
Elements(p) ==
  LET s == NoSlashes(p) IN
  IF s = <<>> THEN <<>>
  ELSE <<SubSeq(s, 1, Element(s))>> \o Elements(SubSeq(s, Element(s) + 1, Len(s)))

Short(s) == SubSeq(s, 1, IF Len(s) < DIRSIZ THEN Len(s) ELSE DIRSIZ)

\* the string that a name stands for
Text(s) == SelectSeq(strncpy(s), LAMBDA c : c # NUL)

\* skipelem() goes through the elements in order, and whether the rest of the path
\* is empty tells if it has taken the last one
ElementsInOrder ==
  /\ taken \o Elements(path) = Elements(whole)
  /\ taken # <<>> => (path = <<>> <=> Len(taken) = Len(Elements(whole)))

\* the name is the element, cut to DIRSIZ bytes, whatever the buffer held before, and
\* the lookup finds the entry of that name and no other
FindsByElement ==
  taken # <<>> =>
    /\ Text(name) = Short(Last(taken))
    /\ dirlookup = {n \in DOMAIN entries : Text(entries[n]) = Short(Last(taken))}

\* no two entries stand for the same name
NamesDiffer == \A m, n \in DOMAIN entries : Text(entries[m]) = Text(entries[n]) => m = n
=============================================================================
