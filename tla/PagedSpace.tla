----------------------------- MODULE PagedSpace -----------------------------
(***************************************************************************)
(* The user memory of processes in Part_B (vm.c, paging.c, exec.c, and     *)
(* fork, wait and growproc of proc.c): page-table pages, the size of a     *)
(* process, exec and fork, when frames run out anywhere and pages go to    *)
(* the swap area.                                                          *)
(*                                                                         *)
(* Paging has the steps between which other CPUs come; here a system call  *)
(* or a fault is one action, and frames and pages of the swap area are     *)
(* counted, not named.  A page has PGSIZE bytes and a page-table page NPT  *)
(* entries.  In the operators m is a page directory under way, with what   *)
(* is left of frames and swap pages, whether all went well, and where the  *)
(* kernel stopped.  Addresses are below KERNBASE.                          *)
(***************************************************************************)
EXTENDS Integers, Sequences, FiniteSets, FiniteSetsExt, SequencesExt, TLC

CONSTANTS Procs, PGSIZE, NPT, NPAGES, FRAMES, NSWAP, KTABLES, Images, Deltas

KERNBASE == PGSIZE * NPAGES
Pages    == 0..NPAGES - 1

VARIABLES
  live, sz, tabs,
  pte,                     \* "none", "user", "kernel" (a frame without PTE_U), "swapped"
  frames, blocks,          \* on the free list; free pages of the swap area
  numallocblocks,
  lost,                    \* frames nobody owns
  stop,                    \* where the kernel went on with nothing, or panicked
  grown                    \* processes whose size has passed their page-table pages

psvars == <<live, sz, tabs, pte, frames, blocks, numallocblocks, lost, stop, grown>>

NoPages == [a \in Pages |-> "none"]

\* userinit and inituvm: one page; a directory, the kernel's tables, a stack, a table
First == CHOOSE q \in Procs : TRUE
Init ==
  /\ live = {First} /\ sz = [q \in Procs |-> IF q = First THEN PGSIZE ELSE 0]
  /\ pte = [q \in Procs |-> IF q = First THEN [NoPages EXCEPT ![0] = "user"] ELSE NoPages]
  /\ tabs = [q \in Procs |-> IF q = First THEN {0} ELSE {}]
  /\ frames = FRAMES - (4 + KTABLES) /\ blocks = NSWAP /\ numallocblocks = 0
  /\ lost = 0 /\ stop = "no" /\ grown = {}

-----------------------------------------------------------------------------
(* vm.c and paging.c on a page directory *)

PageUp(x) == (x + PGSIZE - 1) \div PGSIZE
From(i, j) == [k \in 1..(IF j > i THEN j - i ELSE 0) |-> i + k - 1]
Present(e) == e \in {"user", "kernel"}

Dir(q) == [pte |-> pte[q], tabs |-> tabs[q], frames |-> frames, blocks |-> blocks,
           num |-> numallocblocks, lost |-> lost, ok |-> TRUE, stop |-> "no"]
Stopped(m, why) == [m EXCEPT !.ok = FALSE, !.stop = why]

\* mappages of vm.c for one page of a new directory; walkpgdir makes the page-table page
MapPage(m, a, flags) ==
  LET t == a \div NPT IN
  IF t \in m.tabs THEN [m EXCEPT !.pte[a] = flags]
  ELSE IF m.frames = 0 THEN [m EXCEPT !.ok = FALSE]
  ELSE [m EXCEPT !.tabs = @ \cup {t}, !.frames = @ - 1, !.pte[a] = flags]

\* select_a_victim never takes page 0, and any present page after it
Victims(m) == {a \in Pages \ {0} : Present(m.pte[a])}

\* swap_page_from_pte, with balloc_page (mutant: the page of the swap area is not counted)
BadPageOut(m, a) == [m EXCEPT !.pte[a] = "swapped", !.frames = @ + 1, !.num = @ + 1]
PageOut(m, a) ==
  IF m.blocks = 0 THEN Stopped(m, "balloc: out of blocks")
  ELSE [m EXCEPT !.pte[a] = "swapped", !.frames = @ + 1, !.blocks = @ - 1, !.num = @ + 1]

SwapPage(m) == IF Victims(m) = {} THEN Stopped(m, "null pte") ELSE PageOut(m, Min(Victims(m)))

\* kalloc, after swap_page if it must be
TakeFrame(m) ==
  LET n == IF m.frames = 0 THEN SwapPage(m) ELSE m IN IF n.ok THEN [n EXCEPT !.frames = @ - 1] ELSE n

\* read_page_from_disk into a frame at hand, and bfree_page (mutant: the blocks stay taken)
BadPageIn(m, a) == [m EXCEPT !.pte[a] = "user"]
PageIn(m, a) == [m EXCEPT !.pte[a] = "user", !.blocks = @ + 1, !.num = @ - 1]

\* deallocuvm of what there is, from page first on
Dealloc(m, first) ==
  LET gone == {a \in Pages : a >= first}
      Those(P(_)) == Cardinality({a \in gone : P(m.pte[a])})
      swapped == Those(LAMBDA e : e = "swapped")
  IN  [m EXCEPT !.pte = [a \in Pages |-> IF a \in gone THEN "none" ELSE @[a]],
                !.frames = @ + Those(Present), !.blocks = @ + swapped, !.num = @ - swapped]

\* freevm
Freed(m) == LET n == Dealloc(m, 0) IN [n EXCEPT !.frames = @ + Cardinality(m.tabs) + 1 + KTABLES, !.tabs = {}]

Use(q, m)  == pte' = [pte EXCEPT ![q] = m.pte] /\ tabs' = [tabs EXCEPT ![q] = m.tabs]
Count(m)   == frames' = m.frames /\ blocks' = m.blocks /\ numallocblocks' = m.num /\ lost' = m.lost /\ stop' = m.stop
Running(q) == q \in live /\ stop = "no"

-----------------------------------------------------------------------------
(* sys_sbrk: growproc only raises the size *)

Room(q, n) == n >= 0 /\ sz[q] + n <= KERNBASE
Untabled(q, bytes) == \E a \in 0..PageUp(bytes) - 1 : a \div NPT \notin tabs[q]

Sbrk(q, n) ==
  /\ Running(q) /\ Room(q, n)
  /\ sz' = [sz EXCEPT ![q] = @ + n]
  /\ grown' = IF Untabled(q, sz[q] + n) THEN grown \cup {q} ELSE grown
  /\ UNCHANGED <<live, tabs, pte, frames, blocks, numallocblocks, lost, stop>>

-----------------------------------------------------------------------------
(* The page fault: handle_pgfault and map_address.  No address is refused.     *)
(* Where there is no page-table page the frame is taken and nothing is mapped; *)
(* where a frame is mapped without PTE_U, mappages of paging.c maps over it.   *)

MapAddress(m, a) ==
  LET n == TakeFrame(m) IN
  IF ~n.ok THEN n
  ELSE IF a \div NPT \notin n.tabs THEN [n EXCEPT !.lost = @ + 1]
  ELSE IF n.pte[a] = "swapped" THEN PageIn(n, a)
  ELSE [n EXCEPT !.pte[a] = "user", !.lost = IF n.pte[a] = "kernel" THEN @ + 1 ELSE @]

Fault(q, a) ==
  /\ Running(q) /\ pte[q][a] # "user"
  /\ \E m \in {MapAddress(Dir(q), a)} : Use(q, m) /\ Count(m)
  /\ UNCHANGED <<live, sz, grown>>

\* sys_swap: walkpgdir makes a page-table page if there is none, or returns 0
SysSwap(q, a) ==
  LET m == IF a \div NPT \in tabs[q] THEN Dir(q)
           ELSE IF frames = 0 THEN Stopped(Dir(q), "null pte")
           ELSE [Dir(q) EXCEPT !.tabs = @ \cup {a \div NPT}, !.frames = @ - 1]
  IN
  /\ Running(q)
  /\ \E n \in {IF m.ok /\ Present(m.pte[a]) THEN PageOut(m, a) ELSE m} : Use(q, n) /\ Count(n)
  /\ UNCHANGED <<live, sz, grown>>

-----------------------------------------------------------------------------
(* exec: it never swaps *)

\* one page of allocuvm; its frame is given back when mappages fails (mutant: it is not)
BadNewPage(m, a) ==
  IF ~m.ok \/ m.frames = 0 THEN [m EXCEPT !.ok = FALSE] ELSE MapPage([m EXCEPT !.frames = @ - 1], a, "user")
NewPage(m, a) ==
  IF ~m.ok \/ m.frames = 0 THEN [m EXCEPT !.ok = FALSE]
  ELSE LET n == MapPage([m EXCEPT !.frames = @ - 1], a, "user") IN IF n.ok THEN n ELSE [n EXCEPT !.frames = @ + 1]

Alloc(m, old, new) ==
  IF ~m.ok \/ new >= KERNBASE THEN [m EXCEPT !.ok = FALSE]
  ELSE LET n == FoldLeft(NewPage, m, From(PageUp(old), PageUp(new))) IN IF n.ok THEN n ELSE Dealloc(n, PageUp(old))

\* an image has size bytes of segments; good is whether they can be read and the arguments fit
Image(x) ==
  LET top == PageUp(x.size)
      e == [Dir(First) EXCEPT !.pte = NoPages, !.tabs = {}, !.frames = @ - 1 - KTABLES]
      m == Alloc(Alloc(e, 0, x.size), top * PGSIZE, (top + 2) * PGSIZE)
  IN  IF m.ok THEN [m EXCEPT !.pte[top] = "kernel", !.ok = x.good] ELSE m

\* the old directory goes when the new one is in use; without the frames of setupkvm exec
\* fails and changes nothing
Exec(q, x) ==
  /\ Running(q) /\ frames > KTABLES
  /\ \E m \in {Image(x)} :
     IF m.ok
     THEN /\ Use(q, m) /\ \E old \in {Freed([Dir(q) EXCEPT !.frames = m.frames])} : Count(old)
          /\ sz' = [sz EXCEPT ![q] = (PageUp(x.size) + 2) * PGSIZE]
          /\ grown' = grown \ {q} /\ UNCHANGED live
     ELSE Count(Freed(m)) /\ UNCHANGED <<live, sz, tabs, pte, grown>>

-----------------------------------------------------------------------------
(* fork: copyuvm reads the pages of the parent back in one after the other, and *)
(* swaps pages of the parent out; the child's are in kid, kidtabs.              *)

\* mappages for the child; when it fails the new frame is forgotten
MapCopy(m, a, flags) ==
  LET t == a \div NPT IN
  IF t \notin m.kidtabs /\ m.frames = 0 THEN [m EXCEPT !.ok = FALSE, !.lost = @ + 1]
  ELSE [m EXCEPT !.kid[a] = flags, !.kidtabs = @ \cup {t}, !.frames = IF t \in m.kidtabs THEN @ ELSE @ - 1]

\* a page that is not there is copied from address 0, without PTE_U
Flags(e) == IF e = "user" THEN "user" ELSE "kernel"

CopyPage(m, a) ==
  IF ~m.ok THEN m
  ELSE IF a \div NPT \notin m.tabs THEN Stopped(m, "copyuvm: pte should exist")
  ELSE LET n == IF m.pte[a] # "swapped" THEN m
                ELSE LET f == TakeFrame(m) IN IF f.ok THEN PageIn(f, a) ELSE f
           k == IF n.ok THEN TakeFrame(n) ELSE n
       IN  IF k.ok THEN MapCopy(k, a, Flags(n.pte[a])) ELSE k

\* (mutant: without the page that the size ends in)
BadCopied(q) == From(0, sz[q] \div PGSIZE)
Copied(q) == From(0, PageUp(sz[q]))
Copy(q) ==
  LET m == [Dir(q) EXCEPT !.frames = @ - 2 - KTABLES] @@ [kid |-> NoPages, kidtabs |-> {}]
  IN  FoldLeft(CopyPage, m, Copied(q))

\* the child's directory alone, to free it; its kernel stack comes back, too (without the
\* frames of allocproc and setupkvm fork fails and changes nothing)
Undone(m) == [Freed([m EXCEPT !.pte = m.kid, !.tabs = m.kidtabs]) EXCEPT !.frames = @ + 1]

Fork(q, c) ==
  /\ Running(q) /\ c \notin live /\ frames >= 2 + KTABLES
  /\ \E m \in {Copy(q)} :
     IF m.ok
     THEN /\ Count(m) /\ pte' = [pte EXCEPT ![q] = m.pte, ![c] = m.kid]
          /\ tabs' = [tabs EXCEPT ![c] = m.kidtabs] /\ sz' = [sz EXCEPT ![c] = sz[q]]
          /\ live' = live \cup {c} /\ UNCHANGED grown
     ELSE Count(Undone(m)) /\ pte' = [pte EXCEPT ![q] = m.pte] /\ UNCHANGED <<live, sz, tabs, grown>>

\* exit, and freevm by wait
Exit(q) ==
  /\ Running(q) /\ q # First
  /\ \E m \in {Freed(Dir(q))} : Count([m EXCEPT !.frames = @ + 1]) /\ Use(q, m)
  /\ live' = live \ {q} /\ sz' = [sz EXCEPT ![q] = 0] /\ grown' = grown \ {q}

Next ==
  \E q \in Procs :
    \/ \E n \in Deltas : Sbrk(q, n)
    \/ \E x \in Images : Exec(q, x)
    \/ \E c \in Procs : Fork(q, c)
    \/ Exit(q)
    \/ \E a \in Pages : Fault(q, a) \/ SysSwap(q, a)

Spec == Init /\ [][Next]_psvars

-----------------------------------------------------------------------------
(* Properties *)

\* Pages have their page-table page, and neither frames nor swap pages are overdrawn.
TypeOK ==
  /\ frames \in 0..FRAMES /\ blocks \in 0..NSWAP /\ lost \in 0..FRAMES /\ sz \in [Procs -> 0..KERNBASE]
  /\ \A q \in Procs, a \in Pages : pte[q][a] # "none" => a \div NPT \in tabs[q]

Total(Of(_)) == FoldSet(LAMBDA q, n : n + Of(q), 0, live)
Used(q) == Cardinality({a \in Pages : Present(pte[q][a])}) + Cardinality(tabs[q]) + 2 + KTABLES

\* Whatever fails and whatever is swapped, every frame is free or held by one process, but
\* for those that a fault takes where it can map nothing or maps over another, and the one
\* in the hand of copyuvm when the child gets no page-table page.
FramesConserved == stop = "no" => frames + lost + Total(Used) = FRAMES

\* sys_bstat "returns the number of swapped pages", and each of them has its own blocks.
BstatExact ==
  LET Swapped(q) == Cardinality({a \in Pages : pte[q][a] = "swapped"})
  IN  stop = "no" => numallocblocks = Total(Swapped) /\ blocks + numallocblocks = NSWAP

\* What exec and fork make has a page-table page for every page of its size, however pages
\* are swapped meanwhile; so copyuvm ("pte should exist") panics only after an sbrk.
StopsOnlyBy ==
  /\ stop = "copyuvm: pte should exist" => grown # {}
  /\ \A q \in live \ grown : ~Untabled(q, sz[q])
=============================================================================
