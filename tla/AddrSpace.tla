----------------------------- MODULE AddrSpace ------------------------------
(***************************************************************************)
(* The user memory of processes in Assignment-3/Group_3/Part_A (vm.c,      *)
(* exec.c, trap.c, kalloc.c, and fork, wait and growproc of proc.c): page  *)
(* tables, sbrk, exec, fork and the page-fault branch of trap that was     *)
(* added for lazy allocation, when memory runs out anywhere.               *)
(*                                                                         *)
(* A page has PGSIZE bytes and a page-table page NPT entries.  Frames are  *)
(* counted, not named.  A system call is one action: only the number of    *)
(* free frames is shared, and a call may find it at anything.  In the      *)
(* operators m is a page directory under way, with the free frames left,   *)
(* whether all went well, and whether the kernel panicked.                 *)
(***************************************************************************)
EXTENDS Integers, Sequences, FiniteSets, FiniteSetsExt, SequencesExt, Functions, TLC

CONSTANTS Procs, PGSIZE, NPT, NPAGES, FRAMES, KTABLES, Images, Deltas

KERNBASE == PGSIZE * NPAGES
Pages    == 0..NPAGES - 1

VARIABLES
  live, sz, pte, tabs,     \* of a process: "none", "user" or "guard" (no PTE_U); its page-table pages
  frames,                  \* on the free list
  panic, lost,             \* frames nobody owns
  emptied, beyond,         \* processes that gave back all of their memory, or touched the byte at sz
  touched                  \* the guard page was touched

mvars == <<live, sz, pte, tabs, frames, panic, lost, emptied, beyond, touched>>

NoPages   == [a \in Pages |-> "none"]
FirstPage == [NoPages EXCEPT ![0] = "user"]          \* inituvm

\* userinit: the first process has one page; it takes a directory, the kernel's tables,
\* a stack, a page-table page and the page
First == CHOOSE q \in Procs : TRUE
Init ==
  /\ live = {First} /\ sz = [q \in Procs |-> IF q = First THEN PGSIZE ELSE 0]
  /\ pte = [q \in Procs |-> IF q = First THEN FirstPage ELSE NoPages]
  /\ tabs = [q \in Procs |-> IF q = First THEN {0} ELSE {}]
  /\ frames = FRAMES - (4 + KTABLES)
  /\ panic = FALSE /\ lost = 0 /\ emptied = {} /\ beyond = {} /\ touched = FALSE

-----------------------------------------------------------------------------
(* vm.c *)

PageUp(x) == (x + PGSIZE - 1) \div PGSIZE
From(i, j) == [k \in 1..(IF j > i THEN j - i ELSE 0) |-> i + k - 1]

\* walkpgdir(alloc) and mappages, for one page (mutant: *pde is not set)
BadMapPage(m, a, flags) ==
  IF a \div NPT \notin m.tabs /\ m.frames = 0 THEN [m EXCEPT !.ok = FALSE]
  ELSE IF m.pte[a] # "none" THEN [m EXCEPT !.panic = TRUE, !.ok = FALSE] ELSE [m EXCEPT !.pte[a] = flags]
MapPage(m, a, flags) ==
  LET t == a \div NPT IN
  IF t \notin m.tabs /\ m.frames = 0 THEN [m EXCEPT !.ok = FALSE]
  ELSE IF m.pte[a] # "none" THEN [m EXCEPT !.panic = TRUE, !.ok = FALSE]
  ELSE [m EXCEPT !.tabs = @ \cup {t}, !.pte[a] = flags, !.frames = IF t \in m.tabs THEN @ ELSE @ - 1]

\* a frame from kalloc, mapped at a; it is given back when that fails (mutant: it is not)
BadNewPage(m, a, flags) ==
  IF ~m.ok THEN m ELSE IF m.frames = 0 THEN [m EXCEPT !.ok = FALSE]
  ELSE MapPage([m EXCEPT !.frames = @ - 1], a, flags)
NewPage(m, a, flags) ==
  IF ~m.ok THEN m ELSE IF m.frames = 0 THEN [m EXCEPT !.ok = FALSE]
  ELSE LET n == MapPage([m EXCEPT !.frames = @ - 1], a, flags)
       IN  IF n.ok THEN n ELSE [n EXCEPT !.frames = @ + 1]

\* deallocuvm: the pages it gives back (mutant: one too many, when new is inside a page)
BadGiven(old, new) == new \div PGSIZE..PageUp(old) - 1
Given(old, new) == PageUp(new)..PageUp(old) - 1

Dealloc(m, old, new) ==
  LET gone == {a \in Given(old, new) \cap Pages : m.pte[a] # "none"} IN
  IF new >= old THEN m
  ELSE [m EXCEPT !.pte = [a \in Pages |-> IF a \in gone THEN "none" ELSE @[a]], !.frames = @ + Cardinality(gone)]

\* allocuvm; it gives back what it took when it fails (mutant: it does not)
BadAlloc(m, old, new) ==
  IF new >= KERNBASE THEN [m EXCEPT !.ok = FALSE]
  ELSE FoldLeft(LAMBDA k, a : NewPage(k, a, "user"), m, From(PageUp(old), PageUp(new)))
Alloc(m, old, new) ==
  IF new >= KERNBASE THEN [m EXCEPT !.ok = FALSE]
  ELSE LET n == FoldLeft(LAMBDA k, a : NewPage(k, a, "user"), m, From(PageUp(old), PageUp(new)))
       IN  IF n.ok THEN n ELSE Dealloc(n, new, old)

\* setupkvm, and freevm with deallocuvm(pgdir, KERNBASE, 0)
NewDir == [pte |-> NoPages, tabs |-> {}, frames |-> frames - 1 - KTABLES, ok |-> TRUE, panic |-> FALSE]
Freed(m) == Dealloc(m, KERNBASE, 0).frames + Cardinality(m.tabs) + 1 + KTABLES

Mine(p) == [pte |-> pte[p], tabs |-> tabs[p], frames |-> frames, ok |-> TRUE, panic |-> FALSE]

Use(p, m) == pte' = [pte EXCEPT ![p] = m.pte] /\ tabs' = [tabs EXCEPT ![p] = m.tabs]

-----------------------------------------------------------------------------
(* growproc.  n is signed, the sum is not: below zero it is large, which       *)
(* deallocuvm takes for no shrinking.  A size of zero looks like a failure, so *)
(* sz is kept though all the memory is gone.                                   *)

NewSize(p, n) == IF sz[p] + n < 0 THEN sz[p] ELSE sz[p] + n
Grown(p, n) ==
  IF n > 0 THEN Alloc(Mine(p), sz[p], sz[p] + n) ELSE Dealloc(Mine(p), sz[p], NewSize(p, n))

Sbrk(p, n) ==
  LET new == NewSize(p, n) IN
  /\ p \in live /\ ~panic
  /\ \E m \in {Grown(p, n)} :
       /\ Use(p, m) /\ frames' = m.frames /\ panic' = m.panic
       /\ sz' = IF m.ok /\ new # 0 THEN [sz EXCEPT ![p] = new] ELSE sz
  /\ emptied' = IF new = 0 THEN emptied \cup {p} ELSE emptied
  /\ UNCHANGED <<live, lost, beyond, touched>>

-----------------------------------------------------------------------------
(* exec.  An image has segments, loaded or bad, and arguments of args bytes. *)

\* loaduvm: the segment starts on a page, and the file has what the image says
Loaded(s) == s.vaddr % PGSIZE = 0 /\ s.readable

Segment(m, s) ==
  IF ~m.ok \/ s.memsz < s.filesz THEN [m EXCEPT !.ok = FALSE]
  ELSE LET end == s.vaddr + s.memsz
           n == IF end < m.sz THEN m ELSE [Alloc(m, m.sz, end) EXCEPT !.sz = end]
       IN  IF n.sz = 0 \/ ~Loaded(s) THEN [n EXCEPT !.ok = FALSE] ELSE n

\* clearpteu; and copyout of the arguments, which stops at a page without PTE_U
Guarded(m, g) == [m EXCEPT !.pte[g] = "guard"]
CopiedOut(args) == args <= PGSIZE

\* the guard page and the stack page with the arguments
Stack(m, args) ==
  LET g == PageUp(m.sz)  n == Alloc(m, g * PGSIZE, (g + 2) * PGSIZE) IN
  IF ~m.ok \/ ~n.ok THEN [n EXCEPT !.ok = FALSE]
  ELSE [Guarded(n, g) EXCEPT !.sz = (g + 2) * PGSIZE, !.ok = CopiedOut(args)]

Image(x) == LET m == NewDir @@ [sz |-> 0] IN Stack(FoldLeft(Segment, m, x.segs), x.args)

Exec(p, x) ==
  /\ p \in live /\ ~panic
  /\ IF frames <= KTABLES THEN UNCHANGED mvars
     ELSE \E m \in {Image(x)} :
          IF m.ok
          THEN /\ Use(p, m) /\ sz' = [sz EXCEPT ![p] = m.sz]
               /\ frames' = Freed([Mine(p) EXCEPT !.frames = m.frames])
               /\ emptied' = emptied \ {p} /\ beyond' = beyond \ {p}
               /\ UNCHANGED <<live, panic, lost, touched>>
          ELSE frames' = Freed(m) /\ panic' = m.panic /\ UNCHANGED <<live, sz, pte, tabs, lost, emptied, beyond, touched>>

-----------------------------------------------------------------------------
(* fork with copyuvm, and exit with wait *)

CopyPage(p, m, a) ==
  IF m.ok /\ pte[p][a] = "none" THEN [m EXCEPT !.panic = TRUE, !.ok = FALSE] ELSE NewPage(m, a, pte[p][a])

\* a frame for the kernel stack comes first
Fork(p, q) ==
  /\ p \in live /\ q \notin live /\ ~panic
  /\ IF frames <= KTABLES + 1 THEN UNCHANGED mvars
     ELSE \E m \in {FoldLeft(LAMBDA k, a : CopyPage(p, k, a), [NewDir EXCEPT !.frames = @ - 1], From(0, PageUp(sz[p])))} :
          IF m.ok
          THEN /\ Use(q, m) /\ sz' = [sz EXCEPT ![q] = sz[p]] /\ frames' = m.frames /\ live' = live \cup {q}
               /\ emptied' = emptied \ {q} /\ UNCHANGED <<panic, lost, beyond, touched>>
          ELSE /\ frames' = Freed(m) + 1 /\ panic' = m.panic
               /\ UNCHANGED <<live, sz, pte, tabs, lost, emptied, beyond, touched>>

Ended(p) ==
  /\ frames' = Freed(Mine(p)) + 1 /\ live' = live \ {p}
  /\ pte' = [pte EXCEPT ![p] = NoPages] /\ tabs' = [tabs EXCEPT ![p] = {}] /\ sz' = [sz EXCEPT ![p] = 0]
  /\ emptied' = emptied \ {p} /\ beyond' = beyond \ {p}

Exit(p) == p \in live /\ p # First /\ ~panic /\ Ended(p) /\ UNCHANGED <<panic, lost, touched>>

-----------------------------------------------------------------------------
(* A user access to byte x that page tables do not allow, and the T_PGFLT       *)
(* branch of trap (oldsz is never set, so its test is false).  The result of    *)
(* mappages is not looked at.  A process that is killed for want of memory      *)
(* exits at its next interrupt.                                                 *)

\* (mutant: no limit)
BadOutside(p, x) == FALSE
Outside(p, x) == x > sz[p]

Fault(p, x) ==
  LET a == x \div PGSIZE
      m == MapPage([Mine(p) EXCEPT !.frames = @ - 1], a, "user")
  IN
  /\ p \in live /\ ~panic /\ pte[p][a] # "user"
  /\ beyond' = IF x = sz[p] THEN beyond \cup {p} ELSE beyond
  /\ touched' = (touched \/ pte[p][a] = "guard")
  /\ IF Outside(p, x) \/ frames = 0
     THEN /\ p # First /\ frames' = Freed(Mine(p)) + 1 /\ live' = live \ {p}
          /\ pte' = [pte EXCEPT ![p] = NoPages] /\ tabs' = [tabs EXCEPT ![p] = {}] /\ sz' = [sz EXCEPT ![p] = 0]
          /\ emptied' = emptied \ {p} /\ UNCHANGED <<panic, lost>>
     ELSE /\ Use(p, m) /\ frames' = m.frames /\ panic' = m.panic
          /\ lost' = IF m.ok \/ m.panic THEN lost ELSE lost + 1
          /\ UNCHANGED <<live, sz, emptied>>

Next ==
  \E p \in Procs :
    \/ \E n \in Deltas : Sbrk(p, n)
    \/ \E x \in Images : Exec(p, x)
    \/ \E q \in Procs : Fork(p, q)
    \/ Exit(p)
    \/ \E a \in Pages : Fault(p, a * PGSIZE)

Spec == Init /\ [][Next]_mvars

-----------------------------------------------------------------------------
(* Properties *)

Used(p) == Cardinality({a \in Pages : pte[p][a] # "none"}) + Cardinality(tabs[p]) + 2 + KTABLES

\* Whatever fails, every frame is free, or held by one process, or one of those that a
\* fault took and could not map.
FramesConserved == ~panic => frames + lost + FoldSet(LAMBDA p, n : n + Used(p), 0, live) = FRAMES

\* The pages below sz are there, and no others: after every sbrk, exec and fork that
\* succeeds or fails, but for a process that has given back all it had (growproc takes
\* that for a failure) and for the page at sz that a fault has added.
SizeIsMapped ==
  ~panic => \A p \in live : \A a \in Pages :
    /\ a < PageUp(sz[p]) /\ p \notin emptied => pte[p][a] # "none"
    /\ a >= PageUp(sz[p]) /\ p \notin beyond => pte[p][a] = "none"

\* A program can panic this kernel ("remap", "copyuvm: page not present"), but only by
\* touching its guard page, the byte at sz, or by giving back all of its memory.
PanicOnlyBy == panic => touched \/ beyond # {} \/ emptied # {}

\* Pages have their page-table page, and the free list is never overdrawn.
TypeOK ==
  /\ frames \in 0..FRAMES /\ lost \in 0..FRAMES /\ sz \in [Procs -> 0..KERNBASE]
  /\ \A p \in Procs, a \in Pages : pte[p][a] # "none" => a \div NPT \in tabs[p]
=============================================================================
