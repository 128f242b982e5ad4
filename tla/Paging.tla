------------------------------- MODULE Paging -------------------------------
(***************************************************************************)
(* Demand paging and swapping (Part_B/paging.c, vm.c, kalloc.c): page      *)
(* faults, the choice of a victim, its way to the disk and back, and the   *)
(* copy of an address space by fork.                                       *)
(*                                                                         *)
(* A process changes its own page table only, but the free frames and the  *)
(* swap area belong to everybody, every disk operation sleeps, and another *)
(* CPU may run between any two steps.  A step here is what happens between *)
(* two such points.                                                        *)
(*                                                                         *)
(* The blocks of a swap page are cleared through the log of the file       *)
(* system, but written and given back past it (bwrite).  What is written   *)
(* while a commit is between write_log and install_trans is overwritten by *)
(* install_trans with the older copy in the log.  Commits belong to any    *)
(* process: whoever ends the last transaction, of a file operation too.    *)
(*                                                                         *)
(* Every process has NPAGES pages below one page-table page (growproc only *)
(* raises sz, so pages past the image are there but unmapped); frames for  *)
(* kernel stacks, page tables and pipes are not counted.                   *)
(***************************************************************************)
EXTENDS Naturals, FiniteSets, Functions, TLC

CONSTANTS
  Procs, NPAGES,
  TextPages,     \* exec loads pages 0..TextPages-1; then a guard page and the stack
  Frames,        \* the frames kinit puts on the free list
  NSWAP,         \* pages of the swap area
  Forkers,       \* bound: the processes that call fork
  SwapRoom,      \* bound: programs call swap while fewer pages are in the swap area
  LostRoom,      \* bound: commits are considered while fewer pages are lost or torn
  Zero, Junk, Phys0,   \* contents: cleared; what kfree fills; physical page 0
  Torn,                \* a page with blocks that install_trans has overwritten
  Null

ASSUME SizeAssumption == NPAGES \in Nat /\ TextPages \in Nat /\ TextPages + 2 <= NPAGES
ASSUME SwapAssumption == NSWAP \in Nat /\ LostRoom \in Nat
ASSUME ForkAssumption == Forkers \subseteq Procs
ASSUME NullAssumption == Null \notin Frames \cup Procs \cup Nat

Pages  == 0..NPAGES - 1
Guard  == TextPages
Swap   == 1..NSWAP
Written(p, v) == <<p, v>>      \* what p stores in its page v
Content == (Procs \X Pages) \cup {Zero, Junk, Phys0, Torn}
ASSUME NobodyAssumption == Null \notin [Pages -> Content]

\* A page-table entry: unmapped, or a frame (PTE_P) with or without PTE_U, or a
\* block of the swap area (PTE_SWAPPED).
Entry(kind, at, user) == [kind |-> kind, at |-> at, user |-> user]
Unmapped == Entry("none", Null, FALSE)
Entries  == {Unmapped} \cup [kind : {"frame"}, at : Frames, user : BOOLEAN]
            \cup [kind : {"swap"}, at : Swap, user : {FALSE}]

\* Where a process is: unused, embryo (being forked), user, zombie; in the kernel
\*   alloc   about to kalloc the frame for page va
\*   swap, write, evict   swap_page: choose and balloc_page, write, unmap and kfree
\*   again   the kalloc after swap_page
\*   fill    map_address, or copyuvm for a page in the swap area: fill the frame
\*   bfree   give the blocks back
\*   copy, move   the rest of a turn of copyuvm
\* wrecked: the kernel uses address 0 as the new frame, or a null pte, in its name;
\* what happens to it after that is not modelled.
Kernel == {"alloc", "swap", "write", "evict", "again", "fill", "bfree", "copy", "move"}

VARIABLES
  free,          \* the frames on kmem.freelist
  ram,           \* contents of the frames
  swap,          \* contents of the swap pages in use, as bread returns them
  pte,           \* page tables
  pc,
  call,          \* registers of a kernel call
  forked,        \* the image was made by fork, not by exec
  lh,            \* the swap pages with zeros in the transaction of the log
  copied,        \* a commit is between write_log and install_trans
  past,          \* the swap pages it will undo: written, or given back, past the log
  lost           \* swap pages still marked in the free map after bfree_page

log  == <<lh, copied, past, lost>>
vars == <<free, ram, swap, pte, pc, call, forked, log>>

used == DOMAIN swap

\* va: the page; frame: the new frame; victim; block: its place in the swap area,
\* or blocks to free; src: the entry copyuvm copies; then: where to go with the
\* frame, or return from sys_swap; child: for copyuvm.
Idle == [va |-> 0, frame |-> Null, victim |-> Null, block |-> Null,
         src |-> Unmapped, then |-> "fill", child |-> Null]

Init ==
  /\ free = Frames
  /\ ram = [f \in Frames |-> Junk] /\ swap = <<>>
  /\ pte = [p \in Procs |-> [v \in Pages |-> Unmapped]]
  /\ pc = [p \in Procs |-> "unused"]
  /\ call = [p \in Procs |-> Idle]
  /\ forked = [p \in Procs |-> FALSE]
  /\ lh = {} /\ copied = FALSE /\ past = {} /\ lost = {}

Goto(p, l) == pc' = [pc EXCEPT ![p] = l]

\* Blocks are numbered from 1: the lowest free run of balloc_page.
FreeSwap  == Swap \ (used \cup lost)
FirstFree == CHOOSE b \in FreeSwap : \A d \in FreeSwap : b <= d

\* balloc marks the blocks it has found and clears them.
Marked(b) == [d \in used \cup {b} |-> IF d = b THEN Zero ELSE swap[d]]

-----------------------------------------------------------------------------
(* the log *)

\* balloc_page, as its last balloc ends: eight transactions or more, each with a
\* begin_op that no commit lets through, and a bzero that goes to the log and may
\* still be there (a commit of its own is the next step).  With no room balloc panics.
Balloc ==
  /\ ~copied /\ FreeSwap # {}
  /\ swap' = Marked(FirstFree)
  /\ lh' = lh \cup {FirstFree}
  /\ UNCHANGED <<copied, past, lost>>

Harmed == lost \cup {b \in used : swap[b] = Torn} \cup {f \in Frames : ram[f] = Torn}

\* write_log of a transaction that has the free map and the pages lh in it
WriteLog ==
  /\ ~copied /\ Cardinality(Harmed) < LostRoom
  /\ copied' = TRUE
  /\ UNCHANGED <<free, ram, swap, pte, pc, call, forked, lh, past, lost>>

\* install_trans: the older copies come back, of pages and of bits in the free map
Installed == [b \in used |-> IF b \in past THEN Torn ELSE swap[b]]

Install ==
  /\ copied
  /\ swap' = Installed
  /\ lost' = lost \cup (past \ used)
  /\ lh' = {} /\ copied' = FALSE /\ past' = {}
  /\ UNCHANGED <<free, ram, pte, pc, call, forked>>

-----------------------------------------------------------------------------
(* exec, user mode, exit *)

\* exec of a new image: allocuvm, loaduvm, clearpteu and the arguments on the stack;
\* it does not swap.
Start(p) ==
  /\ pc[p] = "unused"
  /\ \E at \in Injection(0..TextPages + 1, free) :
       /\ pte' = [pte EXCEPT ![p] = [v \in Pages |->
            IF v \in DOMAIN at THEN Entry("frame", at[v], v # Guard) ELSE Unmapped]]
       /\ ram' = [f \in Frames |->
            IF f \notin Range(at) THEN ram[f]
            ELSE LET v == AntiFunction(at)[f]
                 IN  IF v # Guard THEN Written(p, v) ELSE Zero]
       /\ free' = free \ Range(at)
  /\ forked' = [forked EXCEPT ![p] = FALSE]
  /\ Goto(p, "user")
  /\ UNCHANGED <<swap, call, log>>

Accessible(e) == e.kind = "frame" /\ e.user

Write(p, v) ==
  /\ pc[p] = "user" /\ v # Guard /\ Accessible(pte[p][v])
  /\ ram' = [ram EXCEPT ![pte[p][v].at] = Written(p, v)]
  /\ UNCHANGED <<free, swap, pte, pc, call, forked, log>>

\* T_PGFLT: handle_pgfault and map_address
Fault(p, v) ==
  /\ pc[p] = "user" /\ v # Guard /\ ~Accessible(pte[p][v])
  /\ call' = [call EXCEPT ![p].va = v]
  /\ Goto(p, "alloc")
  /\ UNCHANGED <<free, ram, swap, pte, forked, log>>

Exit(p) ==
  /\ pc[p] = "user" /\ Goto(p, "zombie")
  /\ UNCHANGED <<free, ram, swap, pte, call, forked, log>>

\* bfree_page: the free map is written past the log
Release(b) ==
  /\ swap' = Restrict(swap, used \ {b})
  /\ past' = IF copied THEN past \cup {b} ELSE past
  /\ UNCHANGED <<lh, copied, lost>>

\* one turn of deallocuvm, called through freevm by the parent's wait
FreePage(p, v) ==
  /\ pc[p] = "zombie" /\ pte[p][v] # Unmapped
  /\ \A w \in 0..v - 1 : pte[p][w] = Unmapped
  /\ IF pte[p][v].kind = "swap"
     THEN Release(pte[p][v].at) /\ UNCHANGED <<free, ram>>
     ELSE /\ free' = free \cup {pte[p][v].at}
          /\ ram' = [ram EXCEPT ![pte[p][v].at] = Junk]
          /\ UNCHANGED <<swap, log>>
  /\ pte' = [pte EXCEPT ![p][v] = Unmapped]
  /\ UNCHANGED <<pc, call, forked>>

Reap(p) ==
  /\ pc[p] = "zombie" /\ \A v \in Pages : pte[p][v] = Unmapped
  /\ Goto(p, "unused")
  /\ UNCHANGED <<free, ram, swap, pte, call, forked, log>>

-----------------------------------------------------------------------------
(* kalloc and swap_page *)

\* (mutant: two CPUs may be given the same frame)
BadUnlink(f) == free
Unlink(f) == free \ {f}

TakeFrame(p) ==
  /\ \E f \in free : call' = [call EXCEPT ![p].frame = f] /\ free' = Unlink(f)
  /\ Goto(p, call[p].then)

\* the first kalloc, of map_address or of copyuvm
Alloc(p) ==
  /\ pc[p] = "alloc"
  /\ IF free # {} THEN TakeFrame(p)
     ELSE Goto(p, "swap") /\ UNCHANGED <<free, call>>
  /\ UNCHANGED <<ram, swap, pte, forked, log>>

\* select_a_victim skips page 0, and its test of PTE_A is true of every present
\* page: the first one is the victim.
Candidates(p) == {v \in Pages \ {0} : pte[p][v].kind = "frame"}
Victim(p) == CHOOSE v \in Candidates(p) : \A w \in Candidates(p) : v <= w

\* balloc_page
SwapOut(p) ==
  /\ pc[p] = "swap" /\ Candidates(p) # {}
  /\ Balloc
  /\ call' = [call EXCEPT ![p].victim = Victim(p), ![p].block = FirstFree]
  /\ Goto(p, "write")
  /\ UNCHANGED <<free, ram, pte, forked>>

\* swap_page_from_pte(0)
NoVictim(p) ==
  /\ pc[p] = "swap" /\ Candidates(p) = {}
  /\ Goto(p, "wrecked")
  /\ UNCHANGED <<free, ram, swap, pte, call, forked, log>>

\* sys_swap: a page of the program's choice
SysSwap(p, v) ==
  /\ pc[p] = "user" /\ Cardinality(used) < SwapRoom /\ pte[p][v].kind = "frame"
  /\ Balloc
  /\ call' = [call EXCEPT ![p] = [Idle EXCEPT !.victim = v, !.block = FirstFree,
                                             !.then = "return"]]
  /\ Goto(p, "write")
  /\ UNCHANGED <<free, ram, pte, forked>>

\* write_page_to_disk, past the log: write_log copies the page from now on, but a
\* commit that has copied the zeros already will put them back
WritePage(p) ==
  /\ pc[p] = "write"
  /\ swap' = [swap EXCEPT ![call[p].block] = ram[pte[p][call[p].victim].at]]
  /\ past' = past \cup (IF copied THEN lh \cap {call[p].block} ELSE {})
  /\ lh' = lh \ {call[p].block}
  /\ Goto(p, "evict")
  /\ UNCHANGED <<free, ram, pte, call, forked, copied, lost>>

\* the end of swap_page_from_pte
Evict(p) ==
  LET f == pte[p][call[p].victim].at IN
  /\ pc[p] = "evict"
  /\ pte' = [pte EXCEPT ![p][call[p].victim] = Entry("swap", call[p].block, FALSE)]
  /\ free' = free \cup {f}
  /\ ram' = [ram EXCEPT ![f] = Junk]
  /\ IF call[p].then = "return"
     THEN call' = [call EXCEPT ![p] = Idle] /\ Goto(p, "user")
     ELSE call' = [call EXCEPT ![p].victim = Null, ![p].block = Null] /\ Goto(p, "again")
  /\ UNCHANGED <<swap, forked, log>>

\* the second kalloc, whose result nobody tests
Again(p) ==
  /\ pc[p] = "again"
  /\ IF free # {} THEN TakeFrame(p)
     ELSE Goto(p, "wrecked") /\ UNCHANGED <<free, call>>
  /\ UNCHANGED <<ram, swap, pte, forked, log>>

-----------------------------------------------------------------------------
(* map_address and copyuvm *)

\* where a call goes on when its page is there
Back(p) == IF call[p].child = Null THEN "user" ELSE "copy"

\* a fork goes on with its child, a fault is over
Keep(p) == [Idle EXCEPT !.child = call[p].child,
                        !.va = IF call[p].child = Null THEN 0 ELSE call[p].va]

\* read_page_from_disk into the new frame
\* (mutant: the page is mapped without being read)
BadReadPage(p) == [ram EXCEPT ![call[p].frame] = Zero]
ReadPage(p) == [ram EXCEPT ![call[p].frame] = swap[pte[p][call[p].va].at]]

FillSwapped(p) ==
  LET v == call[p].va IN
  /\ pc[p] = "fill" /\ pte[p][v].kind = "swap"
  /\ ram'  = ReadPage(p)
  /\ pte'  = [pte EXCEPT ![p][v] = Entry("frame", call[p].frame, TRUE)]
  /\ call' = [call EXCEPT ![p].frame = Null, ![p].block = pte[p][v].at]
  /\ Goto(p, "bfree")
  /\ UNCHANGED <<free, swap, forked, log>>

\* bfree_page
Bfree(p) ==
  /\ pc[p] = "bfree"
  /\ Release(call[p].block)
  /\ call' = [call EXCEPT ![p] = Keep(p)]
  /\ Goto(p, Back(p))
  /\ UNCHANGED <<free, ram, pte, forked>>

\* memset and mappages: whatever was mapped there is lost
FillZero(p) ==
  LET v == call[p].va IN
  /\ pc[p] = "fill" /\ pte[p][v].kind # "swap"
  /\ ram'  = [ram EXCEPT ![call[p].frame] = Zero]
  /\ pte'  = [pte EXCEPT ![p][v] = Entry("frame", call[p].frame, TRUE)]
  /\ call' = [call EXCEPT ![p] = Keep(p)]
  /\ Goto(p, Back(p))
  /\ UNCHANGED <<free, swap, forked, log>>

Fork(p, c) ==
  /\ pc[p] = "user" /\ pc[c] = "unused"
  /\ call' = [call EXCEPT ![p] = [Idle EXCEPT !.child = c]]
  /\ pc' = [pc EXCEPT ![p] = "copy", ![c] = "embryo"]
  /\ forked' = [forked EXCEPT ![c] = TRUE]
  /\ UNCHANGED <<free, ram, swap, pte, log>>

\* one turn of the loop of copyuvm, up to its first kalloc
Copy(p) ==
  LET e == pte[p][call[p].va] IN
  /\ pc[p] = "copy"
  /\ call' = [call EXCEPT
       ![p] = IF e.kind = "swap" THEN [@ EXCEPT !.then = "fill"]
              ELSE [@ EXCEPT !.then = "move", !.src = e]]
  /\ Goto(p, "alloc")
  /\ UNCHANGED <<free, ram, swap, pte, forked, log>>

\* the loop i < sz of copyuvm (mutant: i <= sz)
BadLastPage(p) == call[p].va = NPAGES
LastPage(p) == call[p].va = NPAGES - 1

\* memmove and mappages: an unmapped page has the address 0 and no flags
Move(p) ==
  LET c == call[p].child
      f == call[p].frame
      src == call[p].src IN
  /\ pc[p] = "move"
  /\ ram' = [ram EXCEPT ![f] = IF src.kind = "frame" THEN ram[src.at] ELSE Phys0]
  /\ pte' = [pte EXCEPT ![c][call[p].va] = Entry("frame", f, src.user)]
  /\ call' = [call EXCEPT
       ![p] = IF LastPage(p) THEN Idle ELSE [Idle EXCEPT !.child = c, !.va = call[p].va + 1]]
  /\ pc' = IF LastPage(p) THEN [pc EXCEPT ![p] = "user", ![c] = "user"] ELSE [pc EXCEPT ![p] = "copy"]
  /\ UNCHANGED <<free, swap, forked, log>>

-----------------------------------------------------------------------------
KernelStep(p) ==
  \/ Alloc(p) \/ SwapOut(p) \/ NoVictim(p) \/ WritePage(p) \/ Evict(p) \/ Again(p)
  \/ FillSwapped(p) \/ Bfree(p) \/ FillZero(p) \/ Copy(p) \/ Move(p)

Next ==
  \/ WriteLog \/ Install
  \/ \E p \in Procs : Start(p) \/ Exit(p) \/ Reap(p) \/ KernelStep(p)
  \/ \E p \in Procs, v \in Pages : Write(p, v) \/ Fault(p, v) \/ SysSwap(p, v) \/ FreePage(p, v)
  \/ \E p \in Forkers, c \in Procs : Fork(p, c)

Spec == Init /\ [][Next]_vars

-----------------------------------------------------------------------------
(* Properties *)

Slots == Procs \X Pages

Typed ==
  /\ free \subseteq Frames
  /\ ram \in [Frames -> Content] /\ used \subseteq Swap /\ swap \in [used -> Content]
  /\ pte \in [Procs -> [Pages -> Entries]]
  /\ pc \in [Procs -> Kernel \cup {"unused", "embryo", "user", "zombie", "wrecked"}]
  /\ call \in [Procs -> [va : Pages, frame : Frames \cup {Null}, victim : Pages \cup {Null},
                         block : Swap \cup {Null}, src : Entries, then : {"fill", "move", "return"},
                         child : Procs \cup {Null}]]
  /\ forked \in [Procs -> BOOLEAN]
LogTyped == lh \subseteq Swap /\ copied \in BOOLEAN /\ past \subseteq Swap /\ lost \subseteq Swap
TypeOK == Typed /\ LogTyped

Mapping(kind, at) == {s \in Slots : LET e == pte[s[1]][s[2]] IN e.kind = kind /\ e.at = at}
Holding(f) == {p \in Procs : call[p].frame = f}
OnFreelist(f) == free \cap {f}

\* kalloc and kfree: a frame is on the free list once, or under one page, or in
\* the hands of one kernel call, whatever two processes do at the same time.
FramesOwnedOnce ==
  \A f \in Frames :
    Cardinality(Mapping("frame", f)) + Cardinality(Holding(f)) + Cardinality(OnFreelist(f)) <= 1

\* balloc_page and bfree_page: the swap pages in use are the ones that one page
\* is in, or that one call is about to fill or to free; those whose bits a commit
\* has put back are nobody's.
InHand(b) == {p \in Procs : call[p].block = b}
SwapAccounted ==
  /\ lost \cap used = {}
  /\ \A b \in Swap :
       Cardinality(Mapping("swap", b)) + Cardinality(InHand(b)) = (IF b \in used THEN 1 ELSE 0)

\* Faults, swaps, forks and exits of all processes together, and the commits that they
\* meet, give no frame and no page of the swap area to two owners, and lose no page of
\* it but by a bfree_page in the middle of a commit.
PagesConserved == TypeOK /\ FramesOwnedOnce /\ SwapAccounted

\* Paging is transparent to a program that exec has started: its pages hold what
\* it wrote, wherever they are, whatever the others do: refinement of UserMemory.
\* Exempt are the pages that write_page_to_disk wrote while a commit had their zeros:
\* install_trans tears them, there or before swap_page_from_pte has set the entry.
Seen(p, v) ==
  LET e == pte[p][v] IN
  IF Accessible(e) THEN ram[e.at] ELSE IF e.kind = "swap" THEN swap[e.at] ELSE Zero
Exposed ==
  {s \in Slots : LET p == s[1]
                     e == pte[p][s[2]] IN
     \/ e.kind = "swap" /\ e.at \in past
     \/ pc[p] = "evict" /\ call[p].victim = s[2] /\ swap[call[p].block] = Torn}
UM == INSTANCE UserMemory WITH
  Nobody <- Null, exposed <- Exposed,
  memory <- [p \in Procs |->
    IF forked[p] \/ pc[p] \in {"unused", "embryo", "zombie", "wrecked"} THEN Null
    ELSE [v \in Pages |-> Seen(p, v)]]
ImplementsMemory == UM!Spec

\* copyuvm: "Given a parent process's page table, create a copy of it for a
\* child."  When fork returns, the child sees what the parent sees.  The code
\* reads the address of the parent's page before a kalloc that may evict it.
ForkCopies ==
  [][\A p, c \in Procs : pc[p] = "move" /\ call[p].child = c /\ pc'[p] = "user" =>
       \A v \in Pages : Seen(c, v)' = Seen(p, v)']_vars

\* map_address, of the kalloc that follows swap_page: "so this time we will get
\* physical page for sure".  Another process may have taken the frame.
SureOfAPage == \A p \in Procs : pc[p] = "again" => free # {}


\* TLC: the frames are alike
FrameSymmetry == Permutations(Frames)
=============================================================================
