-------------------------------- MODULE Boot --------------------------------
(***************************************************************************)
(* main.c, kalloc.c and mp.c: how the machine comes up.  The boot CPU puts *)
(* the pages of the first 4 MB on the free list, reads the processor table *)
(* of the firmware, starts the other CPUs one after the other through one  *)
(* mailbox below the entry code, frees the rest of memory, makes the first *)
(* process, and joins the other CPUs in scheduler().                       *)
(*                                                                         *)
(* Addresses: PGSIZE bytes to a page, the kernel ends at KEND, entrypgdir  *)
(* maps the addresses below LOW (4 MB), memory ends at PHYSTOP.  Processes *)
(* allocate at most MaxAllocs pages.                                       *)
(***************************************************************************)
EXTENDS Naturals, Sequences, FiniteSets, SequencesExt

CONSTANTS Cpus, BootCpu, NCPU, Firmwares, PGSIZE, KEND, LOW, PHYSTOP, MaxAllocs, NoPage

VARIABLES
  stage, entries, cpus, starting,      \* main(): where, rest of the table, cpus[], c of startothers
  free, counted, initial, useLock,     \* kmem.freelist, currentFreePagesNo, initPagesNo
  mailbox,                             \* code - 4
  core, stack, started,                \* each CPU
  used, ready, allocs                  \* pages handed out, initcode is RUNNABLE

bootvars == <<stage, entries, cpus, starting, free, counted, initial, useLock, mailbox,
              core, stack, started, used, ready, allocs>>

mainvars == <<stage, entries, cpus, starting, ready>>
memvars  == <<free, counted, initial, useLock, used, allocs>>
corevars == <<mailbox, core, stack, started>>

Init ==
  /\ stage = "kinit1" /\ entries = <<>> /\ cpus = <<>> /\ starting = 0
  /\ free = <<>> /\ counted = 0 /\ initial = 0 /\ useLock = FALSE
  /\ mailbox = NoPage
  /\ core = [c \in Cpus |-> IF c = BootCpu THEN "main" ELSE "off"]
  /\ stack = [c \in Cpus |-> NoPage] /\ started = [c \in Cpus |-> FALSE]
  /\ used = {} /\ ready = FALSE /\ allocs = 0

-----------------------------------------------------------------------------
(* The page allocator.                                                     *)

RoundUp(a)   == ((a + PGSIZE - 1) \div PGSIZE) * PGSIZE
RoundDown(a) == (a \div PGSIZE) * PGSIZE

\* freerange (mutant: the last page may stick out)
BadPages(from, to) == {a \in RoundUp(from)..to : a % PGSIZE = 0 /\ a < to}
Pages(from, to) == {a \in RoundUp(from)..to : a % PGSIZE = 0 /\ a + PGSIZE <= to}

Sane(a) == a % PGSIZE = 0 /\ a >= KEND /\ a < PHYSTOP     \* else panic "kfree"

\* freerange and the count of kinit1 and kinit2: the last page freed is the first of the list
Freerange(from, to) ==
  /\ \A a \in Pages(from, to) : Sane(a)
  /\ free' = Reverse(SetToSortSeq(Pages(from, to), <)) \o free
  /\ counted' = counted + Cardinality(Pages(from, to))
  /\ initial' = initial + (RoundDown(to) - RoundUp(from)) \div PGSIZE

\* kalloc; nobody else allocates while there is no lock: UnlockedAlone
Kalloc(page) ==
  /\ free # <<>> /\ page = Head(free) /\ free' = Tail(free)
  /\ used' = used \union {page}
  /\ counted' = counted - 1 /\ UNCHANGED initial

Kinit1 ==
  /\ stage = "kinit1" /\ stage' = "kvmalloc"
  /\ Freerange(KEND, LOW) /\ useLock' = FALSE
  /\ UNCHANGED <<entries, cpus, starting, ready, corevars, used, allocs>>

\* kvmalloc: the kernel's page directory, of one page here
Kvmalloc ==
  /\ stage = "kvmalloc" /\ stage' = "mpinit"
  /\ \E page \in ToSet(free) : Kalloc(page)
  /\ UNCHANGED <<entries, cpus, starting, ready, corevars, useLock, allocs>>

-----------------------------------------------------------------------------
(* mp.c: the firmware's table.  A firmware has the pointer to its extended *)
(* BIOS data area or not, and in each region the structures that begin     *)
(* with _MP_: the sum of its bytes, and the address and contents of its    *)
(* table.                                                                  *)

\* mpsearch1
Found(mps) == SelectSeq(mps, LAMBDA mp : mp.sum = 0)

Mpsearch(fw) ==
  LET first == IF fw.hasEbda THEN Found(fw.ebda) ELSE Found(fw.base)
  IN first \o Found(fw.bios)

\* mpconfig: the first structure found counts, even when another has a better table
Usable(mps) ==
  /\ mps # <<>>
  /\ Head(mps).physaddr # 0
  /\ LET conf == Head(mps).conf IN
     conf.signed /\ conf.version \in {1, 4} /\ conf.sum = 0

Mpconfig ==
  /\ stage = "mpinit"
  /\ \E fw \in Firmwares :
       LET mps == Mpsearch(fw) IN
       IF Usable(mps)
       THEN stage' = "table" /\ entries' = Head(mps).conf.entries
       ELSE stage' = "panic" /\ UNCHANGED entries        \* Expect to run on an SMP
  /\ UNCHANGED <<cpus, starting, ready, corevars, memvars>>

\* one turn of the loop of mpinit; at an entry of a kind it does not know, p stays
\* where it is and the loop never ends (mutant: one CPU too many)
BadRoom == Len(cpus) <= NCPU
Room == Len(cpus) < NCPU
Entry ==
  /\ stage = "table" /\ entries # <<>>
  /\ LET e == Head(entries) IN
     /\ entries' = IF e.kind = "unknown" THEN entries ELSE Tail(entries)
     /\ cpus' = IF e.kind = "proc" /\ Room THEN Append(cpus, e.apicid) ELSE cpus
  /\ UNCHANGED <<stage, starting, ready, corevars, memvars>>

\* seginit is the first to ask for mycpu()
EndOfTable ==
  /\ stage = "table" /\ entries = <<>>
  /\ stage' = IF BootCpu \in ToSet(cpus) THEN "startothers" ELSE "panic"   \* unknown apicid
  /\ starting' = 1
  /\ UNCHANGED <<entries, cpus, ready, corevars, memvars>>

-----------------------------------------------------------------------------
(* startothers and the CPUs it starts.                                     *)

Others == stage = "startothers" /\ starting <= Len(cpus)

SkipSelf ==
  /\ Others /\ cpus[starting] = BootCpu /\ starting' = starting + 1
  /\ UNCHANGED <<stage, entries, cpus, ready, corevars, memvars>>

\* kalloc the stack, write the mailbox
AllocStack ==
  /\ Others /\ cpus[starting] # BootCpu
  /\ \E page \in ToSet(free) : Kalloc(page) /\ mailbox' = page
  /\ stage' = "start"
  /\ UNCHANGED <<entries, cpus, starting, ready, core, stack, started, useLock, allocs>>

\* lapicstartap: INIT, then STARTUP twice; a CPU that is not waiting for it ignores one
Lapicstartap ==
  /\ stage = "start" /\ stage' = "wait"
  /\ core' = [core EXCEPT ![cpus[starting]] = "entry"]
  /\ UNCHANGED <<entries, cpus, starting, ready, mailbox, stack, started, memvars>>

\* while(c->started == 0) (mutant: does not wait)
BadIsUp(c) == TRUE
IsUp(c) == started[c]
WaitStarted ==
  /\ stage = "wait" /\ IsUp(cpus[starting])
  /\ stage' = "startothers" /\ starting' = starting + 1
  /\ UNCHANGED <<entries, cpus, ready, corevars, memvars>>

\* entryother.S: still with entrypgdir, takes its stack from the mailbox
EntryOther(c) ==
  /\ core[c] = "entry" /\ core' = [core EXCEPT ![c] = "mpenter"]
  /\ stack' = [stack EXCEPT ![c] = mailbox]
  /\ UNCHANGED <<mainvars, memvars, mailbox, started>>

\* mpenter: switchkvm, and mpmain
Mpmain(c) ==
  /\ core[c] = "mpenter" /\ core' = [core EXCEPT ![c] = "scheduler"]
  /\ started' = [started EXCEPT ![c] = TRUE]
  /\ UNCHANGED <<mainvars, memvars, mailbox, stack>>

-----------------------------------------------------------------------------
(* The rest of main, and what the CPUs then do.                            *)

\* main calls kinit2 when startothers is done (mutant: before)
BadKinit2Due == stage = "startothers" /\ ~useLock /\ starting = 1
Kinit2Due == stage = "startothers" /\ starting > Len(cpus)

\* kmem.use_lock at the end of kinit2 (mutant: never set)
BadLocking == FALSE
Locking == TRUE
Kinit2 ==
  /\ Kinit2Due
  /\ Freerange(LOW, PHYSTOP) /\ useLock' = Locking
  /\ stage' = IF starting > Len(cpus) THEN "userinit" ELSE stage
  /\ UNCHANGED <<entries, cpus, starting, ready, corevars, used, allocs>>

Userinit ==
  /\ stage = "userinit" /\ stage' = "mpmain"
  /\ \E page \in ToSet(free) : Kalloc(page)
  /\ ready' = TRUE
  /\ UNCHANGED <<entries, cpus, starting, corevars, useLock, allocs>>

BootMpmain ==
  /\ stage = "mpmain" /\ stage' = "done"
  /\ core' = [core EXCEPT ![BootCpu] = "scheduler"]
  /\ started' = [started EXCEPT ![BootCpu] = TRUE]
  /\ UNCHANGED <<entries, cpus, starting, ready, mailbox, stack, memvars>>

\* a CPU picks initcode or a process it forked; the process allocates a page
Schedule(c) ==
  /\ core[c] = "scheduler" /\ ready /\ core' = [core EXCEPT ![c] = "process"]
  /\ UNCHANGED <<mainvars, memvars, mailbox, stack, started>>

ProcessAlloc(c) ==
  /\ core[c] = "process" /\ allocs < MaxAllocs /\ allocs' = allocs + 1
  /\ \E page \in ToSet(free) : Kalloc(page)
  /\ UNCHANGED <<mainvars, corevars, useLock>>

Main ==
  \/ Kinit1 \/ Kvmalloc \/ Mpconfig \/ Entry \/ EndOfTable
  \/ SkipSelf \/ AllocStack \/ Lapicstartap \/ WaitStarted
  \/ Kinit2 \/ Userinit \/ BootMpmain

Ap(c) == EntryOther(c) \/ Mpmain(c)

Next == Main \/ \E c \in Cpus : Ap(c) \/ Schedule(c) \/ ProcessAlloc(c)

Spec == Init /\ [][Next]_bootvars

-----------------------------------------------------------------------------

\* Every page is either free, once, or handed out, and the counters of free and initial
\* pages tell how many there are.
TypeOK ==
  /\ Len(cpus) <= NCPU /\ starting <= NCPU + 1
  /\ \A c \in Cpus : core[c] \in {"off", "main", "entry", "mpenter", "scheduler", "process"}
  /\ counted = Len(free) /\ counted <= initial
  /\ IsInjective(free) /\ ToSet(free) \intersect used = {}
  /\ initial = Len(free) + Cardinality(used)

\* No two CPUs get the same stack, though all of them read it at the same place
\* (code - 4 in startothers): it is rewritten only when the last one is up.
OwnStacks ==
  \A c \in Cpus :
    core[c] \in {"mpenter", "scheduler", "process"} /\ c # BootCpu
      => stack[c] \in used /\ \A d \in Cpus \ {c} : stack[d] # stack[c]

\* A CPU that still runs on entrypgdir, which maps the first 4 MB, has its stack there:
\* kinit2 "must come after startothers()" (main.c:34).
StackMapped == \A c \in Cpus : core[c] = "mpenter" => stack[c] + PGSIZE <= LOW

\* The allocator takes no lock before kinit2: until then no CPU but the boot CPU may run a
\* process, which would allocate.
UnlockedAlone == ~useLock => \A c \in Cpus : core[c] # "process"

\* startothers waits for none in vain (a CPU it waits for is on its way up), and main goes
\* on only when every CPU of the table is up.
AllCpusUp ==
  /\ stage = "wait" => core[cpus[starting]] \in {"entry", "mpenter"} \/ started[cpus[starting]]
  /\ stage \in {"userinit", "mpmain", "done"} => \A i \in DOMAIN cpus : cpus[i] # BootCpu => started[cpus[i]]
=============================================================================
