---------------------------- MODULE KernelParts ----------------------------
(***************************************************************************)
(* The parts of the kernel that are proved without a run of their own:     *)
(* the disk with either driver, the swap area, the three schedulers of     *)
(* Assignment 2, sleep, the console, printing, the arguments of system     *)
(* calls, and the memory of a user program, for any sizes.                 *)
(*                                                                         *)
(* They have no state in common in the models: part says which one moves   *)
(* in a behaviour, and the others stay in their initial state.  A property *)
(* of a part is asked only where that part moves.  Module MCKernel adds    *)
(* the other modules and gives the sizes; KernelProofs, SchedProofs and    *)
(* ConsoleProofs have the proofs.                                          *)
(***************************************************************************)
EXTENDS Integers, Sequences, FiniteSets

CONSTANTS
  NoProc, NoBlock, NoBuf, NoValue,                                  \* no process, block, ...
  DiskProcs, NBUF, DiskBlocks, DiskValues, DiskJobs,                \* of Disk
  MaxPinned, MaxFail, DiskCalls,
  Filers, Swappers, NBLOCKS, RUN, LOGSIZE, MAXOPBLOCKS, SwapCalls,  \* of SwapArea
  BurstCpus, BurstSlots, Bursts, Quantum0, BurstCalls,              \* of BurstSched
  GcdSlots, Prios, GcdCalls,                                        \* of GcdSched
  Sleepers, Naps, TICKWRAP, MaxTicks,                               \* of Clock
  INPUT_BUF, INDEXWRAP, COLS, ROWS, Readers, ReadSizes, MaxTyped,   \* of Console
  PrintCpus, NoPrinter, LENGTH, PIECES, PrintCalls,                     \* of Printing
  WORD, WOLFIE, INFO, ADDRWRAP, ProcSizes, Lengths, Implemented, Numbers,   \* of Args
  HEAP, LIMIT, CORE, MallocSizes, MaxForeign                        \* of Umalloc

VARIABLE part

VARIABLES
  blk, diskValid, dirty, refcnt, owner, diskData, lru, idequeue, disk, dev, bpc, diskJob,
  mine, diskGot, pinned, diskFailed, diskNfail, calls
diskvars == <<
  blk, diskValid, dirty, refcnt, owner, diskData, lru, idequeue, disk, dev, bpc, diskJob,
  mine, diskGot, pinned, diskFailed, diskNfail, calls>>
VARIABLES
  swapUsed, swapMem, mapLog, dataLog, mapOwner, lh, outstanding, committing, apc, swapGot,
  nested, swapRaced, swapNcalls
swapvars == <<
  swapUsed, swapMem, mapLog, dataLog, mapOwner, lh, outstanding, committing, apc, swapGot,
  nested, swapRaced, swapNcalls>>
VARIABLES
  policy, st, burstParent, burst, ran, bpos, onCpu, burstStage, want, quantum, least, burstRaced,
  watched, rival, passed, burstNcalls
burstvars == <<
  policy, st, burstParent, burst, ran, bpos, onCpu, burstStage, want, quantum, least, burstRaced,
  watched, rival, passed, burstNcalls>>
VARIABLES
  gst, gparent, prio, gpid, nextpid, stillborn, gcdPhase, start, procgcd, gpos, cur, gstage,
  baby, slices, steady, gcalls
gcdvars == <<
  gst, gparent, prio, gpid, nextpid, stillborn, gcdPhase, start, procgcd, gpos, cur, gstage,
  baby, slices, steady, gcalls>>
VARIABLES
  ticks, tickslock, fired, zpc, ticks0, nap, clockKilled, elapsed, late
clockvars == <<
  ticks, tickslock, fired, zpc, ticks0, nap, clockKilled, elapsed, late>>
VARIABLES
  consBuf, consR, consW, consE, pos, consPc, consLeft, target, consKilled, consTyped, eofs,
  zeros
consvars == <<
  consBuf, consR, consW, consE, pos, consPc, consLeft, target, consKilled, consTyped, eofs,
  zeros>>
VARIABLES
  locking, panicked, holder, ppc, took, printLeft, pieces, screen, pcalls
printvars == <<
  locking, panicked, holder, ppc, took, printLeft, pieces, screen, pcalls>>
VARIABLES
  argsSz, esp, eax, value, nul, asked, argsGot
argsvars == <<
  argsSz, esp, eax, value, nul, asked, argsGot>>
VARIABLES
  ptr, heapSize, freep, top, heapLive, foreign, heapFailed
heapvars == <<
  ptr, heapSize, freep, top, heapLive, foreign, heapFailed>>

\* DiskProofs is Disk with the lemmas about it, which KernelProofs uses for both drivers
D == INSTANCE DiskProofs WITH
       MemDisk <- FALSE, Procs <- DiskProcs, Blocks <- DiskBlocks, Values <- DiskValues,
       Jobs <- DiskJobs, MaxCalls <- DiskCalls, valid <- diskValid, data <- diskData,
       job <- diskJob, got <- diskGot, failed <- diskFailed, nfail <- diskNfail
Dm == INSTANCE DiskProofs WITH
       MemDisk <- TRUE, Procs <- DiskProcs, Blocks <- DiskBlocks, Values <- DiskValues,
       Jobs <- DiskJobs, MaxCalls <- DiskCalls, valid <- diskValid, data <- diskData,
       job <- diskJob, got <- diskGot, failed <- diskFailed, nfail <- diskNfail
W == INSTANCE SwapArea WITH
       MaxCalls <- SwapCalls, used <- swapUsed, mem <- swapMem, got <- swapGot,
       raced <- swapRaced, ncalls <- swapNcalls
B == INSTANCE BurstSched WITH
       Cpus <- BurstCpus, NPROC <- BurstSlots, MaxCalls <- BurstCalls, parent <- burstParent,
       stage <- burstStage, raced <- burstRaced, ncalls <- burstNcalls
G == INSTANCE GcdSched WITH
       NPROC <- GcdSlots, MaxCalls <- GcdCalls, phase <- gcdPhase
C == INSTANCE Clock WITH
       WRAP <- TICKWRAP, killed <- clockKilled
Co == INSTANCE Console WITH
       WRAP <- INDEXWRAP, Sizes <- ReadSizes, buf <- consBuf, r <- consR, w <- consW,
       e <- consE, pc <- consPc, left <- consLeft, killed <- consKilled, typed <- consTyped
P == INSTANCE Printing WITH
       Cpus <- PrintCpus, NoCpu <- NoPrinter, MaxCalls <- PrintCalls, left <- printLeft
A == INSTANCE Args WITH
       WRAP <- ADDRWRAP, sz <- argsSz, got <- argsGot
U == INSTANCE Umalloc WITH
       Sizes <- MallocSizes, size <- heapSize, live <- heapLive, failed <- heapFailed

-----------------------------------------------------------------------------
ProvedParts ==
  {"disk", "memdisk", "swap", "bursts", "gcd", "sleep", "console", "printing", "args", "malloc"}
partsvars   == <<diskvars, swapvars, burstvars, gcdvars, clockvars, consvars, printvars, argsvars, heapvars>>

PartsInit ==
  D!Init /\ W!Init /\ B!Init /\ G!Init /\ C!Init /\ Co!Init /\ P!Init /\ A!Init /\ U!Init

PartsNext ==
  /\ \/ part = "disk" /\ D!Next /\ UNCHANGED <<swapvars, burstvars, gcdvars, clockvars, consvars, printvars, argsvars, heapvars>>
     \/ part = "memdisk" /\ Dm!Next /\ UNCHANGED <<swapvars, burstvars, gcdvars, clockvars, consvars, printvars, argsvars, heapvars>>
     \/ part = "swap" /\ W!Next /\ UNCHANGED <<diskvars, burstvars, gcdvars, clockvars, consvars, printvars, argsvars, heapvars>>
     \/ part = "bursts" /\ B!Next /\ UNCHANGED <<diskvars, swapvars, gcdvars, clockvars, consvars, printvars, argsvars, heapvars>>
     \/ part = "gcd" /\ G!Next /\ UNCHANGED <<diskvars, swapvars, burstvars, clockvars, consvars, printvars, argsvars, heapvars>>
     \/ part = "sleep" /\ C!Next /\ UNCHANGED <<diskvars, swapvars, burstvars, gcdvars, consvars, printvars, argsvars, heapvars>>
     \/ part = "console" /\ Co!Next /\ UNCHANGED <<diskvars, swapvars, burstvars, gcdvars, clockvars, printvars, argsvars, heapvars>>
     \/ part = "printing" /\ P!Next /\ UNCHANGED <<diskvars, swapvars, burstvars, gcdvars, clockvars, consvars, argsvars, heapvars>>
     \/ part = "args" /\ A!Next /\ UNCHANGED <<diskvars, swapvars, burstvars, gcdvars, clockvars, consvars, printvars, heapvars>>
     \/ part = "malloc" /\ U!Next /\ UNCHANGED <<diskvars, swapvars, burstvars, gcdvars, clockvars, consvars, printvars, argsvars>>
  /\ UNCHANGED part

PartsSpec == part \in ProvedParts /\ PartsInit /\ [][PartsNext]_<<part, partsvars>>

-----------------------------------------------------------------------------
(* The properties of these modules, stated there.                            *)

\* bio.c with ide.c or memide.c: whatever processes call, sleep and fail, buffers are neither
\* lost nor doubled, and every request is made once and waited for by its own process.
DiskConsistent ==
  part \in {"disk", "memdisk"} =>
    /\ D!TypeOK                 \* buffers, queue, device and processes are in states they can be in
    /\ D!BufferWhenRoom         \* bget panics only when every buffer is in use or pinned
    /\ D!OneBufferPerBlock      \* bget: one buffer per block, and one in use keeps its block
    /\ D!QueueInOrder           \* iderw, ideintr: the device works on the first request, each waits once
    /\ D!SleepersQueued         \* iderw: no sleeper is forgotten

\* Buffer cache, queue and device together are a store of blocks: refinement of BlockStore.
DiskImplementsStore ==
  D!Store!Init /\ [][(part \in {"disk", "memdisk"} => D!Store!Next)]_<<D!Content, diskGot, diskFailed>>

\* balloc, bfree, balloc_page and write_page_to_disk, which write to the disk both through the
\* log and past it: what is lost is lost in the one known way only.
SwapConsistent ==
  part = "swap" =>
    /\ W!TypeOK                 \* map, log and processes are in states they can be in
    /\ W!OneOwner               \* balloc gives a block to one owner
    /\ W!LostOnlyByRace         \* bfree loses a block only by its direct write during a commit
    /\ W!PageKept               \* a page in the swap area keeps its contents, but for the same race

\* SJF and HBSJF, with bursts that change at any moment: who runs, with which quantum, and what
\* processes are told of each other.
BurstsServed ==
  part = "bursts" =>
    /\ B!TypeOK                 \* the process table and the scheduler are in states they can be in
    /\ B!QuantumIsLeast         \* TimeQuanta is the least burst, but for set_burst_time without a lock
    /\ B!ParentForInfo          \* getProcInfo follows only parents that exist, but for an EMBRYO slot's
    /\ B!OvertakenTwice         \* HBSJF: no process is overtaken by another more than twice

\* The scheduler with gcd steps gives each process its share although it uses what it computed
\* before it gave up ptable.lock.
GcdSharesRounds ==
  part = "gcd" =>
    /\ G!TypeOK                 \* the process table and the scheduler are in states they can be in
    /\ G!RoundShares            \* a round runs a process priority / gcd times
    /\ G!PidsIdentify           \* pids find one process each; getNumProc and getMaxPid agree with the table

\* sys_sleep and the timer, with a counter that wraps, and kill.
SleepsAsAsked ==
  part = "sleep" =>
    /\ C!TypeOK                 \* tickslock is held only between test and sleep
    /\ C!SleptExactly           \* sys_sleep sleeps for n ticks, over the wrap of the counter
    /\ C!KilledWakes            \* a killed process sleeps on for at most a tick

\* consoleintr and consoleread: no input stops the console, and no reader waits in vain.
ConsConsistent ==
  part = "console" =>
    /\ Co!TypeOK                 \* the three indices of the ring are in order and the cursor on the screen
    /\ Co!FullIsReadable         \* a ring without room has something to read
    /\ Co!ReaderNotForgotten     \* a reader sleeps only while there is nothing to read
    /\ Co!EofSeenOnce            \* consoleread returns 0 once for every control-D

\* The ring with its three wrapping indices is a line being edited and a queue of what may be
\* read: every step of it is one of Tty or none.
ConsImplementsTty == [][(part = "console" => Co!T!Next)]_<<Co!Line, Co!Ready>>

\* cprintf and panic, on several CPUs.
PrintedWhole ==
  part = "printing" =>
    /\ P!NotMixed               \* cprintf: messages are not mixed
    /\ P!NoLockKept             \* cprintf: no CPU keeps cons.lock
    /\ P!PanicHeard             \* panic gets its message out, whoever holds cons.lock

\* syscall.c and sys_wolfie: no argument makes the kernel reach outside the calling process,
\* although sums wrap.
ArgsInside ==
  part = "args" =>
    /\ A!ReadsInside            \* fetchint, fetchstr: the kernel reads inside the process
    /\ A!BlocksInside           \* argptr: a block it accepts is inside the process
    /\ A!StringsEnd             \* argstr: a string it accepts ends inside the process
    /\ A!CallsExist             \* syscall calls only functions that exist
    /\ A!WolfieFits             \* wolfie writes only into the buffer it was given

\* umalloc.c: whatever sequence of malloc, free and foreign sbrk, no memory is lost or doubled.
MallocConsistent ==
  part = "malloc" =>
    /\ U!TypeOK                 \* the circular list runs once through every free piece
    /\ U!EveryUnitOnce          \* malloc, free: every unit is in one piece
    /\ U!Merged                 \* free joins pieces that touch
    /\ U!FailsOnlyWithoutMemory \* malloc fails only when sbrk does
=============================================================================
