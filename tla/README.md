# Formal models of OS-Lab-IITG

The repository collects the assignments of an operating-systems laboratory. Most
of its code is xv6, an educational Unix kernel for x86 multiprocessors, changed
in three ways: other schedulers (`src/Assignment-2`), lazy allocation of memory
(`src/Assignment-3/Group_3/Part_A`) and demand paging with a swap area
(`src/Assignment-3/Group_3/Part_B`). This directory holds TLA+ models of that
kernel, the TLC configurations that check them, and proofs that TLAPS checks.
`Part_B`, the last kernel and the one with the most new code, is the reference;
a bare file name below is a file of `Part_B`.

To repeat everything, in this directory:

    tlc -workers 2 -config Proc.cfg Proc    # and so for each row of "Runs"
    tlapm ProcProofs.tla                    # and PipeProofs, LogProofs, PagingProofs, DiskProofs,
                                            # SchedProofs, KernelProofs, ConsoleProofs

`PROJECT.json` maps each definition to the lines it models, names for every
property a plausible bug of the code that violates it (the operators `Bad...` in
the modules), and lists the hazards and the findings.

## 1. Inventory

Every part of the system, the state it keeps and what makes it correct. "Module"
says where it is modelled.

| Part | State | Operations | What is hard, and what must hold | Module |
|---|---|---|---|---|
| Process table and scheduler (`proc.c`, `swtch.S`, `trap.c`) | `ptable.proc`, `nextpid`, `mycpu()->proc`, `ptable.lock` | allocproc, fork, exit, wait, kill, yield, sched, scheduler | A lock acquired on one stack and released on another; a stack freed by the parent of the one who runs on it; exit against wait against kill. One CPU per stack, no lost wakeup, no orphan, no zombie for ever, distinct pids | `Proc` |
| Spin locks (`spinlock.c`) | `locked`, `cpu`; `ncli`, `intena`, the interrupt flag | acquire, release, pushcli, popcli | Interrupt handlers that take locks; nesting. Exclusion, no deadlock with a handler, interrupts restored | `Spinlock` |
| Sleep and wakeup, sleep locks (`proc.c`, `sleeplock.c`) | `chan`, `state`; `locked`, `pid` | sleep, wakeup, acquiresleep, releasesleep | Two spin locks handed over in sleep. Exclusion, no lost wakeup | `SleepLock` |
| Pipes (`pipe.c`) | the ring, `nread`, `nwrite`, open flags | pipewrite, piperead, pipeclose | Wrapping counters, both sides asleep, close and kill at any moment. A FIFO stream, end of file, one free | `Pipe` |
| Redo log (`log.c`) | `log.lh`, `outstanding`, `committing`; header and log blocks | begin_op, log_write, end_op, commit, recovery | Crashes, admission, group commit. Atomic and durable operations | `Log` |
| Demand paging, swapping (`paging.c`, `vm.c`, `kalloc.c`) | page tables, frames, swap pages, the free list | page fault, swap_page, sys_swap, copyuvm, freevm | Disk operations in the middle of a fault, frames that change hands. Nobody shares a frame, memory keeps its contents | `Paging`; page-table pages and sizes: `PagedSpace`; the writing of a page: `SwapArea` |
| Block allocator (`fs.c`, `log.c`) | the free map, the blocks of files | balloc, bfree, balloc_page, bfree_page, bmap, itrunc | A transaction inside a transaction; the map written past the log. One owner per block, none lost, pages and files keep what was written | `SwapArea`, `FileBlocks` |
| Buffer cache, disk drivers (`bio.c`, `ide.c`, `memide.c`) | LRU list, buffers, `idequeue` | bget, bread, bwrite, brelse, log_write, iderw, ideintr | One buffer per block, reuse, order of requests. A store of blocks | `Disk`, `BlockStore` |
| Inodes, directories, open files (`fs.c`, `file.c`, `sysfile.c`) | inode cache, reference and link counts, `ftable`, descriptor tables | iget, ilock, iput, dirlink, namex, open, close, dup, link, unlink, mkdir, chdir, fork, exit | Last reference against lookup, lock order. Counts are exact, nothing dangles, what the tests insist on | `FileSys`, `UserTests` |
| mkfs (`mkfs.c`) | the first image | iappend, balloc | A layout written by one program and read by another | `FileBlocks` |
| Time (`sysproc.c`, `trap.c`) | `ticks` | sys_sleep, the timer | The counter wraps; kill before the sleep | `Clock` |
| System-call arguments (`syscall.c`, wolfie, getProcInfo) | user memory | argint, argptr, argstr, syscall | Sums that wrap | `Args` |
| Console (`console.c`) | the input ring, the cursor, `cons.locking`, `panicked` | consoleintr, consoleread, cprintf, panic | Three indices over a ring; a panic while others print | `Console`, `Tty`, `Printing` |
| Keyboard (`kbd.c`) | `shift` | kbdgetc | Modifiers and extended codes in any order | `Keyboard` |
| Interrupts (`trap.c`, `lapic.c`, `ioapic.c`, `uart.c`) | routing, vectors in service | ioapicenable, trap, lapiceoi | Edges that come while the handler ends | `Interrupts` |
| Clock chip (`lapic.c`) | - | cmostime | A time read in pieces | `Rtc` |
| Boot (`bootmain.c`, `main.c`, `mp.c`, `kalloc.c`, `entryother.S`) | the free list, `cpus`, the words below 0x7000 | bootmain, mpinit, kinit1, startothers, kinit2, mpmain | One mailbox for all CPUs, a page table for 4 MB only | `Loader`, `Boot` |
| exec, lazy allocation (`Part_A`: `vm.c`, `exec.c`, `trap.c`, `proc.c`) | page tables, `sz`, free frames | exec, growproc, the fault branch of trap, copyuvm, wait | Every kalloc may fail; the bounds of the address test | `AddrSpace`, `SbrkTest`; for `Part_B`, `PagedSpace` |
| SJF and HBSJF schedulers (`src/Assignment-2/Group 3`) | burst times, `TimeQuanta` | two scheduler loops, set_burst_time, getProcInfo | Overtaking, a shared variable without a lock | `BurstSched` |
| gcd-step scheduler (`src/Assignment-2/180050024`) | priorities | scheduler loop, setprio, getNumProc, getMaxPid | A round computed before it is run | `GcdSched` |
| Shell (`sh.c`) | a tree of commands, descriptors | parsecmd, runcmd | Processes that share pipe ends | `ShellSyntax`, `Shell` |
| User programs and library (`grep.c`, `wc.c`, `ls.c`, `umalloc.c`, `printf.c`, `ulib.c`, `string.c`) | buffers, the free list of malloc | | Lines across buffers, a circular list, conversions | `Filters`, `Umalloc`, `Libc` |
| `old_swap.c`, `swap.h` | - | - | Not compiled into the kernel | not modelled |
| vdbench files (`src/Assignment-4`) | - | - | Parameter files and logs | not modelled |

How the parts meet: every system call enters through `trap`; all blocking goes
through `sleep` and `wakeup` under `ptable.lock`; buffers and inodes are guarded
by sleep locks; everything that changes the disk brackets its work with
`begin_op` and `end_op`, except the swap area and, in this kernel, `bfree`;
a page fault may start disk operations from any place that touches user memory.

## 2. Plan

Order: first what everything else stands on (the process table, the locks), then
the two places where data can be lost (log, paging), then their compositions.

All modules of the first plan are there, but for one composition. What is left,
the most important first:

1. `Pipe` with `Paging`: a page fault while `p->lock` is held (`pipe.c:94`).
2. `Paging` and `PagedSpace` in one: faults of several CPUs, step by step, in address
   spaces with page-table pages.
3. `Log` under `FileSys`: now a transaction of `FileSys` is atomic and never waits.

Proofs still worth having, with the shape of the invariant where it is known:

- `FileBlocks`: the bitmap is what mkfs counted plus the blocks in the trees of the
  files; the two trees of a file (direct, indirect) are functions without common values.
- `PagedSpace` and the part `memory` of `AddrSpace`: frames free, mapped, used for page
  tables and lost add up to all of them. Each operation is a chain of a few operators
  on a page directory under way, so there is one lemma per operator.
- `Interrupts`: an edge not yet served is in `irr`, or in service, or its device still
  holds the line.

## 3. Modules

Each module begins with a comment on its grain: what one step is, and why it may
be one. Definitions keep the names of the code.

### Proc (proved in ProcProofs)

A variable per field of `struct proc` (`state`, `pid`, `parent`, `killed`,
`chan`, `kstack`), `nextpid`, and what the code keeps in machine state: `lock`
(the CPU that holds `ptable.lock`), `cproc` (`mycpu()->proc`), `scan` (the
scheduler's loop variable), `pc` and `ctx` (where a kernel thread executes, where
`swtch` resumes it) and `np` (fork's local variable). A critical section that one
function opens and closes is one step, enabled when the lock is free. Those that
cross `swtch` are split there: `Yield`, `WaitSleep` and `ExitZombie` leave the
lock held, `Sched` returns to the scheduler thread with it, `SchedDispatch` hands
it to a process, `Resume` and `ResumeSleep` go on from there. fork fills its
EMBRYO slot without the lock, so `ForkStack`, `ForkCopy`, `ForkFail` and
`ForkDone` are separate. A user program may make any call at any moment.

`sleep` here is the one of `wait`, on the process itself. kernel stacks are
Booleans (allocated or not); a failing `kalloc` and a failing `copyuvm` are
choices. The files and the address space of a process are left to other modules.

### SleepLock, Mutex (proved in SchedProofs)

acquiresleep, releasesleep, and inside them sleep and wakeup, at the grain of
single operations on `lk->lk` and `ptable.lock`: a `pc` value stands between any
two of them. `kill` makes a sleeper RUNNABLE without giving it the lock.
`Mutex` is the abstract lock, with `owner` mapped to `lk->pid`.

### Spinlock (proved in ConsoleProofs)

Two execution contexts per CPU, the interrupted thread and the interrupt handler,
share the CPU's flag, `ncli` and `intena` (a handler runs to its end before the
thread goes on). `xchg`, the store of `cpu`, its clearing and the store that frees
the lock are separate steps, as are `cli`, the reading of eflags and `sti`. Both
contexts take the same lock; `MaxNest` bounds further nested pushcli in the
critical section. `panic` is a location, `NoPanic` says that it is not reached.

### Pipe, ByteStream (proved in PipeProofs)

`nread` and `nwrite` count modulo `UintMod`, which stands for 2^32 (a multiple of
`PIPESIZE`, as there; if it were not, the ring would break at the wrap). Both
loops run under `p->lock`, one byte per step, and give the lock up only in
`sleep`, which is split where another process's `kill` can come between.
`ByteStream` is the bounded FIFO; `Contents` reads it off the ring.

### Log, AtomicDisk (proved in LogProofs)

A block's contents are the set of operations that have changed it: what a
recovery brings back can then be compared with what each operation wrote. One
disk write is one step. `mem` is what `bread` returns: buffers of the running
transaction stay in the cache because B_DIRTY ones are not reused (`bio.c:76`).
`Crash` keeps `disk`, `ldata` and `head` and drops the rest. `Direct` are the
blocks changed by `bwrite`. `AtomicDisk` promises that what survives is the state
at some moment without an operation in progress.

The passing run keeps `Direct` apart from `Logged`. The code does not: see
finding `log_bypass` and the hazard at `paging.c:38`.

### Paging, UserMemory (proved in PagingProofs)

Page tables of `NPAGES` entries per process, the frames and what is in them, and
the swap pages. Kernel code between two points where it sleeps or where another
CPU matters is one step: kalloc, the choice of the victim with `balloc_page`, the
disk write, the unmapping with `kfree`, the second kalloc, the filling, the
`bfree_page`. copyuvm goes through the same steps for every page of the parent.
Contents are abstract: what a process stored in its page, zero, what `kfree`
fills in, or physical page 0, which copyuvm copies for a page that was never
touched. `UserMemory` is the memory a program should see; it is promised to
programs that exec started, since a fork under memory pressure breaks it
(`paging_fork`).

The swap area is written past the log, but `balloc_page` clears its blocks through it.
`lh` are the swap pages whose zeros wait in the transaction of the log. A commit is two
steps, as it is in the code from the other processes' side: `WriteLog`, after which
`copied` holds, and `Install`, with the steps of anybody but `balloc` between them. A
page whose zeros have been copied by then and that is written before `Install`
(`paging.c:36`) is overwritten with the older blocks: its contents become `Torn`. A page
that `bfree_page` gives back in between (`fs.c:113`) gets its bits of the free map back
and belongs to nobody from then on (`lost`). `past` are the pages the commit will undo.

So programs do not always find what they wrote, and `UserMemory` says when: its `Tear`
may take what is on an *exposed* page. `Exposed` (`Paging`) is a page of the swap area
in `past`, or one that a call has written, that is torn by now, and whose entry is about
to be set. Everything else is kept: no other page may change, a torn page is one that was
exposed, and it is whole again when the program writes it. Either part of `Exposed`
left out, the run fails.

`balloc_page` is one step, taken when its last `balloc` ends: each of its eight or more
transactions waits in `begin_op` for the commit in progress (`~copied`), and whatever it
has logged may be in the log at its end. Commits in the middle of it only make `lh`
smaller, which `WriteLog` and `Install` right after it do as well. Any commit is taken to have the free map
in it, the case that does harm. How the runs of two callers interleave, with blocks
marked and given back one by one, is in `SwapArea`, at the grain of a single block and
with who takes part in which transaction; `Paging` has whole pages, and a page of which
any block has been overwritten is `Torn`. `balloc` panics when no run is free; such a call stays
where it is. Page-table pages are in `PagedSpace`; the TLB is left out. A process for
which the kernel goes on with a null frame or a null entry is `wrecked`, and what it does
then is not modelled.

### Disk, BlockStore (proved in DiskProofs, KernelProofs)

bio.c on ide.c, or on memide.c (`MemDisk`). A step is what runs under `bcache.lock` or
`idelock`; a process is at `bpc`, and `mine` is its buffer. A process uses the cache in
the ways the kernel does: readi, writing a whole block with bwrite, log_write of a
change (the buffer stays pinned by B_DIRTY), and the install of a commit. The device
takes the first request of `idequeue` and may fail; a process asleep in iderw may be
killed. `BlockStore` is a block device without cache and queue: a block that was
written is read back. `MaxPinned` is what the log admits (`param.h`: NBUF is three
times MAXOPBLOCKS).

### SwapArea (proved in KernelProofs)

The free map and the log at the grain where they interfere: `Filers` write files in
a transaction, with the nested begin_op of balloc; `Swappers` take a run of blocks,
write a page to it past the log, and give it back. `mapLog` and `dataLog` are the
blocks in the log, `mapOwner` holds the buffer of the map. Two disagreements between
operations are in the code and in the model: see section 8.

### FileSys, UserTests

The file system calls between the locks they take. Each process has a list of steps
to do; a step ends where the code takes the next lock. A transaction is atomic here
(`Log` shows that) and always admitted. `UserTests` has the file tests of
usertests.c, stressfs.c, init.c and the programs ln, rm, mkdir, zombie and cat as scripts
of calls with the results the tests insist on; `FileSys` interleaves their processes
in every way. `scripts(4)` fits the model's `MAXFILE`. `lost` are the inodes that two
overlapping iputs have left behind, see section 8.

### FileBlocks

mkfs lays out the first image with a counter (`Mkfs...`), then the kernel writes,
reads and truncates files by bmap, balloc and itrunc. Each is checked against the
sequence of bytes written.

### BurstSched, GcdSched (proved in SchedProofs)

The two schedulers of Assignment 2 with the process table they need (fork in two
stages, exit, wait, sleep). `policy` chooses SJF or HBSJF. Two ghost variables of
`BurstSched` watch a pair of processes: `passed` counts how often `rival` was
dispatched while `watched` was runnable. In `GcdSched`, `slices` counts what each
process got in a round and `steady` those for which a share is promised.

### Clock, Console, Tty, Keyboard, Printing, Interrupts, Rtc (the first three and Printing proved)

One module per thing the kernel does with a device, each under the lock that the
code takes. `Clock` is sys_sleep against the timer and kill. `Console` is the input
ring with its editing interrupt, its readers and the cursor; it implements `Tty`, an
edited line and a queue of finished ones. `Keyboard` turns scan codes into characters;
the characters meant are kept beside it. `Printing` is cprintf, consolewrite and
panic on two CPUs; `Interrupts` is how edges of the devices become calls of their
handlers; `Rtc` is the reading of the CMOS clock.

### Loader, Boot

`Loader` copies sectors as readseg does, and so writes around a segment; it is
checked for kernels as `ld` lays them out. `Boot` begins in main with a firmware of
`Firmwares` and ends with every CPU in scheduler(); the three words below the entry
code (`entryother.S`) are a mailbox of the boot CPU and the one that starts.

### AddrSpace, SbrkTest

User memory of `Part_A`: a directory of page tables per process, a number of free
frames. Every operation is written as a chain of operators on a page directory under
way, `m`, each of which may run out of frames. `SbrkTest` replays sbrktest on it.

### PagedSpace

User memory of `Part_B`: page-table pages, `sz`, sbrk (which only raises `sz`), exec,
fork with a copyuvm that swaps pages of the parent out and in, faults, sys_swap and the
exit with its freevm. It complements `Paging`: a call or a fault is one step, frames and
swap pages are counted, and what is lost for good is counted, too (`lost`). `stop` is
where the kernel panics or goes on with a null entry; nothing moves after that.

### ShellSyntax, Shell

parsecmd and its helpers on tokens; runcmd as the list of system calls each process
makes, on pipes of `PIPESIZE`. What a command means is stated on its own (`Meaning`).

### Filters, Libc, Umalloc, Args (Umalloc proved in KernelProofs, Args in SchedProofs)

User programs and functions without concurrency. `Filters` (grep, wc, ls) and `Umalloc` go
step by step (a buffer, an entry, a call); `Libc` and `Args` evaluate functions on all inputs of
a state. Numbers have the width given by `WRAP` or `INTS`.

### KernelParts, MCKernel

Instances of the modules above, one of which moves in a behaviour, see section 4.
`KernelParts` has those about which `KernelProofs`, `SchedProofs` and `ConsoleProofs`
prove something, with their properties; `MCKernel` extends it by the others and gives
the sizes.

## 4. Runs

| Run | cfg, module | Distinct states | What it asks |
|---|---|---|---|
| `proc_safety` | Proc.cfg, Proc | 599,281 | Table, stacks and lock hand-over are consistent under every interleaving of two CPUs |
| `proc_live` | ProcLive.cfg, Proc | 5,940 | Round robin reaches everyone, killed processes exit, zombies are reaped |
| `proc_newborn` | ProcNewborn.cfg, Proc | violated | Is a new process unkilled? |
| `sleeplock` | SleepLock.cfg, SleepLock | 584 | Exclusion, no lost wakeup, refinement of `Mutex`, a free lock is taken |
| `spinlock` | Spinlock.cfg, Spinlock | 15,996 | Exclusion, no panic, interrupts off and restored, refinement of `Mutex`, the lock becomes free |
| `pipe` | Pipe.cfg, Pipe | 79,656 | FIFO stream, no lost wakeup, end of file, one free, calls return |
| `log` | Log.cfg, Log | 299,222 | Atomic, durable operations with crashes; refinement of `AtomicDisk`; calls return |
| `log_bypass` | LogBypass.cfg, Log | violated | The same atomicity when a logged block is also written directly |
| `paging` | Paging.cfg, Paging | 477,022 | One owner per frame and swap page; swap pages and memory are lost only to commits of the log |
| `paging_sure` | PagingSure.cfg, Paging | violated | Does the kalloc after swap_page always get a frame? |
| `paging_fork` | PagingFork.cfg, Paging | violated | Is the child's memory a copy of the parent's? |
| `kernel` | MCKernel.cfg, MCKernel | 580 k | Every other module on its own: see below |


The run `kernel` takes the modules one at a time: `part`, chosen in the initial state,
says which one moves, and the others stay where they are. Their states are thus
added, not multiplied. `KernelParts` and `MCKernel` have an instance of each module and one conjunction per
part of the properties that module states, each named in a comment:

| Part | Module | What it asks |
|---|---|---|
| `disk`, `memdisk` | `Disk` | `DiskConsistent`, `DiskImplementsStore`: a store of blocks; one buffer per block, no buffer lost, requests in order, sleepers woken |
| `swap` | `SwapArea` | `SwapConsistent`: who owns a block, what a page keeps |
| `files` | `FileSys`, `UserTests` | `FsConsistent`: results of the tests, counts, nothing dangles; `StuckAsKnown` (with `swap`): which waits have no end |
| `blocks` | `FileBlocks` | `BlocksConsistent`: bytes are read back, blocks used once, the bitmap exact |
| `bursts` (SJF and HBSJF), `gcd` | `BurstSched`, `GcdSched` | `BurstsServed`, `GcdSharesRounds`: overtaking, the quantum, shares of a round, what processes are told of each other |
| `sleep`, `console`, `keyboard`, `printing`, `interrupts`, `date` | `Clock`, `Console`, `Keyboard`, `Printing`, `Interrupts`, `Rtc` | `SleepsAsAsked`, `ConsConsistent`, `ConsImplementsTty`, `PrintedWhole`, `DevicesServed` (keyboard, interrupts, date): nobody sleeps too long, input is a line being edited, nothing a device says is lost |
| `loader`, `boot` | `Loader`, `Boot` | `StartsUp`: every byte loaded, every page once, a stack for every CPU |
| `paged` | `PagedSpace` | `PagedConserved`: frames are lost only in three places, sys_bstat is exact, copyuvm panics only after an sbrk |
| `memory`, `sbrktest` | `AddrSpace`, `SbrkTest` | `MemConserved`: no frame lost whatever fails; what sbrktest insists on |
| `shell`, `filters`, `libc`, `malloc`, `args` | `Shell`, `Filters`, `Libc`, `Umalloc`, `Args` | `ShellDoesAsMeant`, `ProgramsRight` (filters with ls, libc), `MallocConsistent`, `ArgsInside`: results are those a definition gives, no memory lost, no argument reaches outside |

The other runs also check some invariants as one, whose parts have names of their own:
`TableConsistent` (`Proc`), `KilledIsReaped` (`Proc`, temporal), `SleepLockConsistent`,
`SpinlockConsistent`, `PipeConsistent`, `ReadsInOrder`, `LogConsistent`, `PagesConserved`.

A definition named `Bad...` is a form that the definition before it could have by
mistake (a dropped guard, a missing reset, a swapped order). With it in place TLC finds
a property violated: most parts of a conjunction have such a form, and PROJECT.json
lists one for each property.

### Bounds, and why they suffice

- `Proc.cfg`: 2 CPUs, 4 slots, pids to 4, `KillPids` {2, 3}. Four slots give init, a
  child, its child and one slot to fail or to reuse: adoption of a live and of a
  zombie grandchild happens. Two CPUs are the least at which a stack can be used
  twice. `MaxPid` stops fork; processes go on exiting and being reaped. CPUs are
  symmetric (nothing in the code compares them); slots are not, the scan is ordered.
- `ProcLive.cfg`: 1 CPU, 3 slots, no symmetry, because of the temporal properties.
  Fairness is what is asked here, safety across CPUs is the other run.
- `SleepLock`: 3 processes, so that two wait while a third takes the lock first.
- `Spinlock`: 2 CPUs with a handler each, one further nesting level.
- `Pipe`: one writer, two readers that compete, a ring of 2, counters modulo 4,
  lengths 1 and 3: a write longer than the ring wraps both the ring and the
  counters. `Killable` {w1, r1}.
- `Log`: 3 operations, `LOGSIZE` 6 and `MAXOPBLOCKS` 3: two fit, the third waits
  for the commit. An operation changes at most 2 blocks (`OpWrites`), fewer than
  `MAXOPBLOCKS`, see section 8. The running system crashes once, recovery any
  number of times; after recovery the operations not yet called still run, so a
  transaction after a crash is included.
- `Paging.cfg`: 2 processes of 4 pages (one text page, guard, stack, one page above),
  5 frames: one image fits and the second is under pressure. One of them forks,
  programs swap of their own accord while fewer than `SwapRoom` = 1 swap pages are
  used. `NSWAP` = 3: the area runs full, too. Commits begin while fewer than `LostRoom` = 1
  pages are lost or torn; one commit may hit several. `PagingSure.cfg` and
  `PagingFork.cfg` have `LostRoom` = 0, no commits, and 9 swap pages, enough for all: what
  they show needs neither. Frames are symmetric: the free list is a set, since no
  property depends on which free frame is next.
- `Disk`: 2 buffers for 3 blocks, 2 processes, 4 calls: a buffer is reused for
  another block while a third is asked for, both processes want the same block, the
  queue holds two requests. One buffer may be pinned and one request fail.
- `SwapArea`: a file operation and two swappers with a run of 2 blocks out of 4, a log of
  6 and 2 per operation: the log fills, a commit overlaps every other step.
- `FileSys`: 3 processes, 7 inodes, 4 open files, 3 descriptors: a test can run out of
  each. Tests that loop are cut to the rounds the interleavings need (`linkunlink`
  one per process).
- `FileBlocks`: one direct and two indirect addresses, 9 blocks under the bitmap, so
  that files cross into the indirect block and use blocks of each other.
- `BurstSched`, `GcdSched`: 3 slots; bursts {1, 2} and a first quantum of 3, priorities
  {1, 2, 4}; the two CPUs that `BurstSched` allows multiply its states beyond a run,
  so the interleaving checked is that of processes and interrupts on one.
- `Clock`: a counter modulo 4 and 4 ticks: it wraps in each call.
- `Console`: a ring of 2 with indices modulo 4, 4 characters typed, 2 readers.
- `Boot`: up to 4 CPUs of which the kernel takes 3 (`NCPU`), firmware tables at each
  place that is searched, damaged ones among them.
- `AddrSpace`: 2 processes, 5 pages in page tables of 2, 12 frames: two images do not
  always fit. `SbrkTest` has 36: with some numbers (33) the last fork of the test
  takes exactly the last frame, and the test itself reports a failure.
- `PagedSpace`: 2 processes, 4 pages in page tables of 2, 13 frames, 2 swap pages: frames
  run out in exec, in fork and in a fault, and so do the swap pages.
- `Umalloc`: 8 units of heap in pieces of at least 3, one foreign sbrk.
- `Interrupts`: APIC ids 0 and 1. The code routes the disk to APIC id `ncpu - 1`; with
  ids that have gaps it would reach no CPU, see section 8.

### Deadlock

The runs of `Proc` and `SleepLock` check it: the scheduler loops
for ever, and a sleep lock is taken again and again. In `Pipe` and `Spinlock` a
stuck process is excluded by a liveness property. `Log` ends when each operation
has run once, `Paging` when every process is wrecked or out of swap pages. The parts of `MCKernel` end
when their bounded calls are made, or where the code panics; that none ends with
somebody waiting is a property of each part in which processes wait:
`StuckAsKnown` (of `SwapArea` and `FileSys`), `Disk!SleepersQueued`,
`Console!ReaderNotForgotten`, `Clock!KilledWakes`, `Interrupts!NoneForgotten`,
`Printing!PanicHeard`, `Boot!AllCpusUp`, `Shell!NobodyStuck`.

### Fairness

`MCKernel` states none: what its parts promise to happen is stated as what may
not be forgotten (a sleeper without a request, a device without an interrupt), or
as what has happened when a part cannot go on. `RoundShares` of `GcdSched` says at the end of
a round what each process got in it, which is more than that it runs some time.

- `Proc`: weak for the scheduler and for the code around `swtch` (interrupts off,
  nothing to wait for); strong for acquiring `ptable.lock` (the others release it
  again and again, and no spinner is assumed to lose for ever), for the timer
  (`Yield`) and for progress inside a system call between two ticks. No user
  process has to make any call; only init does, which calls wait for ever
  (`init.c`).
- `SleepLock`: weak for code, strong for spinning acquires, weak for the holder's
  release (file system code ends its critical sections). Nobody has to ask for
  the lock, and overtaking is allowed: `FreeLockIsTaken` says only that a free
  lock finds a taker, since the code keeps no queue.
- `Spinlock`: weak for steps of a CPU; strong for leaving the critical section,
  since a context could go on nesting. A spinning xchg may lose for ever.
- `Pipe`: strong for each process' own steps. It is the assumption that a process
  which holds a descriptor uses or closes it in the end (exit closes all), and
  that spinning is not lost for ever. `CallsReturn` exempts a caller that others at
  the same end overtake.
- `Log`: strong for the steps of an operation, weak for recovery. Crashes and
  direct writes are never assumed to happen.

## 5. What is proved

Every theorem holds for all values of the constants that satisfy the assumptions
named below, of any size; where nothing is named, the assumptions of the module
(`ASSUME`, evaluated by TLC in every run) are enough. A proof module has the inductive
invariant first, then a lemma per action or per conjunct, then the theorems. TLC has
checked each inductive invariant on a small instance before it was proved.

| Module | Of | Theorems about properties of runs |
|---|---|---|
| `ProcProofs` | `Proc` | `TableSafety`, `StackSafety`, `WakeupSafety`, `StackAccounting`: every invariant of `proc_safety` |
| `SchedProofs` | `SleepLock`; `BurstSched`, `GcdSched`, `Clock`, `Args` in `KernelParts` | `Safety`, `Refinement` (of `Mutex`); `BurstsSafe`, `GcdSafe`, `SleepSafe`, `ArgsSafe` |
| `ConsoleProofs` | `Spinlock`; `Console`, `Printing` in `KernelParts` | `Safety`, `Refinement` (of `Mutex`); `ConsSafe`, `ConsRefines` (of `Tty`), `PrintSafe` |
| `PipeProofs` | `Pipe` | `Safety`, `Refinement` (of `ByteStream`), `EndOfFile`, `Reading`: everything `pipe` checks but liveness |
| `LogProofs` | `Log` | `Safety`, `Refinement` (of `AtomicDisk`), and both for the blocks that are only logged |
| `PagingProofs` | `Paging` | `Safety`, `Refinement` (of `UserMemory`) |
| `DiskProofs` | `Disk`, either driver | `Safety`, `Refinement` (of `BlockStore`) |
| `KernelProofs` | `Disk`, `SwapArea`, `Umalloc` in `KernelParts` | `DiskSafe`, `DiskRefines`, `SwapSafe`, `HeapSafe` |

`ProcProofs`. Whether a CPU may execute on a stack depends on who holds `ptable.lock`,
and that is not in any field of `struct proc`. The inductive invariant is

    IInv == TypeOK /\ CpuInv /\ CtxInv /\ ForkInv /\ FamilyInv /\ PidInv

- `CpuInv`: a CPU that executes a process which is not RUNNING holds the lock, and
  one that executes a RUNNING process holds it exactly while the process comes out
  of `swtch` or is in `wait`; an idle CPU holds it exactly inside its scan.
- `CtxInv`: what the saved context of a process is, state by state; an UNUSED slot
  has no kernel stack and every other settled one has.
- `ForkInv`: an EMBRYO slot belongs to one fork in progress, at a known stage.
- `FamilyInv`: parents have not exited; a sleeper in wait has a child, no zombie
  child and is not killed (the property `NoLostWakeup` is a conjunct).
- `PidInv`: pids are distinct and below `nextpid`.

`SchedProofs`, sleep lock. `IInv` adds to the invariants of `SleepLock` who holds
`lk->lk` (`LkInv`) and `ptable.lock` (`PtableInv`) at each location, and `SleepInv`: a
process sleeps, or has decided to, only while a wakeup is still to come, from the holder
of the sleep lock or from a releasesleep in progress. This is the reason why
`sleep` may let `lk->lk` go once it has `ptable.lock`.

`SchedProofs`, schedulers and time.

- `BurstInv` (`BurstSizes`: slots, bursts and the first quantum are numbers). `Rounds`
  bounds overtaking under HBSJF: a rival that has passed once has run in this round or
  the watched process still may, one that has passed twice both; a third time it would
  have to run twice in a round. `QuantumInv`: without the race `TimeQuanta` is the
  least burst, or someone is about to write it.
- `GcdInv` (`GcdSizes`: priorities are bounded, and 1 is one of them, which fork gives).
  All priorities are multiples of `procgcd`, and the slices of a process
  in a round depend on nothing but the threshold of the pass and whether the scan has
  come to its slot (`Due`): so a scheduler that goes on with values from before it gave
  up the lock shares the round correctly.
- `ClockInv` (`ClockSizes`: the counter is at least two wide). The counter is where the
  call found it plus what has elapsed, at most once round (`Counted`), so the unsigned
  difference is the time; a sleeper that was killed is awake after a tick.

`ConsoleProofs`, spin lock. An invariant per CPU ties the interrupt flag, `ncli` and
`intena` to the two contexts: a handler finds the thread outside of every pushcli
(`FlagInv`), `intena` is on exactly for the thread (`NcliInv`), and `cpu` is set inside
`locked` (`LockInv`). No assumption but `NoCpu \notin CPUS`.

`ConsoleProofs`, console. `ConsoleSizes`: the indices turn a whole number of times over the
ring before they wrap, as 2^32 does over 128; a line that fills the ring is shorter than
the screen without its last row; programs read at least one byte. The argument: the three
indices are two lengths, of the finished characters and of the line behind them
(`ReadyLen`, `LineLen`), which together fit the ring (`Fits`), so that typing, erasing and reading
are an append, a cut and a tail of sequences (`TextGrows` and the lemmas after it). `Under`: the line
holds no newline and no control-D, and a full ring has something finished. `OnScreen`:
the cursor stays behind what can be erased, for a scroll takes it back a row only from
the last one. `Counted`: each control-D is on the ring or has been a read of 0 bytes.

`ConsoleProofs`, printing. The lock in `cons.lock` does not tell whether its holder knows of
it, since panic clears `cons.locking` in the middle of a message: `LockKnown` is about
cprintf's local copy of `locking`. `Panicked` and `AllShown` count what a panicking CPU
has still to print. `PrintSizes`: a panic prints something.

`PipeProofs`. `IInv` says where `p->lock` is held (`HoldInv`), how far apart the counters
are (`CountInv`), and why who sleeps does so (`WriterInv`, `ReaderInv`): the reason
stands, or who has removed it is still on the way to its wakeup. That the ring is a
stream rests on two facts of arithmetic: positions less than `PIPESIZE` apart are
different places, and a turn of the counter, a multiple of `PIPESIZE`, is none of the
ring. Both ends have a process at first (`ProcAssumption`), as pipealloc leaves them.

`LogProofs`. Three layers: `BookInv` (who may be where; `outstanding` counts the
operations; the blocks promised by begin_op fit the log, `SpaceInv`), `DiskInv` (in each phase of a
commit or of a recovery, what the log, its header and the disk hold), and `AtomInv` (an
operation's changes survive a crash, and are in memory, all or none). They hold
for `Clean`, the blocks that are logged and never written directly, without further
assumptions (`Bookkeeping`, `CleanAtomic`, `CleanRefinement`). `Safety` and `Refinement` are about all
logged blocks and assume `Direct \cap Logged = {}`, since `log_bypass` shows what happens
otherwise, and for `NoPanic` that operations change fewer blocks than
`MAXOPBLOCKS` (section 8).

`PagingProofs`. `OwnInv` ties the place in a call to what it has in hand (`CallInv`: a
frame at `fill` and `move`, a page of the swap area at `write`, `evict` and `bfree`) and counts the
owners: a frame has one among the free list, the page tables and the calls (`FrameInv`), a swap page in use
exactly one (`SwapInv`). `DataInv` is about programs that exec started: what is
evicted has been written, or is torn, and a fault is never served where a frame is.
`LogInv` is about the log: a page whose bits a commit has put back is never used again. The refinement maps `Install` to a `Tear`
of the pages in `past` that a page table has, and `Evict` of a torn page to one of that page.
Null addresses are none of the frames, processes and contents.

`DiskProofs`. `UseInv`: reference counts are the numbers of users, and who has locked a buffer
is at a place where it may. `QueueInv`: the queue holds what its owners wait for, once
each. `DevInv`: the device works at the head. `DataInv`: a buffer that
is neither changed nor damaged holds what the disk does. `Sizes` says that the
constants have the sorts they should have. `KernelProofs` carries both theorems over to the
parts `disk` and `memdisk`.

`KernelProofs`, swap area. `SwapInv`: who is in which transaction (`Counting`, `Commits`), that a block
which balloc has found stays free because balloc holds the map's buffer (`Found`), that
install_trans copies what is there but for what was written past the log (`InLog`), and
that the pages of a run follow each other (`Runs`). `SwapSizes`: filers and swappers
are different, finitely many processes.

`KernelProofs`, malloc. `HeapInv`: before the first call there is nothing, and afterwards there
is a heap (`HeapOK`), which says more than the properties do. The list leads from each
free piece to the next higher one and from the last to base (`Circular`), so `free`, which
goes round until an address fits, finds the place; free and allocated pieces lie one behind the
other (`Apart`) and cover what sbrk gave and no other unit (`Covers`), so no piece that is split
or joined meets a third; and no two free pieces touch (`Joined`), so a look at both
neighbours is enough. `HeapBounds`: memory given by sbrk lies above base and below a
limit, and no call asks for zero units (`malloc` adds a header). That the walk along the
list (`Nth`) meets every free piece follows from its order: it comes to base from the
highest piece, and a lowest piece that it missed would follow one that it met.

`SchedProofs`, arguments. No invariant is needed beyond the ranges of registers: what a call gets
is what the code makes of registers and memory. `ArgsSizes`: a process fills at most
half of the address space (KERNBASE), a word is smaller than that, the table of calls is finite.

The parts of `KernelParts` share no state, so a theorem about `PartsSpec` is one about its
module: a step of another part stutters.

## 6. What is only model-checked

- Liveness: `Scheduled`, `KilledIsReaped`, `FreeLockIsTaken`, `LockIsFreed`, `CallsReturn`.
  TLAPS does not reason about fairness. `StuckAsKnown` is about ENABLED.
- `FsConsistent` (the scripts of `UserTests` are data), `BlocksConsistent`, `DevicesServed`,
  `StartsUp`, `MemConserved`, `PagedConserved`. Section 2 says which of them
  could be proved, and how.
- `ProgramsRight` and `ShellDoesAsMeant` rest on induction over data: `Libc`, `Filters` and
  `ShellSyntax` compare functions over sequences with a definition of what they mean, for
  all inputs up to a bound. `ShellSyntax`, `Shell` and `Filters` declare RECURSIVE
  operators; the modules with theorems do not reach them.
- The modules that have theorems are proved at the grain of the models. That a model is
  what the code does is what the comments in it and the map of PROJECT.json are for.

## 7. Findings

- `proc_newborn`. `kill` (`proc.c:506`) compares pids in slots of every state and
  `allocproc` clears neither `killed` nor the other fields. `kill(0)`, or a kill of the
  pid that a failed fork left behind, marks an UNUSED slot; the next process built
  there exits at its first system call.
- `log_bypass`. `bfree` changes the free map by `bwrite` (`fs.c:113`), `balloc` by
  `log_write`. A direct write of a map block carries the changes of an operation
  that has not committed to its home location; after a crash that operation has
  happened by half.
- `paging_sure`. After `swap_page` another CPU may take the frame just freed; the
  second `kalloc` (`paging.c:104`) returns 0 and is not tested.
- `paging_fork`. `copyuvm` keeps the address of the parent's page over a `kalloc`
  that may evict that very page (`vm.c:434`), and copies what `kfree` left there.

## 8. Seen while modelling, without a run

No text of the repository contradicts the following, or the part is not yet
modelled; they bound the models and later work starts from them.

- `kill(1)`, or a fault of init, makes init exit, and the kernel panics with "init
  exiting" (`proc.c:250`). `KillPids` leaves pid 1 out.
- A writer killed at a full pipe returns without waking the readers of what it
  has written (`pipe.c:86`). `NoLostWakeupReader` excludes that case.
- A kill between the test of `killed` and the sleep (`pipe.c:107`) leaves the
  process asleep until the pipe changes. It is in the model; `CallsReturn` holds
  because the other side acts or closes.
- `begin_op` reserves space against `LOGSIZE` blocks, `log_write` panics at one less
  (`log.c:218`, `mkfs.c:25`). Three operations that change `MAXOPBLOCKS` blocks each
  would panic; the operations of `sysfile.c` and `file.c` change fewer, so `OpWrites`
  is below `MAXOPBLOCKS`. That `log_write` tests the length before it takes `log.lock`
  is harmless for the same reason: `NoPanic`.
- `map_address` maps over an entry that has a frame without PTE_U; that frame is
  lost. `FramesOwnedOnce` therefore says at most one owner, not exactly one;
  `FramesConserved` of `PagedSpace` counts the lost ones.
- A guard page that is touched, or swapped out and read back, has PTE_U from then on. A
  fault beyond `sz` is never refused. After an sbrk past the page-table pages fork panics
  ("pte should exist"); sys_swap there, without a free frame, uses a null entry.
- No victim: page 0 is never one, and `swap_page` passes a null entry on
  (`paging.c:75`). `NoVictim`.
- A fault where no page-table page exists returns to the same fault for ever
  (`paging.c:108`), and takes a frame each time, until all memory has been swapped out.
- A page fault on user memory inside `pipewrite` or `piperead` sleeps with `p->lock`
  held (`pipe.c:94`).
- Lock-free statistics (`numallocblocks`, `fs.c:85`) are changed by several CPUs.

Storage:

- `balloc` begins a transaction inside its caller's, with the map's buffer locked
  (`fs.c:53`). A commit that has the map in its log, or a log without room, then
  waits for it for ever: `StuckInBalloc` says that this is the only way to stop.
- A direct write of the map or of a page between write_log and install_trans is
  undone by install_trans (`fs.c:113`, `paging.c:38`): blocks stay marked for good, or
  what the program had in the page is gone. `LostOnlyByRace` and `PageKept` of
  `SwapArea`, `SwapAccounted` and `ImplementsMemory` of `Paging` hold but for pages hit
  this way; `lost`, `Torn` and `Exposed` say which. `balloc_page` also keeps an
  array of 400 KB on a kernel stack of 4 KB.
- create and sys_unlink call iput for the directory with the inode locked
  (`sysfile.c`), and iput locks it: link and unlink of names in the same directory
  may wait for each other, and `link(x, ".")` waits for itself. `StuckOnlyInIput`.
- Two overlapping iputs of an inode without a name each see a count of 2
  (`fs.c:259-274`): nobody frees it. `RefsCounted` sets these inodes (`lost`) apart.
- A create or link in a directory that has been removed leaks the inode; the ".."
  of a removed directory may lead to a free inode, and ilock panics with "no type".
  ialloc panics when the disk has no inode left.
- mkfs rounds the size of the root directory up to a block (`mkfs.c`): when the
  directory just fills its blocks, the size covers one that is not mapped. It writes
  one block of bitmap.

Memory of `Part_A`:

- After a touch of the guard page, or of the byte at `sz` (`trap.c:94`), growing panics
  with "remap". `sbrk(-sz)` frees everything and reports failure, and a later fork
  panics: growproc takes the size 0 for an error. An sbrk below zero wraps. The fault
  branch ignores the result of mappages. `PanicOnlyBy` lists what can panic.
- sbrk still calls allocuvm: the allocation is not lazy, the fault branch serves only
  addresses that a program may not touch.
- In `Part_B`, deallocuvm frees the blocks of a swapped page and leaves its entry
  (`vm.c:275-278`); a second pass over it frees them again.

Devices and start:

- consolewrite and consoleread touch user memory with `cons.lock` held.
- `kbd.h` has Home at 0x97, the key sends E0 47: it types nothing. Releasing one Shift
  key ends the other; Caps Lock would toggle at every repeat.
- With gaps in the APIC ids, `ncpu - 1` (`ide.c`) is no CPU and the disk is never
  heard. A key pressed before its interrupt is routed leaves the line high: no edge
  comes any more. The vector of IDE1 is not acknowledged (it is masked).
- An entry of no known kind in the processor table makes mpinit loop for ever
  (`mp.c:131`) instead of panicking.
- A sector also overwrites what precedes a segment: the comment in `bootmain.c` holds
  for kernels as `ld` lays them out.

Schedulers and system calls of the other assignments:

- SJF starves a long job (`Group 3/.../proc.c:352`); only HBSJF bounds overtaking.
- `TimeQuanta` is read and written without a lock: `QuantumIsLeast` names the race.
- getProcInfo of `Group 3` takes any slot that is not UNUSED and follows its `parent`
  (`proc.c:724`). In a slot that allocproc has taken and fork has not filled in that is a
  null pointer, and the pid it returns is whatever lies there. `ParentForInfo` is about
  the other slots.
- sys_getProcInfo of `Group 3` ignores what argptr returns and has it check 4 bytes.
- getMaxPid of `180050024` counts pids of free slots, which failed forks leave behind.
- wolfie copies no NUL; the test program prints its buffer with %s all the same.

Programs:

- grep loses the beginning of a line that a pipe delivers in pieces, and prints no
  last line without a newline.
- In the shell `a > f > g` writes to f, and `>>` is `>`.
- malloc of almost 2^32 bytes wraps and returns a small piece.
