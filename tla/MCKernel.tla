------------------------------ MODULE MCKernel ------------------------------
(***************************************************************************)
(* The modules that have no run of their own, on small instances: those of *)
(* KernelParts, and the others, composed in the same way.                  *)
(*                                                                         *)
(* part says which module moves in a behaviour, the others stay in their   *)
(* initial state.  So the states are those of the modules, one after the   *)
(* other.  A property of a module is asked only in its own parts:          *)
(* elsewhere it would be evaluated again and again in one initial state.   *)
(***************************************************************************)
EXTENDS KernelParts, SequencesExt, TLC

CONSTANTS
  u1, u2, b1, b2, b3,              \* processes and blocks of Disk
  Tester, Kid1, Kid2,              \* processes of FileSys
  NoMemory

Parts ==
  ProvedParts \cup
  {"files", "blocks", "keyboard", "interrupts", "date", "loader", "boot", "memory",
   "sbrktest", "paged", "shell", "filters", "libc"}

\* files and their blocks
VARIABLES
  itype, nlink, ents, fsData, ref, fsValid, iowner, fref, ftype, fip, foff, fmode, ofile,
  cwd, fsK, reg, call, at, forked, test, fsVerdict, fsLost
fsvars == <<
  itype, nlink, ents, fsData, ref, fsValid, iowner, fref, ftype, fip, foff, fmode, ofile,
  cwd, fsK, reg, call, at, forked, test, fsVerdict, fsLost>>
VARIABLES
  blocksPhase, marked, freeblock, blocksBytes, indirect, addrs, fsize, written, fbcalls
blocksvars == <<
  blocksPhase, marked, freeblock, blocksBytes, indirect, addrs, fsize, written, fbcalls>>

\* keyboard, interrupts, clock chip
VARIABLES
  held, caps, doubled, keysLine, shift, keysTyped
keysvars == <<
  held, caps, doubled, keysLine, shift, keysTyped>>
VARIABLES
  intrStep, enabled, dest, lapicOn, irr, isr, mode, intrPhase, has, early
intrvars == <<
  intrStep, enabled, dest, lapicOn, irr, isr, mode, intrPhase, has, early>>
VARIABLES
  regs, uip, going, seconds, bcd, tpc, t1, t2, rtcShown
rtcvars == <<
  regs, uip, going, seconds, bcd, tpc, t1, t2, rtcShown>>

\* from the boot sector to the last CPU
VARIABLES
  kernel, loadLpc, ph, pa, offset, ram
loadvars == <<
  kernel, loadLpc, ph, pa, offset, ram>>
VARIABLES
  bootStage, bootEntries, cpus, starting, free, counted, initial, useLock, mailbox, core,
  stack, bootStarted, bootUsed, ready, allocs
bootvars == <<
  bootStage, bootEntries, cpus, starting, free, counted, initial, useLock, mailbox, core,
  stack, bootStarted, bootUsed, ready, allocs>>

\* user memory
VARIABLES
  memLive, memSz, memPte, memTabs, memFrames, memPanic, memLost, memEmptied, memBeyond,
  memTouched
memvars == <<
  memLive, memSz, memPte, memTabs, memFrames, memPanic, memLost, memEmptied, memBeyond,
  memTouched>>
VARIABLES
  sbrkLive, sbrkSz, sbrkPte, sbrkTabs, sbrkFrames, sbrkPanic, sbrkLost, sbrkEmptied,
  sbrkBeyond, sbrkTouched, sbrkStep, saved, oldbrk, lastbyte, kid, sbrkStarted, sat,
  sbrkVerdict
sbrkvars == <<
  sbrkLive, sbrkSz, sbrkPte, sbrkTabs, sbrkFrames, sbrkPanic, sbrkLost, sbrkEmptied,
  sbrkBeyond, sbrkTouched, sbrkStep, saved, oldbrk, lastbyte, kid, sbrkStarted, sat,
  sbrkVerdict>>
VARIABLES
  pageLive, pageSz, pageTabs, pagePte, pageFrames, blocks, numallocblocks, pageLost, stop,
  grown
pagevars == <<
  pageLive, pageSz, pageTabs, pagePte, pageFrames, blocks, numallocblocks, pageLost, stop,
  grown>>

\* what runs on the kernel, and how it calls it
VARIABLES
  cmd, shLine, alive, shParent, todo, fd, shP, objs, shBytes, shSize, shShown, ended,
  shNfail
shvars == <<
  cmd, shLine, alive, shParent, todo, fd, shP, objs, shBytes, shSize, shShown, ended,
  shNfail>>
VARIABLES
  filtJob, filtBuf, printed, source, text, pattern, unread, filtL, filtW, filtC, inword,
  path, lsEntries, kind, lsLpc, off, read
filtvars == <<
  filtJob, filtBuf, printed, source, text, pattern, unread, filtL, filtW, filtC, inword,
  path, lsEntries, kind, lsLpc, off, read>>
VARIABLES
  libcMem, fmt, arg
libcvars == <<
  libcMem, fmt, arg>>

-----------------------------------------------------------------------------
(* Inputs                                                                    *)

\* Clock: how long processes ask to sleep
SleepNaps == {-1, 0, 2}

\* Disk: what each process does with blocks
UsesOfDisk == (u1 :> {<<"write", b1>>, <<"install", b1>>}) @@
              (u2 :> {<<"write", b2>>, <<"change", b1>>, <<"read", b3>>})

\* FileSys: the tests of usertests.c
Tests == INSTANCE UserTests WITH Main <- Tester

\* Loader: an image of one segment, of two that meet in a sector, of two on their own
Segment(to, from, filesz, memsz) == [paddr |-> to, off |-> from, filesz |-> filesz, memsz |-> memsz]
One == {<<Segment(3, o, f, f + z)>> : o \in {2, 3, 4}, f \in 0..4, z \in 0..3}
Joined ==
  {<<Segment(3, 1, f, f), Segment(3 + f + g, 1 + f + g, h, h + z)>> : f \in 1..3, g \in 0..3, h \in 1..3, z \in 0..2}
Aligned ==
  {<<Segment(3, 1, f, f + y), Segment(6 + y + x, 6, h, h + z)>> :
     f \in 1..3, x \in 0..2, y \in 0..1, h \in 1..3, z \in 0..2}
KernelImages ==
  {[magic |-> TRUE, segs |-> s] : s \in One \cup Joined \cup Aligned} \cup {[magic |-> FALSE, segs |-> <<Segment(3, 1, 2, 2)>>]}

\* Boot: machines with one to four CPUs, their tables in each of the places searched, some
\* damaged, one with an entry of no known kind, one with no table
Cpu(i) == [kind |-> "proc", apicid |-> i]
IoApic == [kind |-> "ioapic"]
Table(es) == [signed |-> TRUE, version |-> 4, sum |-> 0, entries |-> es]
Pointer(s, t) == [sum |-> s, physaddr |-> 1, conf |-> t]
Firmware(ebda, low, bios) == [hasEbda |-> ebda, ebda |-> IF ebda THEN low ELSE <<>>, base |-> low, bios |-> bios]
Firmwares ==
  {Firmware(TRUE, <<Pointer(1, Table(<<Cpu(1)>>)), Pointer(0, Table(<<Cpu(1), Cpu(2), IoApic, Cpu(3)>>))>>, <<>>),
   Firmware(TRUE, <<>>, <<Pointer(0, Table(<<Cpu(2), Cpu(1)>>))>>),
   Firmware(FALSE, <<Pointer(0, Table(<<Cpu(1), Cpu(2), Cpu(3), IoApic, Cpu(4)>>))>>, <<>>),
   Firmware(FALSE, <<Pointer(0, Table(<<Cpu(2), Cpu(3), Cpu(4), Cpu(1)>>))>>, <<>>),
   Firmware(FALSE, <<Pointer(0, Table(<<Cpu(1), [kind |-> "unknown"]>>))>>, <<>>),
   Firmware(FALSE, <<[Pointer(0, Table(<<>>)) EXCEPT !.physaddr = 0]>>, <<Pointer(0, Table(<<Cpu(1)>>))>>)}

\* AddrSpace: programs; the last one's arguments do not fit on the stack
Loadable(to, memsz, readable) == [vaddr |-> to, memsz |-> memsz, filesz |-> 1, readable |-> readable]
ProgramImages ==
  {[segs |-> <<Loadable(0, 1, TRUE)>>, args |-> 1],
   [segs |-> <<Loadable(0, 1, TRUE), Loadable(2, 1, FALSE)>>, args |-> 1],
   [segs |-> <<Loadable(0, 1, TRUE)>>, args |-> 3]}

\* PagedSpace: a program of one page, and one that cannot be read
PagedImages == {[size |-> 1, good |-> g] : g \in BOOLEAN}

\* Filters: texts of two letters and newlines, and a few with blanks
Texts ==
  UNION {[1..n -> {"a", "b", "newline"}] : n \in 0..4}
    \cup {<<"a", " ", "b", "newline", " ", "a">>, <<"newline", "a", "b", "newline", "b">>, <<"a", "a", "a", "a", "newline">>,
     <<"a", "newline", "b", "b", "newline">>}
Patterns ==
  {<<"a">>, <<"^", "b">>, <<"b", "$">>, <<"a", "*", "b">>, <<".", "*", "a">>, <<"^", "$">>, <<".", ".">>,
   <<"^", "a", "*", "$">>, <<"*">>, <<"b", "*">>}

\* Filters: ls
LsPaths == {<<".">>, <<"a">>, <<"a", "/">>, <<"/">>, <<"a", "/", "b", "b">>, <<"a", "a", "/", "b", "b">>}
Dots == <<<<".">>, <<".", ".">>>>
LsDirectories == {Dots, Dots \o <<<<"a", "b", "a">>, <<>>, <<"b">>>>, Dots \o <<<<"a", "b">>, <<"a">>, <<"b">>>>}

\* Libc: formats
Formats == UNION {[1..n -> {"%", "d", "c", "x", "y"}] : n \in 1..3}

\* Shell: what a user means, and lines with errors of syntax
Syntax == INSTANCE ShellSyntax WITH MAXARGS <- 4
Program(word) == Syntax!Exec(<<word>>)
Commands ==
  LET Run(word) == Program(word) IN
  {Syntax!Pipe(Run("yes"), Syntax!Pipe(Run("cat"), Run("cat"))),
   Syntax!Pipe(Run("yes"), Run("true")),
   Syntax!Pipe(Syntax!List(Run("echo"), Run("echo")), Run("cat")),
   Syntax!List(Syntax!Redir(Run("echo"), "f", 1), Syntax!Redir(Run("cat"), "f", 0)),
   Syntax!List(Syntax!Back(Run("yes")), Run("echo")),
   Syntax!Redir(Syntax!Redir(Run("echo"), "f", 1), "g", 1),
   Syntax!List(Syntax!Pipe(Run("true"), Run("cat")), Syntax!List(Syntax!Exec(<<"echo", "f">>), Run("true"))),
   Syntax!Back(Syntax!Pipe(Run("yes"), Run("cat"))),
   Syntax!Redir(Run("cat"), "missing", 0),
   Syntax!List(Syntax!List(Run("nosuch"), Run("echo")), Run("true")),
   Syntax!Pipe(Syntax!Exec(<<>>), Run("cat")),
   Syntax!Redir(Syntax!List(Run("echo"), Run("yes")), "f", 1)}
BadLines == {<<"echo", "(">>, <<"(", "echo">>, <<"echo", "<">>, <<"echo", "f", "g", "f">>, <<"echo", ")">>}

-----------------------------------------------------------------------------
(* The other modules, with the sizes they are checked with.                  *)

F == INSTANCE FileSys WITH
       Main <- Tester, Users <- {Tester, Kid1, Kid2}, NINODES <- 7, NFILE <- 4, NOFILE <- 3,
       MAXFILE <- 4, NoTest <- "none", Scripts <- Tests!scripts(4), data <- fsData,
       valid <- fsValid, k <- fsK, verdict <- fsVerdict, lost <- fsLost
X == INSTANCE FileBlocks WITH
       Files <- {"/", "f"}, Root <- "/", BSIZE <- 2, FSSIZE <- 10, NMETA <- 1, BPB <- 9,
       NDIRECT <- 1, NINDIRECT <- 2, Amounts <- {1, 3}, Values <- {1, 2}, MaxCalls <- 4,
       phase <- blocksPhase, bytes <- blocksBytes

K == INSTANCE Keyboard WITH
       MaxHeld <- 2, MaxBytes <- 2, line <- keysLine, typed <- keysTyped
I == INSTANCE Interrupts WITH
       NCPU <- 2, ApicIds <- <<0, 1>>, MaxData <- 2, step <- intrStep, phase <- intrPhase
R == INSTANCE Rtc WITH
       StartTime <- <<58, 59, 9>>, MaxSeconds <- 2, shown <- rtcShown

L == INSTANCE Loader WITH
       SECTSIZE <- 3, MEMSIZE <- 20, Kernels <- KernelImages, lpc <- loadLpc
O == INSTANCE Boot WITH
       Cpus <- 1..4, BootCpu <- 1, NCPU <- 3, Firmwares <- Firmwares, PGSIZE <- 4,
       KEND <- 6, LOW <- 26, PHYSTOP <- 43, MaxAllocs <- 2, NoPage <- 99,
       stage <- bootStage, entries <- bootEntries, started <- bootStarted, used <- bootUsed

M == INSTANCE AddrSpace WITH
       Procs <- {1, 2}, PGSIZE <- 2, NPT <- 2, NPAGES <- 5, FRAMES <- 12, KTABLES <- 1,
       Images <- ProgramImages, Deltas <- {1, 3, -2, -10}, live <- memLive, sz <- memSz,
       pte <- memPte, tabs <- memTabs, frames <- memFrames, panic <- memPanic,
       lost <- memLost, emptied <- memEmptied, beyond <- memBeyond, touched <- memTouched
Q == INSTANCE SbrkTest WITH
       Procs <- 1..4, PGSIZE <- 2, NPT <- 2, NPAGES <- 9, FRAMES <- 36, KTABLES <- 1,
       Images <- {}, Deltas <- {}, BIG <- 16, SMALL <- 3, live <- sbrkLive, sz <- sbrkSz,
       pte <- sbrkPte, tabs <- sbrkTabs, frames <- sbrkFrames, panic <- sbrkPanic,
       lost <- sbrkLost, emptied <- sbrkEmptied, beyond <- sbrkBeyond,
       touched <- sbrkTouched, step <- sbrkStep, started <- sbrkStarted,
       verdict <- sbrkVerdict
Y == INSTANCE PagedSpace WITH
       Procs <- {1, 2}, PGSIZE <- 2, NPT <- 2, NPAGES <- 4, FRAMES <- 13, NSWAP <- 2,
       KTABLES <- 1, Images <- PagedImages, Deltas <- {3}, live <- pageLive,
       sz <- pageSz, tabs <- pageTabs, pte <- pagePte, frames <- pageFrames,
       lost <- pageLost

S == INSTANCE Shell WITH
       MAXARGS <- 4, NPROC <- 7, NOFILE <- 8, PIPESIZE <- 1, MAXFAIL <- 1,
       Commands <- Commands, BadLines <- BadLines, line <- shLine, parent <- shParent,
       p <- shP, bytes <- shBytes, size <- shSize, shown <- shShown, nfail <- shNfail
E == INSTANCE Filters WITH
       BUF <- 5, WCBUF <- 2, Texts <- Texts, Patterns <- Patterns,
       DIRSIZ <- 3, BUFSIZE <- 8, Paths <- LsPaths, Directories <- LsDirectories,
       job <- filtJob, buf <- filtBuf, l <- filtL, w <- filtW, c <- filtC,
       entries <- lsEntries, lpc <- lsLpc
Z == INSTANCE Libc WITH
       MEM <- 5, NEWLINE <- 2, CHARS <- {0, 1, 2}, DIRSIZ <- 2, INTS <- 32,
       Formats <- Formats, mem <- libcMem

-----------------------------------------------------------------------------
filesvars == <<fsvars, blocksvars>>
devicesvars == <<keysvars, intrvars, rtcvars>>
startingvars == <<loadvars, bootvars>>
memoryvars == <<memvars, sbrkvars, pagevars>>
programsvars == <<shvars, filtvars, libcvars>>
othervars == <<filesvars, devicesvars, startingvars, memoryvars, programsvars>>
vars == <<part, partsvars, othervars>>

Init ==
  /\ part \in Parts
  /\ PartsInit
  /\ part # "bursts" => policy = "SJF"          \* no other part looks at it
  /\ F!Init /\ X!Init /\ K!Init /\ I!Init /\ R!Init /\ O!Init
  /\ L!Init /\ M!Init /\ Q!TestInit /\ Y!Init /\ S!Init /\ E!Init /\ Z!Init

Files ==
  \/ part = "files" /\ F!Next /\ UNCHANGED blocksvars
  \/ part = "blocks" /\ X!Next /\ UNCHANGED fsvars

Devices ==
  \/ part = "keyboard" /\ K!Next /\ UNCHANGED <<intrvars, rtcvars>>
  \/ part = "interrupts" /\ I!Next /\ UNCHANGED <<keysvars, rtcvars>>
  \/ part = "date" /\ R!Next /\ UNCHANGED <<keysvars, intrvars>>

Starting ==
  \/ part = "loader" /\ L!Next /\ UNCHANGED <<bootvars>>
  \/ part = "boot" /\ O!Next /\ UNCHANGED <<loadvars>>

Memory ==
  \/ part = "memory" /\ M!Next /\ UNCHANGED <<sbrkvars, pagevars>>
  \/ part = "sbrktest" /\ Q!TestNext /\ UNCHANGED <<memvars, pagevars>>
  \/ part = "paged" /\ Y!Next /\ UNCHANGED <<memvars, sbrkvars>>

Programs ==
  \/ part = "shell" /\ S!Next /\ UNCHANGED <<filtvars, libcvars>>
  \/ part = "filters" /\ E!Next /\ UNCHANGED <<shvars, libcvars>>
  \/ part = "libc" /\ Z!Next /\ UNCHANGED <<shvars, filtvars>>

Next ==
  \/ PartsNext /\ UNCHANGED othervars
  \/ /\ \/ Files /\ UNCHANGED <<devicesvars, startingvars, memoryvars, programsvars>>
        \/ Devices /\ UNCHANGED <<filesvars, startingvars, memoryvars, programsvars>>
        \/ Starting /\ UNCHANGED <<filesvars, devicesvars, memoryvars, programsvars>>
        \/ Memory /\ UNCHANGED <<filesvars, devicesvars, startingvars, programsvars>>
        \/ Programs /\ UNCHANGED <<filesvars, devicesvars, startingvars, memoryvars>>
     /\ UNCHANGED <<part, partsvars>>

Spec == Init /\ [][Next]_vars

-----------------------------------------------------------------------------
(* The properties of the other modules, stated there.                        *)

\* fs.c, file.c and sysfile.c: whatever system calls interleave, counts and links are exact,
\* nothing in use is freed, and usertests.c gets the results it insists on.
FsConsistent ==
  part = "files" =>
    /\ F!TypeOK                 \* inodes, files and processes are in states they can be in
    /\ F!RefsCounted            \* reference counts of inodes and files are what there is
    /\ F!LinksCounted           \* nlink is the number of names
    /\ F!NothingDangles         \* no name, open file or current directory leads to a free inode
    /\ F!TestsPass              \* usertests.c: every test that ends has passed

\* Processes that call the file system and the swap area stop for ever in two ways only.
StuckAsKnown ==
  /\ part = "swap" =>
       /\ W!StuckInBalloc          \* the only deadlock is the begin_op inside balloc
  /\ part = "files" =>
       /\ F!StuckOnlyInIput        \* the only deadlock is an iput of a locked inode

\* readi, writei, bmap, itrunc and mkfs.c agree on what the blocks of a file are.
BlocksConsistent ==
  part = "blocks" =>
    /\ X!ReadBack               \* files give back what was last written, by mkfs or the kernel
    /\ X!BlocksOnce             \* bmap: no block is used twice
    /\ X!BitmapExact            \* balloc, bfree, mkfs: the bitmap marks the blocks in use and no other

\* kbdgetc, trap with the interrupt controllers, and cmostime: nothing a device says is lost or
\* misunderstood.
DevicesServed ==
  /\ part = "keyboard" =>
       /\ K!ModifiersHeld          \* kbdgetc: no modifier is stuck
       /\ K!TypedAsMeant           \* kbdgetc: each key gives the character its modifiers mean
  /\ part = "interrupts" =>
       /\ I!NothingInService       \* trap acknowledges every interrupt
       /\ I!NoneForgotten          \* no device with data is left without an interrupt
  /\ part = "date" =>
       /\ R!GenuineTime            \* cmostime returns a time that the clock showed

\* bootmain, kinit1, kinit2 and startothers bring up every CPU on memory of its own.
StartsUp ==
  /\ part = "loader" =>
       /\ L!AllLoaded              \* bootmain loads every byte of every segment
  /\ part = "boot" =>
       /\ O!TypeOK                 \* kinit1, kinit2: every page is free, once, or handed out
       /\ O!OwnStacks              \* startothers: every CPU has a stack of its own
       /\ O!StackMapped            \* startothers: a CPU on entrypgdir has its stack where that maps it
       /\ O!UnlockedAlone          \* kalloc takes no lock only while one CPU runs processes
       /\ O!AllCpusUp              \* startothers waits in vain for no CPU, and main goes on when all are up

\* Lazy allocation of Part_A: whatever fails half-way gives back what it has taken.
MemConserved ==
  /\ part = "memory" =>
       /\ M!TypeOK                 \* pages have their page-table page
       /\ M!FramesConserved        \* allocuvm, copyuvm, exec, trap: no frame is lost or shared, whatever fails
       /\ M!SizeIsMapped           \* the pages below sz are mapped, and no others
       /\ M!PanicOnlyBy            \* three things a program can do panic the kernel, and no others
  /\ part = "sbrktest" =>
       /\ Q!Passes                 \* sbrktest of usertests.c finds nothing wrong

\* User memory of Part_B: whatever is swapped out and in, and whatever fails half-way, frames and
\* swap pages are accounted for.
PagedConserved ==
  part = "paged" =>
    /\ Y!TypeOK                 \* pages have their page-table page, and frames and swap pages are not overdrawn
    /\ Y!FramesConserved        \* faults, swaps, fork and exec: no frame is lost but where the code forgets it
    /\ Y!BstatExact             \* sys_bstat counts the pages that are swapped out, and each has its blocks
    /\ Y!StopsOnlyBy            \* copyuvm: "pte should exist" only after an sbrk past the page-table pages

\* sh.c: every line is parsed as its grammar says and run as it means, in every order of its
\* processes, and ends.
ShellDoesAsMeant ==
  part = "shell" =>
    /\ S!TypeOK                 \* descriptors refer to open files, and processes that are gone hold nothing
    /\ S!ParsedAsMeant          \* parsecmd understands what is meant
    /\ S!DoneAsMeant            \* runcmd does what the line means, whatever order its processes run in
    /\ S!NobodyStuck            \* no process of a pipeline waits for ever
    /\ S!ForegroundEnded        \* main waits for the programs in the foreground

\* grep.c, wc.c, ls.c, ulib.c, string.c and printf.c compute what they are for, wherever their
\* buffers end.
ProgramsRight ==
  /\ part = "filters" =>
       /\ E!MatchAsMeant           \* match of grep.c finds what the pattern means
       /\ E!GrepPrintsMatches      \* grep prints the lines that match, wherever its buffer ends
       /\ E!WcCounts               \* wc counts lines, words and characters, however read cuts them
       /\ E!BufferHolds            \* ls: path and name fit into buf
       /\ E!AllListed              \* ls lists what is there, once
  /\ part = "libc" =>
       /\ Z!Moved                  \* memmove moves memory as it was
       /\ Z!NameFound              \* a name stored with strncpy is found with strncmp
       /\ Z!SafelyCopied           \* safestrcpy terminates and stays in its n characters
       /\ Z!StringsAgree           \* strcpy, strcmp and strchr agree
       /\ Z!LinesKept              \* gets loses and doubles no character
       /\ Z!PrintAlike             \* cprintf and printf print the same
       /\ Z!NumbersReadBack        \* atoi reads what printf prints

=============================================================================
