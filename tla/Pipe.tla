-------------------------------- MODULE Pipe --------------------------------
(***************************************************************************)
(* A pipe (Part_B/pipe.c) shared by processes that hold its write end or   *)
(* its read end.  p->lock is a variable: pipewrite and piperead keep it    *)
(* over their loops and give it up only inside sleep.  sleep itself is two *)
(* steps, as in proc.c: the caller has decided to sleep, then, under       *)
(* ptable.lock, it releases p->lock and is SLEEPING.  kill does not take   *)
(* p->lock, so it can come between the two.                                *)
(***************************************************************************)
EXTENDS Naturals, Sequences, FiniteSets

CONSTANTS
  Writers, Readers,   \* processes that hold the write end, the read end
  NoProc,             \* p->lock is free
  PIPESIZE,
  UintMod,            \* nread and nwrite are unsigned: they wrap at this value
  Lens,               \* bound: the lengths of a read or write
  Killable            \* the processes kill is called on

ASSUME SizeAssumption ==
  /\ PIPESIZE \in Nat \ {0} /\ UintMod \in Nat
  /\ UintMod > PIPESIZE /\ UintMod % PIPESIZE = 0
ASSUME LensAssumption == Lens # {} /\ Lens \subseteq Nat \ {0}
ASSUME ProcAssumption ==
  /\ Writers # {} /\ Readers # {}      \* pipealloc opens both ends
  /\ Writers \cap Readers = {} /\ NoProc \notin Writers \cup Readers
  /\ Killable \subseteq Writers \cup Readers

Procs == Writers \cup Readers
Byte  == Writers \X (UNION {0..(len - 1) : len \in Lens})   \* who wrote it, and its index in addr

\* What a process is doing in pipewrite or piperead:
\*   idle    not in the pipe          acquire  waits for p->lock
\*   loop    holds p->lock, at the test of the while loop
\*   copy    piperead copies bytes    sleepy   has called sleep, holds p->lock
\*   asleep  SLEEPING on its chan
Pcs == {"idle", "acquire", "loop", "copy", "sleepy", "asleep"}

VARIABLES
  data, nread, nwrite, readopen, writeopen, freed,   \* struct pipe
  lock,                                              \* holder of p->lock
  fds,                                               \* who still has its end open
  pc, i, n, killed                              \* per process

pipe == <<data, nread, nwrite>>
ends == <<readopen, writeopen, freed, fds>>
vars == <<pipe, ends, lock, pc, i, n, killed>>

Init ==
  /\ data = [k \in 0..(PIPESIZE - 1) |-> CHOOSE b \in Byte : TRUE]
  /\ nread = 0 /\ nwrite = 0
  /\ readopen = TRUE /\ writeopen = TRUE /\ freed = FALSE
  /\ lock = NoProc
  /\ fds = Procs
  /\ pc = [p \in Procs |-> "idle"]
  /\ i = [p \in Procs |-> 0] /\ n = [p \in Procs |-> 0]
  /\ killed = [p \in Procs |-> FALSE]

\* unsigned arithmetic (mutant: a wider type that does not wrap)
BadPlus(x, k) == x + k
Plus(x, k) == IF x + k < UintMod THEN x + k ELSE x + k - UintMod

\* (mutant: compared as integers, wrong when nwrite has wrapped)
BadFull == nwrite = nread + PIPESIZE
Full    == nwrite = Plus(nread, PIPESIZE)
Empty   == nread = nwrite

\* the processes sleeping on &p->nread are readers, on &p->nwrite writers;
\* a woken process has to acquire p->lock again inside sleep
Woken(S) == [p \in Procs |-> IF p \in S /\ pc[p] = "asleep" THEN "acquire" ELSE pc[p]]

-----------------------------------------------------------------------------
(* Entering, sleeping, being killed *)

\* read and write of file.c; the call carries n bytes
Call(p, len) ==
  /\ pc[p] = "idle" /\ p \in fds /\ ~killed[p]
  /\ pc' = [pc EXCEPT ![p] = "acquire"]
  /\ i'  = [i EXCEPT ![p] = 0]
  /\ n'  = [n EXCEPT ![p] = len]
  /\ UNCHANGED <<pipe, ends, lock, killed>>

Acquire(p) ==
  /\ pc[p] = "acquire" /\ lock = NoProc
  /\ lock' = p
  /\ pc'   = [pc EXCEPT ![p] = "loop"]
  /\ UNCHANGED <<pipe, ends, i, n, killed>>

Sleep(p) ==
  /\ pc[p] = "sleepy"
  /\ lock' = NoProc
  /\ pc'   = [pc EXCEPT ![p] = "asleep"]
  /\ UNCHANGED <<pipe, ends, i, n, killed>>

\* kill of proc.c: marks the process, wakes it when it is SLEEPING
Kill(p) ==
  /\ ~killed[p]
  /\ killed' = [killed EXCEPT ![p] = TRUE]
  /\ pc'     = Woken({p})
  /\ UNCHANGED <<pipe, ends, lock, i, n>>

\* wake, release p->lock and return; i and n die
Return(p, wake) ==
  /\ lock' = NoProc
  /\ pc'   = [Woken(wake) EXCEPT ![p] = "idle"]
  /\ i'    = [i EXCEPT ![p] = 0]
  /\ n'    = [n EXCEPT ![p] = 0]
  /\ UNCHANGED <<pipe, ends, killed>>

-----------------------------------------------------------------------------
(* pipewrite *)

WriteByte(w) ==
  /\ pc[w] = "loop" /\ i[w] < n[w] /\ ~Full
  /\ data'   = [data EXCEPT ![nwrite % PIPESIZE] = <<w, i[w]>>]
  /\ nwrite' = Plus(nwrite, 1)
  /\ i'      = [i EXCEPT ![w] = @ + 1]
  /\ UNCHANGED <<nread, ends, lock, pc, n, killed>>

WriteFail(w) ==
  /\ pc[w] = "loop" /\ i[w] < n[w] /\ Full
  /\ ~readopen \/ killed[w]
  /\ Return(w, {})

\* who is woken before the writer sleeps (mutant: nobody)
BadWokenByFull == {}
WokenByFull == Readers

WriteBlock(w) ==
  /\ pc[w] = "loop" /\ i[w] < n[w] /\ Full
  /\ readopen /\ ~killed[w]
  /\ pc' = [Woken(WokenByFull) EXCEPT ![w] = "sleepy"]
  /\ UNCHANGED <<pipe, ends, lock, i, n, killed>>

WriteDone(w) ==
  /\ pc[w] = "loop" /\ i[w] = n[w]
  /\ Return(w, Readers)

-----------------------------------------------------------------------------
(* piperead *)

\* (mutant: a read of an empty pipe does not wait for the writers to close)
BadMustWait == FALSE
MustWait == Empty /\ writeopen

ReadBlock(r) ==
  /\ pc[r] = "loop" /\ MustWait /\ ~killed[r]
  /\ pc' = [pc EXCEPT ![r] = "sleepy"]
  /\ UNCHANGED <<pipe, ends, lock, i, n, killed>>

ReadKilled(r) ==
  /\ pc[r] = "loop" /\ MustWait /\ killed[r]
  /\ Return(r, {})

ReadStart(r) ==
  /\ pc[r] = "loop" /\ ~MustWait
  /\ pc' = [pc EXCEPT ![r] = "copy"]
  /\ UNCHANGED <<pipe, ends, lock, i, n, killed>>

ReadByte(r) ==
  /\ pc[r] = "copy" /\ i[r] < n[r] /\ ~Empty
  /\ nread' = Plus(nread, 1)
  /\ i'     = [i EXCEPT ![r] = @ + 1]
  /\ UNCHANGED <<data, nwrite, ends, lock, pc, n, killed>>

\* (mutant: writers are not told that there is room)
BadWokenByRead == {}
WokenByRead == Writers

ReadDone(r) ==
  /\ pc[r] = "copy" /\ (i[r] = n[r] \/ Empty)
  /\ Return(r, WokenByRead)

-----------------------------------------------------------------------------
(* pipeclose, called by fileclose for the last descriptor of an end *)

LastOf(side, p) == fds \cap side = {p}

\* a killed process closes its descriptors in exit
CloseFd(p) ==
  /\ pc[p] = "idle" /\ p \in fds
  /\ ~LastOf(Writers, p) /\ ~LastOf(Readers, p)
  /\ fds' = fds \ {p}
  /\ UNCHANGED <<pipe, readopen, writeopen, freed, lock, pc, i, n, killed>>

\* (mutant: kfree as soon as one end is closed)
BadUnused(ropen, wopen) == ~ropen \/ ~wopen
Unused(ropen, wopen) == ~ropen /\ ~wopen

CloseWriter(w) ==
  /\ pc[w] = "idle" /\ LastOf(Writers, w) /\ lock = NoProc
  /\ fds' = fds \ {w}
  /\ writeopen' = FALSE
  /\ freed' = Unused(readopen, FALSE)
  /\ pc' = Woken(Readers)
  /\ UNCHANGED <<pipe, readopen, lock, i, n, killed>>

CloseReader(r) ==
  /\ pc[r] = "idle" /\ LastOf(Readers, r) /\ lock = NoProc
  /\ fds' = fds \ {r}
  /\ readopen' = FALSE
  /\ freed' = Unused(FALSE, writeopen)
  /\ pc' = Woken(Writers)
  /\ UNCHANGED <<pipe, writeopen, lock, i, n, killed>>

-----------------------------------------------------------------------------
Pipewrite(w) == WriteByte(w) \/ WriteFail(w) \/ WriteBlock(w) \/ WriteDone(w)
Piperead(r)  == ReadBlock(r) \/ ReadKilled(r) \/ ReadStart(r) \/ ReadByte(r) \/ ReadDone(r)
Close(p)     == CloseFd(p) \/ (p \in Writers /\ CloseWriter(p)) \/ (p \in Readers /\ CloseReader(p))

Step(p) ==
  \/ \E len \in Lens : Call(p, len)
  \/ Acquire(p) \/ Sleep(p) \/ Close(p)
  \/ p \in Writers /\ Pipewrite(p)
  \/ p \in Readers /\ Piperead(p)

Next ==
  \/ \E p \in Procs : Step(p)
  \/ \E p \in Killable : Kill(p)
  \/ fds = {} /\ UNCHANGED vars        \* both ends closed: nothing is left to do

Spec == Init /\ [][Next]_vars

(* Fairness: a process in the pipe code executes, and its spinning acquire finds
   the lock free in the end; a process that holds a descriptor goes on using it
   or closes it, at the latest in exit. *)
FairSpec == Spec /\ \A p \in Procs : SF_vars(Step(p))

-----------------------------------------------------------------------------
(* Properties *)

TypeOK ==
  /\ data \in [0..(PIPESIZE - 1) -> Byte]
  /\ nread \in 0..(UintMod - 1) /\ nwrite \in 0..(UintMod - 1)
  /\ readopen \in BOOLEAN /\ writeopen \in BOOLEAN /\ freed \in BOOLEAN
  /\ lock \in Procs \cup {NoProc}
  /\ fds \subseteq Procs
  /\ pc \in [Procs -> Pcs]
  /\ n \in [Procs -> Lens \cup {0}] /\ i \in [Procs -> Nat] /\ \A p \in Procs : i[p] <= n[p]
  /\ killed \in [Procs -> BOOLEAN]

\* pipewrite/piperead/pipeclose: when nobody is inside, a writer sleeps only on
\* a full pipe that someone can still read.
NoLostWakeupWriter ==
  lock = NoProc =>
    \A w \in Writers : pc[w] = "asleep" => Full /\ readopen

\* A reader sleeps only on an empty pipe that someone can still write to, as long
\* as no writer was killed: a killed writer that finds the pipe full returns -1
\* without waking the readers of the bytes it has already put there (pipe.c:86).
NoLostWakeupReader ==
  lock = NoProc =>
    \A r \in Readers : pc[r] = "asleep" =>
       writeopen /\ (Empty \/ \E w \in Writers : killed[w])

\* The ring buffer: bytes leave in the order they came, none is lost or made up,
\* also when nread and nwrite wrap; refinement of ByteStream.
Contents ==
  [k \in 1..(IF nwrite >= nread THEN nwrite - nread ELSE nwrite + UintMod - nread)
     |-> data[(nread + k - 1) % PIPESIZE]]

Stream == INSTANCE ByteStream
  WITH Capacity <- PIPESIZE, stream <- Contents, wopen <- writeopen, ropen <- readopen
ImplementsStream == Stream!Spec

\* End of file: a read returns no byte only when no byte is left and no writer
\* can add one.
EofIsFinal ==
  [][\A r \in Readers :
       pc[r] = "copy" /\ pc'[r] = "idle" /\ i[r] = 0 => Empty /\ ~writeopen]_vars

\* pipeclose frees the pipe when the last end is closed, and then nobody is in it.
NoUseAfterFree == freed => lock = NoProc /\ fds = {} /\ \A p \in Procs : pc[p] = "idle"

\* Whatever readers, writers, kills and closes interleave: nobody sleeps on what has
\* happened, and the pipe is freed once and then left alone.
PipeConsistent == TypeOK /\ NoLostWakeupWriter /\ NoLostWakeupReader /\ NoUseAfterFree

\* Readers get the bytes in order, all of them, and then the end of file.
ReadsInOrder == ImplementsStream /\ EofIsFinal

\* A call returns, unless the other processes that share its end take every turn
\* from it: the other side goes on, closes its end or the caller is killed.
Alone(p) == \A q \in Procs \ {p} : pc[q] # "idle" => (q \in Readers <=> p \notin Readers)
CallsReturn == \A p \in Procs : pc[p] # "idle" /\ Alone(p) ~> pc[p] = "idle" \/ ~Alone(p)

=============================================================================
