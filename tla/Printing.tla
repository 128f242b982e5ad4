------------------------------ MODULE Printing ------------------------------
(***************************************************************************)
(* console.c: how CPUs print.  cprintf takes cons.lock only while          *)
(* cons.locking is set; panic clears it so that its own message never      *)
(* waits for the lock, whoever holds it; and a CPU that wants to print     *)
(* after that message freezes.                                             *)
(*                                                                         *)
(* A message has LENGTH characters, a panic prints PIECES of them (cprintf *)
(* is called for each).  A CPU calls cprintf, write (consolewrite) or      *)
(* panic, MaxCalls times in all; cprintf(0) panics with the lock held.     *)
(***************************************************************************)
EXTENDS Naturals, Sequences, FiniteSets

CONSTANTS Cpus, NoCpu, LENGTH, PIECES, MaxCalls

VARIABLES
  locking, panicked, holder,   \* cons.locking, panicked; who holds cons.lock
  ppc, took, left,             \* of a CPU: where it is, cprintf's own locking, characters to print
  pieces,                      \* messages its panic has left to print; 0 when there is none
  screen,                      \* what is printed, who by
  pcalls

pvars == <<locking, panicked, holder, ppc, took, left, pieces, screen, pcalls>>

Init ==
  /\ locking = TRUE /\ panicked = FALSE /\ holder = NoCpu
  /\ ppc = [c \in Cpus |-> "idle"] /\ took = [c \in Cpus |-> FALSE]
  /\ left = [c \in Cpus |-> 0] /\ pieces = [c \in Cpus |-> 0]
  /\ screen = <<>> /\ pcalls = 0

Panicking(c) == pieces[c] > 0

-----------------------------------------------------------------------------

\* cprintf: locking = cons.locking
Begin(c) ==
  /\ took' = [took EXCEPT ![c] = locking] /\ left' = [left EXCEPT ![c] = LENGTH]
  /\ ppc' = [ppc EXCEPT ![c] = IF locking THEN "acquire" ELSE "put"]

Cprintf(c) ==
  /\ ppc[c] = "idle" /\ pcalls < MaxCalls /\ pcalls' = pcalls + 1 /\ Begin(c)
  /\ UNCHANGED <<locking, panicked, holder, pieces, screen>>

\* consolewrite, and consoleintr when it echoes, take the lock in any case (mutant:
\* they print at once)
BadEntry == "put"
Entry == "acquire"

Consolewrite(c) ==
  /\ ppc[c] = "idle" /\ pcalls < MaxCalls /\ pcalls' = pcalls + 1
  /\ took' = [took EXCEPT ![c] = TRUE] /\ left' = [left EXCEPT ![c] = LENGTH]
  /\ ppc' = [ppc EXCEPT ![c] = Entry]
  /\ UNCHANGED <<locking, panicked, holder, pieces, screen>>

Acquire(c) ==
  /\ ppc[c] = "acquire" /\ holder = NoCpu
  /\ holder' = c /\ ppc' = [ppc EXCEPT ![c] = "put"]
  /\ UNCHANGED <<locking, panicked, took, left, pieces, screen, pcalls>>

\* consputc: looks at panicked, and then prints
Consputc(c) ==
  /\ ppc[c] = "put" /\ left[c] > 0
  /\ ppc' = [ppc EXCEPT ![c] = IF panicked THEN "frozen" ELSE "putc"]
  /\ UNCHANGED <<locking, panicked, holder, took, left, pieces, screen, pcalls>>

Putc(c) ==
  /\ ppc[c] = "putc" /\ ppc' = [ppc EXCEPT ![c] = "put"]
  /\ screen' = Append(screen, <<c, Panicking(c)>>) /\ left' = [left EXCEPT ![c] = @ - 1]
  /\ UNCHANGED <<locking, panicked, holder, took, pieces, pcalls>>

\* the end of cprintf (mutant: looks at cons.locking again)
BadReleases(c) == locking
Releases(c) == took[c]

Done(c) ==
  /\ ppc[c] = "put" /\ left[c] = 0
  /\ holder' = IF Releases(c) THEN NoCpu ELSE holder
  /\ ppc' = [ppc EXCEPT ![c] = IF Panicking(c) THEN "panic" ELSE "idle"]
  /\ took' = [took EXCEPT ![c] = FALSE]
  /\ pieces' = [pieces EXCEPT ![c] = IF Panicking(c) THEN @ - 1 ELSE 0]
  /\ panicked' = (panicked \/ pieces[c] = 1)
  /\ UNCHANGED <<locking, left, screen, pcalls>>

\* panic, from anywhere in the kernel or from cprintf(0), which has the lock by then
\* (mutant: panic leaves cons.locking set)
BadLocking == locking
Locking == FALSE

Panic(c) ==
  /\ \/ ppc[c] = "idle" /\ pcalls < MaxCalls /\ pcalls' = pcalls + 1
     \/ ppc[c] = "put" /\ left[c] = LENGTH /\ ~Panicking(c) /\ UNCHANGED pcalls
  /\ locking' = Locking
  /\ pieces' = [pieces EXCEPT ![c] = PIECES] /\ ppc' = [ppc EXCEPT ![c] = "panic"]
  /\ UNCHANGED <<panicked, holder, took, left, screen>>

\* the next cprintf of a panic; after the last it stays in its loop
PanicPrints(c) ==
  /\ ppc[c] = "panic" /\ Panicking(c) /\ Begin(c)
  /\ UNCHANGED <<locking, panicked, holder, pieces, screen, pcalls>>

Step(c) == Acquire(c) \/ Consputc(c) \/ Putc(c) \/ Done(c) \/ PanicPrints(c)

Next == \E c \in Cpus : Cprintf(c) \/ Consolewrite(c) \/ Panic(c) \/ Step(c)

Spec == Init /\ [][Next]_pvars

-----------------------------------------------------------------------------

Panics == {c \in Cpus : Panicking(c) \/ ppc[c] = "panic"}
Waits(c) == ppc[c] = "acquire" /\ holder # NoCpu

\* While all goes well, messages are printed one after the other, never mixed: the last
\* characters of a CPU that has printed part of one are its own.
NotMixed ==
  locking => \A c \in Cpus :
    ppc[c] \in {"put", "putc"} => \A i \in 0..LENGTH - left[c] - 1 : screen[Len(screen) - i][1] = c

\* A CPU that is not printing does not hold the lock, also when a panic has cleared
\* cons.locking since it took it.
NoLockKept == \A c \in Cpus : holder = c /\ pieces[c] = 0 => ppc[c] \in {"put", "putc", "frozen", "panic"}

\* A panic gets its message out, whoever holds the lock (its own CPU, or one that is
\* frozen or waits): when no CPU can go on after a panic, one message is complete.
PanicHeard ==
  /\ Panics # {} /\ (\A c \in Cpus : Waits(c) \/ ppc[c] \in {"idle", "frozen"} \/ (ppc[c] = "panic" /\ pieces[c] = 0))
       => panicked
  /\ panicked => \E c \in Panics : Cardinality({i \in DOMAIN screen : screen[i] = <<c, TRUE>>}) = PIECES * LENGTH
=============================================================================
