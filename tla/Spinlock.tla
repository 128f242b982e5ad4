------------------------------ MODULE Spinlock ------------------------------
(***************************************************************************)
(* A spin lock (Part_B/spinlock.c) that code running on a CPU and an       *)
(* interrupt handler of the same CPU both take: acquire, release, holding, *)
(* pushcli and popcli, store by store, with interrupts arriving wherever   *)
(* they are enabled.  tickslock, cons.lock and idelock are used this way.  *)
(*                                                                         *)
(* A context is what executes: the thread of a CPU, or the handler that    *)
(* has interrupted it.  A handler runs to its end before the thread goes   *)
(* on; the gate clears the interrupt flag and iret sets it again.          *)
(***************************************************************************)
EXTENDS Naturals

CONSTANTS
  CPUS,
  NoCpu,      \* lk->cpu = 0
  MaxNest     \* bound: pushcli's nested inside one critical section

ASSUME NoCpuAssumption == NoCpu \notin CPUS
ASSUME NestAssumption  == MaxNest \in Nat

Contexts == CPUS \X {"thread", "intr"}
Cpu(x)  == x[1]
Intr(c) == <<c, "intr">>

\* idle    outside; a handler that is not running
\* push    pushcli: readeflags        cli   pushcli: cli, ncli, intena
\* pinned  interrupts off to read mycpu() (myproc), without the lock
\* check   acquire: if(holding(lk)) panic    xchg   acquire: spins
\* own     acquire: lk->cpu = mycpu()        cs     critical section
\* rel     release: if(!holding) panic, lk->cpu = 0
\* clear   release: locked = 0               pop    popcli
\* iret    the handler returns               panic  the kernel has stopped
Pcs == {"idle", "push", "cli", "pinned", "check", "xchg", "own", "cs", "rel",
        "clear", "pop", "iret", "panic"}

VARIABLES
  locked, lkcpu,         \* fields of struct spinlock
  flag,                  \* interrupt flag of each CPU
  ncli, intena,          \* fields of struct cpu
  eflags,                \* local of pushcli, per context
  aim,                   \* why the context called pushcli: "lock" or "pin"
  pc

lkvars  == <<locked, lkcpu>>
cpuvars == <<flag, ncli, intena>>
vars    == <<lkvars, cpuvars, eflags, aim, pc>>

Init ==
  /\ locked = FALSE /\ lkcpu = NoCpu
  /\ flag = [c \in CPUS |-> TRUE]
  /\ ncli = [c \in CPUS |-> 0]
  /\ intena = [c \in CPUS |-> FALSE]
  /\ eflags = [x \in Contexts |-> FALSE]
  /\ aim = [x \in Contexts |-> "lock"]
  /\ pc = [x \in Contexts |-> "idle"]

\* x executes: it is a handler, or no handler has interrupted it
Runs(x) == x = Intr(Cpu(x)) \/ pc[Intr(Cpu(x))] = "idle"

At(x, l)   == Runs(x) /\ pc[x] = l
Goto(x, l) == pc' = [pc EXCEPT ![x] = l]

\* holding(), evaluated by x
Holding(x) == locked /\ lkcpu = Cpu(x)

-----------------------------------------------------------------------------
(* pushcli *)

\* a thread calls acquire(lk), or pushcli to read mycpu()
Call(x, a) ==
  /\ At(x, "idle") /\ x # Intr(Cpu(x))
  /\ aim' = [aim EXCEPT ![x] = a]
  /\ Goto(x, "push")
  /\ UNCHANGED <<lkvars, cpuvars, eflags>>

\* an interrupt whose handler takes the lock
Interrupt(c) ==
  /\ flag[c] /\ pc[Intr(c)] = "idle"
  /\ flag' = [flag EXCEPT ![c] = FALSE]
  /\ aim' = [aim EXCEPT ![Intr(c)] = "lock"]
  /\ Goto(Intr(c), "push")
  /\ UNCHANGED <<lkvars, ncli, intena, eflags>>

ReadEflags(x) ==
  /\ At(x, "push")
  /\ eflags' = [eflags EXCEPT ![x] = flag[Cpu(x)]]
  /\ Goto(x, "cli")
  /\ UNCHANGED <<lkvars, cpuvars, aim>>

\* intena after pushcli on CPU c, flag f (mutant: overwritten by inner calls)
BadSaved(c, f) == f
Saved(c, f) == IF ncli[c] = 0 THEN f ELSE intena[c]

PushCli(c, f) ==
  /\ flag' = [flag EXCEPT ![c] = FALSE]
  /\ intena' = [intena EXCEPT ![c] = Saved(c, f)]
  /\ ncli' = [ncli EXCEPT ![c] = @ + 1]

Cli(x) ==
  /\ At(x, "cli")
  /\ PushCli(Cpu(x), eflags[x])
  /\ Goto(x, IF aim[x] = "lock" THEN "check" ELSE "pinned")
  /\ UNCHANGED <<lkvars, eflags, aim>>

Unpin(x) ==
  /\ At(x, "pinned")
  /\ Goto(x, "pop")
  /\ UNCHANGED <<lkvars, cpuvars, eflags, aim>>

-----------------------------------------------------------------------------
(* acquire *)

Check(x) ==
  /\ At(x, "check")
  /\ Goto(x, IF Holding(x) THEN "panic" ELSE "xchg")
  /\ UNCHANGED <<lkvars, cpuvars, eflags, aim>>

\* xchg(&lk->locked, 1) == 0 (mutant: an exchange that is not atomic)
BadWins == TRUE
Wins == ~locked

Xchg(x) ==
  /\ At(x, "xchg") /\ Wins
  /\ locked' = TRUE
  /\ Goto(x, "own")
  /\ UNCHANGED <<lkcpu, cpuvars, eflags, aim>>

Own(x) ==
  /\ At(x, "own")
  /\ lkcpu' = Cpu(x)
  /\ Goto(x, "cs")
  /\ UNCHANGED <<locked, cpuvars, eflags, aim>>

\* inside the critical section: pushcli, or popcli of an inner pushcli
InnerPush(x) ==
  /\ At(x, "cs") /\ ncli[Cpu(x)] <= MaxNest
  /\ PushCli(Cpu(x), flag[Cpu(x)])
  /\ UNCHANGED <<lkvars, eflags, aim, pc>>

\* the flag after popcli on c (mutant: enabled before the last popcli)
BadFlag(c) == flag[c] \/ intena[c]
Flag(c) == flag[c] \/ (ncli[c] = 1 /\ intena[c])

\* --ncli (mutant: lost)
BadLess(k) == k
Less(k) == k - 1

PopCli(c) ==
  /\ ncli' = [ncli EXCEPT ![c] = Less(@)]
  /\ flag' = [flag EXCEPT ![c] = Flag(c)]
  /\ UNCHANGED intena

\* panic("popcli - interruptible"), panic("popcli")
PopPanics(c) == flag[c] \/ ncli[c] = 0

InnerPop(x) ==
  /\ At(x, "cs") /\ ncli[Cpu(x)] > 1
  /\ IF PopPanics(Cpu(x))
     THEN Goto(x, "panic") /\ UNCHANGED cpuvars
     ELSE PopCli(Cpu(x)) /\ UNCHANGED pc
  /\ UNCHANGED <<lkvars, eflags, aim>>

-----------------------------------------------------------------------------
(* release *)

EndCs(x) ==
  /\ At(x, "cs") /\ ncli[Cpu(x)] = 1
  /\ Goto(x, "rel")
  /\ UNCHANGED <<lkvars, cpuvars, eflags, aim>>

\* lk->cpu = 0 (mutant: left to the next owner)
BadNoOwner == lkcpu
NoOwner == NoCpu

Disown(x) ==
  /\ At(x, "rel")
  /\ lkcpu' = IF Holding(x) THEN NoOwner ELSE lkcpu
  /\ Goto(x, IF Holding(x) THEN "clear" ELSE "panic")
  /\ UNCHANGED <<locked, cpuvars, eflags, aim>>

Clear(x) ==
  /\ At(x, "clear")
  /\ locked' = FALSE
  /\ Goto(x, "pop")
  /\ UNCHANGED <<lkcpu, cpuvars, eflags, aim>>

Pop(x) ==
  /\ At(x, "pop")
  /\ IF PopPanics(Cpu(x))
     THEN Goto(x, "panic") /\ UNCHANGED cpuvars
     ELSE /\ PopCli(Cpu(x))
          /\ Goto(x, IF x = Intr(Cpu(x)) THEN "iret" ELSE "idle")
  /\ UNCHANGED <<lkvars, eflags, aim>>

Iret(x) ==
  /\ At(x, "iret")
  /\ flag' = [flag EXCEPT ![Cpu(x)] = TRUE]
  /\ Goto(x, "idle")
  /\ UNCHANGED <<lkvars, ncli, intena, eflags, aim>>

-----------------------------------------------------------------------------
Step(x) == \/ ReadEflags(x) \/ Cli(x) \/ Unpin(x) \/ Check(x) \/ Own(x)
           \/ EndCs(x) \/ Disown(x) \/ Clear(x) \/ Pop(x) \/ Iret(x)

Next ==
  \/ \E x \in Contexts :
       \/ \E a \in {"lock", "pin"} : Call(x, a)
       \/ Step(x) \/ Xchg(x) \/ InnerPush(x) \/ InnerPop(x)
  \/ \E c \in CPUS : Interrupt(c)

Spec == Init /\ [][Next]_vars

(* Fairness: a CPU goes on executing (weak), a context in the critical section
   does not stay there (every inner pushcli has its popcli, the section ends).
   Interrupts and calls are free, and an xchg may lose for ever against the
   others: the code has no queue. *)
FairSpec ==
  /\ Spec
  /\ \A x \in Contexts : /\ WF_vars(Step(x) \/ Xchg(x))
                          /\ SF_vars(EndCs(x)) /\ SF_vars(InnerPop(x))

-----------------------------------------------------------------------------
(* Properties *)

TypeOK ==
  /\ locked \in BOOLEAN /\ lkcpu \in CPUS \cup {NoCpu}
  /\ flag \in [CPUS -> BOOLEAN] /\ intena \in [CPUS -> BOOLEAN]
  /\ ncli \in [CPUS -> 0..(MaxNest + 1)]
  /\ eflags \in [Contexts -> BOOLEAN]
  /\ aim \in [Contexts -> {"lock", "pin"}]
  /\ pc \in [Contexts -> Pcs]

\* from the successful xchg to the store that frees the lock
InCs(x) == pc[x] \in {"own", "cs", "rel", "clear"}

\* One context holds the lock, on whichever CPU and at whichever level.
MutualExclusion == \A x, y \in Contexts : InCs(x) /\ InCs(y) => x = y

\* holding() is right although locked and cpu are two stores: no panic of
\* acquire, release or popcli is ever reached.
NoPanic == \A x \in Contexts : pc[x] # "panic"

\* While the lock is held no interrupt reaches its CPU, so a handler never spins
\* on a lock the code it has interrupted holds; and the outermost popcli leaves
\* interrupts as pushcli found them, also after nested calls.
InterruptsOff == \A x \in Contexts : InCs(x) => ~flag[Cpu(x)]

InterruptsRestored ==
  \A c \in CPUS :
    pc[Intr(c)] = "idle" /\ pc[<<c, "thread">>] \in {"idle", "push"} => flag[c] /\ ncli[c] = 0

\* What acquire and release promise, with pushcli and popcli nested at will: one holder, no
\* panic, and the interrupts of its CPU off while it is, and back afterwards.
SpinlockConsistent == TypeOK /\ MutualExclusion /\ NoPanic /\ InterruptsOff /\ InterruptsRestored

\* The spin lock is a lock: refinement of Mutex.
Holders == {x \in Contexts : InCs(x)}
Lock == INSTANCE Mutex WITH
  Owners <- Contexts, NoOwner <- NoCpu,
  owner <- IF Holders = {} THEN NoCpu ELSE CHOOSE x \in Holders : TRUE
ImplementsMutex == Lock!Spec

\* The lock does not stay taken: no handler blocks the CPU of its holder.
LockIsFreed == locked ~> ~locked

=============================================================================
