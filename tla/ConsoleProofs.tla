--------------------------- MODULE ConsoleProofs ---------------------------
(***************************************************************************)
(* Proofs about the console and the lock under it: module Spinlock, for    *)
(* any set of CPUs and any depth of nesting (one holder, no panic,         *)
(* interrupts off while it holds and back afterwards, and the refinement   *)
(* of Mutex); and, of module KernelParts, line editing and reading, and    *)
(* the printing of cprintf and panic, for any sizes.                       *)
(***************************************************************************)
EXTENDS Spinlock, KernelParts, FiniteSetTheorems, SequenceTheorems, TLAPS

(* Spinlock *)

Thread(c) == <<c, "thread">>

\* before pushcli has run, and from pushcli to popcli
Before == {"idle", "push", "cli"}
Pinned == {"pinned", "check", "xchg", "own", "cs", "rel", "clear", "pop"}

\* Who runs on a CPU, and with which interrupt flag: a handler finds the thread
\* outside of every pushcli, and a thread inside one keeps handlers out.
FlagInv ==
  \A c \in CPUS :
    /\ pc[Thread(c)] \in Before \cup Pinned
    /\ pc[Intr(c)] \in Before \cup Pinned \cup {"iret"}
    /\ pc[Intr(c)] # "idle" => pc[Thread(c)] \in Before
    /\ flag[c] <=> pc[Intr(c)] = "idle" /\ pc[Thread(c)] \in Before

\* ncli counts the pushcli's of whoever runs, and intena is what it will restore:
\* on for the thread, off for the handler.
NcliInv ==
  \A c \in CPUS : \A x \in {Thread(c), Intr(c)} :
    /\ pc[x] = "cli" => (eflags[x] <=> x = Thread(c))
    /\ pc[x] \in Pinned => ncli[c] > 0 /\ (intena[c] <=> x = Thread(c))
    /\ pc[x] \in Pinned \ {"cs"} => ncli[c] = 1

NcliZero ==
  \A c \in CPUS :
    pc[Thread(c)] \notin Pinned /\ pc[Intr(c)] \notin Pinned => ncli[c] = 0

\* The two stores of acquire and the two of release: cpu is set inside locked.
LockInv ==
  /\ MutualExclusion
  /\ \A x \in Contexts : InCs(x) => locked
  /\ \A x \in Contexts : pc[x] \in {"cs", "rel"} => lkcpu = Cpu(x)
  /\ lkcpu # NoCpu => \E x \in Contexts : pc[x] \in {"cs", "rel"} /\ lkcpu = Cpu(x)

IInv == TypeOK /\ FlagInv /\ NcliInv /\ NcliZero /\ LockInv

-----------------------------------------------------------------------------
\* A context is the thread or the handler of one CPU.
LEMMA ContextKinds ==
  /\ \A c \in CPUS : /\ Thread(c) \in Contexts /\ Intr(c) \in Contexts
                     /\ Thread(c) # Intr(c)
                     /\ Cpu(Thread(c)) = c /\ Cpu(Intr(c)) = c
  /\ \A x \in Contexts : Cpu(x) \in CPUS /\ x \in {Thread(Cpu(x)), Intr(Cpu(x))}
BY DEF Contexts, Thread, Intr, Cpu

LEMMA InitInv == Init => IInv
<1>1. SUFFICES ASSUME Init PROVE IInv
  OBVIOUS
<1>2. TypeOK
  <2>1. ncli \in [CPUS -> 0..(MaxNest + 1)]
    BY <1>1, NestAssumption DEF Init
  <2>2. QED
    BY <1>1, <2>1 DEF Init, TypeOK, Pcs
<1>3. FlagInv
  BY <1>1, ContextKinds DEF Init, FlagInv, Before
<1>4. NcliInv /\ NcliZero
  BY <1>1, ContextKinds DEF Init, NcliInv, NcliZero, Pinned
<1>5. LockInv
  BY <1>1, NoCpuAssumption DEF Init, LockInv, MutualExclusion, InCs
<1>6. QED
  BY <1>2, <1>3, <1>4, <1>5 DEF IInv

LEMMA TypeStep ==
  ASSUME IInv, [Next]_vars
  PROVE  TypeOK'
<1>. USE NestAssumption, ContextKinds DEF IInv
<1>1. ASSUME NEW x \in Contexts, NEW a \in {"lock", "pin"}, Call(x, a) PROVE TypeOK'
  BY <1>1 DEF Call, Goto, lkvars, cpuvars, TypeOK, Pcs
<1>2. ASSUME NEW x \in Contexts, ReadEflags(x) \/ Unpin(x) \/ Check(x) \/ EndCs(x)
      PROVE  TypeOK'
  BY <1>2 DEF ReadEflags, Unpin, Check, EndCs, Goto, lkvars, cpuvars, TypeOK, Pcs
<1>3. ASSUME NEW x \in Contexts, Cli(x) PROVE TypeOK'
  <2>1. ncli[Cpu(x)] = 0
    BY <1>3 DEF Cli, At, Runs, FlagInv, NcliZero, Before, Pinned
  <2>2. QED
    BY <1>3, <2>1 DEF Cli, PushCli, Saved, Goto, lkvars, TypeOK, Pcs
<1>4. ASSUME NEW x \in Contexts, Xchg(x) \/ Own(x) \/ Disown(x) \/ Clear(x) PROVE TypeOK'
  BY <1>4, NoCpuAssumption
     DEF Xchg, Own, Disown, NoOwner, Clear, Goto, cpuvars, TypeOK, Pcs
<1>5. ASSUME NEW x \in Contexts, InnerPush(x) PROVE TypeOK'
  BY <1>5 DEF InnerPush, PushCli, Saved, lkvars, TypeOK
<1>6. ASSUME NEW x \in Contexts, InnerPop(x) \/ Pop(x) PROVE TypeOK'
  BY <1>6 DEF InnerPop, Pop, PopPanics, PopCli, Less, Flag, Goto, lkvars, cpuvars, TypeOK, Pcs
<1>7. ASSUME NEW x \in Contexts, Iret(x) PROVE TypeOK'
  BY <1>7 DEF Iret, Goto, lkvars, TypeOK, Pcs
<1>8. ASSUME NEW c \in CPUS, Interrupt(c) PROVE TypeOK'
  BY <1>8 DEF Interrupt, Goto, lkvars, TypeOK, Pcs
<1>9. CASE UNCHANGED vars
  BY <1>9 DEF vars, lkvars, cpuvars, TypeOK
<1>10. QED
  BY <1>1, <1>2, <1>3, <1>4, <1>5, <1>6, <1>7, <1>8, <1>9 DEF Next, Step

\* holding(), popcli: the three panics are never reached.
LEMMA NoPanics ==
  ASSUME IInv, NEW x \in Contexts
  PROVE  /\ At(x, "check") => ~Holding(x)
         /\ At(x, "rel") => Holding(x)
         /\ pc[x] \in Pinned => ~PopPanics(Cpu(x))
<1>. USE ContextKinds DEF IInv
<1>1. ASSUME At(x, "check"), Holding(x) PROVE FALSE
  <2>1. PICK y \in Contexts : pc[y] \in {"cs", "rel"} /\ Cpu(y) = Cpu(x)
    BY <1>1, NoCpuAssumption DEF Holding, LockInv
  <2>2. QED
    BY <1>1, <2>1 DEF At, FlagInv, Before, Pinned
<1>2. ASSUME At(x, "rel") PROVE Holding(x)
  BY <1>2 DEF At, Holding, LockInv, InCs
<1>3. ASSUME pc[x] \in Pinned PROVE ~PopPanics(Cpu(x))
  BY <1>3 DEF PopPanics, FlagInv, NcliInv, TypeOK, Before, Pinned
<1>4. QED
  BY <1>1, <1>2, <1>3

LEMMA FlagStep ==
  ASSUME IInv, [Next]_vars
  PROVE  FlagInv'
<1>. USE ContextKinds DEF IInv, TypeOK, FlagInv, Before, Pinned, Goto, At, Runs
<1>1. ASSUME NEW x \in Contexts, NEW a \in {"lock", "pin"}, Call(x, a) PROVE FlagInv'
  BY <1>1 DEF Call, cpuvars
<1>2. ASSUME NEW x \in Contexts, ReadEflags(x) \/ Unpin(x) \/ EndCs(x) PROVE FlagInv'
  BY <1>2 DEF ReadEflags, Unpin, EndCs, cpuvars
<1>3. ASSUME NEW x \in Contexts, Cli(x) PROVE FlagInv'
  BY <1>3 DEF Cli, PushCli
<1>4. ASSUME NEW x \in Contexts, Check(x) PROVE FlagInv'
  BY <1>4, NoPanics DEF Check, cpuvars
<1>5. ASSUME NEW x \in Contexts, Xchg(x) \/ Own(x) \/ Clear(x) PROVE FlagInv'
  BY <1>5 DEF Xchg, Own, Clear, cpuvars
<1>6. ASSUME NEW x \in Contexts, Disown(x) PROVE FlagInv'
  BY <1>6, NoPanics DEF Disown, cpuvars
<1>7. ASSUME NEW x \in Contexts, InnerPush(x) PROVE FlagInv'
  BY <1>7 DEF InnerPush, PushCli
<1>8. ASSUME NEW x \in Contexts, InnerPop(x) PROVE FlagInv'
  BY <1>8, NoPanics DEF InnerPop, PopCli, Flag, cpuvars
<1>9. ASSUME NEW x \in Contexts, Pop(x) PROVE FlagInv'
  BY <1>9, NoPanics DEF Pop, PopCli, Flag, cpuvars, NcliInv
<1>10. ASSUME NEW x \in Contexts, Iret(x) PROVE FlagInv'
  BY <1>10 DEF Iret
<1>11. ASSUME NEW c \in CPUS, Interrupt(c) PROVE FlagInv'
  BY <1>11 DEF Interrupt
<1>12. CASE UNCHANGED vars
  BY <1>12 DEF vars, cpuvars
<1>13. QED
  BY <1>1, <1>2, <1>3, <1>4, <1>5, <1>6, <1>7, <1>8, <1>9, <1>10, <1>11, <1>12
     DEF Next, Step

LEMMA NcliStep ==
  ASSUME IInv, [Next]_vars
  PROVE  NcliInv' /\ NcliZero'
<1>. USE ContextKinds
     DEF IInv, TypeOK, FlagInv, NcliInv, NcliZero, Before, Pinned, Goto, At, Runs
<1>1. ASSUME NEW x \in Contexts, NEW a \in {"lock", "pin"}, Call(x, a)
      PROVE  NcliInv' /\ NcliZero'
  BY <1>1 DEF Call, cpuvars
<1>2. ASSUME NEW x \in Contexts, ReadEflags(x) PROVE NcliInv' /\ NcliZero'
  BY <1>2 DEF ReadEflags, cpuvars
<1>3. ASSUME NEW x \in Contexts, Cli(x) PROVE NcliInv' /\ NcliZero'
  <2>1. ncli[Cpu(x)] = 0
    BY <1>3 DEF Cli
  <2>2. QED
    BY <1>3, <2>1 DEF Cli, PushCli, Saved
<1>4. ASSUME NEW x \in Contexts, Unpin(x) \/ EndCs(x) PROVE NcliInv' /\ NcliZero'
  BY <1>4 DEF Unpin, EndCs, cpuvars
<1>5. ASSUME NEW x \in Contexts, Check(x) \/ Disown(x) PROVE NcliInv' /\ NcliZero'
  BY <1>5, NoPanics DEF Check, Disown, cpuvars
<1>6. ASSUME NEW x \in Contexts, Xchg(x) \/ Own(x) \/ Clear(x)
      PROVE  NcliInv' /\ NcliZero'
  BY <1>6 DEF Xchg, Own, Clear, cpuvars
<1>7. ASSUME NEW x \in Contexts, InnerPush(x) PROVE NcliInv' /\ NcliZero'
  BY <1>7 DEF InnerPush, PushCli, Saved
<1>8. ASSUME NEW x \in Contexts, InnerPop(x) PROVE NcliInv' /\ NcliZero'
  BY <1>8, NoPanics DEF InnerPop, PopCli, Less
<1>9. ASSUME NEW x \in Contexts, Pop(x) PROVE NcliInv' /\ NcliZero'
  BY <1>9, NoPanics DEF Pop, PopCli, Less
<1>10. ASSUME NEW x \in Contexts, Iret(x) PROVE NcliInv' /\ NcliZero'
  BY <1>10 DEF Iret
<1>11. ASSUME NEW c \in CPUS, Interrupt(c) PROVE NcliInv' /\ NcliZero'
  BY <1>11 DEF Interrupt
<1>12. CASE UNCHANGED vars
  BY <1>12 DEF vars, cpuvars
<1>13. QED
  BY <1>1, <1>2, <1>3, <1>4, <1>5, <1>6, <1>7, <1>8, <1>9, <1>10, <1>11, <1>12
     DEF Next, Step

LEMMA LockStep ==
  ASSUME IInv, [Next]_vars
  PROVE  LockInv'
<1>. USE ContextKinds, NoCpuAssumption
     DEF IInv, TypeOK, LockInv, MutualExclusion, InCs, Goto, At
<1>1. ASSUME NEW x \in Contexts, NEW a \in {"lock", "pin"}, Call(x, a) PROVE LockInv'
  BY <1>1 DEF Call, lkvars
<1>2. ASSUME NEW x \in Contexts, ReadEflags(x) \/ Cli(x) \/ Unpin(x) \/ Iret(x) PROVE LockInv'
  BY <1>2 DEF ReadEflags, Cli, Unpin, Iret, lkvars
<1>3. ASSUME NEW x \in Contexts, Check(x) PROVE LockInv'
  BY <1>3 DEF Check, lkvars
<1>4. ASSUME NEW x \in Contexts, Xchg(x) PROVE LockInv'
  BY <1>4 DEF Xchg, Wins
<1>5. ASSUME NEW x \in Contexts, Own(x) PROVE LockInv'
  BY <1>5 DEF Own
<1>6. ASSUME NEW x \in Contexts, InnerPush(x) \/ EndCs(x) PROVE LockInv'
  BY <1>6 DEF InnerPush, EndCs, lkvars
<1>7. ASSUME NEW x \in Contexts, InnerPop(x) PROVE LockInv'
  BY <1>7, NoPanics DEF InnerPop, lkvars, Pinned
<1>8. ASSUME NEW x \in Contexts, Disown(x) PROVE LockInv'
  BY <1>8, NoPanics DEF Disown, NoOwner
<1>9. ASSUME NEW x \in Contexts, Clear(x) PROVE LockInv'
  BY <1>9 DEF Clear
<1>10. ASSUME NEW x \in Contexts, Pop(x) PROVE LockInv'
  BY <1>10, NoPanics DEF Pop, lkvars, Pinned
<1>11. ASSUME NEW c \in CPUS, Interrupt(c) PROVE LockInv'
  BY <1>11 DEF Interrupt, lkvars
<1>12. CASE UNCHANGED vars
  BY <1>12 DEF vars, lkvars
<1>13. QED
  BY <1>1, <1>2, <1>3, <1>4, <1>5, <1>6, <1>7, <1>8, <1>9, <1>10, <1>11, <1>12
     DEF Next, Step

\* The inductive invariant holds in every reachable state.
THEOREM Inductive == Spec => []IInv
<1>1. IInv /\ [Next]_vars => IInv'
  BY TypeStep, FlagStep, NcliStep, LockStep DEF IInv
<1>2. QED
  BY InitInv, <1>1, PTL DEF Spec

\* acquire, release, pushcli and popcli: one context holds the lock, on whichever
\* CPU and at whichever level, no panic is reached, no interrupt comes to the CPU of
\* the holder, and interrupts are on again behind the outermost popcli.
THEOREM Safety == Spec => []SpinlockConsistent
<1>1. ASSUME IInv PROVE SpinlockConsistent
  <2>1. NoPanic
    BY <1>1, ContextKinds DEF IInv, FlagInv, NoPanic, Before, Pinned
  <2>2. InterruptsOff
    BY <1>1, ContextKinds DEF IInv, FlagInv, InterruptsOff, InCs, Before, Pinned
  <2>3. InterruptsRestored
    BY <1>1, ContextKinds
       DEF IInv, FlagInv, NcliZero, InterruptsRestored, Thread, Before, Pinned
  <2>4. QED
    BY <1>1, <2>1, <2>2, <2>3 DEF IInv, LockInv, SpinlockConsistent
<1>2. QED
  BY <1>1, Inductive, PTL

\* The stores of acquire and release implement the abstract lock: it is taken by the
\* xchg and given up by the store to locked.
THEOREM Refinement == Spec => ImplementsMutex
<1>. DEFINE lockOwner == IF Holders = {} THEN NoCpu ELSE CHOOSE x \in Holders : TRUE
<1>1. Init => Lock!Init
  BY DEF Init, Lock!Init, Holders, InCs
<1>2. IInv /\ [Next]_vars => [Lock!Take \/ Lock!Give]_lockOwner
  <2>1. SUFFICES ASSUME IInv, [Next]_vars
                 PROVE  Lock!Take \/ Lock!Give \/ Holders' = Holders
    <3>1. Holders' = Holders => lockOwner' = lockOwner
      OBVIOUS
    <3>2. QED
      BY <3>1
  <2>. USE <2>1 DEF IInv, TypeOK, InCs, At, Goto
  <2>2. ASSUME NEW x \in Contexts, Xchg(x) PROVE Lock!Take
    <3>1. Holders = {} /\ Holders' # {} /\ Holders' \subseteq Contexts
      BY <2>2 DEF Xchg, Wins, LockInv, Holders
    <3>2. QED
      BY <3>1 DEF Lock!Take
  <2>3. ASSUME NEW x \in Contexts, Clear(x) PROVE Lock!Give
    <3>1. Holders # {} /\ Holders' = {} /\ Holders \subseteq Contexts
      BY <2>3 DEF Clear, LockInv, MutualExclusion, Holders
    <3>2. QED
      BY <3>1 DEF Lock!Give
  <2>4. ASSUME NEW x \in Contexts, NEW a \in {"lock", "pin"}, Call(x, a)
        PROVE  Holders' = Holders
    BY <2>4 DEF Call, Holders
  <2>5. ASSUME NEW x \in Contexts, Step(x), ~Clear(x) PROVE Holders' = Holders
    BY <2>5, NoPanics, ContextKinds
       DEF Step, ReadEflags, Cli, Unpin, Check, Own, EndCs, Disown, Pop, Iret, Holders, Pinned
  <2>6. ASSUME NEW x \in Contexts, InnerPush(x) \/ InnerPop(x) PROVE Holders' = Holders
    BY <2>6, NoPanics DEF InnerPush, InnerPop, Holders, Pinned
  <2>7. ASSUME NEW c \in CPUS, Interrupt(c) PROVE Holders' = Holders
    BY <2>7, ContextKinds DEF Interrupt, Holders
  <2>8. CASE UNCHANGED vars
    BY <2>8 DEF vars, Holders
  <2>9. QED
    BY <2>2, <2>3, <2>4, <2>5, <2>6, <2>7, <2>8 DEF Next
<1>3. QED
  BY <1>1, <1>2, Inductive, PTL DEF Spec, ImplementsMutex, Lock!Spec

-----------------------------------------------------------------------------
(* Console: the finished characters and the line under way lie one behind    *)
(* the other on the ring, so that the three wrapping indices are two lengths. *)


\* The indices turn a whole number of times over the ring before they wrap (2^32 is a multiple
\* of 128), a line that fills the ring is shorter than the screen without its last row, and
\* programs read at least a byte.
ConsoleSizes ==
  /\ INPUT_BUF \in Nat \ {0} /\ \E m \in Nat \ {0, 1} : INDEXWRAP = INPUT_BUF * m
  /\ COLS \in Nat \ {0} /\ ROWS \in Nat \ {0} /\ INPUT_BUF - 1 <= (ROWS - 1) * COLS
  /\ ReadSizes \subseteq Nat \ {0} /\ MaxTyped \in Nat

Chs == Co!Plain \cup Co!Ends

\* the k-th place of the ring from index i on, and the n characters there
Slot(i, k)    == ((i + k - 1) % INDEXWRAP) % INPUT_BUF
Text(b, i, n) == [k \in 1..n |-> b[Slot(i, k)]]

\* A multiple of N within less than N of zero is zero.
LEMMA SmallMultiple ==
  ASSUME NEW N \in Nat \ {0}, NEW k \in Int, -N < N * k, N * k < N
  PROVE  k = 0
<1>1. CASE k >= 1
  <2>1. PICK j \in Nat : k = j + 1
    BY <1>1
  <2>2. N * k = N * j + N /\ N * j >= 0
    BY <2>1
  <2>3. QED
    BY <2>2
<1>2. CASE k <= -1
  <2>1. PICK j \in Nat : k = -(j + 1)
    <3>1. -k - 1 \in Nat /\ k = -((-k - 1) + 1)
      BY <1>2
    <3>2. QED
      BY <3>1
  <2>2. N * k = -(N * j) - N /\ N * j >= 0
    BY <2>1
  <2>3. QED
    BY <2>2
<1>3. QED
  BY <1>1, <1>2

LEMMA ModParts ==
  ASSUME NEW N \in Nat \ {0}, NEW x \in Int
  PROVE  \E q \in Int, s \in 0..N-1 : x = N * q + s /\ x % N = s
<1>1. x = N * (x \div N) + (x % N) /\ x \div N \in Int /\ x % N \in 0..N-1
  OBVIOUS
<1>2. QED
  BY <1>1

\* Remainders are equal of numbers a multiple apart, and of no others.
LEMMA SameMod ==
  ASSUME NEW N \in Nat \ {0}, NEW x \in Int, NEW y \in Int, NEW m \in Int, x = y + N * m
  PROVE  x % N = y % N
<1>1. PICK q \in Int, s \in 0..N-1 : x = N * q + s /\ x % N = s
  BY ModParts
<1>2. PICK t \in Int, u \in 0..N-1 : y = N * t + u /\ y % N = u
  BY ModParts
<1>3. PICK d : d = q - t - m
  OBVIOUS
<1>4. d \in Int /\ N * d = u - s
  <2>1. N * (q - t - m) = N * q - N * t - N * m /\ N * q \in Int /\ N * t \in Int /\ N * m \in Int
    OBVIOUS
  <2>2. QED
    BY <1>1, <1>2, <1>3, <2>1
<1>5. -N < N * d /\ N * d < N
  BY <1>1, <1>2, <1>4
<1>6. d = 0
  BY <1>4, <1>5, SmallMultiple
<1>7. N * d = 0
  BY <1>6
<1>8. QED
  BY <1>1, <1>2, <1>4, <1>7

LEMMA ModApart ==
  ASSUME NEW N \in Nat \ {0}, NEW x \in Int, NEW y \in Int, x < y, y < x + N
  PROVE  x % N # y % N
<1>1. PICK q \in Int, s \in 0..N-1 : x = N * q + s /\ x % N = s
  BY ModParts
<1>2. PICK t \in Int, u \in 0..N-1 : y = N * t + u /\ y % N = u
  BY ModParts
<1>3. SUFFICES ASSUME s = u PROVE FALSE
  BY <1>1, <1>2
<1>4. PICK d : d = t - q
  OBVIOUS
<1>5. d \in Int /\ N * d = y - x
  <2>1. N * (t - q) = N * t - N * q /\ N * t \in Int /\ N * q \in Int
    OBVIOUS
  <2>2. QED
    BY <1>1, <1>2, <1>3, <1>4, <2>1
<1>6. d = 0
  BY <1>5, SmallMultiple
<1>7. N * d = 0
  BY <1>6
<1>8. QED
  BY <1>5, <1>7

LEMMA RingSizes == ASSUME ConsoleSizes PROVE INDEXWRAP \in Nat \ {0} /\ INPUT_BUF < INDEXWRAP /\ INPUT_BUF \in Nat \ {0}
<1>1. PICK m \in Nat \ {0, 1} : INDEXWRAP = INPUT_BUF * m /\ INPUT_BUF \in Nat \ {0}
  BY DEF ConsoleSizes
<1>2. PICK j \in Nat : m = j + 2
  <2>1. m - 2 \in Nat /\ m = (m - 2) + 2
    BY <1>1
  <2>2. QED
    BY <2>1
<1>3. INPUT_BUF * m = INPUT_BUF * j + INPUT_BUF + INPUT_BUF /\ INPUT_BUF * j \in Nat
  BY <1>1, <1>2
<1>4. QED
  BY <1>1, <1>3

LEMMA Turns ==
  ASSUME ConsoleSizes, NEW x \in 0..INDEXWRAP + INDEXWRAP - 1
  PROVE  x % INDEXWRAP = IF x < INDEXWRAP THEN x ELSE x - INDEXWRAP
<1>1. INDEXWRAP \in Nat \ {0}
  BY RingSizes
<1>2. PICK q \in Int, s \in 0..INDEXWRAP-1 : x = INDEXWRAP * q + s /\ x % INDEXWRAP = s
  BY <1>1, ModParts
<1>3. CASE x < INDEXWRAP
  <2>1. -INDEXWRAP < INDEXWRAP * q /\ INDEXWRAP * q < INDEXWRAP
    BY <1>1, <1>2, <1>3
  <2>2. q = 0
    BY <1>1, <2>1, SmallMultiple
  <2>3. QED
    BY <1>1, <1>2, <1>3, <2>2
<1>4. CASE x >= INDEXWRAP
  <2>1. PICK d : d = q - 1
    OBVIOUS
  <2>2. d \in Int /\ INDEXWRAP * d = INDEXWRAP * q - INDEXWRAP
    BY <1>1, <1>2, <2>1
  <2>3. -INDEXWRAP < INDEXWRAP * d /\ INDEXWRAP * d < INDEXWRAP
    BY <1>1, <1>2, <1>4, <2>2
  <2>4. d = 0
    BY <1>1, <2>2, <2>3, SmallMultiple
  <2>5. INDEXWRAP * d = 0
    BY <1>1, <2>4
  <2>6. QED
    BY <1>1, <1>2, <1>4, <2>2, <2>5
<1>5. QED
  BY <1>1, <1>3, <1>4

\* the distance of two indices
LEMMA MinusIs ==
  ASSUME ConsoleSizes, NEW i \in 0..INDEXWRAP-1, NEW j \in 0..INDEXWRAP-1
  PROVE  /\ Co!Minus(i, j) \in 0..INDEXWRAP-1
         /\ Co!Minus(i, j) = IF j <= i THEN i - j ELSE i + INDEXWRAP - j
<1>1. INDEXWRAP \in Nat \ {0} /\ i + INDEXWRAP - j \in 0..INDEXWRAP + INDEXWRAP - 1
  BY RingSizes
<1>2. QED
  BY <1>1, Turns DEF Co!Minus

\* Within a turn of the ring places differ.
LEMMA SlotsDiffer ==
  ASSUME ConsoleSizes, NEW i \in 0..INDEXWRAP-1, NEW j \in 1..INPUT_BUF, NEW k \in 1..INPUT_BUF, j # k
  PROVE  Slot(i, j) # Slot(i, k)
<1>1. PICK m \in Nat : INDEXWRAP = INPUT_BUF * m
  BY DEF ConsoleSizes
<1>2. INDEXWRAP \in Nat \ {0} /\ INPUT_BUF < INDEXWRAP /\ INPUT_BUF \in Nat \ {0}
  BY RingSizes
<1>3. ASSUME NEW n \in 1..INPUT_BUF PROVE Slot(i, n) = (i + n - 1) % INPUT_BUF
  <2>1. PICK y : y = i + n - 1
    OBVIOUS
  <2>2. y \in 0..INDEXWRAP + INDEXWRAP - 1 /\ y \in Int
    BY <1>2, <2>1
  <2>3. CASE y < INDEXWRAP
    BY <2>1, <2>2, <2>3, Turns DEF Slot
  <2>4. CASE y >= INDEXWRAP
    <3>1. PICK x : x = y - INDEXWRAP
      OBVIOUS
    <3>2. y % INDEXWRAP = x /\ x \in Int
      BY <1>2, <2>2, <2>4, <3>1, Turns
    <3>3. y = x + INPUT_BUF * m /\ m \in Int
      BY <1>1, <1>2, <2>2, <3>1
    <3>4. y % INPUT_BUF = x % INPUT_BUF
      BY <1>2, <2>2, <3>2, <3>3, SameMod
    <3>5. QED
      BY <2>1, <3>2, <3>4 DEF Slot
  <2>5. QED
    BY <1>2, <2>2, <2>3, <2>4
<1>4. ASSUME NEW a \in 1..INPUT_BUF, NEW b \in 1..INPUT_BUF, a < b PROVE Slot(i, a) # Slot(i, b)
  <2>1. i + a - 1 \in Int /\ i + b - 1 \in Int /\ i + a - 1 < i + b - 1 /\ i + b - 1 < i + a - 1 + INPUT_BUF
    BY <1>2, <1>4
  <2>2. (i + a - 1) % INPUT_BUF # (i + b - 1) % INPUT_BUF
    BY <1>2, <2>1, ModApart
  <2>3. QED
    BY <1>3, <2>2
<1>5. QED
  BY <1>2, <1>4

LEMMA SlotIn ==
  ASSUME ConsoleSizes, NEW i \in 0..INDEXWRAP-1, NEW k \in Nat \ {0}
  PROVE  Slot(i, k) \in 0..INPUT_BUF-1
<1>1. INDEXWRAP \in Nat \ {0} /\ INPUT_BUF \in Nat \ {0}
  BY RingSizes
<1>2. (i + k - 1) % INDEXWRAP \in Int
  BY <1>1
<1>3. QED
  BY <1>1, <1>2 DEF Slot

LEMMA SlotShift ==
  ASSUME ConsoleSizes, NEW i \in 0..INDEXWRAP-1, NEW k \in 0..INPUT_BUF, NEW m \in 1..INPUT_BUF, k + m <= INPUT_BUF
  PROVE  (i + k) % INDEXWRAP \in 0..INDEXWRAP-1 /\ Slot((i + k) % INDEXWRAP, m) = Slot(i, k + m)
<1>1. INDEXWRAP \in Nat \ {0} /\ INPUT_BUF < INDEXWRAP /\ INPUT_BUF \in Nat \ {0}
  BY RingSizes
<1>2. PICK x \in 0..INDEXWRAP-1 : x = (i + k) % INDEXWRAP /\ x = IF i + k < INDEXWRAP THEN i + k ELSE i + k - INDEXWRAP
  <2>1. i + k \in 0..INDEXWRAP + INDEXWRAP - 1
    BY <1>1
  <2>2. QED
    BY <1>1, <2>1, Turns
<1>3. PICK y, z : y = x + m - 1 /\ z = i + (k + m) - 1
  OBVIOUS
<1>4. y \in 0..INDEXWRAP + INDEXWRAP - 1 /\ z \in 0..INDEXWRAP + INDEXWRAP - 1
  BY <1>1, <1>2, <1>3
<1>5. y % INDEXWRAP = z % INDEXWRAP
  <2>1. /\ y % INDEXWRAP = IF y < INDEXWRAP THEN y ELSE y - INDEXWRAP
        /\ z % INDEXWRAP = IF z < INDEXWRAP THEN z ELSE z - INDEXWRAP
    BY <1>4, Turns
  <2>2. QED
    BY <1>1, <1>2, <1>3, <1>4, <2>1
<1>6. QED
  BY <1>2, <1>3, <1>5 DEF Slot

-----------------------------------------------------------------------------
(* The characters on the ring *)

LEMMA TextIs ==
  ASSUME ConsoleSizes, NEW b \in [0..INPUT_BUF-1 -> Chs], NEW i \in 0..INDEXWRAP-1, NEW n \in Nat
  PROVE  /\ Text(b, i, n) \in Seq(Chs) /\ Len(Text(b, i, n)) = n
         /\ \A k \in 1..n : Text(b, i, n)[k] = b[Slot(i, k)]
<1>1. \A k \in 1..n : b[Slot(i, k)] \in Chs
  <2>1. \A k \in 1..n : k \in Nat \ {0}
    OBVIOUS
  <2>2. QED
    BY <2>1, SlotIn
<1>2. Text(b, i, n) \in [1..n -> Chs]
  BY <1>1 DEF Text
<1>3. QED
  BY <1>2 DEF Text

\* One more character, at the place behind the last.
Grown(d, b, i, n, c) == d = [b EXCEPT ![Slot(i, n + 1)] = c]

LEMMA TextGrows ==
  ASSUME ConsoleSizes, NEW b \in [0..INPUT_BUF-1 -> Chs], NEW i \in 0..INDEXWRAP-1, NEW n \in 0..INPUT_BUF-1,
         NEW c \in Chs, NEW d, Grown(d, b, i, n, c)
  PROVE  /\ Text(d, i, n + 1) = Append(Text(b, i, n), c)
         /\ \A m \in 0..n : Text(d, i, m) = Text(b, i, m)
<1>1. INPUT_BUF \in Nat \ {0} /\ n + 1 \in 1..INPUT_BUF /\ n \in Nat
  BY RingSizes
<1>2. PICK s : s = Slot(i, n + 1)
  OBVIOUS
<1>3. s \in 0..INPUT_BUF-1
  BY <1>1, <1>2, SlotIn
<1>4. d \in [0..INPUT_BUF-1 -> Chs] /\ d[s] = c /\ \A t \in 0..INPUT_BUF-1 : t # s => d[t] = b[t]
  BY <1>2, <1>3 DEF Grown
<1>5. \A k \in 1..n : d[Slot(i, k)] = b[Slot(i, k)]
  <2>1. SUFFICES ASSUME NEW k \in 1..n PROVE d[Slot(i, k)] = b[Slot(i, k)]
    OBVIOUS
  <2>2. k \in 1..INPUT_BUF /\ k # n + 1 /\ k \in Nat \ {0}
    BY <1>1
  <2>3. Slot(i, k) # s /\ Slot(i, k) \in 0..INPUT_BUF-1
    BY <1>1, <1>2, <2>2, SlotsDiffer, SlotIn
  <2>4. QED
    BY <1>4, <2>3
<1>6. Text(d, i, n + 1) = Append(Text(b, i, n), c)
  <2>1. PICK u, v : u = Text(d, i, n + 1) /\ v = Append(Text(b, i, n), c)
    OBVIOUS
  <2>2. u \in Seq(Chs) /\ Len(u) = n + 1 /\ \A k \in 1..n + 1 : u[k] = d[Slot(i, k)]
    <3>1. PICK N \in Nat : N = n + 1
      BY <1>1
    <3>2. QED
      BY <1>4, <2>1, <3>1, TextIs
  <2>3. PICK t : t = Text(b, i, n)
    OBVIOUS
  <2>4. t \in Seq(Chs) /\ Len(t) = n /\ \A k \in 1..n : t[k] = b[Slot(i, k)]
    BY <1>1, <2>3, TextIs
  <2>5. v \in Seq(Chs) /\ Len(v) = n + 1 /\ v[n + 1] = c /\ \A k \in 1..n : v[k] = t[k]
    BY <1>1, <2>1, <2>3, <2>4
  <2>6. \A k \in 1..n : k \in 1..n + 1
    BY <1>1
  <2>7. n + 1 \in 1..n + 1 /\ u[n + 1] = c
    BY <1>1, <1>2, <1>4, <2>2
  <2>8. \A k \in 1..n + 1 : k = n + 1 \/ k \in 1..n
    BY <1>1
  <2>9. \A k \in 1..n + 1 : u[k] = v[k]
    BY <1>5, <2>2, <2>4, <2>5, <2>6, <2>7, <2>8
  <2>10. u = v
    BY <2>2, <2>5, <2>9, SeqEqual
  <2>11. QED
    BY <2>1, <2>10
<1>7. ASSUME NEW m \in 0..n PROVE Text(d, i, m) = Text(b, i, m)
  <2>1. \A k \in 1..m : k \in 1..n
    BY <1>1
  <2>2. QED
    BY <1>5, <2>1 DEF Text
<1>8. QED
  BY <1>6, <1>7

LEMMA TextBegins ==
  ASSUME ConsoleSizes, NEW b \in [0..INPUT_BUF-1 -> Chs], NEW i \in 0..INDEXWRAP-1, NEW n \in Nat, NEW m \in 0..n
  PROVE  Text(b, i, m) = SubSeq(Text(b, i, n), 1, m)
<1>1. PICK t : t = Text(b, i, n)
  OBVIOUS
<1>2. t \in Seq(Chs) /\ Len(t) = n /\ \A k \in 1..n : t[k] = b[Slot(i, k)]
  BY <1>1, TextIs
<1>3. SubSeq(t, 1, m) = [k \in 1..m |-> t[k]]
  BY <1>2
<1>4. \A k \in 1..m : k \in 1..n
  OBVIOUS
<1>5. QED
  BY <1>1, <1>2, <1>3, <1>4 DEF Text

\* What follows the first k characters.
Behind(j, i, k) == j = (i + k) % INDEXWRAP

LEMMA TextEnds ==
  ASSUME ConsoleSizes, NEW b \in [0..INPUT_BUF-1 -> Chs], NEW i \in 0..INDEXWRAP-1,
         NEW k \in 0..INPUT_BUF, NEW n \in 0..INPUT_BUF, k + n <= INPUT_BUF,
         NEW j, Behind(j, i, k)
  PROVE  /\ Text(b, j, n) = SubSeq(Text(b, i, k + n), k + 1, k + n)
         /\ Text(b, i, k + n) = Text(b, i, k) \o Text(b, j, n)
<1>1. INPUT_BUF \in Nat \ {0} /\ k \in Nat /\ n \in Nat /\ k + n \in Nat
  BY RingSizes
<1>2. INDEXWRAP \in Nat \ {0} /\ (i + k) % INDEXWRAP \in 0..INDEXWRAP-1
  BY <1>1, RingSizes
<1>3. PICK t, v : t = Text(b, i, k + n) /\ v = Text(b, (i + k) % INDEXWRAP, n)
  OBVIOUS
<1>a. PICK u : u = Text(b, i, k)
  OBVIOUS
<1>4. t \in Seq(Chs) /\ Len(t) = k + n /\ \A m \in 1..k + n : t[m] = b[Slot(i, m)]
  <2>1. PICK N \in Nat : N = k + n
    BY <1>1
  <2>2. QED
    BY <1>3, <2>1, TextIs
<1>5. u \in Seq(Chs) /\ Len(u) = k /\ \A m \in 1..k : u[m] = b[Slot(i, m)]
  <2>1. k \in Nat
    BY <1>1
  <2>2. QED
    BY <1>a, <2>1, TextIs
<1>6. v \in Seq(Chs) /\ Len(v) = n /\ \A m \in 1..n : v[m] = b[Slot((i + k) % INDEXWRAP, m)]
  <2>1. PICK x \in 0..INDEXWRAP-1 : x = (i + k) % INDEXWRAP
    BY <1>2
  <2>2. n \in Nat
    BY <1>1
  <2>3. v = Text(b, x, n)
    BY <1>3, <2>1
  <2>4. QED
    BY <2>1, <2>2, <2>3, TextIs
<1>7. \A m \in 1..n : v[m] = t[k + m]
  <2>1. SUFFICES ASSUME NEW m \in 1..n PROVE v[m] = t[k + m]
    OBVIOUS
  <2>2. m \in 1..INPUT_BUF /\ k + m <= INPUT_BUF /\ k + m \in 1..k + n
    BY <1>1
  <2>3. Slot((i + k) % INDEXWRAP, m) = Slot(i, k + m)
    BY <2>2, SlotShift
  <2>4. QED
    BY <1>4, <1>6, <2>2, <2>3
<1>8. v = SubSeq(t, k + 1, k + n)
  <2>1. PICK x : x = SubSeq(t, k + 1, k + n)
    OBVIOUS
  <2>2. x \in Seq(Chs) /\ Len(x) = n /\ \A m \in 1..n : x[m] = t[k + m]
    <3>1. k + 1 \in 1..Len(t) + 1 /\ k + n \in k..Len(t)
      BY <1>1, <1>4
    <3>2. QED
      BY <1>1, <1>4, <2>1, <3>1
  <2>3. QED
    BY <1>6, <1>7, <2>1, <2>2, SeqEqual
<1>9. t = u \o v
  <2>1. PICK x : x = u \o v
    OBVIOUS
  <2>2. /\ x \in Seq(Chs) /\ Len(x) = k + n
        /\ \A m \in 1..k + n : x[m] = IF m <= k THEN u[m] ELSE v[m - k]
    <3>1. /\ u \o v \in Seq(Chs) /\ Len(u \o v) = Len(u) + Len(v)
          /\ \A m \in 1..Len(u) + Len(v) : (u \o v)[m] = IF m <= Len(u) THEN u[m] ELSE v[m - Len(u)]
      BY <1>5, <1>6, ConcatProperties
    <3>2. Len(u) = k /\ Len(v) = n
      BY <1>5, <1>6
    <3>3. QED
      BY <2>1, <3>1, <3>2
  <2>3. ASSUME NEW m \in 1..k + n PROVE t[m] = x[m]
    <3>1. CASE m <= k
      <4>1. m \in 1..k
        BY <1>1, <3>1
      <4>2. QED
        BY <1>4, <1>5, <2>2, <3>1, <4>1
    <3>2. CASE ~(m <= k)
      <4>1. m - k \in 1..n /\ k + (m - k) = m
        BY <1>1, <3>2
      <4>2. QED
        BY <1>7, <2>2, <3>2, <4>1
    <3>3. QED
      BY <3>1, <3>2
  <2>4. QED
    BY <1>4, <2>1, <2>2, <2>3, SeqEqual
<1>10. QED
  BY <1>3, <1>a, <1>8, <1>9 DEF Behind

-----------------------------------------------------------------------------
(* How many control-Ds there are *)

Eofs(s) == {i \in 1..Len(s) : s[i] = "eof"}

LEMMA EofsFinite ==
  ASSUME NEW X, NEW s \in Seq(X)
  PROVE  IsFiniteSet(Eofs(s)) /\ Cardinality(Eofs(s)) \in Nat
<1>1. Len(s) \in Nat
  OBVIOUS
<1>2. IsFiniteSet(1..Len(s))
  BY <1>1, FS_Interval
<1>3. IsFiniteSet(Eofs(s))
  BY <1>2, FS_Subset DEF Eofs
<1>4. QED
  BY <1>3, FS_CardinalityType

\* A finished line has the control-D that finished it.
LEMMA EofsJoin ==
  ASSUME NEW X, NEW s \in Seq(X), NEW t \in Seq(X), NEW c \in X, \A i \in 1..Len(t) : t[i] # "eof"
  PROVE  /\ Append(s \o t, c) = s \o Append(t, c)
         /\ Cardinality(Eofs(Append(s \o t, c))) = Cardinality(Eofs(s)) + (IF c = "eof" THEN 1 ELSE 0)
<1>1. PICK m, n : m = Len(s) /\ n = Len(t)
  OBVIOUS
<1>2. m \in Nat /\ n \in Nat
  BY <1>1
<1>3. PICK u, v : u = Append(s \o t, c) /\ v = s \o Append(t, c)
  OBVIOUS
<1>4. PICK j, a : j = s \o t /\ a = Append(t, c)
  OBVIOUS
<1>5. /\ j \in Seq(X) /\ Len(j) = m + n
      /\ \A k \in 1..m + n : j[k] = IF k <= m THEN s[k] ELSE t[k - m]
  BY <1>1, <1>4, ConcatProperties
<1>6. a \in Seq(X) /\ Len(a) = n + 1 /\ a[n + 1] = c /\ \A k \in 1..n : a[k] = t[k]
  BY <1>1, <1>2, <1>4
<1>7. u \in Seq(X) /\ Len(u) = m + n + 1 /\ u[m + n + 1] = c /\ \A k \in 1..m + n : u[k] = j[k]
  BY <1>2, <1>3, <1>4, <1>5
<1>8. /\ v \in Seq(X) /\ Len(v) = m + n + 1
      /\ \A k \in 1..m + n + 1 : v[k] = IF k <= m THEN s[k] ELSE a[k - m]
  <2>1. m + (n + 1) = m + n + 1
    BY <1>2
  <2>2. QED
    <3>1. /\ s \o a \in Seq(X) /\ Len(s \o a) = Len(s) + Len(a)
          /\ \A k \in 1..Len(s) + Len(a) : (s \o a)[k] = IF k <= Len(s) THEN s[k] ELSE a[k - Len(s)]
      BY <1>6, ConcatProperties
    <3>2. Len(s) = m /\ Len(a) = n + 1 /\ Len(s) + Len(a) = m + n + 1 /\ v = s \o a
      BY <1>1, <1>3, <1>4, <1>6, <2>1
    <3>3. QED
      BY <3>1, <3>2
<1>9. ASSUME NEW k \in 1..m + n + 1 PROVE u[k] = v[k]
  <2>1. CASE k <= m
    <3>1. k \in 1..m + n
      BY <1>2, <2>1
    <3>2. QED
      BY <1>5, <1>7, <1>8, <2>1, <3>1
  <2>2. CASE k > m /\ k <= m + n
    <3>1. k \in 1..m + n /\ ~(k <= m) /\ k - m \in 1..n
      BY <1>2, <2>2
    <3>2. QED
      BY <1>5, <1>6, <1>7, <1>8, <3>1
  <2>3. CASE k = m + n + 1
    <3>1. ~(k <= m) /\ k - m = n + 1
      BY <1>2, <2>3
    <3>2. QED
      BY <1>6, <1>7, <1>8, <2>3, <3>1
  <2>4. QED
    BY <1>2, <2>1, <2>2, <2>3
<1>10. u = v
  BY <1>7, <1>8, <1>9, SeqEqual
<1>11. ASSUME NEW k \in 1..m + n PROVE u[k] = "eof" <=> k \in Eofs(s)
  <2>1. CASE k <= m
    <3>1. k \in 1..m
      BY <1>2, <2>1
    <3>2. QED
      BY <1>1, <1>5, <1>7, <2>1, <3>1 DEF Eofs
  <2>2. CASE ~(k <= m)
    <3>1. k - m \in 1..n /\ k \notin 1..m
      BY <1>2, <2>2
    <3>2. u[k] # "eof"
      BY <1>1, <1>5, <1>7, <2>2, <3>1
    <3>3. QED
      BY <1>1, <3>1, <3>2 DEF Eofs
  <2>3. QED
    BY <2>1, <2>2
<1>12. m + n + 1 \notin Eofs(s) /\ Eofs(s) \subseteq 1..m + n
  BY <1>1, <1>2 DEF Eofs
<1>13. Eofs(u) = IF c = "eof" THEN Eofs(s) \cup {m + n + 1} ELSE Eofs(s)
  <2>1. ASSUME NEW k \in 1..m + n + 1 PROVE k \in 1..m + n \/ k = m + n + 1
    BY <1>2
  <2>2. 1..m + n \subseteq 1..m + n + 1 /\ m + n + 1 \in 1..m + n + 1
    BY <1>2
  <2>3. QED
    BY <1>7, <1>11, <1>12, <2>1, <2>2 DEF Eofs
<1>14. QED
  <2>1. IsFiniteSet(Eofs(s)) /\ Cardinality(Eofs(s)) \in Nat
    BY EofsFinite
  <2>2. Cardinality(Eofs(s) \cup {m + n + 1}) = Cardinality(Eofs(s)) + 1
    BY <1>12, <2>1, FS_AddElement
  <2>3. QED
    BY <1>3, <1>10, <1>13, <2>1, <2>2

\* Taking k characters takes no control-D, or the one they begin with.
LEMMA EofsDrop ==
  ASSUME NEW X, NEW s \in Seq(X), NEW k \in 0..Len(s)
  PROVE  /\ (\A i \in 1..k : s[i] # "eof")
               => Cardinality(Eofs(SubSeq(s, k + 1, Len(s)))) = Cardinality(Eofs(s))
         /\ k = 1 /\ s[1] = "eof"
               => Cardinality(Eofs(s)) = Cardinality(Eofs(SubSeq(s, k + 1, Len(s)))) + 1
<1>1. PICK n : n = Len(s) /\ n \in Nat /\ k \in Nat /\ k <= n
  OBVIOUS
<1>2. PICK t : t = SubSeq(s, k + 1, n)
  OBVIOUS
<1>3. t \in Seq(X) /\ Len(t) = n - k /\ n - k \in Nat /\ \A i \in 1..n - k : t[i] = s[k + i]
  <2>1. k + 1 \in 1..n + 1 /\ n \in k..n
    BY <1>1
  <2>2. QED
    BY <1>1, <1>2, <2>1
<1>4. PICK S : S = {i \in Eofs(s) : i > k}
  OBVIOUS
<1>5. PICK f : f = [i \in S |-> i - k]
  OBVIOUS
<1>6. ASSUME NEW i \in S PROVE f[i] \in Eofs(t) /\ f[i] = i - k /\ i \in Nat
  <2>1. i \in 1..n /\ s[i] = "eof" /\ i > k
    BY <1>1, <1>4 DEF Eofs
  <2>2. i - k \in 1..n - k /\ k + (i - k) = i
    BY <1>1, <2>1
  <2>3. QED
    BY <1>3, <1>5, <2>1, <2>2 DEF Eofs
<1>7. ASSUME NEW j \in Eofs(t) PROVE \E i \in S : f[i] = j
  <2>1. j \in 1..n - k /\ t[j] = "eof"
    BY <1>3 DEF Eofs
  <2>2. k + j \in 1..n /\ k + j > k /\ (k + j) - k = j /\ s[k + j] = "eof"
    BY <1>1, <1>3, <2>1
  <2>3. k + j \in S
    BY <1>1, <1>4, <2>2 DEF Eofs
  <2>4. QED
    BY <1>5, <2>2, <2>3
<1>8. f \in Bijection(S, Eofs(t))
  <2>1. f \in [S -> Eofs(t)]
    BY <1>5, <1>6
  <2>2. \A a, b \in S : f[a] = f[b] => a = b
    BY <1>1, <1>6
  <2>3. \A j \in Eofs(t) : \E i \in S : f[i] = j
    BY <1>7
  <2>4. f \in Surjection(S, Eofs(t)) /\ f \in Injection(S, Eofs(t))
    BY <2>1, <2>2, <2>3 DEF Surjection, Injection, IsInjective
  <2>5. QED
    BY <2>4 DEF Bijection
<1>9. IsFiniteSet(Eofs(s)) /\ Cardinality(Eofs(s)) \in Nat /\ IsFiniteSet(S) /\ Cardinality(S) \in Nat
  <2>1. IsFiniteSet(Eofs(s)) /\ Cardinality(Eofs(s)) \in Nat
    BY EofsFinite
  <2>2. S \subseteq Eofs(s)
    BY <1>4
  <2>3. IsFiniteSet(S)
    BY <2>1, <2>2, FS_Subset
  <2>4. QED
    BY <2>1, <2>3, FS_CardinalityType
<1>10. Cardinality(Eofs(t)) = Cardinality(S)
  BY <1>8, <1>9, FS_Bijection DEF ExistsBijection
<1>11. ASSUME \A i \in 1..k : s[i] # "eof" PROVE S = Eofs(s)
  <2>1. ASSUME NEW i \in Eofs(s) PROVE i > k
    <3>1. i \in 1..n /\ s[i] = "eof"
      BY <1>1 DEF Eofs
    <3>2. i \notin 1..k
      BY <1>11, <3>1
    <3>3. QED
      BY <1>1, <3>1, <3>2
  <2>2. QED
    BY <1>4, <2>1
<1>12. ASSUME k = 1, s[1] = "eof" PROVE Eofs(s) = S \cup {1} /\ 1 \notin S
  <2>1. 1 \in Eofs(s)
    BY <1>1, <1>12 DEF Eofs
  <2>2. \A i \in Eofs(s) : i = 1 \/ i > k
    BY <1>1, <1>12 DEF Eofs
  <2>3. QED
    BY <1>4, <1>12, <2>1, <2>2
<1>13. Cardinality(S \cup {1}) = Cardinality(S) + 1 \/ 1 \in S
  BY <1>9, FS_AddElement
<1>14. QED
  BY <1>1, <1>2, <1>9, <1>10, <1>11, <1>12, <1>13

-----------------------------------------------------------------------------
(* The invariant: finished characters and the line under way fill at most the ring, what *)
(* sleeps has nothing to read, and control-Ds are accounted for.                         *)

ReadyLen == Co!Minus(consW, consR)
LineLen  == Co!Minus(consE, consW)

ConsTypes ==
  /\ consR \in 0..INDEXWRAP-1 /\ consW \in 0..INDEXWRAP-1 /\ consE \in 0..INDEXWRAP-1
  /\ consBuf \in [0..INPUT_BUF-1 -> Chs] /\ pos \in Nat
  /\ consPc \in [Readers -> {"user", "reading", "dozing", "asleep"}]
  /\ consLeft \in [Readers -> Nat] /\ target \in [Readers -> Nat]
  /\ eofs \in Nat /\ zeros \in Nat

Fits == ReadyLen + LineLen <= INPUT_BUF

\* a line has no control-D or newline in it, and leaves room unless there is something to read
Under ==
  /\ ReadyLen + LineLen = INPUT_BUF => ReadyLen > 0
  /\ \A k \in 1..LineLen : Co!Line[k] \notin Co!Ends

OnScreen == pos < ROWS * COLS /\ LineLen <= pos

\* consoleread: n and target, and why a reader sleeps
InRead(p) ==
  /\ consPc[p] = "user" => consLeft[p] = 0 /\ target[p] = 0
  /\ consPc[p] # "user" => 0 < consLeft[p] /\ consLeft[p] <= target[p]
  /\ consPc[p] \in {"dozing", "asleep"} => consR = consW

Counted == eofs = zeros + Cardinality(Eofs(Co!Ready))

ConsInv == ConsTypes /\ Fits /\ Under /\ OnScreen /\ (\A p \in Readers : InRead(p)) /\ Counted

\* the places between two indices
LEMMA Moved ==
  ASSUME ConsoleSizes, NEW i \in 0..INDEXWRAP-1, NEW k \in 0..INPUT_BUF
  PROVE  (i + k) % INDEXWRAP \in 0..INDEXWRAP-1 /\ Co!Minus((i + k) % INDEXWRAP, i) = k
<1>1. INDEXWRAP \in Nat \ {0} /\ INPUT_BUF < INDEXWRAP /\ INPUT_BUF \in Nat \ {0}
  BY RingSizes
<1>2. PICK x : x = i + k
  OBVIOUS
<1>3. x \in 0..INDEXWRAP + INDEXWRAP - 1 /\ x \in Int
  BY <1>1, <1>2
<1>4. PICK y : y = x % INDEXWRAP
  OBVIOUS
<1>5. y = IF x < INDEXWRAP THEN x ELSE x - INDEXWRAP
  BY <1>3, <1>4, Turns
<1>6. y \in 0..INDEXWRAP-1
  BY <1>1, <1>3, <1>5
<1>7. Co!Minus(y, i) = IF i <= y THEN y - i ELSE y + INDEXWRAP - i
  BY <1>6, MinusIs
<1>8. QED
  BY <1>1, <1>2, <1>3, <1>4, <1>5, <1>6, <1>7

LEMMA Between ==
  ASSUME ConsoleSizes, NEW i \in 0..INDEXWRAP-1, NEW j \in 0..INDEXWRAP-1, NEW k \in 0..INDEXWRAP-1,
         Co!Minus(j, i) + Co!Minus(k, j) <= INPUT_BUF
  PROVE  /\ Co!Minus(j, i) \in 0..INPUT_BUF /\ Co!Minus(k, j) \in 0..INPUT_BUF
         /\ j = (i + Co!Minus(j, i)) % INDEXWRAP
         /\ Co!Minus(k, i) = Co!Minus(j, i) + Co!Minus(k, j)
<1>1. INDEXWRAP \in Nat \ {0} /\ INPUT_BUF < INDEXWRAP /\ INPUT_BUF \in Nat \ {0}
  BY RingSizes
<1>2. PICK a, b, d : a = Co!Minus(j, i) /\ b = Co!Minus(k, j) /\ d = Co!Minus(k, i)
  OBVIOUS
<1>3. /\ a \in 0..INDEXWRAP-1 /\ a = IF i <= j THEN j - i ELSE j + INDEXWRAP - i
      /\ b \in 0..INDEXWRAP-1 /\ b = IF j <= k THEN k - j ELSE k + INDEXWRAP - j
      /\ d \in 0..INDEXWRAP-1 /\ d = IF i <= k THEN k - i ELSE k + INDEXWRAP - i
  BY <1>2, MinusIs
<1>4. a \in 0..INPUT_BUF /\ b \in 0..INPUT_BUF /\ d = a + b
  BY <1>1, <1>2, <1>3
<1>5. PICK x : x = i + a
  OBVIOUS
<1>6. x \in 0..INDEXWRAP + INDEXWRAP - 1 /\ j = IF x < INDEXWRAP THEN x ELSE x - INDEXWRAP
  BY <1>1, <1>3, <1>5
<1>7. x % INDEXWRAP = j
  BY <1>6, Turns
<1>8. QED
  BY <1>2, <1>4, <1>5, <1>7

\* what the three indices say
LEMMA Indices ==
  ASSUME ConsoleSizes, ConsTypes, Fits
  PROVE  /\ ReadyLen \in 0..INPUT_BUF /\ LineLen \in 0..INPUT_BUF
         /\ consW = (consR + ReadyLen) % INDEXWRAP /\ consE = (consW + LineLen) % INDEXWRAP /\ consE = (consR + (ReadyLen + LineLen)) % INDEXWRAP
         /\ Co!Minus(consE, consR) = ReadyLen + LineLen
         /\ consE % INPUT_BUF = Slot(consW, LineLen + 1) /\ consE % INPUT_BUF = Slot(consR, ReadyLen + LineLen + 1)
<1>1. consR \in 0..INDEXWRAP-1 /\ consW \in 0..INDEXWRAP-1 /\ consE \in 0..INDEXWRAP-1 /\ Co!Minus(consW, consR) + Co!Minus(consE, consW) <= INPUT_BUF
  BY DEF ConsTypes, Fits, ReadyLen, LineLen
<1>2. INDEXWRAP \in Nat \ {0} /\ INPUT_BUF < INDEXWRAP /\ INPUT_BUF \in Nat \ {0}
  BY RingSizes
<1>3. /\ ReadyLen \in 0..INPUT_BUF /\ LineLen \in 0..INPUT_BUF
      /\ consW = (consR + ReadyLen) % INDEXWRAP /\ Co!Minus(consE, consR) = ReadyLen + LineLen
  BY <1>1, Between DEF ReadyLen, LineLen
<1>4. Co!Minus(consW, consW) = 0 /\ Co!Minus(consE, consE) = 0
  BY <1>1, <1>2, MinusIs
<1>5. consE = (consW + LineLen) % INDEXWRAP
  <2>1. Co!Minus(consW, consW) + Co!Minus(consE, consW) <= INPUT_BUF /\ Co!Minus(consE, consW) + Co!Minus(consE, consE) <= INPUT_BUF
    <3>1. Co!Minus(consE, consW) \in 0..INPUT_BUF
      BY <1>3 DEF LineLen
    <3>2. QED
      BY <1>2, <1>4, <3>1
  <2>2. QED
    BY <1>1, <2>1, Between DEF LineLen
<1>6. consE = (consR + (ReadyLen + LineLen)) % INDEXWRAP
  <2>3. Co!Minus(consE, consR) + Co!Minus(consE, consE) <= INPUT_BUF
    BY <1>1, <1>2, <1>3, <1>4 DEF ReadyLen, LineLen
  <2>4. consE = (consR + Co!Minus(consE, consR)) % INDEXWRAP
    BY <1>1, <2>3, Between
  <2>5. QED
    BY <1>3, <2>4
<1>7. consW + (LineLen + 1) - 1 = consW + LineLen /\ consR + (ReadyLen + LineLen + 1) - 1 = consR + (ReadyLen + LineLen)
  BY <1>1, <1>3
<1>8. QED
  BY <1>3, <1>5, <1>6, <1>7 DEF Slot

\* the line and the finished characters
LEMMA LinesAre == Co!Ready = Text(consBuf, consR, ReadyLen) /\ Co!Line = Text(consBuf, consW, LineLen)
BY DEF Co!Ready, Co!Line, Co!Chars, Text, Slot, ReadyLen, LineLen

LEMMA LinesWill == Co!Ready' = Text(consBuf', consR', ReadyLen') /\ Co!Line' = Text(consBuf', consW', LineLen')
BY DEF Co!Ready, Co!Line, Co!Chars, Text, Slot, ReadyLen, LineLen, Co!Minus

LEMMA LinesIn ==
  ASSUME ConsoleSizes, ConsTypes, Fits
  PROVE  /\ Co!Ready \in Seq(Chs) /\ Len(Co!Ready) = ReadyLen
         /\ Co!Line \in Seq(Chs) /\ Len(Co!Line) = LineLen
         /\ ReadyLen \in Nat /\ LineLen \in Nat
<1>1. ReadyLen \in Nat /\ LineLen \in Nat
  BY Indices, RingSizes
<1>2. consR \in 0..INDEXWRAP-1 /\ consW \in 0..INDEXWRAP-1 /\ consBuf \in [0..INPUT_BUF-1 -> Chs]
  BY DEF ConsTypes
<1>3. QED
  BY <1>1, <1>2, LinesAre, TextIs

LEMMA ConsInit == ASSUME ConsoleSizes, Co!Init PROVE ConsInv
<1>1. INDEXWRAP \in Nat \ {0} /\ INPUT_BUF < INDEXWRAP /\ INPUT_BUF \in Nat \ {0}
  BY RingSizes
<1>2. ConsTypes
  BY <1>1 DEF Co!Init, ConsTypes, Chs, Co!Plain
<1>3. ReadyLen = 0 /\ LineLen = 0
  BY <1>1, <1>2, MinusIs DEF Co!Init, ReadyLen, LineLen, ConsTypes
<1>4. ROWS * COLS > 0
  <2>1. PICK a \in Nat, b \in Nat : ROWS = a + 1 /\ COLS = b + 1
    <3>1. ROWS - 1 \in Nat /\ COLS - 1 \in Nat /\ ROWS = (ROWS - 1) + 1 /\ COLS = (COLS - 1) + 1
      BY DEF ConsoleSizes
    <3>2. QED
      BY <3>1
  <2>2. (a + 1) * (b + 1) = a * b + a + b + 1 /\ a * b \in Nat
    BY <2>1
  <2>3. QED
    BY <2>1, <2>2
<1>5. Fits /\ Under /\ OnScreen /\ \A p \in Readers : InRead(p)
  BY <1>1, <1>3, <1>4 DEF Co!Init, Fits, Under, OnScreen, InRead
<1>6. Eofs(Co!Ready) = {}
  <2>1. Len(Co!Ready) = 0
    BY <1>2, <1>3, <1>5, LinesIn
  <2>2. QED
    BY <2>1 DEF Eofs
<1>7. Counted
  BY <1>6, FS_EmptySet DEF Co!Init, Counted
<1>8. QED
  BY <1>2, <1>5, <1>7 DEF ConsInv

-----------------------------------------------------------------------------
(* A character typed *)

LEMMA KeepDoes ==
  ASSUME ConsoleSizes, ConsTypes, Fits, NEW c \in Chs, Co!Keep(c)
  PROVE  /\ consR' = consR /\ consW' \in 0..INDEXWRAP-1 /\ consE' \in 0..INDEXWRAP-1 /\ consBuf' \in [0..INPUT_BUF-1 -> Chs]
         /\ ReadyLen + LineLen < INPUT_BUF
         /\ \/ /\ consW' = consE' /\ ReadyLen' = ReadyLen + LineLen + 1 /\ LineLen' = 0
               /\ Co!Ready' = Append(Co!Ready \o Co!Line, c) /\ Co!Line' = <<>> /\ consPc' = Co!Woken
               /\ c \in Co!Ends \/ ReadyLen + LineLen + 1 = INPUT_BUF
            \/ /\ consW' = consW /\ ReadyLen' = ReadyLen /\ LineLen' = LineLen + 1
               /\ Co!Ready' = Co!Ready /\ Co!Line' = Append(Co!Line, c) /\ consPc' = consPc
               /\ c \notin Co!Ends /\ ReadyLen + LineLen + 1 < INPUT_BUF
<1>1. INDEXWRAP \in Nat \ {0} /\ INPUT_BUF < INDEXWRAP /\ INPUT_BUF \in Nat \ {0}
  BY RingSizes
<1>2. consR \in 0..INDEXWRAP-1 /\ consW \in 0..INDEXWRAP-1 /\ consE \in 0..INDEXWRAP-1 /\ consBuf \in [0..INPUT_BUF-1 -> Chs]
  BY DEF ConsTypes
<1>3. PICK R, L, N : R = ReadyLen /\ L = LineLen /\ N = R + L
  OBVIOUS
<1>4. R \in 0..INPUT_BUF /\ L \in 0..INPUT_BUF /\ N \in 0..INPUT_BUF-1 /\ N = R + L
  BY <1>1, <1>3, Indices DEF Co!Keep
<1>5. /\ consW = (consR + R) % INDEXWRAP /\ consE = (consR + N) % INDEXWRAP /\ consE % INPUT_BUF = Slot(consR, N + 1)
      /\ consE = (consW + L) % INDEXWRAP /\ consE % INPUT_BUF = Slot(consW, L + 1)
  BY <1>3, Indices
<1>6. PICK n : n = (consE + 1) % INDEXWRAP
  OBVIOUS
<1>7. /\ consBuf' = [consBuf EXCEPT ![consE % INPUT_BUF] = c] /\ consE' = n /\ consR' = consR
      /\ IF Co!Finished(c, n) THEN consW' = n /\ consPc' = Co!Woken ELSE UNCHANGED <<consW, consPc>>
  BY <1>6 DEF Co!Keep
<1>8. N + 1 \in 0..INPUT_BUF /\ L + 1 \in 0..INPUT_BUF
  BY <1>1, <1>4
<1>9. n = (consR + (N + 1)) % INDEXWRAP /\ n = (consW + (L + 1)) % INDEXWRAP
  <2>1. PICK x, y : x = consE + 1 /\ y = consR + N
    OBVIOUS
  <2>a. x \in 0..INDEXWRAP + INDEXWRAP - 1 /\ y \in 0..INDEXWRAP + INDEXWRAP - 1
    BY <1>1, <1>2, <1>4, <2>1
  <2>2. consE = IF y < INDEXWRAP THEN y ELSE y - INDEXWRAP
    BY <1>5, <2>1, <2>a, Turns
  <2>3. n = IF x < INDEXWRAP THEN x ELSE x - INDEXWRAP
    BY <1>6, <2>1, <2>a, Turns
  <2>4. PICK z : z = consR + (N + 1)
    OBVIOUS
  <2>5. z \in 0..INDEXWRAP + INDEXWRAP - 1 /\ z = y + 1
    BY <1>1, <1>2, <1>4, <2>1, <2>4
  <2>6. z % INDEXWRAP = IF z < INDEXWRAP THEN z ELSE z - INDEXWRAP
    BY <2>5, Turns
  <2>7. n = z % INDEXWRAP
    BY <1>1, <2>1, <2>a, <2>2, <2>3, <2>5, <2>6
  <2>8. PICK v, u : v = consW + L /\ u = consW + (L + 1)
    OBVIOUS
  <2>b. v \in 0..INDEXWRAP + INDEXWRAP - 1 /\ u \in 0..INDEXWRAP + INDEXWRAP - 1 /\ u = v + 1
    BY <1>1, <1>2, <1>4, <2>8
  <2>9. consE = IF v < INDEXWRAP THEN v ELSE v - INDEXWRAP
    BY <1>5, <2>8, <2>b, Turns
  <2>10. u % INDEXWRAP = IF u < INDEXWRAP THEN u ELSE u - INDEXWRAP
    BY <2>b, Turns
  <2>11. n = u % INDEXWRAP
    BY <1>1, <1>2, <2>1, <2>a, <2>3, <2>b, <2>9, <2>10
  <2>12. QED
    BY <2>4, <2>7, <2>8, <2>11
<1>10. n \in 0..INDEXWRAP-1 /\ Co!Minus(n, consR) = N + 1 /\ Co!Minus(n, consW) = L + 1 /\ Co!Minus(n, n) = 0
  <2>1. n \in 0..INDEXWRAP-1 /\ Co!Minus(n, consR) = N + 1
    BY <1>2, <1>8, <1>9, Moved
  <2>2. Co!Minus(n, consW) = L + 1
    BY <1>2, <1>8, <1>9, Moved
  <2>3. Co!Minus(n, n) = 0
    BY <1>1, <2>1, MinusIs
  <2>4. QED
    BY <2>1, <2>2, <2>3
<1>11. Co!Finished(c, n) <=> c \in Co!Ends \/ N + 1 = INPUT_BUF
  <2>1. PICK q : q = (consR + INPUT_BUF) % INDEXWRAP
    OBVIOUS
  <2>2. Co!Minus(q, consR) = INPUT_BUF
    BY <1>1, <1>2, <2>1, Moved
  <2>3. N + 1 = INPUT_BUF => n = q
    BY <1>9, <2>1
  <2>4. QED
    BY <1>10, <2>1, <2>2, <2>3 DEF Co!Finished
<1>12. consBuf' \in [0..INPUT_BUF-1 -> Chs]
  BY <1>2, <1>7
<1>13. /\ Text(consBuf', consR, N + 1) = Append(Text(consBuf, consR, N), c)
       /\ Text(consBuf', consR, R) = Text(consBuf, consR, R)
       /\ Text(consBuf', consW, L + 1) = Append(Text(consBuf, consW, L), c)
  <2>1. N \in 0..INPUT_BUF-1 /\ L \in 0..INPUT_BUF-1 /\ R \in 0..N
    BY <1>1, <1>4
  <2>3. Grown(consBuf', consBuf, consR, N, c) /\ Grown(consBuf', consBuf, consW, L, c)
    BY <1>5, <1>7 DEF Grown
  <2>4. Text(consBuf', consR, N + 1) = Append(Text(consBuf, consR, N), c) /\ Text(consBuf', consR, R) = Text(consBuf, consR, R)
    BY <1>2, <2>1, <2>3, TextGrows
  <2>5. Text(consBuf', consW, L + 1) = Append(Text(consBuf, consW, L), c)
    BY <1>2, <2>1, <2>3, TextGrows
  <2>6. QED
    BY <2>4, <2>5
<1>14. Text(consBuf, consR, N) = Co!Ready \o Co!Line
  <2>1. Text(consBuf, consR, N) = Text(consBuf, consR, R) \o Text(consBuf, consW, L)
    <3>1. R + L <= INPUT_BUF /\ Behind(consW, consR, R)
      BY <1>1, <1>4, <1>5 DEF Behind
    <3>2. QED
      BY <1>2, <1>4, <3>1, TextEnds
  <2>2. QED
    BY <1>3, <2>1, LinesAre
<1>15. Co!Ready = Text(consBuf, consR, R) /\ Co!Line = Text(consBuf, consW, L)
  BY <1>3, LinesAre
<1>16. CASE c \in Co!Ends \/ N + 1 = INPUT_BUF
  <2>1. consW' = n /\ consE' = n /\ consPc' = Co!Woken /\ consR' = consR
    BY <1>7, <1>11, <1>16
  <2>2. ReadyLen' = N + 1 /\ LineLen' = 0
    BY <1>10, <2>1 DEF ReadyLen, LineLen, Co!Minus
  <2>3. Co!Ready' = Append(Co!Ready \o Co!Line, c)
    BY <1>13, <1>14, <2>1, <2>2, LinesWill
  <2>4. Co!Line' = <<>>
    <3>1. Co!Line' = Text(consBuf', n, 0)
      BY <2>1, <2>2, LinesWill
    <3>2. Text(consBuf', n, 0) \in Seq(Chs) /\ Len(Text(consBuf', n, 0)) = 0
      BY <1>10, <1>12, TextIs
    <3>3. QED
      BY <3>1, <3>2
  <2>5. N + 1 = ReadyLen + LineLen + 1 /\ N = ReadyLen + LineLen
    BY <1>3, <1>4
  <2>6. /\ consW' = consE' /\ ReadyLen' = ReadyLen + LineLen + 1 /\ LineLen' = 0
        /\ Co!Ready' = Append(Co!Ready \o Co!Line, c) /\ Co!Line' = <<>> /\ consPc' = Co!Woken
        /\ c \in Co!Ends \/ ReadyLen + LineLen + 1 = INPUT_BUF
    BY <1>16, <2>1, <2>2, <2>3, <2>4, <2>5
  <2>7. consW' \in 0..INDEXWRAP-1 /\ consE' \in 0..INDEXWRAP-1 /\ ReadyLen + LineLen < INPUT_BUF
    BY <1>1, <1>4, <1>10, <2>1, <2>5
  <2>8. QED
    BY <1>12, <2>1, <2>6, <2>7
<1>17. CASE ~(c \in Co!Ends \/ N + 1 = INPUT_BUF)
  <2>1. consW' = consW /\ consE' = n /\ consPc' = consPc /\ consR' = consR
    BY <1>7, <1>11, <1>17
  <2>2. ReadyLen' = R /\ LineLen' = L + 1
    BY <1>3, <1>10, <2>1 DEF ReadyLen, LineLen, Co!Minus
  <2>3. Co!Ready' = Co!Ready /\ Co!Line' = Append(Co!Line, c)
    BY <1>13, <1>15, <2>1, <2>2, LinesWill
  <2>4. N = ReadyLen + LineLen /\ N + 1 < INPUT_BUF /\ N < INPUT_BUF
    BY <1>1, <1>3, <1>4, <1>17
  <2>5. QED
    BY <1>2, <1>3, <1>10, <1>12, <1>17, <2>1, <2>2, <2>3, <2>4
<1>18. QED
  BY <1>16, <1>17

LEMMA EditDoes ==
  ASSUME ConsoleSizes, ConsTypes, Fits, NEW c \in Co!Edits, Co!Edit(c)
  PROVE  /\ consE' \in 0..INDEXWRAP-1 /\ UNCHANGED <<consBuf, consR, consW, consPc, eofs>>
         /\ Co!Erased(c) \in 0..LineLen /\ (LineLen # 0 => Co!Erased(c) \in {1, LineLen})
         /\ ReadyLen' = ReadyLen /\ LineLen' = LineLen - Co!Erased(c)
         /\ Co!Ready' = Co!Ready /\ Co!Line' = SubSeq(Co!Line, 1, LineLen - Co!Erased(c))
         /\ pos' = Co!Back(pos, Co!Erased(c))
<1>1. INDEXWRAP \in Nat \ {0} /\ INPUT_BUF < INDEXWRAP /\ INPUT_BUF \in Nat \ {0}
  BY RingSizes
<1>2. consR \in 0..INDEXWRAP-1 /\ consW \in 0..INDEXWRAP-1 /\ consE \in 0..INDEXWRAP-1 /\ consBuf \in [0..INPUT_BUF-1 -> Chs]
  BY DEF ConsTypes
<1>3. PICK L : L = LineLen
  OBVIOUS
<1>4. L \in 0..INPUT_BUF /\ Len(Co!Line) = L /\ consE = (consW + L) % INDEXWRAP
  BY <1>3, Indices, LinesIn
<1>5. PICK k : k = Co!Erased(c)
  OBVIOUS
<1>6. k \in 0..L /\ (L # 0 => k \in {1, L})
  <2>1. CASE c = "kill"
    BY <1>1, <1>4, <1>5, <2>1 DEF Co!Erased
  <2>2. CASE c # "kill"
    <3>1. k = Co!Min({1, L})
      BY <1>4, <1>5, <2>2 DEF Co!Erased
    <3>2. CASE L = 0
      <4>1. 0 \in {1, L} /\ \A y \in {1, L} : 0 =< y
        BY <3>2
      <4>2. k \in {1, L} /\ \A y \in {1, L} : k =< y
        BY <3>1, <4>1 DEF Co!Min
      <4>3. QED
        BY <3>2, <4>2
    <3>3. CASE L # 0
      <4>1. 1 \in {1, L} /\ \A y \in {1, L} : 1 =< y
        BY <1>1, <1>4, <3>3
      <4>2. k \in {1, L} /\ \A y \in {1, L} : k =< y
        BY <3>1, <4>1 DEF Co!Min
      <4>3. QED
        BY <1>1, <1>4, <3>3, <4>2
    <3>4. QED
      BY <3>2, <3>3
  <2>3. QED
    BY <2>1, <2>2
<1>7. consE' = Co!Minus(consE, k) /\ UNCHANGED <<consBuf, consR, consW, consPc, eofs>> /\ pos' = Co!Back(pos, k)
  BY <1>5 DEF Co!Edit
<1>8. consE' \in 0..INDEXWRAP-1 /\ Co!Minus(consE', consW) = L - k
  <2>1. k \in 0..INDEXWRAP-1 /\ k <= L
    BY <1>1, <1>4, <1>6
  <2>a. L = IF consW <= consE THEN consE - consW ELSE consE + INDEXWRAP - consW
    <3>1. Co!Minus(consE, consW) = IF consW <= consE THEN consE - consW ELSE consE + INDEXWRAP - consW
      BY <1>2, MinusIs
    <3>2. QED
      BY <1>3, <3>1 DEF LineLen
  <2>2. PICK x : x = Co!Minus(consE, k)
    OBVIOUS
  <2>3. x \in 0..INDEXWRAP-1 /\ x = IF k <= consE THEN consE - k ELSE consE + INDEXWRAP - k
    BY <1>2, <2>1, <2>2, MinusIs
  <2>4. Co!Minus(x, consW) = IF consW <= x THEN x - consW ELSE x + INDEXWRAP - consW
    BY <1>2, <2>3, MinusIs
  <2>5. Co!Minus(x, consW) = L - k
    <3>1. consE \in Nat /\ consW \in Nat /\ INDEXWRAP \in Nat /\ k \in Nat /\ L \in Nat /\ x \in Nat
      BY <1>1, <1>2, <1>4, <2>1, <2>3
    <3>2. consE < INDEXWRAP /\ consW < INDEXWRAP /\ k < INDEXWRAP /\ x < INDEXWRAP
      BY <1>1, <1>2, <2>1, <2>3
    <3>3. QED
      BY <2>1, <2>a, <2>3, <2>4, <3>1, <3>2
  <2>6. consE' = x
    BY <1>7, <2>2
  <2>7. QED
    BY <2>3, <2>5, <2>6 DEF Co!Minus
<1>9. ReadyLen' = ReadyLen /\ LineLen' = L - k
  BY <1>7, <1>8 DEF ReadyLen, LineLen, Co!Minus
<1>10. Co!Ready' = Co!Ready
  BY <1>7, <1>9, LinesAre, LinesWill
<1>11. Co!Line' = SubSeq(Co!Line, 1, L - k)
  <2>1. L - k \in 0..L /\ L \in Nat
    BY <1>1, <1>4, <1>6
  <2>2. Text(consBuf, consW, L - k) = SubSeq(Text(consBuf, consW, L), 1, L - k)
    <3>1. PICK m \in 0..L : m = L - k
      BY <2>1
    <3>2. QED
      BY <1>2, <2>1, <3>1, TextBegins
  <2>3. QED
    BY <1>3, <1>7, <1>9, <2>2, LinesAre, LinesWill
<1>12. QED
  BY <1>3, <1>5, <1>6, <1>7, <1>8, <1>9, <1>10, <1>11

-----------------------------------------------------------------------------
(* The cursor *)

Cells == ROWS * COLS

LEMMA ScreenIs ==
  ASSUME ConsoleSizes
  PROVE  Cells \in Nat /\ COLS \in 1..Cells /\ INPUT_BUF - 1 <= Cells - COLS
<1>1. PICK a \in Nat, b \in Nat : ROWS = a + 1 /\ COLS = b + 1
  <2>1. ROWS - 1 \in Nat /\ COLS - 1 \in Nat /\ ROWS = (ROWS - 1) + 1 /\ COLS = (COLS - 1) + 1
    BY DEF ConsoleSizes
  <2>2. QED
    BY <2>1
<1>2. /\ (a + 1) * (b + 1) = a * (b + 1) + (b + 1) /\ a * (b + 1) \in Nat
      /\ ((a + 1) - 1) * (b + 1) = a * (b + 1)
  BY <1>1
<1>3. Cells = a * (b + 1) + (b + 1) /\ (ROWS - 1) * COLS = a * (b + 1)
  BY <1>1, <1>2 DEF Cells
<1>4. INPUT_BUF - 1 <= (ROWS - 1) * COLS
  BY DEF ConsoleSizes
<1>5. QED
  BY <1>1, <1>2, <1>3, <1>4

\* rows and columns
LEMMA RowsAre ==
  ASSUME ConsoleSizes, NEW i \in Nat
  PROVE  /\ i \div COLS >= ROWS <=> i >= Cells
         /\ i % COLS \in 0..COLS-1 /\ (i < Cells => i + COLS - (i % COLS) <= Cells)
<1>1. COLS \in Nat \ {0} /\ ROWS \in Nat \ {0} /\ Cells \in Nat
  BY ScreenIs DEF ConsoleSizes
<1>2. PICK q, s : q = i \div COLS /\ s = i % COLS
  OBVIOUS
<1>3. q \in Int /\ s \in 0..COLS-1 /\ i = COLS * q + s
  BY <1>1, <1>2
<1>4. Cells = COLS * ROWS
  BY <1>1 DEF Cells
<1>5. ASSUME q >= ROWS PROVE i >= Cells
  <2>1. PICK j \in Nat : q = ROWS + j
    <3>1. q - ROWS \in Nat /\ q = ROWS + (q - ROWS)
      BY <1>1, <1>3, <1>5
    <3>2. QED
      BY <3>1
  <2>2. COLS * (ROWS + j) = COLS * ROWS + COLS * j /\ COLS * j \in Nat
    BY <1>1, <2>1
  <2>3. QED
    BY <1>1, <1>3, <1>4, <2>1, <2>2
<1>6. ASSUME q < ROWS PROVE COLS * q + COLS <= Cells
  <2>1. PICK j \in Nat : ROWS = (q + 1) + j
    <3>1. ROWS - (q + 1) \in Nat /\ ROWS = (q + 1) + (ROWS - (q + 1))
      BY <1>1, <1>3, <1>6
    <3>2. QED
      BY <3>1
  <2>2. COLS * ((q + 1) + j) = COLS * q + COLS + COLS * j /\ COLS * j \in Nat /\ COLS * q \in Int
    BY <1>1, <1>3, <2>1
  <2>3. QED
    BY <1>1, <1>3, <1>4, <2>1, <2>2
<1>7. COLS * q \in Int
  BY <1>1, <1>3
<1>8. q >= ROWS <=> i >= Cells
  BY <1>1, <1>3, <1>5, <1>6, <1>7
<1>9. i < Cells => i + COLS - s <= Cells
  BY <1>1, <1>3, <1>6, <1>7, <1>8
<1>10. QED
  BY <1>2, <1>3, <1>8, <1>9

\* The cursor stays on the screen and behind what can be erased.
LEMMA CursorMoves ==
  ASSUME ConsoleSizes, pos \in Nat, pos < Cells, NEW c
  PROVE  /\ Co!After(pos, c) \in Nat /\ Co!After(pos, c) < Cells
         /\ \A n \in Nat : n <= pos + 1 /\ n <= INPUT_BUF - 1 => n <= Co!After(pos, c)
<1>1. Cells \in Nat /\ COLS \in 1..Cells /\ INPUT_BUF - 1 <= Cells - COLS /\ INPUT_BUF \in Nat \ {0} /\ COLS \in Nat
  BY ScreenIs, RingSizes
<1>2. PICK x : x = IF c = "newline" THEN pos + COLS - (pos % COLS) ELSE pos + 1
  OBVIOUS
<1>3. x \in Nat /\ x <= Cells /\ x >= pos + 1
  <2>1. pos % COLS \in 0..COLS-1 /\ pos + COLS - (pos % COLS) <= Cells
    BY RowsAre
  <2>2. PICK s : s = pos % COLS
    OBVIOUS
  <2>3. CASE c = "newline"
    <3>1. x = pos + COLS - s /\ s \in 0..COLS-1 /\ pos + COLS - s <= Cells
      BY <1>2, <2>1, <2>2, <2>3
    <3>2. QED
      BY <1>1, <3>1
  <2>4. CASE c # "newline"
    BY <1>1, <1>2, <2>4
  <2>5. QED
    BY <2>3, <2>4
<1>4. Co!After(pos, c) = Co!Scrolled(x)
  BY <1>2 DEF Co!After
<1>5. x \div COLS >= ROWS <=> x >= Cells
  BY <1>3, RowsAre
<1>6. Co!Scrolled(x) = IF x >= Cells THEN x - COLS ELSE x
  BY <1>5 DEF Co!Scrolled
<1>7. QED
  BY <1>1, <1>3, <1>4, <1>6

-----------------------------------------------------------------------------
(* A read *)

LEMMA LeastOf ==
  ASSUME NEW S \in SUBSET Nat, S # {}
  PROVE  Co!Min(S) \in S /\ \A y \in S : Co!Min(S) <= y
<1>1. \E m \in S : \A n \in S : m <= n
  BY D!Least
<1>2. QED
  BY <1>1 DEF Co!Min

\* how far a read looks
Reach(p) == Co!Min({consLeft[p], Len(Co!Ready)})

LEMMA BreakIs ==
  ASSUME ConsoleSizes, ConsTypes, Fits, NEW p \in Readers
  PROVE  /\ Reach(p) \in Nat /\ Reach(p) <= consLeft[p] /\ Reach(p) <= ReadyLen
         /\ Reach(p) \in {consLeft[p], ReadyLen}
         /\ \/ Co!Break(p) = 0 /\ \A i \in 1..Reach(p) : Co!Ready[i] \notin Co!Ends
            \/ /\ Co!Break(p) \in 1..Reach(p) /\ Co!Ready[Co!Break(p)] \in Co!Ends
               /\ \A i \in 1..Co!Break(p) - 1 : Co!Ready[i] \notin Co!Ends
<1>1. consLeft[p] \in Nat /\ ReadyLen \in Nat /\ Len(Co!Ready) = ReadyLen
  BY LinesIn DEF ConsTypes
<1>2. /\ Reach(p) \in Nat /\ Reach(p) <= consLeft[p] /\ Reach(p) <= ReadyLen
      /\ Reach(p) \in {consLeft[p], ReadyLen}
  <2>1. {consLeft[p], Len(Co!Ready)} \in SUBSET Nat /\ {consLeft[p], Len(Co!Ready)} # {}
    BY <1>1
  <2>2. QED
    BY <1>1, <2>1, LeastOf DEF Reach
<1>3. PICK at : at = {i \in 1..Reach(p) : Co!Ready[i] \in Co!Ends}
  OBVIOUS
<1>4. Co!Break(p) = IF at = {} THEN 0 ELSE Co!Min(at)
  BY <1>3 DEF Co!Break, Reach
<1>5. CASE at = {}
  BY <1>2, <1>3, <1>4, <1>5
<1>6. CASE at # {}
  <2>1. at \in SUBSET Nat
    BY <1>2, <1>3
  <2>2. PICK b : b = Co!Break(p)
    OBVIOUS
  <2>3. b \in at /\ \A y \in at : b <= y
    <3>1. b = Co!Min(at)
      BY <1>4, <1>6, <2>2
    <3>2. Co!Min(at) \in at /\ \A y \in at : Co!Min(at) <= y
      BY <1>6, <2>1, LeastOf
    <3>3. QED
      BY <3>1, <3>2
  <2>4. b \in 1..Reach(p) /\ Co!Ready[b] \in Co!Ends
    BY <1>3, <2>3
  <2>5. ASSUME NEW i \in 1..b - 1 PROVE Co!Ready[i] \notin Co!Ends
    <3>1. i \in 1..Reach(p) /\ ~(b <= i)
      BY <1>2, <2>4
    <3>2. QED
      BY <1>3, <2>3, <3>1
  <2>6. QED
    BY <1>2, <2>2, <2>4, <2>5
<1>7. QED
  BY <1>5, <1>6

\* A reader takes characters from the front: up to a newline, up to a control-D, as many as
\* it asked for, or all.
LEMMA ReadDoes ==
  ASSUME ConsoleSizes, ConsTypes, Fits, NEW p \in Readers, InRead(p), Co!Read(p)
  PROVE  \E k \in 0..ReadyLen :
           /\ consR' = (consR + k) % INDEXWRAP
           /\ \A i \in 1..k - 1 : Co!Ready[i] \notin Co!Ends
           /\ \/ zeros' = zeros /\ \A i \in 1..k : Co!Ready[i] # "eof"
              \/ k = 1 /\ Co!Ready[1] = "eof" /\ zeros' = zeros + 1
           /\ \/ Co!Return(p)
              \/ consLeft[p] > k /\ consLeft' = [consLeft EXCEPT ![p] = consLeft[p] - k] /\ UNCHANGED <<consPc, target>>
<1>1. PICK i, m, a, b, N : i = Co!Break(p) /\ m = Reach(p) /\ a = consLeft[p] /\ b = target[p] /\ N = ReadyLen
  OBVIOUS
<1>2. /\ m \in Nat /\ m <= a /\ m <= N /\ m \in {a, N}
      /\ \/ i = 0 /\ \A j \in 1..m : Co!Ready[j] \notin Co!Ends
         \/ i \in 1..m /\ Co!Ready[i] \in Co!Ends /\ \A j \in 1..i - 1 : Co!Ready[j] \notin Co!Ends
  BY <1>1, BreakIs
<1>3. a \in Nat /\ b \in Nat /\ 0 < a /\ a <= b /\ zeros \in Nat
  <2>1. consPc[p] # "user"
    BY DEF Co!Read
  <2>2. QED
    BY <1>1, <2>1 DEF ConsTypes, InRead
<1>4. N \in Nat /\ N # 0
  <2>1. consR \in 0..INDEXWRAP-1 /\ consW \in 0..INDEXWRAP-1 /\ consR # consW /\ INDEXWRAP \in Nat
    BY RingSizes DEF ConsTypes, Co!Read
  <2>2. Co!Minus(consW, consR) # 0
    <3>1. Co!Minus(consW, consR) = IF consR <= consW THEN consW - consR ELSE consW + INDEXWRAP - consR
      BY <2>1, MinusIs
    <3>2. QED
      BY <2>1, <3>1
  <2>3. QED
    BY <1>1, <2>2, LinesIn DEF ReadyLen
<1>5. m >= 1
  BY <1>2, <1>3, <1>4
<1>6. PICK k, data : /\ k = IF Co!Saved(p, i) THEN i - 1 ELSE IF i # 0 THEN i ELSE m
                     /\ data = IF i # 0 /\ Co!Ready[i] = "eof" THEN i - 1 ELSE k
  OBVIOUS
<1>7. /\ consR' = (consR + k) % INDEXWRAP
      /\ i # 0 \/ a = data => zeros' = (IF a - data = b THEN zeros + 1 ELSE zeros) /\ Co!Return(p)
      /\ ~(i # 0 \/ a = data) => consLeft' = [consLeft EXCEPT ![p] = a - data] /\ UNCHANGED <<zeros, consPc, target>>
  <2>1. Co!Min({consLeft[p], Len(Co!Ready)}) = m
    BY <1>1 DEF Reach
  <2>2. consR' = (consR + k) % INDEXWRAP
    BY <1>1, <1>6, <2>1 DEF Co!Read
  <2>3. /\ i # 0 \/ a = data => zeros' = (IF a - data = b THEN zeros + 1 ELSE zeros) /\ Co!Return(p)
        /\ ~(i # 0 \/ a = data) => consLeft' = [consLeft EXCEPT ![p] = a - data] /\ UNCHANGED <<zeros, consPc, target>>
    BY <1>1, <1>6, <2>1 DEF Co!Read
  <2>4. QED
    BY <2>2, <2>3
<1>8. "eof" \in Co!Ends
  BY DEF Co!Ends
<1>9. CASE i = 0
  <2>1. k = m /\ data = m
    BY <1>6, <1>9 DEF Co!Saved
  <2>2. \A j \in 1..m : Co!Ready[j] \notin Co!Ends /\ Co!Ready[j] # "eof"
    BY <1>2, <1>8, <1>9
  <2>3. zeros' = zeros
    BY <1>2, <1>3, <1>5, <1>7, <1>9, <2>1
  <2>4. \/ Co!Return(p)
        \/ consLeft[p] > k /\ consLeft' = [consLeft EXCEPT ![p] = consLeft[p] - k] /\ UNCHANGED <<consPc, target>>
    <3>1. CASE a = data
      <4>1. Co!Return(p)
        BY <1>7, <3>1
      <4>2. QED
        BY <4>1
    <3>2. CASE a # data
      <4>1. a > k
        BY <1>2, <1>3, <2>1, <3>2
      <4>2. QED
        BY <1>1, <1>7, <1>9, <2>1, <3>2, <4>1
    <3>3. QED
      BY <3>1, <3>2
  <2>5. k \in 0..ReadyLen /\ \A j \in 1..k - 1 : Co!Ready[j] \notin Co!Ends
    <3>1. \A j \in 1..m - 1 : j \in 1..m
      BY <1>2
    <3>2. QED
      BY <1>1, <1>2, <1>4, <2>1, <2>2, <3>1
  <2>6. \A j \in 1..k : Co!Ready[j] # "eof"
    BY <2>1, <2>2
  <2>7. QED
    BY <1>7, <2>3, <2>4, <2>5, <2>6
<1>10. CASE i # 0
  <2>1. i \in 1..m /\ Co!Ready[i] \in Co!Ends /\ \A j \in 1..i - 1 : Co!Ready[j] \notin Co!Ends /\ Co!Ready[j] # "eof"
    BY <1>2, <1>8, <1>10
  <2>2. Co!Return(p) /\ zeros' = IF a - data = b THEN zeros + 1 ELSE zeros
    BY <1>7, <1>10
  <2>3. CASE Co!Ready[i] # "eof"
    <3>1. k = i /\ data = i
      BY <1>6, <1>10, <2>3 DEF Co!Saved
    <3>2. zeros' = zeros
      BY <1>2, <1>3, <2>1, <2>2, <3>1
    <3>3. \A j \in 1..k : Co!Ready[j] # "eof"
      <4>1. \A j \in 1..i : j = i \/ j \in 1..i - 1
        BY <1>2, <2>1
      <4>2. QED
        BY <2>1, <2>3, <3>1, <4>1
    <3>4. k \in 0..ReadyLen /\ \A j \in 1..k - 1 : Co!Ready[j] \notin Co!Ends
      BY <1>1, <1>2, <1>4, <2>1, <3>1
    <3>5. QED
      BY <1>7, <2>2, <3>2, <3>3, <3>4
  <2>4. CASE Co!Ready[i] = "eof" /\ (i > 1 \/ a < b)
    <3>1. k = i - 1 /\ data = i - 1
      BY <1>1, <1>6, <1>10, <2>4 DEF Co!Saved
    <3>2. zeros' = zeros
      BY <1>2, <1>3, <2>1, <2>2, <2>4, <3>1
    <3>3. k \in 0..ReadyLen /\ \A j \in 1..k - 1 : j \in 1..i - 1
      BY <1>1, <1>2, <1>4, <2>1, <3>1
    <3>4. (\A j \in 1..k - 1 : Co!Ready[j] \notin Co!Ends) /\ \A j \in 1..k : Co!Ready[j] # "eof"
      BY <2>1, <3>1, <3>3
    <3>5. QED
      BY <1>7, <2>2, <3>2, <3>3, <3>4
  <2>5. CASE Co!Ready[i] = "eof" /\ ~(i > 1 \/ a < b)
    <3>1. i = 1 /\ k = 1 /\ data = 0 /\ a = b
      <4>1. i = 1 /\ a = b
        BY <1>2, <1>3, <2>1, <2>5
      <4>2. ~Co!Saved(p, i)
        BY <1>1, <2>5 DEF Co!Saved
      <4>3. k = i /\ data = i - 1
        BY <1>6, <1>10, <2>5, <4>2
      <4>4. QED
        BY <4>1, <4>3
    <3>2. zeros' = zeros + 1
      BY <1>3, <2>2, <3>1
    <3>3. k \in 0..ReadyLen /\ \A j \in 1..k - 1 : Co!Ready[j] \notin Co!Ends
      BY <1>1, <1>2, <1>4, <1>5, <2>1, <3>1
    <3>4. QED
      BY <1>7, <2>2, <2>5, <3>1, <3>2, <3>3
  <2>6. QED
    BY <2>3, <2>4, <2>5
<1>11. QED
  BY <1>9, <1>10

-----------------------------------------------------------------------------
(* The steps *)

LEMMA Still ==
  UNCHANGED <<consBuf, consR, consW, consE>>
    => ReadyLen' = ReadyLen /\ LineLen' = LineLen /\ Co!Ready' = Co!Ready /\ Co!Line' = Co!Line
BY DEF ReadyLen, LineLen, Co!Ready, Co!Line, Co!Chars, Co!Minus

LEMMA KeepStep ==
  ASSUME ConsoleSizes, ConsInv, NEW c \in Chs, Co!Type(c)
  PROVE  ConsInv' /\ [Co!T!Next]_<<Co!Line, Co!Ready>>
<1>1. ConsTypes /\ Fits /\ Under /\ OnScreen /\ Counted /\ \A p \in Readers : InRead(p)
  BY DEF ConsInv
<1>2. Co!Keep(c) /\ Co!LockFree /\ UNCHANGED <<consLeft, target, consKilled, zeros>>
  <2>1. c \notin Co!Edits
    BY DEF Chs, Co!Plain, Co!Ends, Co!Edits
  <2>2. QED
    BY <2>1 DEF Co!Type
<1>3. PICK R, L : R = ReadyLen /\ L = LineLen
  OBVIOUS
<1>4. /\ R \in 0..INPUT_BUF /\ L \in 0..INPUT_BUF /\ Len(Co!Line) = L /\ Len(Co!Ready) = R /\ INPUT_BUF \in Nat \ {0}
      /\ Co!Line \in Seq(Chs) /\ Co!Ready \in Seq(Chs)
  BY <1>1, <1>3, Indices, LinesIn, RingSizes
<1>5. /\ consR' = consR /\ consW' \in 0..INDEXWRAP-1 /\ consE' \in 0..INDEXWRAP-1 /\ consBuf' \in [0..INPUT_BUF-1 -> Chs]
      /\ R + L < INPUT_BUF
      /\ \/ /\ consW' = consE' /\ ReadyLen' = R + L + 1 /\ LineLen' = 0
            /\ Co!Ready' = Append(Co!Ready \o Co!Line, c) /\ Co!Line' = <<>> /\ consPc' = Co!Woken
            /\ c \in Co!Ends \/ R + L + 1 = INPUT_BUF
         \/ /\ consW' = consW /\ ReadyLen' = R /\ LineLen' = L + 1
            /\ Co!Ready' = Co!Ready /\ Co!Line' = Append(Co!Line, c) /\ consPc' = consPc
            /\ c \notin Co!Ends /\ R + L + 1 < INPUT_BUF
  BY <1>1, <1>2, <1>3, KeepDoes
<1>6. pos' = Co!After(pos, c) /\ eofs' = IF c = "eof" THEN eofs + 1 ELSE eofs
  BY <1>2 DEF Co!Keep
<1>7. pos \in Nat /\ pos < Cells /\ L <= pos /\ Cells \in Nat
  BY <1>1, <1>3, ScreenIs DEF ConsTypes, OnScreen, Cells
<1>8. /\ pos' \in Nat /\ pos' < Cells
      /\ \A n \in Nat : n <= pos + 1 /\ n <= INPUT_BUF - 1 => n <= pos'
  BY <1>6, <1>7, CursorMoves
<1>9. /\ Append(Co!Ready \o Co!Line, c) = Co!Ready \o Append(Co!Line, c)
      /\ Cardinality(Eofs(Append(Co!Ready \o Co!Line, c))) = Cardinality(Eofs(Co!Ready)) + (IF c = "eof" THEN 1 ELSE 0)
  <2>1. \A k \in 1..Len(Co!Line) : Co!Line[k] # "eof"
    <3>1. \A k \in 1..L : Co!Line[k] \notin Co!Ends
      BY <1>1, <1>3 DEF Under
    <3>2. QED
      BY <1>4, <3>1 DEF Co!Ends
  <2>2. QED
    BY <1>4, <2>1, EofsJoin
<1>10. consPc' \in [Readers -> {"user", "reading", "dozing", "asleep"}]
  BY <1>1, <1>5 DEF ConsTypes, Co!Woken
<1>11. ConsTypes'
  <2>1. eofs' \in Nat /\ zeros' \in Nat /\ consLeft' \in [Readers -> Nat] /\ target' \in [Readers -> Nat]
    BY <1>1, <1>2, <1>6 DEF ConsTypes
  <2>2. consR' \in 0..INDEXWRAP-1
    BY <1>1, <1>5 DEF ConsTypes
  <2>3. QED
    BY <1>5, <1>8, <1>10, <2>1, <2>2 DEF ConsTypes
<1>12. ReadyLen' + LineLen' <= INPUT_BUF /\ (ReadyLen' + LineLen' = INPUT_BUF => ReadyLen' > 0) /\ LineLen' <= pos'
  <2>1. CASE ReadyLen' = R + L + 1 /\ LineLen' = 0
    BY <1>4, <1>5, <1>8, <2>1
  <2>2. CASE ReadyLen' = R /\ LineLen' = L + 1 /\ R + L + 1 < INPUT_BUF
    <3>1. L + 1 \in Nat /\ L + 1 <= pos + 1 /\ L + 1 <= INPUT_BUF - 1
      BY <1>4, <1>7, <2>2
    <3>2. L + 1 <= pos'
      BY <1>8, <3>1
    <3>3. QED
      BY <1>4, <2>2, <3>2
  <2>3. QED
    BY <1>5, <2>1, <2>2
<1>13. \A k \in 1..LineLen' : Co!Line'[k] \notin Co!Ends
  <2>1. CASE LineLen' = 0
    BY <2>1
  <2>2. CASE LineLen' = L + 1 /\ Co!Line' = Append(Co!Line, c) /\ c \notin Co!Ends
    <3>1. ASSUME NEW k \in 1..L + 1 PROVE Append(Co!Line, c)[k] \notin Co!Ends
      <4>1. CASE k = L + 1
        BY <1>4, <2>2, <4>1
      <4>2. CASE k # L + 1
        <5>1. k \in 1..L
          BY <1>4, <4>2
        <5>2. Append(Co!Line, c)[k] = Co!Line[k]
          BY <1>4, <5>1
        <5>3. QED
          BY <1>1, <1>3, <5>1, <5>2 DEF Under
      <4>3. QED
        BY <4>1, <4>2
    <3>2. QED
      BY <2>2, <3>1
  <2>3. QED
    BY <1>5, <2>1, <2>2
<1>14. Fits' /\ Under' /\ OnScreen'
  <2>1. pos' < ROWS * COLS
    BY <1>8 DEF Cells
  <2>2. QED
    BY <1>12, <1>13, <2>1 DEF Fits, Under, OnScreen
<1>15. ASSUME NEW p \in Readers PROVE InRead(p)'
  <2>1. InRead(p) /\ consPc[p] # "dozing" /\ consLeft' = consLeft /\ target' = target /\ consR' = consR
    BY <1>1, <1>2, <1>5 DEF Co!LockFree
  <2>2. CASE consPc' = consPc /\ consW' = consW
    BY <2>1, <2>2 DEF InRead
  <2>3. CASE consPc' = Co!Woken
    <3>1. consPc'[p] = IF consPc[p] = "asleep" THEN "reading" ELSE consPc[p]
      BY <2>3 DEF Co!Woken
    <3>2. QED
      BY <2>1, <3>1 DEF InRead
  <2>4. QED
    BY <1>5, <2>2, <2>3
<1>16. Counted'
  <2>1. eofs \in Nat /\ zeros \in Nat /\ zeros' = zeros /\ eofs = zeros + Cardinality(Eofs(Co!Ready))
    BY <1>1, <1>2 DEF ConsTypes, Counted
  <2>2. Cardinality(Eofs(Co!Ready)) \in Nat
    BY <1>4, EofsFinite
  <2>3. CASE Co!Ready' = Append(Co!Ready \o Co!Line, c)
    <3>1. eofs' = zeros' + Cardinality(Eofs(Co!Ready'))
      BY <1>6, <1>9, <2>1, <2>2, <2>3
    <3>2. QED
      BY <3>1 DEF Counted
  <2>4. CASE Co!Ready' = Co!Ready /\ c \notin Co!Ends
    <3>1. c # "eof"
      BY <2>4 DEF Co!Ends
    <3>2. eofs' = zeros' + Cardinality(Eofs(Co!Ready'))
      BY <1>6, <2>1, <2>2, <2>4, <3>1
    <3>3. QED
      BY <3>2 DEF Counted
  <2>5. QED
    BY <1>5, <2>3, <2>4
<1>17. ConsInv'
  BY <1>11, <1>14, <1>15, <1>16 DEF ConsInv
<1>18. Co!T!Type(c)
  <2>1. Len(Co!Line) + Len(Co!Ready) = R + L
    BY <1>4
  <2>2. Len(Co!Line) + Len(Co!Ready) < INPUT_BUF
    BY <1>5, <2>1
  <2>3. CASE c \in Co!Ends \/ R + L + 1 = INPUT_BUF
    <3>1. Co!Line' = <<>> /\ Co!Ready' = Co!Ready \o Append(Co!Line, c)
      <4>1. Co!Line' = <<>> /\ Co!Ready' = Append(Co!Ready \o Co!Line, c)
        BY <1>4, <1>5, <2>3
      <4>2. QED
        BY <1>9, <4>1
    <3>2. QED
      BY <2>1, <2>2, <2>3, <3>1 DEF Co!T!Type
  <2>4. CASE ~(c \in Co!Ends \/ R + L + 1 = INPUT_BUF)
    <3>1. Co!Line' = Append(Co!Line, c) /\ Co!Ready' = Co!Ready
      BY <1>5, <2>4
    <3>2. QED
      BY <2>1, <2>2, <2>4, <3>1 DEF Co!T!Type
  <2>5. QED
    BY <2>3, <2>4
<1>19. QED
  <2>1. c \in Co!Plain \cup Co!Ends
    BY DEF Chs
  <2>2. QED
    BY <1>17, <1>18, <2>1 DEF Co!T!Next

LEMMA EditStep ==
  ASSUME ConsoleSizes, ConsInv, NEW c \in Co!Edits, Co!Type(c)
  PROVE  ConsInv' /\ [Co!T!Next]_<<Co!Line, Co!Ready>>
<1>1. ConsTypes /\ Fits /\ Under /\ OnScreen /\ Counted /\ \A p \in Readers : InRead(p)
  BY DEF ConsInv
<1>2. Co!Edit(c) /\ UNCHANGED <<consLeft, target, consKilled, zeros>>
  BY DEF Co!Type
<1>3. PICK R, L, k : R = ReadyLen /\ L = LineLen /\ k = Co!Erased(c)
  OBVIOUS
<1>4. /\ R \in 0..INPUT_BUF /\ L \in 0..INPUT_BUF /\ Len(Co!Line) = L /\ Len(Co!Ready) = R /\ INPUT_BUF \in Nat \ {0}
      /\ Co!Line \in Seq(Chs) /\ Co!Ready \in Seq(Chs)
  BY <1>1, <1>3, Indices, LinesIn, RingSizes
<1>5. /\ consE' \in 0..INDEXWRAP-1 /\ UNCHANGED <<consBuf, consR, consW, consPc, eofs>>
      /\ k \in 0..L /\ (L # 0 => k \in {1, L})
      /\ ReadyLen' = R /\ LineLen' = L - k
      /\ Co!Ready' = Co!Ready /\ Co!Line' = SubSeq(Co!Line, 1, L - k)
      /\ pos' = Co!Back(pos, k)
  BY <1>1, <1>2, <1>3, EditDoes
<1>6. L \in Nat /\ k \in Nat /\ R \in Nat /\ k <= L /\ pos \in Nat /\ L <= pos /\ pos < Cells /\ Cells \in Nat
  BY <1>1, <1>3, <1>4, <1>5, ScreenIs DEF ConsTypes, OnScreen, Cells
<1>7. pos' \in Nat /\ L - k <= pos' /\ pos' < Cells
  BY <1>5, <1>6 DEF Co!Back
<1>8. ConsTypes'
  BY <1>1, <1>2, <1>5, <1>7 DEF ConsTypes
<1>9. R + L <= INPUT_BUF /\ (R + L = INPUT_BUF => R > 0) /\ \A j \in 1..L : Co!Line[j] \notin Co!Ends
  BY <1>1, <1>3 DEF Fits, Under
<1>10. ReadyLen' + LineLen' <= INPUT_BUF /\ (ReadyLen' + LineLen' = INPUT_BUF => ReadyLen' > 0)
  BY <1>4, <1>5, <1>6, <1>9
<1>11. ASSUME NEW j \in 1..LineLen' PROVE Co!Line'[j] \notin Co!Ends
  <2>1. j \in 1..L - k /\ j \in 1..L
    BY <1>5, <1>6
  <2>2. SubSeq(Co!Line, 1, L - k)[j] = Co!Line[j]
    <3>1. L - k \in 0..Len(Co!Line)
      BY <1>4, <1>6
    <3>2. QED
      BY <1>4, <2>1, <3>1
  <2>3. QED
    BY <1>5, <1>9, <2>1, <2>2
<1>12. Fits' /\ Under' /\ OnScreen'
  <2>1. pos' < ROWS * COLS /\ LineLen' <= pos'
    BY <1>5, <1>7 DEF Cells
  <2>2. QED
    BY <1>10, <1>11, <2>1 DEF Fits, Under, OnScreen
<1>13. \A p \in Readers : InRead(p)'
  BY <1>1, <1>2, <1>5 DEF InRead
<1>14. Counted'
  <2>1. eofs' = zeros' + Cardinality(Eofs(Co!Ready'))
    BY <1>1, <1>2, <1>5 DEF Counted
  <2>2. QED
    BY <2>1 DEF Counted
<1>15. ConsInv'
  BY <1>8, <1>12, <1>13, <1>14 DEF ConsInv
<1>16. CASE L = 0
  <2>1. k = 0 /\ SubSeq(Co!Line, 1, L - k) = Co!Line
    BY <1>4, <1>5, <1>6, <1>16
  <2>2. QED
    BY <1>5, <1>15, <2>1
<1>17. CASE L # 0
  <2>1. Co!Line # <<>>
    BY <1>4, <1>17
  <2>2. Co!Line' \in {SubSeq(Co!Line, 1, Len(Co!Line) - 1), <<>>}
    <3>1. CASE k = 1
      BY <1>4, <1>5, <3>1
    <3>2. CASE k = L
      <4>1. L - k = 0
        BY <1>6, <3>2
      <4>2. SubSeq(Co!Line, 1, 0) = <<>>
        BY <1>4
      <4>3. QED
        BY <1>5, <4>1, <4>2
    <3>3. QED
      BY <1>5, <1>17, <3>1, <3>2
  <2>3. Co!T!Erase
    BY <1>5, <2>1, <2>2 DEF Co!T!Erase
  <2>4. QED
    BY <1>15, <2>3 DEF Co!T!Next
<1>18. QED
  BY <1>16, <1>17

LEMMA ReadStep ==
  ASSUME ConsoleSizes, ConsInv, NEW p \in Readers, Co!Read(p)
  PROVE  ConsInv' /\ [Co!T!Next]_<<Co!Line, Co!Ready>>
<1>1. ConsTypes /\ Fits /\ Under /\ OnScreen /\ Counted /\ \A q \in Readers : InRead(q)
  BY DEF ConsInv
<1>2. consPc[p] = "reading" /\ Co!LockFree /\ consR # consW /\ UNCHANGED <<consBuf, consW, consE, pos, consKilled, consTyped, eofs>>
  BY DEF Co!Read
<1>3. PICK R, L : R = ReadyLen /\ L = LineLen
  OBVIOUS
<1>4. /\ R \in 0..INPUT_BUF /\ L \in 0..INPUT_BUF /\ Len(Co!Line) = L /\ Len(Co!Ready) = R /\ INPUT_BUF \in Nat \ {0}
      /\ Co!Line \in Seq(Chs) /\ Co!Ready \in Seq(Chs) /\ R + L <= INPUT_BUF
  BY <1>1, <1>3, Indices, LinesIn, RingSizes DEF Fits
<1>5. PICK k \in 0..R :
        /\ consR' = (consR + k) % INDEXWRAP
        /\ \A i \in 1..k - 1 : Co!Ready[i] \notin Co!Ends
        /\ \/ zeros' = zeros /\ \A i \in 1..k : Co!Ready[i] # "eof"
           \/ k = 1 /\ Co!Ready[1] = "eof" /\ zeros' = zeros + 1
        /\ \/ Co!Return(p)
           \/ consLeft[p] > k /\ consLeft' = [consLeft EXCEPT ![p] = consLeft[p] - k] /\ UNCHANGED <<consPc, target>>
  BY <1>1, <1>3, ReadDoes
<1>6. k \in Nat /\ R \in Nat /\ k <= R /\ R <= INPUT_BUF /\ k \in 0..INPUT_BUF
  BY <1>4
<1>7. INDEXWRAP \in Nat \ {0} /\ INPUT_BUF < INDEXWRAP /\ consR \in 0..INDEXWRAP-1 /\ consW \in 0..INDEXWRAP-1
  BY <1>1, RingSizes DEF ConsTypes
<1>8. consR' \in 0..INDEXWRAP-1 /\ Co!Minus(consW, consR') = R - k
  <2>1. PICK x : x = consR + k
    OBVIOUS
  <2>2. x \in 0..INDEXWRAP + INDEXWRAP - 1
    BY <1>4, <1>6, <1>7, <2>1
  <2>3. PICK y : y = x % INDEXWRAP
    OBVIOUS
  <2>4. y = IF x < INDEXWRAP THEN x ELSE x - INDEXWRAP
    BY <2>2, <2>3, Turns
  <2>5. y \in 0..INDEXWRAP-1
    BY <1>7, <2>2, <2>4
  <2>6. Co!Minus(consW, y) = IF y <= consW THEN consW - y ELSE consW + INDEXWRAP - y
    BY <1>7, <2>5, MinusIs
  <2>7. R = IF consR <= consW THEN consW - consR ELSE consW + INDEXWRAP - consR
    BY <1>3, <1>7, MinusIs DEF ReadyLen
  <2>8. Co!Minus(consW, y) = R - k
    BY <1>6, <1>7, <2>1, <2>2, <2>4, <2>5, <2>6, <2>7
  <2>9. consR' = y
    BY <1>5, <2>1, <2>3
  <2>10. QED
    BY <2>5, <2>8, <2>9 DEF Co!Minus
<1>9. ReadyLen' = R - k /\ LineLen' = L
  BY <1>2, <1>3, <1>8 DEF ReadyLen, LineLen, Co!Minus
<1>10. Co!Line' = Co!Line
  BY <1>2, <1>3, <1>9, LinesAre, LinesWill
<1>11. Co!Ready' = SubSeq(Co!Ready, k + 1, R)
  <2>1. PICK n \in 0..INPUT_BUF : n = R - k
    <3>1. R - k \in 0..INPUT_BUF
      BY <1>4, <1>6
    <3>2. QED
      BY <3>1
  <2>2. k + n = R /\ k + n <= INPUT_BUF
    BY <1>6, <2>1
  <2>3. Behind(consR', consR, k) /\ consBuf \in [0..INPUT_BUF-1 -> Chs]
    BY <1>1, <1>5 DEF Behind, ConsTypes
  <2>4. PICK j : j = consR' /\ Behind(j, consR, k)
    BY <2>3
  <2>5. Text(consBuf, j, n) = SubSeq(Text(consBuf, consR, k + n), k + 1, k + n)
    BY <1>6, <1>7, <2>1, <2>2, <2>3, <2>4, TextEnds
  <2>6. Co!Ready' = Text(consBuf, j, n)
    BY <1>2, <1>9, <2>1, <2>4, LinesWill
  <2>7. Co!Ready = Text(consBuf, consR, R)
    BY <1>3, LinesAre
  <2>8. QED
    BY <2>2, <2>5, <2>6, <2>7
<1>12. consLeft[p] \in Nat /\ target[p] \in Nat /\ 0 < consLeft[p] /\ consLeft[p] <= target[p]
  BY <1>1, <1>2 DEF InRead, ConsTypes
<1>13. ConsTypes'
  <2>1. /\ consPc' \in [Readers -> {"user", "reading", "dozing", "asleep"}]
        /\ consLeft' \in [Readers -> Nat] /\ target' \in [Readers -> Nat]
    <3>1. CASE Co!Return(p)
      BY <1>1, <3>1 DEF ConsTypes, Co!Return
    <3>2. CASE consLeft[p] > k /\ consLeft' = [consLeft EXCEPT ![p] = consLeft[p] - k] /\ UNCHANGED <<consPc, target>>
      <4>1. consLeft[p] - k \in Nat
        BY <1>6, <1>12, <3>2
      <4>2. QED
        BY <1>1, <3>2, <4>1 DEF ConsTypes
    <3>3. QED
      BY <1>5, <3>1, <3>2
  <2>2. zeros' \in Nat
    BY <1>1, <1>5 DEF ConsTypes
  <2>3. QED
    BY <1>1, <1>2, <1>8, <2>1, <2>2 DEF ConsTypes
<1>14. Fits' /\ Under' /\ OnScreen'
  <2>1. R > 0
    <3>1. R = IF consR <= consW THEN consW - consR ELSE consW + INDEXWRAP - consR
      BY <1>3, <1>7, MinusIs DEF ReadyLen
    <3>2. QED
      BY <1>2, <1>7, <3>1
  <2>2. ReadyLen' + LineLen' <= INPUT_BUF /\ (ReadyLen' + LineLen' = INPUT_BUF => ReadyLen' > 0)
    BY <1>4, <1>6, <1>9, <2>1
  <2>3. \A j \in 1..LineLen' : Co!Line'[j] \notin Co!Ends
    BY <1>1, <1>3, <1>9, <1>10 DEF Under
  <2>4. pos' < ROWS * COLS /\ LineLen' <= pos'
    BY <1>1, <1>2, <1>3, <1>9 DEF OnScreen
  <2>5. QED
    BY <2>2, <2>3, <2>4 DEF Fits, Under, OnScreen
<1>15. ASSUME NEW q \in Readers PROVE InRead(q)'
  <2>1. InRead(q) /\ consPc[q] \notin {"dozing", "asleep"}
    BY <1>1, <1>2 DEF InRead, Co!LockFree
  <2>2. CASE Co!Return(p)
    <3>1. /\ consPc'[q] = IF q = p THEN "user" ELSE consPc[q]
          /\ consLeft'[q] = IF q = p THEN 0 ELSE consLeft[q]
          /\ target'[q] = IF q = p THEN 0 ELSE target[q]
      BY <1>1, <2>2 DEF Co!Return, ConsTypes
    <3>2. QED
      BY <2>1, <3>1 DEF InRead
  <2>3. CASE consLeft[p] > k /\ consLeft' = [consLeft EXCEPT ![p] = consLeft[p] - k] /\ UNCHANGED <<consPc, target>>
    <3>1. /\ consPc'[q] = consPc[q] /\ target'[q] = target[q]
          /\ consLeft'[q] = IF q = p THEN consLeft[p] - k ELSE consLeft[q]
      BY <1>1, <2>3 DEF ConsTypes
    <3>2. consLeft[p] - k \in Nat /\ 0 < consLeft[p] - k /\ consLeft[p] - k <= target[p] /\ consPc[p] = "reading"
      BY <1>2, <1>6, <1>12, <2>3
    <3>3. QED
      BY <2>1, <3>1, <3>2 DEF InRead
  <2>4. QED
    BY <1>5, <2>2, <2>3
<1>16. Counted'
  <2>1. /\ (\A i \in 1..k : Co!Ready[i] # "eof") => Cardinality(Eofs(SubSeq(Co!Ready, k + 1, R))) = Cardinality(Eofs(Co!Ready))
        /\ k = 1 /\ Co!Ready[1] = "eof" => Cardinality(Eofs(Co!Ready)) = Cardinality(Eofs(SubSeq(Co!Ready, k + 1, R))) + 1
    BY <1>4, EofsDrop
  <2>2. eofs = zeros + Cardinality(Eofs(Co!Ready)) /\ eofs \in Nat /\ zeros \in Nat
    BY <1>1 DEF Counted, ConsTypes
  <2>3. Cardinality(Eofs(Co!Ready')) \in Nat
    <3>1. SubSeq(Co!Ready, k + 1, R) \in Seq(Chs)
      BY <1>4, <1>6
    <3>2. QED
      BY <1>11, <3>1, EofsFinite
  <2>4. eofs' = zeros' + Cardinality(Eofs(Co!Ready'))
    <3>1. PICK a, b : a = Cardinality(Eofs(Co!Ready)) /\ b = Cardinality(Eofs(Co!Ready'))
      OBVIOUS
    <3>2. (zeros' = zeros /\ b = a) \/ (zeros' = zeros + 1 /\ a = b + 1)
      BY <1>5, <1>11, <2>1, <3>1
    <3>3. QED
      BY <1>2, <2>2, <2>3, <3>1, <3>2
  <2>5. QED
    BY <2>4 DEF Counted
<1>17. ConsInv'
  BY <1>13, <1>14, <1>15, <1>16 DEF ConsInv
<1>18. CASE k = 0
  <2>1. SubSeq(Co!Ready, k + 1, R) = Co!Ready
    BY <1>4, <1>18
  <2>2. QED
    BY <1>10, <1>11, <1>17, <2>1
<1>19. CASE k # 0
  <2>1. k \in 1..Len(Co!Ready)
    BY <1>4, <1>6, <1>19
  <2>2. Co!T!Take
    BY <1>4, <1>5, <1>10, <1>11, <2>1 DEF Co!T!Take
  <2>3. QED
    BY <1>17, <2>2 DEF Co!T!Next
<1>20. QED
  BY <1>18, <1>19

LEMMA OtherSteps ==
  ASSUME ConsoleSizes, ConsInv
  PROVE  /\ \A c : Co!Write(c) => ConsInv' /\ UNCHANGED <<Co!Line, Co!Ready>>
         /\ \A p \in Readers, n \in ReadSizes : Co!ReadCall(p, n) => ConsInv' /\ UNCHANGED <<Co!Line, Co!Ready>>
         /\ \A p \in Readers : Co!Empty(p) \/ Co!Sleep(p) \/ Co!Kill(p) => ConsInv' /\ UNCHANGED <<Co!Line, Co!Ready>>
<1>1. ConsTypes /\ Fits /\ Under /\ OnScreen /\ Counted /\ \A p \in Readers : InRead(p)
  BY DEF ConsInv
<1>2. ASSUME UNCHANGED <<consBuf, consR, consW, consE, pos, eofs, zeros>>,
             consPc' \in [Readers -> {"user", "reading", "dozing", "asleep"}],
             consLeft' \in [Readers -> Nat], target' \in [Readers -> Nat],
             \A p \in Readers : InRead(p)'
      PROVE  ConsInv' /\ UNCHANGED <<Co!Line, Co!Ready>>
  <2>1. ReadyLen' = ReadyLen /\ LineLen' = LineLen /\ Co!Ready' = Co!Ready /\ Co!Line' = Co!Line
    BY <1>2, Still
  <2>2. ConsTypes'
    BY <1>1, <1>2 DEF ConsTypes
  <2>3. Fits' /\ Under' /\ OnScreen' /\ Counted'
    BY <1>1, <1>2, <2>1 DEF Fits, Under, OnScreen, Counted
  <2>4. QED
    BY <1>2, <2>1, <2>2, <2>3 DEF ConsInv
<1>3. ASSUME NEW c, Co!Write(c) PROVE ConsInv' /\ UNCHANGED <<Co!Line, Co!Ready>>
  <2>1. pos' = Co!After(pos, c) /\ UNCHANGED <<consBuf, consR, consW, consE, consPc, consLeft, target, consKilled, eofs, zeros>>
    BY <1>3 DEF Co!Write
  <2>2. ReadyLen' = ReadyLen /\ LineLen' = LineLen /\ Co!Ready' = Co!Ready /\ Co!Line' = Co!Line
    BY <2>1, Still
  <2>3. pos \in Nat /\ pos < Cells /\ LineLen <= pos /\ LineLen \in Nat /\ LineLen <= INPUT_BUF - 1 /\ INPUT_BUF \in Nat
    <3>1. ReadyLen \in 0..INPUT_BUF /\ LineLen \in 0..INPUT_BUF /\ INPUT_BUF \in Nat
      BY <1>1, Indices, RingSizes
    <3>2. ReadyLen + LineLen <= INPUT_BUF /\ (ReadyLen + LineLen = INPUT_BUF => ReadyLen > 0)
      BY <1>1 DEF Fits, Under
    <3>3. LineLen <= INPUT_BUF - 1
      BY <3>1, <3>2
    <3>4. QED
      BY <1>1, <3>1, <3>3 DEF ConsTypes, OnScreen, Cells
  <2>4. pos' \in Nat /\ pos' < Cells /\ \A n \in Nat : n <= pos + 1 /\ n <= INPUT_BUF - 1 => n <= pos'
    BY <2>1, <2>3, CursorMoves
  <2>5. LineLen <= pos'
    <3>1. LineLen <= pos + 1
      BY <2>3
    <3>2. QED
      BY <2>3, <2>4, <3>1
  <2>6. OnScreen'
    BY <2>2, <2>4, <2>5 DEF OnScreen, Cells
  <2>7. ConsTypes'
    BY <1>1, <2>1, <2>4 DEF ConsTypes
  <2>8. Fits' /\ Under' /\ Counted'
    BY <1>1, <2>1, <2>2 DEF Fits, Under, Counted
  <2>9. \A p \in Readers : InRead(p)'
    BY <1>1, <2>1 DEF InRead
  <2>10. QED
    BY <2>2, <2>6, <2>7, <2>8, <2>9 DEF ConsInv
<1>4. ASSUME NEW p \in Readers, NEW n \in ReadSizes, Co!ReadCall(p, n) PROVE ConsInv' /\ UNCHANGED <<Co!Line, Co!Ready>>
  <2>1. n \in Nat \ {0}
    BY DEF ConsoleSizes
  <2>2. /\ consPc' = [consPc EXCEPT ![p] = "reading"] /\ consLeft' = [consLeft EXCEPT ![p] = n] /\ target' = [target EXCEPT ![p] = n]
        /\ UNCHANGED <<consBuf, consR, consW, consE, pos, consKilled, consTyped, eofs, zeros>>
    BY <1>4 DEF Co!ReadCall
  <2>3. /\ consPc' \in [Readers -> {"user", "reading", "dozing", "asleep"}]
        /\ consLeft' \in [Readers -> Nat] /\ target' \in [Readers -> Nat]
    BY <1>1, <2>1, <2>2 DEF ConsTypes
  <2>4. ASSUME NEW q \in Readers PROVE InRead(q)'
    <3>1. CASE q = p
      <4>1. consPc'[q] = "reading" /\ consLeft'[q] = n /\ target'[q] = n
        BY <1>1, <2>2, <3>1 DEF ConsTypes
      <4>2. QED
        BY <2>1, <4>1 DEF InRead
    <3>2. CASE q # p
      <4>1. consPc'[q] = consPc[q] /\ consLeft'[q] = consLeft[q] /\ target'[q] = target[q]
        BY <1>1, <2>2, <3>2 DEF ConsTypes
      <4>2. QED
        BY <1>1, <2>2, <4>1 DEF InRead
    <3>3. QED
      BY <3>1, <3>2
  <2>5. QED
    BY <1>2, <2>2, <2>3, <2>4
<1>5. ASSUME NEW p \in Readers, Co!Return(p), UNCHANGED <<consBuf, consR, consW, consE, pos, eofs, zeros>>
      PROVE  ConsInv' /\ UNCHANGED <<Co!Line, Co!Ready>>
  <2>1. /\ consPc' \in [Readers -> {"user", "reading", "dozing", "asleep"}]
        /\ consLeft' \in [Readers -> Nat] /\ target' \in [Readers -> Nat]
    BY <1>1, <1>5 DEF ConsTypes, Co!Return
  <2>2. ASSUME NEW q \in Readers PROVE InRead(q)'
    <3>1. /\ consPc'[q] = IF q = p THEN "user" ELSE consPc[q]
          /\ consLeft'[q] = IF q = p THEN 0 ELSE consLeft[q]
          /\ target'[q] = IF q = p THEN 0 ELSE target[q]
      BY <1>1, <1>5 DEF Co!Return, ConsTypes
    <3>2. QED
      BY <1>1, <1>5, <3>1 DEF InRead
  <2>3. QED
    BY <1>2, <1>5, <2>1, <2>2
<1>6. ASSUME NEW p \in Readers, NEW s \in {"reading", "dozing", "asleep"}, consPc[p] # "user",
             consPc' = [consPc EXCEPT ![p] = s], UNCHANGED <<consBuf, consR, consW, consE, pos, consLeft, target, eofs, zeros>>,
             s \in {"dozing", "asleep"} => consR = consW
      PROVE  ConsInv' /\ UNCHANGED <<Co!Line, Co!Ready>>
  <2>1. /\ consPc' \in [Readers -> {"user", "reading", "dozing", "asleep"}]
        /\ consLeft' \in [Readers -> Nat] /\ target' \in [Readers -> Nat]
    BY <1>1, <1>6 DEF ConsTypes
  <2>2. ASSUME NEW q \in Readers PROVE InRead(q)'
    <3>1. consPc'[q] = (IF q = p THEN s ELSE consPc[q]) /\ consLeft'[q] = consLeft[q] /\ target'[q] = target[q]
      BY <1>1, <1>6 DEF ConsTypes
    <3>2. QED
      BY <1>1, <1>6, <3>1 DEF InRead
  <2>3. QED
    BY <1>2, <1>6, <2>1, <2>2
<1>7. ASSUME NEW p \in Readers, Co!Empty(p) PROVE ConsInv' /\ UNCHANGED <<Co!Line, Co!Ready>>
  <2>1. consPc[p] = "reading" /\ consR = consW /\ UNCHANGED <<consBuf, consR, consW, consE, pos, consKilled, consTyped, eofs, zeros>>
    BY <1>7 DEF Co!Empty
  <2>2. \/ Co!Return(p)
        \/ consPc' = [consPc EXCEPT ![p] = "dozing"] /\ UNCHANGED <<consLeft, target>>
    BY <1>7 DEF Co!Empty
  <2>3. QED
    BY <1>5, <1>6, <2>1, <2>2
<1>8. ASSUME NEW p \in Readers, Co!Sleep(p) PROVE ConsInv' /\ UNCHANGED <<Co!Line, Co!Ready>>
  <2>1. /\ consPc[p] = "dozing" /\ consPc' = [consPc EXCEPT ![p] = "asleep"]
        /\ UNCHANGED <<consBuf, consR, consW, consE, pos, consLeft, target, consKilled, consTyped, eofs, zeros>>
    BY <1>8 DEF Co!Sleep
  <2>2. consR = consW
    BY <1>1, <2>1 DEF InRead
  <2>3. QED
    BY <1>6, <2>1, <2>2
<1>9. ASSUME NEW p \in Readers, Co!Kill(p) PROVE ConsInv' /\ UNCHANGED <<Co!Line, Co!Ready>>
  <2>1. /\ consPc[p] # "user" /\ consPc' = [consPc EXCEPT ![p] = IF consPc[p] = "asleep" THEN "reading" ELSE consPc[p]]
        /\ UNCHANGED <<consBuf, consR, consW, consE, pos, consLeft, target, consTyped, eofs, zeros>>
    BY <1>9 DEF Co!Kill
  <2>2. PICK s : s = IF consPc[p] = "asleep" THEN "reading" ELSE consPc[p]
    OBVIOUS
  <2>3. s \in {"reading", "dozing", "asleep"} /\ (s \in {"dozing", "asleep"} => consR = consW)
    BY <1>1, <2>1, <2>2 DEF ConsTypes, InRead
  <2>4. QED
    BY <1>6, <2>1, <2>2, <2>3
<1>10. QED
  BY <1>3, <1>4, <1>7, <1>8, <1>9

LEMMA ConsStep ==
  ASSUME ConsoleSizes, ConsInv, [Co!Next]_(Co!cvars)
  PROVE  ConsInv' /\ [Co!T!Next]_<<Co!Line, Co!Ready>>
<1>1. CASE UNCHANGED Co!cvars
  <2>1. UNCHANGED <<consBuf, consR, consW, consE>>
    BY <1>1 DEF Co!cvars
  <2>2. ReadyLen' = ReadyLen /\ LineLen' = LineLen /\ Co!Ready' = Co!Ready /\ Co!Line' = Co!Line
    BY <2>1, Still
  <2>3. ConsTypes'
    BY <1>1 DEF ConsInv, ConsTypes, Co!cvars
  <2>4. Fits' /\ Under' /\ OnScreen' /\ Counted'
    BY <1>1, <2>2 DEF ConsInv, Fits, Under, OnScreen, Counted, Co!cvars
  <2>5. \A p \in Readers : InRead(p)'
    BY <1>1 DEF ConsInv, InRead, Co!cvars
  <2>6. QED
    BY <2>2, <2>3, <2>4, <2>5 DEF ConsInv
<1>2. CASE \E c \in Co!Plain \cup Co!Ends \cup Co!Edits : Co!Type(c)
  BY <1>2, KeepStep, EditStep DEF Chs
<1>3. CASE \E c \in Co!Plain \cup {"newline"} : Co!Write(c)
  BY <1>3, OtherSteps
<1>4. CASE \E p \in Readers : (\E n \in ReadSizes : Co!ReadCall(p, n)) \/ Co!Read(p) \/ Co!Empty(p) \/ Co!Sleep(p) \/ Co!Kill(p)
  BY <1>4, OtherSteps, ReadStep
<1>5. QED
  BY <1>1, <1>2, <1>3, <1>4 DEF Co!Next

LEMMA ConsMeans ==
  ASSUME ConsoleSizes, ConsInv
  PROVE  Co!TypeOK /\ Co!FullIsReadable /\ Co!ReaderNotForgotten /\ Co!EofSeenOnce
<1>1. ConsTypes /\ Fits /\ Under /\ OnScreen /\ Counted /\ \A p \in Readers : InRead(p)
  BY DEF ConsInv
<1>2. Len(Co!Line) = LineLen /\ Co!Minus(consE, consR) = ReadyLen + LineLen /\ INDEXWRAP \in Nat \ {0} /\ consR \in 0..INDEXWRAP-1
  BY <1>1, LinesIn, Indices, RingSizes DEF ConsTypes
<1>3. {consR, consW, consE} \subseteq 0..INDEXWRAP - 1 /\ Co!Minus(consW, consR) + Co!Minus(consE, consW) <= INPUT_BUF
  BY <1>1 DEF ConsTypes, Fits, ReadyLen, LineLen
<1>4. \A p \in Readers : consLeft[p] <= target[p]
  BY <1>1 DEF InRead, ConsTypes
<1>5. Co!TypeOK
  BY <1>1, <1>2, <1>3, <1>4 DEF Co!TypeOK, OnScreen, ConsTypes
<1>6. Co!FullIsReadable
  <2>1. consR = consW => ReadyLen = 0
    BY <1>2, MinusIs DEF ReadyLen
  <2>2. QED
    BY <1>1, <1>2, <2>1 DEF Co!FullIsReadable, Under
<1>7. Co!ReaderNotForgotten
  BY <1>1 DEF Co!ReaderNotForgotten, InRead
<1>8. Co!EofSeenOnce
  BY <1>1 DEF Co!EofSeenOnce, Counted, Eofs, Co!Cardinality, Cardinality
<1>9. QED
  BY <1>5, <1>6, <1>7, <1>8

THEOREM Typing ==
  ASSUME ConsoleSizes
  PROVE  Co!Spec => [](Co!TypeOK /\ Co!FullIsReadable /\ Co!ReaderNotForgotten /\ Co!EofSeenOnce)
<1>1. Co!Init => ConsInv
  BY ConsInit
<1>2. ConsInv /\ [Co!Next]_(Co!cvars) => ConsInv'
  BY ConsStep
<1>3. ConsInv => Co!TypeOK /\ Co!FullIsReadable /\ Co!ReaderNotForgotten /\ Co!EofSeenOnce
  BY ConsMeans
<1>4. QED
  BY <1>1, <1>2, <1>3, PTL DEF Co!Spec

\* Whatever is typed, read and killed: typing can go on, no reader is forgotten, and every
\* control-D ends one read.
THEOREM ConsSafe ==
  ASSUME ConsoleSizes
  PROVE  PartsSpec => []ConsConsistent
<1>1. PartsInit => Co!Init
  BY DEF PartsInit
<1>2. [PartsNext]_<<part, partsvars>> => [Co!Next]_(Co!cvars)
  BY DEF PartsNext, partsvars, consvars, Co!cvars
<1>3. Co!TypeOK /\ Co!FullIsReadable /\ Co!ReaderNotForgotten /\ Co!EofSeenOnce => ConsConsistent
  BY DEF ConsConsistent
<1>4. QED
  BY <1>1, <1>2, <1>3, Typing, PTL DEF PartsSpec, Co!Spec

\* The ring with its three indices is a line being edited and a queue of what may be read.
THEOREM ConsRefines ==
  ASSUME ConsoleSizes
  PROVE  PartsSpec => ConsImplementsTty
<1>1. PartsInit => ConsInv
  BY ConsInit DEF PartsInit
<1>2. [PartsNext]_<<part, partsvars>> => [Co!Next]_(Co!cvars)
  BY DEF PartsNext, partsvars, consvars, Co!cvars
<1>3. ConsInv /\ [Co!Next]_(Co!cvars) => ConsInv'
  BY ConsStep
<1>4. ConsInv /\ [Co!Next]_(Co!cvars)
        => [(part = "console" => Co!T!Next)]_<<Co!Line, Co!Ready>>
  BY ConsStep
<1>5. QED
  BY <1>1, <1>2, <1>3, <1>4, PTL DEF PartsSpec, ConsImplementsTty

-----------------------------------------------------------------------------
(* Printing                                                                  *)

\* Panics print something, and a lock without a holder is held by no CPU.
PrintSizes == LENGTH \in Nat /\ PIECES \in Nat \ {0} /\ NoPrinter \notin PrintCpus

PrintTypes ==
  /\ locking \in BOOLEAN /\ panicked \in BOOLEAN /\ holder \in PrintCpus \cup {NoPrinter}
  /\ ppc \in [PrintCpus -> {"idle", "acquire", "put", "putc", "frozen", "panic"}]
  /\ took \in [PrintCpus -> BOOLEAN] /\ printLeft \in [PrintCpus -> 0..LENGTH]
  /\ pieces \in [PrintCpus -> 0..PIECES]
  /\ screen \in Seq(PrintCpus \X BOOLEAN)

Printing(c) == ppc[c] \in {"put", "putc"}

\* Who has cons.lock, and who knows of it: the local variable locking of cprintf.
LockKnown ==
  \A c \in PrintCpus :
    /\ holder = c => ppc[c] \in {"put", "putc", "frozen", "panic"}
    /\ holder = c /\ pieces[c] = 0 /\ Printing(c) => took[c]
    /\ Printing(c) /\ took[c] => holder = c
    /\ ppc[c] = "acquire" => took[c] /\ printLeft[c] = LENGTH

\* Before any panic: every CPU that prints has the lock.
Calm ==
  locking =>
    /\ ~panicked
    /\ \A c \in PrintCpus :
         pieces[c] = 0 /\ ppc[c] \notin {"frozen", "panic"} /\ (Printing(c) => took[c])

\* What a CPU has printed of its message is at the end of the screen.
OwnTail ==
  locking => \A c \in PrintCpus : Printing(c) =>
    /\ LENGTH - printLeft[c] <= Len(screen)
    /\ \A i \in 0..LENGTH - printLeft[c] - 1 : screen[Len(screen) - i][1] = c

\* After a panic: its CPU never waits for the lock, and the message that is out stops the others.
Panicked ==
  /\ \A c \in PrintCpus :
       /\ pieces[c] > 0 => ppc[c] \in {"put", "putc", "frozen", "panic"}
       /\ ppc[c] = "frozen" => panicked
       /\ ppc[c] = "putc" => printLeft[c] > 0
       /\ ppc[c] = "panic" /\ pieces[c] = 0 => panicked
  /\ panicked => \E c \in PrintCpus : ppc[c] = "panic" /\ pieces[c] = 0

\* The characters of panics on the screen, by CPU.
Places(s, x) == {i \in DOMAIN s : s[i] = x}
Shown(c) == Places(screen, <<c, TRUE>>)
Told(c) ==
  IF ppc[c] = "panic" /\ pieces[c] = 0 THEN PIECES * LENGTH
  ELSE IF pieces[c] = 0 THEN 0
  ELSE (PIECES - pieces[c]) * LENGTH + (IF ppc[c] = "panic" THEN 0 ELSE LENGTH - printLeft[c])
AllShown == \A c \in PrintCpus : IsFiniteSet(Shown(c)) /\ Cardinality(Shown(c)) = Told(c)

PrintInv == PrintTypes /\ LockKnown /\ Calm /\ OwnTail /\ Panicked /\ AllShown

LEMMA PrintInit == ASSUME PrintSizes, P!Init PROVE PrintInv
<1> USE DEF PrintSizes, P!Init
<1>1. PrintTypes
  <2>1. 0 \in 0..LENGTH /\ 0 \in 0..PIECES
    OBVIOUS
  <2>2. screen \in Seq(PrintCpus \X BOOLEAN)
    OBVIOUS
  <2>3. QED
    BY <2>1, <2>2 DEF PrintTypes
<1>2. LockKnown /\ Calm /\ OwnTail /\ Panicked
  BY DEF LockKnown, Calm, OwnTail, Panicked, Printing
<1>3. ASSUME NEW c \in PrintCpus PROVE IsFiniteSet(Shown(c)) /\ Cardinality(Shown(c)) = Told(c)
  <2>1. Shown(c) = {}
    BY DEF Shown, Places
  <2>2. Told(c) = 0
    BY DEF Told
  <2>3. QED
    BY <2>1, <2>2, FS_EmptySet
<1>4. QED
  BY <1>1, <1>2, <1>3 DEF PrintInv, AllShown

\* cprintf and consolewrite begin; a panic begins the next piece.
LEMMA PrintBegins ==
  ASSUME PrintSizes, PrintInv, NEW c \in PrintCpus, P!Cprintf(c) \/ P!Consolewrite(c) \/ P!PanicPrints(c)
  PROVE  PrintInv'
<1> USE DEF PrintSizes
<1>0. /\ UNCHANGED <<locking, panicked, holder, pieces, screen>>
      /\ \/ ppc[c] = "idle"
         \/ ppc[c] = "panic" /\ pieces[c] > 0
      /\ printLeft' = [printLeft EXCEPT ![c] = LENGTH]
      /\ \/ took' = [took EXCEPT ![c] = TRUE] /\ ppc' = [ppc EXCEPT ![c] = "acquire"] /\ ppc[c] = "idle"
         \/ took' = [took EXCEPT ![c] = FALSE] /\ ppc' = [ppc EXCEPT ![c] = "put"] /\ ~locking
  <2>1. CASE P!Consolewrite(c)
    BY <2>1 DEF P!Consolewrite, P!Entry
  <2>2. CASE P!Cprintf(c)
    BY <2>2 DEF P!Cprintf, P!Begin, PrintInv, PrintTypes
  <2>3. CASE P!PanicPrints(c)
    BY <2>3 DEF P!PanicPrints, P!Panicking, P!Begin, PrintInv, PrintTypes, Calm
  <2>4. QED
    BY <2>1, <2>2, <2>3
<1>1. PrintTypes'
  <2>1. LENGTH \in 0..LENGTH
    OBVIOUS
  <2>2. printLeft' \in [PrintCpus -> 0..LENGTH]
    BY <1>0, <2>1 DEF PrintInv, PrintTypes
  <2>3. QED
    BY <1>0, <2>2 DEF PrintInv, PrintTypes
<1>2. LockKnown'
  BY <1>0 DEF PrintInv, PrintTypes, LockKnown, Calm, Printing
<1>3. Calm'
  BY <1>0 DEF PrintInv, PrintTypes, Calm, Printing
<1>4. OwnTail'
  BY <1>0 DEF PrintInv, PrintTypes, OwnTail, Printing
<1>5. Panicked'
  BY <1>0 DEF PrintInv, PrintTypes, Panicked
<1>6. AllShown'
  <2>1. ASSUME NEW d \in PrintCpus PROVE Shown(d)' = Shown(d) /\ Told(d)' = Told(d)
    <3>1. Shown(d)' = Shown(d)
      BY <1>0 DEF Shown, Places
    <3>2. CASE d # c
      <4>1. ppc'[d] = ppc[d] /\ pieces'[d] = pieces[d] /\ printLeft'[d] = printLeft[d]
        BY <1>0, <3>2 DEF PrintInv, PrintTypes
      <4>2. QED
        BY <3>1, <4>1 DEF Told
    <3>3. CASE d = c
      <4>1. ppc[c] = "idle" => pieces[c] = 0
        <5>1. pieces[c] \in 0..PIECES
          BY DEF PrintInv, PrintTypes
        <5>2. pieces[c] > 0 => ppc[c] \in {"put", "putc", "frozen", "panic"}
          BY DEF PrintInv, Panicked
        <5>3. QED
          BY <5>1, <5>2
      <4>2. (PIECES - pieces[c]) * LENGTH \in Int /\ PIECES - pieces[c] \in Int
        BY DEF PrintInv, PrintTypes
      <4> DEFINE m == (PIECES - pieces[c]) * LENGTH
      <4>3. m + (LENGTH - LENGTH) = m + 0
        BY <4>2
      <4>4. CASE ppc[c] = "idle"
        <5>1. pieces[c] = 0 /\ pieces'[c] = 0 /\ ppc'[c] # "panic"
          BY <1>0, <4>1, <4>4 DEF PrintInv, PrintTypes
        <5>2. QED
          BY <3>1, <3>3, <4>4, <5>1 DEF Told
      <4>5. CASE ppc[c] = "panic" /\ pieces[c] > 0
        <5>1. pieces[c] # 0 /\ pieces'[c] = pieces[c] /\ ppc'[c] # "panic" /\ printLeft'[c] = LENGTH
          BY <1>0, <4>5 DEF PrintInv, PrintTypes
        <5>2. Told(c) = m + 0 /\ Told(c)' = m + (LENGTH - LENGTH)
          BY <4>5, <5>1, <1>0 DEF Told
        <5>3. QED
          BY <3>1, <3>3, <4>3, <5>2
      <4>6. QED
        BY <1>0, <4>4, <4>5
    <3>4. QED
      BY <3>1, <3>2, <3>3
  <2>2. QED
    BY <2>1 DEF PrintInv, AllShown
<1>7. QED
  BY <1>1, <1>2, <1>3, <1>4, <1>5, <1>6 DEF PrintInv

\* acquire, and the test of consputc.
LEMMA PrintMoves ==
  ASSUME PrintSizes, PrintInv, NEW c \in PrintCpus, P!Acquire(c) \/ P!Consputc(c)
  PROVE  PrintInv'
<1> USE DEF PrintSizes
<1>0. /\ UNCHANGED <<locking, panicked, took, printLeft, pieces, screen>>
      /\ \/ ppc[c] = "acquire" /\ ppc' = [ppc EXCEPT ![c] = "put"] /\ holder = NoPrinter /\ holder' = c
         \/ /\ ppc[c] = "put" /\ printLeft[c] > 0 /\ holder' = holder
            /\ \/ ppc' = [ppc EXCEPT ![c] = "frozen"] /\ panicked
               \/ ppc' = [ppc EXCEPT ![c] = "putc"] /\ ~panicked
  BY DEF P!Acquire, P!Consputc, PrintInv, PrintTypes
<1>1. PrintTypes'
  BY <1>0 DEF PrintInv, PrintTypes
<1>2. LockKnown'
  BY <1>0 DEF PrintInv, PrintTypes, LockKnown, Panicked, Printing
<1>3. Calm'
  BY <1>0 DEF PrintInv, PrintTypes, Calm, LockKnown, Printing
<1>4. OwnTail'
  <2>1. CASE ppc[c] = "acquire"
    BY <1>0, <2>1 DEF PrintInv, PrintTypes, OwnTail, Printing, LockKnown, Calm
  <2>2. CASE ppc[c] = "put"
    BY <1>0, <2>2 DEF PrintInv, PrintTypes, OwnTail, Printing
  <2>3. QED
    BY <1>0, <2>1, <2>2
<1>5. Panicked'
  BY <1>0 DEF PrintInv, PrintTypes, Panicked
<1>6. AllShown'
  <2>1. ASSUME NEW d \in PrintCpus PROVE Shown(d)' = Shown(d) /\ Told(d)' = Told(d)
    <3>1. Shown(d)' = Shown(d)
      BY <1>0 DEF Shown, Places
    <3>2. (ppc[d] = "panic") = (ppc'[d] = "panic") /\ pieces'[d] = pieces[d] /\ printLeft'[d] = printLeft[d]
      BY <1>0 DEF PrintInv, PrintTypes
    <3>3. QED
      BY <3>1, <3>2 DEF Told
  <2>2. QED
    BY <2>1 DEF PrintInv, AllShown
<1>7. QED
  BY <1>1, <1>2, <1>3, <1>4, <1>5, <1>6 DEF PrintInv

LEMMA ShownAppend ==
  ASSUME NEW S, NEW s \in Seq(S), NEW e \in S, NEW x, IsFiniteSet(Places(s, x))
  PROVE  /\ IsFiniteSet(Places(Append(s, e), x))
         /\ e = x => Cardinality(Places(Append(s, e), x)) = Cardinality(Places(s, x)) + 1
         /\ e # x => Cardinality(Places(Append(s, e), x)) = Cardinality(Places(s, x))
<1> DEFINE R == Places(s, x)
           T == Places(Append(s, e), x)
<1>1. /\ DOMAIN s = 1..Len(s) /\ DOMAIN Append(s, e) = 1..Len(s) + 1 /\ Len(s) \in Nat
      /\ Append(s, e)[Len(s) + 1] = e /\ \A i \in 1..Len(s) : Append(s, e)[i] = s[i]
  OBVIOUS
<1>2. e = x => T = R \cup {Len(s) + 1}
  BY <1>1 DEF Places
<1>3. e # x => T = R
  BY <1>1 DEF Places
<1>4. Len(s) + 1 \notin R /\ IsFiniteSet(R)
  BY <1>1 DEF Places
<1> HIDE DEF R, T
<1>5. IsFiniteSet(R \cup {Len(s) + 1}) /\ Cardinality(R \cup {Len(s) + 1}) = Cardinality(R) + 1
  BY <1>4, FS_AddElement
<1>6. IsFiniteSet(T) /\ (e = x => Cardinality(T) = Cardinality(R) + 1) /\ (e # x => Cardinality(T) = Cardinality(R))
  BY <1>2, <1>3, <1>4, <1>5
<1>7. QED
  BY <1>6 DEF R, T

LEMMA PrintPutc ==
  ASSUME PrintSizes, PrintInv, NEW c \in PrintCpus, P!Putc(c)
  PROVE  PrintInv'
<1> USE DEF PrintSizes
<1>0. /\ UNCHANGED <<locking, panicked, holder, took, pieces>>
      /\ ppc[c] = "putc" /\ ppc' = [ppc EXCEPT ![c] = "put"]
      /\ printLeft' = [printLeft EXCEPT ![c] = printLeft[c] - 1]
      /\ screen' = Append(screen, <<c, pieces[c] > 0>>)
  BY DEF P!Putc, P!Panicking
<1>1. /\ printLeft[c] \in 1..LENGTH /\ pieces[c] \in 0..PIECES
      /\ <<c, pieces[c] > 0>> \in PrintCpus \X BOOLEAN /\ screen \in Seq(PrintCpus \X BOOLEAN)
  <2>1. printLeft[c] \in 0..LENGTH /\ pieces[c] \in 0..PIECES /\ screen \in Seq(PrintCpus \X BOOLEAN)
    BY DEF PrintInv, PrintTypes
  <2>2. printLeft[c] > 0
    BY <1>0 DEF PrintInv, Panicked
  <2>3. (pieces[c] > 0) \in BOOLEAN
    OBVIOUS
  <2>4. <<c, pieces[c] > 0>> \in PrintCpus \X BOOLEAN
    BY <2>3
  <2>5. printLeft[c] \in 1..LENGTH
    BY <2>1, <2>2
  <2>6. QED
    BY <2>1, <2>4, <2>5
<1>2. PrintTypes'
  <2>1. printLeft' \in [PrintCpus -> 0..LENGTH]
    BY <1>0, <1>1 DEF PrintInv, PrintTypes
  <2>2. screen' \in Seq(PrintCpus \X BOOLEAN)
    BY <1>0, <1>1
  <2>3. QED
    BY <1>0, <2>1, <2>2 DEF PrintInv, PrintTypes
<1>3. LockKnown'
  BY <1>0 DEF PrintInv, PrintTypes, LockKnown, Printing
<1>4. Calm'
  BY <1>0 DEF PrintInv, PrintTypes, Calm, Printing
<1>5. OwnTail'
  <2>1. SUFFICES ASSUME locking', NEW d \in PrintCpus, Printing(d)'
                 PROVE  /\ LENGTH - printLeft'[d] <= Len(screen')
                        /\ \A i \in 0..LENGTH - printLeft'[d] - 1 : screen'[Len(screen') - i][1] = d
    BY DEF OwnTail
  <2>2. d = c
    <3>1. Printing(c) /\ Printing(d)
      BY <1>0, <2>1 DEF Printing, PrintInv, PrintTypes
    <3>2. took[c] /\ took[d]
      BY <1>0, <2>1, <3>1 DEF PrintInv, Calm
    <3>3. QED
      BY <3>1, <3>2 DEF PrintInv, LockKnown
  <2>3. /\ LENGTH - printLeft[c] <= Len(screen)
        /\ \A i \in 0..LENGTH - printLeft[c] - 1 : screen[Len(screen) - i][1] = c
    BY <1>0, <2>1 DEF PrintInv, OwnTail, Printing
  <2>4. printLeft'[c] = printLeft[c] - 1
    BY <1>0 DEF PrintInv, PrintTypes
  <2>5. /\ Len(screen') = Len(screen) + 1 /\ Len(screen) \in Nat /\ screen'[Len(screen) + 1][1] = c
        /\ \A i \in 1..Len(screen) : screen'[i] = screen[i]
    BY <1>0, <1>1
  <2>6. ASSUME NEW i \in 0..LENGTH - printLeft'[c] - 1 PROVE screen'[Len(screen') - i][1] = c
    <3>1. CASE i = 0
      BY <2>5, <3>1
    <3>2. CASE i # 0
      <4>1. i - 1 \in 0..LENGTH - printLeft[c] - 1 /\ Len(screen) - (i - 1) \in 1..Len(screen)
        BY <1>1, <2>3, <2>4, <2>5, <3>2
      <4>2. screen[Len(screen) - (i - 1)][1] = c
        BY <2>3, <4>1
      <4>3. Len(screen') - i = Len(screen) - (i - 1)
        BY <2>5, <4>1
      <4>4. QED
        BY <2>5, <4>1, <4>2, <4>3
    <3>3. QED
      BY <3>1, <3>2
  <2>7. QED
    BY <1>1, <2>2, <2>3, <2>4, <2>5, <2>6
<1>6. Panicked'
  BY <1>0, <1>1 DEF PrintInv, PrintTypes, Panicked
<1>7. AllShown'
  <2>1. SUFFICES ASSUME NEW d \in PrintCpus PROVE IsFiniteSet(Shown(d)') /\ Cardinality(Shown(d)') = Told(d)'
    BY DEF AllShown
  <2>2. IsFiniteSet(Shown(d)) /\ Cardinality(Shown(d)) = Told(d)
    BY DEF PrintInv, AllShown
  <2>3. /\ IsFiniteSet(Shown(d)')
        /\ d = c /\ pieces[c] > 0 => Cardinality(Shown(d)') = Told(d) + 1
        /\ ~(d = c /\ pieces[c] > 0) => Cardinality(Shown(d)') = Told(d)
    <3> DEFINE e == <<c, pieces[c] > 0>>
               x == <<d, TRUE>>
               S == PrintCpus \X BOOLEAN
    <3>1. e = x <=> d = c /\ pieces[c] > 0
      OBVIOUS
    <3>2. IsFiniteSet(Places(screen, x)) /\ Cardinality(Places(screen, x)) = Told(d)
      BY <2>2 DEF Shown
    <3>3. e \in S /\ screen \in Seq(S) /\ Shown(d)' = Places(Append(screen, e), x)
      BY <1>0, <1>1 DEF Shown, Places
    <3> HIDE DEF e, x, S
    <3>4. QED
      BY <3>1, <3>2, <3>3, ShownAppend
  <2>4. Told(d) \in Nat
    BY <2>2, FS_CardinalityType
  <2>5. CASE d # c
    <3>1. ppc'[d] = ppc[d] /\ pieces'[d] = pieces[d] /\ printLeft'[d] = printLeft[d]
      BY <1>0, <2>5 DEF PrintInv, PrintTypes
    <3>2. Told(d)' = Told(d)
      BY <3>1 DEF Told
    <3>3. QED
      BY <2>3, <2>4, <2>5, <3>2
  <2>6. CASE d = c /\ pieces[c] = 0
    <3>1. Told(c) = 0 /\ Told(c)' = 0
      BY <1>0, <2>6 DEF Told, PrintInv, PrintTypes
    <3>2. ~(pieces[c] > 0)
      BY <2>6
    <3>3. QED
      BY <2>3, <2>6, <3>1, <3>2
  <2>7. CASE d = c /\ pieces[c] # 0
    <3>1. ppc[c] # "panic" /\ ppc'[c] # "panic" /\ pieces'[c] = pieces[c] /\ printLeft'[c] = printLeft[c] - 1
      BY <1>0 DEF PrintInv, PrintTypes
    <3> DEFINE m == (PIECES - pieces[c]) * LENGTH
    <3>2. m \in Int
      BY <1>1
    <3>3. Told(c) = m + (LENGTH - printLeft[c]) /\ Told(c)' = m + (LENGTH - (printLeft[c] - 1))
      BY <2>7, <3>1, <1>0 DEF Told
    <3> HIDE DEF m
    <3>4. Told(c)' = Told(c) + 1
      BY <1>1, <3>2, <3>3
    <3>5. pieces[c] > 0
      BY <1>1, <2>7
    <3>6. QED
      BY <2>3, <2>7, <3>4, <3>5
  <2>8. QED
    BY <2>5, <2>6, <2>7
<1>8. QED
  BY <1>2, <1>3, <1>4, <1>5, <1>6, <1>7 DEF PrintInv

\* The end of a message, which may be the last of a panic.
LEMMA PrintDone ==
  ASSUME PrintSizes, PrintInv, NEW c \in PrintCpus, P!Done(c)
  PROVE  PrintInv'
<1> USE DEF PrintSizes
<1>0. /\ UNCHANGED <<locking, printLeft, screen>>
      /\ ppc[c] = "put" /\ printLeft[c] = 0
      /\ holder' = IF took[c] THEN NoPrinter ELSE holder
      /\ ppc' = [ppc EXCEPT ![c] = IF pieces[c] > 0 THEN "panic" ELSE "idle"]
      /\ took' = [took EXCEPT ![c] = FALSE]
      /\ pieces' = [pieces EXCEPT ![c] = IF pieces[c] > 0 THEN pieces[c] - 1 ELSE 0]
      /\ panicked' = (panicked \/ pieces[c] = 1)
  BY DEF P!Done, P!Releases, P!Panicking
<1>1. pieces[c] \in 0..PIECES
  BY DEF PrintInv, PrintTypes
<1>2. PrintTypes'
  <2>1. pieces' \in [PrintCpus -> 0..PIECES]
    BY <1>0, <1>1 DEF PrintInv, PrintTypes
  <2>2. QED
    BY <1>0, <2>1 DEF PrintInv, PrintTypes
<1>3. LockKnown'
  <2>1. ASSUME NEW d \in PrintCpus, d # c
        PROVE  /\ ppc'[d] = ppc[d] /\ pieces'[d] = pieces[d] /\ took'[d] = took[d]
               /\ holder' = d => holder = d
               /\ holder = d => holder' = d \/ ~(Printing(d) /\ took[d])
    BY <1>0, <2>1 DEF PrintInv, PrintTypes, LockKnown, Printing
  <2>2. ASSUME NEW d \in PrintCpus, d # c, Printing(d), took[d] PROVE holder' = d
    <3>1. holder = d
      BY <2>2 DEF PrintInv, LockKnown
    <3>2. ~took[c]
      BY <1>0, <2>2, <3>1 DEF PrintInv, LockKnown, Printing
    <3>3. QED
      BY <1>0, <3>1, <3>2
  <2>3. holder' = c => ~took[c] /\ holder = c /\ pieces[c] > 0
    BY <1>0, <1>1 DEF PrintInv, PrintTypes, LockKnown, Printing
  <2>4. ppc'[c] \in {"panic", "idle"} /\ (pieces[c] > 0 => ppc'[c] = "panic")
    BY <1>0 DEF PrintInv, PrintTypes
  <2>5. ASSUME NEW d \in PrintCpus
        PROVE  /\ holder' = d => ppc'[d] \in {"put", "putc", "frozen", "panic"}
               /\ holder' = d /\ pieces'[d] = 0 /\ Printing(d)' => took'[d]
               /\ Printing(d)' /\ took'[d] => holder' = d
               /\ ppc'[d] = "acquire" => took'[d] /\ printLeft'[d] = LENGTH
    <3>1. CASE d = c
      BY <2>3, <2>4, <3>1 DEF Printing
    <3>2. CASE d # c
      BY <1>0, <2>1, <2>2, <3>2 DEF PrintInv, LockKnown, Printing
    <3>3. QED
      BY <3>1, <3>2
  <2>6. QED
    BY <2>5 DEF LockKnown
<1>4. Calm'
  BY <1>0 DEF PrintInv, PrintTypes, Calm, Printing
<1>5. OwnTail'
  BY <1>0 DEF PrintInv, PrintTypes, OwnTail, Printing
<1>6. Panicked'
  <2>1. ASSUME NEW d \in PrintCpus, d # c PROVE ppc'[d] = ppc[d] /\ pieces'[d] = pieces[d] /\ printLeft'[d] = printLeft[d]
    BY <1>0, <2>1 DEF PrintInv, PrintTypes
  <2>2. /\ pieces[c] > 0 => ppc'[c] = "panic" /\ pieces'[c] = pieces[c] - 1
        /\ pieces[c] = 0 => ppc'[c] = "idle" /\ pieces'[c] = 0
    BY <1>0, <1>1 DEF PrintInv, PrintTypes
  <2>3. panicked => panicked'
    BY <1>0
  <2>4. ASSUME NEW d \in PrintCpus
        PROVE  /\ pieces'[d] > 0 => ppc'[d] \in {"put", "putc", "frozen", "panic"}
               /\ ppc'[d] = "frozen" => panicked'
               /\ ppc'[d] = "putc" => printLeft'[d] > 0
               /\ ppc'[d] = "panic" /\ pieces'[d] = 0 => panicked'
    <3>1. CASE d = c
      <4>1. pieces[c] = 0 \/ pieces[c] = 1 \/ pieces[c] > 1
        BY <1>1
      <4>2. CASE pieces[c] = 0
        BY <2>2, <3>1, <4>2
      <4>3. CASE pieces[c] = 1
        <5>1. pieces[c] > 0 /\ pieces[c] - 1 = 0 /\ ~(0 > 0)
          BY <4>3
        <5>2. ppc'[c] = "panic" /\ pieces'[c] = 0 /\ panicked'
          BY <1>0, <2>2, <4>3, <5>1
        <5>3. QED
          BY <3>1, <5>1, <5>2
      <4>4. CASE pieces[c] > 1
        <5>1. pieces[c] > 0 /\ pieces[c] - 1 # 0
          BY <1>1, <4>4
        <5>2. ppc'[c] = "panic" /\ pieces'[c] # 0
          BY <2>2, <5>1
        <5>3. QED
          BY <3>1, <5>2
      <4>5. QED
        BY <4>1, <4>2, <4>3, <4>4
    <3>2. CASE d # c
      BY <2>1, <2>3, <3>2 DEF PrintInv, Panicked
    <3>3. QED
      BY <3>1, <3>2
  <2>5. panicked' => \E d \in PrintCpus : ppc'[d] = "panic" /\ pieces'[d] = 0
    <3>1. CASE panicked
      <4>1. PICK d \in PrintCpus : ppc[d] = "panic" /\ pieces[d] = 0
        BY <3>1 DEF PrintInv, Panicked
      <4>2. d # c
        BY <1>0, <4>1
      <4>3. QED
        BY <2>1, <4>1, <4>2
    <3>2. CASE pieces[c] = 1
      BY <2>2, <3>2
    <3>3. QED
      BY <1>0, <3>1, <3>2
  <2>6. QED
    BY <2>4, <2>5 DEF Panicked
<1>7. AllShown'
  <2>1. ASSUME NEW d \in PrintCpus PROVE Shown(d)' = Shown(d) /\ Told(d)' = Told(d)
    <3>1. Shown(d)' = Shown(d)
      BY <1>0 DEF Shown, Places
    <3>2. CASE d # c
      <4>1. ppc'[d] = ppc[d] /\ pieces'[d] = pieces[d] /\ printLeft'[d] = printLeft[d]
        BY <1>0, <3>2 DEF PrintInv, PrintTypes
      <4>2. QED
        BY <3>1, <4>1 DEF Told
    <3>3. CASE d = c /\ pieces[c] = 0
      <4>1. ppc[c] # "panic" /\ ppc'[c] # "panic" /\ pieces'[c] = 0
        BY <1>0, <3>3 DEF PrintInv, PrintTypes
      <4>2. QED
        BY <3>1, <3>3, <4>1 DEF Told
    <3>4. CASE d = c /\ pieces[c] > 0
      <4>1. ppc[c] = "put" /\ ppc'[c] = "panic" /\ pieces'[c] = pieces[c] - 1 /\ printLeft[c] = 0
        BY <1>0, <3>4 DEF PrintInv, PrintTypes
      <4> DEFINE k == PIECES - pieces[c]
      <4>2. k \in Nat /\ PIECES - (pieces[c] - 1) = k + 1 /\ (pieces[c] - 1 = 0 => PIECES = k + 1)
        BY <1>1
      <4>3. (k + 1) * LENGTH = k * LENGTH + LENGTH /\ k * LENGTH \in Nat
        BY <4>2, D!Times
      <4>4. pieces[c] # 0
        BY <1>1, <3>4
      <4>5. Told(c) = k * LENGTH + (LENGTH - 0)
        BY <4>1, <4>4 DEF Told
      <4>6. Told(c)' = (k + 1) * LENGTH + 0
        <5>1. CASE pieces[c] - 1 = 0
          <6>1. Told(c)' = PIECES * LENGTH
            BY <4>1, <5>1 DEF Told
          <6>2. Told(c)' = (k + 1) * LENGTH /\ (k + 1) * LENGTH \in Nat
            BY <4>2, <4>3, <5>1, <6>1
          <6> HIDE DEF k
          <6>3. QED
            BY <6>2
        <5>2. CASE pieces[c] - 1 # 0
          BY <4>1, <4>2, <5>2 DEF Told
        <5>3. QED
          BY <5>1, <5>2
      <4> HIDE DEF k
      <4>7. Told(c)' = Told(c)
        BY <4>3, <4>5, <4>6
      <4>8. QED
        BY <3>1, <3>4, <4>7
    <3>5. QED
      BY <1>1, <3>2, <3>3, <3>4
  <2>2. QED
    BY <2>1 DEF PrintInv, AllShown
<1>8. QED
  BY <1>2, <1>3, <1>4, <1>5, <1>6, <1>7 DEF PrintInv

LEMMA PrintPanic ==
  ASSUME PrintSizes, PrintInv, NEW c \in PrintCpus, P!Panic(c)
  PROVE  PrintInv'
<1> USE DEF PrintSizes
<1>1. pieces[c] \in 0..PIECES
  BY DEF PrintInv, PrintTypes
<1>0. /\ UNCHANGED <<panicked, holder, took, printLeft, screen>>
      /\ locking' = FALSE /\ ppc[c] \in {"idle", "put"} /\ pieces[c] = 0
      /\ pieces' = [pieces EXCEPT ![c] = PIECES] /\ ppc' = [ppc EXCEPT ![c] = "panic"]
  <2>1. ppc[c] = "idle" => pieces[c] = 0
    <3>1. pieces[c] > 0 => ppc[c] \in {"put", "putc", "frozen", "panic"}
      BY DEF PrintInv, Panicked
    <3>2. QED
      BY <1>1, <3>1
  <2>2. ~(pieces[c] > 0) => pieces[c] = 0
    BY <1>1
  <2>3. QED
    BY <2>1, <2>2 DEF P!Panic, P!Panicking, P!Locking
<1>2. PrintTypes'
  <2>1. pieces' \in [PrintCpus -> 0..PIECES]
    <3>1. PIECES \in 0..PIECES
      OBVIOUS
    <3>2. QED
      BY <1>0, <3>1 DEF PrintInv, PrintTypes
  <2>2. QED
    BY <1>0, <2>1 DEF PrintInv, PrintTypes
<1>3. \A d \in PrintCpus : d # c => ppc'[d] = ppc[d] /\ pieces'[d] = pieces[d]
  BY <1>0 DEF PrintInv, PrintTypes
<1>4. ppc'[c] = "panic" /\ pieces'[c] = PIECES
  BY <1>0 DEF PrintInv, PrintTypes
<1>5. LockKnown'
  BY <1>0, <1>3, <1>4 DEF PrintInv, LockKnown, Printing
<1>6. Calm' /\ OwnTail'
  BY <1>0 DEF Calm, OwnTail
<1>7. Panicked'
  <2>1. ASSUME NEW d \in PrintCpus
        PROVE  /\ pieces'[d] > 0 => ppc'[d] \in {"put", "putc", "frozen", "panic"}
               /\ ppc'[d] = "frozen" => panicked'
               /\ ppc'[d] = "putc" => printLeft'[d] > 0
               /\ ppc'[d] = "panic" /\ pieces'[d] = 0 => panicked'
    BY <1>0, <1>3, <1>4 DEF PrintInv, Panicked
  <2>2. panicked' => \E d \in PrintCpus : ppc'[d] = "panic" /\ pieces'[d] = 0
    <3>1. CASE panicked
      <4>1. PICK d \in PrintCpus : ppc[d] = "panic" /\ pieces[d] = 0
        BY <3>1 DEF PrintInv, Panicked
      <4>2. d # c
        BY <1>0, <4>1
      <4>3. QED
        BY <1>3, <4>1, <4>2
    <3>2. QED
      BY <1>0, <3>1
  <2>3. QED
    BY <2>1, <2>2 DEF Panicked
<1>8. AllShown'
  <2>1. ASSUME NEW d \in PrintCpus PROVE Shown(d)' = Shown(d) /\ Told(d)' = Told(d)
    <3>1. Shown(d)' = Shown(d)
      BY <1>0 DEF Shown, Places
    <3>2. CASE d # c
      BY <1>0, <1>3, <3>1, <3>2 DEF Told
    <3>3. CASE d = c
      <4>1. (PIECES - PIECES) * LENGTH + 0 = 0
        <5>1. PIECES - PIECES = 0
          OBVIOUS
        <5>2. QED
          BY <5>1, D!Times
      <4>2. Told(c) = 0
        BY <1>0 DEF Told
      <4>3. Told(c)' = (PIECES - PIECES) * LENGTH + 0
        BY <1>4 DEF Told
      <4>4. QED
        BY <3>1, <3>3, <4>1, <4>2, <4>3
    <3>4. QED
      BY <3>2, <3>3
  <2>2. QED
    BY <2>1 DEF PrintInv, AllShown
<1>9. QED
  BY <1>2, <1>5, <1>6, <1>7, <1>8 DEF PrintInv

LEMMA PrintMeans ==
  ASSUME PrintSizes, PrintInv
  PROVE  P!NotMixed /\ P!NoLockKept /\ P!PanicHeard
<1>1. P!NotMixed
  BY DEF P!NotMixed, PrintInv, OwnTail, Printing
<1>2. P!NoLockKept
  BY DEF P!NoLockKept, PrintInv, LockKnown
<1>3. ASSUME P!Panics # {},
             \A c \in PrintCpus : P!Waits(c) \/ ppc[c] \in {"idle", "frozen"} \/ (ppc[c] = "panic" /\ pieces[c] = 0)
      PROVE  panicked
  <2>1. PICK c \in PrintCpus : pieces[c] > 0 \/ ppc[c] = "panic"
    BY <1>3 DEF P!Panics, P!Panicking
  <2>2. ppc[c] = "acquire" \/ ppc[c] \in {"idle", "frozen"} \/ (ppc[c] = "panic" /\ pieces[c] = 0)
    BY <1>3 DEF P!Waits
  <2>3. QED
    BY <2>1, <2>2 DEF PrintInv, Panicked
<1>4. ASSUME panicked
      PROVE  \E c \in P!Panics : Cardinality({i \in DOMAIN screen : screen[i] = <<c, TRUE>>}) = PIECES * LENGTH
  <2>1. PICK c \in PrintCpus : ppc[c] = "panic" /\ pieces[c] = 0
    BY <1>4 DEF PrintInv, Panicked
  <2>2. Cardinality(Shown(c)) = PIECES * LENGTH
    BY <2>1 DEF PrintInv, AllShown, Told
  <2>3. c \in P!Panics
    BY <2>1 DEF P!Panics
  <2>4. QED
    BY <2>2, <2>3 DEF Shown, Places
<1>5. ASSUME NEW S PROVE P!Cardinality(S) = Cardinality(S)
  BY DEF P!Cardinality, Cardinality
<1>6. P!PanicHeard
  BY <1>3, <1>4, <1>5 DEF P!PanicHeard
<1>7. QED
  BY <1>1, <1>2, <1>6

THEOREM Printed ==
  ASSUME PrintSizes
  PROVE  P!Spec => [](P!NotMixed /\ P!NoLockKept /\ P!PanicHeard)
<1>1. P!Init => PrintInv
  BY PrintInit
<1>2. PrintInv /\ [P!Next]_(P!pvars) => PrintInv'
  <2>1. SUFFICES ASSUME PrintInv, [P!Next]_(P!pvars) PROVE PrintInv'
    OBVIOUS
  <2>2. CASE UNCHANGED P!pvars
    BY <2>1, <2>2 DEF P!pvars, PrintInv, PrintTypes, LockKnown, Calm, OwnTail, Panicked, AllShown, Shown, Places, Told, Printing
  <2>3. CASE P!Next
    <3>1. PICK c \in PrintCpus : P!Cprintf(c) \/ P!Consolewrite(c) \/ P!Panic(c) \/ P!Step(c)
      BY <2>3 DEF P!Next
    <3>2. QED
      BY <2>1, <3>1, PrintBegins, PrintMoves, PrintPutc, PrintDone, PrintPanic DEF P!Step
  <2>4. QED
    BY <2>1, <2>2, <2>3
<1>3. PrintInv => P!NotMixed /\ P!NoLockKept /\ P!PanicHeard
  BY PrintMeans
<1>4. QED
  BY <1>1, <1>2, <1>3, PTL DEF P!Spec

\* Messages are not mixed, no lock is left behind and a panic is heard, for any number of CPUs.
THEOREM PrintSafe ==
  ASSUME PrintSizes
  PROVE  PartsSpec => []PrintedWhole
<1>1. PartsInit => P!Init
  BY DEF PartsInit
<1>2. [PartsNext]_<<part, partsvars>> => [P!Next]_(P!pvars)
  BY DEF PartsNext, partsvars, printvars, P!pvars
<1>3. P!NotMixed /\ P!NoLockKept /\ P!PanicHeard => PrintedWhole
  BY DEF PrintedWhole
<1>4. QED
  BY <1>1, <1>2, <1>3, Printed, PTL DEF PartsSpec, P!Spec
=============================================================================
