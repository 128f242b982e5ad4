-------------------------------- MODULE Proc --------------------------------
(***************************************************************************)
(* The process table of the xv6 kernel (Part_B/proc.c): allocproc, fork,   *)
(* exit, wait, kill, yield, sleep/wakeup on a process, and the scheduler   *)
(* that every CPU runs.                                                    *)
(*                                                                         *)
(* The subject is ptable.lock.  Most critical sections open and close it   *)
(* inside one function and are one step, taken when the lock is free.  The *)
(* ones that cross a context switch are not: yield, sleep and exit acquire *)
(* the lock on a process's kernel stack and it is the scheduler that       *)
(* releases it (or dispatches another process which does), so the lock is  *)
(* a variable and the switch is a step of its own.  fork works on its      *)
(* EMBRYO slot without the lock, one step per store others can see.        *)
(***************************************************************************)
EXTENDS Integers, FiniteSets, TLC

CONSTANTS
  NPROC,       \* slots of ptable.proc
  CPUS,        \* the processors
  NoCpu,       \* ptable.lock is free
  MaxPid,      \* bound: pids 1..MaxPid are handed out, fork then stops
  KillPids     \* the pids user programs pass to kill()

ASSUME NprocAssumption == NPROC \in Nat \ {0}
ASSUME NoCpuAssumption == NoCpu \notin CPUS
ASSUME PidAssumption   == MaxPid \in Nat \ {0} /\ KillPids \subseteq Nat

Slots == 1..NPROC
None  == 0               \* a null struct proc pointer, or the scheduler thread
Init1 == 1               \* initproc: userinit takes the first slot

States == {"UNUSED", "EMBRYO", "SLEEPING", "RUNNABLE", "RUNNING", "ZOMBIE"}

\* What a process's kernel thread is doing:
\*   user   in user space, or about to return there
\*   sys    in syscall(), past the test of killed in trap
\*   kalloc allocproc gave it a slot, the kernel stack is not allocated yet
\*   copy   fork copies the address space; ready: child built, not RUNNABLE yet
\*   wait   at the top of wait's loop, holding ptable.lock
\*   exit   in exit(), before it acquires ptable.lock
Pcs == {"user", "sys", "kalloc", "copy", "ready", "wait", "exit"}

\* Where swtch resumes the process: p->context was saved there.
Contexts == {"none", "forkret", "yield", "sleep", "exited"}

VARIABLES
  state, pid, parent, killed, chan, kstack,   \* fields of struct proc
  nextpid,
  lock,        \* the CPU that holds ptable.lock
  cproc,       \* mycpu()->proc: the process whose stack the CPU executes on
  scan,        \* the scheduler's loop variable p; None outside the loop
  pc, ctx,     \* see Pcs and Contexts
  np           \* fork's local np

fields == <<state, pid, parent, killed, chan, kstack, nextpid>>
vars   == <<fields, lock, cproc, scan, pc, ctx, np>>

Init ==
  /\ state   = [p \in Slots |-> IF p = Init1 THEN "RUNNABLE" ELSE "UNUSED"]
  /\ pid     = [p \in Slots |-> IF p = Init1 THEN 1 ELSE 0]
  /\ parent  = [p \in Slots |-> None]
  /\ killed  = [p \in Slots |-> FALSE]
  /\ chan    = [p \in Slots |-> None]
  /\ kstack  = [p \in Slots |-> p = Init1]
  /\ nextpid = 2
  /\ lock    = NoCpu
  /\ cproc   = [c \in CPUS |-> None]
  /\ scan    = [c \in CPUS |-> None]
  /\ pc      = [p \in Slots |-> "user"]
  /\ ctx     = [p \in Slots |-> IF p = Init1 THEN "forkret" ELSE "none"]
  /\ np      = [p \in Slots |-> None]

-----------------------------------------------------------------------------
(* The scheduler thread of a CPU. *)

SchedAcquire(c) ==
  /\ cproc[c] = None /\ scan[c] = None /\ lock = NoCpu
  /\ lock' = c
  /\ scan' = [scan EXCEPT ![c] = 1]
  /\ UNCHANGED <<fields, cproc, pc, ctx, np>>

\* The loop passes the slots that are not RUNNABLE.
NextRunnable(c, p) ==
  /\ p >= scan[c] /\ state[p] = "RUNNABLE"
  /\ \A q \in Slots : scan[c] <= q /\ q < p => state[q] # "RUNNABLE"

\* the loop goes on behind the process that ran (mutant: from the first slot)
BadScanAfter(p) == 1
ScanAfter(p) == p + 1

\* c->proc = p; p->state = RUNNING; swtch to p's kernel stack.
SchedDispatch(c, p) ==
  /\ cproc[c] = None /\ scan[c] # None
  /\ NextRunnable(c, p)
  /\ state' = [state EXCEPT ![p] = "RUNNING"]
  /\ cproc' = [cproc EXCEPT ![c] = p]
  /\ scan'  = [scan EXCEPT ![c] = ScanAfter(p)]
  /\ UNCHANGED <<pid, parent, killed, chan, kstack, nextpid, lock, pc, ctx, np>>

SchedRelease(c) ==
  /\ cproc[c] = None /\ scan[c] # None
  /\ \A q \in Slots : q >= scan[c] => state[q] # "RUNNABLE"
  /\ lock' = NoCpu
  /\ scan' = [scan EXCEPT ![c] = None]
  /\ UNCHANGED <<fields, cproc, pc, ctx, np>>

-----------------------------------------------------------------------------
(* The kernel thread of process p, executing on CPU c. *)

On(c, p) == cproc[c] = p /\ state[p] = "RUNNING"

\* p executes with interrupts on and no lock held
Preemptible(c, p) == On(c, p) /\ lock # c

\* p is at location l of its kernel thread
At(c, p, l) == On(c, p) /\ ctx[p] = "none" /\ pc[p] = l

\* forkret, or the code of yield after sched: release ptable.lock
Resume(c, p) ==
  /\ On(c, p) /\ ctx[p] \in {"forkret", "yield"}
  /\ lock' = NoCpu
  /\ ctx'  = [ctx EXCEPT ![p] = "none"]
  /\ UNCHANGED <<fields, cproc, scan, pc, np>>

\* sleep after sched, called from wait: p->chan = 0, back to the loop of wait
ResumeSleep(c, p) ==
  /\ On(c, p) /\ ctx[p] = "sleep"
  /\ chan' = [chan EXCEPT ![p] = None]
  /\ ctx'  = [ctx EXCEPT ![p] = "none"]
  /\ UNCHANGED <<state, pid, parent, killed, kstack, nextpid, lock, cproc,
                 scan, pc, np>>

\* the CPU acquire leaves in ptable.lock (mutant: yield without the lock)
BadYieldLock(c) == NoCpu
YieldLock(c) == c

\* The timer interrupts p anywhere outside a critical section (trap).
Yield(c, p) ==
  /\ Preemptible(c, p) /\ lock = NoCpu
  /\ lock'  = YieldLock(c)
  /\ state' = [state EXCEPT ![p] = "RUNNABLE"]
  /\ ctx'   = [ctx EXCEPT ![p] = "yield"]
  /\ UNCHANGED <<pid, parent, killed, chan, kstack, nextpid, cproc, scan, pc, np>>

\* sched: leave p's stack for the scheduler's, ptable.lock still held
\* (mutant: sched does not insist that the state was changed)
BadInSched(c, p) == cproc[c] = p /\ lock = c
InSched(c, p) == cproc[c] = p /\ state[p] # "RUNNING"

Sched(c, p) ==
  /\ InSched(c, p)
  /\ cproc' = [cproc EXCEPT ![c] = None]
  /\ UNCHANGED <<fields, lock, scan, pc, ctx, np>>

-----------------------------------------------------------------------------
(* trap: a system call begins with a test of killed *)

SyscallEnter(c, p) ==
  /\ At(c, p, "user") /\ ~killed[p]
  /\ pc' = [pc EXCEPT ![p] = "sys"]
  /\ UNCHANGED <<fields, lock, cproc, scan, ctx, np>>

\* any other system call, or one that fails before it touches the table;
\* init (init.c) only calls fork and wait
SyscallReturn(c, p) ==
  /\ At(c, p, "sys") /\ p # Init1
  /\ pc' = [pc EXCEPT ![p] = "user"]
  /\ UNCHANGED <<fields, lock, cproc, scan, ctx, np>>

\* an unexpected trap in user space marks the process; init does not fault
Misbehave(c, p) ==
  /\ At(c, p, "user") /\ p # Init1
  /\ killed' = [killed EXCEPT ![p] = TRUE]
  /\ UNCHANGED <<state, pid, parent, chan, kstack, nextpid, lock, cproc, scan,
                 pc, ctx, np>>

-----------------------------------------------------------------------------
(* fork *)

\* p->pid = nextpid++ (mutant: the increment is lost)
BadTakePid(q) == pid' = [pid EXCEPT ![q] = nextpid] /\ nextpid' = nextpid
TakePid(q) == pid' = [pid EXCEPT ![q] = nextpid] /\ nextpid' = nextpid + 1

\* allocproc's critical section: the first UNUSED slot becomes an EMBRYO
ForkAlloc(c, p, q) ==
  /\ At(c, p, "sys") /\ lock = NoCpu
  /\ nextpid <= MaxPid
  /\ state[q] = "UNUSED" /\ \A r \in Slots : r < q => state[r] # "UNUSED"
  /\ state'   = [state EXCEPT ![q] = "EMBRYO"]
  /\ TakePid(q)
  /\ np'      = [np EXCEPT ![p] = q]
  /\ pc'      = [pc EXCEPT ![p] = "kalloc"]
  /\ UNCHANGED <<parent, killed, chan, kstack, lock, cproc, scan, ctx>>

\* kalloc gives a kernel stack; the child's context returns to forkret
ForkStack(c, p) ==
  /\ At(c, p, "kalloc")
  /\ kstack' = [kstack EXCEPT ![np[p]] = TRUE]
  /\ ctx'    = [ctx EXCEPT ![np[p]] = "forkret"]
  /\ pc'     = [pc EXCEPT ![p] = "copy"]
  /\ UNCHANGED <<state, pid, parent, killed, chan, nextpid, lock, cproc, scan, np>>

\* kfree(np->kstack) (mutant: forgotten)
BadFailedStack(p) == kstack
FailedStack(p) == [kstack EXCEPT ![np[p]] = FALSE]

\* kalloc or copyuvm found no memory: the slot is given back without the lock,
\* its pid stays in it
ForkFail(c, p) ==
  /\ At(c, p, "kalloc") \/ At(c, p, "copy")
  /\ kstack' = FailedStack(p)
  /\ state'  = [state EXCEPT ![np[p]] = "UNUSED"]
  /\ ctx'    = [ctx EXCEPT ![np[p]] = "none"]
  /\ np'     = [np EXCEPT ![p] = None]
  /\ pc'     = [pc EXCEPT ![p] = "user"]
  /\ UNCHANGED <<pid, parent, killed, chan, nextpid, lock, cproc, scan>>

\* np->parent = curproc, and the private fields, without the lock
ForkCopy(c, p) ==
  /\ At(c, p, "copy")
  /\ parent' = [parent EXCEPT ![np[p]] = p]
  /\ pc'     = [pc EXCEPT ![p] = "ready"]
  /\ UNCHANGED <<state, pid, killed, chan, kstack, nextpid, lock, cproc, scan, ctx, np>>

ForkDone(c, p) ==
  /\ At(c, p, "ready") /\ lock = NoCpu
  /\ state' = [state EXCEPT ![np[p]] = "RUNNABLE"]
  /\ np'    = [np EXCEPT ![p] = None]
  /\ pc'    = [pc EXCEPT ![p] = "user"]
  /\ UNCHANGED <<pid, parent, killed, chan, kstack, nextpid, lock, cproc, scan, ctx>>

-----------------------------------------------------------------------------
(* wait *)

Children(p) == {q \in Slots : parent[q] = p}
Zombies(p)  == {q \in Children(p) : state[q] = "ZOMBIE"}

WaitEnter(c, p) ==
  /\ At(c, p, "sys") /\ lock = NoCpu
  /\ lock' = c
  /\ pc'   = [pc EXCEPT ![p] = "wait"]
  /\ UNCHANGED <<fields, cproc, scan, ctx, np>>

\* the pid wait leaves in a freed slot (mutant: -1, "no process")
BadFreedPid(q) == [pid EXCEPT ![q] = -1]
FreedPid(q) == [pid EXCEPT ![q] = 0]

\* the first zombie child in the table is freed
WaitReap(c, p, q) ==
  /\ At(c, p, "wait")
  /\ q \in Zombies(p) /\ \A r \in Zombies(p) : q <= r
  /\ kstack' = [kstack EXCEPT ![q] = FALSE]
  /\ pid'    = FreedPid(q)
  /\ parent' = [parent EXCEPT ![q] = None]
  /\ killed' = [killed EXCEPT ![q] = FALSE]
  /\ state'  = [state EXCEPT ![q] = "UNUSED"]
  /\ ctx'    = [ctx EXCEPT ![q] = "none"]
  /\ pc'     = [pc EXCEPT ![p] = "user", ![q] = "user"]
  /\ lock'   = NoCpu
  /\ UNCHANGED <<chan, nextpid, cproc, scan, np>>

NothingToWaitFor(p) == Children(p) = {} \/ killed[p]

WaitNone(c, p) ==
  /\ At(c, p, "wait")
  /\ Zombies(p) = {} /\ NothingToWaitFor(p)
  /\ lock' = NoCpu
  /\ pc'   = [pc EXCEPT ![p] = "user"]
  /\ UNCHANGED <<fields, cproc, scan, ctx, np>>

\* sleep(curproc, &ptable.lock), up to the call of sched
WaitSleep(c, p) ==
  /\ At(c, p, "wait")
  /\ Zombies(p) = {} /\ ~NothingToWaitFor(p)
  /\ chan'  = [chan EXCEPT ![p] = p]
  /\ state' = [state EXCEPT ![p] = "SLEEPING"]
  /\ ctx'   = [ctx EXCEPT ![p] = "sleep"]
  /\ UNCHANGED <<pid, parent, killed, kstack, nextpid, lock, cproc, scan, pc, np>>

-----------------------------------------------------------------------------
(* exit and kill *)

\* a call of exit (init makes none), or a process found killed by trap
ExitStart(c, p) ==
  /\ \/ At(c, p, "sys") /\ p # Init1
     \/ At(c, p, "user") /\ killed[p]
  /\ pc' = [pc EXCEPT ![p] = "exit"]
  /\ UNCHANGED <<fields, lock, cproc, scan, ctx, np>>

Sleepers(ch) == {q \in Slots : state[q] = "SLEEPING" /\ chan[q] = ch}

\* wakeup1(curproc->parent); and wakeup1(initproc) when it inherits a zombie
\* (mutants: init is not told of an inherited zombie; the parent is not woken)
BadWoken(p) == Sleepers(parent[p])
BadWoken2(p) == IF Zombies(p) # {} THEN Sleepers(Init1) ELSE {}
Woken(p) ==
  Sleepers(parent[p]) \cup (IF Zombies(p) # {} THEN Sleepers(Init1) ELSE {})

\* the parent of q once p has exited (mutant: children are not passed on)
BadHeir(p, q) == parent[q]
Heir(p, q) == IF parent[q] = p THEN Init1 ELSE parent[q]

ExitZombie(c, p) ==
  /\ At(c, p, "exit") /\ lock = NoCpu
  /\ p # Init1                          \* panic("init exiting")
  /\ lock'   = c
  /\ state'  = [q \in Slots |-> IF q = p THEN "ZOMBIE"
                                ELSE IF q \in Woken(p) THEN "RUNNABLE" ELSE state[q]]
  /\ parent' = [q \in Slots |-> Heir(p, q)]
  /\ ctx'    = [ctx EXCEPT ![p] = "exited"]
  /\ UNCHANGED <<pid, killed, chan, kstack, nextpid, cproc, scan, pc, np>>

\* kill: the first slot with that pid, in whatever state it is
\* (mutant of Unblocked: a sleeping victim is not woken)
BadUnblocked(q) == state
Unblocked(q) == [state EXCEPT ![q] = IF @ = "SLEEPING" THEN "RUNNABLE" ELSE @]

Victim(k, q) == pid[q] = k /\ \A r \in Slots : r < q => pid[r] # k

Kill(c, p, k, q) ==
  /\ At(c, p, "sys") /\ p # Init1 /\ lock = NoCpu
  /\ Victim(k, q)
  /\ killed' = [killed EXCEPT ![q] = TRUE]
  /\ state'  = Unblocked(q)
  /\ pc'     = [pc EXCEPT ![p] = "user"]
  /\ UNCHANGED <<pid, parent, chan, kstack, nextpid, lock, cproc, scan, ctx, np>>

-----------------------------------------------------------------------------
Scheduler(c) == SchedAcquire(c) \/ SchedRelease(c) \/ \E p \in Slots : SchedDispatch(c, p)

Switching(c, p) == Resume(c, p) \/ ResumeSleep(c, p) \/ Sched(c, p) \/ Yield(c, p)

Fork(c, p) == \/ \E q \in Slots : ForkAlloc(c, p, q)
              \/ ForkStack(c, p) \/ ForkFail(c, p) \/ ForkCopy(c, p) \/ ForkDone(c, p)

Wait(c, p) == \/ WaitEnter(c, p) \/ WaitNone(c, p) \/ WaitSleep(c, p)
              \/ \E q \in Slots : WaitReap(c, p, q)

Exit(c, p) == ExitStart(c, p) \/ ExitZombie(c, p)

Process(c, p) == \/ Switching(c, p)
                 \/ SyscallEnter(c, p) \/ SyscallReturn(c, p) \/ Misbehave(c, p)
                 \/ Fork(c, p) \/ Wait(c, p) \/ Exit(c, p)
                 \/ \E k \in KillPids, q \in Slots : Kill(c, p, k, q)

Next == \E c \in CPUS : Scheduler(c) \/ \E p \in Slots : Process(c, p)

Spec == Init /\ [][Next]_vars

(* Fairness.  The scheduler loop and the code around swtch run with interrupts
   off and only need their CPU to go on (weak).  The rest is strong: a spinning
   xchg finds ptable.lock free in the end, the timer interrupts every CPU again
   and again, and between two ticks a process that is in the kernel executes.
   init calls wait for ever (init.c). *)

Progress(c, p) ==
  \/ SyscallEnter(c, p) /\ p = Init1
  \/ SyscallReturn(c, p)
  \/ ForkStack(c, p) \/ ForkFail(c, p) \/ ForkCopy(c, p) \/ ForkDone(c, p)
  \/ WaitNone(c, p) \/ WaitSleep(c, p) \/ \E q \in Slots : WaitReap(c, p, q)
  \/ ExitStart(c, p) /\ pc[p] = "user"
  \/ ExitZombie(c, p)

Fairness ==
  /\ \A c \in CPUS :
       /\ WF_vars(SchedRelease(c) \/ \E p \in Slots : SchedDispatch(c, p))
       /\ WF_vars(\E p \in Slots : Resume(c, p) \/ ResumeSleep(c, p) \/ Sched(c, p))
       /\ SF_vars(SchedAcquire(c))
       /\ SF_vars(\E p \in Slots : Yield(c, p))
  /\ \A p \in Slots : SF_vars(\E c \in CPUS : Progress(c, p))
  /\ SF_vars(\E c \in CPUS : WaitEnter(c, Init1))

FairSpec == Spec /\ Fairness

-----------------------------------------------------------------------------
(* Properties *)

TypeOK ==
  /\ state   \in [Slots -> States]
  /\ pid     \in [Slots -> Nat]
  /\ parent  \in [Slots -> Slots \cup {None}]
  /\ killed  \in [Slots -> BOOLEAN]
  /\ chan    \in [Slots -> Slots \cup {None}]
  /\ kstack  \in [Slots -> BOOLEAN]
  /\ nextpid \in Nat
  /\ lock    \in CPUS \cup {NoCpu}
  /\ cproc   \in [CPUS -> Slots \cup {None}]
  /\ scan    \in [CPUS -> 0..(NPROC + 1)]
  /\ pc      \in [Slots -> Pcs]
  /\ ctx     \in [Slots -> Contexts]
  /\ np      \in [Slots -> Slots \cup {None}]

\* No two CPUs execute on the same kernel stack, the stack a CPU executes on is
\* allocated, and a process that is not RUNNING any more is on a CPU only under
\* ptable.lock: the hand-over of the lock across swtch (sched, scheduler).
OneStackPerCpu ==
  /\ \A c, d \in CPUS : cproc[c] = cproc[d] /\ cproc[c] # None => c = d
  /\ \A c \in CPUS : cproc[c] # None =>
        /\ kstack[cproc[c]]
        /\ state[cproc[c]] # "RUNNING" => lock = c

\* RUNNING processes are exactly those some CPU runs: none is lost by a switch.
RunningIsOnCpu ==
  \A p \in Slots : state[p] = "RUNNING" => \E c \in CPUS : cproc[c] = p

\* wait: a process asleep in wait has a child, has no zombie child and is not
\* killed: neither the wakeup of exit, nor init's adoption of a zombie, nor
\* kill is lost, whatever the order of exit, wait and the switch.
NoLostWakeup ==
  \A p \in Slots : state[p] = "SLEEPING" =>
     /\ chan[p] = p /\ ~killed[p]
     /\ Children(p) # {} /\ Zombies(p) = {}

\* exit leaves no orphan: the parent of every process is init or a process that
\* has not exited, so that someone can still wait for it.
ParentAlive ==
  \A p \in Slots : state[p] \notin {"UNUSED", "EMBRYO"} /\ p # Init1 =>
     /\ parent[p] \in Slots
     /\ state[parent[p]] \notin {"UNUSED", "EMBRYO", "ZOMBIE"}

\* kill finds at most one slot: two slots never carry the same nonzero pid, not
\* even a slot that a failed fork gave back with its pid still in it.
PidsDistinct ==
  \A p, q \in Slots : pid[p] = pid[q] /\ pid[p] # 0 => p = q

\* Every kernel stack belongs to a slot in use: the error paths of fork and the
\* freeing in wait lose none.
NoStackLeak ==
  \A p \in Slots : state[p] = "UNUSED" => ~kstack[p]

\* The process table makes sense whatever fork, exit, wait, kill and the scheduler do at the
\* same time: every entry of it in itself, RUNNING with the CPUs, parents and pids with others.
TableConsistent == TypeOK /\ RunningIsOnCpu /\ ParentAlive /\ PidsDistinct

\* A process comes out of allocproc unkilled: kill reaches only the process with
\* the given pid.  The code does not keep this: kill marks an UNUSED slot whose
\* pid field is 0 or stale, and allocproc does not clear killed.
NewbornNotKilled ==
  [][\A p \in Slots : state[p] = "UNUSED" /\ state'[p] = "EMBRYO" => ~killed'[p]]_vars

\* Every RUNNABLE process gets a CPU: the scan of each CPU goes round the table.
Scheduled == \A p \in Slots : state[p] = "RUNNABLE" ~> state[p] = "RUNNING"

\* kill has an effect in the end: a killed process, asleep or not, exits.
KilledExits ==
  \A p \in Slots : killed[p] /\ state[p] \in {"SLEEPING", "RUNNABLE", "RUNNING"}
                  ~> state[p] = "ZOMBIE"

\* init reaps every zombie, its own children and the ones it inherits.
Reaped ==
  \A p \in Slots : state[p] = "ZOMBIE" /\ parent[p] = Init1 ~> state[p] = "UNUSED"

\* So a process that is killed is gone in the end, if its parent waits as init does: kill,
\* exit, its wakeup and wait pass it on from one to the next.
KilledIsReaped == KilledExits /\ Reaped


\* TLC: the processors are alike
CpuSymmetry == Permutations(CPUS)
=============================================================================
