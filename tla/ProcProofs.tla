----------------------------- MODULE ProcProofs -----------------------------
(***************************************************************************)
(* Proofs about module Proc, for every number of slots and CPUs: the type  *)
(* invariant and the safety invariants, by one inductive invariant.        *)
(***************************************************************************)
EXTENDS Proc, TLAPS

Alive == {"SLEEPING", "RUNNABLE", "RUNNING", "ZOMBIE"}
Building == {"kalloc", "copy", "ready"}

(* The hand-over of ptable.lock: who holds it, read off the CPU and the saved
   context of the process the CPU runs. *)
OneRunner == \A c, d \in CPUS : cproc[c] = cproc[d] /\ cproc[c] # None => c = d

Runner ==
  \A c \in CPUS : cproc[c] # None =>
    /\ scan[c] # None
    /\ state[cproc[c]] \in Alive
    /\ state[cproc[c]] # "RUNNING" => lock = c
    /\ state[cproc[c]] = "RUNNING" =>
          (lock = c <=> ctx[cproc[c]] # "none" \/ pc[cproc[c]] = "wait")

IdleCpu == \A c \in CPUS : cproc[c] = None => (scan[c] # None <=> lock = c)

CpuInv == OneRunner /\ Runner /\ IdleCpu /\ RunningIsOnCpu

(* Where each process can be resumed. *)
CtxInv ==
  \A p \in Slots :
    /\ state[p] = "SLEEPING" => ctx[p] = "sleep"
    /\ state[p] = "RUNNABLE" => ctx[p] \in {"forkret", "yield", "sleep"}
    /\ state[p] = "ZOMBIE"   => ctx[p] = "exited"
    /\ state[p] = "RUNNING"  => ctx[p] # "exited"
    /\ ctx[p] = "sleep" => pc[p] = "wait"
    /\ ctx[p] \in {"forkret", "yield"} => pc[p] # "wait"
    /\ state[p] \in {"UNUSED", "EMBRYO"} => pc[p] = "user"
    /\ state[p] \in Alive => kstack[p]
    /\ state[p] = "UNUSED" => ~kstack[p]

(* A fork in progress owns its EMBRYO slot. *)
BuilderPc == \A p \in Slots : pc[p] \in Building <=> np[p] # None

OneBuilder == \A p, q \in Slots : np[p] = np[q] /\ np[p] # None => p = q

Built ==
  \A p \in Slots : np[p] # None =>
    /\ state[p] \in {"RUNNING", "RUNNABLE"}
    /\ state[np[p]] = "EMBRYO"
    /\ pc[p] # "ready" => parent[np[p]] = None
    /\ pc[p] = "ready" => parent[np[p]] = p
    /\ pc[p] # "kalloc" => kstack[np[p]] /\ ctx[np[p]] = "forkret"

ForkInv == BuilderPc /\ OneBuilder /\ Built

(* The tree of processes, and the wakeups exit owes to wait. *)
Gone == {"UNUSED", "EMBRYO", "ZOMBIE"}

ParentOk ==
  /\ state[Init1] \notin Gone /\ parent[Init1] = None
  /\ \A p \in Slots : parent[p] # p
  /\ \A p \in Slots : parent[p] # None =>
        state[p] # "UNUSED" /\ state[parent[p]] \notin Gone

HasParent == \A p \in Slots : state[p] \in Alive /\ p # Init1 => parent[p] # None

FamilyInv == ParentOk /\ HasParent /\ NoLostWakeup

PidInv ==
  /\ nextpid > 0
  /\ \A p \in Slots : pid[p] < nextpid
  /\ PidsDistinct

IInv == TypeOK /\ CpuInv /\ CtxInv /\ ForkInv /\ FamilyInv /\ PidInv

-----------------------------------------------------------------------------
LEMMA InitSlot == Init1 \in Slots
BY NprocAssumption DEF Init1, Slots

LEMMA TypeStep ==
  ASSUME TypeOK, [Next]_vars
  PROVE  TypeOK'
<1>1. ASSUME NEW c \in CPUS, SchedAcquire(c) PROVE TypeOK'
  BY <1>1, NprocAssumption DEF SchedAcquire, fields, TypeOK
<1>2. ASSUME NEW c \in CPUS, NEW p \in Slots, SchedDispatch(c, p) PROVE TypeOK'
  <2>1. ScanAfter(p) \in 0..NPROC + 1 /\ p \in Slots \cup {None}
    BY NprocAssumption DEF ScanAfter, Slots
  <2>2. scan' \in [CPUS -> 0..NPROC + 1]
    BY <1>2, <2>1 DEF SchedDispatch, TypeOK
  <2>3. cproc' \in [CPUS -> Slots \cup {None}]
    BY <1>2, <2>1 DEF SchedDispatch, TypeOK
  <2>4. state' \in [Slots -> States]
    BY <1>2 DEF SchedDispatch, TypeOK, States
  <2>. QED
    BY <1>2, <2>2, <2>3, <2>4 DEF SchedDispatch, TypeOK
<1>3. ASSUME NEW c \in CPUS, SchedRelease(c) PROVE TypeOK'
  BY <1>3, NprocAssumption DEF SchedRelease, fields, TypeOK, None
<1>4. ASSUME NEW c \in CPUS, NEW p \in Slots, Resume(c, p) PROVE TypeOK'
  BY <1>4 DEF Resume, TypeOK, fields, Contexts
<1>5. ASSUME NEW c \in CPUS, NEW p \in Slots, ResumeSleep(c, p) PROVE TypeOK'
  BY <1>5 DEF None, ResumeSleep, TypeOK, Contexts
<1>6. ASSUME NEW c \in CPUS, NEW p \in Slots, Sched(c, p) PROVE TypeOK'
  BY <1>6 DEF None, Sched, TypeOK, fields
<1>7. ASSUME NEW c \in CPUS, NEW p \in Slots, Yield(c, p) PROVE TypeOK'
  BY <1>7 DEF Yield, YieldLock, TypeOK, States, Contexts
<1>8. ASSUME NEW c \in CPUS, NEW p \in Slots, NEW q \in Slots, ForkAlloc(c, p, q)
      PROVE  TypeOK'
  BY <1>8 DEF ForkAlloc, TakePid, TypeOK, States, Pcs
<1>9. ASSUME NEW c \in CPUS, NEW p \in Slots, ForkStack(c, p) PROVE TypeOK'
  BY <1>9 DEF ForkStack, At, On, TypeOK, fields, States, Pcs, Contexts
<1>10. ASSUME NEW c \in CPUS, NEW p \in Slots, ForkFail(c, p) PROVE TypeOK'
  BY <1>10
     DEF None, ForkFail, At, On, FailedStack, TypeOK, fields, States, Pcs, Contexts
<1>11. ASSUME NEW c \in CPUS, NEW p \in Slots, ForkCopy(c, p) PROVE TypeOK'
  BY <1>11 DEF ForkCopy, At, On, TypeOK, fields, States, Pcs, Contexts
<1>12. ASSUME NEW c \in CPUS, NEW p \in Slots, ForkDone(c, p) PROVE TypeOK'
  BY <1>12 DEF None, ForkDone, At, On, TypeOK, fields, States, Pcs, Contexts
<1>13. ASSUME NEW c \in CPUS, NEW p \in Slots, WaitEnter(c, p) PROVE TypeOK'
  BY <1>13 DEF WaitEnter, TypeOK, fields, Pcs
<1>14. ASSUME NEW c \in CPUS, NEW p \in Slots, NEW q \in Slots, WaitReap(c, p, q)
       PROVE  TypeOK'
  BY <1>14 DEF None, WaitReap, At, FreedPid, TypeOK, States, Pcs
<1>15. ASSUME NEW c \in CPUS, NEW p \in Slots, WaitNone(c, p) PROVE TypeOK'
  BY <1>15 DEF WaitNone, TypeOK, fields, Pcs
<1>16. ASSUME NEW c \in CPUS, NEW p \in Slots, WaitSleep(c, p) PROVE TypeOK'
  BY <1>16 DEF WaitSleep, TypeOK, States, Contexts
<1>17. ASSUME NEW c \in CPUS, NEW p \in Slots, ExitStart(c, p) PROVE TypeOK'
  BY <1>17 DEF ExitStart, TypeOK, fields, Pcs
<1>18. ASSUME NEW c \in CPUS, NEW p \in Slots, ExitZombie(c, p) PROVE TypeOK'
  BY <1>18, InitSlot DEF ExitZombie, Heir, TypeOK, States, Contexts
<1>19. ASSUME NEW c \in CPUS, NEW p \in Slots, NEW k \in KillPids,
              NEW q \in Slots, Kill(c, p, k, q)
       PROVE  TypeOK'
  BY <1>19 DEF Kill, Unblocked, TypeOK, States, Pcs
<1>20. ASSUME NEW c \in CPUS, NEW p \in Slots, SyscallEnter(c, p) PROVE TypeOK'
  BY <1>20 DEF SyscallEnter, At, On, TypeOK, fields, Pcs
<1>21. ASSUME NEW c \in CPUS, NEW p \in Slots, SyscallReturn(c, p) PROVE TypeOK'
  BY <1>21 DEF SyscallReturn, At, On, TypeOK, fields, Pcs
<1>22. ASSUME NEW c \in CPUS, NEW p \in Slots, Misbehave(c, p) PROVE TypeOK'
  BY <1>22 DEF Misbehave, At, On, TypeOK, fields, Pcs
<1>23. CASE UNCHANGED vars
  BY <1>23 DEF vars, fields, TypeOK, States, Pcs, Contexts
<1>24. QED
  BY <1>1, <1>2, <1>3, <1>4, <1>5, <1>6, <1>7, <1>8, <1>9, <1>10, <1>11, <1>12, <1>13,
     <1>14, <1>15, <1>16, <1>17, <1>18, <1>19, <1>20, <1>21, <1>22, <1>23
     DEF Next, Scheduler, Process, Switching, Fork, Wait, Exit

LEMMA CpuStep ==
  ASSUME TypeOK, TypeOK', CpuInv, CtxInv, ForkInv, FamilyInv, [Next]_vars
  PROVE  CpuInv'
<1>1. ASSUME NEW c \in CPUS, SchedAcquire(c) PROVE CpuInv'
  BY <1>1, NprocAssumption, NoCpuAssumption
     DEF SchedAcquire, fields, TypeOK, CpuInv, OneRunner, Runner, IdleCpu,
         RunningIsOnCpu, None
<1>2. ASSUME NEW c \in CPUS, NEW p \in Slots, SchedDispatch(c, p) PROVE CpuInv'
  <2>1. p # None /\ lock = c /\ \A d \in CPUS : cproc[d] # p
    BY <1>2 DEF SchedDispatch, NextRunnable, CpuInv, IdleCpu, Runner, Slots, None
  <2>2. scan'[c] # None
    BY <1>2, NprocAssumption DEF SchedDispatch, ScanAfter, TypeOK, Slots, None
  <2>3. OneRunner'
    BY <1>2, <2>1 DEF SchedDispatch, TypeOK, CpuInv, OneRunner
  <2>4. Runner'
    BY <1>2, <2>1, <2>2 DEF SchedDispatch, NextRunnable, TypeOK, CpuInv, Runner,
       CtxInv, Alive
  <2>5. IdleCpu'
    BY <1>2, <2>1 DEF SchedDispatch, TypeOK, CpuInv, IdleCpu
  <2>6. RunningIsOnCpu'
    BY <1>2, <2>1 DEF SchedDispatch, TypeOK, CpuInv, RunningIsOnCpu, Slots, None
  <2>7. QED
    BY <2>3, <2>4, <2>5, <2>6 DEF CpuInv
<1>3. ASSUME NEW c \in CPUS, SchedRelease(c) PROVE CpuInv'
  BY <1>3, NprocAssumption, NoCpuAssumption
     DEF SchedRelease, fields, TypeOK, CpuInv, OneRunner, Runner, IdleCpu,
         RunningIsOnCpu
<1>4. ASSUME NEW c \in CPUS, NEW p \in Slots, Resume(c, p) PROVE CpuInv'
  <2>1. p # None /\ lock = c /\ pc[p] # "wait"
    BY <1>4 DEF Resume, On, CpuInv, Runner, CtxInv, Slots, None
  <2>2. OneRunner' /\ RunningIsOnCpu'
    BY <1>4 DEF Resume, fields, CpuInv, OneRunner, RunningIsOnCpu
  <2>3. Runner'
    BY <1>4, <2>1, NoCpuAssumption
       DEF Resume, On, fields, TypeOK, CpuInv, OneRunner, Runner
  <2>4. IdleCpu'
    BY <1>4, <2>1, NoCpuAssumption DEF Resume, On, fields, CpuInv, IdleCpu
  <2>5. QED
    BY <2>2, <2>3, <2>4 DEF CpuInv
<1>5. ASSUME NEW c \in CPUS, NEW p \in Slots, ResumeSleep(c, p) PROVE CpuInv'
  BY <1>5, NprocAssumption, NoCpuAssumption
     DEF ResumeSleep, CpuInv, OneRunner, Runner, IdleCpu, RunningIsOnCpu, CtxInv
<1>6. ASSUME NEW c \in CPUS, NEW p \in Slots, Sched(c, p) PROVE CpuInv'
  BY <1>6, NprocAssumption, NoCpuAssumption
     DEF Sched, InSched, fields, CpuInv, OneRunner, Runner, IdleCpu, RunningIsOnCpu
<1>7. ASSUME NEW c \in CPUS, NEW p \in Slots, Yield(c, p) PROVE CpuInv'
  <2>1. p # None /\ cproc[c] = p /\ state[p] = "RUNNING" /\ lock = NoCpu
    BY <1>7 DEF Yield, Preemptible, On, Slots, None
  <2>2. OneRunner'
    BY <1>7 DEF Yield, CpuInv, OneRunner
  <2>3. Runner'
    BY <1>7, <2>1, NoCpuAssumption
       DEF Yield, YieldLock, TypeOK, CpuInv, OneRunner, Runner, Alive
  <2>4. IdleCpu'
    BY <1>7, <2>1, NoCpuAssumption DEF Yield, YieldLock, CpuInv, IdleCpu
  <2>5. RunningIsOnCpu'
    BY <1>7, <2>1 DEF Yield, TypeOK, CpuInv, RunningIsOnCpu
  <2>6. QED
    BY <2>2, <2>3, <2>4, <2>5 DEF CpuInv
<1>8. ASSUME NEW c \in CPUS, NEW p \in Slots, NEW q \in Slots, ForkAlloc(c, p, q)
      PROVE  CpuInv'
  BY <1>8, NprocAssumption, NoCpuAssumption
     DEF ForkAlloc, CpuInv, OneRunner, Runner, IdleCpu, RunningIsOnCpu
<1>9. ASSUME NEW c \in CPUS, NEW p \in Slots, ForkStack(c, p) PROVE CpuInv'
  BY <1>9, NprocAssumption, NoCpuAssumption
     DEF ForkStack, At, CpuInv, OneRunner, Runner, IdleCpu, RunningIsOnCpu, ForkInv,
         Built
<1>10. ASSUME NEW c \in CPUS, NEW p \in Slots, ForkFail(c, p) PROVE CpuInv'
  BY <1>10, NprocAssumption, NoCpuAssumption
     DEF ForkFail, At, CpuInv, OneRunner, Runner, IdleCpu, RunningIsOnCpu, ForkInv,
         Built, Alive, None
<1>11. ASSUME NEW c \in CPUS, NEW p \in Slots, ForkCopy(c, p) PROVE CpuInv'
  BY <1>11, NprocAssumption, NoCpuAssumption
     DEF ForkCopy, At, CpuInv, OneRunner, Runner, IdleCpu, RunningIsOnCpu
<1>12. ASSUME NEW c \in CPUS, NEW p \in Slots, ForkDone(c, p) PROVE CpuInv'
  BY <1>12, NprocAssumption, NoCpuAssumption
     DEF ForkDone, CpuInv, OneRunner, Runner, IdleCpu, RunningIsOnCpu, ForkInv, Built
<1>13. ASSUME NEW c \in CPUS, NEW p \in Slots, WaitEnter(c, p) PROVE CpuInv'
  <2>1. p # None /\ cproc[c] = p /\ state[p] = "RUNNING" /\ lock = NoCpu
    BY <1>13 DEF WaitEnter, At, On, Slots, None
  <2>2. OneRunner' /\ RunningIsOnCpu'
    BY <1>13 DEF WaitEnter, fields, CpuInv, OneRunner, RunningIsOnCpu
  <2>3. Runner'
    BY <1>13, <2>1, NoCpuAssumption
       DEF WaitEnter, fields, TypeOK, CpuInv, OneRunner, Runner
  <2>4. IdleCpu'
    BY <1>13, <2>1, NoCpuAssumption DEF WaitEnter, fields, CpuInv, IdleCpu
  <2>5. QED
    BY <2>2, <2>3, <2>4 DEF CpuInv
<1>14. ASSUME NEW c \in CPUS, NEW p \in Slots, NEW q \in Slots, WaitReap(c, p, q)
       PROVE  CpuInv'
  <2>1. p # None /\ lock = c /\ q # p
    BY <1>14 DEF WaitReap, At, On, Zombies, Children, CpuInv, Runner, Slots, None
  <2>2. \A d \in CPUS : cproc[d] # q
    BY <1>14, <2>1 DEF WaitReap, At, On, Zombies, Children, CpuInv, Runner, Slots, None
  <2>3. OneRunner'
    BY <1>14 DEF WaitReap, CpuInv, OneRunner
  <2>4. Runner'
    BY <1>14, <2>1, <2>2, NoCpuAssumption
       DEF WaitReap, At, On, TypeOK, CpuInv, OneRunner, Runner
  <2>5. IdleCpu'
    BY <1>14, <2>1, NoCpuAssumption DEF WaitReap, At, On, CpuInv, IdleCpu
  <2>6. RunningIsOnCpu'
    BY <1>14 DEF WaitReap, TypeOK, CpuInv, RunningIsOnCpu
  <2>7. QED
    BY <2>3, <2>4, <2>5, <2>6 DEF CpuInv
<1>15. ASSUME NEW c \in CPUS, NEW p \in Slots, WaitNone(c, p) PROVE CpuInv'
  BY <1>15, NprocAssumption, NoCpuAssumption
     DEF WaitNone, At, On, fields, TypeOK, CpuInv, OneRunner, Runner, IdleCpu,
         RunningIsOnCpu, CtxInv, Alive, Slots, None
<1>16. ASSUME NEW c \in CPUS, NEW p \in Slots, WaitSleep(c, p) PROVE CpuInv'
  BY <1>16, NprocAssumption, NoCpuAssumption
     DEF WaitSleep, At, CpuInv, OneRunner, Runner, IdleCpu, RunningIsOnCpu, Alive
<1>17. ASSUME NEW c \in CPUS, NEW p \in Slots, ExitStart(c, p) PROVE CpuInv'
  BY <1>17, NprocAssumption, NoCpuAssumption
     DEF ExitStart, At, fields, CpuInv, OneRunner, Runner, IdleCpu, RunningIsOnCpu
<1>18. ASSUME NEW c \in CPUS, NEW p \in Slots, ExitZombie(c, p) PROVE CpuInv'
  BY <1>18, NprocAssumption, NoCpuAssumption
     DEF ExitZombie, At, On, Woken, Sleepers, TypeOK, CpuInv, OneRunner, Runner,
         IdleCpu, RunningIsOnCpu, Alive, Slots, None
<1>19. ASSUME NEW c \in CPUS, NEW p \in Slots, NEW k \in KillPids,
              NEW q \in Slots, Kill(c, p, k, q)
       PROVE  CpuInv'
  BY <1>19, NprocAssumption, NoCpuAssumption
     DEF Kill, Unblocked, CpuInv, OneRunner, Runner, IdleCpu, RunningIsOnCpu
<1>20. ASSUME NEW c \in CPUS, NEW p \in Slots, SyscallEnter(c, p) PROVE CpuInv'
  BY <1>20
     DEF SyscallEnter, At, On, fields, CpuInv, OneRunner, Runner, IdleCpu,
         RunningIsOnCpu, CtxInv, TypeOK, None, Slots
<1>21. ASSUME NEW c \in CPUS, NEW p \in Slots, SyscallReturn(c, p) PROVE CpuInv'
  BY <1>21
     DEF SyscallReturn, At, On, fields, CpuInv, OneRunner, Runner, IdleCpu,
         RunningIsOnCpu, CtxInv, TypeOK, None, Slots
<1>22. ASSUME NEW c \in CPUS, NEW p \in Slots, Misbehave(c, p) PROVE CpuInv'
  BY <1>22
     DEF Misbehave, At, On, fields, CpuInv, OneRunner, Runner, IdleCpu,
         RunningIsOnCpu, CtxInv, TypeOK, None, Slots
<1>23. CASE UNCHANGED vars
  BY <1>23
     DEF vars, fields, TypeOK, CpuInv, OneRunner, Runner, IdleCpu, RunningIsOnCpu,
         CtxInv, ForkInv, Built, Alive, Building, Slots, None
<1>24. QED
  BY <1>1, <1>2, <1>3, <1>4, <1>5, <1>6, <1>7, <1>8, <1>9, <1>10, <1>11, <1>12, <1>13,
     <1>14, <1>15, <1>16, <1>17, <1>18, <1>19, <1>20, <1>21, <1>22, <1>23
     DEF Next, Scheduler, Process, Switching, Fork, Wait, Exit

LEMMA CtxStep ==
  ASSUME TypeOK, TypeOK', CpuInv, CtxInv, ForkInv, [Next]_vars
  PROVE  CtxInv'
<1>1. ASSUME NEW c \in CPUS, SchedAcquire(c) PROVE CtxInv'
  BY <1>1 DEF SchedAcquire, fields, CtxInv
<1>2. ASSUME NEW c \in CPUS, NEW p \in Slots, SchedDispatch(c, p) PROVE CtxInv'
  BY <1>2 DEF SchedDispatch, NextRunnable, CtxInv, Alive
<1>3. ASSUME NEW c \in CPUS, SchedRelease(c) PROVE CtxInv'
  BY <1>3 DEF SchedRelease, fields, CtxInv
<1>4. ASSUME NEW c \in CPUS, NEW p \in Slots, Resume(c, p) PROVE CtxInv'
  BY <1>4 DEF Resume, On, fields, CtxInv
<1>5. ASSUME NEW c \in CPUS, NEW p \in Slots, ResumeSleep(c, p) PROVE CtxInv'
  BY <1>5 DEF ResumeSleep, On, CtxInv
<1>6. ASSUME NEW c \in CPUS, NEW p \in Slots, Sched(c, p) PROVE CtxInv'
  BY <1>6 DEF Sched, fields, CtxInv
<1>7. ASSUME NEW c \in CPUS, NEW p \in Slots, Yield(c, p) PROVE CtxInv'
  <2>1. ctx[p] = "none" /\ pc[p] # "wait"
    BY <1>7 DEF Yield, Preemptible, On, CpuInv, Runner, Slots, None
  <2>2. QED
    BY <1>7, <2>1 DEF Yield, Preemptible, On, TypeOK, CtxInv, Alive
<1>8. ASSUME NEW c \in CPUS, NEW p \in Slots, NEW q \in Slots, ForkAlloc(c, p, q)
      PROVE  CtxInv'
  BY <1>8 DEF ForkAlloc, At, On, CtxInv, Alive
<1>9. ASSUME NEW c \in CPUS, NEW p \in Slots, ForkStack(c, p) PROVE CtxInv'
  BY <1>9 DEF ForkStack, At, CtxInv, ForkInv, BuilderPc, Built, Building
<1>10. ASSUME NEW c \in CPUS, NEW p \in Slots, ForkFail(c, p) PROVE CtxInv'
  BY <1>10
     DEF ForkFail, At, FailedStack, TypeOK, CtxInv, ForkInv, BuilderPc, Built, Alive,
         Building
<1>11. ASSUME NEW c \in CPUS, NEW p \in Slots, ForkCopy(c, p) PROVE CtxInv'
  BY <1>11 DEF ForkCopy, At, CtxInv
<1>12. ASSUME NEW c \in CPUS, NEW p \in Slots, ForkDone(c, p) PROVE CtxInv'
  BY <1>12 DEF ForkDone, At, CtxInv, ForkInv, BuilderPc, Built, Building
<1>13. ASSUME NEW c \in CPUS, NEW p \in Slots, WaitEnter(c, p) PROVE CtxInv'
  BY <1>13 DEF WaitEnter, At, On, fields, CtxInv
<1>14. ASSUME NEW c \in CPUS, NEW p \in Slots, NEW q \in Slots, WaitReap(c, p, q)
       PROVE  CtxInv'
  BY <1>14 DEF WaitReap, At, TypeOK, CtxInv, Alive
<1>15. ASSUME NEW c \in CPUS, NEW p \in Slots, WaitNone(c, p) PROVE CtxInv'
  BY <1>15 DEF WaitNone, At, fields, CtxInv
<1>16. ASSUME NEW c \in CPUS, NEW p \in Slots, WaitSleep(c, p) PROVE CtxInv'
  BY <1>16 DEF WaitSleep, At, On, TypeOK, CtxInv, Alive
<1>17. ASSUME NEW c \in CPUS, NEW p \in Slots, ExitStart(c, p) PROVE CtxInv'
  BY <1>17 DEF ExitStart, At, On, fields, CtxInv
<1>18. ASSUME NEW c \in CPUS, NEW p \in Slots, ExitZombie(c, p) PROVE CtxInv'
  BY <1>18 DEF ExitZombie, At, On, Woken, Sleepers, TypeOK, CtxInv, Alive
<1>19. ASSUME NEW c \in CPUS, NEW p \in Slots, NEW k \in KillPids,
              NEW q \in Slots, Kill(c, p, k, q)
       PROVE  CtxInv'
  BY <1>19 DEF Kill, At, On, Unblocked, TypeOK, CtxInv, Alive
<1>20. ASSUME NEW c \in CPUS, NEW p \in Slots, SyscallEnter(c, p) PROVE CtxInv'
  BY <1>20 DEF SyscallEnter, At, On, fields, TypeOK, CtxInv, Alive
<1>21. ASSUME NEW c \in CPUS, NEW p \in Slots, SyscallReturn(c, p) PROVE CtxInv'
  BY <1>21 DEF SyscallReturn, At, On, fields, TypeOK, CtxInv, Alive
<1>22. ASSUME NEW c \in CPUS, NEW p \in Slots, Misbehave(c, p) PROVE CtxInv'
  BY <1>22 DEF Misbehave, At, On, fields, TypeOK, CtxInv, Alive
<1>23. CASE UNCHANGED vars
  BY <1>23
     DEF vars, fields, TypeOK, CpuInv, Runner, IdleCpu, CtxInv, ForkInv, BuilderPc,
         Built, Alive, Building, None
<1>24. QED
  BY <1>1, <1>2, <1>3, <1>4, <1>5, <1>6, <1>7, <1>8, <1>9, <1>10, <1>11, <1>12, <1>13,
     <1>14, <1>15, <1>16, <1>17, <1>18, <1>19, <1>20, <1>21, <1>22, <1>23
     DEF Next, Scheduler, Process, Switching, Fork, Wait, Exit

LEMMA ForkStep ==
  ASSUME TypeOK, TypeOK', CpuInv, CtxInv, ForkInv, FamilyInv, [Next]_vars
  PROVE  ForkInv'
<1>1. ASSUME NEW c \in CPUS, SchedAcquire(c) PROVE ForkInv'
  BY <1>1 DEF SchedAcquire, fields, ForkInv, BuilderPc, OneBuilder, Built
<1>2. ASSUME NEW c \in CPUS, NEW p \in Slots, SchedDispatch(c, p) PROVE ForkInv'
  BY <1>2 DEF SchedDispatch, NextRunnable, ForkInv, BuilderPc, OneBuilder, Built
<1>3. ASSUME NEW c \in CPUS, SchedRelease(c) PROVE ForkInv'
  BY <1>3 DEF SchedRelease, fields, ForkInv, BuilderPc, OneBuilder, Built
<1>4. ASSUME NEW c \in CPUS, NEW p \in Slots, Resume(c, p) PROVE ForkInv'
  BY <1>4 DEF Resume, On, fields, ForkInv, BuilderPc, OneBuilder, Built
<1>5. ASSUME NEW c \in CPUS, NEW p \in Slots, ResumeSleep(c, p) PROVE ForkInv'
  BY <1>5 DEF ResumeSleep, ForkInv, BuilderPc, OneBuilder, Built
<1>6. ASSUME NEW c \in CPUS, NEW p \in Slots, Sched(c, p) PROVE ForkInv'
  BY <1>6 DEF Sched, fields, ForkInv, BuilderPc, OneBuilder, Built
<1>7. ASSUME NEW c \in CPUS, NEW p \in Slots, Yield(c, p) PROVE ForkInv'
  BY <1>7 DEF Yield, Preemptible, On, ForkInv, BuilderPc, OneBuilder, Built
<1>8. ASSUME NEW c \in CPUS, NEW p \in Slots, NEW q \in Slots, ForkAlloc(c, p, q)
      PROVE  ForkInv'
  <2>1. np[p] = None /\ q # None /\ p # q /\ \A r \in Slots : np[r] # q
    BY <1>8 DEF ForkAlloc, At, On, ForkInv, BuilderPc, Built, Building, Slots, None
  <2>2. parent[q] = None
    BY <1>8 DEF ForkAlloc, FamilyInv, ParentOk
  <2>3. BuilderPc'
    BY <1>8, <2>1 DEF ForkAlloc, TypeOK, ForkInv, BuilderPc, Building
  <2>4. OneBuilder'
    BY <1>8, <2>1 DEF ForkAlloc, TypeOK, ForkInv, OneBuilder
  <2>5. Built'
    BY <1>8, <2>1, <2>2 DEF ForkAlloc, At, On, TypeOK, ForkInv, Built
  <2>6. QED
    BY <2>3, <2>4, <2>5 DEF ForkInv
<1>9. ASSUME NEW c \in CPUS, NEW p \in Slots, ForkStack(c, p) PROVE ForkInv'
  BY <1>9 DEF ForkStack, At, TypeOK, ForkInv, BuilderPc, OneBuilder, Built, Building
<1>10. ASSUME NEW c \in CPUS, NEW p \in Slots, ForkFail(c, p) PROVE ForkInv'
  BY <1>10
     DEF ForkFail, At, FailedStack, TypeOK, ForkInv, BuilderPc, OneBuilder, Built,
         Building
<1>11. ASSUME NEW c \in CPUS, NEW p \in Slots, ForkCopy(c, p) PROVE ForkInv'
  BY <1>11 DEF ForkCopy, At, TypeOK, ForkInv, BuilderPc, OneBuilder, Built, Building
<1>12. ASSUME NEW c \in CPUS, NEW p \in Slots, ForkDone(c, p) PROVE ForkInv'
  BY <1>12 DEF ForkDone, TypeOK, ForkInv, BuilderPc, OneBuilder, Built, Building
<1>13. ASSUME NEW c \in CPUS, NEW p \in Slots, WaitEnter(c, p) PROVE ForkInv'
  BY <1>13 DEF WaitEnter, At, fields, ForkInv, BuilderPc, OneBuilder, Built, Building
<1>14. ASSUME NEW c \in CPUS, NEW p \in Slots, NEW q \in Slots, WaitReap(c, p, q)
       PROVE  ForkInv'
  BY <1>14
     DEF WaitReap, At, Zombies, Children, FreedPid, TypeOK, ForkInv, BuilderPc,
         OneBuilder, Built, FamilyInv, Building
<1>15. ASSUME NEW c \in CPUS, NEW p \in Slots, WaitNone(c, p) PROVE ForkInv'
  BY <1>15 DEF WaitNone, At, fields, ForkInv, BuilderPc, OneBuilder, Built, Building
<1>16. ASSUME NEW c \in CPUS, NEW p \in Slots, WaitSleep(c, p) PROVE ForkInv'
  BY <1>16 DEF WaitSleep, At, On, ForkInv, BuilderPc, OneBuilder, Built, Building
<1>17. ASSUME NEW c \in CPUS, NEW p \in Slots, ExitStart(c, p) PROVE ForkInv'
  BY <1>17 DEF ExitStart, At, fields, ForkInv, BuilderPc, OneBuilder, Built, Building
<1>18. ASSUME NEW c \in CPUS, NEW p \in Slots, ExitZombie(c, p) PROVE ForkInv'
  <2>1. np[p] = None /\ p # None
    BY <1>18 DEF ExitZombie, At, ForkInv, BuilderPc, Building, Slots, None
  <2>2. \A q \in Slots : np[q] # None => q # p /\ np[q] # p /\ parent[np[q]] # p
    BY <1>18, <2>1 DEF ExitZombie, At, On, ForkInv, Built
  <2>3. \A q \in Slots : np[q] # None => state'[q] = state[q]
    BY <1>18, <2>2, InitSlot DEF ExitZombie, Woken, Sleepers, TypeOK, ForkInv, Built
  <2>4. \A q \in Slots : np[q] # None =>
           state'[np[q]] = state[np[q]] /\ parent'[np[q]] = parent[np[q]]
    BY <1>18, <2>2 DEF ExitZombie, Woken, Sleepers, Heir, TypeOK, ForkInv, Built
  <2>5. \A q \in Slots : np[q] # None => ctx'[np[q]] = ctx[np[q]]
    BY <1>18, <2>2 DEF ExitZombie, TypeOK
  <2>6. BuilderPc' /\ OneBuilder'
    BY <1>18 DEF ExitZombie, ForkInv, BuilderPc, OneBuilder
  <2>7. Built'
    BY <1>18, <2>3, <2>4, <2>5 DEF ExitZombie, ForkInv, Built
  <2>8. QED
    BY <2>6, <2>7 DEF ForkInv
<1>19. ASSUME NEW c \in CPUS, NEW p \in Slots, NEW k \in KillPids,
              NEW q \in Slots, Kill(c, p, k, q)
       PROVE  ForkInv'
  BY <1>19 DEF Kill, At, On, Unblocked, TypeOK, ForkInv, BuilderPc, OneBuilder,
     Built, Building
<1>20. ASSUME NEW c \in CPUS, NEW p \in Slots, SyscallEnter(c, p) PROVE ForkInv'
  BY <1>20
     DEF SyscallEnter, At, On, fields, TypeOK, ForkInv, BuilderPc, OneBuilder, Built,
         Building, Slots, None
<1>21. ASSUME NEW c \in CPUS, NEW p \in Slots, SyscallReturn(c, p) PROVE ForkInv'
  BY <1>21
     DEF SyscallReturn, At, On, fields, TypeOK, ForkInv, BuilderPc, OneBuilder, Built,
         Building, Slots, None
<1>22. ASSUME NEW c \in CPUS, NEW p \in Slots, Misbehave(c, p) PROVE ForkInv'
  BY <1>22
     DEF Misbehave, At, On, fields, TypeOK, ForkInv, BuilderPc, OneBuilder, Built,
         Building, Slots, None
<1>23. CASE UNCHANGED vars
  BY <1>23
     DEF vars, fields, TypeOK, CpuInv, OneRunner, Runner, CtxInv, ForkInv, BuilderPc,
         OneBuilder, Built, FamilyInv, ParentOk, HasParent, Alive, Building, Gone,
         None, Init1
<1>24. QED
  BY <1>1, <1>2, <1>3, <1>4, <1>5, <1>6, <1>7, <1>8, <1>9, <1>10, <1>11, <1>12, <1>13,
     <1>14, <1>15, <1>16, <1>17, <1>18, <1>19, <1>20, <1>21, <1>22, <1>23
     DEF Next, Scheduler, Process, Switching, Fork, Wait, Exit

LEMMA FamilyStep ==
  ASSUME TypeOK, TypeOK', CpuInv, CtxInv, ForkInv, FamilyInv, [Next]_vars
  PROVE  FamilyInv'
<1>1. ASSUME NEW c \in CPUS, SchedAcquire(c) PROVE FamilyInv'
  BY <1>1
     DEF SchedAcquire, fields, FamilyInv, ParentOk, HasParent, NoLostWakeup, Children,
         Zombies
<1>2. ASSUME NEW c \in CPUS, NEW p \in Slots, SchedDispatch(c, p) PROVE FamilyInv'
  BY <1>2
     DEF SchedDispatch, NextRunnable, FamilyInv, ParentOk, HasParent, NoLostWakeup,
         Children, Zombies, Alive, Gone
<1>3. ASSUME NEW c \in CPUS, SchedRelease(c) PROVE FamilyInv'
  BY <1>3
     DEF SchedRelease, fields, FamilyInv, ParentOk, HasParent, NoLostWakeup, Children,
         Zombies
<1>4. ASSUME NEW c \in CPUS, NEW p \in Slots, Resume(c, p) PROVE FamilyInv'
  BY <1>4
     DEF Resume, fields, FamilyInv, ParentOk, HasParent, NoLostWakeup, Children,
         Zombies
<1>5. ASSUME NEW c \in CPUS, NEW p \in Slots, ResumeSleep(c, p) PROVE FamilyInv'
  BY <1>5
     DEF ResumeSleep, On, FamilyInv, ParentOk, HasParent, NoLostWakeup, Children,
         Zombies
<1>6. ASSUME NEW c \in CPUS, NEW p \in Slots, Sched(c, p) PROVE FamilyInv'
  BY <1>6
     DEF Sched, fields, FamilyInv, ParentOk, HasParent, NoLostWakeup, Children,
         Zombies
<1>7. ASSUME NEW c \in CPUS, NEW p \in Slots, Yield(c, p) PROVE FamilyInv'
  BY <1>7
     DEF Yield, Preemptible, On, CpuInv, Runner, FamilyInv, ParentOk, HasParent,
         NoLostWakeup, Children, Zombies, Gone
<1>8. ASSUME NEW c \in CPUS, NEW p \in Slots, NEW q \in Slots, ForkAlloc(c, p, q)
      PROVE  FamilyInv'
  BY <1>8
     DEF ForkAlloc, FamilyInv, ParentOk, HasParent, NoLostWakeup, Children, Zombies,
         Alive, Gone
<1>9. ASSUME NEW c \in CPUS, NEW p \in Slots, ForkStack(c, p) PROVE FamilyInv'
  BY <1>9 DEF ForkStack, FamilyInv, ParentOk, HasParent, NoLostWakeup, Children, Zombies
<1>10. ASSUME NEW c \in CPUS, NEW p \in Slots, ForkFail(c, p) PROVE FamilyInv'
  BY <1>10
     DEF ForkFail, At, ForkInv, BuilderPc, Built, FamilyInv, ParentOk, HasParent,
         NoLostWakeup, Children, Zombies, Alive, Building, Gone
<1>11. ASSUME NEW c \in CPUS, NEW p \in Slots, ForkCopy(c, p) PROVE FamilyInv'
  <2>1. np[p] # None /\ state[np[p]] = "EMBRYO" /\ p # None
    BY <1>11 DEF ForkCopy, At, ForkInv, BuilderPc, Built, Building, Slots, None
  <2>2. parent[np[p]] = None /\ np[p] \in Slots
    BY <1>11, <2>1 DEF ForkCopy, At, TypeOK, ForkInv, Built, None
  <2>3. ParentOk'
    BY <1>11, <2>1, <2>2 DEF ForkCopy, At, On, TypeOK, FamilyInv, ParentOk, Gone
  <2>4. HasParent'
    BY <1>11, <2>1 DEF ForkCopy, TypeOK, FamilyInv, HasParent, Alive
  <2>5. NoLostWakeup'
    BY <1>11, <2>1, <2>2
       DEF ForkCopy, At, On, TypeOK, FamilyInv, NoLostWakeup, Children, Zombies,
           None, Slots
  <2>6. QED
    BY <2>3, <2>4, <2>5 DEF FamilyInv
<1>12. ASSUME NEW c \in CPUS, NEW p \in Slots, ForkDone(c, p) PROVE FamilyInv'
  <2>1. np[p] # None /\ state[np[p]] = "EMBRYO" /\ parent[np[p]] = p /\ p # None
    BY <1>12 DEF ForkDone, At, ForkInv, BuilderPc, Built, Building, Slots, None
  <2>2. np[p] \in Slots
    BY <2>1 DEF TypeOK, None
  <2>3. ParentOk'
    BY <1>12, <2>1, <2>2 DEF ForkDone, TypeOK, FamilyInv, ParentOk, Gone
  <2>4. HasParent'
    BY <1>12, <2>1, <2>2 DEF ForkDone, TypeOK, FamilyInv, HasParent, Alive
  <2>5. NoLostWakeup'
    BY <1>12, <2>1, <2>2
       DEF ForkDone, TypeOK, FamilyInv, NoLostWakeup, Children, Zombies
  <2>6. QED
    BY <2>3, <2>4, <2>5 DEF FamilyInv
<1>13. ASSUME NEW c \in CPUS, NEW p \in Slots, WaitEnter(c, p) PROVE FamilyInv'
  BY <1>13
     DEF WaitEnter, fields, FamilyInv, ParentOk, HasParent, NoLostWakeup, Children,
         Zombies
<1>14. ASSUME NEW c \in CPUS, NEW p \in Slots, NEW q \in Slots, WaitReap(c, p, q)
       PROVE  FamilyInv'
  <2>1. /\ p # q /\ q # Init1 /\ state[p] = "RUNNING"
        /\ parent[q] = p /\ state[q] = "ZOMBIE"
    BY <1>14 DEF WaitReap, At, On, Zombies, Children, FamilyInv, ParentOk, Gone
  <2>2. \A r \in Slots : parent[r] # q
    BY <2>1 DEF FamilyInv, ParentOk, Gone, None, Slots
  <2>3. ParentOk'
    BY <1>14, <2>1, <2>2 DEF WaitReap, TypeOK, FamilyInv, ParentOk, Gone, Slots, None
  <2>4. HasParent'
    BY <1>14, <2>1 DEF WaitReap, TypeOK, FamilyInv, HasParent, Alive
  <2>5. NoLostWakeup'
    BY <1>14, <2>1, <2>2
       DEF WaitReap, TypeOK, FamilyInv, NoLostWakeup, Children, Zombies, Slots, None
  <2>6. QED
    BY <2>3, <2>4, <2>5 DEF FamilyInv
<1>15. ASSUME NEW c \in CPUS, NEW p \in Slots, WaitNone(c, p) PROVE FamilyInv'
  BY <1>15
     DEF WaitNone, fields, FamilyInv, ParentOk, HasParent, NoLostWakeup, Children,
         Zombies
<1>16. ASSUME NEW c \in CPUS, NEW p \in Slots, WaitSleep(c, p) PROVE FamilyInv'
  BY <1>16
     DEF WaitSleep, At, On, NothingToWaitFor, Zombies, Children, TypeOK, CpuInv,
         Runner, FamilyInv, ParentOk, HasParent, NoLostWakeup, Gone
<1>17. ASSUME NEW c \in CPUS, NEW p \in Slots, ExitStart(c, p) PROVE FamilyInv'
  BY <1>17
     DEF ExitStart, fields, FamilyInv, ParentOk, HasParent, NoLostWakeup, Children,
         Zombies
<1>18. ASSUME NEW c \in CPUS, NEW p \in Slots, ExitZombie(c, p) PROVE FamilyInv'
  <2>1. p # None /\ p # Init1 /\ state[p] = "RUNNING" /\ state'[p] = "ZOMBIE"
    BY <1>18 DEF ExitZombie, At, On, TypeOK, Slots, None
  <2>2. \A q \in Slots : parent'[q] = (IF parent[q] = p THEN Init1 ELSE parent[q])
    BY <1>18 DEF ExitZombie, Heir
  <2>3. \A q \in Slots \ {p} : state'[q] = state[q]
                               \/ (state[q] = "SLEEPING" /\ state'[q] = "RUNNABLE")
    <3>1. \A q \in Woken(p) : state[q] = "SLEEPING"
      BY DEF Woken, Sleepers
    <3>2. \A q \in Slots \ {p} : state'[q] = IF q \in Woken(p) THEN "RUNNABLE" ELSE state[q]
      BY <1>18 DEF ExitZombie
    <3>3. QED
      BY <3>1, <3>2
  <2>4. Init1 # None
    BY DEF Init1, None
  <2>5. ParentOk'
    <3>1. state'[Init1] \notin Gone
      BY <2>1, <2>3, InitSlot DEF FamilyInv, ParentOk, Gone
    <3>2. ASSUME NEW q \in Slots, parent'[q] # None
          PROVE  state'[q] # "UNUSED" /\ state'[parent'[q]] \notin Gone
      <4>1. parent[q] # None /\ state[q] # "UNUSED" /\ state[parent[q]] \notin Gone
        BY <3>2, <2>2, <2>1 DEF FamilyInv, ParentOk
      <4>2. state'[q] # "UNUSED"
        BY <4>1, <2>1, <2>3
      <4>3. CASE parent[q] = p
        BY <4>2, <4>3, <2>2, <3>1
      <4>4. CASE parent[q] # p
        BY <4>1, <4>2, <4>4, <2>2, <2>3 DEF TypeOK, None, Gone
      <4>5. QED
        BY <4>3, <4>4
    <3>3. parent'[Init1] = None /\ \A q \in Slots : parent'[q] # q
      BY <2>1, <2>2, InitSlot DEF FamilyInv, ParentOk
    <3>4. QED
      BY <3>1, <3>2, <3>3 DEF ParentOk
  <2>6. HasParent'
    BY <2>1, <2>2, <2>3, <2>4 DEF FamilyInv, HasParent, Alive
  <2>7. NoLostWakeup'
    <3>1. SUFFICES ASSUME NEW q \in Slots, state'[q] = "SLEEPING"
                   PROVE  /\ chan'[q] = q /\ ~killed'[q]
                          /\ Children(q)' # {} /\ Zombies(q)' = {}
      BY DEF NoLostWakeup
    <3>2. q # p /\ state[q] = "SLEEPING" /\ q \notin Woken(p)
      BY <1>18, <3>1, <2>1, <2>3 DEF ExitZombie, TypeOK
    <3>3. chan[q] = q /\ ~killed[q] /\ Children(q) # {} /\ Zombies(q) = {}
      BY <3>2 DEF FamilyInv, NoLostWakeup
    <3>4. parent[p] # q
      BY <3>2, <3>3 DEF Woken, Sleepers
    <3>5. q = Init1 => Zombies(p) = {}
      BY <3>2, <3>3 DEF Woken, Sleepers
    <3>6. chan'[q] = q /\ ~killed'[q]
      BY <1>18, <3>3 DEF ExitZombie
    <3>7. Children(q)' # {}
      BY <2>2, <3>2, <3>3 DEF Children
    <3>8. ASSUME NEW r \in Zombies(q)' PROVE FALSE
      <4>1. r \in Slots /\ parent'[r] = q /\ state'[r] = "ZOMBIE"
        BY <3>8 DEF Zombies, Children
      <4>2. r # p
        BY <4>1, <2>1, <2>2, <3>4 DEF FamilyInv, HasParent, ParentOk
      <4>3. state[r] = "ZOMBIE"
        BY <4>1, <4>2, <2>3
      <4>4. QED
        BY <4>1, <4>3, <2>2, <3>3, <3>5 DEF Zombies, Children
    <3>9. QED
      BY <3>6, <3>7, <3>8
  <2>8. QED
    BY <2>5, <2>6, <2>7 DEF FamilyInv
<1>19. ASSUME NEW c \in CPUS, NEW p \in Slots, NEW k \in KillPids,
              NEW q \in Slots, Kill(c, p, k, q)
       PROVE  FamilyInv'
  BY <1>19
     DEF Kill, Unblocked, TypeOK, FamilyInv, ParentOk, HasParent, NoLostWakeup,
         Children, Zombies, Alive, Gone
<1>20. ASSUME NEW c \in CPUS, NEW p \in Slots, SyscallEnter(c, p) PROVE FamilyInv'
  BY <1>20
     DEF SyscallEnter, At, On, fields, TypeOK, FamilyInv, ParentOk, HasParent,
         NoLostWakeup, Children, Zombies
<1>21. ASSUME NEW c \in CPUS, NEW p \in Slots, SyscallReturn(c, p) PROVE FamilyInv'
  BY <1>21
     DEF SyscallReturn, At, On, fields, TypeOK, FamilyInv, ParentOk, HasParent,
         NoLostWakeup, Children, Zombies
<1>22. ASSUME NEW c \in CPUS, NEW p \in Slots, Misbehave(c, p) PROVE FamilyInv'
  BY <1>22
     DEF Misbehave, At, On, fields, TypeOK, FamilyInv, ParentOk, HasParent,
         NoLostWakeup, Children, Zombies
<1>23. CASE UNCHANGED vars
  BY <1>23
     DEF vars, fields, TypeOK, CpuInv, Runner, CtxInv, ForkInv, BuilderPc, OneBuilder,
         Built, FamilyInv, ParentOk, HasParent, NoLostWakeup, Children, Zombies,
         Alive, Building, Gone, None, Init1
<1>24. QED
  BY <1>1, <1>2, <1>3, <1>4, <1>5, <1>6, <1>7, <1>8, <1>9, <1>10, <1>11, <1>12, <1>13,
     <1>14, <1>15, <1>16, <1>17, <1>18, <1>19, <1>20, <1>21, <1>22, <1>23
     DEF Next, Scheduler, Process, Switching, Fork, Wait, Exit

LEMMA PidStep ==
  ASSUME TypeOK, TypeOK', PidInv, [Next]_vars
  PROVE  PidInv'
<1>1. ASSUME NEW c \in CPUS, SchedAcquire(c) PROVE PidInv'
  BY <1>1 DEF SchedAcquire, fields, PidInv, PidsDistinct
<1>2. ASSUME NEW c \in CPUS, NEW p \in Slots, SchedDispatch(c, p) PROVE PidInv'
  BY <1>2 DEF SchedDispatch, PidInv, PidsDistinct
<1>3. ASSUME NEW c \in CPUS, SchedRelease(c) PROVE PidInv'
  BY <1>3 DEF SchedRelease, fields, PidInv, PidsDistinct
<1>4. ASSUME NEW c \in CPUS, NEW p \in Slots, Resume(c, p) PROVE PidInv'
  BY <1>4 DEF Resume, fields, PidInv, PidsDistinct
<1>5. ASSUME NEW c \in CPUS, NEW p \in Slots, ResumeSleep(c, p) PROVE PidInv'
  BY <1>5 DEF ResumeSleep, PidInv, PidsDistinct
<1>6. ASSUME NEW c \in CPUS, NEW p \in Slots, Sched(c, p) PROVE PidInv'
  BY <1>6 DEF Sched, fields, PidInv, PidsDistinct
<1>7. ASSUME NEW c \in CPUS, NEW p \in Slots, Yield(c, p) PROVE PidInv'
  BY <1>7 DEF Yield, PidInv, PidsDistinct
<1>8. ASSUME NEW c \in CPUS, NEW p \in Slots, NEW q \in Slots, ForkAlloc(c, p, q)
      PROVE  PidInv'
  BY <1>8 DEF ForkAlloc, At, On, TakePid, fields, TypeOK, PidInv, PidsDistinct
<1>9. ASSUME NEW c \in CPUS, NEW p \in Slots, ForkStack(c, p) PROVE PidInv'
  BY <1>9 DEF ForkStack, At, On, fields, TypeOK, PidInv, PidsDistinct
<1>10. ASSUME NEW c \in CPUS, NEW p \in Slots, ForkFail(c, p) PROVE PidInv'
  BY <1>10 DEF ForkFail, At, On, FailedStack, fields, TypeOK, PidInv, PidsDistinct
<1>11. ASSUME NEW c \in CPUS, NEW p \in Slots, ForkCopy(c, p) PROVE PidInv'
  BY <1>11 DEF ForkCopy, At, On, fields, TypeOK, PidInv, PidsDistinct
<1>12. ASSUME NEW c \in CPUS, NEW p \in Slots, ForkDone(c, p) PROVE PidInv'
  BY <1>12 DEF ForkDone, At, On, fields, TypeOK, PidInv, PidsDistinct
<1>13. ASSUME NEW c \in CPUS, NEW p \in Slots, WaitEnter(c, p) PROVE PidInv'
  BY <1>13 DEF WaitEnter, At, On, fields, TypeOK, PidInv, PidsDistinct
<1>14. ASSUME NEW c \in CPUS, NEW p \in Slots, NEW q \in Slots, WaitReap(c, p, q)
       PROVE  PidInv'
  BY <1>14
     DEF WaitReap, At, On, Zombies, Children, FreedPid, fields, TypeOK, PidInv,
         PidsDistinct
<1>15. ASSUME NEW c \in CPUS, NEW p \in Slots, WaitNone(c, p) PROVE PidInv'
  BY <1>15 DEF WaitNone, At, On, fields, TypeOK, PidInv, PidsDistinct
<1>16. ASSUME NEW c \in CPUS, NEW p \in Slots, WaitSleep(c, p) PROVE PidInv'
  BY <1>16
     DEF WaitSleep, At, On, NothingToWaitFor, Zombies, Children, fields, TypeOK,
         PidInv, PidsDistinct
<1>17. ASSUME NEW c \in CPUS, NEW p \in Slots, ExitStart(c, p) PROVE PidInv'
  BY <1>17 DEF ExitStart, At, On, fields, TypeOK, PidInv, PidsDistinct
<1>18. ASSUME NEW c \in CPUS, NEW p \in Slots, ExitZombie(c, p) PROVE PidInv'
  BY <1>18
     DEF ExitZombie, At, On, Woken, Sleepers, Heir, Zombies, Children, fields, TypeOK,
         PidInv, PidsDistinct
<1>19. ASSUME NEW c \in CPUS, NEW p \in Slots, NEW k \in KillPids,
              NEW q \in Slots, Kill(c, p, k, q)
       PROVE  PidInv'
  BY <1>19 DEF Kill, At, On, Victim, Unblocked, fields, TypeOK, PidInv, PidsDistinct
<1>20. ASSUME NEW c \in CPUS, NEW p \in Slots, SyscallEnter(c, p) PROVE PidInv'
  BY <1>20 DEF SyscallEnter, At, On, fields, PidInv, PidsDistinct
<1>21. ASSUME NEW c \in CPUS, NEW p \in Slots, SyscallReturn(c, p) PROVE PidInv'
  BY <1>21 DEF SyscallReturn, At, On, fields, PidInv, PidsDistinct
<1>22. ASSUME NEW c \in CPUS, NEW p \in Slots, Misbehave(c, p) PROVE PidInv'
  BY <1>22 DEF Misbehave, At, On, fields, PidInv, PidsDistinct
<1>23. CASE UNCHANGED vars
  BY <1>23 DEF vars, fields, TypeOK, PidInv, PidsDistinct
<1>24. QED
  BY <1>1, <1>2, <1>3, <1>4, <1>5, <1>6, <1>7, <1>8, <1>9, <1>10, <1>11, <1>12, <1>13,
     <1>14, <1>15, <1>16, <1>17, <1>18, <1>19, <1>20, <1>21, <1>22, <1>23
     DEF Next, Scheduler, Process, Switching, Fork, Wait, Exit

-----------------------------------------------------------------------------
LEMMA InitInv == Init => IInv
<1> SUFFICES ASSUME Init PROVE IInv
  OBVIOUS
<1>1. TypeOK
  BY InitSlot, NprocAssumption
     DEF Init, TypeOK, States, Pcs, Contexts, None, Init1
<1>2. CpuInv
  BY NoCpuAssumption DEF Init, CpuInv, OneRunner, Runner, IdleCpu, RunningIsOnCpu
<1>3. CtxInv
  BY DEF Init, CtxInv, Alive
<1>4. ForkInv
  BY DEF Init, ForkInv, BuilderPc, OneBuilder, Built, Building
<1>5. FamilyInv
  BY InitSlot DEF Init, FamilyInv, ParentOk, HasParent, NoLostWakeup, Alive, Gone,
     None, Slots
<1>6. PidInv
  BY DEF Init, PidInv, PidsDistinct
<1>7. QED
  BY <1>1, <1>2, <1>3, <1>4, <1>5, <1>6 DEF IInv

LEMMA StepInv == IInv /\ [Next]_vars => IInv'
<1> SUFFICES ASSUME IInv, [Next]_vars PROVE IInv'
  OBVIOUS
<1>1. TypeOK'
  BY TypeStep DEF IInv
<1>2. CpuInv' /\ CtxInv' /\ ForkInv' /\ FamilyInv' /\ PidInv'
  BY <1>1, CpuStep, CtxStep, ForkStep, FamilyStep, PidStep DEF IInv
<1>3. QED
  BY <1>1, <1>2 DEF IInv

\* The inductive invariant holds in every reachable state.
THEOREM Inductive == Spec => []IInv
BY InitInv, StepInv, PTL DEF Spec

\* The fields of struct proc and of the CPUs keep their types in every step.
THEOREM TypeCorrect == Spec => []TypeOK
<1>1. IInv => TypeOK
  BY DEF IInv
<1>2. QED
  BY <1>1, Inductive, PTL

\* scheduler/sched: a kernel stack is executed on by one CPU at a time, is not
\* freed meanwhile, and is left only under ptable.lock.
THEOREM StackSafety == Spec => []OneStackPerCpu
<1>1. IInv => OneStackPerCpu
  BY DEF IInv, TypeOK, CpuInv, OneRunner, Runner, CtxInv, OneStackPerCpu, None
<1>2. QED
  BY <1>1, Inductive, PTL

\* The switch loses no RUNNING process: some CPU is executing it.
THEOREM RunningSafety == Spec => []RunningIsOnCpu
<1>1. IInv => RunningIsOnCpu
  BY DEF IInv, CpuInv
<1>2. QED
  BY <1>1, Inductive, PTL

\* exit/wait/kill: no process sleeps in wait on an event that has happened.
THEOREM WakeupSafety == Spec => []NoLostWakeup
<1>1. IInv => NoLostWakeup
  BY DEF IInv, FamilyInv
<1>2. QED
  BY <1>1, Inductive, PTL

\* exit leaves no orphan, for any tree of processes.
THEOREM FamilySafety == Spec => []ParentAlive
<1>1. IInv => ParentAlive
  BY
     DEF IInv, TypeOK, States, FamilyInv, ParentOk, HasParent, ParentAlive, Alive,
         Gone, None
<1>2. QED
  BY <1>1, Inductive, PTL

\* allocproc never gives out a pid some slot still carries.
THEOREM PidSafety == Spec => []PidsDistinct
<1>1. IInv => PidsDistinct
  BY DEF IInv, PidInv
<1>2. QED
  BY <1>1, Inductive, PTL

\* fork's error paths and wait give every kernel stack back.
THEOREM StackAccounting == Spec => []NoStackLeak
<1>1. IInv => NoStackLeak
  BY DEF IInv, CtxInv, NoStackLeak
<1>2. QED
  BY <1>1, Inductive, PTL

\* The entries of the process table, the CPUs, the family tree and the pids fit together.
THEOREM TableSafety == Spec => []TableConsistent
BY TypeCorrect, RunningSafety, FamilySafety, PidSafety, PTL DEF TableConsistent
=============================================================================
