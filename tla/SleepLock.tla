------------------------------ MODULE SleepLock ------------------------------
(***************************************************************************)
(* A sleep lock (Part_B/sleeplock.c) with the sleep and wakeup of proc.c   *)
(* it is built from, at the grain of every lock operation: lk->lk is the   *)
(* spin lock that protects the sleep lock, ptable.lock the one that        *)
(* protects the states of processes.  Buffers, inodes and the log wait for *)
(* each other through this pattern.                                        *)
(***************************************************************************)
CONSTANTS
  Procs,
  NoHolder       \* a lock nobody holds

ASSUME NoHolderAssumption == NoHolder \notin Procs

\* idle      not in the sleep lock       a_lk   acquiresleep: acquire(&lk->lk)
\* test      holds lk->lk, while(locked) s_pt   sleep: acquire(&ptable.lock)
\* s_rel     sleep: release(lk)          s_set  sleep: chan and state, sched
\* asleep    SLEEPING or RUNNABLE        held   acquiresleep has returned
\* r_lk      releasesleep: acquire(&lk->lk)
\* r_clear   releasesleep: locked = 0    r_pt   wakeup: acquire(&ptable.lock)
\* r_wake    wakeup1, release ptable.lock       r_rel  release(&lk->lk)
Pcs == {"idle", "a_lk", "test", "s_pt", "s_rel", "s_set", "asleep", "held",
        "r_lk", "r_clear", "r_pt", "r_wake", "r_rel"}

VARIABLES
  locked, pid,     \* fields of struct sleeplock; pid is a process or NoHolder
  lk, ptable,      \* holders of lk->lk and of ptable.lock
  state,           \* p->state of each process
  pc

vars == <<locked, pid, lk, ptable, state, pc>>

Init ==
  /\ locked = FALSE /\ pid = NoHolder
  /\ lk = NoHolder /\ ptable = NoHolder
  /\ state = [p \in Procs |-> "RUNNING"]
  /\ pc = [p \in Procs |-> "idle"]

Goto(p, l) == pc' = [pc EXCEPT ![p] = l]

-----------------------------------------------------------------------------
(* acquiresleep *)

Call(p) == pc[p] = "idle" /\ Goto(p, "a_lk") /\ UNCHANGED <<locked, pid, lk, ptable, state>>

\* also the acquire(lk) at the end of sleep
AcquireLk(p) ==
  /\ pc[p] = "a_lk" /\ lk = NoHolder
  /\ lk' = p /\ Goto(p, "test")
  /\ UNCHANGED <<locked, pid, ptable, state>>

\* (mutant: the test is dropped)
BadBusy == FALSE
Busy == locked

TakeLock(p) ==
  /\ pc[p] = "test" /\ ~Busy
  /\ locked' = TRUE /\ pid' = p
  /\ lk' = NoHolder /\ Goto(p, "held")
  /\ UNCHANGED <<ptable, state>>

MustSleep(p) ==
  /\ pc[p] = "test" /\ Busy
  /\ Goto(p, "s_pt")
  /\ UNCHANGED <<locked, pid, lk, ptable, state>>

-----------------------------------------------------------------------------
(* sleep(lk, &lk->lk) *)

\* (mutant: sleep gives up lk->lk before it has ptable.lock)
BadTakePtable(p) == UNCHANGED ptable
TakePtable(p) == ptable = NoHolder /\ ptable' = p

SleepPtable(p) ==
  /\ pc[p] = "s_pt" /\ TakePtable(p)
  /\ Goto(p, "s_rel")
  /\ UNCHANGED <<locked, pid, lk, state>>

SleepRelease(p) ==
  /\ pc[p] = "s_rel"
  /\ lk' = NoHolder /\ Goto(p, "s_set")
  /\ UNCHANGED <<locked, pid, ptable, state>>

\* the switch away from p ends in the release of ptable.lock (module Proc)
SleepSched(p) ==
  /\ pc[p] = "s_set"
  /\ state' = [state EXCEPT ![p] = "SLEEPING"]
  /\ ptable' = NoHolder /\ Goto(p, "asleep")
  /\ UNCHANGED <<locked, pid, lk>>

\* kill: a sleeper is made RUNNABLE although the lock is still taken
Kill(p) ==
  /\ state[p] = "SLEEPING" /\ ptable = NoHolder
  /\ state' = [state EXCEPT ![p] = "RUNNABLE"]
  /\ UNCHANGED <<locked, pid, lk, ptable, pc>>

\* scheduled again: release ptable.lock, acquire lk->lk, back to the test
Dispatch(p) ==
  /\ pc[p] = "asleep" /\ state[p] = "RUNNABLE" /\ ptable = NoHolder
  /\ state' = [state EXCEPT ![p] = "RUNNING"]
  /\ Goto(p, "a_lk")
  /\ UNCHANGED <<locked, pid, lk, ptable>>

-----------------------------------------------------------------------------
(* releasesleep *)

Release(p) == pc[p] = "held" /\ Goto(p, "r_lk") /\ UNCHANGED <<locked, pid, lk, ptable, state>>

ReleaseLk(p) ==
  /\ pc[p] = "r_lk" /\ lk = NoHolder
  /\ lk' = p /\ Goto(p, "r_clear")
  /\ UNCHANGED <<locked, pid, ptable, state>>

\* lk->pid = 0 (mutant: forgotten)
BadNoPid == pid
NoPid == NoHolder

Clear(p) ==
  /\ pc[p] = "r_clear"
  /\ locked' = FALSE /\ pid' = NoPid
  /\ Goto(p, "r_pt")
  /\ UNCHANGED <<lk, ptable, state>>

WakePtable(p) ==
  /\ pc[p] = "r_pt" /\ ptable = NoHolder
  /\ ptable' = p /\ Goto(p, "r_wake")
  /\ UNCHANGED <<locked, pid, lk, state>>

\* wakeup1 (mutant: a wakeup that forgets its sleepers)
BadAfterWakeup == state
AfterWakeup == [q \in Procs |-> IF state[q] = "SLEEPING" THEN "RUNNABLE" ELSE state[q]]

Wake(p) ==
  /\ pc[p] = "r_wake"
  /\ state' = AfterWakeup
  /\ ptable' = NoHolder /\ Goto(p, "r_rel")
  /\ UNCHANGED <<locked, pid, lk>>

ReleaseDone(p) ==
  /\ pc[p] = "r_rel"
  /\ lk' = NoHolder /\ Goto(p, "idle")
  /\ UNCHANGED <<locked, pid, ptable, state>>

-----------------------------------------------------------------------------
\* steps that acquire a spin lock, and steps that do not
Spin(p) == AcquireLk(p) \/ SleepPtable(p) \/ Dispatch(p) \/ ReleaseLk(p) \/ WakePtable(p)

Go(p) == \/ TakeLock(p) \/ MustSleep(p) \/ SleepRelease(p) \/ SleepSched(p)
         \/ Clear(p) \/ Wake(p) \/ ReleaseDone(p)

Next == \E p \in Procs : Call(p) \/ Spin(p) \/ Go(p) \/ Release(p) \/ Kill(p)

Spec == Init /\ [][Next]_vars

(* Fairness: the code between two lock operations executes (weak), a spinning
   acquire gets its lock in the end (strong), a holder of the sleep lock gives
   it up.  Nobody is obliged to call acquiresleep. *)
FairSpec ==
  Spec /\ \A p \in Procs : WF_vars(Go(p)) /\ SF_vars(Spin(p)) /\ WF_vars(Release(p))

-----------------------------------------------------------------------------
(* Properties *)

\* the types, and lk->pid names a holder exactly while the lock is taken
TypeOK ==
  /\ locked <=> pid # NoHolder
  /\ locked \in BOOLEAN /\ pid \in Procs \cup {NoHolder}
  /\ lk \in Procs \cup {NoHolder} /\ ptable \in Procs \cup {NoHolder}
  /\ state \in [Procs -> {"RUNNING", "SLEEPING", "RUNNABLE"}]
  /\ pc \in [Procs -> Pcs]

Holding(p) == pc[p] \in {"held", "r_lk", "r_clear"}

\* One process at a time is between acquiresleep and releasesleep, and lk->pid
\* is the one that is.
MutualExclusion == \A p \in Procs : Holding(p) => locked /\ pid = p

\* sleep/wakeup: once releasesleep is over no process sleeps on a free lock, in
\* whatever order sleep gives up lk->lk and releasesleep takes it.
NoLostWakeup ==
  ~locked /\ lk = NoHolder => \A p \in Procs : pc[p] = "asleep" => state[p] = "RUNNABLE"

\* What acquiresleep and releasesleep promise their callers, and sleep and wakeup theirs.
SleepLockConsistent == TypeOK /\ MutualExclusion /\ NoLostWakeup

\* The sleep lock is a lock: refinement of Mutex.
Lock == INSTANCE Mutex WITH Owners <- Procs, NoOwner <- NoHolder, owner <- pid
ImplementsMutex == Lock!Spec

\* A free lock somebody waits for is taken by somebody.  (By whom is left open:
\* a process that comes later may overtake a sleeper for ever.)
Waiting(p) == pc[p] \notin {"idle", "held", "r_lk", "r_clear", "r_pt", "r_wake", "r_rel"}
FreeLockIsTaken == (~locked /\ \E p \in Procs : Waiting(p)) ~> locked
=============================================================================
