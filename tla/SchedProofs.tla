----------------------------- MODULE SchedProofs -----------------------------
(***************************************************************************)
(* Proofs about who runs and who waits: the sleep lock, and, of the parts  *)
(* of module KernelParts, the schedulers SJF and HBSJF, the one with gcd   *)
(* steps, sleep, and the arguments of system calls, for any sizes.         *)
(*                                                                         *)
(* For each part: what is asked of its constants (...Sizes), its inductive *)
(* invariant (...Inv), a lemma for each action, and the theorem that the   *)
(* property checked in MCKernel holds of every behaviour.                  *)
(***************************************************************************)
EXTENDS KernelParts, SleepLock, FiniteSetTheorems, SequenceTheorems, TLAPS

(* SleepLock, for any processes: it excludes, loses no wakeup and implements Mutex. *)

\* The locations at which a process holds lk->lk, and those with ptable.lock.
HasLk     == {"test", "s_pt", "s_rel", "r_clear", "r_pt", "r_wake", "r_rel"}
HasPtable == {"s_rel", "s_set", "r_wake"}

LkInv     == \A p \in Procs : pc[p] \in HasLk <=> lk = p
PtableInv == \A p \in Procs : pc[p] \in HasPtable <=> ptable = p

\* A process sleeps, or has decided to, only while a wakeup is still to come:
\* from the holder of the sleep lock, or from a releasesleep in progress.
Waking(S) == \E r \in Procs : pc[r] \in S

SleepInv ==
  /\ \A q \in Procs : pc[q] \in {"s_pt", "s_rel"} => locked
  /\ \A q \in Procs : pc[q] = "s_set" => locked \/ Waking({"r_pt"})
  /\ \A q \in Procs : state[q] = "SLEEPING" => locked \/ Waking({"r_pt", "r_wake"})
  /\ \A q \in Procs : pc[q] = "asleep" => state[q] # "RUNNING"

IInv == TypeOK /\ MutualExclusion /\ LkInv /\ PtableInv /\ SleepInv

-----------------------------------------------------------------------------
LEMMA InitInv == Init => IInv
BY NoHolderAssumption
   DEF Init, IInv, TypeOK, MutualExclusion, Holding, LkInv, PtableInv, SleepInv,
       Pcs, HasLk, HasPtable

LEMMA TypeStep ==
  ASSUME TypeOK, MutualExclusion, [Next]_vars
  PROVE  TypeOK'
<1>1. ASSUME NEW p \in Procs, Spin(p) PROVE TypeOK'
  <2>1. CASE AcquireLk(p) \/ ReleaseLk(p)
    BY <2>1 DEF AcquireLk, ReleaseLk, Goto, TypeOK, Pcs
  <2>2. CASE SleepPtable(p) \/ WakePtable(p)
    BY <2>2 DEF SleepPtable, WakePtable, TakePtable, Goto, TypeOK, Pcs
  <2>3. CASE Dispatch(p)
    BY <2>3 DEF Dispatch, Goto, TypeOK, Pcs
  <2>4. QED
    BY <1>1, <2>1, <2>2, <2>3 DEF Spin
<1>2. ASSUME NEW p \in Procs, Go(p) PROVE TypeOK'
  <2>1. CASE TakeLock(p) \/ Clear(p)
    BY <2>1, NoHolderAssumption DEF TakeLock, Clear, NoPid, Goto, TypeOK, Pcs
  <2>2. CASE MustSleep(p) \/ SleepRelease(p) \/ ReleaseDone(p)
    BY <2>2 DEF MustSleep, SleepRelease, ReleaseDone, Goto, TypeOK, Pcs
  <2>3. CASE SleepSched(p)
    BY <2>3 DEF SleepSched, Goto, TypeOK, Pcs
  <2>4. CASE Wake(p)
    BY <2>4 DEF Wake, AfterWakeup, Goto, TypeOK, Pcs
  <2>5. QED
    BY <1>2, <2>1, <2>2, <2>3, <2>4 DEF Go
<1>3. ASSUME NEW p \in Procs, Call(p) \/ Release(p) \/ Kill(p) PROVE TypeOK'
  BY <1>3 DEF Call, Release, Kill, Goto, TypeOK, Pcs
<1>4. CASE UNCHANGED vars
  BY <1>4 DEF vars, TypeOK
<1>5. QED
  BY <1>1, <1>2, <1>3, <1>4 DEF Next

LEMMA MutexStep ==
  ASSUME TypeOK, MutualExclusion, [Next]_vars
  PROVE  MutualExclusion'
<1>1. ASSUME NEW p \in Procs, Spin(p) PROVE MutualExclusion'
  BY <1>1 DEF Spin, AcquireLk, SleepPtable, TakePtable, Dispatch, ReleaseLk,
     WakePtable, Goto, TypeOK, MutualExclusion, Holding
<1>2. ASSUME NEW p \in Procs, Go(p) PROVE MutualExclusion'
  BY <1>2, NoHolderAssumption
     DEF Go, TakeLock, MustSleep, Busy, SleepRelease, SleepSched, Clear, NoPid, Wake,
         ReleaseDone, Goto, TypeOK, MutualExclusion, Holding
<1>3. ASSUME NEW p \in Procs, Call(p) \/ Release(p) \/ Kill(p) PROVE MutualExclusion'
  BY <1>3 DEF Call, Release, Kill, Goto, TypeOK, MutualExclusion, Holding
<1>4. CASE UNCHANGED vars
  BY <1>4 DEF vars, MutualExclusion, Holding
<1>5. QED
  BY <1>1, <1>2, <1>3, <1>4 DEF Next

LEMMA SpinLockStep ==
  ASSUME TypeOK, LkInv, PtableInv, [Next]_vars
  PROVE  LkInv' /\ PtableInv'
<1>1. ASSUME NEW p \in Procs, Spin(p) PROVE LkInv' /\ PtableInv'
  BY <1>1, NoHolderAssumption
     DEF Spin, AcquireLk, SleepPtable, TakePtable, Dispatch, ReleaseLk, WakePtable,
         Goto, TypeOK, LkInv, PtableInv, HasLk, HasPtable
<1>2. ASSUME NEW p \in Procs, Go(p) PROVE LkInv' /\ PtableInv'
  BY <1>2, NoHolderAssumption
     DEF Go, TakeLock, MustSleep, SleepRelease, SleepSched, Clear, Wake, ReleaseDone,
         Goto, TypeOK, LkInv, PtableInv, HasLk, HasPtable
<1>3. ASSUME NEW p \in Procs, Call(p) \/ Release(p) \/ Kill(p)
      PROVE  LkInv' /\ PtableInv'
  BY <1>3 DEF Call, Release, Kill, Goto, TypeOK, LkInv, PtableInv, HasLk, HasPtable
<1>4. CASE UNCHANGED vars
  BY <1>4 DEF vars, LkInv, PtableInv
<1>5. QED
  BY <1>1, <1>2, <1>3, <1>4 DEF Next

\* the heart of the argument: s_pt and s_rel are under lk->lk, s_set is under
\* ptable.lock, so a releasesleep that misses the one waits for the other
LEMMA SleepStep ==
  ASSUME TypeOK, MutualExclusion, LkInv, PtableInv, SleepInv, [Next]_vars
  PROVE  SleepInv'
<1>1. ASSUME NEW p \in Procs, AcquireLk(p) \/ ReleaseLk(p) PROVE SleepInv'
  BY <1>1 DEF AcquireLk, ReleaseLk, Goto, TypeOK, SleepInv, Waking
<1>2. ASSUME NEW p \in Procs, SleepPtable(p) \/ SleepRelease(p) PROVE SleepInv'
  BY <1>2 DEF SleepPtable, TakePtable, SleepRelease, Goto, TypeOK, SleepInv, Waking
<1>3. ASSUME NEW p \in Procs, SleepSched(p) PROVE SleepInv'
  BY <1>3 DEF SleepSched, Goto, TypeOK, SleepInv, Waking
<1>4. ASSUME NEW p \in Procs, Dispatch(p) PROVE SleepInv'
  BY <1>4 DEF Dispatch, Goto, TypeOK, SleepInv, Waking
<1>5. ASSUME NEW p \in Procs, WakePtable(p) PROVE SleepInv'
  <2>1. \A q \in Procs : pc[q] # "s_set"
    BY <1>5, NoHolderAssumption DEF WakePtable, PtableInv, HasPtable
  <2>2. QED
    BY <1>5, <2>1 DEF WakePtable, Goto, TypeOK, SleepInv, Waking
<1>6. ASSUME NEW p \in Procs, TakeLock(p) \/ MustSleep(p) PROVE SleepInv'
  BY <1>6 DEF TakeLock, MustSleep, Busy, Goto, TypeOK, SleepInv, Waking
<1>7. ASSUME NEW p \in Procs, Clear(p) PROVE SleepInv'
  <2>1. \A q \in Procs : pc[q] \notin {"s_pt", "s_rel"}
    BY <1>7 DEF Clear, LkInv, HasLk
  <2>2. Waking({"r_pt"})' /\ Waking({"r_pt", "r_wake"})'
    BY <1>7 DEF Clear, Goto, TypeOK, Waking
  <2>3. QED
    BY <1>7, <2>1, <2>2 DEF Clear, Goto, TypeOK, SleepInv
<1>8. ASSUME NEW p \in Procs, Wake(p) PROVE SleepInv'
  <2>1. \A q \in Procs : pc[q] # "s_set"
    BY <1>8 DEF Wake, PtableInv, HasPtable
  <2>2. \A q \in Procs : state'[q] # "SLEEPING" /\ (state[q] # "RUNNING" => state'[q] # "RUNNING")
    BY <1>8 DEF Wake, AfterWakeup, TypeOK
  <2>3. QED
    BY <1>8, <2>1, <2>2 DEF Wake, Goto, TypeOK, SleepInv, Waking
<1>9. ASSUME NEW p \in Procs, ReleaseDone(p) PROVE SleepInv'
  BY <1>9 DEF ReleaseDone, Goto, TypeOK, SleepInv, Waking
<1>10. ASSUME NEW p \in Procs, Call(p) \/ Release(p) \/ Kill(p) PROVE SleepInv'
  BY <1>10 DEF Call, Release, Kill, Goto, TypeOK, SleepInv, Waking
<1>11. CASE UNCHANGED vars
  BY <1>11 DEF vars, SleepInv, Waking
<1>12. QED
  BY <1>1, <1>2, <1>3, <1>4, <1>5, <1>6, <1>7, <1>8, <1>9, <1>10, <1>11 DEF Next, Spin, Go

\* The inductive invariant holds in every reachable state.
THEOREM Inductive == Spec => []IInv
<1>1. IInv /\ [Next]_vars => IInv'
  BY TypeStep, MutexStep, SpinLockStep, SleepStep DEF IInv
<1>2. QED
  BY InitInv, <1>1, PTL DEF Spec

\* acquiresleep/releasesleep: one holder at a time, and lk->pid names it.
THEOREM Exclusion == Spec => [](TypeOK /\ MutualExclusion)
<1>1. IInv => TypeOK /\ MutualExclusion
  BY DEF IInv
<1>2. QED
  BY <1>1, Inductive, PTL

\* sleep/wakeup: nobody sleeps on a free lock once the releaser is done.
THEOREM NoWakeupLost == Spec => []NoLostWakeup
<1>1. IInv => NoLostWakeup
  <2>1. SUFFICES ASSUME IInv, ~locked, lk = NoHolder, NEW p \in Procs, pc[p] = "asleep"
                 PROVE  state[p] = "RUNNABLE"
    BY DEF NoLostWakeup
  <2>2. ~Waking({"r_pt", "r_wake"})
    BY <2>1, NoHolderAssumption DEF IInv, LkInv, HasLk, Waking
  <2>3. QED
    BY <2>1, <2>2 DEF IInv, TypeOK, SleepInv
<1>2. QED
  BY <1>1, Inductive, PTL

\* acquiresleep, releasesleep, sleep and wakeup keep their promises.
THEOREM Safety == Spec => []SleepLockConsistent
BY Exclusion, NoWakeupLost, PTL DEF SleepLockConsistent

\* The sleep lock implements the abstract lock, lk->pid being its owner.
THEOREM Refinement == Spec => ImplementsMutex
<1>1. Init => Lock!Init
  BY DEF Init, Lock!Init
<1>2. IInv /\ [Next]_vars => [Lock!Take \/ Lock!Give]_pid
  <2>1. SUFFICES ASSUME IInv, [Next]_vars
                 PROVE  Lock!Take \/ Lock!Give \/ UNCHANGED pid
    OBVIOUS
  <2>2. ASSUME NEW p \in Procs, TakeLock(p) PROVE Lock!Take
    BY <2>1, <2>2 DEF IInv, TypeOK, TakeLock, Busy, Lock!Take
  <2>3. ASSUME NEW p \in Procs, Clear(p) PROVE Lock!Give
    BY <2>1, <2>3 DEF IInv, MutualExclusion, Holding, Clear, NoPid, Lock!Give
  <2>4. ASSUME NEW p \in Procs, ~TakeLock(p), ~Clear(p),
               Call(p) \/ Spin(p) \/ Go(p) \/ Release(p) \/ Kill(p)
        PROVE  UNCHANGED pid
    BY <2>4 DEF Call, Spin, AcquireLk, SleepPtable, Dispatch, ReleaseLk, WakePtable, Go,
       MustSleep, SleepRelease, SleepSched, Wake, ReleaseDone, Release, Kill
  <2>5. QED
    BY <2>1, <2>2, <2>3, <2>4 DEF Next, vars
<1>3. QED
  BY <1>1, <1>2, Inductive, PTL DEF Spec, ImplementsMutex, Lock!Spec

-----------------------------------------------------------------------------
(* BurstSched *)

BurstSizes == BurstSlots \in Nat \ {0} /\ Bursts \subseteq Nat /\ Quantum0 \in Nat

Living == {"RUNNABLE", "RUNNING", "SLEEPING"}

BurstTypes ==
  /\ policy \in {"SJF", "HBSJF"}
  /\ st \in [B!Slots -> B!States] /\ burstParent \in [B!Slots -> 0..BurstSlots]
  /\ burst \in [B!Slots -> {0} \cup Bursts] /\ ran \in [B!Slots -> BOOLEAN]
  /\ bpos \in [BurstCpus -> Nat] /\ onCpu \in [BurstCpus -> 0..BurstSlots]
  /\ burstStage \in [B!Slots -> {"user", "test", "write", "yield", "fork"}]
  /\ want \in [B!Slots -> Nat]
  /\ quantum \in Bursts \cup {Quantum0} /\ least \in Nat /\ burstRaced \in BOOLEAN
  /\ watched \in 0..BurstSlots /\ rival \in 0..BurstSlots /\ passed \in 0..3

\* RUNNING is who is on a CPU, and on one only.
OnCpus ==
  /\ \A c \in BurstCpus : onCpu[c] # 0 => st[onCpu[c]] = "RUNNING"
  /\ \A s \in B!Slots : st[s] = "RUNNING" => \E c \in BurstCpus : onCpu[c] = s
  /\ \A c, d \in BurstCpus : onCpu[c] = onCpu[d] /\ onCpu[c] # 0 => c = d

\* A process in the middle of a call lives; the burst it sets is one, and what it forks is
\* its own.
Calling ==
  \A s \in B!Slots :
    /\ burstStage[s] # "user" => st[s] \in {"RUNNABLE", "RUNNING"}
    /\ burstStage[s] \in {"test", "write", "yield"} => want[s] \in Bursts /\ least <= want[s]
    /\ burstStage[s] = "fork" =>
         /\ want[s] \in B!Slots /\ st[want[s]] = "EMBRYO"
         /\ \A t \in B!Slots \ {s} : burstStage[t] = "fork" => want[t] # want[s]

\* init lives, and who has been born has a parent that does.
Family ==
  /\ st[B!Init1] \in Living
  /\ \A s \in B!Slots : st[s] \in {"UNUSED", "EMBRYO"} => burstParent[s] = 0
  /\ \A s \in B!Slots \ {B!Init1} : st[s] \notin {"UNUSED", "EMBRYO"} =>
       burstParent[s] \in B!Slots /\ st[burstParent[s]] \in Living

\* While no lower quantum has been overwritten, TimeQuanta is the least burst or who has set
\* that is about to write it.
QuantumInv ==
  /\ least <= quantum
  /\ ~burstRaced => \/ quantum = least
                    \/ \E s \in B!Slots : burstStage[s] \in {"test", "write"} /\ want[s] = least

\* HBSJF: a rival that has passed once has run in this round, or the watched process still
\* may; one that has passed twice both.
Rounds ==
  policy = "HBSJF" =>
    /\ watched = 0 => passed = 0 /\ rival = 0
    /\ watched # 0 =>
         /\ st[watched] = "RUNNABLE" /\ rival \in B!Slots \ {watched} /\ passed <= 2
         /\ passed = 1 => ran[rival] \/ ~ran[watched]
         /\ passed = 2 => ran[rival] /\ ~ran[watched]

BurstInv == BurstTypes /\ OnCpus /\ Calling /\ Family /\ QuantumInv /\ Rounds

LEMMA MinIn ==
  ASSUME NEW S \in SUBSET Nat, S # {} PROVE B!Min(S) \in S
BY D!Least DEF B!Min

LEMMA FirstLowestIn ==
  ASSUME BurstSizes, BurstTypes, NEW S \in SUBSET B!Slots, S # {}
  PROVE  B!FirstLowest(S) \in S
<1> DEFINE L == {s \in S : \A t \in S : burst[s] <= burst[t]}
<1>1. PICK m \in {burst[s] : s \in S} : \A n \in {burst[s] : s \in S} : m <= n
  <2>0. ASSUME NEW s \in S PROVE burst[s] \in Nat
    <3>1. s \in B!Slots /\ burst \in [B!Slots -> {0} \cup Bursts] /\ Bursts \subseteq Nat
      BY DEF BurstSizes, BurstTypes
    <3>2. burst[s] \in {0} \cup Bursts
      BY <3>1
    <3>3. burst[s] = 0 \/ burst[s] \in Bursts
      BY <3>2
    <3>4. CASE burst[s] = 0
      BY <3>4
    <3>5. CASE burst[s] \in Bursts
      BY <3>1, <3>5
    <3>6. QED
      BY <3>3, <3>4, <3>5
  <2>1. {burst[s] : s \in S} \in SUBSET Nat
    BY <2>0
  <2>2. {burst[s] : s \in S} # {}
    OBVIOUS
  <2>3. QED
    BY <2>1, <2>2, D!Least
<1>2. L # {}
  BY <1>1
<1>3. L \in SUBSET Nat
  <2>1. L \subseteq B!Slots
    OBVIOUS
  <2>2. B!Slots \subseteq Nat
    BY DEF B!Slots, BurstSizes
  <2>3. QED
    BY <2>1, <2>2
<1>4. B!Min(L) \in L
  BY <1>2, <1>3, MinIn
<1>5. QED
  BY <1>4 DEF B!FirstLowest

LEMMA ChoiceIn ==
  ASSUME BurstSizes, BurstTypes, NEW p \in B!Runnable
  PROVE  /\ B!Choice(p) \in B!Runnable
         /\ policy = "HBSJF" /\ B!Fresh # {} => B!Choice(p) \in B!Fresh
<1>1. B!Runnable \in SUBSET B!Slots /\ B!Fresh \in SUBSET B!Slots /\ B!Fresh \subseteq B!Runnable
  BY DEF B!Runnable, B!Fresh
<1>2. B!FirstLowest(B!Runnable) \in B!Runnable
  BY <1>1, FirstLowestIn
<1>3. B!LowestFrom(p, B!Runnable) \in B!Runnable
  BY <1>2 DEF B!LowestFrom
<1>4. B!Fresh # {} => B!FirstLowest(B!Fresh) \in B!Fresh
  BY <1>1, FirstLowestIn
<1>5. QED
  BY <1>1, <1>3, <1>4 DEF B!Choice

LEMMA BurstInit == ASSUME BurstSizes, B!Init PROVE BurstInv
<1>1. BurstTypes
  <2>1. /\ st \in [B!Slots -> B!States] /\ burstParent \in [B!Slots -> 0..BurstSlots]
        /\ burst \in [B!Slots -> {0} \cup Bursts] /\ policy \in {"SJF", "HBSJF"}
    BY DEF BurstSizes, B!Init, B!States
  <2>2. bpos \in [BurstCpus -> Nat] /\ want \in [B!Slots -> Nat]
    BY DEF B!Init
  <2>22. onCpu \in [BurstCpus -> 0..BurstSlots]
    <3>1. onCpu = [c \in BurstCpus |-> 0]
      BY DEF B!Init
    <3>2. 0 \in 0..BurstSlots
      BY DEF BurstSizes
    <3>3. QED
      BY <3>1, <3>2
  <2>25. ran \in [B!Slots -> BOOLEAN]
    BY DEF B!Init
  <2>3. burstStage \in [B!Slots -> {"user", "test", "write", "yield", "fork"}]
    BY DEF B!Init
  <2>4. /\ quantum \in Bursts \cup {Quantum0} /\ least \in Nat /\ burstRaced \in BOOLEAN
        /\ watched \in 0..BurstSlots /\ rival \in 0..BurstSlots /\ passed \in 0..3
    <3>1. /\ quantum = Quantum0 /\ least = Quantum0 /\ burstRaced = FALSE
          /\ watched = 0 /\ rival = 0 /\ passed = 0
      BY DEF B!Init
    <3>2. 0 \in 0..BurstSlots /\ 0 \in 0..3 /\ Quantum0 \in Nat
      BY DEF BurstSizes
    <3>3. QED
      BY <3>1, <3>2
  <2>5. QED
    BY <2>1, <2>2, <2>22, <2>25, <2>3, <2>4 DEF BurstTypes
<1>2. OnCpus /\ Calling /\ QuantumInv /\ Rounds
  BY DEF BurstSizes, B!Init, OnCpus, Calling, QuantumInv, Rounds
<1>3. Family
  BY DEF BurstSizes, B!Init, Family, B!Slots, B!Init1, Living
<1>4. QED
  BY <1>1, <1>2, <1>3 DEF BurstInv

LEMMA BurstDispatch ==
  ASSUME BurstSizes, BurstInv, UNCHANGED policy, NEW c \in BurstCpus, B!Dispatch(c) PROVE BurstInv'
<1> DEFINE ahead == {s \in B!Runnable : s >= bpos[c]}
<1>1. PICK p : p = B!Choice(B!Min(ahead))
  OBVIOUS
<1>2. B!Min(ahead) \in B!Runnable
  <2>1. ahead \in SUBSET Nat
    BY DEF B!Runnable, B!Slots
  <2>2. ahead # {}
    BY DEF B!Dispatch
  <2>3. B!Min(ahead) \in ahead
    BY <2>1, <2>2, MinIn
  <2>4. QED
    BY <2>3
<1>3. /\ p \in B!Slots /\ st[p] = "RUNNABLE" /\ p # 0 /\ p \in 1..BurstSlots
      /\ policy = "HBSJF" /\ B!Fresh # {} => ~ran[p]
  BY <1>1, <1>2, ChoiceIn DEF BurstInv, B!Runnable, B!Fresh, B!Slots
<1>4. /\ onCpu[c] = 0
      /\ onCpu' = [onCpu EXCEPT ![c] = p] /\ bpos' = [bpos EXCEPT ![c] = p + 1]
      /\ st' = [st EXCEPT ![p] = "RUNNING"]
      /\ ran' = IF policy = "HBSJF" /\ B!Fresh = {} THEN [s \in B!Slots |-> s = p] ELSE [ran EXCEPT ![p] = TRUE]
      /\ IF watched = p THEN watched' = 0 /\ rival' = 0 /\ passed' = 0
         ELSE passed' = (IF rival = p /\ passed < 3 THEN passed + 1 ELSE passed) /\ UNCHANGED <<watched, rival>>
      /\ UNCHANGED <<burstParent, burst, burstStage, want, quantum, least, burstRaced>>
  BY <1>1 DEF B!Dispatch
<1>5. BurstTypes'
  <2>1. ran' \in [B!Slots -> BOOLEAN]
    BY <1>3, <1>4 DEF BurstInv, BurstTypes
  <2>2. watched' \in 0..BurstSlots /\ rival' \in 0..BurstSlots /\ passed' \in 0..3
    BY <1>4 DEF BurstSizes, BurstInv, BurstTypes
  <2>3. p + 1 \in Nat
    BY <1>3
  <2>4. QED
    BY <1>3, <1>4, <2>1, <2>2, <2>3 DEF BurstInv, BurstTypes, B!States
<1>6. OnCpus'
  <2>1. /\ onCpu'[c] = p /\ \A d \in BurstCpus \ {c} : onCpu'[d] = onCpu[d] /\ onCpu[d] # p
        /\ \A s \in B!Slots : st'[s] = IF s = p THEN "RUNNING" ELSE st[s]
    BY <1>3, <1>4 DEF BurstInv, BurstTypes, OnCpus
  <2>2. \A d \in BurstCpus : onCpu'[d] # 0 => st'[onCpu'[d]] = "RUNNING"
    <3>1. \A d \in BurstCpus : onCpu[d] # 0 => onCpu[d] \in B!Slots
      BY DEF BurstInv, BurstTypes, B!Slots, BurstSizes
    <3>2. ASSUME NEW d \in BurstCpus \ {c}, onCpu'[d] # 0 PROVE st'[onCpu'[d]] = "RUNNING"
      <4>1. onCpu[d] \in B!Slots /\ onCpu'[d] = onCpu[d] /\ st[onCpu[d]] = "RUNNING" /\ onCpu[d] # p
        BY <2>1, <3>1, <3>2 DEF BurstInv, OnCpus
      <4>2. QED
        BY <2>1, <4>1
    <3>3. QED
      BY <1>3, <2>1, <3>2
  <2>3. \A s \in B!Slots : st'[s] = "RUNNING" => \E d \in BurstCpus : onCpu'[d] = s
    <3>1. ASSUME NEW s \in B!Slots, s # p, st[s] = "RUNNING" PROVE \E d \in BurstCpus : onCpu'[d] = s
      <4>1. PICK d \in BurstCpus : onCpu[d] = s
        BY <3>1 DEF BurstInv, OnCpus
      <4>2. d # c
        BY <1>4, <3>1, <4>1 DEF B!Slots
      <4>3. QED
        BY <2>1, <4>1, <4>2
    <3>2. QED
      BY <2>1, <3>1
  <2>4. \A d, e \in BurstCpus : onCpu'[d] = onCpu'[e] /\ onCpu'[d] # 0 => d = e
    BY <2>1 DEF BurstInv, OnCpus
  <2>5. QED
    BY <2>2, <2>3, <2>4 DEF OnCpus
<1>7. Calling'
  BY <1>3, <1>4 DEF BurstInv, BurstTypes, Calling
<1>8. Family'
  BY <1>3, <1>4 DEF BurstInv, BurstTypes, Family, Living
<1>9. QuantumInv'
  BY <1>4 DEF BurstInv, QuantumInv
<1>10. Rounds'
  <2> SUFFICES ASSUME policy = "HBSJF" PROVE Rounds'
    BY DEF Rounds
  <2>1. CASE watched = p
    BY <1>4, <2>1 DEF Rounds
  <2>2. CASE watched # p /\ watched = 0
    <3>1. watched' = 0 /\ rival = 0 /\ passed = 0
      BY <1>4, <2>2 DEF BurstInv, Rounds
    <3>2. passed' = 0 /\ rival' = 0
      BY <1>3, <1>4, <2>2, <3>1
    <3>3. QED
      BY <3>1, <3>2 DEF Rounds
  <2>3. CASE watched # p /\ watched # 0
    <3>1. /\ watched \in B!Slots /\ st[watched] = "RUNNABLE" /\ st'[watched] = "RUNNABLE"
          /\ rival \in B!Slots \ {watched} /\ passed \in 0..2
          /\ passed = 1 => ran[rival] \/ ~ran[watched]
          /\ passed = 2 => ran[rival] /\ ~ran[watched]
          /\ watched' = watched /\ rival' = rival
      BY <1>3, <1>4, <2>3 DEF BurstInv, BurstTypes, Rounds, B!Slots
    <3>2. B!Fresh = {} => ran[watched]
      BY <3>1 DEF B!Fresh, B!Runnable
    <3>3. CASE rival = p
      <4>1. passed' = passed + 1
        BY <1>4, <2>3, <3>1, <3>3
      <4>2. passed # 2
        BY <1>3, <3>1, <3>2, <3>3
      <4>3. ran'[rival]
        BY <1>3, <1>4, <3>1, <3>3 DEF BurstInv, BurstTypes
      <4>4. CASE passed = 0
        BY <2>3, <3>1, <4>1, <4>3, <4>4 DEF Rounds
      <4>5. CASE passed = 1
        <5>1. ~ran'[watched]
          <6>1. CASE B!Fresh = {}
            BY <1>4, <2>3, <3>1, <6>1
          <6>2. CASE B!Fresh # {}
            BY <1>3, <1>4, <2>3, <3>1, <3>3, <4>5, <6>2 DEF BurstInv, BurstTypes
          <6>3. QED
            BY <6>1, <6>2
        <5>2. QED
          BY <2>3, <3>1, <4>1, <4>3, <4>5, <5>1 DEF Rounds
      <4>6. QED
        BY <3>1, <4>2, <4>4, <4>5
    <3>4. CASE rival # p
      <4>1. passed' = passed
        BY <1>4, <2>3, <3>4
      <4>2. CASE B!Fresh = {}
        <5>1. ~ran'[watched] /\ passed # 2
          BY <1>4, <2>3, <3>1, <3>2, <4>2
        <5>2. QED
          BY <2>3, <3>1, <4>1, <5>1 DEF Rounds
      <4>3. CASE B!Fresh # {}
        <5>1. ran'[watched] = ran[watched] /\ ran'[rival] = ran[rival]
          BY <1>4, <2>3, <3>1, <3>4, <4>3 DEF BurstInv, BurstTypes
        <5>2. QED
          BY <2>3, <3>1, <4>1, <5>1 DEF Rounds
      <4>4. QED
        BY <4>2, <4>3
    <3>5. QED
      BY <3>3, <3>4
  <2>4. QED
    BY <2>1, <2>2, <2>3
<1>11. QED
  BY <1>5, <1>6, <1>7, <1>8, <1>9, <1>10 DEF BurstInv

LEMMA Moves ==
  ASSUME BurstSizes, BurstInv, UNCHANGED policy, NEW c \in BurstCpus, onCpu[c] # 0, NEW to \in {"RUNNABLE", "SLEEPING"},
         st' = [st EXCEPT ![onCpu[c]] = to], onCpu' = [onCpu EXCEPT ![c] = 0],
         UNCHANGED <<burstParent, ran, watched, rival, passed>>
  PROVE  /\ st' \in [B!Slots -> B!States] /\ onCpu' \in [BurstCpus -> 0..BurstSlots]
         /\ OnCpus' /\ Family' /\ Rounds'
<1> DEFINE s == onCpu[c]
<1>1. s \in B!Slots /\ st[s] = "RUNNING" /\ 0 \in 0..BurstSlots
  BY DEF BurstInv, BurstTypes, OnCpus, B!Slots, BurstSizes
<1>2. /\ st'[s] = to /\ \A t \in B!Slots \ {s} : st'[t] = st[t]
      /\ onCpu'[c] = 0 /\ \A d \in BurstCpus \ {c} : onCpu'[d] = onCpu[d]
  BY <1>1 DEF BurstInv, BurstTypes
<1>3. st' \in [B!Slots -> B!States]
  BY <1>1 DEF BurstInv, BurstTypes, B!States
<1>4. onCpu' \in [BurstCpus -> 0..BurstSlots]
  BY <1>1 DEF BurstInv, BurstTypes
<1>5. OnCpus'
  <2>1. ASSUME NEW d \in BurstCpus, onCpu'[d] # 0 PROVE st'[onCpu'[d]] = "RUNNING"
    <3>1. d # c /\ onCpu'[d] = onCpu[d] /\ onCpu[d] # s /\ onCpu[d] \in B!Slots
      BY <1>2, <2>1 DEF BurstInv, BurstTypes, OnCpus, B!Slots, BurstSizes
    <3>2. QED
      BY <1>2, <2>1, <3>1 DEF BurstInv, OnCpus
  <2>2. ASSUME NEW t \in B!Slots, st'[t] = "RUNNING" PROVE \E d \in BurstCpus : onCpu'[d] = t
    <3>1. t # s /\ st[t] = "RUNNING"
      BY <1>2, <2>2
    <3>2. PICK d \in BurstCpus : onCpu[d] = t
      BY <3>1 DEF BurstInv, OnCpus
    <3>3. d # c
      BY <3>1, <3>2
    <3>4. QED
      BY <1>2, <3>2, <3>3
  <2>3. ASSUME NEW d \in BurstCpus, NEW e \in BurstCpus, onCpu'[d] = onCpu'[e], onCpu'[d] # 0 PROVE d = e
    BY <1>2, <2>3 DEF BurstInv, OnCpus
  <2>4. QED
    BY <2>1, <2>2, <2>3 DEF OnCpus
<1>6. Family'
  <2>1. /\ \A t \in B!Slots : (st[t] \in Living => st'[t] \in Living)
        /\ \A t \in B!Slots : (st'[t] \in {"UNUSED", "EMBRYO"} <=> st[t] \in {"UNUSED", "EMBRYO"})
    BY <1>1, <1>2 DEF Living
  <2>2. B!Init1 \in B!Slots
    BY DEF B!Init1, B!Slots, BurstSizes
  <2>3. QED
    BY <2>1, <2>2 DEF BurstInv, Family
<1>7. Rounds'
  BY <1>1, <1>2 DEF BurstInv, Rounds, BurstTypes, B!Slots
<1>8. QED
  BY <1>3, <1>4, <1>5, <1>6, <1>7

LEMMA BurstYields ==
  ASSUME BurstSizes, BurstInv, UNCHANGED policy, NEW c \in BurstCpus, B!Yield(c) \/ B!Tick(c) PROVE BurstInv'
<1> DEFINE s == onCpu[c]
<1>1. /\ s # 0 /\ st' = [st EXCEPT ![s] = "RUNNABLE"] /\ onCpu' = [onCpu EXCEPT ![c] = 0]
      /\ UNCHANGED <<burstParent, burst, ran, bpos, burstStage, want, quantum, least, burstRaced, watched, rival, passed>>
  BY DEF B!Yield, B!Tick, B!Leave
<1>2. /\ st' \in [B!Slots -> B!States] /\ onCpu' \in [BurstCpus -> 0..BurstSlots]
      /\ OnCpus' /\ Family' /\ Rounds'
  BY <1>1, Moves
<1>3. BurstTypes'
  BY <1>1, <1>2 DEF BurstInv, BurstTypes
<1>4. s \in B!Slots /\ st[s] = "RUNNING"
  BY <1>1 DEF BurstInv, BurstTypes, OnCpus, B!Slots, BurstSizes
<1>5. Calling'
  BY <1>1, <1>4 DEF BurstInv, BurstTypes, Calling
<1>6. QuantumInv'
  BY <1>1 DEF BurstInv, QuantumInv
<1>7. QED
  BY <1>2, <1>3, <1>5, <1>6 DEF BurstInv

LEMMA BurstSets ==
  ASSUME BurstSizes, BurstInv, UNCHANGED policy, NEW c \in BurstCpus,
         B!SetBurst(c) \/ B!TestQuantum(c) \/ B!WriteQuantum(c)
  PROVE  BurstInv'
<1> DEFINE s == onCpu[c]
<1>1. /\ s # 0
      /\ UNCHANGED <<st, burstParent, ran, bpos, onCpu, watched, rival, passed>>
  BY DEF B!SetBurst, B!TestQuantum, B!WriteQuantum
<1>2. s \in B!Slots /\ st[s] = "RUNNING"
  BY <1>1 DEF BurstInv, BurstTypes, OnCpus, B!Slots, BurstSizes
<1>3. OnCpus' /\ Family' /\ Rounds'
  BY <1>1 DEF BurstInv, OnCpus, Family, Rounds
<1>4. quantum \in Nat /\ least \in Nat /\ Bursts \subseteq Nat
  BY DEF BurstInv, BurstTypes, BurstSizes
<1>5. CASE B!SetBurst(c)
  <2>1. PICK n \in Bursts :
          /\ burst' = [burst EXCEPT ![s] = n] /\ want' = [want EXCEPT ![s] = n]
          /\ least' = IF n < least THEN n ELSE least
    BY <1>5 DEF B!SetBurst
  <2>2. /\ burstStage[s] = "user" /\ burstStage' = [burstStage EXCEPT ![s] = "test"]
        /\ UNCHANGED <<quantum, burstRaced>> /\ n \in Nat
    BY <1>4, <1>5 DEF B!SetBurst
  <2>3. BurstTypes'
    BY <1>1, <1>2, <1>4, <2>1, <2>2 DEF BurstInv, BurstTypes
  <2>4. /\ burstStage'[s] = "test" /\ want'[s] = n /\ least' <= n /\ least' <= least /\ least' \in Nat
        /\ \A t \in B!Slots \ {s} : burstStage'[t] = burstStage[t] /\ want'[t] = want[t]
    BY <1>2, <1>4, <2>1, <2>2 DEF BurstInv, BurstTypes
  <2>5. Calling'
    <3>1. ASSUME NEW t \in B!Slots \ {s}, burstStage[t] \in {"test", "write", "yield"}
          PROVE  want[t] \in Bursts /\ least' <= want[t]
      <4>1. want[t] \in Bursts /\ least <= want[t]
        BY <3>1 DEF BurstInv, Calling
      <4>2. want[t] \in Nat
        BY <1>4, <4>1
      <4>3. QED
        BY <1>4, <2>4, <4>1, <4>2
    <3>2. QED
      BY <1>1, <1>2, <2>1, <2>4, <3>1 DEF BurstInv, Calling
  <2>6. QuantumInv'
    <3>1. least' <= quantum'
      BY <1>4, <2>2, <2>4 DEF BurstInv, QuantumInv
    <3>2. CASE n < least
      BY <1>2, <2>1, <2>4, <3>1, <3>2 DEF QuantumInv
    <3>3. CASE ~(n < least)
      <4>1. least' = least
        BY <2>1, <3>3
      <4>2. ASSUME NEW t \in B!Slots, burstStage[t] \in {"test", "write"}, want[t] = least
            PROVE  burstStage'[t] \in {"test", "write"} /\ want'[t] = least'
        BY <2>2, <2>4, <4>1, <4>2
      <4>3. QED
        BY <2>2, <3>1, <4>1, <4>2 DEF BurstInv, QuantumInv
    <3>4. QED
      BY <3>2, <3>3
  <2>7. QED
    BY <1>3, <2>3, <2>5, <2>6 DEF BurstInv
<1>6. CASE B!TestQuantum(c)
  <2>1. PICK to : to = IF want[s] < quantum THEN "write" ELSE "yield"
    OBVIOUS
  <2>2. /\ burstStage[s] = "test" /\ burstStage' = [burstStage EXCEPT ![s] = to]
        /\ UNCHANGED <<burst, want, quantum, least, burstRaced>>
        /\ to \in {"write", "yield"}
    BY <1>6, <2>1 DEF B!TestQuantum, B!Smaller
  <2>3. BurstTypes'
    BY <1>1, <1>2, <2>2 DEF BurstInv, BurstTypes
  <2>4. burstStage'[s] = to /\ \A t \in B!Slots \ {s} : burstStage'[t] = burstStage[t]
    BY <1>2, <2>2 DEF BurstInv, BurstTypes
  <2>5. Calling'
    BY <1>1, <1>2, <2>2, <2>4 DEF BurstInv, Calling
  <2>6. QuantumInv'
    <3>1. CASE to = "yield" /\ want[s] = least
      <4>1. want[s] >= quantum
        BY <1>4, <2>1, <3>1
      <4>2. quantum = least
        BY <1>4, <3>1, <4>1 DEF BurstInv, QuantumInv
      <4>3. QED
        BY <2>2, <4>2 DEF BurstInv, QuantumInv
    <3>2. CASE ~(to = "yield" /\ want[s] = least)
      BY <2>2, <2>4, <3>2 DEF BurstInv, QuantumInv
    <3>3. QED
      BY <3>1, <3>2
  <2>7. QED
    BY <1>3, <2>3, <2>5, <2>6 DEF BurstInv
<1>7. CASE B!WriteQuantum(c)
  <2>1. /\ burstStage[s] = "write" /\ burstStage' = [burstStage EXCEPT ![s] = "yield"]
        /\ quantum' = want[s] /\ burstRaced' = (burstRaced \/ quantum < want[s])
        /\ UNCHANGED <<burst, want, least>>
    BY <1>7 DEF B!WriteQuantum
  <2>2. want[s] \in Bursts /\ least <= want[s] /\ want[s] \in Nat
    BY <1>2, <1>4, <2>1 DEF BurstInv, Calling
  <2>3. BurstTypes'
    BY <1>1, <1>2, <2>1, <2>2 DEF BurstInv, BurstTypes
  <2>4. burstStage'[s] = "yield" /\ \A t \in B!Slots \ {s} : burstStage'[t] = burstStage[t]
    BY <1>2, <2>1 DEF BurstInv, BurstTypes
  <2>5. Calling'
    BY <1>1, <1>2, <2>1, <2>4 DEF BurstInv, Calling
  <2>6. QuantumInv'
    <3>1. CASE want[s] = least
      BY <1>4, <2>1, <2>2, <3>1 DEF QuantumInv
    <3>2. CASE burstRaced'
      BY <2>1, <2>2, <3>2 DEF QuantumInv
    <3>3. CASE want[s] # least /\ ~burstRaced'
      <4>0. ~(burstRaced \/ quantum < want[s])
        BY <2>1, <3>3
      <4>1. ~burstRaced /\ want[s] <= quantum
        BY <1>4, <2>2, <4>0
      <4>2. quantum # least
        BY <1>4, <2>2, <3>3, <4>1
      <4>3. PICK t \in B!Slots : burstStage[t] \in {"test", "write"} /\ want[t] = least
        BY <4>1, <4>2 DEF BurstInv, QuantumInv
      <4>4. t # s
        BY <3>3, <4>3
      <4>5. QED
        BY <2>1, <2>2, <2>4, <4>3, <4>4 DEF QuantumInv
    <3>4. QED
      BY <3>1, <3>2, <3>3
  <2>7. QED
    BY <1>3, <2>3, <2>5, <2>6 DEF BurstInv
<1>8. QED
  BY <1>5, <1>6, <1>7

LEMMA BurstYieldStep ==
  ASSUME BurstSizes, BurstInv, UNCHANGED policy, NEW c \in BurstCpus, B!BurstYield(c) PROVE BurstInv'
<1> DEFINE s == onCpu[c]
<1>1. /\ s # 0 /\ st' = [st EXCEPT ![s] = "RUNNABLE"] /\ onCpu' = [onCpu EXCEPT ![c] = 0]
      /\ burstStage[s] = "yield" /\ burstStage' = [burstStage EXCEPT ![s] = "user"]
      /\ want' = [want EXCEPT ![s] = 0]
      /\ UNCHANGED <<burstParent, burst, ran, bpos, quantum, least, burstRaced, watched, rival, passed>>
  BY DEF B!BurstYield, B!Leave
<1>2. /\ st' \in [B!Slots -> B!States] /\ onCpu' \in [BurstCpus -> 0..BurstSlots]
      /\ OnCpus' /\ Family' /\ Rounds'
  BY <1>1, Moves
<1>3. BurstTypes'
  BY <1>1, <1>2 DEF BurstInv, BurstTypes
<1>4. s \in B!Slots /\ st[s] = "RUNNING"
  BY <1>1 DEF BurstInv, BurstTypes, OnCpus, B!Slots, BurstSizes
<1>5. /\ burstStage'[s] = "user" /\ st'[s] = "RUNNABLE"
      /\ \A t \in B!Slots \ {s} : burstStage'[t] = burstStage[t] /\ want'[t] = want[t] /\ st'[t] = st[t]
  BY <1>1, <1>4 DEF BurstInv, BurstTypes
<1>6. Calling'
  BY <1>1, <1>4, <1>5 DEF BurstInv, Calling
<1>7. QuantumInv'
  BY <1>1, <1>5 DEF BurstInv, QuantumInv
<1>8. QED
  BY <1>2, <1>3, <1>6, <1>7 DEF BurstInv

LEMMA BurstAlloc ==
  ASSUME BurstSizes, BurstInv, UNCHANGED policy, NEW c \in BurstCpus, B!AllocProc(c) PROVE BurstInv'
<1> DEFINE s == onCpu[c]
<1> DEFINE free == {x \in B!Slots : st[x] = "UNUSED"}
<1>1. PICK t : t = B!Min(free)
  OBVIOUS
<1>2. /\ s # 0 /\ burstStage[s] = "user" /\ free # {}
      /\ st' = [st EXCEPT ![t] = "EMBRYO"]
      /\ burst' = [burst EXCEPT ![t] = 0] /\ ran' = [ran EXCEPT ![t] = FALSE]
      /\ passed' = (IF rival = t THEN 0 ELSE passed)
      /\ burstStage' = [burstStage EXCEPT ![s] = "fork"] /\ want' = [want EXCEPT ![s] = t]
      /\ UNCHANGED <<burstParent, bpos, onCpu, quantum, least, burstRaced, watched, rival>>
  BY <1>1 DEF B!AllocProc
<1>3. s \in B!Slots /\ st[s] = "RUNNING"
  BY <1>2 DEF BurstInv, BurstTypes, OnCpus, B!Slots, BurstSizes
<1>4. t \in B!Slots /\ st[t] = "UNUSED" /\ t # s /\ t \in Nat
  <2>1. B!Slots \subseteq Nat
    BY DEF B!Slots, BurstSizes
  <2>2. free \in SUBSET Nat
    BY <2>1
  <2>3. t \in free
    BY <1>1, <1>2, <2>2, MinIn
  <2>4. QED
    BY <1>3, <2>1, <2>3
<1>5. /\ st'[t] = "EMBRYO" /\ \A x \in B!Slots \ {t} : st'[x] = st[x]
      /\ ran'[t] = FALSE /\ \A x \in B!Slots \ {t} : ran'[x] = ran[x]
      /\ burstStage'[s] = "fork" /\ want'[s] = t
      /\ \A x \in B!Slots \ {s} : burstStage'[x] = burstStage[x] /\ want'[x] = want[x]
  BY <1>2, <1>3, <1>4 DEF BurstInv, BurstTypes
<1>6. BurstTypes'
  BY <1>2, <1>3, <1>4 DEF BurstInv, BurstTypes, B!States
<1>7. OnCpus'
  <2>1. \A d \in BurstCpus : onCpu[d] # 0 => onCpu[d] \in B!Slots
    BY DEF BurstInv, BurstTypes, B!Slots, BurstSizes
  <2>2. QED
    BY <1>2, <1>4, <1>5, <2>1 DEF BurstInv, OnCpus
<1>8. Calling'
  <2>1. ASSUME NEW x \in B!Slots, burstStage[x] = "fork" PROVE want[x] # t
    BY <1>4, <2>1 DEF BurstInv, Calling
  <2>2. \A x \in B!Slots : burstStage[x] # "user" => x # t
    BY <1>4 DEF BurstInv, Calling
  <2>3. ASSUME NEW x \in B!Slots
        PROVE  /\ burstStage'[x] # "user" => st'[x] \in {"RUNNABLE", "RUNNING"}
               /\ burstStage'[x] \in {"test", "write", "yield"} => want'[x] \in Bursts /\ least' <= want'[x]
               /\ burstStage'[x] = "fork" => want'[x] \in B!Slots /\ st'[want'[x]] = "EMBRYO"
    BY <1>2, <1>3, <1>4, <1>5, <2>1, <2>2 DEF BurstInv, Calling
  <2>4. ASSUME NEW x \in B!Slots, NEW y \in B!Slots \ {x}, burstStage'[x] = "fork", burstStage'[y] = "fork"
        PROVE  want'[y] # want'[x]
    BY <1>5, <2>1, <2>4 DEF BurstInv, Calling
  <2>5. QED
    BY <2>3, <2>4 DEF Calling
<1>9. Family'
  BY <1>2, <1>4, <1>5 DEF BurstInv, Family, Living, B!Slots, B!Init1, BurstSizes
<1>10. QuantumInv'
  BY <1>2, <1>5 DEF BurstInv, QuantumInv
<1>11. Rounds'
  BY <1>2, <1>4, <1>5 DEF BurstInv, BurstTypes, Rounds, B!Slots
<1>12. QED
  BY <1>6, <1>7, <1>8, <1>9, <1>10, <1>11 DEF BurstInv

LEMMA BurstFork ==
  ASSUME BurstSizes, BurstInv, UNCHANGED policy, NEW c \in BurstCpus, B!Fork(c) PROVE BurstInv'
<1> DEFINE s == onCpu[c]
<1>1. PICK t : t = want[s]
  OBVIOUS
<1>2. /\ s # 0 /\ burstStage[s] = "fork"
      /\ \/ st' = [st EXCEPT ![t] = "RUNNABLE"] /\ burstParent' = [burstParent EXCEPT ![t] = s]
         \/ st' = [st EXCEPT ![t] = "UNUSED"] /\ UNCHANGED burstParent
      /\ burstStage' = [burstStage EXCEPT ![s] = "user"] /\ want' = [want EXCEPT ![s] = 0]
      /\ UNCHANGED <<burst, ran, bpos, onCpu, quantum, least, burstRaced, watched, rival, passed>>
  BY <1>1 DEF B!Fork, B!ForkParent
<1>3. s \in B!Slots /\ st[s] = "RUNNING"
  BY <1>2 DEF BurstInv, BurstTypes, OnCpus, B!Slots, BurstSizes
<1>4. t \in B!Slots /\ st[t] = "EMBRYO" /\ t # s
  BY <1>1, <1>2, <1>3 DEF BurstInv, Calling
<1>5. /\ st'[t] \in {"RUNNABLE", "UNUSED"} /\ \A x \in B!Slots \ {t} : st'[x] = st[x]
      /\ st'[t] = "RUNNABLE" => burstParent'[t] = s
      /\ st'[t] = "UNUSED" => burstParent'[t] = burstParent[t]
      /\ \A x \in B!Slots \ {t} : burstParent'[x] = burstParent[x]
      /\ burstStage'[s] = "user"
      /\ \A x \in B!Slots \ {s} : burstStage'[x] = burstStage[x] /\ want'[x] = want[x]
  BY <1>2, <1>3, <1>4 DEF BurstInv, BurstTypes
<1>6. BurstTypes'
  <2>1. s \in 0..BurstSlots
    BY <1>3 DEF B!Slots, BurstSizes
  <2>2. st' \in [B!Slots -> B!States] /\ burstParent' \in [B!Slots -> 0..BurstSlots]
    BY <1>2, <1>4, <2>1 DEF BurstInv, BurstTypes, B!States
  <2>3. QED
    BY <1>2, <2>2 DEF BurstInv, BurstTypes
<1>7. OnCpus'
  <2>1. \A d \in BurstCpus : onCpu[d] # 0 => onCpu[d] \in B!Slots
    BY DEF BurstInv, BurstTypes, B!Slots, BurstSizes
  <2>2. QED
    BY <1>2, <1>4, <1>5, <2>1 DEF BurstInv, OnCpus
<1>8. Calling'
  <2>1. ASSUME NEW x \in B!Slots \ {s}, burstStage[x] = "fork" PROVE want[x] # t
    BY <1>1, <1>2, <1>3, <2>1 DEF BurstInv, Calling
  <2>2. \A x \in B!Slots : burstStage[x] # "user" => x # t
    BY <1>4 DEF BurstInv, Calling
  <2>3. ASSUME NEW x \in B!Slots
        PROVE  /\ burstStage'[x] # "user" => st'[x] \in {"RUNNABLE", "RUNNING"}
               /\ burstStage'[x] \in {"test", "write", "yield"} => want'[x] \in Bursts /\ least' <= want'[x]
               /\ burstStage'[x] = "fork" => want'[x] \in B!Slots /\ st'[want'[x]] = "EMBRYO"
    BY <1>2, <1>3, <1>4, <1>5, <2>1, <2>2 DEF BurstInv, Calling
  <2>4. ASSUME NEW x \in B!Slots, NEW y \in B!Slots \ {x}, burstStage'[x] = "fork", burstStage'[y] = "fork"
        PROVE  want'[y] # want'[x]
    BY <1>5, <2>4 DEF BurstInv, Calling
  <2>5. QED
    BY <2>3, <2>4 DEF Calling
<1>9. Family'
  <2>1. B!Init1 \in B!Slots /\ B!Init1 # t /\ burstParent[t] = 0
    BY <1>4 DEF BurstInv, Family, Living, B!Slots, B!Init1, BurstSizes
  <2>2. ASSUME NEW x \in B!Slots, st'[x] \in {"UNUSED", "EMBRYO"} PROVE burstParent'[x] = 0
    BY <1>4, <1>5, <2>1, <2>2 DEF BurstInv, Family
  <2>3. ASSUME NEW x \in B!Slots \ {B!Init1}, st'[x] \notin {"UNUSED", "EMBRYO"}
        PROVE  burstParent'[x] \in B!Slots /\ st'[burstParent'[x]] \in Living
    <3>1. CASE x = t
      BY <1>3, <1>4, <1>5, <2>3, <3>1 DEF Living
    <3>2. CASE x # t
      <4>1. burstParent[x] \in B!Slots /\ st[burstParent[x]] \in Living
        BY <1>5, <2>3, <3>2 DEF BurstInv, Family
      <4>2. QED
        BY <1>4, <1>5, <3>2, <4>1 DEF Living
    <3>3. QED
      BY <3>1, <3>2
  <2>4. QED
    BY <1>5, <2>1, <2>2, <2>3 DEF BurstInv, Family
<1>10. QuantumInv'
  BY <1>2, <1>5 DEF BurstInv, QuantumInv
<1>11. Rounds'
  BY <1>2, <1>4, <1>5 DEF BurstInv, BurstTypes, Rounds, B!Slots
<1>12. QED
  BY <1>6, <1>7, <1>8, <1>9, <1>10, <1>11 DEF BurstInv

LEMMA BurstExit ==
  ASSUME BurstSizes, BurstInv, UNCHANGED policy, NEW c \in BurstCpus, B!Exit(c) PROVE BurstInv'
<1> DEFINE s == onCpu[c]
<1>1. /\ s \notin {0, B!Init1} /\ burstStage[s] = "user"
      /\ burstParent' = [t \in B!Slots |-> IF burstParent[t] = s THEN B!Init1 ELSE burstParent[t]]
      /\ onCpu' = [onCpu EXCEPT ![c] = 0]
      /\ UNCHANGED <<burst, ran, bpos, burstStage, want, quantum, least, burstRaced, watched, rival, passed>>
  BY DEF B!Exit, B!Passed
<1>2. s \in B!Slots /\ st[s] = "RUNNING" /\ 0 \in 0..BurstSlots /\ B!Init1 \in B!Slots /\ B!Init1 \in 0..BurstSlots
  BY <1>1 DEF BurstInv, BurstTypes, OnCpus, B!Slots, BurstSizes, B!Init1
<1>3. /\ st' \in [B!Slots -> B!States] /\ st'[s] = "ZOMBIE"
      /\ \A t \in B!Slots \ {s} : st'[t] = st[t] \/ (st[t] = "SLEEPING" /\ st'[t] = "RUNNABLE")
  <2>1. PICK woken : st' = [t \in B!Slots |-> IF t = s THEN "ZOMBIE"
                            ELSE IF t \in woken /\ st[t] = "SLEEPING" THEN "RUNNABLE" ELSE st[t]]
    BY DEF B!Exit
  <2>2. QED
    BY <1>2, <2>1 DEF BurstInv, BurstTypes, B!States
<1>4. onCpu'[c] = 0 /\ \A d \in BurstCpus \ {c} : onCpu'[d] = onCpu[d] /\ onCpu[d] # s
  BY <1>1 DEF BurstInv, BurstTypes, OnCpus
<1>5. BurstTypes'
  <2>1. burstParent' \in [B!Slots -> 0..BurstSlots]
    BY <1>1, <1>2 DEF BurstInv, BurstTypes
  <2>2. onCpu' \in [BurstCpus -> 0..BurstSlots]
    BY <1>1, <1>2 DEF BurstInv, BurstTypes
  <2>3. QED
    BY <1>1, <1>3, <2>1, <2>2 DEF BurstInv, BurstTypes
<1>6. OnCpus'
  <2>1. ASSUME NEW d \in BurstCpus, onCpu'[d] # 0 PROVE st'[onCpu'[d]] = "RUNNING"
    <3>1. d # c /\ onCpu'[d] = onCpu[d] /\ onCpu[d] # s /\ onCpu[d] \in B!Slots
      BY <1>4, <2>1 DEF BurstInv, BurstTypes, B!Slots, BurstSizes
    <3>2. st[onCpu[d]] = "RUNNING"
      BY <2>1, <3>1 DEF BurstInv, OnCpus
    <3>3. QED
      BY <1>3, <3>1, <3>2
  <2>2. ASSUME NEW t \in B!Slots, st'[t] = "RUNNING" PROVE \E d \in BurstCpus : onCpu'[d] = t
    <3>1. t # s /\ st[t] = "RUNNING"
      BY <1>3, <2>2
    <3>2. PICK d \in BurstCpus : onCpu[d] = t
      BY <3>1 DEF BurstInv, OnCpus
    <3>3. d # c
      BY <3>1, <3>2
    <3>4. QED
      BY <1>4, <3>2, <3>3
  <2>3. ASSUME NEW d \in BurstCpus, NEW e \in BurstCpus, onCpu'[d] = onCpu'[e], onCpu'[d] # 0 PROVE d = e
    BY <1>4, <2>3 DEF BurstInv, OnCpus
  <2>4. QED
    BY <2>1, <2>2, <2>3 DEF OnCpus
<1>7. Calling'
  <2>1. ASSUME NEW x \in B!Slots, burstStage[x] # "user" PROVE x # s /\ st'[x] \in {"RUNNABLE", "RUNNING"}
    <3>1. x # s /\ st[x] \in {"RUNNABLE", "RUNNING"}
      BY <1>1, <2>1 DEF BurstInv, Calling
    <3>2. QED
      BY <1>3, <3>1
  <2>2. ASSUME NEW x \in B!Slots, st[x] = "EMBRYO" PROVE st'[x] = "EMBRYO"
    BY <1>2, <1>3, <2>2
  <2>3. QED
    BY <1>1, <2>1, <2>2 DEF BurstInv, Calling
<1>8. Family'
  <2>1. st'[B!Init1] \in Living
    BY <1>1, <1>2, <1>3 DEF BurstInv, Family, Living
  <2>2. ASSUME NEW x \in B!Slots, st'[x] \in {"UNUSED", "EMBRYO"} PROVE burstParent'[x] = 0
    BY <1>1, <1>3, <2>2 DEF BurstInv, Family
  <2>3. ASSUME NEW x \in B!Slots \ {B!Init1}, st'[x] \notin {"UNUSED", "EMBRYO"}
        PROVE  burstParent'[x] \in B!Slots /\ st'[burstParent'[x]] \in Living
    <3>1. burstParent[x] \in B!Slots /\ st[burstParent[x]] \in Living
      BY <1>2, <1>3, <2>3 DEF BurstInv, Family
    <3>2. CASE burstParent[x] = s
      BY <1>1, <1>2, <2>1, <3>2
    <3>3. CASE burstParent[x] # s
      <4>1. burstParent'[x] = burstParent[x]
        BY <1>1, <3>3
      <4>2. QED
        BY <1>3, <3>1, <3>3, <4>1 DEF Living
    <3>4. QED
      BY <3>2, <3>3
  <2>4. QED
    BY <2>1, <2>2, <2>3 DEF Family
<1>9. QuantumInv'
  BY <1>1 DEF BurstInv, QuantumInv
<1>10. Rounds'
  BY <1>1, <1>2, <1>3 DEF BurstInv, BurstTypes, Rounds, B!Slots
<1>11. QED
  BY <1>5, <1>6, <1>7, <1>8, <1>9, <1>10 DEF BurstInv

LEMMA BurstWait ==
  ASSUME BurstSizes, BurstInv, UNCHANGED policy, NEW c \in BurstCpus, B!Wait(c) PROVE BurstInv'
<1> DEFINE s == onCpu[c]
<1> DEFINE dead == {t \in B!Kids(s) : st[t] = "ZOMBIE"}
<1>1. /\ s # 0 /\ burstStage[s] = "user"
      /\ UNCHANGED <<burst, ran, bpos, burstStage, want, quantum, least, burstRaced, watched, rival, passed>>
  BY DEF B!Wait
<1>2. s \in B!Slots /\ st[s] = "RUNNING"
  BY <1>1 DEF BurstInv, BurstTypes, OnCpus, B!Slots, BurstSizes
<1>3. QuantumInv'
  BY <1>1 DEF BurstInv, QuantumInv
<1>4. CASE dead = {}
  <2>1. st' = [st EXCEPT ![s] = "SLEEPING"] /\ onCpu' = [onCpu EXCEPT ![c] = 0] /\ UNCHANGED burstParent
    BY <1>4 DEF B!Wait, B!Leave
  <2>2. /\ st' \in [B!Slots -> B!States] /\ onCpu' \in [BurstCpus -> 0..BurstSlots]
        /\ OnCpus' /\ Family' /\ Rounds'
    BY <1>1, <2>1, Moves
  <2>3. BurstTypes'
    BY <1>1, <2>1, <2>2 DEF BurstInv, BurstTypes
  <2>4. Calling'
    BY <1>1, <1>2, <2>1 DEF BurstInv, BurstTypes, Calling
  <2>5. QED
    BY <1>3, <2>2, <2>3, <2>4 DEF BurstInv
<1>5. CASE dead # {}
  <2>1. PICK t : t = B!Min(dead)
    OBVIOUS
  <2>2. /\ st' = [st EXCEPT ![t] = "UNUSED"] /\ burstParent' = [burstParent EXCEPT ![t] = 0]
        /\ UNCHANGED onCpu
    BY <1>5, <2>1 DEF B!Wait
  <2>3. t \in B!Slots /\ st[t] = "ZOMBIE"
    <3>1. B!Slots \subseteq Nat
      BY DEF B!Slots, BurstSizes
    <3>2. dead \subseteq B!Slots
      BY DEF B!Kids
    <3>3. t \in dead
      BY <1>5, <2>1, <3>1, <3>2, MinIn
    <3>4. QED
      BY <3>2, <3>3
  <2>4. /\ st'[t] = "UNUSED" /\ burstParent'[t] = 0
        /\ \A x \in B!Slots \ {t} : st'[x] = st[x] /\ burstParent'[x] = burstParent[x]
    BY <2>2, <2>3 DEF BurstInv, BurstTypes
  <2>5. BurstTypes'
    <3>1. 0 \in 0..BurstSlots
      BY DEF BurstSizes
    <3>2. QED
      BY <1>1, <2>2, <2>3, <3>1 DEF BurstInv, BurstTypes, B!States
  <2>6. OnCpus'
    <3>1. \A d \in BurstCpus : onCpu[d] # 0 => onCpu[d] \in B!Slots
      BY DEF BurstInv, BurstTypes, B!Slots, BurstSizes
    <3>2. QED
      BY <2>2, <2>3, <2>4, <3>1 DEF BurstInv, OnCpus
  <2>7. Calling'
    BY <1>1, <2>3, <2>4 DEF BurstInv, Calling
  <2>8. Family'
    <3>1. B!Init1 \in B!Slots
      BY DEF B!Slots, BurstSizes, B!Init1
    <3>2. B!Init1 # t
      BY <2>3 DEF BurstInv, Family, Living
    <3>3. ASSUME NEW x \in B!Slots \ {B!Init1}, st'[x] \notin {"UNUSED", "EMBRYO"}
          PROVE  burstParent'[x] \in B!Slots /\ st'[burstParent'[x]] \in Living
      <4>1. x # t /\ burstParent[x] \in B!Slots /\ st[burstParent[x]] \in Living
        BY <2>4, <3>3 DEF BurstInv, Family
      <4>2. QED
        BY <2>3, <2>4, <3>3, <4>1 DEF Living
    <3>4. ASSUME NEW x \in B!Slots, st'[x] \in {"UNUSED", "EMBRYO"} PROVE burstParent'[x] = 0
      BY <2>4, <3>4 DEF BurstInv, Family
    <3>5. st'[B!Init1] \in Living
      BY <2>4, <3>1, <3>2 DEF BurstInv, Family
    <3>6. QED
      BY <3>3, <3>4, <3>5 DEF Family
  <2>9. Rounds'
    BY <1>1, <2>3, <2>4 DEF BurstInv, BurstTypes, Rounds, B!Slots
  <2>10. QED
    BY <1>3, <2>5, <2>6, <2>7, <2>8, <2>9 DEF BurstInv
<1>6. QED
  BY <1>4, <1>5

LEMMA BurstOthers ==
  ASSUME BurstSizes, BurstInv, UNCHANGED policy,
         \/ \E c \in BurstCpus : B!Rescan(c)
         \/ \E s \in B!Slots : B!Wakeup(s) \/ B!Watch(s)
  PROVE  BurstInv'
<1>1. ASSUME NEW c \in BurstCpus, B!Rescan(c) PROVE BurstInv'
  BY <1>1 DEF B!Rescan, BurstInv, BurstTypes, OnCpus, Calling, Family, QuantumInv, Rounds
<1>2. ASSUME NEW s \in B!Slots, B!Wakeup(s) PROVE BurstInv'
  <2>1. /\ st[s] = "SLEEPING" /\ st' = [st EXCEPT ![s] = "RUNNABLE"]
        /\ st'[s] = "RUNNABLE" /\ \A x \in B!Slots \ {s} : st'[x] = st[x]
        /\ UNCHANGED <<burstParent, burst, ran, bpos, onCpu, burstStage, want, quantum, least, burstRaced,
                       watched, rival, passed>>
    BY <1>2 DEF B!Wakeup, BurstInv, BurstTypes
  <2>2. BurstTypes'
    BY <2>1 DEF BurstInv, BurstTypes, B!States
  <2>3. OnCpus'
    <3>1. \A d \in BurstCpus : onCpu[d] # 0 => onCpu[d] \in B!Slots
      BY DEF BurstInv, BurstTypes, B!Slots, BurstSizes
    <3>2. QED
      BY <2>1, <3>1 DEF BurstInv, OnCpus
  <2>4. Calling'
    BY <2>1 DEF BurstInv, Calling
  <2>5. Family'
    BY <2>1 DEF BurstInv, Family, Living, B!Slots, BurstSizes, B!Init1
  <2>6. QuantumInv' /\ Rounds'
    BY <2>1 DEF BurstInv, BurstTypes, QuantumInv, Rounds, B!Slots
  <2>7. QED
    BY <2>2, <2>3, <2>4, <2>5, <2>6 DEF BurstInv
<1>3. ASSUME NEW s \in B!Slots, B!Watch(s) PROVE BurstInv'
  <2>1. /\ watched = 0 /\ st[s] = "RUNNABLE" /\ watched' = s /\ rival' \in B!Slots \ {s} /\ s \in 1..BurstSlots
        /\ UNCHANGED <<st, burstParent, burst, ran, bpos, onCpu, burstStage, want, quantum, least, burstRaced,
                       passed>>
    BY <1>3 DEF B!Watch, B!Slots
  <2>2. watched' \in 0..BurstSlots /\ rival' \in 0..BurstSlots /\ s # 0
    BY <2>1 DEF B!Slots, BurstSizes
  <2>3. BurstTypes' /\ OnCpus' /\ Calling' /\ Family' /\ QuantumInv'
    BY <2>1, <2>2 DEF BurstInv, BurstTypes, OnCpus, Calling, Family, QuantumInv
  <2>4. Rounds'
    BY <2>1, <2>2 DEF BurstInv, Rounds
  <2>5. QED
    BY <2>3, <2>4 DEF BurstInv
<1>4. QED
  BY <1>1, <1>2, <1>3

THEOREM Bursting ==
  ASSUME BurstSizes
  PROVE  B!Spec => [](B!TypeOK /\ B!QuantumIsLeast /\ B!ParentForInfo /\ B!OvertakenTwice)
<1>1. B!Init => BurstInv
  BY BurstInit
<1>2. BurstInv /\ [B!Next]_(B!bvars) => BurstInv'
  <2> SUFFICES ASSUME BurstInv, [B!Next]_(B!bvars) PROVE BurstInv'
    OBVIOUS
  <2>1. ASSUME UNCHANGED policy, NEW c \in BurstCpus, B!Dispatch(c) \/ B!Rescan(c) \/ B!Process(c) PROVE BurstInv'
    BY <2>1, BurstDispatch, BurstOthers, BurstYields, BurstSets, BurstYieldStep, BurstAlloc, BurstFork,
       BurstExit, BurstWait DEF B!Process
  <2>2. ASSUME UNCHANGED policy, NEW s \in B!Slots, B!Wakeup(s) \/ B!Watch(s) PROVE BurstInv'
    BY <2>2, BurstOthers
  <2>3. CASE UNCHANGED B!bvars
    BY <2>3 DEF B!bvars, BurstInv, BurstTypes, OnCpus, Calling, Family, QuantumInv, Rounds
  <2>4. QED
    BY <2>1, <2>2, <2>3 DEF B!Next
<1>3. BurstInv => B!TypeOK
  <2> SUFFICES ASSUME BurstInv PROVE B!TypeOK
    OBVIOUS
  <2>1. ASSUME NEW s \in B!Slots
        PROVE  Cardinality({c \in BurstCpus : onCpu[c] = s}) = (IF st[s] = "RUNNING" THEN 1 ELSE 0)
    <3>1. CASE st[s] = "RUNNING"
      <4>1. PICK c \in BurstCpus : onCpu[c] = s
        BY <3>1 DEF BurstInv, OnCpus
      <4>2. s # 0
        BY DEF B!Slots, BurstSizes
      <4>3. {d \in BurstCpus : onCpu[d] = s} = {c}
        BY <4>1, <4>2 DEF BurstInv, OnCpus
      <4>4. Cardinality({c}) = 1
        BY FS_Singleton
      <4>5. QED
        BY <3>1, <4>3, <4>4
    <3>2. CASE st[s] # "RUNNING"
      <4>1. {d \in BurstCpus : onCpu[d] = s} = {}
        BY <3>2 DEF BurstInv, OnCpus, B!Slots, BurstSizes
      <4>2. QED
        BY <3>2, <4>1, FS_EmptySet
    <3>3. QED
      BY <3>1, <3>2
  <2>2. /\ st \in [B!Slots -> B!States] /\ burstParent \in [B!Slots -> 0..BurstSlots]
        /\ burst \in [B!Slots -> {0} \cup Bursts]
        /\ quantum \in Bursts \cup {Quantum0} /\ ran \in [B!Slots -> BOOLEAN]
    BY DEF BurstInv, BurstTypes
  <2>3. \A s \in B!Slots : Cardinality({c \in BurstCpus : onCpu[c] = s}) = (IF st[s] = "RUNNING" THEN 1 ELSE 0)
    BY <2>1
  <2>4. ASSUME NEW S PROVE B!Cardinality(S) = Cardinality(S)
    BY DEF B!Cardinality, Cardinality
  <2>5. QED
    BY <2>2, <2>3, <2>4 DEF B!TypeOK
<1>4. BurstInv => B!QuantumIsLeast
  BY DEF BurstInv, QuantumInv, B!QuantumIsLeast
<1>5. BurstInv => B!ParentForInfo
  <2>1. BurstInv => \A s \in B!Slots : s # 0
    BY DEF B!Slots, BurstSizes
  <2>2. QED
    BY <2>1 DEF BurstInv, Family, Living, B!ParentForInfo
<1>6. BurstInv => B!OvertakenTwice
  BY DEF BurstInv, BurstTypes, Rounds, B!OvertakenTwice
<1>7. QED
  BY <1>1, <1>2, <1>3, <1>4, <1>5, <1>6, PTL DEF B!Spec

\* The rounds of HBSJF, TimeQuanta and the parents getProcInfo follows (those of EMBRYO slots,
\* which fork has not filled in, apart), on any number of CPUs.
THEOREM BurstsSafe ==
  ASSUME BurstSizes
  PROVE  PartsSpec => []BurstsServed
<1>1. PartsInit => B!Init
  BY DEF PartsInit
<1>2. [PartsNext]_<<part, partsvars>> => [B!Next]_(B!bvars)
  BY DEF PartsNext, partsvars, burstvars, B!bvars
<1>3. B!TypeOK /\ B!QuantumIsLeast /\ B!ParentForInfo /\ B!OvertakenTwice => BurstsServed
  BY DEF BurstsServed
<1>4. QED
  BY <1>1, <1>2, <1>3, Bursting, PTL DEF PartsSpec, B!Spec

-----------------------------------------------------------------------------
(* GcdSched                                                                  *)

\* There is a slot, and priorities are bounded and may be 1, with which processes begin.
GcdSizes == GcdSlots \in Nat \ {0} /\ 1 \in Prios /\ \E N \in Nat : Prios \subseteq 0..N

Multiple(n, g) == \E k \in Nat : n = k * g

GcdTypes ==
  /\ gst \in [G!Slots -> {"UNUSED", "EMBRYO", "SLEEPING", "RUNNABLE", "RUNNING", "ZOMBIE"}]
  /\ gparent \in [G!Slots -> 0..GcdSlots] /\ prio \in [G!Slots -> Prios \cup {0}] /\ gpid \in [G!Slots -> Nat]
  /\ nextpid \in Nat /\ gcdPhase \in {"first", "gcd", "pass"}
  /\ start \in Nat /\ start <= G!Max(Prios) /\ procgcd \in Nat
  /\ gpos \in 1..GcdSlots + 1 /\ cur \in 0..GcdSlots
  /\ gstage \in [G!Slots -> {"user", "inherit", "fork"}] /\ baby \in [G!Slots -> 0..GcdSlots]
  /\ slices \in [G!Slots -> Nat] /\ steady \subseteq G!Slots

\* The running process, and initproc, which never exits.
GcdOnCpu ==
  /\ \A s \in G!Slots : gst[s] = "RUNNING" <=> s = cur
  /\ cur # 0 => gcdPhase = "pass" /\ cur < gpos
  /\ gst[1] \in {"RUNNABLE", "RUNNING", "SLEEPING"}

\* No priority is 0, and each fork in progress has a slot to itself.
GcdForks ==
  /\ \A s \in G!Slots : gst[s] # "UNUSED" => prio[s] \in Prios /\ prio[s] >= 1
  /\ \A s \in G!Slots : gstage[s] # "user" => baby[s] \in G!Slots /\ gst[baby[s]] = "EMBRYO"
  /\ \A s, t \in G!Slots : s # t /\ gstage[s] # "user" /\ gstage[t] # "user" => baby[s] # baby[t]

\* Pids.
GcdPids ==
  /\ \A s \in G!Slots : gst[s] # "UNUSED" => gpid[s] >= 1 /\ gpid[s] < nextpid
  /\ \A s, t \in G!Slots : s # t /\ gst[s] # "UNUSED" /\ gst[t] # "UNUSED" => gpid[s] # gpid[t]
  /\ \A s \in G!Slots : gst[s] = "UNUSED" /\ s \notin stillborn => gpid[s] = 0

\* In a pass: what a steady process has run so far depends on the threshold, and on whether
\* the pass has come to its slot.
Due(s) == prio[s] - start + (IF s < gpos THEN procgcd ELSE 0)
GcdRound ==
  /\ gcdPhase # "pass" => gpos = 1
  /\ gcdPhase = "gcd" => procgcd >= 1 /\ \E s \in G!Slots : gst[s] = "RUNNABLE"
  /\ gcdPhase = "first" => \A s \in steady : slices[s] * procgcd = prio[s]
  /\ gcdPhase = "pass" =>
       /\ procgcd >= 1 /\ start >= 1 /\ Multiple(start, procgcd)
       /\ \A s \in steady :
            /\ gst[s] \in {"RUNNABLE", "RUNNING"} /\ Multiple(prio[s], procgcd)
            /\ prio[s] < start => slices[s] = 0
            /\ prio[s] >= start => slices[s] * procgcd = Due(s)

GcdInv == GcdTypes /\ GcdOnCpu /\ GcdForks /\ GcdPids /\ GcdRound

-----------------------------------------------------------------------------

LEMMA Divides ==
  ASSUME NEW n \in Nat, NEW d \in Nat \ {0}, n % d = 0
  PROVE  Multiple(n, d)
<1>1. n = d * (n \div d) + (n % d) /\ n \div d \in Nat
  OBVIOUS
<1>2. n = (n \div d) * d
  BY <1>1
<1>3. QED
  BY <1>1, <1>2 DEF Multiple

\* Two multiples of g that differ are at least g apart.
LEMMA Apart ==
  ASSUME NEW g \in Nat \ {0}, NEW a \in Nat, NEW b \in Nat, Multiple(a, g), Multiple(b, g), a < b
  PROVE  a <= b - g /\ Multiple(b - g, g)
<1>1. PICK j \in Nat : a = j * g
  BY DEF Multiple
<1>2. PICK k \in Nat : b = k * g
  BY DEF Multiple
<1>3. j < k
  <2>1. SUFFICES ASSUME k <= j PROVE FALSE
    OBVIOUS
  <2>2. k * g <= j * g
    BY <2>1
  <2>3. QED
    BY <1>1, <1>2, <2>2
<1>4. (k - 1) * g = b - g /\ k - 1 \in Nat
  BY <1>2, <1>3
<1>5. j * g <= (k - 1) * g
  BY <1>3
<1>6. QED
  BY <1>1, <1>4, <1>5 DEF Multiple

LEMMA GMinIn ==
  ASSUME NEW S \in SUBSET Nat, S # {}
  PROVE  G!Min(S) \in S /\ \A n \in S : G!Min(S) <= n
  BY D!Least DEF G!Min

LEMMA GMaxIn ==
  ASSUME NEW S \in SUBSET Nat, S # {}, NEW N \in Nat, \A n \in S : n <= N
  PROVE  G!Max(S) \in S /\ \A n \in S : n <= G!Max(S)
<1>1. \E m \in S : \A n \in S : n <= m
  BY D!Greatest
<1>2. QED
  BY <1>1 DEF G!Max

\* Priorities have a highest, and so has any set of some of them, or of them and 0.
LEMMA PrioMax ==
  ASSUME GcdSizes
  PROVE  /\ Prios \subseteq Nat /\ G!Max(Prios) \in Nat /\ G!Max(Prios) >= 1 /\ \A n \in Prios : n <= G!Max(Prios)
         /\ \A S \in SUBSET (Prios \cup {0}) :
              S # {} => G!Max(S) \in S /\ \A n \in S : n <= G!Max(S)
<1>1. PICK N \in Nat : Prios \subseteq 0..N
  BY DEF GcdSizes
<1>2. Prios \in SUBSET Nat /\ Prios # {} /\ \A n \in Prios : n <= N
  BY <1>1 DEF GcdSizes
<1>3. G!Max(Prios) \in Prios /\ \A n \in Prios : n <= G!Max(Prios)
  BY <1>2, GMaxIn
<1>4. ASSUME NEW S \in SUBSET (Prios \cup {0}), S # {}
      PROVE  G!Max(S) \in S /\ \A n \in S : n <= G!Max(S)
  <2>1. S \in SUBSET Nat /\ \A n \in S : n <= N
    BY <1>2
  <2>2. QED
    BY <2>1, <1>4, GMaxIn
<1>5. QED
  BY <1>2, <1>3, <1>4 DEF GcdSizes

\* Gcd divides everything it was taken of.
LEMMA GcdDivides ==
  ASSUME NEW S \in SUBSET (Nat \ {0}), S # {}
  PROVE  G!Gcd(S) \in Nat \ {0} /\ \A n \in S : Multiple(n, G!Gcd(S))
<1> DEFINE D1 == {d \in 1..G!Min(S) : \A n \in S : n % d = 0}
<1>1. G!Min(S) \in Nat \ {0}
  <2>1. S \in SUBSET Nat
    OBVIOUS
  <2>2. G!Min(S) \in S
    BY <2>1, GMinIn
  <2>3. QED
    BY <2>2
<1>2. 1 \in D1
  <2>1. \A n \in S : n % 1 = 0
    OBVIOUS
  <2>2. QED
    BY <1>1, <2>1
<1>3. D1 \in SUBSET Nat /\ D1 # {} /\ \A d \in D1 : d <= G!Min(S)
  BY <1>1, <1>2
<1>4. G!Max(D1) \in D1
  <2> HIDE DEF D1
  <2>1. QED
    BY <1>1, <1>3, GMaxIn
<1>5. G!Gcd(S) \in 1..G!Min(S) /\ \A n \in S : n % G!Gcd(S) = 0
  BY <1>4 DEF G!Gcd
<1>6. QED
  BY <1>1, <1>5, Divides

LEMMA GcdInit == ASSUME GcdSizes, G!Init PROVE GcdInv
<1> USE DEF GcdSizes, G!Init, G!Init1, G!Slots
<1>1. GcdTypes
  <2>1. G!Max(Prios) \in Nat
    BY PrioMax
  <2>2. 1 \in 1..GcdSlots + 1 /\ 0 \in 0..GcdSlots /\ 1 \in 1..GcdSlots
    OBVIOUS
  <2>3. QED
    BY <2>1, <2>2 DEF GcdTypes
<1>2. GcdOnCpu
  BY DEF GcdOnCpu
<1>3. GcdForks
  BY DEF GcdForks
<1>4. GcdPids
  BY DEF GcdPids
<1>5. GcdRound
  BY DEF GcdRound
<1>6. QED
  BY <1>1, <1>2, <1>3, <1>4, <1>5 DEF GcdInv

\* What a step keeps when it leaves the scheduler's own variables, and the priorities and
\* slices of steady processes, as they are.
LEMMA RoundSame ==
  ASSUME GcdInv, GcdTypes', UNCHANGED <<gcdPhase, start, procgcd, gpos, slices>>,
         gcdPhase = "pass" => \A s \in steady' : gst'[s] \in {"RUNNABLE", "RUNNING"},
         \A s \in steady' : s \in steady /\ prio'[s] = prio[s],
         gcdPhase = "gcd" => \A s \in G!Slots : gst[s] = "RUNNABLE" => gst'[s] = "RUNNABLE"
  PROVE  GcdRound'
<1>1. CASE gcdPhase = "pass"
  BY <1>1 DEF GcdInv, GcdRound, Due
<1>2. CASE gcdPhase = "gcd"
  BY <1>2 DEF GcdInv, GcdRound
<1>3. CASE gcdPhase = "first"
  BY <1>3 DEF GcdInv, GcdRound
<1>4. QED
  BY <1>1, <1>2, <1>3 DEF GcdInv, GcdTypes

LEMMA GcdFirst ==
  ASSUME GcdSizes, GcdInv, G!First
  PROVE  GcdInv'
<1>0. /\ gcdPhase = "first" /\ G!Runnable # {} /\ procgcd' = prio[G!Min(G!Runnable)] /\ start' = 0 /\ gcdPhase' = "gcd"
      /\ UNCHANGED <<gpid, nextpid, stillborn, gst, gparent, prio, gpos, cur, gstage, baby, slices, steady>>
  BY DEF G!First
<1>1. G!Runnable \in SUBSET Nat /\ G!Runnable \subseteq G!Slots
  BY DEF G!Runnable, G!Slots
<1>2. G!Min(G!Runnable) \in G!Runnable
  BY <1>0, <1>1, GMinIn
<1>3. gst[G!Min(G!Runnable)] = "RUNNABLE" /\ G!Min(G!Runnable) \in G!Slots
  BY <1>2 DEF G!Runnable
<1>4. procgcd' \in Prios /\ procgcd' >= 1 /\ procgcd' \in Nat
  BY <1>0, <1>3, PrioMax DEF GcdInv, GcdForks
<1>5. GcdTypes'
  <2>1. 0 <= G!Max(Prios)
    BY PrioMax
  <2>2. QED
    BY <1>0, <1>4, <2>1 DEF GcdInv, GcdTypes
<1>6. cur = 0
  BY <1>0 DEF GcdInv, GcdOnCpu
<1>7. GcdOnCpu' /\ GcdForks' /\ GcdPids'
  BY <1>0, <1>6 DEF GcdInv, GcdOnCpu, GcdForks, GcdPids
<1>8. GcdRound'
  BY <1>0, <1>3, <1>4 DEF GcdInv, GcdRound
<1>9. QED
  BY <1>5, <1>7, <1>8 DEF GcdInv

LEMMA GcdDivide ==
  ASSUME GcdSizes, GcdInv, G!Divide
  PROVE  GcdInv'
<1> DEFINE P0 == {prio[s] : s \in G!Runnable}
<1>0. /\ gcdPhase = "gcd"
      /\ procgcd' = G!Gcd({procgcd} \cup P0) /\ start' = G!Max({0} \cup P0)
      /\ gcdPhase' = IF G!Runnable = {} THEN "first" ELSE "pass"
      /\ slices' = [s \in G!Slots |-> 0] /\ steady' = G!Runnable
      /\ UNCHANGED <<gpid, nextpid, stillborn, gst, gparent, prio, gpos, cur, gstage, baby>>
  BY DEF G!Divide
<1>1. G!Runnable # {} /\ procgcd \in Nat \ {0} /\ gpos = 1 /\ cur = 0
  BY <1>0 DEF GcdInv, GcdRound, GcdOnCpu, GcdTypes, G!Runnable
<1>2. \A s \in G!Runnable : s \in G!Slots /\ gst[s] = "RUNNABLE" /\ prio[s] \in Prios /\ prio[s] >= 1 /\ prio[s] \in Nat
  BY PrioMax DEF G!Runnable, GcdInv, GcdForks
<1>3. P0 \subseteq Prios /\ P0 \subseteq Nat \ {0} /\ P0 # {}
  BY <1>1, <1>2
<1>4. /\ procgcd' \in Nat \ {0}
      /\ \A s \in G!Runnable : Multiple(prio[s], procgcd')
  <2>1. {procgcd} \cup P0 \in SUBSET (Nat \ {0}) /\ {procgcd} \cup P0 # {}
    BY <1>1, <1>3
  <2>2. /\ G!Gcd({procgcd} \cup P0) \in Nat \ {0}
        /\ \A n \in {procgcd} \cup P0 : Multiple(n, G!Gcd({procgcd} \cup P0))
    BY <2>1, GcdDivides
  <2>3. \A s \in G!Runnable : prio[s] \in {procgcd} \cup P0
    OBVIOUS
  <2>4. QED
    BY <1>0, <2>2, <2>3
<1>5. start' \in P0 /\ \A s \in G!Runnable : prio[s] <= start'
  <2>1. {0} \cup P0 \in SUBSET (Prios \cup {0}) /\ {0} \cup P0 # {}
    BY <1>3
  <2>2. start' \in {0} \cup P0 /\ \A n \in {0} \cup P0 : n <= start'
    BY <1>0, <2>1, PrioMax
  <2>3. \A s \in G!Runnable : prio[s] <= start'
    BY <2>2
  <2>4. start' # 0
    BY <1>1, <1>2, <2>3
  <2>5. QED
    BY <2>2, <2>3, <2>4
<1>6. start' \in Nat /\ start' >= 1 /\ start' <= G!Max(Prios) /\ Multiple(start', procgcd')
  <2>1. PICK s \in G!Runnable : start' = prio[s]
    BY <1>5
  <2>2. QED
    BY <1>2, <1>4, <2>1, PrioMax
<1>7. GcdTypes'
  BY <1>0, <1>1, <1>2, <1>4, <1>6 DEF GcdInv, GcdTypes
<1>8. GcdOnCpu' /\ GcdForks' /\ GcdPids'
  BY <1>0, <1>1 DEF GcdInv, GcdOnCpu, GcdForks, GcdPids
<1>9. GcdRound'
  <2>1. ASSUME NEW s \in steady'
        PROVE  /\ gst'[s] \in {"RUNNABLE", "RUNNING"} /\ Multiple(prio'[s], procgcd')
               /\ prio'[s] < start' => slices'[s] = 0
               /\ prio'[s] >= start' => slices'[s] * procgcd' = Due(s)'
    <3>1. s \in G!Runnable /\ prio'[s] = prio[s] /\ slices'[s] = 0 /\ gst'[s] = "RUNNABLE"
      BY <1>0, <1>2, <2>1
    <3>2. prio[s] \in Nat /\ prio[s] <= start' /\ s \in 1..GcdSlots
      BY <1>2, <1>5, <3>1 DEF G!Slots
    <3>3. ~(s < gpos')
      BY <1>0, <1>1, <3>2 DEF GcdSizes
    <3>4. Due(s)' = prio[s] - start' + 0
      BY <3>1, <3>3 DEF Due
    <3>5. 0 * procgcd' = 0
      BY <1>4, D!Times
    <3>6. prio[s] >= start' => slices'[s] * procgcd' = Due(s)'
      BY <1>6, <3>1, <3>2, <3>4, <3>5
    <3>7. QED
      BY <1>4, <3>1, <3>6
  <2>2. gcdPhase' = "pass"
    BY <1>0, <1>1
  <2>3. QED
    BY <1>4, <1>6, <2>1, <2>2 DEF GcdRound
<1>10. QED
  BY <1>7, <1>8, <1>9 DEF GcdInv

LEMMA GcdDispatch ==
  ASSUME GcdSizes, GcdInv, G!Dispatch
  PROVE  GcdInv'
<1> DEFINE p == G!Min(G!Ahead)
<1>0. /\ gcdPhase = "pass" /\ cur = 0 /\ G!Ahead # {}
      /\ cur' = p /\ gpos' = p + 1 /\ gst' = [gst EXCEPT ![p] = "RUNNING"]
      /\ slices' = [slices EXCEPT ![p] = slices[p] + 1]
      /\ UNCHANGED <<gpid, nextpid, stillborn, gparent, prio, gcdPhase, start, procgcd, gstage, baby, steady>>
  BY DEF G!Dispatch
<1>1. p \in G!Ahead /\ \A s \in G!Ahead : p <= s
  <2>1. G!Ahead \in SUBSET Nat
    BY DEF G!Ahead, G!Runnable, G!Slots
  <2>2. QED
    BY <1>0, <2>1, GMinIn
<1>2. p \in G!Slots /\ gst[p] = "RUNNABLE" /\ p >= gpos /\ prio[p] >= start /\ p \in Nat /\ p # 0 /\ p <= GcdSlots
  BY <1>1 DEF G!Ahead, G!Runnable, G!Slots
<1> HIDE DEF p
<1>3. GcdTypes'
  <2>1. slices' \in [G!Slots -> Nat]
    BY <1>0, <1>2 DEF GcdInv, GcdTypes
  <2>2. gpos' \in 1..GcdSlots + 1 /\ cur' \in 0..GcdSlots
    BY <1>0, <1>2 DEF GcdSizes
  <2>3. QED
    BY <1>0, <1>2, <2>1, <2>2 DEF GcdInv, GcdTypes
<1>4. GcdOnCpu'
  <2>1. \A s \in G!Slots : gst[s] # "RUNNING"
    BY <1>0 DEF GcdInv, GcdOnCpu, G!Slots
  <2>2. \A s \in G!Slots : gst'[s] = (IF s = p THEN "RUNNING" ELSE gst[s])
    BY <1>0, <1>2 DEF GcdInv, GcdTypes
  <2>3. 1 \in G!Slots
    BY DEF GcdSizes, G!Slots
  <2>4. cur' < gpos'
    BY <1>0, <1>2
  <2>5. QED
    BY <1>0, <1>2, <2>1, <2>2, <2>3, <2>4 DEF GcdInv, GcdOnCpu
<1>5. GcdForks' /\ GcdPids'
  <2>1. \A s \in G!Slots : gst'[s] = (IF s = p THEN "RUNNING" ELSE gst[s])
    BY <1>0, <1>2 DEF GcdInv, GcdTypes
  <2>2. \A s \in G!Slots : gst[s] = "EMBRYO" => gst'[s] = "EMBRYO"
    BY <1>2, <2>1
  <2>3. \A s \in G!Slots : gst[s] = "UNUSED" <=> gst'[s] = "UNUSED"
    BY <1>2, <2>1
  <2>4. QED
    BY <1>0, <2>2, <2>3 DEF GcdInv, GcdForks, GcdPids
<1>6. GcdRound'
  <2>1. ASSUME NEW s \in steady'
        PROVE  /\ gst'[s] \in {"RUNNABLE", "RUNNING"} /\ Multiple(prio'[s], procgcd')
               /\ prio'[s] < start' => slices'[s] = 0
               /\ prio'[s] >= start' => slices'[s] * procgcd' = Due(s)'
    <3>1. /\ s \in steady /\ s \in G!Slots /\ gst[s] \in {"RUNNABLE", "RUNNING"} /\ Multiple(prio[s], procgcd)
          /\ prio[s] < start => slices[s] = 0
          /\ prio[s] >= start => slices[s] * procgcd = Due(s)
      BY <1>0 DEF GcdInv, GcdRound, GcdTypes
    <3>2. s \in Nat /\ s # 0 /\ slices[s] \in Nat /\ prio[s] \in Nat /\ start \in Nat /\ procgcd \in Nat /\ gpos \in Nat
      BY <3>1, PrioMax DEF GcdInv, GcdTypes, G!Slots
    <3>3. CASE s = p
      <4>1. slices'[s] = slices[s] + 1 /\ gst'[s] = "RUNNING"
        BY <1>0, <3>1, <3>3 DEF GcdInv, GcdTypes
      <4>2. Due(s) = prio[s] - start + 0 /\ Due(s)' = prio[s] - start + procgcd
        <5>1. ~(s < gpos) /\ s < p + 1
          BY <1>2, <3>2, <3>3
        <5>2. QED
          BY <1>0, <5>1 DEF Due
      <4>3. (slices[s] + 1) * procgcd = slices[s] * procgcd + procgcd /\ slices[s] * procgcd \in Nat
        BY <3>2, D!Times
      <4>4. prio[s] >= start
        BY <1>2, <3>3
      <4>5. slices'[s] * procgcd' = Due(s)'
        BY <1>0, <3>1, <3>2, <4>1, <4>2, <4>3, <4>4
      <4>6. ~(prio[s] < start)
        BY <3>2, <4>4
      <4>7. QED
        BY <1>0, <3>1, <4>1, <4>5, <4>6
    <3>4. CASE s # p
      <4>1. slices'[s] = slices[s] /\ gst'[s] = gst[s]
        BY <1>0, <3>1, <3>4 DEF GcdInv, GcdTypes
      <4>2. prio[s] >= start => (s < gpos' <=> s < gpos)
        <5>1. gst[s] = "RUNNABLE"
          BY <1>0, <3>1, <3>2 DEF GcdInv, GcdOnCpu
        <5>2. prio[s] >= start /\ s >= gpos => s \in G!Ahead
          BY <3>1, <5>1 DEF G!Ahead, G!Runnable
        <5>3. prio[s] >= start /\ s >= gpos => p < s
          BY <1>1, <1>2, <3>2, <3>4, <5>2
        <5>4. QED
          BY <1>0, <1>2, <3>2, <5>3
      <4>3. prio[s] >= start => Due(s)' = Due(s)
        BY <1>0, <4>2 DEF Due
      <4>4. QED
        BY <1>0, <3>1, <4>1, <4>3
    <3>5. QED
      BY <3>3, <3>4
  <2>2. QED
    BY <1>0, <2>1 DEF GcdInv, GcdRound
<1>7. QED
  BY <1>3, <1>4, <1>5, <1>6 DEF GcdInv

\* The end of a pass: what has run so far is due at the next threshold as well, and at the end
\* of the round the threshold is the divisor.
LEMMA GcdNextPass ==
  ASSUME GcdSizes, GcdInv, G!NextPass
  PROVE  GcdInv'
<1>0. /\ gcdPhase = "pass" /\ cur = 0 /\ G!Ahead = {} /\ start' = G!Lower /\ gpos' = 1
      /\ gcdPhase' = IF G!Lower = 0 THEN "first" ELSE "pass"
      /\ UNCHANGED <<gpid, nextpid, stillborn, gst, gparent, prio, procgcd, cur, gstage, baby, slices, steady>>
  BY DEF G!NextPass
<1>1. procgcd \in Nat \ {0} /\ start \in Nat /\ start >= 1 /\ Multiple(start, procgcd)
  BY <1>0 DEF GcdInv, GcdRound, GcdTypes
<1>2. Multiple(0, procgcd)
  BY <1>1, D!Times DEF Multiple
<1>3. start' = start - procgcd /\ start' \in Nat /\ start' < start /\ Multiple(start', procgcd)
  <2>1. 0 <= start - procgcd /\ Multiple(start - procgcd, procgcd)
    BY <1>1, <1>2, Apart
  <2>2. start' = start - procgcd
    BY <1>0, <1>1, <2>1 DEF G!Lower
  <2>3. QED
    BY <1>1, <2>1, <2>2
<1>4. GcdTypes'
  <2>1. start' <= G!Max(Prios)
    BY <1>1, <1>3, PrioMax DEF GcdInv, GcdTypes
  <2>2. gpos' \in 1..GcdSlots + 1
    BY <1>0 DEF GcdSizes
  <2>3. QED
    BY <1>0, <1>3, <2>1, <2>2 DEF GcdInv, GcdTypes
<1>5. GcdOnCpu' /\ GcdForks' /\ GcdPids'
  BY <1>0 DEF GcdInv, GcdOnCpu, GcdForks, GcdPids
<1>6. ASSUME NEW s \in steady
      PROVE  /\ prio[s] \in Nat /\ prio[s] >= 1 /\ gst[s] = "RUNNABLE" /\ Multiple(prio[s], procgcd)
             /\ slices[s] \in Nat
             /\ prio[s] < start' => slices[s] = 0
             /\ prio[s] >= start' => slices[s] * procgcd = prio[s] - start'
  <2>1. /\ s \in G!Slots /\ gst[s] \in {"RUNNABLE", "RUNNING"} /\ Multiple(prio[s], procgcd)
        /\ prio[s] < start => slices[s] = 0
        /\ prio[s] >= start => slices[s] * procgcd = Due(s)
    BY <1>0 DEF GcdInv, GcdRound, GcdTypes
  <2>2. s \in Nat /\ s # 0 /\ slices[s] \in Nat /\ prio[s] \in Nat /\ gpos \in Nat
    BY <2>1, PrioMax DEF GcdInv, GcdTypes, G!Slots
  <2>3. gst[s] = "RUNNABLE"
    BY <1>0, <2>1, <2>2 DEF GcdInv, GcdOnCpu
  <2>4. prio[s] >= 1
    BY <2>1, <2>3 DEF GcdInv, GcdForks
  <2>5. CASE prio[s] >= start
    <3>1. s < gpos
      <4>1. s \notin G!Ahead
        BY <1>0
      <4>2. ~(s >= gpos)
        BY <2>1, <2>3, <2>5, <4>1 DEF G!Ahead, G!Runnable
      <4>3. QED
        BY <2>2, <4>2
    <3>2. slices[s] * procgcd = prio[s] - start + procgcd
      BY <2>1, <2>5, <3>1 DEF Due
    <3>3. slices[s] * procgcd = prio[s] - start' /\ prio[s] >= start' /\ ~(prio[s] < start')
      BY <1>1, <1>3, <2>2, <2>5, <3>2
    <3>4. QED
      BY <2>1, <2>2, <2>3, <2>4, <3>3
  <2>6. CASE prio[s] < start
    <3>1. prio[s] <= start'
      BY <1>1, <1>3, <2>1, <2>2, <2>6, Apart
    <3>2. slices[s] = 0 /\ 0 * procgcd = 0
      BY <2>1, <2>6, <1>1, D!Times
    <3>3. prio[s] >= start' => prio[s] - start' = 0
      BY <1>3, <2>2, <3>1
    <3>4. QED
      BY <2>1, <2>2, <2>3, <2>4, <3>2, <3>3
  <2>7. QED
    BY <1>1, <2>2, <2>5, <2>6
<1>7. CASE G!Lower = 0
  <2>1. ASSUME NEW s \in steady PROVE slices[s] * procgcd = prio[s]
    <3>1. start' = 0 /\ prio[s] >= start' /\ prio[s] - start' = prio[s]
      BY <1>0, <1>6, <1>7
    <3>2. QED
      BY <1>6, <3>1
  <2>2. GcdRound'
    BY <1>0, <1>7, <2>1 DEF GcdRound
  <2>3. QED
    BY <1>4, <1>5, <2>2 DEF GcdInv
<1>8. CASE G!Lower # 0
  <2>1. ASSUME NEW s \in steady
        PROVE  prio[s] >= start' => slices[s] * procgcd = Due(s)'
    <3>1. ~(s < 1)
      BY DEF GcdInv, GcdTypes, G!Slots
    <3>2. Due(s)' = prio[s] - start' + 0
      BY <1>0, <3>1 DEF Due
    <3>3. QED
      BY <1>3, <1>6, <3>2
  <2>2. GcdRound'
    <3>1. start' >= 1
      BY <1>0, <1>3, <1>8
    <3>2. QED
      BY <1>0, <1>1, <1>3, <1>6, <1>8, <2>1, <3>1 DEF GcdRound
  <2>3. QED
    BY <1>4, <1>5, <2>2 DEF GcdInv
<1>9. QED
  BY <1>7, <1>8

\* Running: yield, and wait when no child is a zombie.
LEMMA GcdLeaves ==
  ASSUME GcdSizes, GcdInv, cur # 0, NEW to \in {"RUNNABLE", "SLEEPING"}, G!Leave(to), to = "SLEEPING" => steady' = steady \ {cur},
         to = "RUNNABLE" => steady' = steady,
         UNCHANGED <<gparent, gpid, nextpid, stillborn, prio, gcdPhase, start, procgcd, gpos, gstage, baby, slices>>
  PROVE  GcdInv'
<1>0. gst' = [gst EXCEPT ![cur] = to] /\ cur' = 0
  BY DEF G!Leave
<1>1. cur \in G!Slots /\ gst[cur] = "RUNNING" /\ gcdPhase = "pass"
  BY DEF GcdInv, GcdTypes, GcdOnCpu, G!Slots
<1>2. \A s \in G!Slots : gst'[s] = (IF s = cur THEN to ELSE gst[s])
  BY <1>0, <1>1 DEF GcdInv, GcdTypes
<1>3. GcdTypes'
  <2>1. 0 \in 0..GcdSlots
    BY DEF GcdSizes
  <2>2. QED
    BY <1>0, <2>1 DEF GcdInv, GcdTypes
<1>4. GcdOnCpu'
  <2>1. 1 \in G!Slots /\ \A s \in G!Slots : s # 0
    BY DEF GcdSizes, G!Slots
  <2>2. QED
    BY <1>0, <1>2, <2>1 DEF GcdInv, GcdOnCpu
<1>5. \A s \in G!Slots : /\ gst[s] = "EMBRYO" => gst'[s] = "EMBRYO"
                         /\ gst'[s] = "UNUSED" <=> gst[s] = "UNUSED"
  BY <1>1, <1>2
<1>6. GcdForks' /\ GcdPids'
  BY <1>5 DEF GcdInv, GcdForks, GcdPids
<1>7. GcdRound'
  <2>1. \A s \in steady' : s \in steady /\ gst'[s] \in {"RUNNABLE", "RUNNING"}
    BY <1>1, <1>2 DEF GcdInv, GcdTypes, GcdRound
  <2>2. QED
    BY <1>1, <1>3, <2>1, RoundSame
<1>8. QED
  BY <1>3, <1>4, <1>6, <1>7 DEF GcdInv

LEMMA GcdSetPrio ==
  ASSUME GcdSizes, GcdInv, G!SetPrio
  PROVE  GcdInv'
<1>0. PICK n \in Prios : n >= 1 /\ prio' = [prio EXCEPT ![cur] = n]
  BY DEF G!SetPrio
<1>1. /\ cur # 0 /\ steady' = steady \ {cur}
      /\ UNCHANGED <<gpid, nextpid, stillborn, gst, gparent, gcdPhase, start, procgcd, gpos, cur, gstage, baby, slices>>
  BY DEF G!SetPrio
<1>2. cur \in G!Slots /\ gcdPhase = "pass"
  BY <1>1 DEF GcdInv, GcdTypes, GcdOnCpu, G!Slots
<1>3. \A s \in G!Slots : prio'[s] = (IF s = cur THEN n ELSE prio[s])
  BY <1>0, <1>2 DEF GcdInv, GcdTypes
<1>4. GcdTypes'
  BY <1>0, <1>1 DEF GcdInv, GcdTypes
<1>5. GcdOnCpu' /\ GcdForks' /\ GcdPids'
  BY <1>0, <1>1, <1>3 DEF GcdInv, GcdOnCpu, GcdForks, GcdPids
<1>6. \A s \in steady' : s \in steady /\ prio'[s] = prio[s] /\ gst'[s] \in {"RUNNABLE", "RUNNING"}
  BY <1>1, <1>2, <1>3 DEF GcdInv, GcdTypes, GcdRound
<1>7. GcdRound'
  BY <1>1, <1>2, <1>4, <1>6, RoundSame
<1>8. QED
  BY <1>4, <1>5, <1>7 DEF GcdInv

LEMMA GcdAllocProc ==
  ASSUME GcdSizes, GcdInv, G!AllocProc
  PROVE  GcdInv'
<1> DEFINE free == {t \in G!Slots : gst[t] = "UNUSED"}
           b == G!Min(free)
<1>0. /\ cur # 0 /\ gstage[cur] = "user" /\ free # {}
      /\ gst' = [gst EXCEPT ![b] = "EMBRYO"] /\ prio' = [prio EXCEPT ![b] = 1]
      /\ gpid' = [gpid EXCEPT ![b] = nextpid] /\ nextpid' = nextpid + 1 /\ stillborn' = stillborn \ {b}
      /\ baby' = [baby EXCEPT ![cur] = b] /\ gstage' = [gstage EXCEPT ![cur] = "inherit"]
      /\ UNCHANGED <<gparent, gcdPhase, start, procgcd, gpos, cur, slices, steady>>
  BY DEF G!AllocProc
<1>1. b \in G!Slots /\ gst[b] = "UNUSED"
  <2>1. free \in SUBSET Nat
    BY DEF G!Slots
  <2>2. b \in free
    BY <1>0, <2>1, GMinIn
  <2>3. QED
    BY <2>2
<1> HIDE DEF b
<1>2. cur \in G!Slots /\ gst[cur] = "RUNNING" /\ gcdPhase = "pass" /\ cur # b
  BY <1>0, <1>1 DEF GcdInv, GcdTypes, GcdOnCpu, G!Slots
<1>3. \A s \in G!Slots :
        /\ gst'[s] = (IF s = b THEN "EMBRYO" ELSE gst[s]) /\ prio'[s] = (IF s = b THEN 1 ELSE prio[s])
        /\ gpid'[s] = (IF s = b THEN nextpid ELSE gpid[s])
        /\ baby'[s] = (IF s = cur THEN b ELSE baby[s])
        /\ gstage'[s] = (IF s = cur THEN "inherit" ELSE gstage[s])
  BY <1>0, <1>1, <1>2 DEF GcdInv, GcdTypes
<1>4. GcdTypes'
  <2>1. prio' \in [G!Slots -> Prios \cup {0}]
    BY <1>0 DEF GcdInv, GcdTypes, GcdSizes
  <2>2. gpid' \in [G!Slots -> Nat] /\ nextpid' \in Nat
    <3>1. nextpid \in Nat /\ nextpid' = nextpid + 1 /\ gpid \in [G!Slots -> Nat]
      BY <1>0 DEF GcdInv, GcdTypes
    <3>2. nextpid' \in Nat
      BY <3>1
    <3>3. [gpid EXCEPT ![b] = nextpid] \in [G!Slots -> Nat]
      BY <3>1
    <3>4. QED
      BY <1>0, <3>2, <3>3
  <2>3. baby' \in [G!Slots -> 0..GcdSlots]
    BY <1>0, <1>1 DEF GcdInv, GcdTypes, G!Slots
  <2>4. QED
    BY <1>0, <2>1, <2>2, <2>3 DEF GcdInv, GcdTypes
<1>5. GcdOnCpu'
  <2>1. 1 \in G!Slots
    BY DEF GcdSizes, G!Slots
  <2>2. QED
    BY <1>0, <1>1, <1>2, <1>3, <2>1 DEF GcdInv, GcdOnCpu
<1>6. GcdForks'
  <2>1. ASSUME NEW s \in G!Slots, gst'[s] # "UNUSED" PROVE prio'[s] \in Prios /\ prio'[s] >= 1
    <3>1. CASE s = b
      BY <1>3, <3>1 DEF GcdSizes
    <3>2. CASE s # b
      BY <1>3, <2>1, <3>2 DEF GcdInv, GcdForks
    <3>3. QED
      BY <3>1, <3>2
  <2>2. ASSUME NEW s \in G!Slots, gstage'[s] # "user" PROVE baby'[s] \in G!Slots /\ gst'[baby'[s]] = "EMBRYO"
    BY <1>1, <1>3, <2>2 DEF GcdInv, GcdForks
  <2>3. ASSUME NEW s \in G!Slots, gstage[s] # "user" PROVE baby[s] # b
    BY <1>1, <2>3 DEF GcdInv, GcdForks
  <2>4. ASSUME NEW s \in G!Slots, NEW t \in G!Slots, s # t, gstage'[s] # "user", gstage'[t] # "user"
        PROVE  baby'[s] # baby'[t]
    BY <1>3, <2>3, <2>4 DEF GcdInv, GcdForks
  <2>5. QED
    BY <2>1, <2>2, <2>4 DEF GcdForks
<1>7. GcdPids'
  <2>1. nextpid >= 1 /\ nextpid \in Nat /\ nextpid' = nextpid + 1
    <3>1. gpid[cur] >= 1 /\ gpid[cur] < nextpid /\ gpid[cur] \in Nat /\ nextpid \in Nat
      BY <1>2 DEF GcdInv, GcdPids, GcdTypes
    <3>2. QED
      BY <1>0, <3>1
  <2>2. \A s \in G!Slots : gst[s] # "UNUSED" => gpid[s] >= 1 /\ gpid[s] < nextpid /\ gpid[s] \in Nat
    BY DEF GcdInv, GcdPids, GcdTypes
  <2>3. \A s \in G!Slots : gst'[s] # "UNUSED" => gpid'[s] >= 1 /\ gpid'[s] < nextpid'
    BY <1>3, <2>1, <2>2
  <2>4. ASSUME NEW s \in G!Slots, NEW t \in G!Slots, s # t, gst'[s] # "UNUSED", gst'[t] # "UNUSED"
        PROVE  gpid'[s] # gpid'[t]
    <3>1. CASE s # b /\ t # b
      BY <1>3, <2>4, <3>1 DEF GcdInv, GcdPids
    <3>2. CASE s = b
      BY <1>3, <2>1, <2>2, <2>4, <3>2
    <3>3. CASE t = b
      BY <1>3, <2>1, <2>2, <2>4, <3>3
    <3>4. QED
      BY <3>1, <3>2, <3>3
  <2>5. \A s \in G!Slots : gst'[s] = "UNUSED" /\ s \notin stillborn' => gpid'[s] = 0
    BY <1>0, <1>3 DEF GcdInv, GcdPids
  <2>6. QED
    BY <2>3, <2>4, <2>5 DEF GcdPids
<1>8. GcdRound'
  <2>1. \A s \in steady' : s \in steady /\ s # b /\ prio'[s] = prio[s] /\ gst'[s] \in {"RUNNABLE", "RUNNING"}
    BY <1>0, <1>1, <1>2, <1>3 DEF GcdInv, GcdTypes, GcdRound
  <2>2. QED
    BY <1>0, <1>2, <1>4, <2>1, RoundSame
<1>9. QED
  BY <1>4, <1>5, <1>6, <1>7, <1>8 DEF GcdInv

LEMMA GcdInherit ==
  ASSUME GcdSizes, GcdInv, G!Inherit
  PROVE  GcdInv'
<1> DEFINE b == baby[cur]
           S == {1} \cup {prio[s] : s \in {t \in G!Slots : gst[t] # "UNUSED"}}
<1>0. /\ cur # 0 /\ gstage[cur] = "inherit" /\ prio' = [prio EXCEPT ![b] = G!Max(S)]
      /\ gstage' = [gstage EXCEPT ![cur] = "fork"]
      /\ UNCHANGED <<gpid, nextpid, stillborn, gst, gparent, gcdPhase, start, procgcd, gpos, cur, baby, slices, steady>>
  BY DEF G!Inherit, G!Highest
<1>1. cur \in G!Slots /\ gcdPhase = "pass"
  BY <1>0 DEF GcdInv, GcdTypes, GcdOnCpu, G!Slots
<1>2. b \in G!Slots /\ gst[b] = "EMBRYO"
  BY <1>0, <1>1 DEF GcdInv, GcdForks
<1>3. S \subseteq Prios /\ 1 \in S
  BY DEF GcdInv, GcdForks, GcdSizes
<1>4. G!Max(S) \in Prios /\ G!Max(S) >= 1
  <2>1. S \in SUBSET (Prios \cup {0}) /\ S # {}
    BY <1>3
  <2>2. G!Max(S) \in S /\ \A n \in S : n <= G!Max(S)
    BY <2>1, PrioMax
  <2>3. QED
    BY <1>3, <2>2
<1> DEFINE h == G!Max(S)
<1> HIDE DEF b, S, h
<1>5. \A s \in G!Slots : prio'[s] = (IF s = b THEN h ELSE prio[s])
  BY <1>0, <1>2 DEF GcdInv, GcdTypes, h
<1>6. GcdTypes'
  BY <1>0, <1>4 DEF GcdInv, GcdTypes
<1>7. GcdOnCpu' /\ GcdPids'
  BY <1>0 DEF GcdInv, GcdOnCpu, GcdPids
<1>8. GcdForks'
  <2>1. \A s \in G!Slots : gstage'[s] # "user" <=> gstage[s] # "user"
    BY <1>0, <1>1 DEF GcdInv, GcdTypes
  <2>2. \A s \in G!Slots : gst'[s] # "UNUSED" => prio'[s] \in Prios /\ prio'[s] >= 1
    BY <1>0, <1>4, <1>5 DEF GcdInv, GcdForks, h
  <2>3. QED
    BY <1>0, <2>1, <2>2 DEF GcdInv, GcdForks
<1>9. GcdRound'
  <2>1. \A s \in steady' : s \in steady /\ s # b /\ prio'[s] = prio[s] /\ gst'[s] \in {"RUNNABLE", "RUNNING"}
    BY <1>0, <1>1, <1>2, <1>5 DEF GcdInv, GcdTypes, GcdRound
  <2>2. QED
    BY <1>0, <1>1, <1>6, <2>1, RoundSame
<1>10. QED
  BY <1>6, <1>7, <1>8, <1>9 DEF GcdInv

LEMMA GcdFork ==
  ASSUME GcdSizes, GcdInv, G!Fork
  PROVE  GcdInv'
<1> DEFINE b == baby[cur]
<1>0. /\ cur # 0 /\ gstage[cur] = "fork"
      /\ \/ gst' = [gst EXCEPT ![b] = "RUNNABLE"] /\ gparent' = [gparent EXCEPT ![b] = cur] /\ UNCHANGED stillborn
         \/ gst' = [gst EXCEPT ![b] = "UNUSED"] /\ stillborn' = stillborn \cup {b} /\ UNCHANGED gparent
      /\ gstage' = [gstage EXCEPT ![cur] = "user"] /\ baby' = [baby EXCEPT ![cur] = 0]
      /\ UNCHANGED <<prio, gpid, nextpid, gcdPhase, start, procgcd, gpos, cur, slices, steady>>
  BY DEF G!Fork
<1>1. cur \in G!Slots /\ gcdPhase = "pass" /\ gst[cur] = "RUNNING"
  BY <1>0 DEF GcdInv, GcdTypes, GcdOnCpu, G!Slots
<1>2. b \in G!Slots /\ gst[b] = "EMBRYO" /\ b # cur
  BY <1>0, <1>1 DEF GcdInv, GcdForks
<1>3. ASSUME NEW s \in G!Slots, s # cur, gstage[s] # "user" PROVE baby[s] # b
  BY <1>0, <1>1, <1>3 DEF GcdInv, GcdForks
<1> HIDE DEF b
<1>4. /\ \A s \in G!Slots : gstage'[s] = (IF s = cur THEN "user" ELSE gstage[s]) /\ baby'[s] = (IF s = cur THEN 0 ELSE baby[s])
      /\ \A s \in G!Slots : s # b => gst'[s] = gst[s]
      /\ gst'[b] \in {"RUNNABLE", "UNUSED"} /\ (gst'[b] = "UNUSED" => b \in stillborn')
      /\ stillborn \subseteq stillborn'
  BY <1>0, <1>1, <1>2 DEF GcdInv, GcdTypes
<1>5. GcdTypes'
  <2>1. 0 \in 0..GcdSlots
    BY DEF GcdSizes
  <2>2. baby' \in [G!Slots -> 0..GcdSlots]
    BY <1>0, <2>1 DEF GcdInv, GcdTypes
  <2>3. gparent' \in [G!Slots -> 0..GcdSlots]
    BY <1>0 DEF GcdInv, GcdTypes
  <2>4. gst' \in [G!Slots -> {"UNUSED", "EMBRYO", "SLEEPING", "RUNNABLE", "RUNNING", "ZOMBIE"}]
    BY <1>0 DEF GcdInv, GcdTypes
  <2>5. QED
    BY <1>0, <2>2, <2>3, <2>4 DEF GcdInv, GcdTypes
<1>6. GcdOnCpu'
  <2>1. 1 \in G!Slots
    BY DEF GcdSizes, G!Slots
  <2>2. gst'[1] = gst[1]
    BY <1>2, <1>4, <2>1 DEF GcdInv, GcdOnCpu
  <2>3. \A s \in G!Slots : gst'[s] = "RUNNING" <=> s = cur'
    BY <1>0, <1>1, <1>2, <1>4 DEF GcdInv, GcdOnCpu
  <2>4. QED
    BY <1>0, <2>2, <2>3 DEF GcdInv, GcdOnCpu
<1>7. GcdForks'
  <2>1. \A s \in G!Slots : gst'[s] # "UNUSED" => gst[s] # "UNUSED"
    BY <1>2, <1>4
  <2>2. \A s \in G!Slots : gst'[s] # "UNUSED" => prio'[s] \in Prios /\ prio'[s] >= 1
    BY <1>0, <2>1 DEF GcdInv, GcdForks
  <2>3. ASSUME NEW s \in G!Slots, gstage'[s] # "user"
        PROVE  s # cur /\ gstage[s] # "user" /\ baby'[s] = baby[s] /\ baby[s] # b /\ baby[s] \in G!Slots /\ gst[baby[s]] = "EMBRYO"
    BY <1>3, <1>4, <2>3 DEF GcdInv, GcdForks
  <2>4. ASSUME NEW s \in G!Slots, gstage'[s] # "user" PROVE baby'[s] \in G!Slots /\ gst'[baby'[s]] = "EMBRYO"
    BY <1>4, <2>3, <2>4
  <2>5. ASSUME NEW s \in G!Slots, NEW t \in G!Slots, s # t, gstage'[s] # "user", gstage'[t] # "user"
        PROVE  baby'[s] # baby'[t]
    BY <2>3, <2>5 DEF GcdInv, GcdForks
  <2>6. QED
    BY <2>2, <2>4, <2>5 DEF GcdForks
<1>8. GcdPids'
  <2>1. \A s \in G!Slots : gst'[s] # "UNUSED" => gst[s] # "UNUSED"
    BY <1>2, <1>4
  <2>2. \A s \in G!Slots : gst'[s] = "UNUSED" /\ s \notin stillborn' => gst[s] = "UNUSED" /\ s \notin stillborn
    BY <1>4
  <2>3. QED
    BY <1>0, <2>1, <2>2 DEF GcdInv, GcdPids
<1>9. GcdRound'
  <2>1. \A s \in steady' : s \in steady /\ s # b /\ prio'[s] = prio[s] /\ gst'[s] \in {"RUNNABLE", "RUNNING"}
    BY <1>0, <1>1, <1>2, <1>4 DEF GcdInv, GcdTypes, GcdRound
  <2>2. QED
    BY <1>0, <1>1, <1>5, <2>1, RoundSame
<1>10. QED
  BY <1>5, <1>6, <1>7, <1>8, <1>9 DEF GcdInv

LEMMA GcdExit ==
  ASSUME GcdSizes, GcdInv, G!Exit
  PROVE  GcdInv'
<1>1. /\ cur # 0 /\ cur # 1 /\ gstage[cur] = "user" /\ cur' = 0 /\ steady' = steady \ {cur}
      /\ gparent' = [t \in G!Slots |-> IF gparent[t] = cur THEN 1 ELSE gparent[t]]
      /\ UNCHANGED <<gpid, nextpid, stillborn, prio, gcdPhase, start, procgcd, gpos, gstage, baby, slices>>
  BY DEF G!Exit, G!Init1
<1>2. cur \in G!Slots /\ gcdPhase = "pass" /\ gst[cur] = "RUNNING"
  BY <1>1 DEF GcdInv, GcdTypes, GcdOnCpu, G!Slots
<1>3. PICK woken : gst' = [t \in G!Slots |-> IF t = cur THEN "ZOMBIE"
                             ELSE IF t \in woken /\ gst[t] = "SLEEPING" THEN "RUNNABLE" ELSE gst[t]]
  BY DEF G!Exit
<1>4. \A s \in G!Slots :
        gst'[s] = (IF s = cur THEN "ZOMBIE" ELSE IF s \in woken /\ gst[s] = "SLEEPING" THEN "RUNNABLE" ELSE gst[s])
  BY <1>3
<1>5. GcdTypes'
  <2>1. gst' \in [G!Slots -> {"UNUSED", "EMBRYO", "SLEEPING", "RUNNABLE", "RUNNING", "ZOMBIE"}]
    BY <1>3 DEF GcdInv, GcdTypes
  <2>2. 1 \in 0..GcdSlots /\ 0 \in 0..GcdSlots
    BY DEF GcdSizes
  <2>3. gparent' \in [G!Slots -> 0..GcdSlots]
    BY <1>1, <2>2 DEF GcdInv, GcdTypes
  <2>4. QED
    BY <1>1, <2>1, <2>2, <2>3 DEF GcdInv, GcdTypes
<1>6. GcdOnCpu'
  <2>1. 1 \in G!Slots /\ \A s \in G!Slots : s # 0
    BY DEF GcdSizes, G!Slots
  <2>2. \A s \in G!Slots : gst'[s] # "RUNNING"
    BY <1>2, <1>4 DEF GcdInv, GcdOnCpu
  <2>3. gst'[1] \in {"RUNNABLE", "RUNNING", "SLEEPING"}
    BY <1>1, <1>4, <2>1 DEF GcdInv, GcdOnCpu
  <2>4. QED
    BY <1>1, <2>1, <2>2, <2>3 DEF GcdOnCpu
<1>7. \A s \in G!Slots : /\ gst[s] = "EMBRYO" => gst'[s] = "EMBRYO"
                         /\ gst'[s] = "UNUSED" <=> gst[s] = "UNUSED"
  BY <1>2, <1>4
<1>8. GcdForks' /\ GcdPids'
  BY <1>1, <1>7 DEF GcdInv, GcdForks, GcdPids
<1>9. GcdRound'
  <2>1. \A s \in steady' : s \in steady /\ prio'[s] = prio[s] /\ gst'[s] \in {"RUNNABLE", "RUNNING"}
    BY <1>1, <1>2, <1>4 DEF GcdInv, GcdTypes, GcdRound
  <2>2. QED
    BY <1>1, <1>2, <1>5, <2>1, RoundSame
<1>10. QED
  BY <1>5, <1>6, <1>8, <1>9 DEF GcdInv

LEMMA GcdWait ==
  ASSUME GcdSizes, GcdInv, G!Wait
  PROVE  GcdInv'
<1> DEFINE dead == {t \in {u \in G!Slots : gparent[u] = cur} : gst[t] = "ZOMBIE"}
           z == G!Min(dead)
<1>0. /\ cur # 0 /\ gstage[cur] = "user"
      /\ IF dead = {} THEN G!Leave("SLEEPING") /\ steady' = steady \ {cur} /\ UNCHANGED <<gparent, gpid>>
         ELSE /\ gst' = [gst EXCEPT ![z] = "UNUSED"] /\ gpid' = [gpid EXCEPT ![z] = 0]
              /\ gparent' = [gparent EXCEPT ![z] = 0] /\ UNCHANGED <<cur, steady>>
      /\ UNCHANGED <<prio, nextpid, stillborn, gcdPhase, start, procgcd, gpos, gstage, baby, slices>>
  BY DEF G!Wait, G!Forgotten
<1>1. CASE dead = {}
  BY <1>0, <1>1, GcdLeaves
<1>2. CASE dead # {}
  <2>1. z \in G!Slots /\ gst[z] = "ZOMBIE"
    <3>1. dead \in SUBSET Nat
      BY DEF G!Slots
    <3>2. z \in dead
      BY <1>2, <3>1, GMinIn
    <3>3. QED
      BY <3>2
  <2>2. /\ gst' = [gst EXCEPT ![z] = "UNUSED"] /\ gpid' = [gpid EXCEPT ![z] = 0]
        /\ gparent' = [gparent EXCEPT ![z] = 0]
        /\ UNCHANGED <<cur, steady, prio, nextpid, stillborn, gcdPhase, start, procgcd, gpos, gstage, baby, slices>>
    BY <1>0, <1>2
  <2> HIDE DEF z, dead
  <2>3. \A s \in G!Slots : gst'[s] = (IF s = z THEN "UNUSED" ELSE gst[s]) /\ gpid'[s] = (IF s = z THEN 0 ELSE gpid[s])
    BY <2>1, <2>2 DEF GcdInv, GcdTypes
  <2>4. cur \in G!Slots /\ gcdPhase = "pass" /\ gst[cur] = "RUNNING"
    BY <1>0 DEF GcdInv, GcdTypes, GcdOnCpu, G!Slots
  <2>5. GcdTypes'
    <3>1. 0 \in 0..GcdSlots
      BY DEF GcdSizes
    <3>2. QED
      BY <2>2, <3>1 DEF GcdInv, GcdTypes
  <2>6. GcdOnCpu'
    <3>1. 1 \in G!Slots
      BY DEF GcdSizes, G!Slots
    <3>2. QED
      BY <2>1, <2>2, <2>3, <2>4, <3>1 DEF GcdInv, GcdOnCpu
  <2>7. \A s \in G!Slots : /\ gst[s] = "EMBRYO" => gst'[s] = "EMBRYO"
                           /\ gst'[s] # "UNUSED" => gst[s] # "UNUSED" /\ gpid'[s] = gpid[s]
    BY <2>1, <2>3
  <2>8. GcdForks'
    BY <2>2, <2>7 DEF GcdInv, GcdForks
  <2>9. GcdPids'
    BY <2>2, <2>3, <2>7 DEF GcdInv, GcdPids
  <2>10. GcdRound'
    <3>1. \A s \in steady' : s \in steady /\ prio'[s] = prio[s] /\ gst'[s] \in {"RUNNABLE", "RUNNING"}
      BY <2>1, <2>2, <2>3, <2>4 DEF GcdInv, GcdTypes, GcdRound
    <3>2. QED
      BY <2>2, <2>4, <2>5, <3>1, RoundSame
  <2>11. QED
    BY <2>5, <2>6, <2>8, <2>9, <2>10 DEF GcdInv
<1>3. QED
  BY <1>1, <1>2

LEMMA GcdWakeup ==
  ASSUME GcdSizes, GcdInv, NEW s \in G!Slots, G!Wakeup(s)
  PROVE  GcdInv'
<1>1. /\ gst[s] = "SLEEPING" /\ gst' = [gst EXCEPT ![s] = "RUNNABLE"]
      /\ UNCHANGED <<gpid, nextpid, stillborn, gparent, prio, gcdPhase, start, procgcd, gpos, cur, gstage, baby, slices, steady>>
  BY DEF G!Wakeup
<1>2. \A t \in G!Slots : gst'[t] = (IF t = s THEN "RUNNABLE" ELSE gst[t])
  BY <1>1 DEF GcdInv, GcdTypes
<1>3. GcdTypes'
  BY <1>1 DEF GcdInv, GcdTypes
<1>4. GcdOnCpu'
  <2>1. 1 \in G!Slots
    BY DEF GcdSizes, G!Slots
  <2>2. QED
    BY <1>1, <1>2, <2>1 DEF GcdInv, GcdOnCpu
<1>5. \A t \in G!Slots : /\ gst[t] = "EMBRYO" => gst'[t] = "EMBRYO"
                         /\ gst'[t] = "UNUSED" <=> gst[t] = "UNUSED"
                         /\ gst[t] = "RUNNABLE" => gst'[t] = "RUNNABLE"
  BY <1>1, <1>2
<1>6. GcdForks' /\ GcdPids'
  BY <1>1, <1>5 DEF GcdInv, GcdForks, GcdPids
<1>7. GcdRound'
  <2>1. \A t \in steady' : t \in steady /\ prio'[t] = prio[t]
    BY <1>1
  <2>2. gcdPhase = "pass" => \A t \in steady' : gst'[t] \in {"RUNNABLE", "RUNNING"}
    BY <1>1, <1>2 DEF GcdInv, GcdTypes, GcdRound
  <2>3. QED
    BY <1>1, <1>3, <1>5, <2>1, <2>2, RoundSame
<1>8. QED
  BY <1>3, <1>4, <1>6, <1>7 DEF GcdInv

LEMMA GcdMeans == ASSUME GcdSizes, GcdInv PROVE G!TypeOK /\ G!RoundShares /\ G!PidsIdentify
<1>1. G!TypeOK
  <2>1. start \in {0} \cup 1..G!Max(Prios)
    BY PrioMax DEF GcdInv, GcdTypes
  <2>2. {s \in G!Slots : gst[s] = "RUNNING"} = {cur} \ {0}
    <3>1. cur # 0 => cur \in G!Slots
      BY DEF GcdInv, GcdTypes, G!Slots
    <3>2. 0 \notin G!Slots
      BY DEF G!Slots
    <3>3. QED
      BY <3>1, <3>2 DEF GcdInv, GcdOnCpu
  <2>3. QED
    BY <2>1, <2>2 DEF G!TypeOK, GcdInv, GcdTypes, GcdForks
<1>2. G!RoundShares
  BY DEF G!RoundShares, GcdInv, GcdRound
<1>3. \A s \in G!Active : G!ProcInfo(gpid[s]) = {s}
  BY DEF G!Active, G!ProcInfo, GcdInv, GcdPids
<1>4. G!Cardinality({gpid[s] : s \in G!Active}) = G!NumProc
  <2>1. IsFiniteSet(G!Active)
    <3>1. IsFiniteSet(1..GcdSlots)
      BY FS_Interval DEF GcdSizes
    <3>2. QED
      BY <3>1, FS_Subset DEF G!Active, G!Slots
  <2> DEFINE T == {gpid[s] : s \in G!Active}
             f == [s \in G!Active |-> gpid[s]]
  <2>2. f \in Bijection(G!Active, T)
    <3>1. \A s, t \in G!Active : gpid[s] = gpid[t] => s = t
      BY DEF G!Active, GcdInv, GcdPids
    <3>2. f \in [G!Active -> T]
      OBVIOUS
    <3>3. \A s, t \in G!Active : f[s] = f[t] => s = t
      BY <3>1
    <3>4. \A n \in T : \E s \in G!Active : f[s] = n
      OBVIOUS
    <3> HIDE DEF f, T
    <3>5. f \in Injection(G!Active, T)
      BY <3>2, <3>3 DEF Injection, IsInjective
    <3>6. f \in Surjection(G!Active, T)
      BY <3>2, <3>4 DEF Surjection
    <3>7. QED
      BY <3>5, <3>6 DEF Bijection
  <2>3. ExistsBijection(G!Active, T)
    BY <2>2 DEF ExistsBijection
  <2>4. Cardinality(T) = Cardinality(G!Active)
    BY <2>1, <2>3, FS_Bijection
  <2>5. ASSUME NEW S PROVE G!Cardinality(S) = Cardinality(S)
    BY DEF G!Cardinality, Cardinality
  <2>6. QED
    BY <2>4, <2>5 DEF G!NumProc
<1>5. stillborn = {} => G!ProcInfo(G!MaxPid) # {}
  <2>1. SUFFICES ASSUME stillborn = {} PROVE G!ProcInfo(G!MaxPid) # {}
    OBVIOUS
  <2> DEFINE S == {gpid[s] : s \in G!Slots}
  <2>2. 1 \in G!Slots /\ gst[1] # "UNUSED"
    BY DEF GcdSizes, G!Slots, GcdInv, GcdOnCpu
  <2>3. gpid[1] \in S /\ gpid[1] >= 1
    BY <2>2 DEF GcdInv, GcdPids
  <2>4. S \in SUBSET Nat /\ S # {} /\ nextpid \in Nat /\ \A n \in S : n <= nextpid
    <3>1. \A s \in G!Slots : gpid[s] \in Nat /\ gpid[s] <= nextpid
      <4>1. \A s \in G!Slots : gpid[s] \in Nat /\ nextpid \in Nat
        BY DEF GcdInv, GcdTypes
      <4>2. \A s \in G!Slots : gpid[s] = 0 \/ gpid[s] < nextpid
        BY <2>1 DEF GcdInv, GcdPids
      <4>3. QED
        BY <4>1, <4>2
    <3>2. QED
      BY <2>3, <3>1 DEF GcdInv, GcdTypes
  <2>5. G!MaxPid \in S /\ \A n \in S : n <= G!MaxPid
    <3>1. G!MaxPid = G!Max(S)
      BY DEF G!MaxPid
    <3> HIDE DEF S
    <3>2. QED
      BY <2>4, <3>1, GMaxIn
  <2>6. PICK s \in G!Slots : G!MaxPid = gpid[s]
    BY <2>5
  <2>7. gpid[s] # 0
    <3>1. gpid[1] <= gpid[s] /\ gpid[1] >= 1 /\ gpid[1] \in Nat /\ gpid[s] \in Nat
      BY <2>2, <2>3, <2>5, <2>6 DEF GcdInv, GcdTypes
    <3>2. QED
      BY <3>1
  <2>8. s \in G!Active
    BY <2>1, <2>7 DEF G!Active, GcdInv, GcdPids
  <2>9. QED
    BY <2>6, <2>8 DEF G!ProcInfo
<1>6. QED
  BY <1>1, <1>2, <1>3, <1>4, <1>5 DEF G!PidsIdentify

THEOREM Sharing ==
  ASSUME GcdSizes
  PROVE  G!Spec => [](G!TypeOK /\ G!RoundShares /\ G!PidsIdentify)
<1>1. G!Init => GcdInv
  BY GcdInit
<1>2. GcdInv /\ [G!Next]_(G!gvars) => GcdInv'
  <2>1. SUFFICES ASSUME GcdInv, [G!Next]_(G!gvars) PROVE GcdInv'
    OBVIOUS
  <2>2. CASE UNCHANGED G!gvars
    BY <2>1, <2>2 DEF G!gvars, GcdInv, GcdTypes, GcdOnCpu, GcdForks, GcdPids, GcdRound, Due
  <2>3. CASE G!Scheduler
    BY <2>1, <2>3, GcdFirst, GcdDivide, GcdDispatch, GcdNextPass DEF G!Scheduler
  <2>4. CASE G!Yield
    BY <2>1, <2>4, GcdLeaves DEF G!Yield
  <2>5. CASE G!SetPrio \/ G!AllocProc \/ G!Inherit \/ G!Fork \/ G!Exit \/ G!Wait
    BY <2>1, <2>5, GcdSetPrio, GcdAllocProc, GcdInherit, GcdFork, GcdExit, GcdWait
  <2>6. CASE \E s \in G!Slots : G!Wakeup(s)
    BY <2>1, <2>6, GcdWakeup
  <2>7. QED
    BY <2>1, <2>2, <2>3, <2>4, <2>5, <2>6 DEF G!Next
<1>3. GcdInv => G!TypeOK /\ G!RoundShares /\ G!PidsIdentify
  BY GcdMeans
<1>4. QED
  BY <1>1, <1>2, <1>3, PTL DEF G!Spec

\* The rounds of the scheduler with gcd steps, for any slots and priorities.
THEOREM GcdSafe ==
  ASSUME GcdSizes
  PROVE  PartsSpec => []GcdSharesRounds
<1>1. PartsInit => G!Init
  BY DEF PartsInit
<1>2. [PartsNext]_<<part, partsvars>> => [G!Next]_(G!gvars)
  BY DEF PartsNext, partsvars, gcdvars, G!gvars
<1>3. G!TypeOK /\ G!RoundShares /\ G!PidsIdentify => GcdSharesRounds
  BY DEF GcdSharesRounds
<1>4. QED
  BY <1>1, <1>2, <1>3, Sharing, PTL DEF PartsSpec, G!Spec

-----------------------------------------------------------------------------
(* Clock                                                                     *)

\* The counter is at least two wide, and 0 is no process.
ClockSizes == TICKWRAP \in Nat /\ TICKWRAP >= 2 /\ 0 \notin Sleepers /\ Naps \subseteq Int

ZPcs == {"user", "loop", "dozing", "asleep", "woken", "slept", "failed", "ended"}

ClockTypes ==
  /\ ticks \in 0..TICKWRAP - 1
  /\ zpc \in [Sleepers -> ZPcs]
  /\ ticks0 \in [Sleepers -> 0..TICKWRAP - 1] /\ nap \in [Sleepers -> 0..TICKWRAP - 1]
  /\ clockKilled \in [Sleepers -> BOOLEAN]
  /\ elapsed \in [Sleepers -> 0..TICKWRAP - 1] /\ late \in [Sleepers -> 0..1]

\* In a call the counter has moved on by what has elapsed, once round at most.
Counted ==
  \A p \in Sleepers : zpc[p] \notin {"user", "ended"} =>
    ticks = ticks0[p] + elapsed[p] \/ ticks = ticks0[p] + elapsed[p] - TICKWRAP

\* Who has slept through a tick since the kill has been woken by it, and does not sleep again.
LateIsAwake == \A p \in Sleepers : late[p] # 0 => clockKilled[p] /\ zpc[p] \notin {"dozing", "asleep"}

ClockInv == ClockTypes /\ C!TypeOK /\ Counted /\ LateIsAwake /\ C!SleptExactly

LEMMA ClockInit ==
  ASSUME ClockSizes, C!Init PROVE ClockInv
<1>1. ClockTypes
  BY DEF ClockSizes, C!Init, ClockTypes, ZPcs
<1>2. C!TypeOK
  BY DEF ClockSizes, C!Init, C!TypeOK, C!Nobody
<1>3. Counted /\ LateIsAwake /\ C!SleptExactly
  BY DEF C!Init, Counted, LateIsAwake, C!SleptExactly
<1>4. QED
  BY <1>1, <1>2, <1>3 DEF ClockInv

LEMMA PassedIsElapsed ==
  ASSUME ClockSizes, ClockInv, NEW p \in Sleepers, zpc[p] \notin {"user", "ended"}
  PROVE  C!Passed(p) = elapsed[p]
<1>1. PICK e : e = elapsed[p]
  OBVIOUS
<1>2. e \in 0..TICKWRAP - 1 /\ TICKWRAP \in Nat \ {0} /\ ticks \in Int /\ ticks0[p] \in Int
  BY <1>1 DEF ClockInv, ClockTypes, ClockSizes
<1>3. ticks = ticks0[p] + e \/ ticks = ticks0[p] + e - TICKWRAP
  BY <1>1 DEF ClockInv, Counted
<1>4. ticks - ticks0[p] = e \/ ticks - ticks0[p] = e - TICKWRAP
  BY <1>2, <1>3
<1>5. e % TICKWRAP = e /\ (e - TICKWRAP) % TICKWRAP = e
  BY <1>2, D!ModPos, D!ModNeg
<1>6. QED
  BY <1>1, <1>4, <1>5 DEF C!Passed

LEMMA ClockTest ==
  ASSUME ClockSizes, ClockInv, NEW p \in Sleepers, C!Test(p) PROVE ClockInv'
<1>1. C!Passed(p) = elapsed[p]
  BY PassedIsElapsed DEF C!Test
<1>2. PICK to : to = IF elapsed[p] < nap[p] /\ ~clockKilled[p] THEN "dozing"
                     ELSE IF elapsed[p] < nap[p] THEN "failed" ELSE "slept"
  OBVIOUS
<1>3. zpc' = [zpc EXCEPT ![p] = to] /\ UNCHANGED <<ticks, fired, ticks0, nap, clockKilled, elapsed, late>>
  BY <1>1, <1>2 DEF C!Test, C!GivesUp
<1>4. zpc'[p] = to /\ to \in {"dozing", "failed", "slept"} /\ zpc[p] = "loop" /\ tickslock = p /\ \A q \in Sleepers \ {p} : zpc'[q] = zpc[q]
  BY <1>2, <1>3 DEF ClockInv, ClockTypes, C!Test, C!TypeOK
<1>5. tickslock' = IF to = "dozing" THEN p ELSE 0
  BY <1>3, <1>4 DEF C!Test, C!Holder, C!Nobody
<1>6. ClockTypes'
  BY <1>3, <1>4 DEF ClockInv, ClockTypes, ZPcs
<1>7. C!TypeOK'
  BY <1>3, <1>4, <1>5 DEF ClockInv, C!TypeOK, ClockSizes
<1>8. Counted'
  BY <1>3, <1>4 DEF ClockInv, Counted
<1>9. LateIsAwake'
  BY <1>2, <1>3, <1>4 DEF ClockInv, LateIsAwake
<1>10. C!SleptExactly'
  BY <1>2, <1>3, <1>4 DEF ClockInv, C!SleptExactly, ClockTypes
<1>11. QED
  BY <1>6, <1>7, <1>8, <1>9, <1>10 DEF ClockInv

LEMMA ClockTimer ==
  ASSUME ClockSizes, ClockInv, C!Timer PROVE ClockInv'
<1>1. \A p \in Sleepers : zpc[p] \notin {"loop", "dozing"}
  BY DEF ClockInv, C!TypeOK, C!Timer, C!Nobody, ClockSizes
<1>2. ticks' = (ticks + 1) % TICKWRAP /\ UNCHANGED <<tickslock, ticks0, nap, clockKilled>>
  BY DEF C!Timer
<1>3. ticks' = IF ticks = TICKWRAP - 1 THEN 0 ELSE ticks + 1
  <2>1. ticks \in 0..TICKWRAP-1 /\ TICKWRAP \in Nat \ {0}
    BY DEF ClockSizes, ClockInv, ClockTypes
  <2>2. CASE ticks = TICKWRAP - 1
    BY <1>2, <2>1, <2>2, D!ModW
  <2>3. CASE ticks # TICKWRAP - 1
    <3>1. ticks + 1 \in 0..TICKWRAP-1
      BY <2>1, <2>3
    <3>2. QED
      BY <1>2, <2>1, <2>3, <3>1, D!ModPos
  <2>4. QED
    BY <2>2, <2>3
<1>4. ASSUME NEW p \in Sleepers
      PROVE  /\ zpc'[p] = IF zpc[p] = "asleep" THEN "woken" ELSE zpc[p]
             /\ elapsed'[p] = IF zpc[p] \in {"user", "ended"} THEN 0 ELSE elapsed[p] + 1
             /\ late'[p] = IF clockKilled[p] /\ zpc[p] = "asleep" THEN late[p] + 1 ELSE late[p]
             /\ elapsed'[p] \in 0..TICKWRAP - 1 /\ late'[p] \in 0..1
             /\ elapsed[p] \in 0..TICKWRAP - 1 /\ nap[p] \in 0..TICKWRAP-1 /\ ticks0[p] \in 0..TICKWRAP-1
  <2>1. /\ zpc'[p] = IF zpc[p] = "asleep" THEN "woken" ELSE zpc[p]
        /\ elapsed'[p] = IF zpc[p] \in {"user", "ended"} THEN 0 ELSE elapsed[p] + 1
        /\ late'[p] = IF clockKilled[p] /\ zpc[p] = "asleep" THEN late[p] + 1 ELSE late[p]
    BY DEF C!Timer, C!Wake
  <2>2. elapsed[p] \in 0..TICKWRAP - 1 /\ nap[p] \in 0..TICKWRAP-1 /\ ticks0[p] \in 0..TICKWRAP-1
    BY DEF ClockInv, ClockTypes
  <2>3. zpc[p] \notin {"user", "ended"} => elapsed[p] < TICKWRAP - 1
    BY DEF C!Timer
  <2>4. elapsed'[p] \in 0..TICKWRAP - 1
    BY <2>1, <2>2, <2>3 DEF ClockSizes
  <2>5. late[p] \in 0..1 /\ (zpc[p] = "asleep" => late[p] = 0)
    BY DEF ClockInv, ClockTypes, LateIsAwake
  <2>6. late'[p] \in 0..1
    BY <2>1, <2>5
  <2>7. QED
    BY <2>1, <2>2, <2>4, <2>6
<1>5. ClockTypes'
  <2>1. zpc' = [p \in Sleepers |-> zpc'[p]] /\ elapsed' = [p \in Sleepers |-> elapsed'[p]]
        /\ late' = [p \in Sleepers |-> late'[p]]
    BY DEF C!Timer, C!Wake
  <2>2. ticks' \in 0..TICKWRAP-1
    BY <1>3 DEF ClockInv, ClockTypes, ClockSizes
  <2>3. \A p \in Sleepers : zpc'[p] \in ZPcs
    BY <1>4 DEF ClockInv, ClockTypes, ZPcs
  <2>4. QED
    BY <1>2, <1>4, <2>1, <2>2, <2>3 DEF ClockInv, ClockTypes
<1>6. C!TypeOK'
  BY <1>1, <1>2, <1>3, <1>4, <1>5 DEF ClockInv, C!TypeOK, ClockTypes
<1>7. Counted'
  <2>1. SUFFICES ASSUME NEW p \in Sleepers, zpc'[p] \notin {"user", "ended"}
                 PROVE  ticks' = ticks0'[p] + elapsed'[p] \/ ticks' = ticks0'[p] + elapsed'[p] - TICKWRAP
    BY DEF Counted
  <2>2. zpc[p] \notin {"user", "ended"} /\ elapsed'[p] = elapsed[p] + 1
    BY <1>4, <2>1
  <2>3. ticks = ticks0[p] + elapsed[p] \/ ticks = ticks0[p] + elapsed[p] - TICKWRAP
    BY <2>2 DEF ClockInv, Counted
  <2>4. ticks \in 0..TICKWRAP-1 /\ elapsed[p] \in 0..TICKWRAP-1 /\ ticks0[p] \in 0..TICKWRAP-1 /\ TICKWRAP \in Nat /\ elapsed'[p] \in 0..TICKWRAP-1
    BY <1>4 DEF ClockInv, ClockTypes, ClockSizes
  <2>5. QED
    BY <1>2, <1>3, <2>2, <2>3, <2>4
<1>8. LateIsAwake'
  BY <1>1, <1>2, <1>4 DEF ClockInv, LateIsAwake
<1>9. C!SleptExactly'
  BY <1>1, <1>2, <1>4 DEF ClockInv, C!SleptExactly
<1>10. QED
  BY <1>5, <1>6, <1>7, <1>8, <1>9 DEF ClockInv

LEMMA ClockMoves ==
  ASSUME ClockSizes, ClockInv, NEW p \in Sleepers, 
         C!CallSleep(p) \/ C!Sleep(p) \/ C!Resume(p) \/ C!Return(p) \/ C!Kill(p)
  PROVE  ClockInv'
<1>1. CASE C!CallSleep(p)
  <2>1. PICK n \in Naps : nap' = [nap EXCEPT ![p] = n % TICKWRAP]
    BY <1>1 DEF C!CallSleep
  <2>2. n % TICKWRAP \in 0..TICKWRAP-1
    BY D!ModRange DEF ClockSizes
  <2>3. ClockTypes'
    BY <1>1, <2>1, <2>2 DEF ClockInv, ClockTypes, C!CallSleep, ClockSizes, ZPcs
  <2>4. C!TypeOK'
    BY <1>1 DEF ClockInv, ClockTypes, C!CallSleep, C!TypeOK, C!Nobody, ClockSizes
  <2>5. Counted'
    BY <1>1 DEF ClockInv, ClockTypes, C!CallSleep, Counted, ClockSizes
  <2>6. LateIsAwake' 
    BY <1>1 DEF ClockInv, ClockTypes, C!CallSleep, LateIsAwake
  <2>7. C!SleptExactly'
    BY <1>1, <2>1 DEF ClockInv, ClockTypes, C!CallSleep, C!SleptExactly
  <2>8. QED
    BY <2>3, <2>4, <2>5, <2>6, <2>7 DEF ClockInv
<1>2. CASE C!Sleep(p)
  BY <1>2 DEF ClockInv, ClockTypes, ZPcs, C!TypeOK, Counted, LateIsAwake, C!SleptExactly, C!Sleep, C!Nobody, ClockSizes
<1>3. CASE C!Resume(p)
  BY <1>3 DEF ClockInv, ClockTypes, ZPcs, C!TypeOK, Counted, LateIsAwake, C!SleptExactly, C!Resume, C!Nobody, ClockSizes
<1>4. CASE C!Return(p)
  <2>1. ClockTypes'
    BY <1>4 DEF ClockInv, ClockTypes, ZPcs, C!Return, ClockSizes
  <2>2. C!TypeOK' /\ Counted' 
    BY <1>4 DEF ClockInv, ClockTypes, ZPcs, C!Return, C!TypeOK, Counted
  <2>3. LateIsAwake' /\ C!SleptExactly'
    BY <1>4 DEF ClockInv, ClockTypes, ZPcs, C!Return, LateIsAwake, C!SleptExactly
  <2>4. QED
    BY <2>1, <2>2, <2>3 DEF ClockInv
<1>5. CASE C!Kill(p)
  <2>1. ClockTypes'
    BY <1>5 DEF ClockInv, ClockTypes, ZPcs, C!Kill, ClockSizes
  <2>2. C!TypeOK' /\ Counted' 
    BY <1>5 DEF ClockInv, ClockTypes, ZPcs, C!Kill, C!TypeOK, Counted
  <2>3. LateIsAwake' /\ C!SleptExactly'
    BY <1>5 DEF ClockInv, ClockTypes, ZPcs, C!Kill, LateIsAwake, C!SleptExactly
  <2>4. QED
    BY <2>1, <2>2, <2>3 DEF ClockInv
<1>6. QED
  BY <1>1, <1>2, <1>3, <1>4, <1>5

THEOREM Sleeping ==
  ASSUME ClockSizes PROVE C!Spec => [](C!TypeOK /\ C!SleptExactly /\ C!KilledWakes)
<1>1. C!Init => ClockInv
  BY ClockInit
<1>2. ClockInv /\ [C!Next]_(C!clockvars) => ClockInv'
  <2> SUFFICES ASSUME ClockInv, [C!Next]_(C!clockvars) PROVE ClockInv'
    OBVIOUS
  <2>1. CASE C!Next
    <3>1. ASSUME NEW p \in Sleepers, C!CallSleep(p) \/ C!Test(p) \/ C!Sleep(p) \/ C!Resume(p) \/ C!Return(p) \/ C!Kill(p)
          PROVE  ClockInv'
      BY <3>1, ClockTest, ClockMoves
    <3>2. QED
      BY <2>1, <3>1, ClockTimer DEF C!Next
  <2>2. CASE UNCHANGED C!clockvars
    BY <2>2 DEF C!clockvars, ClockInv, ClockTypes, C!TypeOK, Counted, LateIsAwake, C!SleptExactly
  <2>3. QED
    BY <2>1, <2>2
<1>3. ClockInv => C!TypeOK /\ C!SleptExactly /\ C!KilledWakes
  BY DEF ClockInv, ClockTypes, C!KilledWakes
<1>4. QED
  BY <1>1, <1>2, <1>3, PTL DEF C!Spec

\* sys_sleep over the wrap of the counter, and kill, for any number of sleepers.
THEOREM SleepSafe ==
  ASSUME ClockSizes
  PROVE  PartsSpec => []SleepsAsAsked
<1>1. PartsInit => C!Init
  BY DEF PartsInit
<1>2. [PartsNext]_<<part, partsvars>> => [C!Next]_(C!clockvars)
  BY DEF PartsNext, partsvars, clockvars, C!clockvars
<1>3. C!TypeOK /\ C!SleptExactly /\ C!KilledWakes => SleepsAsAsked
  BY DEF SleepsAsAsked
<1>4. QED
  BY <1>1, <1>2, <1>3, Sleeping, PTL DEF PartsSpec, C!Spec

-----------------------------------------------------------------------------
(* Args: nothing is asked of an earlier state, since a call looks at the     *)
(* registers and the memory it finds.                                        *)

\* Words fit many times into an address space (4 bytes and 2^32 of them), a process fills at
\* most half of it (KERNBASE), and the table of system calls is finite and has no entry 0.
ArgsSizes ==
  /\ WORD \in Nat /\ ADDRWRAP \in Nat \ {0} /\ WORD <= ADDRWRAP \div 2
  /\ ProcSizes \subseteq 0..ADDRWRAP \div 2
  /\ Lengths \subseteq Nat /\ INFO \in Nat /\ WOLFIE \in Nat
  /\ Implemented # {} /\ \E N \in Nat : Implemented \subseteq 1..N

Asked == A!ReadsInside /\ A!BlocksInside /\ A!StringsEnd /\ A!CallsExist /\ A!WolfieFits

LEMMA MaxImplemented ==
  ASSUME ArgsSizes
  PROVE  A!Max(Implemented) \in Nat /\ \A n \in Implemented : n > 0 /\ n <= A!Max(Implemented)
<1>1. PICK N \in Nat : Implemented \subseteq 1..N
  BY DEF ArgsSizes
<1>2. Implemented \in SUBSET Nat /\ Implemented # {} /\ \A n \in Implemented : n <= N
  BY <1>1 DEF ArgsSizes
<1>3. \E m \in Implemented : \A n \in Implemented : n <= m
  BY <1>2, D!Greatest
<1>4. A!Max(Implemented) \in Implemented /\ \A n \in Implemented : n <= A!Max(Implemented)
  BY <1>3 DEF A!Max
<1>5. \A n \in Implemented : n \in Nat /\ n > 0
  BY <1>1
<1>6. QED
  BY <1>4, <1>5

\* A word whose sum with its length does not pass the size of the process lies inside it:
\* the sum does not wrap.
LEMMA WordIn ==
  ASSUME ArgsSizes, NEW n \in Nat, argsSz \in ProcSizes, esp \in 0..ADDRWRAP - 1
  PROVE  A!Word(n) \subseteq 0..argsSz - 1
<1> DEFINE a == A!Place(n)
<1>1. a \in 0..ADDRWRAP - 1
  <2>1. esp + WORD + WORD * n \in Int
    BY DEF ArgsSizes
  <2>2. (esp + WORD + WORD * n) % ADDRWRAP \in 0..ADDRWRAP - 1
    BY <2>1, D!ModRange DEF ArgsSizes
  <2>3. QED
    BY <2>2 DEF A!Place
<1>2. CASE A!WordInside(a)
  <2>1. a < argsSz /\ (a + WORD) % ADDRWRAP <= argsSz
    BY <1>2 DEF A!WordInside
  <2>2. a + WORD \in 0..ADDRWRAP - 1
    BY <2>1, <1>1 DEF ArgsSizes
  <2>3. a + WORD <= argsSz
    BY <2>1, <2>2, D!ModPos DEF ArgsSizes
  <2>4. A!Word(n) = {a + i : i \in 0..WORD - 1}
    BY <1>2 DEF A!Word
  <2> HIDE DEF a
  <2>5. QED
    BY <2>3, <2>4, <1>1 DEF ArgsSizes
<1>3. CASE ~A!WordInside(a)
  BY <1>3 DEF A!Word
<1>4. QED
  BY <1>2, <1>3

\* So does a block.
LEMMA BlockIn ==
  ASSUME ArgsSizes, NEW len \in Nat, argsSz \in ProcSizes, value \in 0..ADDRWRAP - 1,
         A!BlockInside(value, len)
  PROVE  value + len <= argsSz /\ len < ADDRWRAP \div 2
<1>1. len < ADDRWRAP \div 2 /\ value < argsSz /\ (value + len) % ADDRWRAP <= argsSz
  BY DEF A!BlockInside, A!Sane
<1>2. value + len \in 0..ADDRWRAP - 1
  BY <1>1 DEF ArgsSizes
<1>3. QED
  BY <1>1, <1>2, D!ModPos DEF ArgsSizes

\* What argint, argptr and argstr read of the stack, and of a string.
LEMMA StringIn ==
  ASSUME ArgsSizes, argsSz \in ProcSizes, esp \in 0..ADDRWRAP - 1, value \in 0..ADDRWRAP - 1, nul \in Nat
  PROVE  /\ A!ArgStr.reads \subseteq 0..argsSz - 1
         /\ A!ArgStr.ok => value + A!ArgStr.len < argsSz /\ nul = value + A!ArgStr.len /\ A!ArgStr.at = value
         /\ ~A!ArgStr.ok /\ A!Word(0) # {} /\ value < argsSz => nul < value \/ nul >= argsSz
<1>1. A!Word(0) \subseteq 0..argsSz - 1
  BY WordIn
<1>2. argsSz \in Nat /\ value \in Nat
  BY DEF ArgsSizes
<1>3. CASE A!Word(0) = {} \/ value >= argsSz
  <2>1. A!ArgStr = [A!Nothing EXCEPT !.reads = A!Word(0)]
    BY <1>3 DEF A!ArgStr
  <2>2. A!ArgStr.reads = A!Word(0) /\ A!ArgStr.ok = FALSE
    BY <2>1 DEF A!Nothing
  <2>3. QED
    BY <1>1, <1>2, <1>3, <2>2
<1>4. CASE ~(A!Word(0) = {} \/ value >= argsSz)
  <2>1. A!ArgStr = [ok |-> nul >= value /\ nul < A!End, reads |-> A!Word(0) \union A!StringReads(value),
                    at |-> value, len |-> nul - value]
    BY <1>4 DEF A!ArgStr
  <2>2. /\ A!ArgStr.ok <=> nul >= value /\ nul < argsSz
        /\ A!ArgStr.reads = A!Word(0) \union A!StringReads(value)
        /\ A!ArgStr.at = value /\ A!ArgStr.len = nul - value
    BY <2>1 DEF A!End
  <2>3. A!StringReads(value) \subseteq 0..argsSz - 1
    BY <1>2, <1>4 DEF A!StringReads, A!End
  <2>4. A!ArgStr.reads \subseteq 0..argsSz - 1
    BY <1>1, <2>2, <2>3
  <2>5. QED
    BY <1>2, <1>4, <2>2, <2>4
<1>5. QED
  BY <1>3, <1>4

\* What the kernel got is what its code makes of the registers and the memory.
ArgsTypes ==
  /\ argsSz \in Nat /\ esp \in 0..ADDRWRAP - 1 /\ value \in 0..ADDRWRAP - 1 /\ nul \in Nat

Fetched ==
  \/ asked = [kind |-> "int", len |-> 0] /\ argsGot = A!ArgInt
  \/ \E n \in Lengths : asked = [kind |-> "ptr", len |-> n] /\ argsGot = A!ArgPtr(n)
  \/ \E n \in Lengths : asked = [kind |-> "wolfie", len |-> n] /\ argsGot = A!Wolfie(n)
  \/ asked = [kind |-> "info", len |-> INFO] /\ argsGot = A!ProcInfo
  \/ asked = [kind |-> "str", len |-> 0] /\ argsGot = A!ArgStr

ArgsInv ==
  /\ ArgsTypes
  /\ \/ asked = [kind |-> "none", len |-> 0] /\ argsGot = A!Nothing
     \/ asked = [kind |-> "call", len |-> 0] /\ argsGot = [A!Nothing EXCEPT !.ok = A!Known(eax)]
     \/ argsSz \in ProcSizes /\ Fetched

LEMMA ArgsInit == ASSUME ArgsSizes, A!Init PROVE ArgsInv
  BY DEF ArgsSizes, A!Init, ArgsInv, ArgsTypes

LEMMA ArgsNext == ASSUME ArgsSizes, ArgsInv, [A!Next]_(A!avars) PROVE ArgsInv'
<1>1. CASE A!Syscall
  <2>1. argsSz' \in ProcSizes /\ esp' \in 0..ADDRWRAP - 1 /\ value' \in 0..ADDRWRAP - 1
    BY <1>1 DEF A!Syscall
  <2>2. argsSz' \in Nat
    BY <2>1 DEF ArgsSizes
  <2>3. \A n \in 0..A!Max(ProcSizes) : n \in Nat
    <3> ProcSizes \in SUBSET Nat
      BY DEF ArgsSizes
    <3>1. \E m \in ProcSizes : \A n \in ProcSizes : n <= m
      <4>1. ProcSizes \in SUBSET Nat /\ ProcSizes # {} /\ ADDRWRAP \div 2 \in Nat /\ \A n \in ProcSizes : n <= ADDRWRAP \div 2
        BY <2>1 DEF ArgsSizes
      <4>2. QED
        BY <4>1, D!Greatest
    <3>2. A!Max(ProcSizes) \in ProcSizes
      BY <3>1 DEF A!Max
    <3>3. A!Max(ProcSizes) \in Nat
      BY <3>2
    <3>4. QED
      BY <3>3
  <2>4. nul' \in Nat /\ Fetched'
    <3>1. A!Fetch
      BY <1>1 DEF A!Syscall
    <3>2. CASE asked' = [kind |-> "int", len |-> 0] /\ argsGot' = A!ArgInt' /\ UNCHANGED nul
      BY <3>2 DEF ArgsInv, ArgsTypes, Fetched
    <3>3. ASSUME NEW n \in Lengths, asked' = [kind |-> "ptr", len |-> n], argsGot' = A!ArgPtr(n)', UNCHANGED nul
          PROVE  nul' \in Nat /\ Fetched'
      BY <3>3 DEF ArgsInv, ArgsTypes, Fetched
    <3>4. ASSUME NEW n \in Lengths, asked' = [kind |-> "wolfie", len |-> n], argsGot' = A!Wolfie(n)', UNCHANGED nul
          PROVE  nul' \in Nat /\ Fetched'
      BY <3>4 DEF ArgsInv, ArgsTypes, Fetched
    <3>5. CASE asked' = [kind |-> "info", len |-> INFO] /\ argsGot' = A!ProcInfo' /\ UNCHANGED nul
      BY <3>5 DEF ArgsInv, ArgsTypes, Fetched
    <3>6. CASE nul' \in 0..A!Max(ProcSizes) /\ asked' = [kind |-> "str", len |-> 0] /\ argsGot' = A!ArgStr'
      BY <2>3, <3>6 DEF Fetched
    <3>7. QED
      BY <3>1, <3>2, <3>3, <3>4, <3>5, <3>6 DEF A!Fetch
  <2>5. QED
    BY <2>1, <2>2, <2>4 DEF ArgsInv, ArgsTypes
<1>2. CASE A!Dispatch
  BY <1>2 DEF A!Dispatch, ArgsInv, ArgsTypes, A!Nothing, A!Known
<1>3. CASE UNCHANGED A!avars
  <2>1. UNCHANGED <<argsSz, esp, eax, value, nul, asked, argsGot>>
    BY <1>3 DEF A!avars
  <2>2. ArgsTypes' /\ (argsSz' \in ProcSizes <=> argsSz \in ProcSizes) /\ A!Known(eax)' = A!Known(eax)
    BY <2>1 DEF ArgsInv, ArgsTypes, A!Known
  <2>3. Fetched' = Fetched
    BY <2>1 DEF Fetched, A!ArgInt, A!ArgPtr, A!Wolfie, A!ProcInfo, A!ArgStr, A!Word, A!WordInside, A!Place,
                A!StringReads, A!BlockInside, A!Sane, A!Holds, A!End, A!Nothing
  <2>4. QED
    BY <2>1, <2>2, <2>3 DEF ArgsInv
<1>4. QED
  BY <1>1, <1>2, <1>3 DEF A!Next

LEMMA ArgsMeans == ASSUME ArgsSizes, ArgsInv PROVE Asked
<1>1. CASE asked = [kind |-> "none", len |-> 0] /\ argsGot = A!Nothing
  BY <1>1 DEF Asked, A!Nothing, A!ReadsInside, A!BlocksInside, A!StringsEnd, A!CallsExist, A!WolfieFits
<1>2. CASE asked = [kind |-> "call", len |-> 0] /\ argsGot = [A!Nothing EXCEPT !.ok = A!Known(eax)]
  <2>1. asked.kind = "call" /\ argsGot.ok = A!Known(eax) /\ argsGot.reads = {}
    BY <1>2 DEF A!Nothing
  <2>2. A!Known(eax) <=> eax \in Implemented
    BY MaxImplemented DEF A!Known
  <2>3. QED
    BY <2>1, <2>2 DEF Asked, A!ReadsInside, A!BlocksInside, A!StringsEnd, A!CallsExist, A!WolfieFits
<1>3. CASE argsSz \in ProcSizes /\ Fetched
  <2>1. /\ esp \in 0..ADDRWRAP - 1 /\ value \in 0..ADDRWRAP - 1 /\ nul \in Nat /\ argsSz \in ProcSizes
        /\ INFO \in Nat
    BY <1>3 DEF ArgsInv, ArgsTypes, ArgsSizes
  <2>2. A!Word(0) \subseteq 0..argsSz - 1 /\ A!Word(1) \subseteq 0..argsSz - 1
    BY <2>1, WordIn
  <2>3. CASE asked = [kind |-> "int", len |-> 0] /\ argsGot = A!ArgInt
    <3>1. asked.kind = "int" /\ argsGot.reads = A!Word(0)
      BY <2>3 DEF A!ArgInt
    <3>2. QED
      BY <2>2, <3>1 DEF Asked, A!ReadsInside, A!BlocksInside, A!StringsEnd, A!CallsExist, A!WolfieFits
  <2>4. ASSUME NEW n \in Lengths, asked = [kind |-> "ptr", len |-> n], argsGot = A!ArgPtr(n)
        PROVE  Asked
    <3>1. /\ asked.kind = "ptr" /\ argsGot.reads \subseteq A!Word(0)
          /\ argsGot.ok => argsGot.at = value /\ argsGot.len = n /\ A!BlockInside(value, n)
      BY <2>4 DEF A!ArgPtr, A!Nothing
    <3>2. argsGot.ok => value + n <= argsSz /\ n < ADDRWRAP \div 2
      <4>1. n \in Nat
        BY DEF ArgsSizes
      <4>2. QED
        BY <2>1, <3>1, <4>1, BlockIn
    <3>3. argsGot.ok => argsGot.at + argsGot.len <= argsSz /\ argsGot.len < ADDRWRAP \div 2
      BY <3>1, <3>2
    <3>4. QED
      BY <2>2, <3>1, <3>3 DEF Asked, A!ReadsInside, A!BlocksInside, A!StringsEnd, A!CallsExist, A!WolfieFits
  <2>5. ASSUME NEW n \in Lengths, asked = [kind |-> "wolfie", len |-> n], argsGot = A!Wolfie(n)
        PROVE  Asked
    <3>1. /\ asked.kind = "wolfie" /\ asked.len = n /\ argsGot.reads = A!Word(0) \union A!Word(1)
          /\ argsGot.ok => argsGot.at = value /\ argsGot.len = WOLFIE /\ WOLFIE <= n /\ A!ArgPtr(n).ok
      BY <2>5 DEF A!Wolfie, A!Nothing, A!Holds
    <3>2. A!ArgPtr(n).ok => A!BlockInside(value, n)
      BY DEF A!ArgPtr, A!Nothing
    <3>3. argsGot.ok => value + n <= argsSz
      <4>1. n \in Nat
        BY DEF ArgsSizes
      <4>2. QED
        BY <2>1, <3>1, <3>2, <4>1, BlockIn
    <3>4. argsGot.ok => argsGot.at + argsGot.len <= argsSz /\ argsGot.len <= asked.len
      <4>1. n \in Nat /\ WOLFIE \in Nat /\ value \in Nat /\ argsSz \in Nat
        BY <2>1 DEF ArgsSizes
      <4>2. QED
        BY <3>1, <3>3, <4>1
    <3>5. QED
      BY <2>2, <3>1, <3>4 DEF Asked, A!ReadsInside, A!BlocksInside, A!StringsEnd, A!CallsExist, A!WolfieFits
  <2>6. CASE asked = [kind |-> "info", len |-> INFO] /\ argsGot = A!ProcInfo
    <3>1. /\ asked.kind = "info" /\ argsGot.reads \subseteq A!Word(0) \union A!Word(1)
          /\ argsGot.ok => argsGot.at = value /\ argsGot.len = INFO /\ A!BlockInside(value, INFO)
      BY <2>6 DEF A!ProcInfo, A!Nothing
    <3>2. argsGot.ok => value + INFO <= argsSz /\ INFO < ADDRWRAP \div 2
      BY <2>1, <3>1, BlockIn
    <3>3. argsGot.ok => argsGot.at + argsGot.len <= argsSz /\ argsGot.len < ADDRWRAP \div 2
      BY <3>1, <3>2
    <3>4. QED
      BY <2>2, <3>1, <3>3 DEF Asked, A!ReadsInside, A!BlocksInside, A!StringsEnd, A!CallsExist, A!WolfieFits
  <2>7. CASE asked = [kind |-> "str", len |-> 0] /\ argsGot = A!ArgStr
    <3>1. asked.kind = "str" /\ argsGot = A!ArgStr
      BY <2>7
    <3>2. /\ argsGot.reads \subseteq 0..argsSz - 1
          /\ argsGot.ok => argsGot.at + argsGot.len < argsSz /\ nul = argsGot.at + argsGot.len
          /\ ~argsGot.ok /\ A!Word(0) # {} /\ value < argsSz => nul < value \/ nul >= argsSz
      BY <2>1, <3>1, StringIn
    <3>3. QED
      BY <3>1, <3>2 DEF Asked, A!ReadsInside, A!BlocksInside, A!StringsEnd, A!CallsExist, A!WolfieFits
  <2>8. QED
    BY <1>3, <2>3, <2>4, <2>5, <2>6, <2>7 DEF Fetched
<1>4. QED
  BY <1>1, <1>2, <1>3 DEF ArgsInv

THEOREM Fetching ==
  ASSUME ArgsSizes
  PROVE  A!Spec => [](A!ReadsInside /\ A!BlocksInside /\ A!StringsEnd /\ A!CallsExist /\ A!WolfieFits)
<1>1. A!Init => ArgsInv
  BY ArgsInit
<1>2. ArgsInv /\ [A!Next]_(A!avars) => ArgsInv'
  BY ArgsNext
<1>3. ArgsInv => A!ReadsInside /\ A!BlocksInside /\ A!StringsEnd /\ A!CallsExist /\ A!WolfieFits
  BY ArgsMeans DEF Asked
<1>4. QED
  BY <1>1, <1>2, <1>3, PTL DEF A!Spec

\* Whatever registers and memory a process shows it, the kernel reads and accepts only what is
\* inside the process.
THEOREM ArgsSafe ==
  ASSUME ArgsSizes
  PROVE  PartsSpec => []ArgsInside
<1>1. PartsInit => A!Init
  BY DEF PartsInit
<1>2. [PartsNext]_<<part, partsvars>> => [A!Next]_(A!avars)
  BY DEF PartsNext, partsvars, argsvars, A!avars
<1>3. A!ReadsInside /\ A!BlocksInside /\ A!StringsEnd /\ A!CallsExist /\ A!WolfieFits => ArgsInside
  BY DEF ArgsInside
<1>4. QED
  BY <1>1, <1>2, <1>3, Fetching, PTL DEF PartsSpec, A!Spec
==============================================================================
