----------------------------- MODULE BurstSched -----------------------------
(***************************************************************************)
(* The schedulers of Assignment-2/Group 3 (proc.c, trap.c): shortest job   *)
(* first by a burst time that each process sets for itself (SJF), and the  *)
(* hybrid that lets every process run once a round and preempts it after   *)
(* TimeQuanta ticks (HBSJF).                                               *)
(*                                                                         *)
(* What is done under ptable.lock is one action.  The scheduler of a CPU   *)
(* keeps its place in the table (bpos) while a process runs.  Whether a    *)
(* tick completes a quantum (runningTime) is left open; numOfSwitches,     *)
(* which nothing depends on, is left out.                                  *)
(***************************************************************************)
EXTENDS Naturals, FiniteSets, FiniteSetsExt, Functions

CONSTANTS Cpus, NPROC, Bursts, Quantum0, MaxCalls

Slots == 1..NPROC
Init1 == 1              \* initproc

VARIABLES
  policy,                         \* "SJF" or "HBSJF": which of the two the kernel is built with
  st, parent, burst, ran,         \* struct proc: ran is alreadyRun
  bpos, onCpu,                    \* scheduler(): the next slot; c->proc
  stage, want,                    \* how far a process is in set_burst_time or fork
  quantum,                        \* TimeQuanta
  least, raced,                   \* the least burst time set; a lower quantum was overwritten
  watched,                        \* a runnable process
  rival, passed,                  \* another, and how often it was dispatched since (at most 3)
  ncalls

bvars == <<policy, st, parent, burst, ran, bpos, onCpu, stage, want, quantum, least, raced, watched, rival, passed, ncalls>>

Init ==
  /\ policy \in {"SJF", "HBSJF"}
  /\ st = [s \in Slots |-> IF s = Init1 THEN "RUNNABLE" ELSE "UNUSED"]
  /\ parent = [s \in Slots |-> 0] /\ burst = parent
  /\ ran = [s \in Slots |-> FALSE]
  /\ bpos = [c \in Cpus |-> 1] /\ onCpu = [c \in Cpus |-> 0]
  /\ stage = [s \in Slots |-> "user"] /\ want = [s \in Slots |-> 0]
  /\ quantum = Quantum0 /\ least = Quantum0 /\ raced = FALSE
  /\ watched = 0 /\ rival = 0 /\ passed = 0 /\ ncalls = 0

-----------------------------------------------------------------------------
(* scheduler() *)

Runnable == {s \in Slots : st[s] = "RUNNABLE"}

\* the first slot in S of the lowest burst time; p, when there is none lower
FirstLowest(S)  == Min({s \in S : \A t \in S : burst[s] <= burst[t]})
LowestFrom(p, S) == IF \A t \in S : burst[p] <= burst[t] THEN p ELSE FirstLowest(S)

\* who has not run in this round
Fresh == {s \in Runnable : ~ran[s]}

\* (mutant: a process that has run is not told from one that has not)
BadChoice(p) == LowestFrom(p, Runnable)
Choice(p) ==
  CASE policy = "SJF"   -> LowestFrom(p, Runnable)
    [] policy = "HBSJF" -> IF Fresh = {} THEN LowestFrom(p, Runnable) ELSE FirstLowest(Fresh)
    [] OTHER -> p

Dispatch(c) ==
  LET ahead == {s \in Runnable : s >= bpos[c]}  p == Choice(Min(ahead)) IN
  /\ onCpu[c] = 0 /\ ahead # {}
  /\ onCpu' = [onCpu EXCEPT ![c] = p] /\ bpos' = [bpos EXCEPT ![c] = p + 1]
  /\ st' = [st EXCEPT ![p] = "RUNNING"]
  /\ ran' = IF policy = "HBSJF" /\ Fresh = {} THEN [s \in Slots |-> s = p] ELSE [ran EXCEPT ![p] = TRUE]
  /\ IF watched = p THEN watched' = 0 /\ rival' = 0 /\ passed' = 0
     ELSE passed' = (IF rival = p /\ passed < 3 THEN passed + 1 ELSE passed) /\ UNCHANGED <<watched, rival>>
  /\ UNCHANGED <<parent, burst, stage, want, quantum, least, raced, ncalls>>

\* the end of the table: ptable.lock is released and the scan starts again
Rescan(c) ==
  /\ onCpu[c] = 0 /\ bpos[c] > 1 /\ \A s \in Runnable : s < bpos[c]
  /\ bpos' = [bpos EXCEPT ![c] = 1]
  /\ UNCHANGED <<st, parent, burst, ran, onCpu, stage, want, quantum, least, raced, watched, rival, passed, ncalls>>

\* sched(): the process on c goes to state to (mutant: it forgets to)
BadLeave(c, to) == UNCHANGED st /\ onCpu' = [onCpu EXCEPT ![c] = 0]
Leave(c, to) ==
  /\ st' = [st EXCEPT ![onCpu[c]] = to]
  /\ onCpu' = [onCpu EXCEPT ![c] = 0]

Yield(c) ==
  /\ onCpu[c] # 0 /\ stage[onCpu[c]] = "user"
  /\ Leave(c, "RUNNABLE")
  /\ UNCHANGED <<parent, burst, ran, bpos, stage, want, quantum, least, raced, watched, rival, passed, ncalls>>

\* a timer interrupt: time_checker may have counted a whole quantum
Tick(c) ==
  /\ onCpu[c] # 0 /\ policy # "SJF"
  /\ Leave(c, "RUNNABLE")
  /\ UNCHANGED <<parent, burst, ran, bpos, stage, want, quantum, least, raced, watched, rival, passed, ncalls>>

-----------------------------------------------------------------------------
(* set_burst_time *)

SetBurst(c) ==
  LET s == onCpu[c] IN
  /\ s # 0 /\ stage[s] = "user" /\ ncalls < MaxCalls /\ ncalls' = ncalls + 1
  /\ \E n \in Bursts :
       /\ n >= 1
       /\ burst' = [burst EXCEPT ![s] = n] /\ want' = [want EXCEPT ![s] = n]
       /\ least' = IF n < least THEN n ELSE least
  /\ stage' = [stage EXCEPT ![s] = "test"]
  /\ UNCHANGED <<st, parent, ran, bpos, onCpu, quantum, raced, watched, rival, passed>>

\* if(n < TimeQuanta), without the lock (mutant: only a larger one is taken)
BadSmaller(n) == n > quantum
Smaller(n) == n < quantum

TestQuantum(c) ==
  LET s == onCpu[c] IN
  /\ s # 0 /\ stage[s] = "test"
  /\ stage' = [stage EXCEPT ![s] = IF Smaller(want[s]) THEN "write" ELSE "yield"]
  /\ UNCHANGED <<st, parent, burst, ran, bpos, onCpu, want, quantum, least, raced, watched, rival, passed, ncalls>>

WriteQuantum(c) ==
  LET s == onCpu[c] IN
  /\ s # 0 /\ stage[s] = "write"
  /\ quantum' = want[s] /\ raced' = (raced \/ quantum < want[s])
  /\ stage' = [stage EXCEPT ![s] = "yield"]
  /\ UNCHANGED <<st, parent, burst, ran, bpos, onCpu, want, least, watched, rival, passed, ncalls>>

BurstYield(c) ==
  LET s == onCpu[c] IN
  /\ s # 0 /\ stage[s] = "yield"
  /\ stage' = [stage EXCEPT ![s] = "user"] /\ want' = [want EXCEPT ![s] = 0]
  /\ Leave(c, "RUNNABLE")
  /\ UNCHANGED <<parent, burst, ran, bpos, quantum, least, raced, watched, rival, passed, ncalls>>

-----------------------------------------------------------------------------
(* fork, exit, wait, sleep *)

\* allocproc; the fields of the scheduler are set, the parent is not
AllocProc(c) ==
  LET s == onCpu[c]  free == {t \in Slots : st[t] = "UNUSED"}  t == Min(free) IN
  /\ s # 0 /\ stage[s] = "user" /\ ncalls < MaxCalls /\ free # {}
  /\ st' = [st EXCEPT ![t] = "EMBRYO"]
  /\ burst' = [burst EXCEPT ![t] = 0] /\ ran' = [ran EXCEPT ![t] = FALSE]
  /\ passed' = IF rival = t THEN 0 ELSE passed
  /\ stage' = [stage EXCEPT ![s] = "fork"] /\ want' = [want EXCEPT ![s] = t]
  /\ ncalls' = ncalls + 1
  /\ UNCHANGED <<parent, bpos, onCpu, quantum, least, raced, watched, rival>>

\* the rest of fork (mutant: the parent is set by whoever runs the child)
BadForkParent(s, t) == UNCHANGED parent
ForkParent(s, t) == parent' = [parent EXCEPT ![t] = s]

Fork(c) ==
  LET s == onCpu[c]  t == want[s] IN
  /\ s # 0 /\ stage[s] = "fork"
  /\ \/ st' = [st EXCEPT ![t] = "RUNNABLE"] /\ ForkParent(s, t)
     \/ st' = [st EXCEPT ![t] = "UNUSED"] /\ UNCHANGED parent      \* no memory
  /\ stage' = [stage EXCEPT ![s] = "user"] /\ want' = [want EXCEPT ![s] = 0]
  /\ UNCHANGED <<burst, ran, bpos, onCpu, quantum, least, raced, watched, rival, passed, ncalls>>

\* wakeup1(parent), the children to initproc, ZOMBIE (mutant: zombies are not passed on)
BadPassed(s) == [t \in Slots |-> IF parent[t] = s /\ st[t] # "ZOMBIE" THEN Init1 ELSE parent[t]]
Passed(s) == [t \in Slots |-> IF parent[t] = s THEN Init1 ELSE parent[t]]

Exit(c) ==
  LET s == onCpu[c]
      woken == {parent[s]} \cup (IF \E t \in Slots : parent[t] = s /\ st[t] = "ZOMBIE" THEN {Init1} ELSE {})
  IN
  /\ s \notin {0, Init1} /\ stage[s] = "user"
  /\ parent' = Passed(s)
  /\ st' = [t \in Slots |-> IF t = s THEN "ZOMBIE"
                            ELSE IF t \in woken /\ st[t] = "SLEEPING" THEN "RUNNABLE" ELSE st[t]]
  /\ onCpu' = [onCpu EXCEPT ![c] = 0]
  /\ UNCHANGED <<burst, ran, bpos, stage, want, quantum, least, raced, watched, rival, passed, ncalls>>

Kids(s) == {t \in Slots : parent[t] = s}

\* wait: a zombie is freed, or the process sleeps
Wait(c) ==
  LET s == onCpu[c]  dead == {t \in Kids(s) : st[t] = "ZOMBIE"} IN
  /\ s # 0 /\ stage[s] = "user" /\ Kids(s) # {}
  /\ IF dead = {} THEN Leave(c, "SLEEPING") /\ UNCHANGED parent
     ELSE /\ st' = [st EXCEPT ![Min(dead)] = "UNUSED"]
          /\ parent' = [parent EXCEPT ![Min(dead)] = 0] /\ UNCHANGED onCpu
  /\ UNCHANGED <<burst, ran, bpos, stage, want, quantum, least, raced, watched, rival, passed, ncalls>>

\* wakeup, or kill, of a process that sleeps
Wakeup(s) ==
  /\ st[s] = "SLEEPING" /\ st' = [st EXCEPT ![s] = "RUNNABLE"]
  /\ UNCHANGED <<parent, burst, ran, bpos, onCpu, stage, want, quantum, least, raced, watched, rival, passed, ncalls>>

\* from now on who overtakes s is counted
Watch(s) ==
  /\ watched = 0 /\ st[s] = "RUNNABLE" /\ watched' = s /\ rival' \in Slots \ {s}
  /\ UNCHANGED <<st, parent, burst, ran, bpos, onCpu, stage, want, quantum, least, raced, passed, ncalls>>

Process(c) == Yield(c) \/ Tick(c) \/ SetBurst(c) \/ TestQuantum(c) \/ WriteQuantum(c) \/ BurstYield(c)
              \/ AllocProc(c) \/ Fork(c) \/ Exit(c) \/ Wait(c)

Next ==
  /\ \/ \E c \in Cpus : Dispatch(c) \/ Rescan(c) \/ Process(c)
     \/ \E s \in Slots : Wakeup(s) \/ Watch(s)
  /\ UNCHANGED policy

Spec == Init /\ [][Next]_bvars

-----------------------------------------------------------------------------
(* Properties *)

States == {"UNUSED", "EMBRYO", "SLEEPING", "RUNNABLE", "RUNNING", "ZOMBIE"}

\* The fields have their types, and RUNNING says that the process is on one CPU.
TypeOK ==
  /\ st \in [Slots -> States] /\ parent \in [Slots -> 0..NPROC] /\ burst \in [Slots -> {0} \cup Bursts]
  /\ quantum \in Bursts \cup {Quantum0} /\ ran \in [Slots -> BOOLEAN]
  /\ \A s \in Slots : Cardinality({c \in Cpus : onCpu[c] = s}) = (IF st[s] = "RUNNING" THEN 1 ELSE 0)

\* The rounds of HBSJF are fair: while a process is runnable no other one, on any
\* CPU, is dispatched more than twice, once in this round and once in the next.
OvertakenTwice == policy = "HBSJF" => passed <= 2

\* "Setting TimeQuanta equals to minimum burst time set": so it is between calls of
\* set_burst_time, unless one has overwritten the lower quantum of another, whose
\* test and assignment came between its own (nothing locks them).
QuantumIsLeast ==
  (\A s \in Slots : stage[s] \notin {"test", "write"}) => raced \/ quantum = least

\* getProcInfo follows p->parent of whatever is in the table: except for a newborn,
\* whose parent is still null when getProcInfo follows it, and for initproc, that is
\* a process that can still wait.
ParentForInfo ==
  \A s \in Slots \ {Init1} : st[s] \notin {"UNUSED", "EMBRYO"} =>
    parent[s] # 0 /\ st[parent[s]] \in {"RUNNABLE", "RUNNING", "SLEEPING"}
=============================================================================
