------------------------------ MODULE GcdSched ------------------------------
(***************************************************************************)
(* The priority scheduler of Assignment-2/180050024 (proc.c) on one CPU.   *)
(* A round takes the greatest common divisor of the priorities of the      *)
(* runnable processes and passes over the table with a threshold (start)   *)
(* that goes down from the highest priority in steps of it; each pass runs *)
(* every process at or above the threshold once.                           *)
(*                                                                         *)
(* What is done under ptable.lock is one action; between two of them       *)
(* interrupts wake sleepers.                                               *)
(***************************************************************************)
EXTENDS Naturals, FiniteSets, FiniteSetsExt

CONSTANTS NPROC, Prios, MaxCalls

Slots == 1..NPROC
Init1 == 1              \* initproc

VARIABLES
  gst, gparent, prio, gpid,    \* struct proc
  nextpid, stillborn,          \* the slots whose last fork failed
  phase, start, procgcd, gpos, \* scheduler(): where it is, and its locals
  cur,                         \* c->proc
  gstage, baby,                \* how far fork is, and the slot it fills
  slices, steady,              \* slices in this round; runnable since it began, with the same priority
  gcalls

gvars == <<gst, gparent, prio, gpid, nextpid, stillborn, phase, start, procgcd, gpos, cur, gstage, baby, slices, steady, gcalls>>

Init ==
  /\ gst = [s \in Slots |-> IF s = Init1 THEN "RUNNABLE" ELSE "UNUSED"]
  /\ gparent = [s \in Slots |-> 0] /\ prio = [s \in Slots |-> IF s = Init1 THEN 1 ELSE 0]
  /\ gpid = [s \in Slots |-> IF s = Init1 THEN 1 ELSE 0] /\ nextpid = 2 /\ stillborn = {}
  /\ phase = "first" /\ start = 0 /\ procgcd = 0 /\ gpos = 1 /\ cur = 0
  /\ gstage = [s \in Slots |-> "user"] /\ baby = [s \in Slots |-> 0]
  /\ slices = [s \in Slots |-> 0] /\ steady = {} /\ gcalls = 0

-----------------------------------------------------------------------------
(* scheduler() *)

Runnable == {s \in Slots : gst[s] = "RUNNABLE"}

\* what the loops of subtractions leave of the priorities they went through
Gcd(S) == Max({d \in 1..Min(S) : \A n \in S : n % d = 0})

\* the first runnable process gives the first value
First ==
  /\ phase = "first" /\ Runnable # {}
  /\ procgcd' = prio[Min(Runnable)] /\ start' = 0 /\ phase' = "gcd"
  /\ UNCHANGED <<gpid, nextpid, stillborn, gst, gparent, prio, gpos, cur, gstage, baby, slices, steady, gcalls>>

Divide ==
  /\ phase = "gcd"
  /\ procgcd' = Gcd({procgcd} \cup {prio[s] : s \in Runnable})
  /\ start' = Max({0} \cup {prio[s] : s \in Runnable})
  /\ phase' = IF Runnable = {} THEN "first" ELSE "pass"
  /\ slices' = [s \in Slots |-> 0] /\ steady' = Runnable
  /\ UNCHANGED <<gpid, nextpid, stillborn, gst, gparent, prio, gpos, cur, gstage, baby, gcalls>>

Ahead == {s \in Runnable : s >= gpos /\ prio[s] >= start}

Dispatch ==
  LET p == Min(Ahead) IN
  /\ phase = "pass" /\ cur = 0 /\ Ahead # {}
  /\ cur' = p /\ gpos' = p + 1 /\ gst' = [gst EXCEPT ![p] = "RUNNING"]
  /\ slices' = [slices EXCEPT ![p] = @ + 1]
  /\ UNCHANGED <<gpid, nextpid, stillborn, gparent, prio, phase, start, procgcd, gstage, baby, steady, gcalls>>

\* the end of a pass: the next threshold (mutant: down by one, whatever the divisor)
BadLower == start - 1
Lower == IF procgcd > 0 /\ start >= procgcd THEN start - procgcd ELSE start - 1

NextPass ==
  /\ phase = "pass" /\ cur = 0 /\ Ahead = {}
  /\ start' = Lower /\ gpos' = 1
  /\ phase' = IF Lower = 0 THEN "first" ELSE "pass"
  /\ UNCHANGED <<gpid, nextpid, stillborn, gst, gparent, prio, procgcd, cur, gstage, baby, slices, steady, gcalls>>

Scheduler == First \/ Divide \/ Dispatch \/ NextPass

\* sched(): the CPU goes back to the scheduler (mutant: it keeps its process)
BadLeave(to) == gst' = [gst EXCEPT ![cur] = to] /\ UNCHANGED cur
Leave(to) == gst' = [gst EXCEPT ![cur] = to] /\ cur' = 0

\* the timer, or sys_yield
Yield ==
  /\ cur # 0 /\ Leave("RUNNABLE")
  /\ UNCHANGED <<gpid, nextpid, stillborn, gparent, prio, phase, start, procgcd, gpos, gstage, baby, slices, steady, gcalls>>

-----------------------------------------------------------------------------
(* setprio, fork, exit, wait *)

SetPrio ==
  /\ cur # 0 /\ gstage[cur] = "user" /\ gcalls < MaxCalls
  /\ \E n \in Prios : n >= 1 /\ prio' = [prio EXCEPT ![cur] = n]
  /\ steady' = steady \ {cur} /\ gcalls' = gcalls + 1
  /\ UNCHANGED <<gpid, nextpid, stillborn, gst, gparent, phase, start, procgcd, gpos, cur, gstage, baby, slices>>

\* allocproc: a slot with priority 1, and in a second critical section the
\* highest priority there is
AllocProc ==
  LET free == {t \in Slots : gst[t] = "UNUSED"}  t == Min(free) IN
  /\ cur # 0 /\ gstage[cur] = "user" /\ gcalls < MaxCalls /\ free # {}
  /\ gst' = [gst EXCEPT ![t] = "EMBRYO"] /\ prio' = [prio EXCEPT ![t] = 1]
  /\ gpid' = [gpid EXCEPT ![t] = nextpid] /\ nextpid' = nextpid + 1 /\ stillborn' = stillborn \ {t}
  /\ baby' = [baby EXCEPT ![cur] = t] /\ gstage' = [gstage EXCEPT ![cur] = "inherit"]
  /\ gcalls' = gcalls + 1
  /\ UNCHANGED <<gparent, phase, start, procgcd, gpos, cur, slices, steady>>

Highest == Max({1} \cup {prio[s] : s \in {t \in Slots : gst[t] # "UNUSED"}})

Inherit ==
  /\ cur # 0 /\ gstage[cur] = "inherit"
  /\ prio' = [prio EXCEPT ![baby[cur]] = Highest]
  /\ gstage' = [gstage EXCEPT ![cur] = "fork"]
  /\ UNCHANGED <<gpid, nextpid, stillborn, gst, gparent, phase, start, procgcd, gpos, cur, baby, slices, steady, gcalls>>

\* the rest of fork; it fails when memory is out
Fork ==
  LET t == baby[cur] IN
  /\ cur # 0 /\ gstage[cur] = "fork"
  /\ \/ gst' = [gst EXCEPT ![t] = "RUNNABLE"] /\ gparent' = [gparent EXCEPT ![t] = cur] /\ UNCHANGED stillborn
     \/ gst' = [gst EXCEPT ![t] = "UNUSED"] /\ stillborn' = stillborn \cup {t} /\ UNCHANGED gparent
  /\ gstage' = [gstage EXCEPT ![cur] = "user"] /\ baby' = [baby EXCEPT ![cur] = 0]
  /\ UNCHANGED <<prio, gpid, nextpid, phase, start, procgcd, gpos, cur, slices, steady, gcalls>>

Exit ==
  LET woken == {gparent[cur]} \cup (IF \E t \in Slots : gparent[t] = cur /\ gst[t] = "ZOMBIE" THEN {Init1} ELSE {}) IN
  /\ cur \notin {0, Init1} /\ gstage[cur] = "user"
  /\ gparent' = [t \in Slots |-> IF gparent[t] = cur THEN Init1 ELSE gparent[t]]
  /\ gst' = [t \in Slots |-> IF t = cur THEN "ZOMBIE"
                             ELSE IF t \in woken /\ gst[t] = "SLEEPING" THEN "RUNNABLE" ELSE gst[t]]
  /\ steady' = steady \ {cur} /\ cur' = 0
  /\ UNCHANGED <<gpid, nextpid, stillborn, prio, phase, start, procgcd, gpos, gstage, baby, slices, gcalls>>

\* what wait leaves of the pid (mutant: all of it)
BadForgotten(t) == gpid
Forgotten(t) == [gpid EXCEPT ![t] = 0]

Wait ==
  LET kids == {t \in Slots : gparent[t] = cur}  dead == {t \in kids : gst[t] = "ZOMBIE"} IN
  /\ cur # 0 /\ gstage[cur] = "user" /\ kids # {}
  /\ IF dead = {} THEN Leave("SLEEPING") /\ steady' = steady \ {cur} /\ UNCHANGED <<gparent, gpid>>
     ELSE /\ gst' = [gst EXCEPT ![Min(dead)] = "UNUSED"] /\ gpid' = Forgotten(Min(dead))
          /\ gparent' = [gparent EXCEPT ![Min(dead)] = 0] /\ UNCHANGED <<cur, steady>>
  /\ UNCHANGED <<prio, nextpid, stillborn, phase, start, procgcd, gpos, gstage, baby, slices, gcalls>>

\* wakeup or kill, from an interrupt or the running process
Wakeup(s) ==
  /\ gst[s] = "SLEEPING" /\ gst' = [gst EXCEPT ![s] = "RUNNABLE"]
  /\ UNCHANGED <<gpid, nextpid, stillborn, gparent, prio, phase, start, procgcd, gpos, cur, gstage, baby, slices, steady, gcalls>>

\* getNumProc, getMaxPid and getProcInfo, under ptable.lock
Active == {s \in Slots : gst[s] # "UNUSED"}
NumProc == Cardinality(Active)
MaxPid == Max({gpid[s] : s \in Slots})
ProcInfo(pid) == {s \in Active : gpid[s] = pid}

Next ==
  \/ Scheduler \/ Yield \/ SetPrio \/ AllocProc \/ Inherit \/ Fork \/ Exit \/ Wait
  \/ \E s \in Slots : Wakeup(s)

Spec == Init /\ [][Next]_gvars

-----------------------------------------------------------------------------
(* Properties *)

\* The process table and the scheduler are in states they can be in.
TypeOK ==
  /\ gst \in [Slots -> {"UNUSED", "EMBRYO", "SLEEPING", "RUNNABLE", "RUNNING", "ZOMBIE"}]
  /\ start \in {0} \cup 1..Max(Prios) /\ gpos \in 1..NPROC + 1 /\ gparent \in [Slots -> 0..NPROC]
  /\ {s \in Slots : gst[s] = "RUNNING"} = {cur} \ {0}
  /\ \A s \in Slots : gst[s] # "UNUSED" => prio[s] \in Prios

\* A round gives every process its share: one that was runnable when it began and
\* has kept its priority since has run priority / procgcd times when it is over.
RoundShares ==
  phase = "first" => \A s \in steady : slices[s] * procgcd = prio[s]

\* What processes are told of each other: a pid finds at most one process, the pids of as
\* many as there are differ, and the highest is that of one of them, or of a process whose
\* fork failed (the slot keeps its pid, and getMaxPid looks at free slots too).
PidsIdentify ==
  /\ Cardinality({gpid[s] : s \in Active}) = NumProc
  /\ \A s \in Active : ProcInfo(gpid[s]) = {s}
  /\ stillborn = {} => ProcInfo(MaxPid) # {}
=============================================================================
