-------------------------------- MODULE Clock -------------------------------
(***************************************************************************)
(* sys_sleep against the timer interrupt of CPU 0 and kill (sysproc.c,     *)
(* trap.c).  sys_uptime only reads ticks, under the lock.                  *)
(*                                                                         *)
(* ticks is unsigned and wraps at WRAP, 2^32 in the code; a process asks   *)
(* for a number of ticks of Naps, taken modulo WRAP, so that a negative    *)
(* one is a long sleep.  At most MaxTicks interrupts happen, and none when *)
(* a process would miss WRAP of them in one call.                          *)
(***************************************************************************)
EXTENDS Integers, Sequences, FiniteSets

CONSTANTS Sleepers, Naps, WRAP, MaxTicks

VARIABLES
  ticks, tickslock, fired,          \* the counter, its lock's holder, interrupts so far
  zpc, ticks0, nap, killed,         \* sys_sleep: where, its locals, proc->killed
  elapsed, late                     \* ticks since the call began, slept through since the kill

clockvars == <<ticks, tickslock, fired, zpc, ticks0, nap, killed, elapsed, late>>

Nobody == 0

Init ==
  /\ ticks = WRAP - 2 /\ tickslock = Nobody /\ fired = 0
  /\ zpc = [p \in Sleepers |-> "user"] /\ ticks0 = [p \in Sleepers |-> 0] /\ nap = ticks0
  /\ killed = [p \in Sleepers |-> FALSE] /\ elapsed = ticks0 /\ late = ticks0

-----------------------------------------------------------------------------
(* sys_sleep and the timer.                                                *)

\* how often the timer has fired since ticks0 (mutant: compares the times themselves)
BadPassed(p) == ticks - ticks0[p]
Passed(p) == (ticks - ticks0[p]) % WRAP

CallSleep(p) ==
  /\ zpc[p] = "user" /\ ~killed[p] /\ tickslock = Nobody
  /\ \E n \in Naps : nap' = [nap EXCEPT ![p] = n % WRAP]
  /\ tickslock' = p /\ ticks0' = [ticks0 EXCEPT ![p] = ticks]
  /\ elapsed' = [elapsed EXCEPT ![p] = 0] /\ zpc' = [zpc EXCEPT ![p] = "loop"]
  /\ UNCHANGED <<ticks, fired, killed, late>>

\* sleep() wants the lock held, the returns release it (mutant: the early one does not)
BadHolder(p, where) == IF where = "slept" THEN Nobody ELSE p
Holder(p, where) == IF where = "dozing" THEN p ELSE Nobody

\* proc->killed, at the head of the loop (mutant: ignored)
BadGivesUp(p) == FALSE
GivesUp(p) == killed[p]
Test(p) ==
  /\ zpc[p] = "loop"
  /\ LET again == Passed(p) < nap[p] IN
     zpc' = [zpc EXCEPT ![p] = IF again /\ ~GivesUp(p) THEN "dozing"
                               ELSE IF again THEN "failed" ELSE "slept"]
  /\ tickslock' = Holder(p, zpc'[p])
  /\ UNCHANGED <<ticks, fired, ticks0, nap, killed, elapsed, late>>

\* sleep(&ticks, &tickslock): gives up the lock when it is asleep
Sleep(p) ==
  /\ zpc[p] = "dozing" /\ zpc' = [zpc EXCEPT ![p] = "asleep"] /\ tickslock' = Nobody
  /\ UNCHANGED <<ticks, fired, ticks0, nap, killed, elapsed, late>>

\* back from sleep(), with the lock
Resume(p) ==
  /\ zpc[p] = "woken" /\ tickslock = Nobody
  /\ zpc' = [zpc EXCEPT ![p] = "loop"] /\ tickslock' = p
  /\ UNCHANGED <<ticks, fired, ticks0, nap, killed, elapsed, late>>

\* a process that was killed ends when it returns to user mode
Return(p) ==
  /\ zpc[p] \in {"slept", "failed"}
  /\ zpc' = [zpc EXCEPT ![p] = IF killed[p] THEN "ended" ELSE "user"]
  /\ ticks0' = [ticks0 EXCEPT ![p] = 0] /\ nap' = [nap EXCEPT ![p] = 0]
  /\ elapsed' = [elapsed EXCEPT ![p] = 0] /\ late' = [late EXCEPT ![p] = 0]
  /\ UNCHANGED <<ticks, tickslock, fired, killed>>

\* the timer's interrupt at CPU 0 (mutant: wakes nobody)
BadWake == zpc
Wake == [p \in Sleepers |-> IF zpc[p] = "asleep" THEN "woken" ELSE zpc[p]]
Timer ==
  /\ tickslock = Nobody /\ fired < MaxTicks
  /\ \A p \in Sleepers : zpc[p] \notin {"user", "ended"} => elapsed[p] < WRAP - 1
  /\ fired' = fired + 1 /\ ticks' = (ticks + 1) % WRAP
  /\ zpc' = Wake
  /\ elapsed' = [p \in Sleepers |-> IF zpc[p] \in {"user", "ended"} THEN 0 ELSE elapsed[p] + 1]
  /\ late' = [p \in Sleepers |-> IF killed[p] /\ zpc[p] = "asleep" THEN late[p] + 1 ELSE late[p]]
  /\ UNCHANGED <<tickslock, ticks0, nap, killed>>

\* kill: takes no tickslock, and wakes only a process that sleeps
Kill(p) ==
  /\ ~killed[p]
  /\ killed' = [killed EXCEPT ![p] = TRUE] /\ zpc' = [zpc EXCEPT ![p] = IF @ = "asleep" THEN "woken" ELSE @]
  /\ UNCHANGED <<ticks, tickslock, fired, ticks0, nap, elapsed, late>>

Next ==
  \/ Timer
  \/ \E p \in Sleepers : CallSleep(p) \/ Test(p) \/ Sleep(p) \/ Resume(p) \/ Return(p)
                         \/ Kill(p)

Spec == Init /\ [][Next]_clockvars

-----------------------------------------------------------------------------

\* The lock is held by the one process that is between its test and its sleep.
TypeOK ==
  /\ ticks \in 0..WRAP - 1
  /\ \A p \in Sleepers : tickslock = p <=> zpc[p] \in {"loop", "dozing"}

\* sys_sleep returns 0 only when at least n ticks have passed since it was called, also
\* over the wrap of the counter, and it sleeps on only while they have not.
SleptExactly ==
  \A p \in Sleepers :
    /\ zpc[p] = "slept" => elapsed[p] >= nap[p]
    /\ zpc[p] \in {"dozing", "asleep"} => elapsed[p] < nap[p]

\* A killed process sleeps on for at most one tick: kill wakes it, or, when kill finds it
\* just before it sleeps, the next tick does.
KilledWakes == \A p \in Sleepers : late[p] <= 1
=============================================================================
