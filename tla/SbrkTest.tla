------------------------------ MODULE SbrkTest ------------------------------
(***************************************************************************)
(* sbrktest of Assignment-3/Group_3/Part_A/usertests.c, run on the user    *)
(* memory of AddrSpace: it grows byte by byte, forks, grows to BIG, gives  *)
(* a page back and takes it again, reads the kernel's memory, and has its  *)
(* children use up all of the memory.                                      *)
(*                                                                         *)
(* The parent is the process First; step is its place in the test, saved   *)
(* what it keeps of an earlier sbrk, kid a child's place.                  *)
(***************************************************************************)
EXTENDS AddrSpace

CONSTANTS BIG, SMALL          \* the size to grow to; how many times one byte

VARIABLES step, saved, oldbrk, lastbyte, kid, started, sat, verdict

testvars == <<step, saved, oldbrk, lastbyte, kid, started, sat, verdict>>

Kids == Procs \ {First}
Program == [segs |-> <<[vaddr |-> 0, memsz |-> 1, filesz |-> 1, readable |-> TRUE]>>, args |-> 1]

TestInit ==
  /\ Init
  /\ step = "exec" /\ saved = 0 /\ oldbrk = 0 /\ lastbyte = "none"
  /\ kid = [q \in Kids |-> "none"] /\ started = 0 /\ sat = 0 /\ verdict = "running"

-----------------------------------------------------------------------------
(* Helpers                                                                 *)

On(s) == step = s /\ verdict = "running"
Failed(p, n) == ~Grown(p, n).ok \/ NewSize(p, n) = 0

\* *lastaddr lives in the last page below BIG: gone with it, and zero in a new one (mutant:
\* kalloc's page as it is)
BadFresh == "written"
Fresh == "zero"
LastByte(n) ==
  LET last == BIG - 1  there == sz[First] > last  will == ~Failed(First, n) /\ NewSize(First, n) > last IN
  IF there /\ ~will THEN "none"
  ELSE IF ~there /\ will THEN (IF lastbyte = "none" THEN Fresh ELSE lastbyte) ELSE lastbyte

\* a step of the parent that goes on, when the test is passed
Then(s, passed) ==
  /\ step' = IF passed THEN s ELSE step
  /\ verdict' = IF passed THEN verdict ELSE "failed"

ParentSbrk(n) == Sbrk(First, n) /\ lastbyte' = LastByte(n) /\ UNCHANGED <<kid, started, sat>>

-----------------------------------------------------------------------------
(* One byte at a time, and the fork after it                               *)

Start ==
  /\ On("exec") /\ Exec(First, Program) /\ step' = "oldbrk"
  /\ UNCHANGED <<saved, oldbrk, lastbyte, kid, started, sat, verdict>>

Oldbrk ==
  /\ On("oldbrk") /\ oldbrk' = sz[First] /\ saved' = sz[First] /\ step' = "small"
  /\ UNCHANGED <<mvars, lastbyte, kid, started, sat, verdict>>

\* b = sbrk(1) is where the last one ended, and *b can be written
Small ==
  /\ On("small") /\ saved < oldbrk + SMALL
  /\ ParentSbrk(1) /\ saved' = saved + 1 /\ UNCHANGED oldbrk
  /\ Then("small", ~Failed(First, 1) /\ sz[First] = saved /\ Grown(First, 1).pte[saved \div PGSIZE] = "user")

\* fork; wantpid: the kids that may be taken
ForkKid(q, first) ==
  /\ kid[q] = "none" /\ Fork(First, q)
  /\ kid' = IF q \in live' THEN [kid EXCEPT ![q] = first] ELSE kid

NextKid == CHOOSE q \in Kids : kid[q] = "none"

ForkSmall ==
  /\ On("small") /\ saved = oldbrk + SMALL /\ ForkKid(NextKid, "sbrk")
  /\ Then("first", NextKid \in live') /\ UNCHANGED <<saved, oldbrk, lastbyte, started, sat>>

\* c = sbrk(1), twice, in both: the second is one further
First1 ==
  /\ On("first") /\ ParentSbrk(1) /\ Then("second", TRUE) /\ UNCHANGED <<saved, oldbrk>>
Second ==
  /\ On("second") /\ ParentSbrk(1) /\ UNCHANGED <<saved, oldbrk>>
  /\ Then("wait", ~Failed(First, 1) /\ sz[First] = saved + 1)

KidSbrk(q) ==
  /\ kid[q] \in {"sbrk", "again"} /\ verdict = "running" /\ Sbrk(q, 1)
  /\ kid' = [kid EXCEPT ![q] = IF @ = "sbrk" THEN "again" ELSE "exit"]
  /\ verdict' = IF kid[q] = "again" /\ (Failed(q, 1) \/ sz[q] # saved + 1) THEN "failed" ELSE verdict
  /\ UNCHANGED <<step, saved, oldbrk, lastbyte, started, sat>>

\* exit and wait
Waited(q, to) ==
  /\ kid[q] = "exit" /\ Exit(q) /\ kid' = [kid EXCEPT ![q] = "none"] /\ Then(to, TRUE)
  /\ UNCHANGED <<saved, oldbrk, lastbyte, started, sat>>
Wait == On("wait") /\ \E q \in Kids : Waited(q, "big")

-----------------------------------------------------------------------------
(* Something big, and a page of it given back                              *)

Big ==
  /\ On("big") /\ Sbrk(First, BIG - sz[First]) /\ UNCHANGED <<saved, oldbrk, kid, started, sat>>
  /\ lastbyte' = "written"                                  \* *lastaddr = 99
  /\ Then("less", ~Failed(First, BIG - sz[First]))

Less ==
  /\ On("less") /\ ParentSbrk(-PGSIZE) /\ saved' = sz[First] /\ UNCHANGED oldbrk
  /\ Then("checkless", ~Failed(First, -PGSIZE))
CheckLess ==
  /\ On("checkless") /\ Then("more", sz[First] = saved - PGSIZE)
  /\ UNCHANGED <<mvars, saved, oldbrk, lastbyte, kid, started, sat>>

More ==
  /\ On("more") /\ ParentSbrk(PGSIZE) /\ saved' = sz[First] /\ UNCHANGED oldbrk
  /\ Then("checkmore", ~Failed(First, PGSIZE))
CheckMore ==
  /\ On("checkmore") /\ Then("back", sz[First] = saved + PGSIZE /\ lastbyte # "written")
  /\ UNCHANGED <<mvars, saved, oldbrk, lastbyte, kid, started, sat>>

Back ==
  /\ On("back") /\ ParentSbrk(oldbrk - sz[First]) /\ UNCHANGED <<saved, oldbrk>>
  /\ Then("spy", ~Failed(First, oldbrk - sz[First]))

-----------------------------------------------------------------------------
(* The kernel's memory, read by a child: the access is a fault it is killed for  *)

Spy ==
  /\ On("spy") /\ ForkKid(NextKid, "spy") /\ Then("caught", NextKid \in live')
  /\ UNCHANGED <<saved, oldbrk, lastbyte, started, sat>>
ReadKernel(q) ==
  /\ kid[q] = "spy" /\ verdict = "running"
  /\ kid' = [kid EXCEPT ![q] = "exit"]
  /\ verdict' = IF Outside(q, KERNBASE) THEN verdict ELSE "failed"      \* kill(ppid)
  /\ UNCHANGED <<mvars, step, saved, oldbrk, lastbyte, started, sat>>
Caught == On("caught") /\ \E q \in Kids : Waited(q, "crowd")

-----------------------------------------------------------------------------
(* Children that take all they can get.  One writes a byte to the pipe when it   *)
(* has tried, and the parent forks the next one after reading it.               *)

Crowd ==
  /\ On("crowd") /\ started = sat /\ started < Cardinality(Kids)
  /\ LET q == CHOOSE k \in Kids : k \notin live /\ kid[k] = "none" IN
     /\ ForkKid(q, "greedy")
     /\ IF q \in live' THEN started' = started + 1 /\ UNCHANGED step ELSE step' = "last" /\ UNCHANGED started
  /\ UNCHANGED <<saved, oldbrk, lastbyte, sat, verdict>>

Greedy(q) ==
  /\ kid[q] = "greedy" /\ verdict = "running" /\ Sbrk(q, BIG - sz[q])
  /\ kid' = [kid EXCEPT ![q] = "sits"] /\ sat' = sat + 1
  /\ UNCHANGED <<step, saved, oldbrk, lastbyte, started, verdict>>

CrowdDone ==
  /\ On("crowd") /\ started = sat /\ started = Cardinality(Kids) /\ Then("last", TRUE)
  /\ UNCHANGED <<mvars, saved, oldbrk, lastbyte, kid, started, sat>>

\* c = sbrk(4096) works if the failed ones gave everything back; it is looked at later
LastPage ==
  /\ On("last") /\ ParentSbrk(PGSIZE) /\ Then("killing", TRUE) /\ UNCHANGED oldbrk
  /\ saved' = IF Failed(First, PGSIZE) THEN -1 ELSE sz[First]

\* kill and wait, one after the other
Killing ==
  /\ On("killing") /\ UNCHANGED <<saved, oldbrk, lastbyte, started, sat>>
  /\ IF \E q \in Kids : kid[q] = "sits"
     THEN LET q == CHOOSE k \in Kids : kid[k] = "sits" IN
          Exit(q) /\ kid' = [kid EXCEPT ![q] = "none"] /\ UNCHANGED <<step, verdict>>
     ELSE Then("shrink", saved # -1) /\ UNCHANGED <<mvars, kid>>

Shrink ==
  /\ On("shrink") /\ ParentSbrk(oldbrk - sz[First])
  /\ step' = "done" /\ verdict' = "OK" /\ UNCHANGED <<saved, oldbrk>>

TestNext ==
  \/ Start \/ Oldbrk \/ Small \/ ForkSmall \/ First1 \/ Second \/ Wait
  \/ Big \/ Less \/ CheckLess \/ More \/ CheckMore \/ Back
  \/ Spy \/ Caught \/ Crowd \/ CrowdDone \/ LastPage \/ Killing \/ Shrink
  \/ \E q \in Kids : KidSbrk(q) \/ ReadKernel(q) \/ Greedy(q)

TestSpec == TestInit /\ [][TestNext]_<<mvars, testvars>>

-----------------------------------------------------------------------------

\* No step of sbrktest finds a wrong address, a page with old contents, memory of the
\* kernel it can read, or memory that a failed sbrk has kept.
Passes == verdict # "failed" /\ ~panic
=============================================================================
