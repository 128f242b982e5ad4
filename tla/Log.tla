--------------------------------- MODULE Log ---------------------------------
(***************************************************************************)
(* The redo log of the file system (Part_B/log.c) with crashes at every    *)
(* disk write, in commit and in recovery.                                  *)
(*                                                                         *)
(* The content of a block is the set of operations that have changed it:   *)
(* bread returns the cached block, an operation adds its own change to it. *)
(* A disk write is one step (iderw waits for the disk) and atomic for one  *)
(* sector, the header among them.  The buffer cache keeps the blocks of    *)
(* the transaction (B_DIRTY), so mem is what bread returns.                *)
(*                                                                         *)
(* Blocks of Direct are also written by bwrite without the log: the swap   *)
(* area (write_page_to_disk in bio.c) and, in this kernel, the bitmap that *)
(* bfree changes (fs.c).                                                   *)
(***************************************************************************)
EXTENDS Naturals, Sequences, FiniteSets

CONSTANTS
  Ops,            \* the calls of begin_op ... end_op, each of which runs once
  Boot,           \* recover_from_log, when the machine comes up
  Bypass,         \* a change made by bwrite outside the log
  Logged,         \* blocks that are changed under log_write
  Direct,         \* blocks that are written by bwrite
  LOGSIZE, MAXOPBLOCKS,
  OpWrites,       \* bound: blocks one operation really changes
  MaxCrash        \* bound: crashes of the running system (recovery may crash again and again)

ASSUME OpsAssumption == Boot \notin Ops /\ Bypass \notin Ops
ASSUME SizeAssumption ==
  /\ LOGSIZE \in Nat \ {0} /\ MAXOPBLOCKS \in Nat \ {0}
  /\ OpWrites \in 0..MAXOPBLOCKS /\ MaxCrash \in Nat

Blocks  == Logged \cup Direct
Content == SUBSET (Ops \cup {Bypass})
Runners == Ops \cup {Boot}

\* An operation:  idle, begin (at the top of the loop of begin_op), asleep on
\*   &log, active, then ended; the last one runs commit: wlog, install, done.
\*   dead: the machine crashed under it.
\* Boot:  off (the system runs), rhead, install.
Pcs == {"idle", "begin", "asleep", "active", "wlog", "install", "done",
        "ended", "dead", "off", "rhead"}

VARIABLES
  mem,                        \* the blocks as bread returns them
  disk, ldata, head,          \* home locations, log blocks, header: on the disk
  lh, outstanding, committing,    \* fields of struct log
  pc, tail,                   \* of each runner; tail of write_log, install_trans
  wrote,                      \* the blocks an operation has changed
  crashes

logvars == <<lh, outstanding, committing>>
dvars   == <<disk, ldata, head>>
vars    == <<mem, dvars, logvars, pc, tail, wrote, crashes>>

Init ==
  /\ mem = [b \in Blocks |-> {}] /\ disk = mem
  /\ ldata = [t \in 1..LOGSIZE |-> {}] /\ head = <<>>
  /\ lh = <<>> /\ outstanding = 0 /\ committing = FALSE
  /\ pc = [r \in Runners |-> IF r = Boot THEN "off" ELSE "idle"]
  /\ tail = [r \in Runners |-> 0]
  /\ wrote = [o \in Ops |-> {}]
  /\ crashes = 0

Goto(r, l) == pc' = [pc EXCEPT ![r] = l]

\* wakeup(&log) while r goes to l
WakeAll(r, l) ==
  pc' = [s \in Runners |-> IF s = r THEN l ELSE IF pc[s] = "asleep" THEN "begin" ELSE pc[s]]

-----------------------------------------------------------------------------
(* begin_op, log_write, end_op *)

Call(o) ==
  /\ pc[o] = "idle" /\ pc[Boot] = "off"
  /\ Goto(o, "begin")
  /\ UNCHANGED <<mem, dvars, logvars, tail, wrote, crashes>>

\* (mutant: a commit in progress does not hold new operations up)
BadMustWait == Len(lh) + (outstanding + 1) * MAXOPBLOCKS > LOGSIZE
MustWait == committing \/ Len(lh) + (outstanding + 1) * MAXOPBLOCKS > LOGSIZE

\* (mutant: the reservation is made before the test)
BadBeginWait(o) ==
  /\ pc[o] = "begin" /\ MustWait
  /\ outstanding' = outstanding + 1
  /\ Goto(o, "asleep")
  /\ UNCHANGED <<mem, dvars, lh, committing, tail, wrote, crashes>>
BeginWait(o) ==
  /\ pc[o] = "begin" /\ MustWait
  /\ Goto(o, "asleep")
  /\ UNCHANGED <<mem, dvars, logvars, tail, wrote, crashes>>

Begin(o) ==
  /\ pc[o] = "begin" /\ ~MustWait
  /\ outstanding' = outstanding + 1
  /\ Goto(o, "active")
  /\ UNCHANGED <<mem, dvars, lh, committing, tail, wrote, crashes>>

\* panic("too big a transaction"); log.size is LOGSIZE (mkfs.c).  The code tests
\* before it takes log.lock: NoPanic shows that the answer is always no.
TooBig == Len(lh) >= LOGSIZE - 1

InLog(b) == \E t \in 1..Len(lh) : lh[t] = b

\* a block is changed under its buffer's lock and handed to log_write
LogWrite(o, b) ==
  /\ pc[o] = "active" /\ b \in Logged \ wrote[o]
  /\ Cardinality(wrote[o]) < OpWrites /\ ~TooBig
  /\ mem' = [mem EXCEPT ![b] = @ \cup {o}]
  /\ lh'  = IF InLog(b) THEN lh ELSE Append(lh, b)
  /\ wrote' = [wrote EXCEPT ![o] = @ \cup {b}]
  /\ UNCHANGED <<dvars, outstanding, committing, pc, tail, crashes>>

\* end_op when others are outstanding (mutant: no wakeup)
BadEndWake(o) == Goto(o, "ended")
EndWake(o) == WakeAll(o, "ended")

End(o) ==
  /\ pc[o] = "active" /\ outstanding > 1
  /\ outstanding' = outstanding - 1
  /\ EndWake(o)
  /\ UNCHANGED <<mem, dvars, lh, committing, tail, wrote, crashes>>

EndLast(o) ==
  /\ pc[o] = "active" /\ outstanding = 1
  /\ outstanding' = 0 /\ committing' = TRUE
  /\ tail' = [tail EXCEPT ![o] = 0]
  /\ Goto(o, IF lh = <<>> THEN "done" ELSE "wlog")
  /\ UNCHANGED <<mem, dvars, lh, wrote, crashes>>

-----------------------------------------------------------------------------
(* commit and recovery *)

\* one turn of the loop of write_log
WriteLog(o) ==
  /\ pc[o] = "wlog" /\ tail[o] < Len(lh)
  /\ ldata' = [ldata EXCEPT ![tail[o] + 1] = mem[lh[tail[o] + 1]]]
  /\ tail'  = [tail EXCEPT ![o] = @ + 1]
  /\ UNCHANGED <<mem, disk, head, logvars, pc, wrote, crashes>>

\* write_log is over (mutant: the header does not wait for the log blocks)
BadWritten(o) == TRUE
Written(o) == tail[o] = Len(lh)

\* write_head: the transaction commits
WriteHead(o) ==
  /\ pc[o] = "wlog" /\ Written(o)
  /\ head' = lh
  /\ tail' = [tail EXCEPT ![o] = 0]
  /\ Goto(o, "install")
  /\ UNCHANGED <<mem, disk, ldata, logvars, wrote, crashes>>

\* read_head
ReadHead ==
  /\ pc[Boot] = "rhead"
  /\ lh' = head
  /\ tail' = [tail EXCEPT ![Boot] = 0]
  /\ Goto(Boot, "install")
  /\ UNCHANGED <<mem, dvars, outstanding, committing, wrote, crashes>>

\* one turn of the loop of install_trans, in commit or in recovery
Install(r) ==
  /\ pc[r] = "install" /\ tail[r] < Len(lh)
  /\ mem'  = [mem EXCEPT ![lh[tail[r] + 1]] = ldata[tail[r] + 1]]
  /\ disk' = [disk EXCEPT ![lh[tail[r] + 1]] = ldata[tail[r] + 1]]
  /\ tail' = [tail EXCEPT ![r] = @ + 1]
  /\ UNCHANGED <<ldata, head, logvars, pc, wrote, crashes>>

\* the loop is over (mutant: when there is still a block to install)
BadInstalled(r) == tail[r] + 1 >= Len(lh)
Installed(r) == tail[r] = Len(lh)

\* log.lh.n = 0 and write_head: the transaction is erased
Erase(r) ==
  /\ pc[r] = "install" /\ Installed(r)
  /\ lh' = <<>> /\ head' = <<>>
  /\ Goto(r, IF r = Boot THEN "off" ELSE "done")
  /\ UNCHANGED <<mem, disk, ldata, outstanding, committing, tail, wrote, crashes>>

\* end_op after commit (mutant: no wakeup)
BadDoneWake(o) == Goto(o, "ended")
DoneWake(o) == WakeAll(o, "ended")

Done(o) ==
  /\ pc[o] = "done"
  /\ committing' = FALSE
  /\ DoneWake(o)
  /\ UNCHANGED <<mem, dvars, lh, outstanding, tail, wrote, crashes>>

-----------------------------------------------------------------------------
(* bwrite without the log; crash *)

Bwrite(b) ==
  /\ pc[Boot] = "off"
  /\ mem'  = [mem EXCEPT ![b] = @ \cup {Bypass}]
  /\ disk' = [disk EXCEPT ![b] = mem'[b]]
  /\ UNCHANGED <<ldata, head, logvars, pc, tail, wrote, crashes>>

\* memory is lost; the caches will be filled from the disk
Crash ==
  /\ pc[Boot] = "off" => crashes < MaxCrash
  /\ mem' = disk
  /\ lh' = <<>> /\ outstanding' = 0 /\ committing' = FALSE
  /\ pc' = [r \in Runners |-> IF r = Boot THEN "rhead"
                              ELSE IF pc[r] \in {"idle", "ended"} THEN pc[r] ELSE "dead"]
  /\ crashes' = crashes + (IF pc[Boot] = "off" THEN 1 ELSE 0)
  /\ UNCHANGED <<dvars, tail, wrote>>

-----------------------------------------------------------------------------
Begin_op(o) == BeginWait(o) \/ Begin(o)
End_op(o)   == End(o) \/ EndLast(o) \/ Done(o)
Commit(o)   == WriteLog(o) \/ WriteHead(o)
Copy(r)     == Install(r) \/ Erase(r)

Next ==
  \/ \E o \in Ops : Call(o) \/ Begin_op(o) \/ End_op(o) \/ Commit(o)
  \/ \E o \in Ops : \E b \in Logged : LogWrite(o, b)
  \/ \E r \in Runners : Copy(r)
  \/ \E b \in Direct : Bwrite(b)
  \/ ReadHead \/ Crash

Spec == Init /\ [][Next]_vars

(* Fairness: a process goes on executing, the locks it spins on become free, an
   operation comes to its end_op.  No operation has to be called, no crash and
   no bwrite to happen. *)
FairSpec ==
  /\ Spec
  /\ \A o \in Ops : SF_vars(Begin_op(o) \/ End_op(o) \/ Commit(o) \/ Copy(o))
  /\ WF_vars(ReadHead \/ Copy(Boot))

-----------------------------------------------------------------------------
(* Properties *)

TypeOK ==
  /\ mem \in [Blocks -> Content] /\ disk \in [Blocks -> Content]
  /\ ldata \in [1..LOGSIZE -> Content]
  /\ head \in Seq(Logged) /\ lh \in Seq(Logged)
  /\ Len(head) <= LOGSIZE /\ Len(lh) <= LOGSIZE
  /\ outstanding \in 0..LOGSIZE /\ committing \in BOOLEAN
  /\ pc \in [Runners -> Pcs]
  /\ tail \in [Runners -> 0..LOGSIZE]
  /\ wrote \in [Ops -> SUBSET Logged]
  /\ crashes \in 0..MaxCrash

\* what recovery makes of the disk as it is now
Recovered ==
  [b \in Logged |->
     IF \E t \in 1..Len(head) : head[t] = b
     THEN ldata[CHOOSE t \in 1..Len(head) : head[t] = b] ELSE disk[b]]

\* write_head is the true point at which the transaction commits: whenever the
\* machine crashes, of an operation's changes all survive or none does.
Survives(o) == {b \in Logged : o \in Recovered[b]}
AllOrNothing == \A o \in Ops : Survives(o) \in {{}, wrote[o]}

\* an end_op that has committed has made everything durable that was written.
Durable == \A o \in Ops : pc[o] = "done" => Recovered = [b \in Logged |-> mem[b]]

\* The space begin_op reserves suffices: log_write never finds the log too big,
\* and never runs outside a transaction; end_op never meets a commit.
NoPanic ==
  \A o \in Ops : pc[o] = "active" =>
     /\ Cardinality(wrote[o]) < OpWrites => ~TooBig
     /\ outstanding >= 1 /\ ~committing

\* begin_op/end_op: an operation sleeps only while it has to wait.
NoLostWakeup == \A o \in Ops : pc[o] = "asleep" => MustWait

\* Whatever begin_op, log_write, end_op and commit interleave, and whenever the machine
\* crashes: no half operation on the disk, no lost one, no panic, nobody left asleep.
LogConsistent == TypeOK /\ AllOrNothing /\ Durable /\ NoPanic /\ NoLostWakeup

\* The log gives the file system an atomic disk: refinement of AtomicDisk.
Active == {o \in Ops : pc[o] = "active"}
AD == INSTANCE AtomicDisk WITH
  Blocks <- Logged, dur <- Recovered, active <- Active,
  cur <- IF pc[Boot] = "off" THEN [b \in Logged |-> mem[b]] ELSE Recovered
ImplementsAtomicDisk == AD!Spec

\* begin_op and end_op return, whoever else is in the log.
Busy == {"begin", "asleep", "wlog", "install", "done"}
CallsReturn == \A o \in Ops : pc[o] \in Busy ~> pc[o] \notin Busy

=============================================================================
