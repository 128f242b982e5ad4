------------------------------ MODULE LogProofs -------------------------------
(***************************************************************************)
(* Proofs about module Log, for any operations and blocks, any size of the *)
(* log and any number of crashes: the bookkeeping of begin_op and end_op,  *)
(* and, when no block is both logged and written directly, that the log is *)
(* an atomic disk.                                                         *)
(***************************************************************************)
EXTENDS Log, FiniteSetTheorems, SequenceTheorems, TLAPS

Committer == {"wlog", "install", "done"}

\* Where everybody can be: one commit at a time, with nobody in a transaction; nobody
\* but those whose system call has not begun or has returned during a recovery.
PhaseInv ==
  /\ pc[Boot] \in {"off", "rhead", "install"}
  /\ \A o \in Ops : pc[o] \notin {"off", "rhead"}
  /\ \A o, q \in Ops : pc[o] \in Committer /\ pc[q] \in Committer => o = q
  /\ committing <=> \E o \in Ops : pc[o] \in Committer
  /\ pc[Boot] # "off" => /\ \A o \in Ops : pc[o] \in {"idle", "ended", "dead"}
                         /\ outstanding = 0

\* outstanding counts the operations between begin_op and end_op.
CountInv ==
  /\ IsFiniteSet(Active) /\ outstanding = Cardinality(Active)
  /\ committing => outstanding = 0
  /\ \A o \in Ops : /\ IsFiniteSet(wrote[o]) /\ Cardinality(wrote[o]) <= OpWrites
                    /\ pc[o] \in {"idle", "begin", "asleep"} => wrote[o] = {}

\* The blocks of the log that begin_op has promised and nobody has used yet.
Reserved == {r \in Active \X (1..MAXOPBLOCKS) : r[2] > Cardinality(wrote[r[1]])}

SpaceInv == Len(lh) + Cardinality(Reserved) <= LOGSIZE

BookInv == TypeOK /\ PhaseInv /\ CountInv /\ SpaceInv /\ NoLostWakeup

\* The blocks that nobody writes around the log.
Clean == Logged \ Direct

\* The log names a block once (absorption), on the disk and in memory.
Distinct(s) == \A t, u \in 1..Len(s) : s[t] = s[u] => t = u

\* What the disk and the log hold in each phase of a commit and of a recovery.
DiskInv ==
  /\ Distinct(lh) /\ Distinct(head)
  /\ pc[Boot] # "off" => \A b \in Clean : mem[b] = disk[b]
  /\ pc[Boot] = "off" => \A b \in Clean : InLog(b) \/ mem[b] = disk[b]
  /\ pc[Boot] = "off" /\ (\A o \in Ops : pc[o] # "install") => head = <<>>
  /\ pc[Boot] = "rhead" => lh = <<>>
  /\ \A r \in Runners : pc[r] = "install" =>
       /\ head = lh
       /\ \A t \in 1..tail[r] : t <= Len(lh) /\ lh[t] \in Clean => disk[lh[t]] = ldata[t]
  /\ \A o \in Ops :
       /\ pc[o] = "wlog" =>
            \A t \in 1..tail[o] : t <= Len(lh) /\ lh[t] \in Clean => ldata[t] = mem[lh[t]]
       /\ pc[o] = "install" => \A t \in 1..Len(lh) : lh[t] \in Clean => ldata[t] = mem[lh[t]]
       /\ pc[o] = "done" => lh = <<>>

\* What a crash leaves of these blocks, and of an operation's changes to them.
Kept == [b \in Clean |-> Recovered[b]]
KeptOf(o) == {b \in Clean : o \in Kept[b]}

\* The changes of an operation are in memory, and survive, all or none of them; all
\* are in memory and none survives as long as it is active.
Changed(o) == {b \in Clean : o \in mem[b]}

AtomInv ==
  \A o \in Ops :
    /\ KeptOf(o) \in {{}, wrote[o] \cap Clean}
    /\ pc[Boot] = "off" => Changed(o) \in {{}, wrote[o] \cap Clean}
    /\ pc[o] = "active" => KeptOf(o) = {} /\ Changed(o) = wrote[o] \cap Clean

IInv == BookInv /\ DiskInv /\ AtomInv

-----------------------------------------------------------------------------
(* begin_op and end_op: type, phases, counting, space, wakeups *)

LEMMA Multiple ==
  ASSUME NEW a \in Nat, NEW m \in Nat \ {0}
  PROVE  a * m \in Nat /\ a <= a * m
<1>1. PICK k \in Nat : m = k + 1
  <2>1. m - 1 \in Nat /\ m = (m - 1) + 1
    OBVIOUS
  <2>2. QED
    BY <2>1
<1>2. a * m = a * k + a /\ a * k \in Nat
  BY <1>1
<1>3. QED
  BY <1>2

LEMMA RunnerKinds ==
  /\ Boot \in Runners /\ Ops \subseteq Runners /\ Boot \notin Ops
  /\ \A r \in Runners : r \in Ops \/ r = Boot
BY OpsAssumption DEF Runners

LEMMA InitBook == Init => BookInv
<1>1. SUFFICES ASSUME Init PROVE BookInv
  OBVIOUS
<1>2. TypeOK
  <2>1. <<>> \in Seq(Logged) /\ Len(<<>>) = 0
    BY EmptySeq
  <2>2. /\ outstanding \in 0..LOGSIZE /\ crashes \in 0..MaxCrash /\ Len(head) <= LOGSIZE
        /\ tail \in [Runners -> 0..LOGSIZE]
    BY <1>1, <2>1, SizeAssumption DEF Init
  <2>3. pc \in [Runners -> Pcs]
    BY <1>1 DEF Init, Pcs
  <2>4. QED
    BY <1>1, <2>1, <2>2, <2>3 DEF Init, TypeOK, Content
<1>3. PhaseInv /\ NoLostWakeup
  BY <1>1, RunnerKinds DEF Init, PhaseInv, Committer, NoLostWakeup
<1>4. Active = {} /\ Reserved = {}
  BY <1>1, RunnerKinds DEF Init, Active, Reserved
<1>5. CountInv
  BY <1>1, <1>4, RunnerKinds, FS_EmptySet, SizeAssumption DEF Init, CountInv
<1>6. SpaceInv
  BY <1>1, <1>4, FS_EmptySet, EmptySeq, SizeAssumption DEF Init, SpaceInv
<1>7. QED
  BY <1>2, <1>3, <1>5, <1>6 DEF BookInv

LEMMA TypeStep ==
  ASSUME TypeOK, [Next]_vars
  PROVE  TypeOK'
<1>. USE RunnerKinds, SizeAssumption DEF TypeOK, Pcs, Goto
<1>1. ASSUME NEW o \in Ops, Call(o) \/ BeginWait(o) PROVE TypeOK'
  BY <1>1 DEF Call, BeginWait, dvars, logvars
<1>2. ASSUME NEW o \in Ops, Begin(o) PROVE TypeOK'
  <2>1. Len(lh) \in Nat
    BY LenProperties
  <2>2. outstanding + 1 <= LOGSIZE
    <3>. outstanding + 1 \in Nat
      OBVIOUS
    <3>1. /\ outstanding + 1 <= (outstanding + 1) * MAXOPBLOCKS
          /\ (outstanding + 1) * MAXOPBLOCKS \in Nat
      BY Multiple
    <3>2. Len(lh) + (outstanding + 1) * MAXOPBLOCKS <= LOGSIZE
      BY <1>2, <2>1, <3>1 DEF Begin, MustWait
    <3>3. QED
      BY <2>1, <3>1, <3>2
  <2>3. QED
    BY <1>2, <2>2 DEF Begin, dvars
<1>3. ASSUME NEW o \in Ops, NEW b \in Logged, LogWrite(o, b) PROVE TypeOK'
  <2>1. lh' \in Seq(Logged) /\ Len(lh') <= LOGSIZE
    BY <1>3, AppendProperties, LenProperties DEF LogWrite, TooBig
  <2>2. mem' \in [Blocks -> Content] /\ wrote' \in [Ops -> SUBSET Logged]
    BY <1>3 DEF LogWrite, Blocks, Content
  <2>3. QED
    BY <1>3, <2>1, <2>2 DEF LogWrite, dvars
<1>4. ASSUME NEW o \in Ops, End(o) \/ EndLast(o) PROVE TypeOK'
  <2>1. CASE End(o)
    BY <2>1 DEF End, EndWake, WakeAll, dvars
  <2>2. CASE EndLast(o)
    BY <2>2 DEF EndLast, dvars
  <2>3. QED
    BY <1>4, <2>1, <2>2
<1>5. ASSUME NEW o \in Ops, WriteLog(o) PROVE TypeOK'
  <2>1. tail[o] + 1 \in 1..Len(lh) /\ tail[o] + 1 \in 1..LOGSIZE
    BY <1>5, LenProperties DEF WriteLog
  <2>2. mem[lh[tail[o] + 1]] \in Content
    BY <2>1, ElementOfSeq DEF Blocks
  <2>3. QED
    BY <1>5, <2>1, <2>2 DEF WriteLog, logvars
<1>6. ASSUME NEW o \in Ops, WriteHead(o) PROVE TypeOK'
  BY <1>6 DEF WriteHead, logvars
<1>7. CASE ReadHead
  BY <1>7 DEF ReadHead, dvars
<1>8. ASSUME NEW r \in Runners, Install(r) PROVE TypeOK'
  <2>1. tail[r] + 1 \in 1..Len(lh) /\ tail[r] + 1 \in 1..LOGSIZE
    BY <1>8, LenProperties DEF Install
  <2>2. lh[tail[r] + 1] \in Blocks /\ ldata[tail[r] + 1] \in Content
    BY <2>1, ElementOfSeq DEF Blocks
  <2>3. QED
    BY <1>8, <2>1, <2>2 DEF Install, logvars
<1>9. ASSUME NEW r \in Runners, Erase(r) PROVE TypeOK'
  BY <1>9, EmptySeq DEF Erase
<1>10. ASSUME NEW o \in Ops, Done(o) PROVE TypeOK'
  BY <1>10 DEF Done, DoneWake, WakeAll, dvars
<1>11. ASSUME NEW b \in Direct, Bwrite(b) PROVE TypeOK'
  <2>1. mem' \in [Blocks -> Content]
    BY <1>11 DEF Bwrite, Content
  <2>2. mem'[b] \in Content
    BY <2>1 DEF Blocks
  <2>3. disk' \in [Blocks -> Content]
    BY <1>11, <2>2 DEF Bwrite
  <2>4. QED
    BY <1>11, <2>1, <2>3 DEF Bwrite, logvars
<1>12. CASE Crash
  <2>1. crashes' \in 0..MaxCrash
    BY <1>12 DEF Crash
  <2>2. pc' \in [Runners -> Pcs]
    BY <1>12 DEF Crash
  <2>3. lh' \in Seq(Logged) /\ Len(lh') <= LOGSIZE
    BY <1>12, EmptySeq DEF Crash
  <2>4. UNCHANGED dvars /\ mem' = disk /\ tail' = tail /\ wrote' = wrote
    BY <1>12 DEF Crash
  <2>5. outstanding' = 0 /\ committing' = FALSE
    BY <1>12 DEF Crash
  <2>6. disk' = disk /\ ldata' = ldata /\ head' = head
    BY <2>4 DEF dvars
  <2>7. mem' \in [Blocks -> Content] /\ disk' \in [Blocks -> Content]
    BY <2>4, <2>6
  <2>8. ldata' \in [1..LOGSIZE -> Content] /\ head' \in Seq(Logged) /\ Len(head') <= LOGSIZE
    BY <2>6
  <2>9. tail' \in [Runners -> 0..LOGSIZE] /\ wrote' \in [Ops -> SUBSET Logged]
    BY <2>4
  <2>10. outstanding' \in 0..LOGSIZE
    BY <2>5
  <2>11. committing' \in BOOLEAN
    BY <2>5
  <2>12. QED
    BY <2>1, <2>2, <2>3, <2>7, <2>8, <2>9, <2>10, <2>11
<1>13. CASE UNCHANGED vars
  BY <1>13 DEF vars, dvars, logvars
<1>14. QED
  <2>. HIDE DEF TypeOK
  <2>1. QED
    BY <1>1, <1>2, <1>3, <1>4, <1>5, <1>6, <1>7, <1>8, <1>9, <1>10, <1>11, <1>12, <1>13
       DEF Next, Begin_op, End_op, Commit, Copy

\* A commit ends what begin_op has to wait for, and no operation begins during one.
LEMMA PhaseStep ==
  ASSUME BookInv, [Next]_vars
  PROVE  PhaseInv'
<1>. USE RunnerKinds DEF BookInv, TypeOK, PhaseInv, Committer, Goto
<1>1. ASSUME NEW o \in Ops, Call(o) \/ BeginWait(o) PROVE PhaseInv'
  <2>1. CASE Call(o)
    BY <2>1 DEF Call, logvars
  <2>2. CASE BeginWait(o)
    BY <2>2 DEF BeginWait, logvars
  <2>3. QED
    BY <1>1, <2>1, <2>2
<1>2. ASSUME NEW o \in Ops, Begin(o) PROVE PhaseInv'
  BY <1>2 DEF Begin
<1>3. ASSUME NEW o \in Ops, NEW b \in Logged, LogWrite(o, b) PROVE PhaseInv'
  BY <1>3 DEF LogWrite
<1>4. ASSUME NEW o \in Ops, End(o) PROVE PhaseInv'
  BY <1>4 DEF End, EndWake, WakeAll
<1>5. ASSUME NEW o \in Ops, EndLast(o) PROVE PhaseInv'
  <2>1. ~committing
    BY <1>5 DEF EndLast, CountInv
  <2>2. QED
    BY <1>5, <2>1 DEF EndLast
<1>6. ASSUME NEW o \in Ops, WriteLog(o) \/ WriteHead(o) PROVE PhaseInv'
  BY <1>6 DEF WriteLog, WriteHead, logvars
<1>7. CASE ReadHead
  BY <1>7 DEF ReadHead
<1>8. ASSUME NEW r \in Runners, Install(r) PROVE PhaseInv'
  BY <1>8 DEF Install, logvars
<1>9. ASSUME NEW r \in Runners, Erase(r) PROVE PhaseInv'
  BY <1>9 DEF Erase
<1>10. ASSUME NEW o \in Ops, Done(o) PROVE PhaseInv'
  BY <1>10 DEF Done, DoneWake, WakeAll
<1>11. ASSUME NEW b \in Direct, Bwrite(b) PROVE PhaseInv'
  BY <1>11 DEF Bwrite, logvars
<1>12. CASE Crash
  BY <1>12 DEF Crash
<1>13. CASE UNCHANGED vars
  BY <1>13 DEF vars, logvars
<1>14. QED
  <2>. HIDE DEF PhaseInv
  <2>1. QED
    BY <1>1, <1>2, <1>3, <1>4, <1>5, <1>6, <1>7, <1>8, <1>9, <1>10, <1>11, <1>12, <1>13
       DEF Next, Begin_op, End_op, Commit, Copy

\* Who is active changes by one operation at a time, or everybody at once.
LEMMA ActiveStep ==
  ASSUME BookInv, [Next]_vars
  PROVE  \/ \E o \in Ops : Begin(o) /\ o \notin Active /\ Active' = Active \cup {o}
         \/ \E o \in Ops : (End(o) \/ EndLast(o)) /\ o \in Active /\ Active' = Active \ {o}
         \/ Crash /\ Active' = {}
         \/ /\ Active' = Active /\ outstanding' = outstanding
            /\ committing' => committing
<1>. USE RunnerKinds DEF BookInv, TypeOK, Active, Goto
<1>1. ASSUME NEW o \in Ops, Call(o) \/ BeginWait(o)
      PROVE  Active' = Active /\ outstanding' = outstanding /\ (committing' => committing)
  BY <1>1 DEF Call, BeginWait, logvars
<1>2. ASSUME NEW o \in Ops, Begin(o) PROVE o \notin Active /\ Active' = Active \cup {o}
  BY <1>2 DEF Begin
<1>3. ASSUME NEW o \in Ops, NEW b \in Logged, LogWrite(o, b)
      PROVE  Active' = Active /\ outstanding' = outstanding /\ (committing' => committing)
  BY <1>3 DEF LogWrite
<1>4. ASSUME NEW o \in Ops, End(o) PROVE o \in Active /\ Active' = Active \ {o}
  BY <1>4 DEF End, EndWake, WakeAll
<1>5. ASSUME NEW o \in Ops, EndLast(o) PROVE o \in Active /\ Active' = Active \ {o}
  BY <1>5 DEF EndLast
<1>6. ASSUME NEW o \in Ops, WriteLog(o) \/ WriteHead(o)
      PROVE  Active' = Active /\ outstanding' = outstanding /\ (committing' => committing)
  BY <1>6 DEF WriteLog, WriteHead, logvars
<1>7. ASSUME ReadHead
      PROVE  Active' = Active /\ outstanding' = outstanding /\ (committing' => committing)
  BY <1>7 DEF ReadHead
<1>8. ASSUME NEW r \in Runners, Copy(r)
      PROVE  Active' = Active /\ outstanding' = outstanding /\ (committing' => committing)
  BY <1>8 DEF Copy, Install, Erase, logvars
<1>9. ASSUME NEW o \in Ops, Done(o)
      PROVE  Active' = Active /\ outstanding' = outstanding /\ (committing' => committing)
  BY <1>9 DEF Done, DoneWake, WakeAll
<1>10. ASSUME NEW b \in Direct, Bwrite(b)
       PROVE  Active' = Active /\ outstanding' = outstanding /\ (committing' => committing)
  BY <1>10 DEF Bwrite, logvars
<1>11. ASSUME Crash PROVE Active' = {}
  BY <1>11 DEF Crash
<1>12. CASE UNCHANGED vars
  BY <1>12 DEF vars, logvars
<1>13. QED
  <2>. HIDE DEF TypeOK, Active
  <2>1. QED
    BY <1>1, <1>2, <1>3, <1>4, <1>5, <1>6, <1>7, <1>8, <1>9, <1>10, <1>11, <1>12
       DEF Next, Begin_op, End_op, Commit

LEMMA WroteStep ==
  ASSUME BookInv, [Next]_vars, NEW o \in Ops
  PROVE  /\ IsFiniteSet(wrote'[o]) /\ Cardinality(wrote'[o]) <= OpWrites
         /\ pc'[o] \in {"idle", "begin", "asleep"} => wrote'[o] = {}
<1>. USE RunnerKinds, SizeAssumption DEF BookInv, TypeOK, CountInv, Goto
<1>1. ASSUME NEW q \in Ops, NEW b \in Logged, LogWrite(q, b)
      PROVE  /\ IsFiniteSet(wrote'[o]) /\ Cardinality(wrote'[o]) <= OpWrites
             /\ pc'[o] \in {"idle", "begin", "asleep"} => wrote'[o] = {}
  <2>1. CASE o = q
    <3>1. wrote'[o] = wrote[o] \cup {b} /\ b \notin wrote[o] /\ pc'[o] = "active"
      BY <1>1, <2>1 DEF LogWrite
    <3>2. Cardinality(wrote[o]) \in Nat /\ Cardinality(wrote[o]) < OpWrites
      BY <1>1, <2>1, FS_CardinalityType DEF LogWrite
    <3>3. IsFiniteSet(wrote'[o]) /\ Cardinality(wrote'[o]) = Cardinality(wrote[o]) + 1
      BY <3>1, FS_AddElement
    <3>4. Cardinality(wrote'[o]) <= OpWrites
      BY <3>2, <3>3
    <3>5. QED
      BY <3>1, <3>3, <3>4
  <2>2. CASE o # q
    BY <1>1, <2>2 DEF LogWrite
  <2>3. QED
    BY <2>1, <2>2
<1>2. ASSUME wrote' = wrote, pc'[o] \in {"idle", "begin", "asleep"} => pc[o] \in {"idle", "begin", "asleep"}
      PROVE  /\ IsFiniteSet(wrote'[o]) /\ Cardinality(wrote'[o]) <= OpWrites
             /\ pc'[o] \in {"idle", "begin", "asleep"} => wrote'[o] = {}
  BY <1>2
<1>3. ASSUME NEW q \in Ops, Call(q) \/ Begin_op(q)
      PROVE  wrote' = wrote /\ (pc'[o] \in {"idle", "begin", "asleep"} => pc[o] \in {"idle", "begin", "asleep"})
  BY <1>3 DEF Call, Begin_op, BeginWait, Begin
<1>4. ASSUME NEW q \in Ops, End_op(q) \/ Commit(q)
      PROVE  wrote' = wrote /\ (pc'[o] \in {"idle", "begin", "asleep"} => pc[o] \in {"idle", "begin", "asleep"})
  BY <1>4 DEF End_op, End, EndWake, EndLast, Done, DoneWake, WakeAll, Commit, WriteLog, WriteHead
<1>5. ASSUME NEW r \in Runners, Copy(r)
      PROVE  wrote' = wrote /\ (pc'[o] \in {"idle", "begin", "asleep"} => pc[o] \in {"idle", "begin", "asleep"})
  BY <1>5 DEF Copy, Install, Erase
<1>6. ASSUME ReadHead \/ Crash \/ (\E b \in Direct : Bwrite(b)) \/ UNCHANGED vars
      PROVE  wrote' = wrote /\ (pc'[o] \in {"idle", "begin", "asleep"} => pc[o] \in {"idle", "begin", "asleep"})
  BY <1>6 DEF ReadHead, Crash, Bwrite, vars
<1>7. QED
  BY <1>1, <1>2, <1>3, <1>4, <1>5, <1>6 DEF Next

LEMMA CountStep ==
  ASSUME BookInv, [Next]_vars
  PROVE  CountInv'
<1>1. \A o \in Ops : /\ IsFiniteSet(wrote'[o]) /\ Cardinality(wrote'[o]) <= OpWrites
                     /\ pc'[o] \in {"idle", "begin", "asleep"} => wrote'[o] = {}
  BY WroteStep
<1>2. IsFiniteSet(Active) /\ Cardinality(Active) \in Nat /\ outstanding = Cardinality(Active)
  BY FS_CardinalityType DEF BookInv, CountInv
<1>3. CASE \E o \in Ops : Begin(o) /\ o \notin Active /\ Active' = Active \cup {o}
  <2>1. PICK o \in Ops : Begin(o) /\ o \notin Active /\ Active' = Active \cup {o}
    BY <1>3
  <2>2. IsFiniteSet(Active') /\ Cardinality(Active') = Cardinality(Active) + 1
    BY <1>2, <2>1, FS_AddElement
  <2>3. outstanding' = outstanding + 1 /\ ~committing'
    BY <2>1 DEF Begin, MustWait
  <2>4. QED
    BY <1>1, <1>2, <2>2, <2>3 DEF CountInv
<1>4. CASE \E o \in Ops : (End(o) \/ EndLast(o)) /\ o \in Active /\ Active' = Active \ {o}
  <2>1. PICK o \in Ops : (End(o) \/ EndLast(o)) /\ o \in Active /\ Active' = Active \ {o}
    BY <1>4
  <2>2. IsFiniteSet(Active') /\ Cardinality(Active') = Cardinality(Active) - 1
    BY <1>2, <2>1, FS_RemoveElement
  <2>3. outstanding' = outstanding - 1 /\ (committing' => outstanding' = 0)
    BY <1>2, <2>1 DEF End, EndLast, BookInv, CountInv
  <2>4. QED
    BY <1>1, <1>2, <2>2, <2>3 DEF CountInv
<1>5. CASE Crash /\ Active' = {}
  BY <1>1, <1>5, FS_EmptySet DEF Crash, CountInv
<1>6. CASE Active' = Active /\ outstanding' = outstanding /\ (committing' => committing)
  BY <1>1, <1>2, <1>6 DEF BookInv, CountInv
<1>7. QED
  BY <1>3, <1>4, <1>5, <1>6, ActiveStep

LEMMA ReservedFinite == BookInv => IsFiniteSet(Reserved) /\ Cardinality(Reserved) \in Nat
<1>1. SUFFICES ASSUME BookInv PROVE IsFiniteSet(Reserved) /\ Cardinality(Reserved) \in Nat
  OBVIOUS
<1>2. IsFiniteSet(Active \X (1..MAXOPBLOCKS))
  <2>1. IsFiniteSet(Active) /\ IsFiniteSet(1..MAXOPBLOCKS)
    BY <1>1, FS_Interval, SizeAssumption DEF BookInv, CountInv
  <2>2. QED
    BY <2>1, FS_Product
<1>3. Reserved \subseteq Active \X (1..MAXOPBLOCKS)
  BY DEF Reserved
<1>4. QED
  BY <1>2, <1>3, FS_Subset, FS_CardinalityType

\* A step that adds nothing to the log and admits nobody keeps the promise.
LEMMA SpaceShrinks ==
  ASSUME BookInv, Active' \subseteq Active, wrote' = wrote,
         Len(lh') \in Nat, Len(lh') <= Len(lh)
  PROVE  SpaceInv'
<1>1. Reserved' \subseteq Reserved
  BY DEF Reserved
<1>2. /\ Cardinality(Reserved) \in Nat /\ Cardinality(Reserved') \in Nat
      /\ Cardinality(Reserved') <= Cardinality(Reserved)
  BY <1>1, ReservedFinite, FS_Subset, FS_CardinalityType
<1>3. Len(lh) \in Nat /\ Len(lh) + Cardinality(Reserved) <= LOGSIZE
  BY LenProperties DEF BookInv, TypeOK, SpaceInv
<1>4. QED
  BY <1>2, <1>3, SizeAssumption DEF SpaceInv

LEMMA SpaceStep ==
  ASSUME BookInv, [Next]_vars
  PROVE  SpaceInv'
<1>. USE RunnerKinds, SizeAssumption DEF Goto
<1>0. TypeOK /\ PhaseInv /\ CountInv /\ Len(lh) \in Nat /\ IsFiniteSet(Active)
  BY LenProperties DEF BookInv, TypeOK, CountInv
<1>1. ASSUME NEW o \in Ops, Begin(o) PROVE SpaceInv'
  <2>1. o \notin Active /\ Active' = Active \cup {o}
    BY <1>0, <1>1 DEF Begin, Active, TypeOK
  <2>2. IsFiniteSet(Active') /\ Cardinality(Active') = outstanding + 1
    BY <1>0, <2>1, FS_AddElement DEF CountInv
  <2>3. IsFiniteSet(1..MAXOPBLOCKS) /\ Cardinality(1..MAXOPBLOCKS) = MAXOPBLOCKS
    BY FS_Interval
  <2>4. /\ IsFiniteSet(Active' \X (1..MAXOPBLOCKS))
        /\ Cardinality(Active' \X (1..MAXOPBLOCKS)) = (outstanding + 1) * MAXOPBLOCKS
    BY <2>2, <2>3, FS_Product
  <2>5. Reserved' \subseteq Active' \X (1..MAXOPBLOCKS)
    BY DEF Reserved
  <2>6. Cardinality(Reserved') \in Nat /\ Cardinality(Reserved') <= (outstanding + 1) * MAXOPBLOCKS
    BY <2>4, <2>5, FS_Subset, FS_CardinalityType
  <2>7. outstanding + 1 \in Nat /\ (outstanding + 1) * MAXOPBLOCKS \in Nat
    BY <1>0, Multiple DEF TypeOK
  <2>8. Len(lh) + (outstanding + 1) * MAXOPBLOCKS <= LOGSIZE /\ lh' = lh
    BY <1>0, <1>1, <2>7 DEF Begin, MustWait
  <2>9. QED
    BY <1>0, <2>6, <2>7, <2>8 DEF SpaceInv
<1>2. ASSUME NEW o \in Ops, NEW b \in Logged, LogWrite(o, b) PROVE SpaceInv'
  <2>. DEFINE c == Cardinality(wrote[o])
              r == <<o, c + 1>>
  <2>1. c \in Nat /\ c < OpWrites /\ IsFiniteSet(wrote[o])
    BY <1>0, <1>2, FS_CardinalityType DEF LogWrite, CountInv
  <2>2. Active' = Active /\ o \in Active
    BY <1>2 DEF LogWrite, Active
  <2>3. r \in Reserved
    BY <2>1, <2>2 DEF Reserved
  <2>4. wrote'[o] = wrote[o] \cup {b} /\ \A q \in Ops : q # o => wrote'[q] = wrote[q]
    BY <1>0, <1>2 DEF LogWrite, TypeOK
  <2>5. Cardinality(wrote'[o]) = c + 1
    BY <1>2, <2>1, <2>4, FS_AddElement DEF LogWrite
  <2>6. Reserved' \subseteq Reserved \ {r}
    <3>1. SUFFICES ASSUME NEW q \in Active, NEW n \in 1..MAXOPBLOCKS, n > Cardinality(wrote'[q])
                   PROVE  <<q, n>> \in Reserved \ {r}
      BY <2>2 DEF Reserved
    <3>2. CASE q = o
      BY <2>1, <2>5, <3>1, <3>2 DEF Reserved
    <3>3. CASE q # o
      BY <2>4, <3>1, <3>3 DEF Reserved, Active
    <3>4. QED
      BY <3>2, <3>3
  <2>7. IsFiniteSet(Reserved \ {r}) /\ Cardinality(Reserved \ {r}) = Cardinality(Reserved) - 1
    BY <2>3, ReservedFinite, FS_RemoveElement
  <2>8. Cardinality(Reserved') \in Nat /\ Cardinality(Reserved') <= Cardinality(Reserved) - 1
    BY <2>6, <2>7, FS_Subset, FS_CardinalityType
  <2>9. Len(lh') \in Nat /\ Len(lh') <= Len(lh) + 1
    BY <1>0, <1>2, AppendProperties DEF LogWrite, TypeOK
  <2>10. Len(lh) + Cardinality(Reserved) <= LOGSIZE /\ Cardinality(Reserved) \in Nat
    BY ReservedFinite DEF BookInv, SpaceInv
  <2>11. QED
    BY <1>0, <2>8, <2>9, <2>10 DEF SpaceInv
<1>3. ASSUME NEW o \in Ops, End_op(o) \/ Call(o) \/ BeginWait(o) PROVE SpaceInv'
  <2>1. Active' \subseteq Active
    BY <1>0, <1>3 DEF End_op, End, EndWake, EndLast, Done, DoneWake, WakeAll, Call, BeginWait,
       Active, TypeOK
  <2>2. wrote' = wrote /\ lh' = lh
    BY <1>3 DEF End_op, End, EndLast, Done, Call, BeginWait, logvars
  <2>3. QED
    BY <1>0, <2>1, <2>2, SpaceShrinks
<1>4. ASSUME NEW o \in Ops, Commit(o) PROVE SpaceInv'
  <2>1. Active' \subseteq Active
    BY <1>0, <1>4 DEF Commit, WriteLog, WriteHead, Active, TypeOK
  <2>2. wrote' = wrote /\ lh' = lh
    BY <1>4 DEF Commit, WriteLog, WriteHead, logvars
  <2>3. QED
    BY <1>0, <2>1, <2>2, SpaceShrinks
<1>5. ASSUME NEW r \in Runners, Copy(r) PROVE SpaceInv'
  <2>1. Active' \subseteq Active
    BY <1>0, <1>5 DEF Copy, Install, Erase, Active, TypeOK
  <2>2. wrote' = wrote /\ Len(lh') \in Nat /\ Len(lh') <= Len(lh)
    BY <1>0, <1>5, EmptySeq DEF Copy, Install, Erase, logvars
  <2>3. QED
    BY <2>1, <2>2, SpaceShrinks
<1>6. CASE ReadHead \/ Crash
  <2>1. Active' = {}
    BY <1>0, <1>6 DEF ReadHead, Crash, Active, TypeOK, PhaseInv
  <2>2. Len(lh') \in Nat /\ Len(lh') <= LOGSIZE
    BY TypeStep, LenProperties DEF BookInv, TypeOK
  <2>3. Reserved' = {}
    BY <2>1 DEF Reserved
  <2>4. QED
    BY <2>2, <2>3, FS_EmptySet DEF SpaceInv
<1>7. CASE (\E b \in Direct : Bwrite(b)) \/ UNCHANGED vars
  <2>1. Active' = Active /\ wrote' = wrote /\ lh' = lh
    BY <1>7 DEF Bwrite, vars, logvars, Active
  <2>2. QED
    BY <1>0, <2>1, SpaceShrinks
<1>8. QED
  BY <1>1, <1>2, <1>3, <1>4, <1>5, <1>6, <1>7 DEF Next, Begin_op

\* Whatever begin_op waits for is still there when nobody has been woken up.
LEMMA WakeStep ==
  ASSUME BookInv, [Next]_vars
  PROVE  NoLostWakeup'
<1>. USE RunnerKinds, SizeAssumption DEF Goto
<1>0. TypeOK /\ PhaseInv /\ NoLostWakeup /\ Len(lh) \in Nat
  BY LenProperties DEF BookInv, TypeOK
<1>1. ASSUME NEW o \in Ops, Begin(o) PROVE NoLostWakeup'
  <2>1. SUFFICES ASSUME NEW q \in Ops, pc'[q] = "asleep" PROVE FALSE
    BY DEF NoLostWakeup
  <2>2. pc[q] = "asleep"
    BY <1>0, <1>1, <2>1 DEF Begin, TypeOK
  <2>3. QED
    BY <1>0, <1>1, <2>2 DEF Begin, NoLostWakeup
<1>2. ASSUME NEW o \in Ops, BeginWait(o) PROVE NoLostWakeup'
  BY <1>0, <1>2 DEF BeginWait, NoLostWakeup, MustWait, logvars, TypeOK
<1>3. ASSUME NEW o \in Ops, NEW b \in Logged, LogWrite(o, b) PROVE NoLostWakeup'
  <2>1. Len(lh') \in Nat /\ Len(lh') >= Len(lh)
    BY <1>0, <1>3, AppendProperties DEF LogWrite, TypeOK
  <2>2. outstanding + 1 \in Nat /\ (outstanding + 1) * MAXOPBLOCKS \in Nat
    BY <1>0, Multiple DEF TypeOK
  <2>3. MustWait => MustWait'
    BY <1>0, <1>3, <2>1, <2>2 DEF LogWrite, MustWait
  <2>4. QED
    BY <1>0, <1>3, <2>3 DEF LogWrite, NoLostWakeup
<1>4. ASSUME NEW o \in Ops, End(o) \/ Done(o) PROVE NoLostWakeup'
  BY <1>0, <1>4 DEF End, EndWake, Done, DoneWake, WakeAll, NoLostWakeup, TypeOK
<1>5. ASSUME NEW o \in Ops, EndLast(o) PROVE NoLostWakeup'
  BY <1>5 DEF EndLast, NoLostWakeup, MustWait
<1>6. ASSUME NEW o \in Ops, Call(o) \/ Commit(o) PROVE NoLostWakeup'
  <2>1. \A q \in Ops : pc'[q] = "asleep" => pc[q] = "asleep"
    BY <1>0, <1>6 DEF Call, Commit, WriteLog, WriteHead, TypeOK
  <2>2. MustWait' <=> MustWait
    BY <1>6 DEF Call, Commit, WriteLog, WriteHead, logvars, MustWait
  <2>3. QED
    BY <1>0, <2>1, <2>2 DEF NoLostWakeup
<1>7. ASSUME NEW r \in Runners, Copy(r) PROVE NoLostWakeup'
  <2>1. \A q \in Ops : pc'[q] = "asleep" => pc[q] = "asleep"
    BY <1>0, <1>7 DEF Copy, Install, Erase, TypeOK
  <2>2. CASE Install(r)
    BY <1>0, <2>1, <2>2 DEF Install, logvars, MustWait, NoLostWakeup
  <2>3. CASE Erase(r) /\ r # Boot
    <3>1. committing'
      BY <1>0, <2>3 DEF Erase, PhaseInv, Committer
    <3>2. QED
      BY <3>1 DEF NoLostWakeup, MustWait
  <2>4. CASE Erase(r) /\ r = Boot
    BY <1>0, <2>1, <2>4 DEF Erase, PhaseInv, NoLostWakeup
  <2>5. QED
    BY <1>7, <2>2, <2>3, <2>4 DEF Copy
<1>8. CASE ReadHead \/ Crash
  BY <1>0, <1>8 DEF ReadHead, Crash, PhaseInv, NoLostWakeup, TypeOK
<1>9. CASE (\E b \in Direct : Bwrite(b)) \/ UNCHANGED vars
  BY <1>0, <1>9 DEF Bwrite, vars, logvars, MustWait, NoLostWakeup
<1>10. QED
  BY <1>1, <1>2, <1>3, <1>4, <1>5, <1>6, <1>7, <1>8, <1>9 DEF Next, Begin_op, End_op

LEMMA BookStep == BookInv /\ [Next]_vars => BookInv'
BY TypeStep, PhaseStep, CountStep, SpaceStep, WakeStep DEF BookInv

-----------------------------------------------------------------------------
(* The disk: what commit and recovery make of it *)

LEMMA Entries ==
  TypeOK => /\ Len(lh) \in Nat /\ \A t \in 1..Len(lh) : lh[t] \in Logged
            /\ Len(head) \in Nat /\ \A t \in 1..Len(head) : head[t] \in Logged
            /\ \A t \in 1..Len(head) : t \in 1..LOGSIZE
            /\ \A t \in 1..Len(lh) : t \in 1..LOGSIZE
BY LenProperties, ElementOfSeq, SizeAssumption DEF TypeOK

\* Recovery takes a block that the header names from the log, any other as it is.
LEMMA RecoveredIs ==
  TypeOK /\ Distinct(head) =>
    /\ Recovered \in [Logged -> Content]
    /\ \A t \in 1..Len(head) : Recovered[head[t]] = ldata[t]
    /\ \A b \in Logged : (\A t \in 1..Len(head) : head[t] # b) => Recovered[b] = disk[b]
<1>1. SUFFICES ASSUME TypeOK, Distinct(head)
               PROVE  /\ Recovered \in [Logged -> Content]
                      /\ \A t \in 1..Len(head) : Recovered[head[t]] = ldata[t]
                      /\ \A b \in Logged : (\A t \in 1..Len(head) : head[t] # b) => Recovered[b] = disk[b]
  OBVIOUS
<1>2. ASSUME NEW t \in 1..Len(head) PROVE Recovered[head[t]] = ldata[t] /\ head[t] \in Logged
  <2>1. head[t] \in Logged
    BY <1>1, Entries
  <2>2. (CHOOSE u \in 1..Len(head) : head[u] = head[t]) = t
    BY <1>1 DEF Distinct
  <2>3. QED
    BY <2>1, <2>2 DEF Recovered
<1>3. ASSUME NEW b \in Logged, \A t \in 1..Len(head) : head[t] # b PROVE Recovered[b] = disk[b]
  BY <1>3 DEF Recovered
<1>4. ASSUME NEW b \in Logged PROVE Recovered[b] \in Content
  <2>1. CASE \E t \in 1..Len(head) : head[t] = b
    <3>1. PICK t \in 1..Len(head) : head[t] = b
      BY <2>1
    <3>2. ldata[t] \in Content
      BY <1>1, Entries DEF TypeOK
    <3>3. QED
      BY <1>2, <3>1, <3>2
  <2>2. CASE \A t \in 1..Len(head) : head[t] # b
    BY <1>1, <1>3, <2>2 DEF TypeOK, Blocks
  <2>3. QED
    BY <2>1, <2>2
<1>5. Recovered \in [Logged -> Content]
  BY <1>4 DEF Recovered
<1>6. QED
  BY <1>2, <1>3, <1>5

\* Nobody is active during a commit, nobody commits while somebody is.
LEMMA Alone ==
  BookInv => /\ \A o \in Ops : pc[o] = "active" =>
                  /\ outstanding >= 1 /\ ~committing
                  /\ pc[Boot] = "off" /\ \A q \in Ops : pc[q] \notin Committer
             /\ \A o \in Ops : pc[o] \in Committer =>
                  /\ pc[Boot] = "off" /\ Active = {}
             /\ pc[Boot] # "off" => Active = {}
<1>1. SUFFICES ASSUME BookInv
               PROVE  /\ \A o \in Ops : pc[o] = "active" =>
                            /\ outstanding >= 1 /\ ~committing
                            /\ pc[Boot] = "off" /\ \A q \in Ops : pc[q] \notin Committer
                      /\ \A o \in Ops : pc[o] \in Committer =>
                            /\ pc[Boot] = "off" /\ Active = {}
                      /\ pc[Boot] # "off" => Active = {}
  OBVIOUS
<1>2. Active # {} => outstanding >= 1 /\ ~committing
  <2>1. outstanding \in Nat /\ (outstanding = 0 => Active = {})
    BY <1>1, FS_EmptySet DEF BookInv, TypeOK, CountInv
  <2>2. QED
    BY <1>1, <2>1 DEF BookInv, CountInv
<1>3. QED
  BY <1>1, <1>2 DEF BookInv, PhaseInv, Committer, Active

LEMMA InitDisk == Init => DiskInv /\ AtomInv
<1>1. SUFFICES ASSUME Init PROVE DiskInv /\ AtomInv
  OBVIOUS
<1>2. lh = <<>> /\ head = <<>> /\ Len(<<>>) = 0 /\ (1..0) = {}
  BY <1>1 DEF Init
<1>3. DiskInv
  BY <1>1, <1>2, RunnerKinds DEF Init, DiskInv, Distinct, Blocks, Clean
<1>4. \A b \in Logged : Recovered[b] = {}
  <2>1. \A b \in Logged : (\A t \in 1..Len(head) : head[t] # b) /\ disk[b] = {}
    BY <1>1, <1>2 DEF Init, Blocks
  <2>2. QED
    BY <2>1 DEF Recovered
<1>5. AtomInv
  BY <1>1, <1>4, RunnerKinds DEF Init, AtomInv, KeptOf, Kept, Changed, Blocks, Clean
<1>6. QED
  BY <1>3, <1>5

\* A step that leaves memory, disk and log as they are, and moves nobody into a
\* commit, or out of the copying of the blocks.
LEMMA DiskRests ==
  ASSUME BookInv, DiskInv, UNCHANGED <<ldata, head, lh, tail>>,
         \A b \in Clean : mem'[b] = mem[b] /\ disk'[b] = disk[b],
         pc'[Boot] = pc[Boot],
         \A o \in Ops : /\ pc'[o] \in Committer => pc'[o] = pc[o]
                        /\ pc[o] = "install" => pc'[o] = "install"
  PROVE  DiskInv'
<1>. USE RunnerKinds DEF DiskInv, Committer
<1>1. \A t \in 1..Len(lh) : lh[t] \in Logged
  BY Entries DEF BookInv
<1>2. \A r \in Runners : pc'[r] = "install" => pc[r] = "install"
  OBVIOUS
<1>3. Distinct(lh)' /\ Distinct(head)'
  BY DEF Distinct
<1>4. pc'[Boot] = "off" => \A b \in Clean : InLog(b)' \/ mem'[b] = disk'[b]
  BY DEF InLog
<1>5. \A r \in Runners : pc'[r] = "install" =>
        /\ head' = lh'
        /\ \A t \in 1..tail'[r] : t <= Len(lh') /\ lh'[t] \in Clean => disk'[lh'[t]] = ldata'[t]
  <2>1. SUFFICES ASSUME NEW r \in Runners, pc[r] = "install",
                        NEW t \in 1..tail[r], t <= Len(lh), lh[t] \in Clean
                 PROVE  disk'[lh[t]] = ldata[t]
    BY <1>2
  <2>2. t \in 1..Len(lh)
    BY <2>1, Entries DEF BookInv, TypeOK
  <2>3. QED
    BY <1>1, <2>1, <2>2
<1>6. \A o \in Ops :
       /\ pc'[o] = "wlog" =>
            \A t \in 1..tail'[o] : t <= Len(lh') /\ lh'[t] \in Clean => ldata'[t] = mem'[lh'[t]]
       /\ pc'[o] = "install" => \A t \in 1..Len(lh') : lh'[t] \in Clean => ldata'[t] = mem'[lh'[t]]
       /\ pc'[o] = "done" => lh' = <<>>
  <2>1. TAKE o \in Ops
  <2>2. ASSUME pc'[o] = "wlog", NEW t \in 1..tail'[o], t <= Len(lh'), lh'[t] \in Clean
        PROVE  ldata'[t] = mem'[lh'[t]]
    <3>1. ldata[t] = mem[lh[t]]
      BY <2>2
    <3>2. QED
      BY <2>2, <3>1
  <2>3. ASSUME pc'[o] = "install", NEW t \in 1..Len(lh'), lh'[t] \in Clean
        PROVE  ldata'[t] = mem'[lh'[t]]
    BY <1>1, <2>3
  <2>4. QED
    BY <2>2, <2>3
<1>7. QED
  BY <1>3, <1>4, <1>5, <1>6

LEMMA DiskStep ==
  ASSUME BookInv, DiskInv, [Next]_vars
  PROVE  DiskInv'
<1>. USE RunnerKinds DEF Goto
<1>0. TypeOK /\ PhaseInv /\ DiskInv
  BY DEF BookInv
<1>1. ASSUME NEW o \in Ops, Call(o) \/ Begin_op(o) PROVE DiskInv'
  BY <1>0, <1>1, DiskRests DEF Call, Begin_op, BeginWait, Begin, dvars, logvars, TypeOK, Committer
<1>2. ASSUME NEW o \in Ops, NEW b \in Logged, LogWrite(o, b) PROVE DiskInv'
  <2>1. /\ pc[o] = "active" /\ pc[Boot] = "off"
        /\ \A q \in Ops : pc[q] \notin Committer
    BY <1>2, Alone DEF LogWrite
  <2>2. head = <<>> /\ head' = head /\ disk' = disk /\ pc' = pc
    BY <1>0, <1>2, <2>1 DEF LogWrite, dvars, DiskInv, Committer
  <2>3. lh \in Seq(Logged) /\ Len(lh) \in Nat
    BY <1>0, Entries DEF TypeOK
  <2>4. /\ \A t \in 1..Len(lh) : t \in 1..Len(lh') /\ lh'[t] = lh[t]
        /\ InLog(b)'
    <3>1. CASE InLog(b)
      BY <1>2, <3>1 DEF LogWrite, InLog
    <3>2. CASE ~InLog(b)
      <4>1. Len(lh') = Len(lh) + 1 /\ lh'[Len(lh) + 1] = b /\ \A t \in 1..Len(lh) : lh'[t] = lh[t]
        BY <1>2, <2>3, <3>2, AppendProperties DEF LogWrite
      <4>2. QED
        BY <2>3, <4>1 DEF InLog
    <3>3. QED
      BY <3>1, <3>2
  <2>5. Distinct(lh')
    <3>1. CASE InLog(b)
      BY <1>0, <1>2, <3>1 DEF LogWrite, DiskInv
    <3>2. CASE ~InLog(b)
      <4>1. Len(lh') = Len(lh) + 1 /\ lh'[Len(lh) + 1] = b /\ \A t \in 1..Len(lh) : lh'[t] = lh[t]
        BY <1>2, <2>3, <3>2, AppendProperties DEF LogWrite
      <4>2. QED
        BY <1>0, <2>3, <3>2, <4>1 DEF InLog, DiskInv, Distinct
    <3>3. QED
      BY <3>1, <3>2
  <2>6. ASSUME NEW c \in Clean PROVE InLog(c)' \/ mem'[c] = disk'[c]
    <3>1. CASE c = b
      BY <2>4, <3>1
    <3>2. CASE c # b
      <4>1. mem'[c] = mem[c]
        BY <1>0, <1>2, <3>2 DEF LogWrite, TypeOK, Clean
      <4>2. InLog(c) => InLog(c)'
        BY <2>4 DEF InLog
      <4>3. QED
        BY <1>0, <2>1, <2>2, <4>1, <4>2 DEF DiskInv
    <3>3. QED
      BY <3>1, <3>2
  <2>7. Distinct(head')
    BY <1>0, <2>2 DEF DiskInv
  <2>8. QED
    BY <2>1, <2>2, <2>5, <2>6, <2>7 DEF DiskInv, Committer
<1>3. ASSUME NEW o \in Ops, End(o) PROVE DiskInv'
  <2>1. pc'[Boot] = pc[Boot]
    BY <1>0, <1>3 DEF End, EndWake, WakeAll, PhaseInv
  <2>2. \A q \in Ops : /\ pc'[q] \in Committer => pc'[q] = pc[q]
                       /\ pc[q] = "install" => pc'[q] = "install"
    BY <1>0, <1>3 DEF End, EndWake, WakeAll, Committer
  <2>3. QED
    BY <1>0, <1>3, <2>1, <2>2, DiskRests DEF End, dvars
<1>4. ASSUME NEW o \in Ops, EndLast(o) PROVE DiskInv'
  <2>1. pc[Boot] = "off" /\ pc'[Boot] = "off" /\ \A q \in Ops : pc[q] \notin Committer
    BY <1>0, <1>4, Alone DEF EndLast, TypeOK
  <2>2. /\ pc'[o] \in {"wlog", "done"} /\ (pc'[o] = "done" => lh' = <<>>) /\ tail'[o] = 0
        /\ \A q \in Ops : q # o => pc'[q] = pc[q]
    BY <1>0, <1>4 DEF EndLast, TypeOK
  <2>3. mem' = mem /\ disk' = disk /\ head' = head /\ lh' = lh /\ ldata' = ldata
    BY <1>4 DEF EndLast, dvars
  <2>4. head = <<>>
    BY <1>0, <2>1 DEF DiskInv, Committer
  <2>5. \A r \in Runners : pc'[r] # "install"
    BY <2>1, <2>2 DEF Committer
  <2>6. \A q \in Ops : /\ pc'[q] = "wlog" => (1..tail'[q]) = {}
                       /\ pc'[q] = "done" => lh' = <<>>
    BY <2>1, <2>2 DEF Committer
  <2>7. \A c \in Clean : InLog(c)' \/ mem'[c] = disk'[c]
    BY <1>0, <2>1, <2>3 DEF DiskInv, InLog
  <2>8. Distinct(lh') /\ Distinct(head')
    BY <1>0, <2>3 DEF DiskInv
  <2>9. QED
    BY <2>1, <2>3, <2>4, <2>5, <2>6, <2>7, <2>8 DEF DiskInv
<1>5. ASSUME NEW o \in Ops, WriteLog(o) PROVE DiskInv'
  <2>1. /\ pc[o] = "wlog" /\ pc[Boot] = "off" /\ pc' = pc
        /\ \A q \in Ops : q # o => pc[q] \notin Committer
    BY <1>0, <1>5, Alone DEF WriteLog, PhaseInv, Committer
  <2>2. /\ UNCHANGED <<mem, disk, head, lh>>
        /\ tail'[o] = tail[o] + 1 /\ tail[o] \in Nat /\ tail[o] < Len(lh)
        /\ ldata'[tail[o] + 1] = mem[lh[tail[o] + 1]]
        /\ \A t \in 1..tail[o] : ldata'[t] = ldata[t]
    <3>1. tail[o] \in 0..LOGSIZE /\ tail[o] < Len(lh) /\ Len(lh) \in Nat /\ Len(lh) <= LOGSIZE
      BY <1>0, <1>5, Entries DEF WriteLog, TypeOK
    <3>2. tail[o] + 1 \in 1..LOGSIZE
      BY <3>1, SizeAssumption
    <3>3. QED
      BY <1>0, <1>5, <3>1, <3>2 DEF WriteLog, TypeOK, logvars
  <2>3. \A r \in Runners : pc'[r] # "install"
    BY <2>1 DEF Committer
  <2>4. \A t \in 1..tail'[o] : t <= Len(lh') /\ lh'[t] \in Clean => ldata'[t] = mem'[lh'[t]]
    BY <1>0, <2>1, <2>2 DEF DiskInv
  <2>5. head = <<>>
    BY <1>0, <2>1 DEF DiskInv, Committer
  <2>6. \A c \in Clean : InLog(c)' \/ mem'[c] = disk'[c]
    BY <1>0, <2>1, <2>2 DEF DiskInv, InLog
  <2>7. Distinct(lh') /\ Distinct(head')
    BY <1>0, <2>2 DEF DiskInv
  <2>8. \A q \in Ops : q # o => pc'[q] \notin Committer
    BY <2>1
  <2>9. QED
    BY <2>1, <2>2, <2>3, <2>4, <2>5, <2>6, <2>7, <2>8 DEF DiskInv, Committer
<1>6. ASSUME NEW o \in Ops, WriteHead(o) PROVE DiskInv'
  <2>1. /\ pc[o] = "wlog" /\ pc[Boot] = "off"
        /\ \A q \in Ops : q # o => pc[q] \notin Committer
    BY <1>0, <1>6, Alone DEF WriteHead, PhaseInv, Committer
  <2>2. /\ pc'[o] = "install" /\ pc'[Boot] = "off"
        /\ \A q \in Ops : q # o => pc'[q] \notin Committer
        /\ tail'[o] = 0
    BY <1>0, <1>6, <2>1 DEF WriteHead, TypeOK
  <2>3. UNCHANGED <<mem, disk, ldata, lh>> /\ head' = lh'
    BY <1>6 DEF WriteHead, logvars
  <2>4. \A t \in 1..Len(lh') : lh'[t] \in Clean => ldata'[t] = mem'[lh'[t]]
    <3>1. tail[o] = Len(lh) /\ Len(lh) \in Nat
      BY <1>0, <1>6, Entries DEF WriteHead, Written
    <3>2. \A t \in 1..Len(lh) : t <= Len(lh)
      BY <3>1
    <3>3. QED
      BY <1>0, <2>1, <2>3, <3>1, <3>2 DEF DiskInv
  <2>5. Distinct(lh') /\ Distinct(head')
    BY <1>0, <2>3 DEF DiskInv
  <2>6. \A c \in Clean : InLog(c)' \/ mem'[c] = disk'[c]
    BY <1>0, <2>1, <2>3 DEF DiskInv, InLog
  <2>7. \A r \in Runners : pc'[r] = "install" => r = o /\ (1..tail'[r]) = {}
    BY <2>2 DEF Committer
  <2>8. QED
    BY <2>2, <2>3, <2>4, <2>5, <2>6, <2>7 DEF DiskInv, Committer
<1>7. CASE ReadHead
  <2>1. /\ pc[Boot] = "rhead" /\ pc'[Boot] = "install" /\ tail'[Boot] = 0
        /\ \A o \in Ops : pc'[o] = pc[o] /\ pc[o] \notin Committer
    BY <1>0, <1>7 DEF ReadHead, TypeOK, PhaseInv, Committer
  <2>2. UNCHANGED <<mem, disk, head>> /\ lh' = head
    BY <1>7 DEF ReadHead, dvars
  <2>3. Distinct(lh') /\ Distinct(head')
    BY <1>0, <2>2 DEF DiskInv
  <2>4. \A c \in Clean : mem'[c] = disk'[c]
    BY <1>0, <2>1, <2>2 DEF DiskInv
  <2>5. \A r \in Runners : pc'[r] = "install" => r = Boot /\ (1..tail'[r]) = {}
    BY <2>1 DEF Committer
  <2>6. QED
    BY <2>1, <2>2, <2>3, <2>4, <2>5 DEF DiskInv, Committer
<1>8. ASSUME NEW r \in Runners, Install(r) PROVE DiskInv'
  <2>. DEFINE n == tail[r] + 1
              b == lh[n]
  <2>1. n \in 1..Len(lh) /\ tail[r] \in Nat /\ n \in 1..LOGSIZE /\ b \in Logged
    BY <1>0, <1>8, Entries DEF Install, TypeOK
  <2>2. /\ pc[r] = "install" /\ pc' = pc /\ UNCHANGED <<ldata, head, lh>>
        /\ tail'[r] = n /\ mem' = [mem EXCEPT ![b] = ldata[n]] /\ disk' = [disk EXCEPT ![b] = ldata[n]]
    BY <1>0, <1>8 DEF Install, TypeOK, logvars
  <2>3. \A q \in Runners : pc[q] \in Committer => q = r
    BY <1>0, <2>2, Alone DEF PhaseInv, Committer
  <2>4. /\ mem'[b] = ldata[n] /\ disk'[b] = ldata[n]
        /\ \A c \in Clean : c # b => mem'[c] = mem[c] /\ disk'[c] = disk[c]
    BY <1>0, <2>1, <2>2 DEF TypeOK, Blocks, Clean
  <2>5. \A t \in 1..tail'[r] : t <= Len(lh') /\ lh'[t] \in Clean => disk'[lh'[t]] = ldata'[t]
    <3>1. SUFFICES ASSUME NEW t \in 1..n, t # n, lh[t] \in Clean PROVE disk'[lh[t]] = ldata[t]
      BY <2>2, <2>4
    <3>2. t \in 1..tail[r] /\ t \in 1..Len(lh)
      BY <2>1, <3>1, Entries, <1>0
    <3>3. lh[t] # b
      BY <1>0, <2>1, <3>1, <3>2, Entries DEF DiskInv, Distinct
    <3>4. t <= Len(lh)
      BY <3>2
    <3>5. disk[lh[t]] = ldata[t]
      BY <1>0, <2>2, <3>1, <3>2, <3>4 DEF DiskInv
    <3>6. QED
      BY <2>4, <3>1, <3>3, <3>5
  <2>6. head' = lh' /\ Distinct(lh') /\ Distinct(head')
    BY <1>0, <2>2 DEF DiskInv
  <2>7. CASE r = Boot
    <3>1. \A c \in Clean : mem'[c] = disk'[c]
      BY <1>0, <2>2, <2>4, <2>7 DEF DiskInv
    <3>2. \A q \in Ops : pc'[q] \notin Committer
      BY <2>2, <2>3, <2>7
    <3>3. QED
      BY <2>2, <2>5, <2>6, <2>7, <3>1, <3>2 DEF DiskInv, Committer
  <2>8. CASE r \in Ops
    <3>1. pc[Boot] = "off" /\ (b \in Clean => mem[b] = ldata[n])
      BY <1>0, <2>1, <2>2, <2>8, Alone DEF DiskInv, Committer
    <3>2. \A c \in Clean : mem'[c] = mem[c]
      BY <2>4, <3>1
    <3>3. \A c \in Clean : InLog(c)' \/ mem'[c] = disk'[c]
      <4>1. \A c \in Clean : c = b => InLog(c)'
        BY <2>1, <2>2 DEF InLog
      <4>2. \A c \in Clean : InLog(c) => InLog(c)'
        BY <2>2 DEF InLog
      <4>3. QED
        BY <1>0, <2>4, <3>1, <4>1, <4>2 DEF DiskInv
    <3>4. \A t \in 1..Len(lh') : lh'[t] \in Clean => ldata'[t] = mem'[lh'[t]]
      <4>1. \A t \in 1..Len(lh) : lh[t] \in Clean => ldata[t] = mem[lh[t]]
        BY <1>0, <2>2, <2>8, Entries DEF DiskInv
      <4>2. QED
        BY <2>2, <3>2, <4>1
    <3>5. \A q \in Runners : pc'[q] \in Committer => q = r
      BY <2>2, <2>3
    <3>6. pc'[r] = "install" /\ pc'[Boot] = "off"
      BY <2>2, <3>1
    <3>7. QED
      BY <2>5, <2>6, <2>8, <3>3, <3>4, <3>5, <3>6 DEF DiskInv, Committer
  <2>9. QED
    BY <2>7, <2>8
<1>9. ASSUME NEW r \in Runners, Erase(r) PROVE DiskInv'
  <2>1. /\ pc[r] = "install" /\ UNCHANGED <<mem, disk, ldata>> /\ lh' = <<>> /\ head' = <<>>
        /\ tail[r] = Len(lh) /\ Len(lh) \in Nat
    BY <1>0, <1>9, Entries DEF Erase, Installed
  <2>2. \A q \in Runners : pc[q] \in Committer => q = r
    BY <1>0, <2>1, Alone DEF PhaseInv, Committer
  <2>3. /\ pc'[Boot] = "off"
        /\ \A q \in Runners : pc'[q] \in Committer => q = r /\ pc'[q] = "done"
    BY <1>0, <1>9, <2>1, <2>2, Alone DEF Erase, TypeOK, Committer
  <2>4. \A t \in 1..Len(lh) : lh[t] \in Clean => disk[lh[t]] = ldata[t]
    <3>1. \A t \in 1..Len(lh) : t \in 1..tail[r] /\ t <= Len(lh)
      BY <2>1
    <3>2. QED
      BY <1>0, <2>1, <3>1 DEF DiskInv
  <2>5. \A c \in Clean : mem[c] = disk[c]
    <3>1. CASE r = Boot
      BY <1>0, <2>1, <3>1 DEF DiskInv
    <3>2. CASE r \in Ops
      <4>1. pc[Boot] = "off" /\ \A t \in 1..Len(lh) : lh[t] \in Clean => ldata[t] = mem[lh[t]]
        BY <1>0, <2>1, <3>2, Alone DEF DiskInv, Committer
      <4>2. QED
        BY <1>0, <2>4, <4>1 DEF DiskInv, InLog
    <3>3. QED
      BY <3>1, <3>2
  <2>6. Distinct(lh') /\ Distinct(head')
    BY <2>1, EmptySeq DEF Distinct
  <2>7. QED
    BY <2>1, <2>3, <2>5, <2>6 DEF DiskInv, Committer
<1>10. ASSUME NEW o \in Ops, Done(o) PROVE DiskInv'
  <2>1. pc'[Boot] = pc[Boot]
    BY <1>0, <1>10 DEF Done, DoneWake, WakeAll, PhaseInv
  <2>2. \A q \in Ops : /\ pc'[q] \in Committer => pc'[q] = pc[q]
                       /\ pc[q] = "install" => pc'[q] = "install"
    BY <1>0, <1>10 DEF Done, DoneWake, WakeAll, Committer
  <2>3. QED
    BY <1>0, <1>10, <2>1, <2>2, DiskRests DEF Done, dvars
<1>11. ASSUME NEW b \in Direct, Bwrite(b) PROVE DiskInv'
  <2>1. \A c \in Clean : mem'[c] = mem[c] /\ disk'[c] = disk[c]
    BY <1>0, <1>11 DEF Bwrite, TypeOK, Clean
  <2>2. QED
    BY <1>0, <1>11, <2>1, DiskRests DEF Bwrite, logvars
<1>12. CASE Crash
  <2>1. /\ pc'[Boot] = "rhead" /\ lh' = <<>> /\ head' = head /\ mem' = disk /\ disk' = disk
        /\ \A o \in Ops : pc'[o] \in {"idle", "ended", "dead"}
    BY <1>12 DEF Crash, dvars
  <2>2. Distinct(lh') /\ Distinct(head')
    BY <1>0, <2>1, EmptySeq DEF Distinct, DiskInv
  <2>3. QED
    BY <2>1, <2>2 DEF DiskInv
<1>13. CASE UNCHANGED vars
  BY <1>0, <1>13, DiskRests DEF vars, dvars, logvars
<1>14. QED
  BY <1>1, <1>2, <1>3, <1>4, <1>5, <1>6, <1>7, <1>8, <1>9, <1>10, <1>11, <1>12, <1>13
     DEF Next, End_op, Commit, Copy

\* What a crash leaves changes at one point only: write_head, which makes all that
\* is in memory durable.
LEMMA CommitPoint ==
  ASSUME BookInv, DiskInv, [Next]_vars
  PROVE  \/ Kept' = Kept
         \/ \E o \in Ops : WriteHead(o) /\ Kept' = [b \in Clean |-> mem[b]]
<1>. USE RunnerKinds DEF Goto
<1>0. TypeOK /\ PhaseInv /\ TypeOK' /\ Distinct(head) /\ Distinct(head)'
  BY TypeStep, DiskStep DEF BookInv, DiskInv
<1>1. /\ Recovered \in [Logged -> Content]
      /\ \A t \in 1..Len(head) : Recovered[head[t]] = ldata[t]
      /\ \A b \in Logged : (\A t \in 1..Len(head) : head[t] # b) => Recovered[b] = disk[b]
  BY <1>0, RecoveredIs
<1>2. (TypeOK /\ Distinct(head) =>
        /\ Recovered \in [Logged -> Content]
        /\ \A t \in 1..Len(head) : Recovered[head[t]] = ldata[t]
        /\ \A b \in Logged : (\A t \in 1..Len(head) : head[t] # b) => Recovered[b] = disk[b])'
  BY RecoveredIs, PTL
<1>3. /\ Recovered' \in [Logged -> Content]
      /\ \A t \in 1..Len(head') : Recovered'[head'[t]] = ldata'[t]
      /\ \A b \in Logged : (\A t \in 1..Len(head') : head'[t] # b) => Recovered'[b] = disk'[b]
  BY <1>0, <1>2
<1>4. ASSUME UNCHANGED <<ldata, head>>, \A b \in Clean : disk'[b] = disk[b]
      PROVE  Kept' = Kept
  <2>1. ASSUME NEW b \in Clean PROVE Recovered'[b] = Recovered[b]
    BY <1>1, <1>3, <1>4 DEF Clean
  <2>2. QED
    BY <2>1 DEF Kept
<1>5. ASSUME NEW o \in Ops, Call(o) \/ Begin_op(o) \/ End_op(o) PROVE Kept' = Kept
  BY <1>4, <1>5 DEF Call, Begin_op, BeginWait, Begin, End_op, End, EndLast, Done, dvars
<1>6. ASSUME NEW o \in Ops, NEW b \in Logged, LogWrite(o, b) PROVE Kept' = Kept
  BY <1>4, <1>6 DEF LogWrite, dvars
<1>7. ASSUME ReadHead \/ Crash \/ UNCHANGED vars PROVE Kept' = Kept
  BY <1>4, <1>7 DEF ReadHead, Crash, vars, dvars
<1>8. ASSUME NEW b \in Direct, Bwrite(b) PROVE Kept' = Kept
  BY <1>0, <1>4, <1>8 DEF Bwrite, TypeOK, Clean
<1>9. ASSUME NEW o \in Ops, WriteLog(o) PROVE Kept' = Kept
  <2>1. head = <<>> /\ head' = head /\ disk' = disk /\ Len(<<>>) = 0
    BY <1>0, <1>9, Alone DEF WriteLog, PhaseInv, DiskInv, Committer
  <2>2. ASSUME NEW b \in Clean PROVE Recovered'[b] = Recovered[b]
    BY <1>1, <1>3, <2>1 DEF Clean
  <2>3. QED
    BY <2>2 DEF Kept
<1>10. ASSUME NEW o \in Ops, WriteHead(o) PROVE Kept' = [b \in Clean |-> mem[b]]
  <2>1. /\ head' = lh /\ UNCHANGED <<mem, disk, ldata>>
        /\ pc[o] = "wlog" /\ pc[Boot] = "off"
    BY <1>10, Alone DEF WriteHead, Committer
  <2>2. \A t \in 1..Len(lh) : lh[t] \in Clean => ldata[t] = mem[lh[t]]
    <3>1. tail[o] = Len(lh) /\ Len(lh) \in Nat
      BY <1>0, <1>10, Entries DEF WriteHead, Written
    <3>2. \A t \in 1..Len(lh) : t <= Len(lh)
      BY <3>1
    <3>3. QED
      BY <2>1, <3>1, <3>2 DEF DiskInv
  <2>3. ASSUME NEW b \in Clean PROVE Recovered'[b] = mem[b]
    <3>1. CASE InLog(b)
      BY <1>3, <2>1, <2>2, <3>1 DEF InLog
    <3>2. CASE ~InLog(b)
      BY <1>3, <2>1, <3>2 DEF InLog, DiskInv, Clean
    <3>3. QED
      BY <3>1, <3>2
  <2>4. QED
    BY <2>3 DEF Kept
<1>11. ASSUME NEW r \in Runners, Install(r) PROVE Kept' = Kept
  <2>. DEFINE n == tail[r] + 1
              b == lh[n]
  <2>1. n \in 1..Len(lh)
    BY <1>0, <1>11, Entries DEF Install, TypeOK
  <2>2. head = lh /\ head' = head /\ ldata' = ldata /\ disk' = [disk EXCEPT ![b] = ldata[n]]
    BY <1>11 DEF Install, DiskInv
  <2>3. ASSUME NEW c \in Clean PROVE Recovered'[c] = Recovered[c]
    <3>1. CASE \E t \in 1..Len(head) : head[t] = c
      BY <1>1, <1>3, <2>2, <3>1
    <3>2. CASE \A t \in 1..Len(head) : head[t] # c
      <4>1. c # b /\ disk'[c] = disk[c]
        BY <1>0, <2>1, <2>2, <3>2 DEF TypeOK, Blocks, Clean
      <4>2. QED
        BY <1>1, <1>3, <2>2, <3>2, <4>1 DEF Clean
    <3>3. QED
      BY <3>1, <3>2
  <2>4. QED
    BY <2>3 DEF Kept
<1>12. ASSUME NEW r \in Runners, Erase(r) PROVE Kept' = Kept
  <2>1. /\ head' = <<>> /\ disk' = disk /\ head = lh /\ Len(<<>>) = 0
        /\ tail[r] = Len(lh) /\ Len(lh) \in Nat
    BY <1>0, <1>12, Entries DEF Erase, Installed, DiskInv
  <2>2. \A t \in 1..Len(lh) : lh[t] \in Clean => disk[lh[t]] = ldata[t]
    <3>1. \A t \in 1..Len(lh) : t \in 1..tail[r] /\ t <= Len(lh)
      BY <2>1
    <3>2. QED
      BY <1>12, <2>1, <3>1 DEF DiskInv, Erase
  <2>3. ASSUME NEW c \in Clean PROVE Recovered'[c] = Recovered[c]
    <3>1. Recovered'[c] = disk[c]
      BY <1>3, <2>1 DEF Clean
    <3>2. CASE \E t \in 1..Len(head) : head[t] = c
      BY <1>1, <2>1, <2>2, <3>1, <3>2
    <3>3. CASE \A t \in 1..Len(head) : head[t] # c
      BY <1>1, <3>1, <3>3 DEF Clean
    <3>4. QED
      BY <3>2, <3>3
  <2>4. QED
    BY <2>3 DEF Kept
<1>13. QED
  BY <1>5, <1>6, <1>7, <1>8, <1>9, <1>10, <1>11, <1>12 DEF Next, Commit, Copy

\* In a system that runs, memory changes, at the blocks of the log, by log_write only;
\* after a crash and its recovery it holds what was recovered.
LEMMA MemoryStep ==
  ASSUME BookInv, DiskInv, [Next]_vars, pc'[Boot] = "off"
  PROVE  \/ pc[Boot] = "off" /\ \A b \in Clean : mem'[b] = mem[b]
         \/ pc[Boot] = "off" /\ \E o \in Ops : \E b \in Logged : LogWrite(o, b)
         \/ Erase(Boot) /\ pc[Boot] # "off" /\ Active' = {} /\ \A b \in Clean : mem'[b] = Recovered[b]
<1>. USE RunnerKinds DEF Goto
<1>0. TypeOK /\ PhaseInv
  BY DEF BookInv
<1>1. CASE pc[Boot] # "off"
  <2>1. Erase(Boot)
    <3>1. Erase(Boot) \/ pc'[Boot] = pc[Boot] \/ Crash \/ ReadHead
      BY <1>0 DEF Next, Call, Begin_op, BeginWait, Begin, LogWrite, End_op, End, EndWake, EndLast,
         Done, DoneWake, WakeAll, Commit, WriteLog, WriteHead, Copy, Install, Erase, Bwrite, vars, TypeOK
    <3>2. QED
      BY <1>0, <1>1, <3>1 DEF Crash, ReadHead, TypeOK
  <2>2. /\ pc[Boot] = "install" /\ mem' = mem /\ head = lh
        /\ tail[Boot] = Len(lh) /\ Len(lh) \in Nat
    BY <1>0, <2>1, Entries DEF Erase, Installed, DiskInv
  <2>3. \A t \in 1..Len(lh) : lh[t] \in Clean => disk[lh[t]] = ldata[t]
    <3>1. \A t \in 1..Len(lh) : t \in 1..tail[Boot] /\ t <= Len(lh)
      BY <2>2
    <3>2. QED
      BY <2>2, <3>1 DEF DiskInv
  <2>4. /\ \A t \in 1..Len(head) : Recovered[head[t]] = ldata[t]
        /\ \A b \in Logged : (\A t \in 1..Len(head) : head[t] # b) => Recovered[b] = disk[b]
    BY <1>0, RecoveredIs DEF DiskInv
  <2>5. ASSUME NEW c \in Clean PROVE mem'[c] = Recovered[c]
    <3>1. mem'[c] = disk[c]
      BY <1>1, <2>2 DEF DiskInv
    <3>2. CASE \E t \in 1..Len(head) : head[t] = c
      BY <2>2, <2>3, <2>4, <3>1, <3>2
    <3>3. CASE \A t \in 1..Len(head) : head[t] # c
      BY <2>4, <3>1, <3>3 DEF Clean
    <3>4. QED
      BY <3>2, <3>3
  <2>6. Active' = {}
    BY <1>0, <1>1, <2>1 DEF Erase, Active, PhaseInv, TypeOK
  <2>7. QED
    BY <1>1, <2>1, <2>5, <2>6
<1>2. CASE pc[Boot] = "off" /\ \E r \in Runners : Install(r)
  <2>1. PICK r \in Runners : Install(r)
    BY <1>2
  <2>2. r \in Ops
    BY <1>2, <2>1 DEF Install
  <2>3. tail[r] + 1 \in 1..Len(lh)
    BY <1>0, <2>1, Entries DEF Install, TypeOK
  <2>4. lh[tail[r] + 1] \in Clean => ldata[tail[r] + 1] = mem[lh[tail[r] + 1]]
    BY <2>1, <2>2, <2>3 DEF Install, DiskInv
  <2>5. \A b \in Clean : mem'[b] = mem[b]
    BY <1>0, <2>1, <2>4 DEF Install, TypeOK, Blocks, Clean
  <2>6. QED
    BY <1>2, <2>5
<1>3. CASE \E b \in Direct : pc[Boot] = "off" /\ Bwrite(b)
  BY <1>0, <1>3 DEF Bwrite, TypeOK, Clean
<1>4. CASE /\ pc[Boot] = "off" /\ ~(\E r \in Runners : Install(r)) /\ ~(\E b \in Direct : Bwrite(b))
           /\ ~ \E o \in Ops : \E b \in Logged : LogWrite(o, b)
  <2>1. ~Crash
    BY <1>0 DEF Crash, TypeOK
  <2>2. mem' = mem
    BY <1>4, <2>1 DEF Next, Call, Begin_op, BeginWait, Begin, End_op, End, EndLast,
       Done, Commit, WriteLog, WriteHead, Copy, Erase, ReadHead, vars
  <2>3. QED
    BY <1>4, <2>2
<1>5. QED
  BY <1>1, <1>2, <1>3, <1>4

LEMMA AtomStep ==
  ASSUME BookInv, DiskInv, AtomInv, [Next]_vars
  PROVE  AtomInv'
<1>. USE RunnerKinds DEF Goto
<1>0. TypeOK /\ PhaseInv /\ CountInv
  BY DEF BookInv
<1>1. SUFFICES ASSUME NEW o \in Ops
               PROVE  /\ KeptOf(o)' \in {{}, wrote'[o] \cap Clean}
                      /\ pc'[Boot] = "off" => Changed(o)' \in {{}, wrote'[o] \cap Clean}
                      /\ pc'[o] = "active" => KeptOf(o)' = {} /\ Changed(o)' = wrote'[o] \cap Clean
  BY DEF AtomInv
<1>2. /\ KeptOf(o) \in {{}, wrote[o] \cap Clean}
      /\ pc[Boot] = "off" => Changed(o) \in {{}, wrote[o] \cap Clean}
      /\ pc[o] = "active" => KeptOf(o) = {} /\ Changed(o) = wrote[o] \cap Clean
  BY DEF AtomInv
<1>3. CASE \E q \in Ops : WriteHead(q) /\ Kept' = [b \in Clean |-> mem[b]]
  <2>1. PICK q \in Ops : WriteHead(q) /\ Kept' = [b \in Clean |-> mem[b]]
    BY <1>3
  <2>2. pc[Boot] = "off" /\ pc[o] # "active" /\ mem' = mem /\ wrote' = wrote
    BY <2>1, Alone DEF WriteHead, Active, Committer
  <2>3. pc'[o] # "active"
    BY <1>0, <2>1, <2>2 DEF WriteHead, TypeOK
  <2>4. KeptOf(o)' = Changed(o) /\ Changed(o)' = Changed(o)
    BY <2>1, <2>2 DEF KeptOf, Kept, Changed
  <2>5. QED
    BY <1>2, <2>2, <2>3, <2>4
<1>4. CASE Kept' = Kept /\ \E q \in Ops : \E b \in Logged : LogWrite(q, b)
  <2>1. PICK q \in Ops, b \in Logged : LogWrite(q, b)
    BY <1>4
  <2>2. KeptOf(o)' = KeptOf(o) /\ pc' = pc
    BY <1>4, <2>1 DEF KeptOf, LogWrite
  <2>3. pc[q] = "active" /\ pc[Boot] = "off"
    BY <2>1, Alone DEF LogWrite
  <2>4. CASE o = q
    <3>1. wrote'[o] = wrote[o] \cup {b}
      BY <1>0, <2>1, <2>4 DEF LogWrite, TypeOK
    <3>2. mem'[b] = mem[b] \cup {o} /\ \A c \in Clean : c # b => mem'[c] = mem[c]
      BY <1>0, <2>1, <2>4 DEF LogWrite, TypeOK, Blocks, Clean
    <3>3. Changed(o)' = Changed(o) \cup ({b} \cap Clean)
      BY <3>2 DEF Changed
    <3>4. QED
      BY <1>2, <2>2, <2>3, <2>4, <3>1, <3>3
  <2>5. CASE o # q
    <3>1. wrote'[o] = wrote[o]
      BY <1>0, <2>1, <2>5 DEF LogWrite, TypeOK
    <3>2. mem'[b] = mem[b] \cup {q} /\ \A c \in Clean : c # b => mem'[c] = mem[c]
      BY <1>0, <2>1 DEF LogWrite, TypeOK, Blocks, Clean
    <3>3. Changed(o)' = Changed(o)
      BY <2>5, <3>2 DEF Changed
    <3>4. QED
      BY <1>2, <2>2, <2>3, <3>1, <3>3
  <2>6. QED
    BY <2>4, <2>5
<1>5. CASE Kept' = Kept /\ ~ \E q \in Ops : \E b \in Logged : LogWrite(q, b)
  <2>1. KeptOf(o)' = KeptOf(o)
    BY <1>5 DEF KeptOf
  <2>2. wrote' = wrote
    BY <1>5 DEF Next, Call, Begin_op, BeginWait, Begin, End_op, End, EndLast,
       Done, Commit, WriteLog, WriteHead, Copy, Install, Erase, ReadHead, Bwrite, Crash, vars
  <2>3. ASSUME pc'[Boot] = "off"
        PROVE  \/ pc[Boot] = "off" /\ Changed(o)' = Changed(o)
               \/ pc[Boot] # "off" /\ Active' = {} /\ Changed(o)' = KeptOf(o)
    BY <1>5, <2>3, MemoryStep DEF Changed, KeptOf, Kept
  <2>4. ASSUME pc'[o] = "active"
        PROVE  pc'[Boot] = "off" /\ o \in Active' /\ (pc[o] = "active" \/ pc[o] = "begin")
    <3>1. pc'[Boot] = "off"
      BY <2>4, PhaseStep DEF PhaseInv
    <3>2. o \in Active'
      BY <2>4 DEF Active
    <3>3. pc[o] = "active" \/ pc[o] = "begin"
      <4>1. CASE \E q \in Ops : Begin(q) /\ q \notin Active /\ Active' = Active \cup {q}
        BY <3>2, <4>1 DEF Begin, Active
      <4>2. CASE Active' \subseteq Active
        BY <3>2, <4>2 DEF Active
      <4>3. QED
        BY <4>1, <4>2, ActiveStep
    <3>4. QED
      BY <3>1, <3>2, <3>3
  <2>5. pc[o] = "begin" => wrote[o] = {} /\ KeptOf(o) = {} /\ (pc[Boot] = "off" => Changed(o) = {})
    BY <1>0, <1>2 DEF CountInv
  <2>6. QED
    BY <1>2, <2>1, <2>2, <2>3, <2>4, <2>5
<1>6. QED
  BY <1>3, <1>4, <1>5, CommitPoint

-----------------------------------------------------------------------------
(* The theorems *)

\* begin_op, end_op and commit keep their books, whatever the sizes: commits one at a
\* time and never with somebody in a transaction, space for every promise in the log.
THEOREM Bookkeeping == Spec => []BookInv
<1>1. Init => BookInv
  BY InitBook
<1>2. BookInv /\ [Next]_vars => BookInv'
  BY BookStep
<1>3. QED
  BY <1>1, <1>2, PTL DEF Spec

\* Nobody is left asleep by end_op, neither by the one that commits nor by the others.
THEOREM Wakeups == Spec => []NoLostWakeup
<1>1. BookInv => NoLostWakeup
  BY DEF BookInv
<1>2. QED
  BY <1>1, Bookkeeping, PTL

\* IInv is inductive, whatever is written around the log.
THEOREM Inductive == Spec => []IInv
<1>1. Init => IInv
  BY InitBook, InitDisk DEF IInv
<1>2. IInv /\ [Next]_vars => IInv'
  BY BookStep, DiskStep, AtomStep DEF IInv
<1>3. QED
  BY <1>1, <1>2, PTL DEF Spec

\* Of the blocks that nobody writes around the log (all but the bitmap, in this kernel):
\* whenever the machine crashes, of an operation's changes to them all survive or none.
CleanAllOrNothing == \A o \in Ops : KeptOf(o) \in {{}, wrote[o] \cap Clean}

THEOREM CleanAtomic == Spec => []CleanAllOrNothing
<1>1. IInv => CleanAllOrNothing
  BY DEF IInv, AtomInv, CleanAllOrNothing
<1>2. QED
  BY <1>1, Inductive, PTL

\* An operation that can still write finds room for its block and one more: the test of
\* log_write never panics.
LEMMA RoomLeft ==
  ASSUME OpWrites < MAXOPBLOCKS, BookInv
  PROVE  NoPanic
<1>0. TypeOK /\ CountInv /\ SpaceInv /\ Len(lh) \in Nat
  BY LenProperties DEF BookInv, TypeOK
<1>1. SUFFICES ASSUME NEW o \in Ops, pc[o] = "active"
               PROVE  /\ Cardinality(wrote[o]) < OpWrites => ~TooBig
                      /\ outstanding >= 1 /\ ~committing
  BY DEF NoPanic
<1>2. ASSUME Cardinality(wrote[o]) < OpWrites PROVE ~TooBig
  <2>. DEFINE c == Cardinality(wrote[o])
              r == <<o, c + 1>>
              q == <<o, c + 2>>
  <2>1. c \in Nat /\ c + 2 \in 1..MAXOPBLOCKS /\ c + 1 \in 1..MAXOPBLOCKS
    BY <1>0, <1>2, FS_CardinalityType, SizeAssumption DEF CountInv
  <2>2. r \in Reserved /\ q \in Reserved /\ r # q
    BY <1>1, <2>1 DEF Reserved, Active
  <2>3. PICK rest : rest = Reserved \ {r}
    OBVIOUS
  <2>4. IsFiniteSet(rest) /\ Cardinality(rest) = Cardinality(Reserved) - 1
    BY <2>2, <2>3, ReservedFinite, FS_RemoveElement
  <2>5. Cardinality(Reserved) >= 2
    <3>1. q \in rest
      BY <2>2, <2>3
    <3>2. /\ IsFiniteSet(rest \ {q})
          /\ Cardinality(rest \ {q}) = Cardinality(rest) - 1
      BY <2>4, <3>1, FS_RemoveElement
    <3>3. Cardinality(rest \ {q}) \in Nat
      BY <3>2, FS_CardinalityType
    <3>4. QED
      BY <2>4, <3>2, <3>3, ReservedFinite
  <2>6. QED
    BY <1>0, <2>5, ReservedFinite, SizeAssumption DEF SpaceInv, TooBig
<1>3. outstanding >= 1 /\ ~committing
  BY <1>1, Alone
<1>4. QED
  BY <1>2, <1>3

\* When end_op has committed, a crash loses nothing.
LEMMA CommitDurable ==
  ASSUME IInv, NEW o \in Ops, pc[o] = "done"
  PROVE  \A b \in Clean : Recovered[b] = mem[b]
<1>1. TypeOK /\ PhaseInv /\ DiskInv /\ BookInv
  BY DEF IInv, BookInv
<1>2. pc[Boot] = "off" /\ lh = <<>> /\ head = <<>> /\ Len(<<>>) = 0
  BY <1>1, Alone DEF DiskInv, PhaseInv, Committer
<1>3. \A b \in Clean : mem[b] = disk[b]
  BY <1>1, <1>2 DEF DiskInv, InLog
<1>4. \A b \in Clean : Recovered[b] = disk[b]
  BY <1>1, <1>2, RecoveredIs DEF DiskInv, Clean
<1>5. QED
  BY <1>3, <1>4

\* All that the runs check of the log in one invariant: of every operation all changes
\* survive a crash or none, a committed one survives, log_write does not panic, no wakeup
\* is lost.  The blocks of the log are written through the log only, and an operation
\* leaves a block of its reservation unused.
THEOREM Safety ==
  ASSUME Direct \cap Logged = {}, OpWrites < MAXOPBLOCKS
  PROVE  Spec => []LogConsistent
<1>1. IInv => LogConsistent
  <2>1. SUFFICES ASSUME IInv PROVE LogConsistent
    OBVIOUS
  <2>2. Clean = Logged /\ Recovered \in [Logged -> Content]
    BY <2>1, RecoveredIs DEF Clean, IInv, BookInv, DiskInv
  <2>3. AllOrNothing
    <3>1. ASSUME NEW o \in Ops PROVE Survives(o) \in {{}, wrote[o]}
      <4>1. wrote[o] \cap Clean = wrote[o]
        BY <2>1, <2>2 DEF IInv, BookInv, TypeOK
      <4>2. KeptOf(o) = Survives(o)
        BY <2>2 DEF KeptOf, Kept, Survives
      <4>3. QED
        BY <2>1, <4>1, <4>2 DEF IInv, AtomInv
    <3>2. QED
      BY <3>1 DEF AllOrNothing
  <2>4. Durable
    <3>1. ASSUME NEW o \in Ops, pc[o] = "done" PROVE Recovered = [b \in Logged |-> mem[b]]
      <4>1. \A b \in Logged : Recovered[b] = mem[b]
        BY <2>1, <2>2, <3>1, CommitDurable
      <4>2. QED
        BY <2>2, <4>1
    <3>2. QED
      BY <3>1 DEF Durable
  <2>5. TypeOK /\ NoLostWakeup /\ NoPanic
    BY <2>1, RoomLeft DEF IInv, BookInv
  <2>6. QED
    BY <2>3, <2>4, <2>5 DEF LogConsistent
<1>2. QED
  BY <1>1, Inductive, PTL

\* The clean blocks as the running system sees them: the disk that the log makes atomic.
Cur == IF pc[Boot] = "off" THEN [b \in Clean |-> mem[b]] ELSE Kept

CD == INSTANCE AtomicDisk WITH Blocks <- Clean, dur <- Kept, active <- Active, cur <- Cur
ImplementsCleanDisk == CD!Spec

LEMMA AtomicInit == Init => CD!Init
<1>1. SUFFICES ASSUME Init PROVE CD!Init
  OBVIOUS
<1>2. head = <<>> /\ Len(<<>>) = 0 /\ pc[Boot] = "off" /\ Active = {}
  BY <1>1, RunnerKinds DEF Init, Active
<1>3. \A b \in Clean : (\A t \in 1..Len(head) : head[t] # b) /\ disk[b] = {} /\ mem[b] = {}
  BY <1>1, <1>2 DEF Init, Blocks, Clean
<1>4. Kept = [b \in Clean |-> {}]
  BY <1>3 DEF Recovered, Kept, Clean
<1>5. [b \in Clean |-> mem[b]] = [b \in Clean |-> {}]
  BY <1>3
<1>6. QED
  BY <1>2, <1>4, <1>5 DEF CD!Init, Cur

\* Each step of the log is one of the atomic disk, or leaves it as it is.
LEMMA AtomicStep ==
  ASSUME IInv, [Next]_vars
  PROVE  [CD!Next]_CD!vars
<1>. USE RunnerKinds DEF Goto
<1>0. TypeOK /\ PhaseInv /\ BookInv /\ DiskInv
  BY DEF IInv, BookInv
<1>1. CASE \E o \in Ops : WriteHead(o) /\ Kept' = [b \in Clean |-> mem[b]]
  <2>1. PICK o \in Ops : WriteHead(o) /\ Kept' = [b \in Clean |-> mem[b]]
    BY <1>1
  <2>2. pc[Boot] = "off" /\ Active = {} /\ mem' = mem
    BY <1>0, <2>1, Alone DEF WriteHead, Committer
  <2>3. pc'[Boot] = "off" /\ Active' = {}
    BY <1>0, <2>1, <2>2 DEF WriteHead, Active, TypeOK
  <2>4. Cur = [b \in Clean |-> mem[b]] /\ Cur' = Cur
    BY <2>2, <2>3 DEF Cur
  <2>5. CD!Commit
    BY <2>1, <2>2, <2>3, <2>4 DEF CD!Commit, Cur
  <2>6. QED
    BY <2>5 DEF CD!Next
<1>2. CASE Kept' = Kept /\ Crash
  <2>1. Active' = {} /\ pc'[Boot] = "rhead"
    BY <1>2 DEF Crash, Active
  <2>2. CD!Crash
    BY <1>2, <2>1 DEF CD!Crash, Cur
  <2>3. QED
    BY <2>2 DEF CD!Next
<1>3. CASE Kept' = Kept /\ \E o \in Ops : \E b \in Logged : LogWrite(o, b)
  <2>1. PICK o \in Ops, b \in Logged : LogWrite(o, b)
    BY <1>3
  <2>2. o \in Active /\ Active' = Active /\ pc' = pc /\ pc[Boot] = "off"
    BY <1>0, <2>1, Alone DEF LogWrite, Active
  <2>3. mem'[b] = mem[b] \cup {o} /\ \A c \in Clean : c # b => mem'[c] = mem[c]
    BY <1>0, <2>1 DEF LogWrite, TypeOK, Blocks, Clean
  <2>4. Cur = [c \in Clean |-> mem[c]] /\ Cur' = [c \in Clean |-> mem'[c]]
    BY <2>2 DEF Cur
  <2>5. CASE b \in Clean
    <3>1. Cur' = [Cur EXCEPT ![b] = @ \cup {o}]
      BY <2>3, <2>4
    <3>2. CD!Write(o, b)
      BY <1>3, <2>2, <3>1 DEF CD!Write
    <3>3. QED
      BY <2>5, <3>2 DEF CD!Next
  <2>6. CASE b \notin Clean
    <3>1. Cur' = Cur
      BY <2>3, <2>4, <2>6
    <3>2. QED
      BY <1>3, <2>2, <3>1 DEF CD!vars
  <2>7. QED
    BY <2>5, <2>6
<1>4. CASE Kept' = Kept /\ ~Crash /\ ~ \E o \in Ops : \E b \in Logged : LogWrite(o, b)
  <2>1. Cur' = Cur
    <3>1. CASE pc'[Boot] = "off"
      <4>1. CASE pc[Boot] = "off" /\ \A b \in Clean : mem'[b] = mem[b]
        BY <3>1, <4>1 DEF Cur
      <4>2. CASE pc[Boot] # "off" /\ \A b \in Clean : mem'[b] = Recovered[b]
        BY <3>1, <4>2 DEF Cur, Kept
      <4>3. QED
        BY <1>0, <1>4, <3>1, <4>1, <4>2, MemoryStep
    <3>2. CASE pc'[Boot] # "off"
      <4>1. pc[Boot] # "off"
        BY <1>0, <1>4, <3>2 DEF Next, Call, Begin_op, BeginWait, Begin, LogWrite, End_op, End, EndWake,
           EndLast, Done, DoneWake, WakeAll, Commit, WriteLog, WriteHead, Copy, Install, Erase,
           ReadHead, Bwrite, vars, TypeOK
      <4>2. QED
        BY <1>4, <3>2, <4>1 DEF Cur
    <3>3. QED
      BY <3>1, <3>2
  <2>2. CASE \E o \in Ops : o \notin Active /\ Active' = Active \cup {o}
    <3>1. PICK o \in Ops : Active' = Active \cup {o}
      BY <2>2
    <3>2. CD!Begin(o)
      BY <1>4, <2>1, <3>1 DEF CD!Begin, Cur
    <3>3. QED
      BY <3>2 DEF CD!Next
  <2>3. CASE \E o \in Ops : o \in Active /\ Active' = Active \ {o}
    <3>1. PICK o \in Ops : o \in Active /\ Active' = Active \ {o}
      BY <2>3
    <3>2. CD!End(o)
      BY <1>4, <2>1, <3>1 DEF CD!End, Cur
    <3>3. QED
      BY <3>2 DEF CD!Next
  <2>4. CASE Active' = Active
    BY <1>4, <2>1, <2>4 DEF CD!vars, Cur
  <2>5. QED
    BY <1>0, <1>4, <2>2, <2>3, <2>4, ActiveStep
<1>5. QED
  BY <1>0, <1>1, <1>2, <1>3, <1>4, CommitPoint

\* Log implements AtomicDisk: write_head is the commit, log_write changes what the
\* operations see, install_trans and recovery change nothing that anybody can tell.  For
\* the blocks that nobody writes around the log it does so without any assumption;
THEOREM CleanRefinement == Spec => ImplementsCleanDisk
<1>1. Init => CD!Init
  BY AtomicInit
<1>2. IInv /\ [Next]_vars => [CD!Next]_CD!vars
  BY AtomicStep
<1>3. QED
  BY <1>1, <1>2, Inductive, PTL DEF Spec, ImplementsCleanDisk, CD!Spec

\* for all the blocks of the log when these are they.
THEOREM Refinement ==
  ASSUME Direct \cap Logged = {}
  PROVE  Spec => ImplementsAtomicDisk
<1>0. Clean = Logged
  BY DEF Clean
<1>1. Init => AD!Init
  BY <1>0, AtomicInit DEF CD!Init, AD!Init, Cur, Kept, Recovered
<1>2. Kept = Recovered
  BY <1>0 DEF Kept, Recovered
<1>3. Kept' = Recovered'
  BY <1>0 DEF Kept, Recovered
<1>4. IInv /\ [Next]_vars => [AD!Next]_AD!vars
  <2>1. SUFFICES ASSUME IInv, [Next]_vars PROVE [AD!Next]_AD!vars
    OBVIOUS
  <2>2. [CD!Next]_CD!vars
    BY <2>1, AtomicStep
  <2>3. CASE CD!vars' = CD!vars
    BY <1>0, <1>2, <1>3, <2>3 DEF CD!vars, AD!vars, Cur
  <2>4. CASE CD!Commit \/ CD!Crash
    BY <1>0, <1>2, <1>3, <2>4 DEF CD!Commit, CD!Crash, AD!Commit, AD!Crash, AD!Next, Cur
  <2>5. ASSUME NEW o \in Ops, CD!Begin(o) \/ CD!End(o) PROVE AD!Next
    BY <1>0, <1>2, <1>3, <2>5 DEF CD!Begin, CD!End, AD!Begin, AD!End, AD!Next, Cur
  <2>6. ASSUME NEW o \in Ops, NEW b \in Clean, CD!Write(o, b) PROVE AD!Next
    <3>1. AD!Write(o, b)
      BY <1>0, <1>2, <1>3, <2>6 DEF CD!Write, AD!Write, Cur
    <3>2. QED
      BY <1>0, <2>6, <3>1 DEF AD!Next
  <2>7. QED
    BY <2>2, <2>3, <2>4, <2>5, <2>6 DEF CD!Next
<1>5. QED
  BY <1>1, <1>4, Inductive, PTL DEF Spec, ImplementsAtomicDisk, AD!Spec
=============================================================================
