------------------------------ MODULE PipeProofs ------------------------------
(***************************************************************************)
(* Proofs about module Pipe, for any readers and writers, every size of    *)
(* the ring and every width of its counters: what sleeps has a reason to,  *)
(* nobody is in a pipe that is freed, and the ring is a stream of bytes.   *)
(***************************************************************************)
EXTENDS Pipe, Integers, SequenceTheorems, TLAPS

\* the bytes between the counters
Count == IF nwrite >= nread THEN nwrite - nread ELSE nwrite + UintMod - nread

CountInv == Count <= PIPESIZE

\* p->lock is held from its acquire to sleep or return
HasLock == {"loop", "copy", "sleepy"}
HoldInv == \A p \in Procs : pc[p] \in HasLock <=> lock = p

\* a call carries at least a byte; only a reader copies
CallInv ==
  /\ \A p \in Procs : pc[p] # "idle" => p \in fds /\ n[p] \in Lens
  /\ \A p \in Procs : pc[p] = "copy" => p \in Readers

EndsInv ==
  /\ writeopen <=> fds \cap Writers # {}
  /\ readopen <=> fds \cap Readers # {}
  /\ freed <=> ~readopen /\ ~writeopen

\* Who sleeps waits for what is still to come, and a wakeup is owed to who sleeps
\* on what has already come: by the reader that makes room, by the writer that fills.
WriterInv ==
  \A w \in Writers :
    /\ pc[w] = "sleepy" => Full /\ readopen
    /\ pc[w] = "asleep" => readopen /\ (Full \/ \E r \in Readers : pc[r] = "copy")

ReaderInv ==
  \A r \in Readers :
    /\ pc[r] = "sleepy" => Empty /\ writeopen
    /\ pc[r] = "asleep" =>
         writeopen /\ (Empty \/ \E w \in Writers : killed[w] \/ pc[w] = "loop")
    /\ pc[r] = "copy" /\ i[r] = 0 => ~MustWait

IInv == TypeOK /\ CountInv /\ HoldInv /\ CallInv /\ EndsInv /\ WriterInv /\ ReaderInv

-----------------------------------------------------------------------------
(* Arithmetic of the counters *)

\* nread and nwrite differ by the number of bytes, up to one turn of the counter.
LEMMA Counters ==
  ASSUME TypeOK, CountInv
  PROVE  /\ Count \in 0..PIPESIZE
         /\ Full <=> Count = PIPESIZE
         /\ Empty <=> Count = 0
         /\ nread + Count \in {nwrite, nwrite + UintMod}
BY SizeAssumption DEF TypeOK, CountInv, Count, Full, Empty, Plus

\* A multiple of P within less than P of zero is zero.
LEMMA SmallMultiple ==
  ASSUME NEW P \in Nat \ {0}, NEW k \in Int, -P < P * k, P * k < P
  PROVE  k = 0
<1>1. CASE k >= 1
  <2>1. PICK j \in Nat : k = j + 1
    BY <1>1
  <2>2. P * k = P * j + P /\ P * j >= 0
    BY <2>1
  <2>3. QED
    BY <2>2
<1>2. CASE k <= -1
  <2>1. PICK j \in Nat : k = -(j + 1)
    <3>1. -k - 1 \in Nat /\ k = -((-k - 1) + 1)
      BY <1>2
    <3>2. QED
      BY <3>1
  <2>2. P * k = -(P * j) - P /\ P * j >= 0
    BY <2>1
  <2>3. QED
    BY <2>2
<1>3. QED
  BY <1>1, <1>2

\* Quotient and remainder are unique.
LEMMA ModUnique ==
  ASSUME NEW P \in Nat \ {0}, NEW q \in Int, NEW r \in 0..(P - 1)
  PROVE  (P * q + r) % P = r
<1>. DEFINE a == P * q + r
<1>1. /\ a \in Int /\ a \div P \in Int /\ a % P \in 0..(P - 1)
      /\ a = P * (a \div P) + (a % P)
  OBVIOUS
<1>2. P * (q - (a \div P)) = (a % P) - r
  BY <1>1
<1>3. q - (a \div P) = 0
  <2>. HIDE DEF a
  <2>1. q - (a \div P) \in Int /\ -P < P * (q - (a \div P)) /\ P * (q - (a \div P)) < P
    BY <1>1, <1>2
  <2>2. QED
    BY <2>1, SmallMultiple
<1>4. QED
  BY <1>1, <1>3

\* A turn of the counter is a number of turns of the ring.
LEMMA ModTurn ==
  ASSUME NEW x \in Nat
  PROVE  (x + UintMod) % PIPESIZE = x % PIPESIZE
<1>1. PICK m \in Nat : UintMod = PIPESIZE * m
  BY SizeAssumption
<1>2. PICK q \in Int, r \in 0..(PIPESIZE - 1) : x = PIPESIZE * q + r /\ r = x % PIPESIZE
  BY SizeAssumption
<1>3. x + UintMod = PIPESIZE * (q + m) + r /\ q + m \in Int
  BY <1>1, <1>2, SizeAssumption
<1>4. (PIPESIZE * (q + m) + r) % PIPESIZE = r
  BY <1>3, ModUnique, SizeAssumption
<1>5. QED
  BY <1>2, <1>3, <1>4

\* Positions less than a turn of the ring apart are different places in it.
LEMMA ModApart ==
  ASSUME NEW x \in Nat, NEW y \in Nat, x < y, y < x + PIPESIZE
  PROVE  x % PIPESIZE # y % PIPESIZE
<1>1. SUFFICES ASSUME x % PIPESIZE = y % PIPESIZE PROVE FALSE
  OBVIOUS
<1>. DEFINE k == (y \div PIPESIZE) - (x \div PIPESIZE)
<1>2. k \in Int /\ PIPESIZE * k = y - x
  BY <1>1, SizeAssumption
<1>. HIDE DEF k
<1>3. -PIPESIZE < PIPESIZE * k /\ PIPESIZE * k < PIPESIZE /\ PIPESIZE * k # 0
  BY <1>2, SizeAssumption
<1>4. k = 0
  BY <1>2, <1>3, SmallMultiple, SizeAssumption
<1>5. QED
  BY <1>3, <1>4, SizeAssumption

LEMMA ModRange ==
  ASSUME NEW x \in Nat
  PROVE  x % PIPESIZE \in 0..(PIPESIZE - 1)
BY SizeAssumption

-----------------------------------------------------------------------------
(* The inductive invariant *)

\* An end has two sides, and NoProc is neither.
LEMMA Sides ==
  /\ \A p \in Procs : p # NoProc /\ (p \in Readers <=> p \notin Writers)
  /\ Writers \subseteq Procs /\ Readers \subseteq Procs
BY ProcAssumption DEF Procs

LEMMA InitInv == Init => IInv
<1>1. SUFFICES ASSUME Init PROVE IInv
  OBVIOUS
<1>2. TypeOK
  <2>1. PICK w \in Writers, len \in Lens : len \in Nat \ {0}
    BY ProcAssumption, LensAssumption
  <2>2. <<w, 0>> \in Byte
    BY <2>1 DEF Byte
  <2>3. (CHOOSE b \in Byte : TRUE) \in Byte
    BY <2>2
  <2>4. data \in [0..(PIPESIZE - 1) -> Byte]
    BY <1>1, <2>3 DEF Init
  <2>5. n \in [Procs -> Lens \cup {0}] /\ i \in [Procs -> Nat] /\ \A p \in Procs : i[p] <= n[p]
    BY <1>1 DEF Init
  <2>6. nread \in 0..(UintMod - 1) /\ nwrite \in 0..(UintMod - 1)
    BY <1>1, SizeAssumption DEF Init
  <2>7. QED
    BY <1>1, <2>4, <2>5, <2>6 DEF Init, TypeOK, Pcs
<1>3. CountInv
  BY <1>1, SizeAssumption DEF Init, CountInv, Count
<1>4. HoldInv /\ CallInv /\ WriterInv /\ ReaderInv
  BY <1>1, Sides DEF Init, HoldInv, HasLock, CallInv, WriterInv, ReaderInv
<1>5. EndsInv
  BY <1>1, ProcAssumption DEF Init, EndsInv, Procs
<1>6. QED
  BY <1>2, <1>3, <1>4, <1>5 DEF IInv

\* One byte more of a call that has bytes left.
LEMMA OneMore ==
  ASSUME TypeOK, NEW p \in Procs, i[p] < n[p], i' = [i EXCEPT ![p] = @ + 1], n' = n
  PROVE  i' \in [Procs -> Nat] /\ \A q \in Procs : i'[q] <= n'[q]
<1>1. \A q \in Procs : n[q] \in Nat
  <2>1. \A len : len \in Lens => len \in Nat
    BY LensAssumption
  <2>2. \A q \in Procs : n[q] \in Lens \/ n[q] = 0
    BY DEF TypeOK
  <2>3. QED
    BY <2>1, <2>2
<1>2. QED
  BY <1>1 DEF TypeOK

LEMMA TypeStep ==
  ASSUME IInv, [Next]_vars
  PROVE  TypeOK'
<1>. USE SizeAssumption, LensAssumption, Sides DEF IInv, TypeOK, Pcs, Woken
<1>1. ASSUME NEW p \in Procs, NEW len \in Lens, Call(p, len) PROVE TypeOK'
  BY <1>1 DEF Call, pipe, ends
<1>2. ASSUME NEW p \in Procs, Acquire(p) \/ Sleep(p) PROVE TypeOK'
  BY <1>2 DEF Acquire, Sleep, pipe, ends
<1>3. ASSUME NEW p \in Procs, Close(p) PROVE TypeOK'
  BY <1>3 DEF Close, CloseFd, CloseWriter, CloseReader, Unused, pipe
<1>4. ASSUME NEW w \in Writers, WriteByte(w) PROVE TypeOK'
  <2>1. <<w, i[w]>> \in Byte
    <3>1. w \in Procs /\ n[w] \in Lens
      BY <1>4 DEF WriteByte, CallInv
    <3>2. n[w] \in Nat /\ i[w] \in Nat /\ i[w] < n[w]
      BY <1>4, <3>1 DEF WriteByte
    <3>3. i[w] \in 0..(n[w] - 1)
      BY <3>2
    <3>4. i[w] \in UNION {0..(len - 1) : len \in Lens}
      BY <3>1, <3>3
    <3>5. QED
      BY <3>4 DEF Byte
  <2>2. nwrite % PIPESIZE \in 0..(PIPESIZE - 1)
    <3>1. nwrite \in Nat
      OBVIOUS
    <3>2. QED
      BY <3>1, ModRange
  <2>3. nwrite' \in 0..(UintMod - 1)
    BY <1>4 DEF WriteByte, Plus
  <2>4. data' \in [0..(PIPESIZE - 1) -> Byte]
    BY <1>4, <2>1, <2>2 DEF WriteByte
  <2>5. i' \in [Procs -> Nat] /\ \A q \in Procs : i'[q] <= n'[q]
    BY <1>4, OneMore DEF WriteByte
  <2>6. QED
    BY <1>4, <2>3, <2>4, <2>5 DEF WriteByte, ends
<1>5. ASSUME NEW p \in Procs, NEW S \in SUBSET Procs, Return(p, S) PROVE TypeOK'
  BY <1>5 DEF Return, pipe, ends
<1>6. ASSUME NEW w \in Writers, WriteBlock(w) PROVE TypeOK'
  BY <1>6 DEF WriteBlock, pipe, ends
<1>7. ASSUME NEW r \in Readers, ReadBlock(r) \/ ReadStart(r) PROVE TypeOK'
  BY <1>7 DEF ReadBlock, ReadStart, pipe, ends
<1>8. ASSUME NEW r \in Readers, ReadByte(r) PROVE TypeOK'
  <2>1. nread' \in 0..(UintMod - 1)
    BY <1>8 DEF ReadByte, Plus
  <2>2. i' \in [Procs -> Nat] /\ \A q \in Procs : i'[q] <= n'[q]
    BY <1>8, OneMore DEF ReadByte
  <2>3. QED
    BY <1>8, <2>1, <2>2 DEF ReadByte, ends
<1>9. ASSUME NEW p \in Procs, Kill(p) PROVE TypeOK'
  BY <1>9 DEF Kill, pipe, ends
<1>10. CASE UNCHANGED vars
  BY <1>10 DEF vars, pipe, ends
<1>11. QED
  <2>1. Killable \subseteq Procs
    BY ProcAssumption DEF Procs
  <2>. HIDE DEF TypeOK
  <2>2. QED
    BY <1>1, <1>2, <1>3, <1>4, <1>5, <1>6, <1>7, <1>8, <1>9, <1>10, <2>1
       DEF Next, Step, Pipewrite, Piperead, WriteFail, WriteDone, ReadKilled, ReadDone,
           WokenByRead

\* The counters move by one byte that there is, into room that there is.
LEMMA CountStep ==
  ASSUME IInv, [Next]_vars
  PROVE  CountInv'
<1>. USE SizeAssumption DEF IInv, TypeOK, CountInv, Count
<1>1. ASSUME NEW w \in Writers, WriteByte(w) PROVE CountInv'
  BY <1>1 DEF WriteByte, Full, Plus
<1>2. ASSUME NEW r \in Readers, ReadByte(r) PROVE CountInv'
  BY <1>2 DEF ReadByte, Empty, Plus
<1>3. CASE UNCHANGED <<nread, nwrite>>
  BY <1>3
<1>4. ASSUME NEW p \in Procs, NEW len \in Lens, Call(p, len) PROVE UNCHANGED <<nread, nwrite>>
  BY <1>4 DEF Call, pipe
<1>5. ASSUME NEW p \in Procs, Acquire(p) \/ Sleep(p) \/ Close(p) \/ Kill(p)
      PROVE  UNCHANGED <<nread, nwrite>>
  BY <1>5 DEF Acquire, Sleep, Close, CloseFd, CloseWriter, CloseReader, Kill, pipe
<1>6. ASSUME NEW w \in Writers, WriteFail(w) \/ WriteBlock(w) \/ WriteDone(w)
      PROVE  UNCHANGED <<nread, nwrite>>
  BY <1>6 DEF WriteFail, WriteBlock, WriteDone, Return, pipe
<1>7. ASSUME NEW r \in Readers, ReadBlock(r) \/ ReadKilled(r) \/ ReadStart(r) \/ ReadDone(r)
      PROVE  UNCHANGED <<nread, nwrite>>
  BY <1>7 DEF ReadBlock, ReadKilled, ReadStart, ReadDone, Return, pipe
<1>8. QED
  <2>1. Killable \subseteq Procs
    BY ProcAssumption DEF Procs
  <2>. HIDE DEF TypeOK, CountInv, Count
  <2>2. QED
    BY <1>1, <1>2, <1>3, <1>4, <1>5, <1>6, <1>7, <2>1
       DEF Next, Step, Pipewrite, Piperead, vars, pipe

\* Who holds p->lock is where it says, and only a call that holds it moves the bytes.
LEMMA HoldStep ==
  ASSUME IInv, [Next]_vars
  PROVE  HoldInv' /\ CallInv'
<1>. USE Sides DEF IInv, TypeOK, HoldInv, CallInv, HasLock, Woken
<1>1. ASSUME NEW p \in Procs, NEW len \in Lens, Call(p, len) PROVE HoldInv' /\ CallInv'
  BY <1>1 DEF Call, ends
<1>2. ASSUME NEW p \in Procs, Acquire(p) \/ Sleep(p) PROVE HoldInv' /\ CallInv'
  BY <1>2 DEF Acquire, Sleep, ends
<1>3. ASSUME NEW p \in Procs, Close(p) PROVE HoldInv' /\ CallInv'
  BY <1>3 DEF Close, CloseFd, CloseWriter, CloseReader
<1>4. ASSUME NEW p \in Procs, NEW S \in SUBSET Procs, Return(p, S), lock = p
      PROVE  HoldInv' /\ CallInv'
  BY <1>4 DEF Return, ends
<1>5. ASSUME NEW w \in Writers, WriteByte(w) \/ WriteBlock(w) PROVE HoldInv' /\ CallInv'
  BY <1>5 DEF WriteByte, WriteBlock, ends
<1>6. ASSUME NEW r \in Readers, ReadBlock(r) \/ ReadStart(r) \/ ReadByte(r)
      PROVE  HoldInv' /\ CallInv'
  BY <1>6 DEF ReadBlock, ReadStart, ReadByte, ends
<1>7. ASSUME NEW p \in Procs, Kill(p) PROVE HoldInv' /\ CallInv'
  BY <1>7 DEF Kill, ends
<1>8. CASE UNCHANGED vars
  BY <1>8 DEF vars, ends
<1>9. QED
  <2>1. Killable \subseteq Procs
    BY ProcAssumption DEF Procs
  <2>2. \A p \in Procs : pc[p] \in {"loop", "copy"} => lock = p
    OBVIOUS
  <2>. HIDE DEF HoldInv, CallInv
  <2>3. QED
    BY <1>1, <1>2, <1>3, <1>4, <1>5, <1>6, <1>7, <1>8, <2>1, <2>2
       DEF Next, Step, Pipewrite, Piperead, WriteFail, WriteDone, ReadKilled, ReadDone,
           WokenByRead


\* The ends are open while somebody holds a descriptor of them.
LEMMA EndsStep ==
  ASSUME IInv, [Next]_vars
  PROVE  EndsInv'
<1>. USE Sides DEF IInv, EndsInv
<1>1. ASSUME NEW p \in Procs, CloseFd(p) PROVE EndsInv'
  BY <1>1 DEF CloseFd, LastOf, TypeOK
<1>2. ASSUME NEW w \in Writers, CloseWriter(w) PROVE EndsInv'
  BY <1>2 DEF CloseWriter, LastOf, Unused, TypeOK
<1>3. ASSUME NEW r \in Readers, CloseReader(r) PROVE EndsInv'
  BY <1>3 DEF CloseReader, LastOf, Unused, TypeOK
<1>4. ASSUME NEW p \in Procs, Step(p), ~Close(p) PROVE UNCHANGED ends
  BY <1>4 DEF Step, Call, Acquire, Sleep, Pipewrite, WriteByte, WriteFail, WriteBlock, WriteDone,
     Piperead, ReadBlock, ReadKilled, ReadStart, ReadByte, ReadDone, Return
<1>5. ASSUME NEW p \in Procs, Kill(p) PROVE UNCHANGED ends
  BY <1>5 DEF Kill
<1>6. ASSUME UNCHANGED ends PROVE EndsInv'
  BY <1>6 DEF ends
<1>7. QED
  <2>1. Killable \subseteq Procs
    BY ProcAssumption DEF Procs
  <2>. HIDE DEF EndsInv
  <2>2. QED
    BY <1>1, <1>2, <1>3, <1>4, <1>5, <1>6, <2>1 DEF Next, Close, vars

\* Nobody else is inside while a process holds p->lock, and nobody is when it is free.
LEMMA Inside ==
  ASSUME IInv, NEW p \in Procs
  PROVE  /\ lock = p => \A q \in Procs : q # p => pc[q] \notin HasLock
         /\ lock = NoProc => pc[p] \notin HasLock
         /\ pc[p] \in HasLock => lock = p
BY Sides DEF IInv, HoldInv

\* A sleeping writer is owed a wakeup by the reader that makes room.
LEMMA WriterStep ==
  ASSUME IInv, [Next]_vars
  PROVE  WriterInv'
<1>. USE Sides, Inside DEF IInv, TypeOK, WriterInv, Woken, HasLock
<1>1. ASSUME NEW p \in Procs, NEW len \in Lens, Call(p, len) PROVE WriterInv'
  BY <1>1 DEF Call, pipe, ends, Full, Plus
<1>2. ASSUME NEW p \in Procs, Acquire(p) \/ Sleep(p) PROVE WriterInv'
  BY <1>2 DEF Acquire, Sleep, pipe, ends, Full, Plus
<1>3. ASSUME NEW p \in Procs, CloseFd(p) PROVE WriterInv'
  BY <1>3 DEF CloseFd, pipe, Full, Plus
<1>4. ASSUME NEW w \in Writers, CloseWriter(w) PROVE WriterInv'
  BY <1>4 DEF CloseWriter, pipe, Full, Plus
<1>5. ASSUME NEW r \in Readers, CloseReader(r) PROVE WriterInv'
  BY <1>5 DEF CloseReader, pipe
<1>6. ASSUME NEW w \in Writers, WriteByte(w) PROVE WriterInv'
  BY <1>6 DEF WriteByte, ends
<1>7. ASSUME NEW w \in Writers, WriteFail(w) \/ WriteDone(w) PROVE WriterInv'
  BY <1>7 DEF WriteFail, WriteDone, Return, pipe, ends, Full, Plus
<1>8. ASSUME NEW w \in Writers, WriteBlock(w) PROVE WriterInv'
  BY <1>8 DEF WriteBlock, WokenByFull, pipe, ends, Full, Plus
<1>9. ASSUME NEW r \in Readers, ReadBlock(r) \/ ReadKilled(r) \/ ReadStart(r)
      PROVE  WriterInv'
  BY <1>9 DEF ReadBlock, ReadKilled, ReadStart, Return, pipe, ends, Full, Plus
<1>10. ASSUME NEW r \in Readers, ReadByte(r) PROVE WriterInv'
  BY <1>10 DEF ReadByte, ends
<1>11. ASSUME NEW r \in Readers, ReadDone(r) PROVE WriterInv'
  BY <1>11 DEF ReadDone, WokenByRead, Return, pipe, ends, Full, Plus
<1>12. ASSUME NEW p \in Procs, Kill(p) PROVE WriterInv'
  BY <1>12 DEF Kill, pipe, ends, Full, Plus
<1>13. CASE UNCHANGED vars
  BY <1>13 DEF vars, pipe, ends, Full, Plus
<1>14. QED
  <2>1. Killable \subseteq Procs
    BY ProcAssumption DEF Procs
  <2>. HIDE DEF WriterInv
  <2>2. QED
    BY <1>1, <1>2, <1>3, <1>4, <1>5, <1>6, <1>7, <1>8, <1>9, <1>10, <1>11, <1>12, <1>13, <2>1
       DEF Next, Step, Close, Pipewrite, Piperead

\* A sleeping reader is owed a wakeup by the writer that is filling the pipe.
LEMMA ReaderStep ==
  ASSUME IInv, [Next]_vars
  PROVE  ReaderInv'
<1>. USE Sides, Inside DEF IInv, TypeOK, ReaderInv, Woken, HasLock, MustWait
<1>1. ASSUME NEW p \in Procs, NEW len \in Lens, Call(p, len) PROVE ReaderInv'
  BY <1>1 DEF Call, pipe, ends, Empty
<1>2. ASSUME NEW p \in Procs, Acquire(p) \/ Sleep(p) PROVE ReaderInv'
  BY <1>2 DEF Acquire, Sleep, pipe, ends, Empty
<1>3. ASSUME NEW p \in Procs, CloseFd(p) PROVE ReaderInv'
  BY <1>3 DEF CloseFd, pipe, Empty
<1>4. ASSUME NEW w \in Writers, CloseWriter(w) PROVE ReaderInv'
  BY <1>4 DEF CloseWriter, pipe, Empty
<1>5. ASSUME NEW r \in Readers, CloseReader(r) PROVE ReaderInv'
  BY <1>5 DEF CloseReader, pipe, Empty
<1>6. ASSUME NEW w \in Writers, WriteByte(w) PROVE ReaderInv'
  BY <1>6 DEF WriteByte, ends
<1>7. ASSUME NEW w \in Writers, WriteFail(w) PROVE ReaderInv'
  <2>1. ~readopen => \A r \in Readers : pc[r] = "idle"
    BY DEF EndsInv, CallInv
  <2>2. QED
    BY <1>7, <2>1 DEF WriteFail, Return, pipe, ends, Empty
<1>8. ASSUME NEW w \in Writers, WriteBlock(w) PROVE ReaderInv'
  BY <1>8 DEF WriteBlock, WokenByFull, pipe, ends, Empty
<1>9. ASSUME NEW w \in Writers, WriteDone(w) PROVE ReaderInv'
  BY <1>9 DEF WriteDone, Return, pipe, ends, Empty
<1>10. ASSUME NEW r \in Readers, ReadBlock(r) \/ ReadKilled(r) \/ ReadStart(r)
       PROVE  ReaderInv'
  BY <1>10 DEF ReadBlock, ReadKilled, ReadStart, Return, pipe, ends, Empty
<1>11. ASSUME NEW r \in Readers, ReadByte(r) PROVE ReaderInv'
  BY <1>11 DEF ReadByte, ends
<1>12. ASSUME NEW r \in Readers, ReadDone(r) PROVE ReaderInv'
  BY <1>12 DEF ReadDone, WokenByRead, Return, pipe, ends, Empty
<1>13. ASSUME NEW p \in Procs, Kill(p) PROVE ReaderInv'
  BY <1>13 DEF Kill, pipe, ends, Empty
<1>14. CASE UNCHANGED vars
  BY <1>14 DEF vars, pipe, ends, Empty
<1>15. QED
  <2>1. Killable \subseteq Procs
    BY ProcAssumption DEF Procs
  <2>. HIDE DEF ReaderInv
  <2>2. QED
    BY <1>1, <1>2, <1>3, <1>4, <1>5, <1>6, <1>7, <1>8, <1>9, <1>10, <1>11, <1>12, <1>13,
       <1>14, <2>1
       DEF Next, Step, Close, Pipewrite, Piperead

-----------------------------------------------------------------------------
(* Theorems *)

\* The inductive invariant holds in every reachable state.
THEOREM Inductive == Spec => []IInv
<1>1. IInv /\ [Next]_vars => IInv'
  BY TypeStep, CountStep, HoldStep, EndsStep, WriterStep, ReaderStep DEF IInv
<1>2. QED
  BY InitInv, <1>1, PTL DEF Spec

\* pipewrite, piperead, pipeclose, sleep and kill: a writer sleeps only on a full pipe,
\* a reader on an empty one unless a writer was killed, and nobody is in a freed pipe.
THEOREM Safety == Spec => []PipeConsistent
<1>1. ASSUME IInv PROVE PipeConsistent
  <2>1. NoLostWakeupWriter
    BY <1>1, Sides DEF IInv, WriterInv, HoldInv, HasLock, NoLostWakeupWriter
  <2>2. NoLostWakeupReader
    BY <1>1, Sides DEF IInv, ReaderInv, HoldInv, HasLock, NoLostWakeupReader
  <2>3. NoUseAfterFree
    <3>1. SUFFICES ASSUME freed PROVE lock = NoProc /\ fds = {} /\ \A p \in Procs : pc[p] = "idle"
      BY DEF NoUseAfterFree
    <3>2. fds = {}
      BY <1>1, <3>1 DEF IInv, TypeOK, EndsInv, Procs
    <3>3. \A p \in Procs : pc[p] = "idle"
      BY <1>1, <3>2 DEF IInv, CallInv
    <3>4. QED
      BY <1>1, <3>2, <3>3 DEF IInv, TypeOK, HoldInv, HasLock
  <2>4. QED
    BY <1>1, <2>1, <2>2, <2>3 DEF IInv, PipeConsistent
<1>2. QED
  BY <1>1, Inductive, PTL

\* piperead returns 0 only behind the last byte that will ever come.
THEOREM EndOfFile == Spec => EofIsFinal
<1>1. ASSUME IInv, Next, NEW r \in Readers, pc[r] = "copy", pc'[r] = "idle", i[r] = 0
      PROVE  Empty /\ ~writeopen
  <2>. USE Sides DEF IInv, TypeOK, Woken
  <2>1. CASE ReadDone(r)
    <3>1. n[r] # 0
      BY <1>1, LensAssumption DEF CallInv
    <3>2. QED
      BY <1>1, <2>1, <3>1 DEF ReadDone, ReaderInv, MustWait
  <2>2. ASSUME NEW p \in Procs, Step(p), p # r PROVE pc'[r] # "idle"
    BY <1>1, <2>2 DEF Step, Call, Acquire, Sleep, Close, CloseFd, CloseWriter, CloseReader,
       Pipewrite, WriteByte, WriteFail, WriteBlock, WriteDone,
       Piperead, ReadBlock, ReadKilled, ReadStart, ReadByte, ReadDone, Return
  <2>3. ASSUME Step(r), ~ReadDone(r) PROVE pc'[r] # "idle"
    BY <1>1, <2>3 DEF Step, Call, Acquire, Sleep, Close, CloseFd, CloseWriter, CloseReader,
       Piperead, ReadBlock, ReadKilled, ReadStart, ReadByte
  <2>4. ASSUME NEW p \in Killable, Kill(p) PROVE pc'[r] # "idle"
    BY <1>1, <2>4 DEF Kill
  <2>5. QED
    BY <1>1, <2>1, <2>2, <2>3, <2>4 DEF Next, vars
<1>2. IInv /\ [Next]_vars =>
        [\A r \in Readers : pc[r] = "copy" /\ pc'[r] = "idle" /\ i[r] = 0 => Empty /\ ~writeopen]_vars
  BY <1>1
<1>3. QED
  BY <1>2, Inductive, PTL DEF EofIsFinal, Spec

-----------------------------------------------------------------------------
(* The refinement of ByteStream *)

\* The k-th byte of the stream lies k - 1 places behind the next one to be read.
Place(k) == (nread + k - 1) % PIPESIZE

ContentsOK ==
  /\ Contents \in Seq(Byte) /\ Len(Contents) = Count
  /\ \A k \in 1..Count : Contents[k] = data[Place(k)]

LEMMA ContentsIsSeq == IInv => ContentsOK
<1>. SUFFICES ASSUME IInv PROVE ContentsOK
  OBVIOUS
<1>1. Count \in Nat
  BY Counters DEF IInv
<1>2. Contents = [k \in 1..Count |-> data[Place(k)]]
  BY DEF Contents, Count, Place
<1>3. \A k \in 1..Count : data[Place(k)] \in Byte
  <2>1. SUFFICES ASSUME NEW k \in 1..Count PROVE data[Place(k)] \in Byte
    OBVIOUS
  <2>2. nread + k - 1 \in Nat
    BY <1>1 DEF IInv, TypeOK
  <2>3. QED
    BY <2>2, ModRange DEF IInv, TypeOK, Place
<1>4. Contents \in [1..Count -> Byte]
  BY <1>2, <1>3
<1>5. Contents \in Seq(Byte)
  BY <1>1, <1>4, SeqDef
<1>6. DOMAIN Contents = 1..Count /\ DOMAIN Contents = 1..Len(Contents) /\ Len(Contents) \in Nat
  BY <1>4, <1>5, LenProperties
<1>7. Len(Contents) = Count
  BY <1>1, <1>6
<1>8. QED
  BY <1>2, <1>5, <1>7 DEF ContentsOK

\* A byte is stored in the first place behind the stream, which no byte of it uses.
LEMMA PutByte ==
  ASSUME IInv, NEW w \in Writers, WriteByte(w), IInv'
  PROVE  /\ Len(Contents) < PIPESIZE
         /\ <<w, i[w]>> \in Byte
         /\ Contents' = Append(Contents, <<w, i[w]>>)
<1>. DEFINE b == <<w, i[w]>>
<1>1. Count < PIPESIZE /\ Count \in Nat /\ Count' = Count + 1 /\ nread' = nread /\ nread \in Nat
  BY SizeAssumption, Sides DEF IInv, TypeOK, CountInv, Count, WriteByte, Full, Plus
<1>2. nwrite % PIPESIZE = Place(Count + 1)
  <2>1. nread + (Count + 1) - 1 \in {nwrite, nwrite + UintMod} /\ nwrite \in Nat
    <3>1. nread + Count \in {nwrite, nwrite + UintMod} /\ nwrite \in Nat
      BY Counters DEF IInv, TypeOK
    <3>2. nread + (Count + 1) - 1 = nread + Count
      BY <1>1
    <3>3. QED
      BY <3>1, <3>2
  <2>2. QED
    BY <2>1, ModTurn DEF Place
<1>3. b \in Byte /\ data'[nwrite % PIPESIZE] = b
  <2>1. nwrite % PIPESIZE \in 0..(PIPESIZE - 1)
    BY ModRange DEF IInv, TypeOK
  <2>2. data'[nwrite % PIPESIZE] = b /\ data' \in [0..(PIPESIZE - 1) -> Byte]
    BY <2>1 DEF WriteByte, IInv, TypeOK
  <2>3. QED
    BY <2>1, <2>2
<1>4. \A k \in 1..Count : data'[Place(k)] = data[Place(k)]
  <2>1. SUFFICES ASSUME NEW k \in 1..Count PROVE data'[Place(k)] = data[Place(k)]
    OBVIOUS
  <2>2. /\ nread + k - 1 \in Nat /\ nread + (Count + 1) - 1 \in Nat
        /\ nread + k - 1 < nread + (Count + 1) - 1
        /\ nread + (Count + 1) - 1 < (nread + k - 1) + PIPESIZE
    BY <1>1, SizeAssumption
  <2>3. Place(k) # nwrite % PIPESIZE /\ Place(k) \in 0..(PIPESIZE - 1)
    BY <1>2, <2>2, ModApart, ModRange DEF Place
  <2>4. QED
    BY <2>3 DEF WriteByte, IInv, TypeOK
<1>5. /\ Contents' \in Seq(Byte) /\ Len(Contents') = Count + 1
      /\ \A k \in 1..Count + 1 : Contents'[k] = data'[Place(k)]
  <2>1. /\ Contents' \in Seq(Byte) /\ Len(Contents)' = Count'
        /\ \A k \in 1..Count' : Contents'[k] = data'[Place(k)']
    <3>1. (IInv => ContentsOK)'
      BY ContentsIsSeq, PTL
    <3>2. QED
      BY <3>1 DEF ContentsOK
  <2>2. \A k : Place(k)' = Place(k)
    BY <1>1 DEF Place
  <2>3. QED
    BY <1>1, <2>1, <2>2
<1>6. \A k \in 1..Count + 1 : Contents'[k] = Append(Contents, b)[k]
  <2>1. /\ \A k \in 1..Count : Append(Contents, b)[k] = data[Place(k)]
        /\ Append(Contents, b)[Count + 1] = b
    BY <1>1, <1>3, ContentsIsSeq, AppendProperties DEF ContentsOK
  <2>2. \A k \in 1..Count : Contents'[k] = Append(Contents, b)[k]
    <3>1. SUFFICES ASSUME NEW k \in 1..Count PROVE Contents'[k] = Append(Contents, b)[k]
      OBVIOUS
    <3>2. k \in 1..(Count + 1)
      BY <1>1
    <3>3. Contents'[k] = data'[Place(k)]
      BY <1>5, <3>2
    <3>4. data'[Place(k)] = data[Place(k)]
      BY <1>4
    <3>5. QED
      BY <2>1, <3>3, <3>4
  <2>3. Contents'[Count + 1] = b
    BY <1>1, <1>2, <1>3, <1>5
  <2>4. \A k \in 1..Count + 1 : k \in 1..Count \/ k = Count + 1
    BY <1>1
  <2>5. QED
    BY <2>1, <2>2, <2>3, <2>4
<1>7. Contents' = Append(Contents, b)
  BY <1>1, <1>3, <1>5, <1>6, ContentsIsSeq, AppendProperties, SeqEqual DEF ContentsOK
<1>8. QED
  BY <1>1, <1>3, <1>7, ContentsIsSeq DEF ContentsOK

\* Reading takes the first byte off.
LEMMA GetByte ==
  ASSUME IInv, NEW r \in Readers, ReadByte(r), IInv'
  PROVE  Contents # <<>> /\ Contents' = Tail(Contents)
<1>1. Count > 0 /\ Count \in Nat /\ Count' = Count - 1 /\ data' = data
  BY SizeAssumption, Sides DEF IInv, TypeOK, CountInv, Count, ReadByte, Empty, Plus
<1>2. \A k \in 1..Count - 1 : Place(k)' = Place(k + 1)
  <2>1. SUFFICES ASSUME NEW k \in 1..Count - 1 PROVE Place(k)' = Place(k + 1)
    OBVIOUS
  <2>2. /\ nread' + k - 1 \in Nat
        /\ nread + (k + 1) - 1 \in {nread' + k - 1, (nread' + k - 1) + UintMod}
    BY <1>1, SizeAssumption DEF IInv, TypeOK, ReadByte, Plus
  <2>3. QED
    BY <2>2, ModTurn DEF Place
<1>3. Contents # <<>> /\ Contents \in Seq(Byte) /\ Len(Contents) = Count
  BY <1>1, ContentsIsSeq, EmptySeq DEF ContentsOK
<1>4. /\ Tail(Contents) \in Seq(Byte) /\ Len(Tail(Contents)) = Count - 1
      /\ \A k \in 1..Count - 1 : Tail(Contents)[k] = Contents[k + 1]
  BY <1>3, HeadTailProperties
<1>5. /\ Contents' \in Seq(Byte) /\ Len(Contents') = Count - 1
      /\ \A k \in 1..Count - 1 : Contents'[k] = data[Place(k)']
  <2>1. /\ Contents' \in Seq(Byte) /\ Len(Contents)' = Count'
        /\ \A k \in 1..Count' : Contents'[k] = data'[Place(k)']
    <3>1. (IInv => ContentsOK)'
      BY ContentsIsSeq, PTL
    <3>2. QED
      BY <3>1 DEF ContentsOK
  <2>2. QED
    BY <1>1, <2>1
<1>6. \A k \in 1..Count - 1 : Contents'[k] = Tail(Contents)[k]
  BY <1>1, <1>2, <1>4, <1>5, ContentsIsSeq DEF ContentsOK
<1>7. QED
  BY <1>1, <1>3, <1>4, <1>5, <1>6, SeqEqual

\* pipewrite and piperead implement the stream of bytes: also when the counters wrap,
\* bytes leave in the order in which they came and none is lost.
THEOREM Refinement == Spec => ImplementsStream
<1>1. Init => Stream!Init
  <2>1. SUFFICES ASSUME Init PROVE Contents = <<>> /\ writeopen = TRUE /\ readopen = TRUE
    BY DEF Stream!Init
  <2>2. IInv /\ Count = 0
    BY <2>1, InitInv, SizeAssumption DEF Init, Count
  <2>3. QED
    BY <2>1, <2>2, ContentsIsSeq, EmptySeq DEF Init, ContentsOK
<1>2. IInv /\ IInv' /\ [Next]_vars => [Stream!Next]_<<Contents, writeopen, readopen>>
  <2>1. SUFFICES ASSUME IInv, IInv', [Next]_vars
                 PROVE  Stream!Next \/ UNCHANGED <<Contents, writeopen, readopen>>
    OBVIOUS
  <2>. USE <2>1
  <2>2. ASSUME NEW w \in Writers, WriteByte(w) PROVE Stream!Put
    <3>1. writeopen /\ UNCHANGED <<writeopen, readopen>>
      BY <2>2, Sides DEF WriteByte, IInv, TypeOK, CallInv, EndsInv, ends
    <3>2. QED
      BY <2>2, <3>1, PutByte DEF Stream!Put
  <2>3. ASSUME NEW r \in Readers, ReadByte(r) PROVE Stream!Get
    <3>1. readopen /\ UNCHANGED <<writeopen, readopen>>
      BY <2>3, Sides DEF ReadByte, IInv, TypeOK, CallInv, EndsInv, ends
    <3>2. QED
      BY <2>3, <3>1, GetByte DEF Stream!Get
  <2>4. ASSUME UNCHANGED pipe PROVE Contents' = Contents
    BY <2>4 DEF pipe, Contents
  <2>5. ASSUME NEW w \in Writers, CloseWriter(w) PROVE Stream!CloseWriter
    <3>1. writeopen
      BY <2>5, Sides DEF CloseWriter, LastOf, IInv, EndsInv
    <3>2. QED
      BY <2>4, <2>5, <3>1 DEF CloseWriter, Stream!CloseWriter
  <2>6. ASSUME NEW r \in Readers, CloseReader(r) PROVE Stream!CloseReader
    <3>1. readopen
      BY <2>6, Sides DEF CloseReader, LastOf, IInv, EndsInv
    <3>2. QED
      BY <2>4, <2>6, <3>1 DEF CloseReader, Stream!CloseReader
  <2>7. ASSUME NEW p \in Procs, \/ \E len \in Lens : Call(p, len)
                               \/ Acquire(p) \/ Sleep(p) \/ CloseFd(p) \/ Kill(p)
        PROVE  UNCHANGED <<Contents, writeopen, readopen>>
    BY <2>4, <2>7 DEF Call, Acquire, Sleep, CloseFd, Kill, ends
  <2>8. ASSUME NEW w \in Writers, WriteFail(w) \/ WriteBlock(w) \/ WriteDone(w)
        PROVE  UNCHANGED <<Contents, writeopen, readopen>>
    BY <2>4, <2>8 DEF WriteFail, WriteBlock, WriteDone, Return, ends
  <2>9. ASSUME NEW r \in Readers, ReadBlock(r) \/ ReadKilled(r) \/ ReadStart(r) \/ ReadDone(r)
        PROVE  UNCHANGED <<Contents, writeopen, readopen>>
    BY <2>4, <2>9 DEF ReadBlock, ReadKilled, ReadStart, ReadDone, Return, ends
  <2>10. CASE UNCHANGED vars
    BY <2>4, <2>10 DEF vars, ends
  <2>11. QED
    <3>1. Killable \subseteq Procs
      BY ProcAssumption DEF Procs
    <3>2. QED
      BY <2>2, <2>3, <2>5, <2>6, <2>7, <2>8, <2>9, <2>10, <3>1
         DEF Next, Step, Close, Pipewrite, Piperead, Stream!Next
<1>3. QED
  BY <1>1, <1>2, Inductive, PTL DEF Spec, ImplementsStream, Stream!Spec

\* What readers get: the bytes in order, all of them, and then the end of file.
THEOREM Reading == Spec => ReadsInOrder
BY Refinement, EndOfFile, PTL DEF ReadsInOrder
=============================================================================
