------------------------------ MODULE DiskProofs ------------------------------
(***************************************************************************)
(* Proofs about module Disk, for any processes, blocks, contents and       *)
(* number of buffers, and for both drivers: buffers are neither lost nor   *)
(* doubled, every sleeper of iderw has a request under way, and the cache  *)
(* with the driver behaves like a store of blocks.                         *)
(***************************************************************************)
EXTENDS Disk, Integers, FiniteSetTheorems, WellFoundedInduction, TLAPS

\* What is asked of the constants.
Sizes ==
  /\ NBUF \in Nat /\ IsFiniteSet(Procs) /\ 0 \in Values /\ MaxFail \in Nat
  /\ NoProc \notin Procs /\ NoBlock \notin Blocks /\ NoBuf \notin Bufs
  /\ Jobs \in [Procs -> SUBSET (Ops \X Blocks)]
  /\ MemDisk \in BOOLEAN

Locking  == {"held", "io", "asleep", "done"}     \* where a process has the sleep lock
Users(c) == {p \in Procs : mine[p] = c}
Queued   == Range(idequeue)

Types ==
  /\ blk \in [Bufs -> Blocks \cup {NoBlock}] /\ owner \in [Bufs -> Procs \cup {NoProc}]
  /\ valid \in [Bufs -> BOOLEAN] /\ dirty \in [Bufs -> BOOLEAN]
  /\ refcnt \in [Bufs -> Nat] /\ data \in [Bufs -> Values]
  /\ lru \in [Bufs -> Bufs] /\ \A c \in Bufs : \E i \in Bufs : lru[i] = c
  /\ idequeue \in Seq(Bufs) /\ disk \in [Blocks -> Values]
  /\ bpc \in [Procs -> BPcs] /\ mine \in [Procs -> Bufs \cup {NoBuf}]
  /\ DOMAIN job = Procs /\ DOMAIN got = Procs
  /\ pinned \subseteq Blocks /\ failed \subseteq Blocks /\ nfail \in 0..MaxFail

\* Who uses a buffer, who has locked it, and which block it is for.
UseInv ==
  /\ \A p \in Procs : mine[p] # NoBuf <=> bpc[p] \notin {"idle", "nobuf"}
  /\ \A p \in Procs : mine[p] # NoBuf => job[p] \in Ops \X Blocks /\ blk[mine[p]] = job[p][2]
  /\ \A p \in Procs : bpc[p] \in Locking => owner[mine[p]] = p
  /\ \A c \in Bufs : owner[c] # NoProc => mine[owner[c]] = c /\ bpc[owner[c]] \in Locking
  /\ \A c \in Bufs : refcnt[c] = Cardinality(Users(c))
  /\ \A c, d \in Bufs : blk[c] = blk[d] /\ blk[c] # NoBlock => c = d

\* Who waits for the driver, and what the device is doing.
QueueInv ==
  /\ \A i \in DOMAIN idequeue : LET c == idequeue[i] IN
       owner[c] \in Procs /\ bpc[owner[c]] \in {"io", "asleep"} /\ ~Synced(c)
  /\ \A i, j \in DOMAIN idequeue : idequeue[i] = idequeue[j] => i = j
  /\ \A p \in Procs : bpc[p] = "asleep" => mine[p] \in Queued
  /\ \A p \in Procs : bpc[p] = "io" => mine[p] \in Queued \/ Synced(mine[p])
  /\ MemDisk => idequeue = <<>>

DevInv ==
  /\ dev = [state |-> dev.state, buf |-> dev.buf, block |-> dev.block, write |-> dev.write, data |-> dev.data]
  /\ dev.state \in {"off", "busy", "done", "error"}
  /\ dev.state = "off" <=> idequeue = <<>>
  /\ idequeue # <<>> => /\ dev.buf = Head(idequeue) /\ dev.block = blk[dev.buf]
                        /\ dev.write = dirty[dev.buf]
                        /\ dev.write => dev.data = data[dev.buf] /\ dev.state # "error"
  /\ dev.state = "done" => disk[dev.block] = dev.data

\* A changed buffer is on its way to the disk or pinned by the log, and any other holds what
\* is on the disk.
DataInv ==
  /\ \A c \in Bufs : dirty[c] => c \in Queued \/ (valid[c] /\ blk[c] \in pinned)
  /\ \A c \in Bufs : valid[c] \/ dirty[c] => blk[c] # NoBlock
  /\ \A c \in Bufs : valid[c] /\ ~dirty[c] /\ blk[c] \notin failed => data[c] = disk[blk[c]]

IInv == Types /\ UseInv /\ QueueInv /\ DevInv /\ DataInv

-----------------------------------------------------------------------------
(* What the invariant says of a process, of the queue and of a block *)

LEMMA Locked ==
  ASSUME Sizes, Types, UseInv
  PROVE  /\ \A p \in Procs : bpc[p] \notin {"idle", "nobuf"} =>
               /\ mine[p] \in Bufs /\ blk[mine[p]] \in Blocks /\ blk[mine[p]] # NoBlock
               /\ job[p] \in Ops \X Blocks /\ blk[mine[p]] = job[p][2]
         /\ \A p \in Procs : bpc[p] \in Locking => mine[p] \in Bufs /\ owner[mine[p]] = p
         /\ \A p, q \in Procs : bpc[p] \in Locking /\ bpc[q] \in Locking /\ mine[p] = mine[q] => p = q
<1>1. ASSUME NEW p \in Procs, bpc[p] \notin {"idle", "nobuf"}
      PROVE  /\ mine[p] \in Bufs /\ blk[mine[p]] \in Blocks /\ blk[mine[p]] # NoBlock
             /\ job[p] \in Ops \X Blocks /\ blk[mine[p]] = job[p][2]
  BY <1>1 DEF Sizes, Types, UseInv
<1>2. QED
  BY <1>1 DEF Locking, UseInv

LEMMA InQueue ==
  ASSUME Sizes, Types, UseInv, QueueInv
  PROVE  /\ \A c \in Queued : /\ c \in Bufs /\ owner[c] \in Procs /\ mine[owner[c]] = c
                              /\ bpc[owner[c]] \in {"io", "asleep"} /\ ~Synced(c) /\ blk[c] \in Blocks
         /\ idequeue # <<>> => Head(idequeue) \in Queued
         /\ \A p \in Procs : mine[p] \in Queued /\ bpc[p] \in Locking => bpc[p] \in {"io", "asleep"}
<1>1. \A c \in Queued : \E i \in DOMAIN idequeue : c = idequeue[i]
  BY DEF Queued, Range
<1>2. \A i \in DOMAIN idequeue : idequeue[i] \in Bufs
  BY DEF Types
<1>3. \A c \in Queued : /\ c \in Bufs /\ owner[c] \in Procs /\ bpc[owner[c]] \in {"io", "asleep"}
                        /\ ~Synced(c)
  BY <1>1, <1>2 DEF QueueInv
<1>4. \A c \in Queued : mine[owner[c]] = c
  BY <1>3 DEF UseInv, Sizes
<1>5. \A c \in Queued : blk[c] \in Blocks
  BY <1>3, <1>4, Locked
<1>6. idequeue # <<>> => Head(idequeue) \in Queued
  BY DEF Types, Queued, Range
<1>7. ASSUME NEW p \in Procs, mine[p] \in Queued, bpc[p] \in Locking
      PROVE  bpc[p] \in {"io", "asleep"}
  BY <1>3, <1>7 DEF UseInv
<1>8. QED
  BY <1>3, <1>4, <1>5, <1>6, <1>7

\* Fetch, Write and Install differ in what they send, iderw is the same.
Transfer(p, write, d, next) ==
  /\ bpc[p] = "held" /\ Iderw(p, write, d, next) /\ next \in {"held", "done"}
  /\ write \in BOOLEAN /\ d \in Values
  /\ ~write => ~valid[mine[p]] /\ d = data[mine[p]]
  /\ pinned' \subseteq pinned /\ pinned \ {blk[mine[p]]} \subseteq pinned'
  /\ failed' \subseteq failed /\ failed \ {blk[mine[p]]} \subseteq failed'
  /\ DOMAIN got' = Procs

LEMMA Transfers ==
  ASSUME Sizes, Types, UseInv, NEW p \in Procs,
         Fetch(p) \/ Install(p) \/ \E v \in Values : Write(p, v)
  PROVE  \E write \in BOOLEAN, d \in Values, next \in {"held", "done"} : Transfer(p, write, d, next)
<1>1. CASE Fetch(p)
  <2>1. data[mine[p]] \in Values
    BY <1>1, Locked DEF Fetch, Locking, Types
  <2>2. Transfer(p, FALSE, data[mine[p]], "held")
    BY <1>1, <2>1 DEF Transfer, Fetch, Fetched, Types
  <2>3. QED
    BY <2>1, <2>2
<1>2. CASE Install(p)
  <2>1. data[mine[p]] \in Values
    BY <1>2, Locked DEF Install, Locking, Types
  <2>2. Transfer(p, TRUE, data[mine[p]], "done")
    BY <1>2, <2>1 DEF Transfer, Install, Types
  <2>3. QED
    BY <2>1, <2>2
<1>3. CASE \E v \in Values : Write(p, v)
  <2>1. PICK v \in Values : Write(p, v)
    BY <1>3
  <2>2. DOMAIN got' = Procs
    BY <2>1 DEF Write, Types
  <2>3. Transfer(p, TRUE, v, "done")
    BY <2>1, <2>2 DEF Transfer, Write
  <2>4. QED
    BY <2>1, <2>3
<1>4. QED
  BY <1>1, <1>2, <1>3

\* What a process does with a buffer that it has locked or waits for, or the end of it,
\* when neither the driver nor the content of a buffer is touched.
Quiet(p) ==
  \/ AcquireBuf(p) \/ KillSleeper(p) \/ IoWait(p) \/ IoDone(p) \/ Look(p) \/ ReleaseBuf(p)
  \/ Brelse(p) \/ \E o \in Ops, b \in Blocks : Hit(p, o, b) \/ NoBuffers(p, o, b)

LEMMA NextCases ==
  ASSUME Sizes, Types, UseInv, [Next]_dvars
  PROVE  \/ \E p \in Procs : Quiet(p)
         \/ \E p \in Procs, o \in Ops, b \in Blocks : Recycle(p, o, b)
         \/ \E p \in Procs, write \in BOOLEAN, d \in Values, next \in {"held", "done"} :
               Transfer(p, write, d, next)
         \/ \E p \in Procs, v \in Values : Change(p, v)
         \/ DeviceDone \/ Ideintr
         \/ UNCHANGED <<cache, ide, bufs, owner, bpc, job, mine, got, faults>>
<1>1. ASSUME NEW p \in Procs, Bget(p)
      PROVE  Quiet(p) \/ \E o \in Ops, b \in Blocks : Recycle(p, o, b)
  <2>1. PICK j \in Jobs[p] : Hit(p, j[1], j[2]) \/ Recycle(p, j[1], j[2]) \/ NoBuffers(p, j[1], j[2])
    BY <1>1 DEF Bget
  <2>2. j[1] \in Ops /\ j[2] \in Blocks
    BY <2>1 DEF Sizes
  <2>3. PICK o \in Ops, b \in Blocks : Hit(p, o, b) \/ Recycle(p, o, b) \/ NoBuffers(p, o, b)
    BY <2>1, <2>2
  <2>4. QED
    BY <2>3 DEF Quiet
<1>2. ASSUME NEW p \in Procs, Exec(p)
      PROVE  \/ Quiet(p) \/ \E v \in Values : Change(p, v)
             \/ \E write \in BOOLEAN, d \in Values, next \in {"held", "done"} :
                   Transfer(p, write, d, next)
  BY <1>2, Transfers DEF Exec, Go, Quiet
<1>3. ASSUME NEW p \in Procs, AcquireBuf(p) \/ KillSleeper(p) PROVE Quiet(p)
  BY <1>3 DEF Quiet
<1>4. CASE DeviceStep \/ IdeintrStep
  BY <1>4 DEF DeviceStep, IdeintrStep
<1>5. CASE UNCHANGED dvars
  BY <1>5 DEF dvars, cache, ide, bufs, faults
<1>6. QED
  BY <1>1, <1>2, <1>3, <1>4, <1>5 DEF Next

-----------------------------------------------------------------------------
(* Types *)

\* iderw, in the steps that follow
LEMMA TransferEffect ==
  ASSUME Sizes, Types, UseInv, NEW p \in Procs, NEW write, NEW d, NEW next, NEW c \in Bufs,
         c = mine[p], Transfer(p, write, d, next)
  PROVE  /\ bpc[p] = "held" /\ blk[c] \in Blocks /\ owner[c] = p
         /\ UNCHANGED <<blk, refcnt, lru, owner, job, mine, nfail>>
         /\ \A x \in Bufs \ {c} : valid'[x] = valid[x] /\ dirty'[x] = dirty[x] /\ data'[x] = data[x]
         /\ \/ /\ ~MemDisk /\ idequeue' = Append(idequeue, c) /\ disk' = disk /\ valid' = valid
               /\ dev' = IF idequeue = <<>>
                         THEN [state |-> "busy", buf |-> c, block |-> blk[c], write |-> write, data |-> d]
                         ELSE dev
               /\ dirty'[c] = write /\ data'[c] = d /\ bpc' = [bpc EXCEPT ![p] = "io"]
            \/ /\ MemDisk /\ idequeue' = idequeue /\ dev' = dev /\ bpc' = [bpc EXCEPT ![p] = next]
               /\ disk' = IF write THEN [disk EXCEPT ![blk[c]] = d] ELSE disk
               /\ ~dirty'[c] /\ valid'[c] /\ data'[c] = IF write THEN d ELSE disk[blk[c]]
<1>1. bpc[p] = "held" /\ blk[c] \in Blocks /\ owner[c] = p
  BY Locked DEF Transfer, Locking
<1>2. UNCHANGED <<blk, refcnt, lru, owner, job, mine, nfail>>
  BY DEF Transfer, Iderw, cache
<1>3. CASE IdeAppend(p, write, d)
  <2>1. /\ idequeue' = Append(idequeue, c) /\ disk' = disk /\ valid' = valid /\ ~MemDisk
        /\ dirty' = [dirty EXCEPT ![c] = write] /\ data' = [data EXCEPT ![c] = d]
        /\ bpc' = [bpc EXCEPT ![p] = "io"]
    BY <1>3 DEF IdeAppend, Goto
  <2>2. AtHead(idequeue') <=> idequeue = <<>>
    <3>1. Len(idequeue') = Len(idequeue) + 1 /\ Len(idequeue) \in Nat
      BY <2>1 DEF Types
    <3>2. Len(idequeue) = 0 <=> idequeue = <<>>
      BY DEF Types
    <3>3. QED
      BY <3>1, <3>2 DEF AtHead
  <2>3. dev' = IF idequeue = <<>>
               THEN [state |-> "busy", buf |-> c, block |-> blk[c], write |-> write, data |-> d]
               ELSE dev
    BY <1>3, <2>2 DEF IdeAppend, Request
  <2>4. /\ dirty'[c] = write /\ data'[c] = d
        /\ \A x \in Bufs \ {c} : valid'[x] = valid[x] /\ dirty'[x] = dirty[x] /\ data'[x] = data[x]
    BY <2>1 DEF Types
  <2>5. QED
    BY <1>1, <1>2, <2>1, <2>3, <2>4
<1>4. CASE MemTransfer(p, write, d, next)
  <2>1. /\ MemDisk /\ idequeue' = idequeue /\ dev' = dev /\ bpc' = [bpc EXCEPT ![p] = next]
        /\ disk' = IF write THEN [disk EXCEPT ![blk[c]] = d] ELSE disk
        /\ data' = [data EXCEPT ![c] = IF write THEN d ELSE disk[blk[c]]]
        /\ dirty' = [dirty EXCEPT ![c] = FALSE] /\ valid' = [valid EXCEPT ![c] = TRUE]
    BY <1>4 DEF MemTransfer, Goto
  <2>2. /\ ~dirty'[c] /\ valid'[c] /\ data'[c] = IF write THEN d ELSE disk[blk[c]]
        /\ \A x \in Bufs \ {c} : valid'[x] = valid[x] /\ dirty'[x] = dirty[x] /\ data'[x] = data[x]
    BY <2>1 DEF Types
  <2>3. QED
    BY <1>1, <1>2, <2>1, <2>2
<1>5. QED
  BY <1>3, <1>4 DEF Transfer, Iderw

LEMMA TypesStep ==
  ASSUME Sizes, IInv, [Next]_dvars
  PROVE  Types'
<1>0. Types /\ UseInv /\ QueueInv /\ DevInv /\ DataInv
  BY DEF IInv
<1>1. ASSUME NEW p \in Procs, Quiet(p) PROVE Types'
  <2>1. CASE AcquireBuf(p) \/ ReleaseBuf(p)
    <3>1. PICK q \in Procs \cup {NoProc} : owner' = [owner EXCEPT ![mine[p]] = q]
      BY <2>1 DEF AcquireBuf, ReleaseBuf
    <3>2. PICK c \in Bufs : c = mine[p]
      BY <1>0, <2>1, Locked DEF AcquireBuf, ReleaseBuf
    <3>3. owner' \in [Bufs -> Procs \cup {NoProc}]
      BY <1>0, <3>1, <3>2 DEF Types
    <3>4. bpc' = [bpc EXCEPT ![p] = "held"] \/ bpc' = [bpc EXCEPT ![p] = "unref"]
      BY <2>1 DEF AcquireBuf, ReleaseBuf, Goto
    <3>5. UNCHANGED <<cache, ide, bufs, job, mine, got, faults>>
      BY <2>1 DEF AcquireBuf, ReleaseBuf
    <3>6. bpc' \in [Procs -> BPcs]
      BY <1>0, <3>4 DEF Types, BPcs
    <3>7. QED
      BY <1>0, <3>3, <3>5, <3>6 DEF cache, ide, bufs, faults, Types
  <2>2. CASE KillSleeper(p) \/ IoWait(p) \/ IoDone(p) \/ \E o \in Ops, b \in Blocks : NoBuffers(p, o, b)
    BY <1>0, <2>2 DEF KillSleeper, IoWait, IoDone, NoBuffers, Goto, cache, ide, bufs, faults, Types, BPcs
  <2>3. CASE Look(p)
    BY <1>0, <2>3 DEF Look, Goto, cache, ide, bufs, faults, Types, BPcs
  <2>4. CASE Brelse(p)
    <3>1. PICK c \in Bufs : c = mine[p]
      BY <1>0, <2>4, Locked DEF Brelse
    <3>2. refcnt' = [refcnt EXCEPT ![c] = refcnt[c] - 1] /\ refcnt[c] - 1 \in Nat
      <4>1. Users(c) # {} /\ IsFiniteSet(Users(c))
        BY <3>1, FS_Subset DEF Users, Sizes
      <4>2. Cardinality(Users(c)) \in Nat /\ Cardinality(Users(c)) # 0
        BY <4>1, FS_CardinalityType, FS_EmptySet
      <4>3. QED
        BY <1>0, <2>4, <3>1, <4>2 DEF Brelse, Unref, UseInv
    <3>3. lru' \in [Bufs -> Bufs] /\ \A x \in Bufs : \E i \in Bufs : lru'[i] = x
      <4>1. CASE lru' = lru
        BY <1>0, <4>1 DEF Types
      <4>2. CASE lru' = MovedToFront(c)
        <5>1. PICK k \in Bufs : k = CHOOSE i \in Bufs : lru[i] = c
          BY <1>0 DEF Types
        <5>2. lru[k] = c
          BY <1>0, <5>1 DEF Types
        <5>3. lru' = [i \in Bufs |-> IF i = 1 THEN c ELSE IF i <= k THEN lru[i - 1] ELSE lru[i]]
          BY <4>2, <5>1 DEF MovedToFront
        <5>4. \A i \in Bufs : i # 1 => i - 1 \in Bufs
          BY DEF Bufs, Sizes
        <5>5. lru' \in [Bufs -> Bufs]
          BY <1>0, <5>3, <5>4 DEF Types
        <5>6. ASSUME NEW x \in Bufs PROVE \E i \in Bufs : lru'[i] = x
          <6>1. PICK j \in Bufs : lru[j] = x
            BY <1>0 DEF Types
          <6>2. CASE j = k
            <7>1. 1 \in Bufs
              BY DEF Bufs, Sizes
            <7>2. QED
              BY <5>2, <5>3, <6>1, <6>2, <7>1
          <6>3. CASE j < k
            <7>1. j + 1 \in Bufs /\ j + 1 # 1 /\ j + 1 <= k /\ (j + 1) - 1 = j
              BY <6>3 DEF Bufs, Sizes
            <7>2. lru'[j + 1] = lru[j]
              BY <5>3, <7>1
            <7>3. QED
              BY <6>1, <7>1, <7>2
          <6>4. CASE j > k
            <7>1. j # 1 /\ ~(j <= k)
              BY <6>4 DEF Bufs, Sizes
            <7>2. lru'[j] = lru[j]
              BY <5>3, <7>1
            <7>3. QED
              BY <6>1, <7>2
          <6>5. QED
            BY <6>2, <6>3, <6>4 DEF Bufs, Sizes
        <5>7. QED
          BY <5>5, <5>6
      <4>3. QED
        BY <2>4, <3>1, <4>1, <4>2 DEF Brelse
    <3>4. refcnt' \in [Bufs -> Nat]
      BY <1>0, <3>2 DEF Types
    <3>5. QED
      BY <1>0, <2>4, <3>3, <3>4 DEF Brelse, Goto, ide, bufs, faults, Types, BPcs
  <2>5. CASE \E o \in Ops, b \in Blocks : Hit(p, o, b)
    <3>1. PICK o \in Ops, b \in Blocks : Hit(p, o, b)
      BY <2>5
    <3>2. PICK c \in Cached(b) : /\ refcnt' = [refcnt EXCEPT ![c] = @ + 1]
                                 /\ mine' = [mine EXCEPT ![p] = c]
      BY <3>1 DEF Hit
    <3>3. c \in Bufs
      BY DEF Cached
    <3>4. QED
      BY <1>0, <3>1, <3>2, <3>3 DEF Hit, Goto, ide, bufs, faults, Types, BPcs
  <2>6. QED
    BY <1>1, <2>1, <2>2, <2>3, <2>4, <2>5 DEF Quiet
<1>2. ASSUME NEW p \in Procs, NEW o \in Ops, NEW b \in Blocks, Recycle(p, o, b) PROVE Types'
  <2>1. PICK c \in Bufs :
          /\ blk' = [blk EXCEPT ![c] = b]
          /\ valid' = [valid EXCEPT ![c] = FALSE] /\ dirty' = [dirty EXCEPT ![c] = FALSE]
          /\ refcnt' = [refcnt EXCEPT ![c] = 1]
          /\ mine' = [mine EXCEPT ![p] = c]
    BY <1>2 DEF Recycle
  <2>2. QED
    BY <1>0, <1>2, <2>1 DEF Recycle, Goto, ide, faults, Types, BPcs
<1>3. ASSUME NEW p \in Procs, NEW write \in BOOLEAN, NEW d \in Values, NEW next \in {"held", "done"},
             Transfer(p, write, d, next)
      PROVE  Types'
  <2>1. PICK c \in Bufs : c = mine[p]
    BY <1>0, <1>3, Locked DEF Transfer, Locking
  <2>2. pinned' \subseteq Blocks /\ failed' \subseteq Blocks /\ DOMAIN got' = Procs
    BY <1>0, <1>3 DEF Transfer, Types
  <2>3. blk[c] \in Blocks /\ UNCHANGED <<blk, refcnt, lru, owner, job, mine, nfail>>
    BY <1>0, <1>3, <2>1, Locked DEF Transfer, Iderw, cache
  <2>4. CASE IdeAppend(p, write, d)
    BY <1>0, <2>1, <2>2, <2>3, <2>4 DEF IdeAppend, Goto, Types, BPcs
  <2>5. CASE MemTransfer(p, write, d, next)
    BY <1>0, <2>1, <2>2, <2>3, <2>5 DEF MemTransfer, Goto, Types, BPcs
  <2>6. QED
    BY <1>3, <2>4, <2>5 DEF Transfer, Iderw
<1>4. ASSUME NEW p \in Procs, NEW v \in Values, Change(p, v) PROVE Types'
  <2>1. PICK c \in Bufs : c = mine[p] /\ blk[c] \in Blocks
    BY <1>0, <1>4, Locked DEF Change
  <2>2. QED
    BY <1>0, <1>4, <2>1 DEF Change, Goto, cache, ide, Types, BPcs
<1>5. CASE DeviceDone
  <2>1. dev.write => dev.data \in Values
    <3>1. idequeue # <<>>
      BY <1>0, <1>5 DEF DeviceDone, DevInv
    <3>2. dev.buf \in Bufs
      BY <1>0, <3>1, InQueue DEF DevInv
    <3>3. QED
      BY <1>0, <3>1, <3>2 DEF DevInv, Types
  <2>2. disk' \in [Blocks -> Values]
    BY <1>0, <1>5, <2>1 DEF DeviceDone, Types
  <2>3. nfail' \in 0..MaxFail
    BY <1>0, <1>5 DEF DeviceDone, Types, Sizes
  <2>4. QED
    BY <1>0, <1>5, <2>2, <2>3 DEF DeviceDone, cache, bufs, Types
<1>6. CASE Ideintr
  <2>1. PICK c \in Bufs : c = Head(idequeue) /\ blk[c] \in Blocks
    BY <1>0, <1>6, InQueue DEF Ideintr
  <2>2. dev.state = "done" => dev.data \in Values
    BY <1>0, <1>6, <2>1 DEF Ideintr, DevInv, Types
  <2>3. data' \in [Bufs -> Values] /\ failed' \subseteq Blocks
    BY <1>0, <1>6, <2>1, <2>2 DEF Ideintr, Types
  <2>4. bpc' \in [Procs -> BPcs]
    BY <1>0, <1>6 DEF Ideintr, Wakeup, Types, BPcs
  <2>5. idequeue' \in Seq(Bufs)
    BY <1>0, <1>6 DEF Ideintr, Types
  <2>6. valid' \in [Bufs -> BOOLEAN] /\ dirty' \in [Bufs -> BOOLEAN]
    BY <1>0, <1>6 DEF Ideintr, Types
  <2>7. QED
    BY <1>0, <1>6, <2>3, <2>4, <2>5, <2>6 DEF Ideintr, cache, Types
<1>7. CASE UNCHANGED <<cache, ide, bufs, owner, bpc, job, mine, got, faults>>
  BY <1>0, <1>7 DEF cache, ide, bufs, faults, Types
<1>8. QED
  BY <1>0, <1>1, <1>2, <1>3, <1>4, <1>5, <1>6, <1>7, NextCases

-----------------------------------------------------------------------------
(* The use of the buffers *)

\* most steps leave the buffers with the processes that have them
LEMMA UseRests ==
  ASSUME Types, UseInv, UNCHANGED <<blk, owner, refcnt, mine, job>>,
         \A q \in Procs : /\ bpc'[q] \in {"idle", "nobuf"} <=> bpc[q] \in {"idle", "nobuf"}
                          /\ bpc'[q] \in Locking <=> bpc[q] \in Locking
  PROVE  UseInv'
<1>1. \A c \in Bufs : Users(c)' = Users(c)
  BY DEF Users
<1>2. \A c \in Bufs : owner[c] # NoProc => owner[c] \in Procs
  BY DEF Types
<1>3. \A c \in Bufs : refcnt'[c] = Cardinality(Users(c)')
  BY <1>1 DEF UseInv
<1>4. QED
  BY <1>2, <1>3 DEF UseInv

LEMMA QuietUse ==
  ASSUME Sizes, Types, UseInv, NEW p \in Procs, Quiet(p)
  PROVE  UseInv'
<1>1. CASE \/ KillSleeper(p) \/ IoWait(p) \/ IoDone(p) \/ Look(p)
           \/ \E o \in Ops, b \in Blocks : NoBuffers(p, o, b)
  <2>1. UNCHANGED <<blk, owner, refcnt, mine, job>>
    BY <1>1 DEF KillSleeper, IoWait, IoDone, Look, NoBuffers, cache
  <2>2. \A q \in Procs : /\ bpc'[q] \in {"idle", "nobuf"} <=> bpc[q] \in {"idle", "nobuf"}
                         /\ bpc'[q] \in Locking <=> bpc[q] \in Locking
    BY <1>1 DEF KillSleeper, IoWait, IoDone, Look, NoBuffers, Goto, Locking, Types
  <2>3. QED
    BY <2>1, <2>2, UseRests
<1>2. CASE AcquireBuf(p)
  <2>1. PICK c \in Bufs : c = mine[p]
    BY <1>2, Locked DEF AcquireBuf
  <2>2. /\ bpc[p] = "bwait" /\ owner[c] = NoProc /\ bpc' = [bpc EXCEPT ![p] = "held"]
        /\ owner' = [owner EXCEPT ![c] = p]
        /\ UNCHANGED <<blk, refcnt, mine, job>>
    BY <1>2, <2>1 DEF AcquireBuf, Free, Goto, cache
  <2>3. /\ bpc'[p] = "held" /\ owner'[c] = p
        /\ \A q \in Procs \ {p} : bpc'[q] = bpc[q]
        /\ \A x \in Bufs \ {c} : owner'[x] = owner[x]
    BY <2>2 DEF Types
  <2>4. \A x \in Bufs : refcnt'[x] = Cardinality(Users(x)')
    BY <2>2 DEF UseInv, Users
  <2>5. \A q \in Procs : bpc'[q] \in Locking => owner'[mine'[q]] = q
    BY <2>1, <2>2, <2>3, Locked DEF Sizes
  <2>6. \A x \in Bufs : owner'[x] # NoProc => mine'[owner'[x]] = x /\ bpc'[owner'[x]] \in Locking
    BY <2>1, <2>2, <2>3 DEF UseInv, Types, Locking
  <2>7. /\ \A q \in Procs : mine'[q] # NoBuf <=> bpc'[q] \notin {"idle", "nobuf"}
        /\ \A q \in Procs : mine'[q] # NoBuf => job'[q] \in Ops \X Blocks /\ blk'[mine'[q]] = job'[q][2]
        /\ \A x, y \in Bufs : blk'[x] = blk'[y] /\ blk'[x] # NoBlock => x = y
    BY <2>2, <2>3 DEF UseInv
  <2>8. QED
    BY <2>4, <2>5, <2>6, <2>7 DEF UseInv
<1>3. CASE ReleaseBuf(p)
  <2>1. PICK c \in Bufs : c = mine[p]
    BY <1>3, Locked DEF ReleaseBuf
  <2>2. /\ bpc[p] = "done" /\ owner[c] = p /\ bpc' = [bpc EXCEPT ![p] = "unref"]
        /\ owner' = [owner EXCEPT ![c] = NoProc]
        /\ UNCHANGED <<blk, refcnt, mine, job>>
    BY <1>3, <2>1, Locked DEF ReleaseBuf, Goto, cache, Locking
  <2>3. /\ bpc'[p] = "unref" /\ owner'[c] = NoProc
        /\ \A q \in Procs \ {p} : bpc'[q] = bpc[q]
        /\ \A x \in Bufs \ {c} : owner'[x] = owner[x]
    BY <2>2 DEF Types
  <2>4. \A x \in Bufs : refcnt'[x] = Cardinality(Users(x)')
    BY <2>2 DEF UseInv, Users
  <2>5. \A q \in Procs : bpc'[q] \in Locking => owner'[mine'[q]] = q
    BY <2>2, <2>3, Locked DEF Locking
  <2>6. \A x \in Bufs : owner'[x] # NoProc => mine'[owner'[x]] = x /\ bpc'[owner'[x]] \in Locking
    BY <2>1, <2>2, <2>3 DEF UseInv, Types
  <2>7. /\ \A q \in Procs : mine'[q] # NoBuf <=> bpc'[q] \notin {"idle", "nobuf"}
        /\ \A q \in Procs : mine'[q] # NoBuf => job'[q] \in Ops \X Blocks /\ blk'[mine'[q]] = job'[q][2]
        /\ \A x, y \in Bufs : blk'[x] = blk'[y] /\ blk'[x] # NoBlock => x = y
    BY <2>2, <2>3 DEF UseInv
  <2>8. QED
    BY <2>4, <2>5, <2>6, <2>7 DEF UseInv
<1>4. CASE Brelse(p)
  <2>1. PICK c \in Bufs : c = mine[p]
    BY <1>4, Locked DEF Brelse
  <2>2. /\ bpc[p] = "unref" /\ bpc' = [bpc EXCEPT ![p] = "idle"] /\ mine' = [mine EXCEPT ![p] = NoBuf]
        /\ refcnt' = [refcnt EXCEPT ![c] = refcnt[c] - 1]
        /\ UNCHANGED <<blk, owner, job>>
    BY <1>4, <2>1 DEF Brelse, Goto, Unref
  <2>3. /\ bpc'[p] = "idle" /\ mine'[p] = NoBuf
        /\ \A q \in Procs \ {p} : bpc'[q] = bpc[q] /\ mine'[q] = mine[q]
    BY <2>2 DEF Types
  <2>4. ASSUME NEW x \in Bufs PROVE refcnt'[x] = Cardinality(Users(x)')
    <3>1. CASE x = c
      <4>1. Users(c)' = Users(c) \ {p} /\ p \in Users(c)
        BY <2>1, <2>3 DEF Users, Sizes
      <4>2. IsFiniteSet(Users(c))
        BY FS_Subset DEF Users, Sizes
      <4>3. Cardinality(Users(c)') = Cardinality(Users(c)) - 1
        BY <4>1, <4>2, FS_RemoveElement
      <4>4. QED
        BY <2>2, <3>1, <4>3 DEF UseInv, Types
    <3>2. CASE x # c
      <4>1. Users(x)' = Users(x)
        BY <2>1, <2>3, <3>2 DEF Users, Sizes
      <4>2. QED
        BY <2>2, <3>2, <4>1 DEF UseInv, Types
    <3>3. QED
      BY <3>1, <3>2
  <2>5. \A q \in Procs : bpc'[q] \in Locking => owner'[mine'[q]] = q
    BY <2>2, <2>3, Locked DEF Locking
  <2>6. \A x \in Bufs : owner'[x] # NoProc => mine'[owner'[x]] = x /\ bpc'[owner'[x]] \in Locking
    BY <2>2, <2>3 DEF UseInv, Types, Locking
  <2>7. /\ \A q \in Procs : mine'[q] # NoBuf <=> bpc'[q] \notin {"idle", "nobuf"}
        /\ \A q \in Procs : mine'[q] # NoBuf => job'[q] \in Ops \X Blocks /\ blk'[mine'[q]] = job'[q][2]
        /\ \A x, y \in Bufs : blk'[x] = blk'[y] /\ blk'[x] # NoBlock => x = y
    BY <2>2, <2>3 DEF UseInv
  <2>8. QED
    BY <2>4, <2>5, <2>6, <2>7 DEF UseInv
<1>5. CASE \E o \in Ops, b \in Blocks : Hit(p, o, b)
  <2>1. PICK o \in Ops, b \in Blocks : Hit(p, o, b)
    BY <1>5
  <2>2. PICK c \in Bufs : /\ blk[c] = b /\ refcnt' = [refcnt EXCEPT ![c] = refcnt[c] + 1]
                          /\ mine' = [mine EXCEPT ![p] = c]
    BY <2>1 DEF Hit, Cached
  <2>3. /\ bpc[p] = "idle" /\ bpc' = [bpc EXCEPT ![p] = "bwait"]
        /\ job' = [job EXCEPT ![p] = <<o, b>>] /\ UNCHANGED <<blk, owner>>
    BY <2>1 DEF Hit, Goto
  <2>4. /\ bpc'[p] = "bwait" /\ mine'[p] = c /\ job'[p] = <<o, b>> /\ mine[p] = NoBuf /\ c # NoBuf
        /\ \A q \in Procs \ {p} : bpc'[q] = bpc[q] /\ mine'[q] = mine[q] /\ job'[q] = job[q]
    BY <2>2, <2>3 DEF Types, UseInv, Sizes
  <2>5. ASSUME NEW x \in Bufs PROVE refcnt'[x] = Cardinality(Users(x)')
    <3>1. CASE x = c
      <4>1. Users(c)' = Users(c) \cup {p} /\ p \notin Users(c)
        BY <2>4 DEF Users
      <4>2. IsFiniteSet(Users(c))
        BY FS_Subset DEF Users, Sizes
      <4>3. Cardinality(Users(c)') = Cardinality(Users(c)) + 1
        BY <4>1, <4>2, FS_AddElement
      <4>4. QED
        BY <2>2, <3>1, <4>3 DEF UseInv, Types
    <3>2. CASE x # c
      <4>1. Users(x)' = Users(x)
        BY <2>4, <3>2 DEF Users, Sizes
      <4>2. QED
        BY <2>2, <3>2, <4>1 DEF UseInv, Types
    <3>3. QED
      BY <3>1, <3>2
  <2>6. \A q \in Procs : bpc'[q] \in Locking => owner'[mine'[q]] = q
    BY <2>3, <2>4, Locked DEF Locking
  <2>7. \A x \in Bufs : owner'[x] # NoProc => mine'[owner'[x]] = x /\ bpc'[owner'[x]] \in Locking
    BY <2>3, <2>4 DEF UseInv, Types, Locking
  <2>8. /\ \A q \in Procs : mine'[q] # NoBuf <=> bpc'[q] \notin {"idle", "nobuf"}
        /\ \A q \in Procs : mine'[q] # NoBuf => job'[q] \in Ops \X Blocks /\ blk'[mine'[q]] = job'[q][2]
        /\ \A x, y \in Bufs : blk'[x] = blk'[y] /\ blk'[x] # NoBlock => x = y
    BY <2>2, <2>3, <2>4 DEF UseInv
  <2>9. QED
    BY <2>5, <2>6, <2>7, <2>8 DEF UseInv
<1>6. QED
  BY <1>1, <1>2, <1>3, <1>4, <1>5 DEF Quiet

\* a buffer nobody has is given another block
LEMMA RecycleUse ==
  ASSUME Sizes, Types, UseInv, NEW p \in Procs, NEW o \in Ops, NEW b \in Blocks, Recycle(p, o, b)
  PROVE  UseInv'
<1>1. PICK c \in Bufs :
        /\ refcnt[c] = 0 /\ blk' = [blk EXCEPT ![c] = b]
        /\ refcnt' = [refcnt EXCEPT ![c] = 1] /\ mine' = [mine EXCEPT ![p] = c]
  BY DEF Recycle, Recycled, Unused
<1>2. Users(c) = {}
  BY <1>1, FS_Subset, FS_EmptySet DEF Users, Sizes, UseInv
<1>3. /\ bpc[p] = "idle" /\ bpc' = [bpc EXCEPT ![p] = "bwait"] /\ \A x \in Bufs : blk[x] # b
      /\ job' = [job EXCEPT ![p] = <<o, b>>] /\ owner' = owner
  BY DEF Recycle, Goto, Cached
<1>4. /\ bpc'[p] = "bwait" /\ mine'[p] = c /\ job'[p] = <<o, b>> /\ mine[p] = NoBuf /\ c # NoBuf
      /\ blk'[c] = b /\ \A x \in Bufs \ {c} : blk'[x] = blk[x]
      /\ \A q \in Procs \ {p} : bpc'[q] = bpc[q] /\ mine'[q] = mine[q] /\ job'[q] = job[q] /\ mine[q] # c
  BY <1>1, <1>2, <1>3 DEF Types, UseInv, Users, Sizes
<1>5. ASSUME NEW x \in Bufs PROVE refcnt'[x] = Cardinality(Users(x)')
  <2>1. CASE x = c
    <3>1. Users(c)' = {p}
      BY <1>4 DEF Users
    <3>2. QED
      BY <1>1, <2>1, <3>1, FS_Singleton DEF Types
  <2>2. CASE x # c
    <3>1. Users(x)' = Users(x)
      BY <1>4, <2>2 DEF Users, Sizes
    <3>2. QED
      BY <1>1, <2>2, <3>1 DEF UseInv, Types
  <2>3. QED
    BY <2>1, <2>2
<1>6. \A q \in Procs : bpc'[q] \in Locking => owner'[mine'[q]] = q
  BY <1>3, <1>4, Locked DEF Locking
<1>7. \A x \in Bufs : owner'[x] # NoProc => mine'[owner'[x]] = x /\ bpc'[owner'[x]] \in Locking
  BY <1>3, <1>4 DEF UseInv, Types, Locking
<1>8. \A q \in Procs : mine'[q] # NoBuf <=> bpc'[q] \notin {"idle", "nobuf"}
  BY <1>3, <1>4 DEF UseInv
<1>9. \A q \in Procs : mine'[q] # NoBuf => job'[q] \in Ops \X Blocks /\ blk'[mine'[q]] = job'[q][2]
  BY <1>3, <1>4 DEF UseInv, Types
<1>10. \A x, y \in Bufs : blk'[x] = blk'[y] /\ blk'[x] # NoBlock => x = y
  BY <1>3, <1>4 DEF UseInv
<1>11. QED
  BY <1>5, <1>6, <1>7, <1>8, <1>9, <1>10 DEF UseInv

LEMMA UseStep ==
  ASSUME Sizes, IInv, [Next]_dvars
  PROVE  UseInv'
<1>0. Types /\ UseInv /\ QueueInv /\ DevInv /\ DataInv
  BY DEF IInv
<1>1. ASSUME NEW p \in Procs, NEW write \in BOOLEAN, NEW d \in Values, NEW next \in {"held", "done"},
             Transfer(p, write, d, next)
      PROVE  UseInv'
  <2>1. PICK c \in Bufs : c = mine[p]
    BY <1>0, <1>1, Locked DEF Transfer, Locking
  <2>2. /\ bpc[p] = "held" /\ UNCHANGED <<blk, owner, refcnt, mine, job>>
        /\ bpc' = [bpc EXCEPT ![p] = "io"] \/ bpc' = [bpc EXCEPT ![p] = next]
    BY <1>0, <1>1, <2>1, TransferEffect
  <2>3. \A q \in Procs : /\ bpc'[q] \in {"idle", "nobuf"} <=> bpc[q] \in {"idle", "nobuf"}
                         /\ bpc'[q] \in Locking <=> bpc[q] \in Locking
    BY <1>0, <2>2 DEF Locking, Types
  <2>4. QED
    BY <1>0, <2>2, <2>3, UseRests
<1>2. ASSUME NEW p \in Procs, NEW v \in Values, Change(p, v) PROVE UseInv'
  <2>1. UNCHANGED <<blk, owner, refcnt, mine, job>>
    BY <1>2 DEF Change, cache
  <2>2. \A q \in Procs : /\ bpc'[q] \in {"idle", "nobuf"} <=> bpc[q] \in {"idle", "nobuf"}
                         /\ bpc'[q] \in Locking <=> bpc[q] \in Locking
    BY <1>0, <1>2 DEF Change, Goto, Locking, Types
  <2>3. QED
    BY <1>0, <2>1, <2>2, UseRests
<1>3. CASE Ideintr
  <2>1. UNCHANGED <<blk, owner, refcnt, mine, job>>
    BY <1>3 DEF Ideintr, cache
  <2>2. \A q \in Procs : /\ bpc'[q] \in {"idle", "nobuf"} <=> bpc[q] \in {"idle", "nobuf"}
                         /\ bpc'[q] \in Locking <=> bpc[q] \in Locking
    BY <1>0, <1>3 DEF Ideintr, Wakeup, Locking, Types
  <2>3. QED
    BY <1>0, <2>1, <2>2, UseRests
<1>4. CASE DeviceDone \/ UNCHANGED <<cache, ide, bufs, owner, bpc, job, mine, got, faults>>
  <2>1. UNCHANGED <<blk, owner, refcnt, mine, job, bpc>>
    BY <1>4 DEF DeviceDone, cache
  <2>2. QED
    BY <1>0, <2>1, UseRests
<1>5. QED
  BY <1>0, <1>1, <1>2, <1>3, <1>4, QuietUse, RecycleUse, NextCases

-----------------------------------------------------------------------------
(* The queue of the driver and who waits for it *)

\* one process takes a step and the queue stays
LEMMA QueueRests ==
  ASSUME Sizes, Types, UseInv, QueueInv, NEW p \in Procs, idequeue' = idequeue,
         \A c \in Queued : owner'[c] = owner[c] /\ valid'[c] = valid[c] /\ dirty'[c] = dirty[c],
         \A q \in Procs \ {p} :
           /\ bpc'[q] = bpc[q] /\ mine'[q] = mine[q]
           /\ bpc[q] = "io" /\ Synced(mine[q]) => valid'[mine[q]] /\ ~dirty'[mine[q]],
         bpc[p] \in {"io", "asleep"} /\ mine[p] \in Queued => bpc'[p] \in {"io", "asleep"},
         bpc'[p] = "asleep" => mine'[p] \in Queued,
         bpc'[p] = "io" => mine'[p] \in Queued \/ (valid'[mine'[p]] /\ ~dirty'[mine'[p]])
  PROVE  QueueInv'
<1>1. Queued' = Queued
  BY DEF Queued
<1>2. ASSUME NEW i \in DOMAIN idequeue
      PROVE  LET c == idequeue[i] IN
               owner'[c] \in Procs /\ bpc'[owner'[c]] \in {"io", "asleep"} /\ ~(valid'[c] /\ ~dirty'[c])
  <2>1. PICK c \in Queued : c = idequeue[i]
    BY DEF Queued, Range
  <2>2. owner[c] \in Procs /\ mine[owner[c]] = c /\ bpc[owner[c]] \in {"io", "asleep"} /\ ~Synced(c)
    BY <2>1, InQueue
  <2>3. bpc'[owner[c]] \in {"io", "asleep"}
    BY <2>1, <2>2
  <2>4. QED
    BY <2>1, <2>2, <2>3 DEF Synced
<1>3. \A q \in Procs : bpc'[q] = "asleep" => mine'[q] \in Queued
  BY DEF QueueInv
<1>4. \A q \in Procs : bpc'[q] = "io" => mine'[q] \in Queued \/ (valid'[mine'[q]] /\ ~dirty'[mine'[q]])
  BY DEF QueueInv
<1>5. QED
  BY <1>1, <1>2, <1>3, <1>4 DEF QueueInv, Synced

LEMMA QueueStep ==
  ASSUME Sizes, IInv, [Next]_dvars
  PROVE  QueueInv'
<1>0. Types /\ UseInv /\ QueueInv /\ DevInv /\ DataInv
  BY DEF IInv
<1>1. ASSUME NEW p \in Procs, Quiet(p) PROVE QueueInv'
  <2>1. CASE AcquireBuf(p) \/ ReleaseBuf(p)
    <3>1. PICK c \in Bufs : c = mine[p] /\ c \notin Queued
      BY <1>0, <2>1, InQueue, Locked DEF AcquireBuf, ReleaseBuf, Free, Locking, Sizes
    <3>2. PICK q \in Procs \cup {NoProc} : owner' = [owner EXCEPT ![c] = q]
      BY <2>1, <3>1 DEF AcquireBuf, ReleaseBuf
    <3>3. UNCHANGED <<idequeue, valid, dirty, mine>>
      BY <2>1 DEF AcquireBuf, ReleaseBuf, ide, bufs
    <3>4. /\ bpc[p] \in {"bwait", "done"}
          /\ bpc' = [bpc EXCEPT ![p] = "held"] \/ bpc' = [bpc EXCEPT ![p] = "unref"]
      BY <2>1 DEF AcquireBuf, ReleaseBuf, Goto
    <3>5. bpc'[p] \in {"held", "unref"} /\ \A r \in Procs \ {p} : bpc'[r] = bpc[r]
      BY <1>0, <3>4 DEF Types
    <3>6. \A x \in Queued : owner'[x] = owner[x]
      BY <1>0, <3>1, <3>2 DEF Types
    <3>7. QED
      BY <1>0, <3>3, <3>4, <3>5, <3>6, QueueRests DEF Synced
  <2>2. CASE KillSleeper(p) \/ IoWait(p)
    <3>1. UNCHANGED <<idequeue, valid, dirty, owner, mine>>
      BY <2>2 DEF KillSleeper, IoWait, ide, bufs
    <3>2. /\ bpc'[p] \in {"io", "asleep"} /\ \A r \in Procs \ {p} : bpc'[r] = bpc[r]
          /\ mine[p] \in Queued
      BY <1>0, <2>2 DEF KillSleeper, IoWait, Goto, Types, QueueInv
    <3>3. QED
      BY <1>0, <3>1, <3>2, QueueRests DEF Synced
  <2>3. CASE IoDone(p) \/ Look(p) \/ \E o \in Ops, b \in Blocks : NoBuffers(p, o, b)
    <3>1. UNCHANGED <<idequeue, valid, dirty, owner, mine>>
      BY <2>3 DEF IoDone, Look, NoBuffers, ide, bufs
    <3>2. /\ bpc'[p] \in {"done", "held", "nobuf"} /\ \A r \in Procs \ {p} : bpc'[r] = bpc[r]
          /\ bpc[p] \in {"io", "asleep"} => mine[p] \notin Queued
      <4>1. /\ bpc[p] = "io" => Synced(mine[p])
            /\ bpc[p] # "asleep"
            /\ \/ bpc' = [bpc EXCEPT ![p] = "done"] \/ bpc' = [bpc EXCEPT ![p] = "held"]
               \/ bpc' = [bpc EXCEPT ![p] = "nobuf"]
        BY <2>3 DEF IoDone, Look, NoBuffers, Goto
      <4>2. bpc[p] \in {"io", "asleep"} => mine[p] \notin Queued
        BY <1>0, <4>1, InQueue
      <4>3. bpc'[p] \in {"done", "held", "nobuf"} /\ \A r \in Procs \ {p} : bpc'[r] = bpc[r]
        BY <1>0, <4>1 DEF Types
      <4>4. QED
        BY <4>2, <4>3
    <3>3. QED
      BY <1>0, <3>1, <3>2, QueueRests DEF Synced
  <2>4. CASE Brelse(p) \/ \E o \in Ops, b \in Blocks : Hit(p, o, b)
    <3>1. UNCHANGED <<idequeue, valid, dirty, owner>> /\ bpc[p] \in {"unref", "idle"}
      BY <2>4 DEF Brelse, Hit, ide, bufs
    <3>2. /\ bpc'[p] \in {"idle", "bwait"}
          /\ \A r \in Procs \ {p} : bpc'[r] = bpc[r] /\ mine'[r] = mine[r]
      <4>1. bpc' = [bpc EXCEPT ![p] = "idle"] \/ bpc' = [bpc EXCEPT ![p] = "bwait"]
        BY <2>4 DEF Brelse, Hit, Goto
      <4>2. \E x : mine' = [mine EXCEPT ![p] = x]
        BY <2>4 DEF Brelse, Hit
      <4>3. QED
        BY <1>0, <4>1, <4>2 DEF Types
    <3>3. QED
      BY <1>0, <3>1, <3>2, QueueRests DEF Synced
  <2>5. QED
    BY <1>1, <2>1, <2>2, <2>3, <2>4 DEF Quiet
<1>2. ASSUME NEW p \in Procs, NEW o \in Ops, NEW b \in Blocks, Recycle(p, o, b) PROVE QueueInv'
  <2>1. PICK c \in Bufs :
          /\ refcnt[c] = 0 /\ mine' = [mine EXCEPT ![p] = c]
          /\ valid' = [valid EXCEPT ![c] = FALSE] /\ dirty' = [dirty EXCEPT ![c] = FALSE]
    BY <1>2 DEF Recycle, Recycled, Unused
  <2>2. Users(c) = {}
    BY <1>0, <2>1, FS_Subset, FS_EmptySet DEF Users, Sizes, UseInv
  <2>3. c \notin Queued /\ \A q \in Procs : mine[q] # c
    BY <1>0, <2>2, InQueue DEF Users
  <2>4. UNCHANGED <<idequeue, owner>> /\ bpc[p] = "idle" /\ bpc' = [bpc EXCEPT ![p] = "bwait"]
    BY <1>2 DEF Recycle, Goto, ide
  <2>5. bpc'[p] = "bwait" /\ \A r \in Procs \ {p} : bpc'[r] = bpc[r] /\ mine'[r] = mine[r]
    BY <1>0, <2>1, <2>4 DEF Types
  <2>6. \A x \in Bufs \ {c} : valid'[x] = valid[x] /\ dirty'[x] = dirty[x]
    BY <1>0, <2>1 DEF Types
  <2>7. \A x \in Queued : x \in Bufs \ {c}
    BY <1>0, <2>3, InQueue
  <2>8. \A r \in Procs \ {p} : bpc[r] = "io" => mine[r] \in Bufs \ {c}
    BY <1>0, <2>3, Locked
  <2>9. QED
    BY <1>0, <2>4, <2>5, <2>6, <2>7, <2>8, QueueRests DEF Synced
<1>3. ASSUME NEW p \in Procs, NEW write \in BOOLEAN, NEW d \in Values, NEW next \in {"held", "done"},
             Transfer(p, write, d, next)
      PROVE  QueueInv'
  <2>1. PICK c \in Bufs : c = mine[p] /\ bpc[p] = "held"
    BY <1>0, <1>3, Locked DEF Transfer, Locking
  <2>2. /\ UNCHANGED <<owner, mine>> /\ owner[c] = p
        /\ \A x \in Bufs \ {c} : valid'[x] = valid[x] /\ dirty'[x] = dirty[x]
    BY <1>0, <1>3, <2>1, TransferEffect
  <2>3. c \notin Queued
    BY <1>0, <2>1, InQueue DEF Locking
  <2>4. \A r \in Procs \ {p} : bpc[r] \in {"io", "asleep"} => mine[r] \in Bufs \ {c}
    BY <1>0, <2>1, Locked DEF Locking
  <2>5. \A x \in Queued : x \in Bufs \ {c}
    BY <1>0, <2>3, InQueue
  <2>6. CASE MemDisk
    <3>1. idequeue' = idequeue /\ bpc' = [bpc EXCEPT ![p] = next]
      BY <1>0, <1>3, <2>1, <2>6, TransferEffect
    <3>2. bpc'[p] = next /\ \A r \in Procs \ {p} : bpc'[r] = bpc[r]
      BY <1>0, <3>1 DEF Types
    <3>3. QED
      BY <1>0, <2>1, <2>2, <2>4, <2>5, <3>1, <3>2, QueueRests DEF Synced
  <2>7. CASE ~MemDisk
    <3>1. /\ idequeue' = Append(idequeue, c) /\ valid' = valid /\ dirty'[c] = write
          /\ bpc' = [bpc EXCEPT ![p] = "io"]
      BY <1>0, <1>3, <2>1, <2>7, TransferEffect
    <3>2. bpc'[p] = "io" /\ \A r \in Procs \ {p} : bpc'[r] = bpc[r]
      BY <1>0, <3>1 DEF Types
    <3>3. ~(valid'[c] /\ ~dirty'[c])
      BY <1>3, <2>1, <3>1 DEF Transfer
    <3>4. /\ DOMAIN idequeue' = DOMAIN idequeue \cup {Len(idequeue) + 1}
          /\ Len(idequeue) + 1 \notin DOMAIN idequeue
          /\ idequeue'[Len(idequeue) + 1] = c /\ \A i \in DOMAIN idequeue : idequeue'[i] = idequeue[i]
      <4>1. idequeue \in Seq(Bufs) /\ Len(idequeue) \in Nat /\ DOMAIN idequeue = 1..Len(idequeue)
        BY <1>0 DEF Types
      <4>2. /\ DOMAIN Append(idequeue, c) = 1..Len(idequeue) + 1
            /\ \A i \in 1..Len(idequeue) : Append(idequeue, c)[i] = idequeue[i]
            /\ Append(idequeue, c)[Len(idequeue) + 1] = c
        BY <4>1
      <4>3. QED
        BY <3>1, <4>1, <4>2
    <3>5. Queued' = Queued \cup {c}
      BY <3>4 DEF Queued, Range
    <3>6. \A i \in DOMAIN idequeue : idequeue[i] \in Queued
      BY DEF Queued, Range
    <3>7. ASSUME NEW i \in DOMAIN idequeue
          PROVE  LET x == idequeue[i] IN
                   owner'[x] \in Procs /\ bpc'[owner'[x]] \in {"io", "asleep"} /\ ~(valid'[x] /\ ~dirty'[x])
      BY <1>0, <2>2, <2>5, <3>2, <3>6 DEF QueueInv, Synced
    <3>8. \A i \in DOMAIN idequeue' : LET x == idequeue'[i] IN
             owner'[x] \in Procs /\ bpc'[owner'[x]] \in {"io", "asleep"} /\ ~(valid'[x] /\ ~dirty'[x])
      BY <2>2, <3>2, <3>3, <3>4, <3>7
    <3>9. \A i, j \in DOMAIN idequeue' : idequeue'[i] = idequeue'[j] => i = j
      BY <1>0, <2>3, <3>4, <3>6 DEF QueueInv
    <3>10. \A q \in Procs : bpc'[q] = "asleep" => mine'[q] \in Queued'
      BY <1>0, <2>2, <3>2, <3>5 DEF QueueInv
    <3>11. \A q \in Procs : bpc'[q] = "io" => mine'[q] \in Queued' \/ (valid'[mine'[q]] /\ ~dirty'[mine'[q]])
      BY <1>0, <2>1, <2>2, <2>4, <3>2, <3>5 DEF QueueInv, Synced
    <3>12. QED
      BY <2>7, <3>8, <3>9, <3>10, <3>11 DEF QueueInv, Synced
  <2>8. QED
    BY <2>6, <2>7
<1>4. ASSUME NEW p \in Procs, NEW v \in Values, Change(p, v) PROVE QueueInv'
  <2>1. PICK c \in Bufs : c = mine[p] /\ bpc[p] = "held"
    BY <1>0, <1>4, Locked DEF Change
  <2>2. /\ UNCHANGED <<idequeue, owner, mine, valid>> /\ dirty' = [dirty EXCEPT ![c] = TRUE]
        /\ bpc' = [bpc EXCEPT ![p] = "done"]
    BY <1>4, <2>1 DEF Change, Goto, ide
  <2>3. bpc'[p] = "done" /\ \A r \in Procs \ {p} : bpc'[r] = bpc[r]
    BY <1>0, <2>2 DEF Types
  <2>4. \A r \in Procs \ {p} : bpc[r] \in {"io", "asleep"} => mine[r] \in Bufs \ {c}
    BY <1>0, <2>1, Locked DEF Locking
  <2>5. \A x \in Queued : x \in Bufs \ {c}
    BY <1>0, <2>1, InQueue DEF Locking
  <2>6. \A x \in Bufs \ {c} : dirty'[x] = dirty[x]
    BY <1>0, <2>2 DEF Types
  <2>7. QED
    BY <1>0, <2>1, <2>2, <2>3, <2>4, <2>5, <2>6, QueueRests DEF Synced
<1>5. CASE DeviceDone \/ UNCHANGED <<cache, ide, bufs, owner, bpc, job, mine, got, faults>>
  <2>1. UNCHANGED <<idequeue, valid, dirty, owner, bpc, mine>>
    BY <1>5 DEF DeviceDone, ide, bufs
  <2>2. QED
    BY <1>0, <2>1 DEF QueueInv, Synced, Queued
<1>6. CASE Ideintr
  <2>1. PICK c \in Bufs : c = Head(idequeue) /\ c \in Queued /\ c = idequeue[1] /\ 1 \in DOMAIN idequeue
    BY <1>0, <1>6, InQueue DEF Ideintr, Types
  <2>2. /\ idequeue' = Tail(idequeue) /\ idequeue # <<>> /\ UNCHANGED <<owner, mine>>
        /\ valid' = [valid EXCEPT ![c] = TRUE] /\ dirty' = [dirty EXCEPT ![c] = FALSE]
        /\ bpc' = [p \in Procs |-> IF bpc[p] = "asleep" /\ mine[p] = c THEN "io" ELSE bpc[p]]
    BY <1>6, <2>1 DEF Ideintr, Wakeup
  <2>3. /\ valid'[c] /\ ~dirty'[c]
        /\ \A x \in Bufs \ {c} : valid'[x] = valid[x] /\ dirty'[x] = dirty[x]
    BY <1>0, <2>2 DEF Types
  <2>4. /\ \A i \in DOMAIN idequeue' : /\ i + 1 \in DOMAIN idequeue /\ i + 1 # 1 /\ i \in Nat
                                       /\ idequeue'[i] = idequeue[i + 1]
        /\ \A i \in DOMAIN idequeue \ {1} : i - 1 \in DOMAIN idequeue' /\ idequeue'[i - 1] = idequeue[i]
    <3>1. /\ idequeue \in Seq(Bufs) /\ Len(idequeue) \in Nat /\ DOMAIN idequeue = 1..Len(idequeue)
          /\ Len(idequeue) # 0
      BY <1>0, <2>2 DEF Types
    <3>2. /\ DOMAIN Tail(idequeue) = 1..Len(idequeue) - 1
          /\ \A i \in 1..Len(idequeue) - 1 : Tail(idequeue)[i] = idequeue[i + 1]
      BY <2>2, <3>1
    <3>3. QED
      BY <2>2, <3>1, <3>2
  <2>5. Queued' = Queued \ {c}
    <3>1. Queued = {idequeue[i] : i \in DOMAIN idequeue} /\ Queued' = {idequeue'[i] : i \in DOMAIN idequeue'}
      BY DEF Queued, Range
    <3>2. \A x \in Queued' : x \in Queued \ {c}
      BY <1>0, <2>1, <2>4, <3>1 DEF QueueInv
    <3>3. \A x \in Queued \ {c} : x \in Queued'
      BY <2>1, <2>4, <3>1
    <3>4. QED
      BY <3>2, <3>3
  <2>6. ASSUME NEW i \in DOMAIN idequeue'
        PROVE  LET x == idequeue'[i] IN
                 owner'[x] \in Procs /\ bpc'[owner'[x]] \in {"io", "asleep"} /\ ~(valid'[x] /\ ~dirty'[x])
    <3>1. PICK x \in Queued \ {c} : x = idequeue'[i]
      BY <2>5 DEF Queued, Range
    <3>2. /\ x \in Bufs /\ owner[x] \in Procs /\ mine[owner[x]] = x
          /\ bpc[owner[x]] \in {"io", "asleep"} /\ ~Synced(x)
      BY <1>0, <3>1, InQueue
    <3>3. bpc'[owner[x]] = bpc[owner[x]]
      BY <2>2, <3>1, <3>2
    <3>4. QED
      BY <2>2, <2>3, <3>1, <3>2, <3>3 DEF Synced
  <2>7. \A i, j \in DOMAIN idequeue' : idequeue'[i] = idequeue'[j] => i = j
    BY <1>0, <2>4 DEF QueueInv
  <2>8. \A q \in Procs : bpc'[q] = "asleep" => mine'[q] \in Queued'
    BY <1>0, <2>2, <2>5 DEF QueueInv
  <2>9. ASSUME NEW q \in Procs, bpc'[q] = "io"
        PROVE  mine'[q] \in Queued' \/ (valid'[mine'[q]] /\ ~dirty'[mine'[q]])
    <3>1. CASE mine[q] = c
      BY <2>2, <2>3, <3>1
    <3>2. CASE mine[q] # c
      <4>1. bpc[q] = "io"
        BY <2>2, <2>9, <3>2
      <4>2. mine[q] \in Bufs
        BY <1>0, <4>1, Locked
      <4>3. QED
        BY <1>0, <2>2, <2>3, <2>5, <3>2, <4>1, <4>2 DEF QueueInv, Synced
    <3>3. QED
      BY <3>1, <3>2
  <2>10. ~MemDisk
    BY <1>0, <2>2 DEF QueueInv
  <2>11. QED
    BY <2>6, <2>7, <2>8, <2>9, <2>10 DEF QueueInv, Synced
<1>7. QED
  BY <1>0, <1>1, <1>2, <1>3, <1>4, <1>5, <1>6, NextCases

-----------------------------------------------------------------------------
(* The device *)

\* the queue, the device, the disk and the queued buffers stay
LEMMA DevRests ==
  ASSUME Sizes, Types, UseInv, QueueInv, DevInv, UNCHANGED <<idequeue, dev, disk>>,
         \A c \in Queued : blk'[c] = blk[c] /\ dirty'[c] = dirty[c] /\ data'[c] = data[c]
  PROVE  DevInv'
<1>1. idequeue # <<>> => Head(idequeue) \in Queued
  BY InQueue
<1>2. QED
  BY <1>1 DEF DevInv

LEMMA DevStep ==
  ASSUME Sizes, IInv, [Next]_dvars
  PROVE  DevInv'
<1>0. Types /\ UseInv /\ QueueInv /\ DevInv /\ DataInv
  BY DEF IInv
<1>1. ASSUME NEW p \in Procs, Quiet(p) PROVE DevInv'
  <2>1. UNCHANGED <<idequeue, dev, disk, blk, dirty, data>>
    BY <1>1 DEF Quiet, AcquireBuf, KillSleeper, IoWait, IoDone, Look, ReleaseBuf, Brelse, Hit, NoBuffers,
                cache, ide, bufs
  <2>2. QED
    BY <1>0, <2>1, DevRests
<1>2. ASSUME NEW p \in Procs, NEW o \in Ops, NEW b \in Blocks, Recycle(p, o, b) PROVE DevInv'
  <2>1. PICK c \in Bufs :
          /\ refcnt[c] = 0 /\ blk' = [blk EXCEPT ![c] = b]
          /\ dirty' = [dirty EXCEPT ![c] = FALSE]
    BY <1>2 DEF Recycle, Recycled, Unused
  <2>2. Users(c) = {}
    BY <1>0, <2>1, FS_Subset, FS_EmptySet DEF Users, Sizes, UseInv
  <2>3. c \notin Queued
    BY <1>0, <2>2, InQueue DEF Users
  <2>4. UNCHANGED <<idequeue, dev, disk, data>>
    BY <1>2 DEF Recycle, ide
  <2>5. \A x \in Queued : blk'[x] = blk[x] /\ dirty'[x] = dirty[x] /\ data'[x] = data[x]
    BY <1>0, <2>1, <2>3, <2>4, InQueue DEF Types
  <2>6. QED
    BY <1>0, <2>4, <2>5, DevRests
<1>3. ASSUME NEW p \in Procs, NEW write \in BOOLEAN, NEW d \in Values, NEW next \in {"held", "done"},
             Transfer(p, write, d, next)
      PROVE  DevInv'
  <2>1. PICK c \in Bufs : c = mine[p] /\ bpc[p] = "held"
    BY <1>0, <1>3, Locked DEF Transfer, Locking
  <2>2. /\ blk' = blk
        /\ \A x \in Bufs \ {c} : dirty'[x] = dirty[x] /\ data'[x] = data[x]
    BY <1>0, <1>3, <2>1, TransferEffect
  <2>3. c \notin Queued /\ \A x \in Queued : x \in Bufs \ {c}
    BY <1>0, <2>1, InQueue DEF Locking
  <2>4. CASE MemDisk
    <3>1. idequeue' = idequeue /\ dev' = dev
      BY <1>0, <1>3, <2>1, <2>4, TransferEffect
    <3>2. idequeue = <<>> /\ dev.state = "off"
      BY <1>0, <2>4 DEF QueueInv, DevInv
    <3>3. QED
      BY <1>0, <3>1, <3>2 DEF DevInv
  <2>5. CASE ~MemDisk
    <3>1. /\ idequeue' = Append(idequeue, c) /\ dirty'[c] = write /\ data'[c] = d /\ disk' = disk
          /\ dev' = IF idequeue = <<>>
                    THEN [state |-> "busy", buf |-> c, block |-> blk[c], write |-> write, data |-> d]
                    ELSE dev
      BY <1>0, <1>3, <2>1, <2>5, TransferEffect
    <3>2. idequeue' # <<>>
      <4>1. idequeue \in Seq(Bufs) /\ Len(idequeue) \in Nat
        BY <1>0 DEF Types
      <4>2. Len(Append(idequeue, c)) = Len(idequeue) + 1
        BY <4>1
      <4>3. Len(idequeue') # 0
        BY <3>1, <4>1, <4>2
      <4>4. QED
        BY <4>3
    <3>3. CASE idequeue = <<>>
      <4>1. Head(idequeue') = c
        BY <3>1, <3>3
      <4>2. /\ dev'.state = "busy" /\ dev'.buf = c /\ dev'.block = blk[c] /\ dev'.write = write
            /\ dev'.data = d
            /\ dev' = [state |-> dev'.state, buf |-> dev'.buf, block |-> dev'.block,
                       write |-> dev'.write, data |-> dev'.data]
        BY <3>1, <3>3
      <4>3. QED
        BY <2>2, <3>1, <3>2, <4>1, <4>2 DEF DevInv
    <3>4. CASE idequeue # <<>>
      <4>1. dev' = dev
        BY <3>1, <3>4
      <4>2. Head(idequeue') = Head(idequeue) /\ Head(idequeue) \in Bufs \ {c}
        <5>1. idequeue \in Seq(Bufs) /\ Len(idequeue) \in Nat /\ Len(idequeue) # 0
          BY <1>0, <3>4 DEF Types
        <5>2. Append(idequeue, c)[1] = idequeue[1] /\ Head(idequeue) = idequeue[1]
          BY <5>1
        <5>3. Head(Append(idequeue, c)) = Append(idequeue, c)[1]
          BY <5>1
        <5>4. Head(idequeue) \in Queued
          BY <1>0, <3>4, InQueue
        <5>5. QED
          BY <2>3, <3>1, <5>2, <5>3, <5>4
      <4>3. dev.buf = Head(idequeue)
        BY <1>0, <3>4 DEF DevInv
      <4>4. dirty'[dev.buf] = dirty[dev.buf] /\ data'[dev.buf] = data[dev.buf]
        BY <2>2, <4>2, <4>3
      <4>5. QED
        BY <1>0, <2>2, <3>1, <3>2, <3>4, <4>1, <4>2, <4>3, <4>4 DEF DevInv
    <3>5. QED
      BY <3>3, <3>4
  <2>6. QED
    BY <2>4, <2>5
<1>4. ASSUME NEW p \in Procs, NEW v \in Values, Change(p, v) PROVE DevInv'
  <2>1. PICK c \in Bufs : c = mine[p] /\ bpc[p] = "held"
    BY <1>0, <1>4, Locked DEF Change
  <2>2. /\ UNCHANGED <<idequeue, dev, disk, blk>> /\ dirty' = [dirty EXCEPT ![c] = TRUE]
        /\ data' = [data EXCEPT ![c] = v]
    BY <1>4, <2>1 DEF Change, ide, cache
  <2>3. \A x \in Queued : x \in Bufs \ {c}
    BY <1>0, <2>1, InQueue DEF Locking
  <2>4. \A x \in Bufs \ {c} : dirty'[x] = dirty[x] /\ data'[x] = data[x]
    BY <1>0, <2>2 DEF Types
  <2>5. QED
    BY <1>0, <2>2, <2>3, <2>4, DevRests
<1>5. CASE DeviceDone
  <2>1. /\ dev.state = "busy" /\ UNCHANGED <<idequeue, blk, dirty, data>>
        /\ disk' = IF dev.write THEN [disk EXCEPT ![dev.block] = dev.data] ELSE disk
    BY <1>5 DEF DeviceDone, cache, bufs
  <2>2. idequeue # <<>>
    BY <1>0, <2>1 DEF DevInv
  <2>3. /\ dev.buf = Head(idequeue) /\ dev.block = blk[dev.buf] /\ dev.write = dirty[dev.buf]
        /\ dev.write => dev.data = data[dev.buf]
    BY <1>0, <2>2 DEF DevInv
  <2>4. dev.block \in Blocks
    BY <1>0, <2>2, <2>3, InQueue
  <2>5. \E s \in {"done", "error"} : \E d :
          /\ dev' = [state |-> s, buf |-> dev.buf, block |-> dev.block, write |-> dev.write, data |-> d]
          /\ s = "done" => d = IF dev.write THEN dev.data ELSE disk[dev.block]
          /\ s = "error" => ~dev.write
    <3>1. dev = [state |-> dev.state, buf |-> dev.buf, block |-> dev.block, write |-> dev.write, data |-> dev.data]
      BY <1>0 DEF DevInv
    <3>2. CASE dev' = [dev EXCEPT !.state = "done", !.data = IF dev.write THEN @ ELSE disk[dev.block]]
      <4>1. PICK d : d = IF dev.write THEN dev.data ELSE disk[dev.block]
        OBVIOUS
      <4>2. dev' = [dev EXCEPT !.state = "done", !.data = d]
        BY <3>2, <4>1
      <4>3. dev' = [state |-> "done", buf |-> dev.buf, block |-> dev.block, write |-> dev.write, data |-> d]
        BY <3>1, <4>2
      <4>4. QED
        BY <4>1, <4>3
    <3>3. CASE dev' = [dev EXCEPT !.state = "error"] /\ ~dev.write
      <4>1. dev' = [state |-> "error", buf |-> dev.buf, block |-> dev.block, write |-> dev.write,
                    data |-> dev.data]
        BY <3>1, <3>3
      <4>2. QED
        BY <3>3, <4>1
    <3>4. QED
      BY <1>5, <3>2, <3>3 DEF DeviceDone
  <2>5a. PICK s \in {"done", "error"} : \E d :
          /\ dev' = [state |-> s, buf |-> dev.buf, block |-> dev.block, write |-> dev.write, data |-> d]
          /\ s = "done" => d = IF dev.write THEN dev.data ELSE disk[dev.block]
          /\ s = "error" => ~dev.write
    BY <2>5
  <2>6. PICK d :
          /\ dev' = [state |-> s, buf |-> dev.buf, block |-> dev.block, write |-> dev.write, data |-> d]
          /\ s = "done" => d = IF dev.write THEN dev.data ELSE disk[dev.block]
          /\ s = "error" => ~dev.write
    BY <2>5a
  <2>7. /\ dev'.state = s /\ dev'.buf = dev.buf /\ dev'.block = dev.block /\ dev'.write = dev.write
        /\ dev'.data = d
        /\ dev' = [state |-> dev'.state, buf |-> dev'.buf, block |-> dev'.block,
                   write |-> dev'.write, data |-> dev'.data]
    BY <2>6
  <2>8. s = "done" => disk'[dev.block] = d
    <3>1. CASE dev.write
      BY <1>0, <2>1, <2>4, <2>6, <3>1 DEF Types
    <3>2. CASE ~dev.write
      BY <2>1, <2>6, <3>2
    <3>3. QED
      BY <3>1, <3>2
  <2>9. dev.write => s = "done" /\ d = dev.data
    BY <2>6
  <2>10. QED
    BY <2>1, <2>2, <2>3, <2>7, <2>8, <2>9 DEF DevInv
<1>6. CASE Ideintr
  <2>1. PICK c \in Bufs : c = Head(idequeue)
    BY <1>0, <1>6, InQueue DEF Ideintr
  <2>2. /\ idequeue # <<>> /\ idequeue' = Tail(idequeue) /\ blk' = blk
        /\ dev' = NextRequest
        /\ data' = data \/ \E x : data' = [data EXCEPT ![c] = x]
        /\ dirty' = [dirty EXCEPT ![c] = FALSE]
    BY <1>6, <2>1 DEF Ideintr, cache
  <2>3. \A x \in Bufs \ {c} : dirty'[x] = dirty[x] /\ data'[x] = data[x]
    BY <1>0, <2>2 DEF Types
  <2>4. idequeue \in Seq(Bufs) /\ Len(idequeue) \in Nat /\ Len(idequeue) # 0 /\ idequeue[1] = c
    BY <1>0, <2>1, <2>2 DEF Types
  <2>5. CASE Len(idequeue) > 1
    <3>1. PICK n \in Bufs : n = idequeue[2]
      BY <2>4, <2>5
    <3>2. n # c
      <4>1. 1 \in DOMAIN idequeue /\ 2 \in DOMAIN idequeue
        BY <2>4, <2>5
      <4>2. QED
        BY <1>0, <2>4, <3>1, <4>1 DEF QueueInv
    <3>3. idequeue' # <<>> /\ Head(idequeue') = n
      <4>1. /\ Tail(idequeue) \in Seq(Bufs) /\ Len(Tail(idequeue)) = Len(idequeue) - 1
            /\ Len(Tail(idequeue)) # 0
        BY <2>2, <2>4, <2>5
      <4>2. Tail(idequeue)[1] = n
        BY <2>2, <2>4, <2>5, <3>1
      <4>3. Tail(idequeue) # <<>> /\ Head(Tail(idequeue)) = Tail(idequeue)[1]
        <5>1. \A t \in Seq(Bufs) : Len(t) # 0 => t # <<>> /\ Head(t) = t[1]
          OBVIOUS
        <5>2. QED
          BY <4>1, <5>1
      <4>4. QED
        BY <2>2, <4>2, <4>3
    <3>4. dev' = [state |-> "busy", buf |-> n, block |-> blk[n], write |-> dirty[n], data |-> data[n]]
      BY <2>2, <2>5, <3>1 DEF NextRequest, Request
    <3>5. /\ dev'.state = "busy" /\ dev'.buf = n /\ dev'.block = blk[n] /\ dev'.write = dirty[n]
          /\ dev'.data = data[n]
          /\ dev' = [state |-> dev'.state, buf |-> dev'.buf, block |-> dev'.block,
                     write |-> dev'.write, data |-> dev'.data]
      BY <3>4
    <3>6. dirty'[n] = dirty[n] /\ data'[n] = data[n] /\ blk'[n] = blk[n]
      BY <2>2, <2>3, <3>2
    <3>7. QED
      BY <3>3, <3>5, <3>6 DEF DevInv
  <2>6. CASE ~(Len(idequeue) > 1)
    <3>1. idequeue' = <<>>
      BY <2>2, <2>4, <2>6
    <3>2. dev' = Off
      BY <2>2, <2>6 DEF NextRequest
    <3>3. /\ dev'.state = "off"
          /\ dev' = [state |-> dev'.state, buf |-> dev'.buf, block |-> dev'.block,
                     write |-> dev'.write, data |-> dev'.data]
      BY <3>2 DEF Off
    <3>4. QED
      BY <3>1, <3>3 DEF DevInv
  <2>7. QED
    BY <2>5, <2>6
<1>7. CASE UNCHANGED <<cache, ide, bufs, owner, bpc, job, mine, got, faults>>
  BY <1>0, <1>7 DEF DevInv, cache, ide, bufs
<1>8. QED
  BY <1>0, <1>1, <1>2, <1>3, <1>4, <1>5, <1>6, <1>7, NextCases

-----------------------------------------------------------------------------
(* The contents *)

LEMMA DataStep ==
  ASSUME Sizes, IInv, [Next]_dvars
  PROVE  DataInv'
<1>0. Types /\ UseInv /\ QueueInv /\ DevInv /\ DataInv
  BY DEF IInv
<1>1. ASSUME UNCHANGED <<idequeue, disk, blk, valid, dirty, data, pinned, failed>> PROVE DataInv'
  BY <1>0, <1>1 DEF DataInv, Queued
<1>2. ASSUME NEW p \in Procs, Quiet(p) PROVE DataInv'
  BY <1>1, <1>2 DEF Quiet, AcquireBuf, KillSleeper, IoWait, IoDone, Look, ReleaseBuf, Brelse, Hit,
                    NoBuffers, cache, ide, bufs, faults
<1>3. ASSUME NEW p \in Procs, NEW o \in Ops, NEW b \in Blocks, Recycle(p, o, b) PROVE DataInv'
  <2>1. PICK c \in Bufs :
          /\ refcnt[c] = 0 /\ blk' = [blk EXCEPT ![c] = b]
          /\ valid' = [valid EXCEPT ![c] = FALSE] /\ dirty' = [dirty EXCEPT ![c] = FALSE]
    BY <1>3 DEF Recycle, Recycled, Unused
  <2>2. UNCHANGED <<idequeue, disk, data, pinned, failed>>
    BY <1>3 DEF Recycle, ide, faults
  <2>3. /\ ~valid'[c] /\ ~dirty'[c]
        /\ \A x \in Bufs \ {c} : blk'[x] = blk[x] /\ valid'[x] = valid[x] /\ dirty'[x] = dirty[x]
    BY <1>0, <2>1 DEF Types
  <2>4. QED
    BY <1>0, <2>2, <2>3 DEF DataInv, Queued
<1>4. ASSUME NEW p \in Procs, NEW write \in BOOLEAN, NEW d \in Values, NEW next \in {"held", "done"},
             Transfer(p, write, d, next)
      PROVE  DataInv'
  <2>1. PICK c \in Bufs : c = mine[p] /\ bpc[p] = "held"
    BY <1>0, <1>4, Locked DEF Transfer, Locking
  <2>2. /\ blk' = blk /\ blk[c] \in Blocks
        /\ \A x \in Bufs \ {c} : valid'[x] = valid[x] /\ dirty'[x] = dirty[x] /\ data'[x] = data[x]
    BY <1>0, <1>4, <2>1, TransferEffect
  <2>3. c \notin Queued
    BY <1>0, <2>1, InQueue DEF Locking
  <2>4. \A x \in Bufs \ {c} : blk[x] = NoBlock \/ blk[x] # blk[c]
    BY <1>0 DEF UseInv
  <2>5. /\ \A x \in Bufs \ {c} : valid'[x] \/ dirty'[x] => blk'[x] # NoBlock
        /\ blk'[c] # NoBlock
    BY <1>0, <2>2 DEF DataInv, Sizes
  <2>6. pinned \ {blk[c]} \subseteq pinned' /\ failed \ {blk[c]} \subseteq failed'
    BY <1>4, <2>1 DEF Transfer
  <2>7. CASE MemDisk
    <3>1. /\ idequeue' = idequeue
          /\ disk' = IF write THEN [disk EXCEPT ![blk[c]] = d] ELSE disk
          /\ ~dirty'[c] /\ valid'[c] /\ data'[c] = IF write THEN d ELSE disk[blk[c]]
      BY <1>0, <1>4, <2>1, <2>7, TransferEffect
    <3>2. data'[c] = disk'[blk[c]] /\ \A b \in Blocks \ {blk[c]} : disk'[b] = disk[b]
      BY <1>0, <2>2, <3>1 DEF Types
    <3>3. ASSUME NEW x \in Bufs \ {c}, dirty'[x]
          PROVE  x \in Queued' \/ (valid'[x] /\ blk'[x] \in pinned')
      <4>1. dirty[x] /\ valid'[x] = valid[x] /\ blk[x] # blk[c]
        BY <2>2, <2>4, <2>5, <3>3
      <4>2. x \in Queued \/ (valid[x] /\ blk[x] \in pinned)
        BY <1>0, <4>1 DEF DataInv
      <4>3. QED
        BY <2>2, <2>6, <3>1, <4>1, <4>2 DEF Queued
    <3>4. ASSUME NEW x \in Bufs \ {c}, valid'[x], ~dirty'[x], blk'[x] \notin failed'
          PROVE  data'[x] = disk'[blk'[x]]
      <4>1. valid[x] /\ ~dirty[x] /\ blk[x] # blk[c] /\ blk[x] \notin failed /\ blk[x] \in Blocks
        BY <1>0, <2>2, <2>4, <2>5, <2>6, <3>4 DEF Types
      <4>2. QED
        BY <1>0, <2>2, <3>2, <4>1 DEF DataInv
    <3>5. QED
      BY <2>2, <2>5, <3>1, <3>2, <3>3, <3>4 DEF DataInv
  <2>8. CASE ~MemDisk
    <3>1. /\ idequeue' = Append(idequeue, c) /\ disk' = disk /\ valid' = valid /\ dirty'[c] = write
      BY <1>0, <1>4, <2>1, <2>8, TransferEffect
    <3>2. Queued' = Queued \cup {c}
      <4>1. idequeue \in Seq(Bufs) /\ Len(idequeue) \in Nat /\ DOMAIN idequeue = 1..Len(idequeue)
        BY <1>0 DEF Types
      <4>2. /\ DOMAIN Append(idequeue, c) = 1..Len(idequeue) + 1
            /\ \A i \in 1..Len(idequeue) : Append(idequeue, c)[i] = idequeue[i]
            /\ Append(idequeue, c)[Len(idequeue) + 1] = c
        BY <4>1
      <4>3. QED
        BY <3>1, <4>1, <4>2 DEF Queued, Range
    <3>3. ASSUME NEW x \in Bufs \ {c}, dirty'[x]
          PROVE  x \in Queued' \/ (valid'[x] /\ blk'[x] \in pinned')
      <4>1. dirty[x] /\ valid'[x] = valid[x] /\ blk[x] # blk[c]
        BY <2>2, <2>4, <2>5, <3>3
      <4>2. x \in Queued \/ (valid[x] /\ blk[x] \in pinned)
        BY <1>0, <4>1 DEF DataInv
      <4>3. QED
        BY <2>2, <2>6, <3>2, <4>1, <4>2
    <3>4. ASSUME NEW x \in Bufs \ {c}, valid'[x], ~dirty'[x], blk'[x] \notin failed'
          PROVE  data'[x] = disk'[blk'[x]]
      <4>1. valid[x] /\ ~dirty[x] /\ blk[x] # blk[c] /\ blk[x] \notin failed
        BY <1>0, <2>2, <2>4, <2>5, <2>6, <3>4 DEF Types
      <4>2. QED
        BY <1>0, <2>2, <3>1, <4>1 DEF DataInv
    <3>5. ~(valid'[c] /\ ~dirty'[c])
      BY <1>4, <2>1, <3>1 DEF Transfer
    <3>6. QED
      BY <2>2, <2>5, <3>2, <3>3, <3>4, <3>5 DEF DataInv
  <2>9. QED
    BY <2>7, <2>8
<1>5. ASSUME NEW p \in Procs, NEW v \in Values, Change(p, v) PROVE DataInv'
  <2>1. PICK c \in Bufs : c = mine[p] /\ blk[c] \in Blocks /\ blk[c] # NoBlock
    BY <1>0, <1>5, Locked DEF Change
  <2>2. /\ UNCHANGED <<idequeue, disk, blk, valid>> /\ valid[c]
        /\ dirty' = [dirty EXCEPT ![c] = TRUE] /\ data' = [data EXCEPT ![c] = v]
        /\ pinned' = pinned \cup {blk[c]} /\ failed' = failed \ {blk[c]}
    BY <1>5, <2>1 DEF Change, Fetched, ide, cache
  <2>3. dirty'[c] /\ \A x \in Bufs \ {c} : dirty'[x] = dirty[x] /\ data'[x] = data[x]
    BY <1>0, <2>2 DEF Types
  <2>4. \A x \in Bufs \ {c} : blk[x] # blk[c]
    BY <1>0, <2>1 DEF UseInv
  <2>5. QED
    BY <1>0, <2>1, <2>2, <2>3, <2>4 DEF DataInv, Queued
<1>6. CASE DeviceDone
  <2>1. /\ dev.state = "busy" /\ UNCHANGED <<idequeue, blk, valid, dirty, data, pinned, failed>>
        /\ disk' = IF dev.write THEN [disk EXCEPT ![dev.block] = dev.data] ELSE disk
    BY <1>6 DEF DeviceDone, cache, bufs
  <2>2. idequeue # <<>>
    BY <1>0, <2>1 DEF DevInv
  <2>3. PICK c \in Bufs : c = dev.buf /\ dev.block = blk[c] /\ dev.write = dirty[c] /\ blk[c] \in Blocks
    BY <1>0, <2>2, InQueue DEF DevInv
  <2>4. ASSUME NEW x \in Bufs, valid[x], ~dirty[x], blk[x] \notin failed
        PROVE  data[x] = disk'[blk[x]]
    <3>1. data[x] = disk[blk[x]] /\ blk[x] # NoBlock
      BY <1>0, <2>4 DEF DataInv
    <3>2. CASE dev.write
      <4>0. dirty[c]
        BY <2>3, <3>2
      <4>1. blk[x] # blk[c] /\ blk[x] \in Blocks
        BY <1>0, <2>4, <3>1, <4>0 DEF UseInv, Types
      <4>2. QED
        BY <1>0, <2>1, <2>3, <3>1, <3>2, <4>1 DEF Types
    <3>3. CASE ~dev.write
      BY <2>1, <3>1, <3>3
    <3>4. QED
      BY <3>2, <3>3
  <2>5. QED
    BY <1>0, <2>1, <2>4 DEF DataInv, Queued
<1>7. CASE Ideintr
  <2>0. idequeue # <<>>
    BY <1>7 DEF Ideintr
  <2>1. PICK c \in Bufs : c = Head(idequeue) /\ c = idequeue[1] /\ blk[c] \in Blocks
    <3>1. Head(idequeue) \in Bufs /\ blk[Head(idequeue)] \in Blocks
      BY <1>0, <2>0, InQueue
    <3>2. Head(idequeue) = idequeue[1]
      BY <1>0, <2>0 DEF Types
    <3>3. QED
      BY <3>1, <3>2
  <2>2. /\ idequeue # <<>> /\ idequeue' = Tail(idequeue) /\ dev.state \in {"done", "error"}
        /\ UNCHANGED <<blk, disk, pinned>>
        /\ data' = IF ~dirty[c] /\ dev.state = "done" THEN [data EXCEPT ![c] = dev.data] ELSE data
        /\ failed' = IF ~dirty[c] /\ dev.state = "error" THEN failed \cup {blk[c]} ELSE failed
        /\ valid' = [valid EXCEPT ![c] = TRUE] /\ dirty' = [dirty EXCEPT ![c] = FALSE]
    BY <1>7, <2>1 DEF Ideintr, cache
  <2>3. /\ valid'[c] /\ ~dirty'[c]
        /\ \A x \in Bufs \ {c} : valid'[x] = valid[x] /\ dirty'[x] = dirty[x] /\ data'[x] = data[x]
    BY <1>0, <2>2 DEF Types
  <2>4. \A x \in Queued \ {c} : x \in Queued'
    <3>1. /\ idequeue \in Seq(Bufs) /\ Len(idequeue) \in Nat /\ DOMAIN idequeue = 1..Len(idequeue)
          /\ Len(idequeue) # 0
      BY <1>0, <2>2 DEF Types
    <3>2. /\ DOMAIN Tail(idequeue) = 1..Len(idequeue) - 1
          /\ \A i \in 1..Len(idequeue) - 1 : Tail(idequeue)[i] = idequeue[i + 1]
      BY <2>2, <3>1
    <3>3. \A i \in DOMAIN idequeue \ {1} :
            i - 1 \in DOMAIN idequeue' /\ idequeue'[i - 1] = idequeue[i]
      BY <2>2, <3>1, <3>2
    <3>4. Queued = {idequeue[i] : i \in DOMAIN idequeue} /\ Queued' = {idequeue'[i] : i \in DOMAIN idequeue'}
      BY DEF Queued, Range
    <3>5. QED
      BY <2>1, <3>3, <3>4
  <2>5. dev.buf = c /\ dev.block = blk[c] /\ dev.write = dirty[c]
    BY <1>0, <2>1, <2>2 DEF DevInv
  <2>6. blk[c] \notin failed' => data'[c] = disk[blk[c]]
    <3>1. CASE dirty[c]
      <4>1. dev.state = "done" /\ dev.data = data[c] /\ disk[dev.block] = dev.data
        BY <1>0, <2>2, <2>5, <3>1 DEF DevInv
      <4>2. QED
        BY <2>2, <2>5, <3>1, <4>1
    <3>2. CASE ~dirty[c] /\ dev.state = "done"
      <4>1. disk[dev.block] = dev.data
        BY <1>0, <3>2 DEF DevInv
      <4>2. data'[c] = dev.data
        BY <1>0, <2>2, <3>2 DEF Types
      <4>3. QED
        BY <2>5, <4>1, <4>2
    <3>3. CASE ~dirty[c] /\ dev.state = "error"
      BY <2>2, <3>3
    <3>4. QED
      BY <2>2, <3>1, <3>2, <3>3
  <2>7. failed \subseteq failed'
    BY <2>2
  <2>8. \A x \in Bufs : dirty'[x] => x \in Queued' \/ (valid'[x] /\ blk'[x] \in pinned')
    BY <1>0, <2>2, <2>3, <2>4 DEF DataInv
  <2>9. \A x \in Bufs : valid'[x] \/ dirty'[x] => blk'[x] # NoBlock
    BY <1>0, <2>1, <2>2, <2>3 DEF DataInv, Sizes
  <2>10. \A x \in Bufs : valid'[x] /\ ~dirty'[x] /\ blk'[x] \notin failed' => data'[x] = disk'[blk'[x]]
    BY <1>0, <2>2, <2>3, <2>6, <2>7 DEF DataInv
  <2>11. QED
    BY <2>8, <2>9, <2>10 DEF DataInv
<1>8. CASE UNCHANGED <<cache, ide, bufs, owner, bpc, job, mine, got, faults>>
  BY <1>1, <1>8 DEF cache, ide, bufs, faults
<1>9. QED
  BY <1>0, <1>2, <1>3, <1>4, <1>5, <1>6, <1>7, <1>8, NextCases

-----------------------------------------------------------------------------
(* The invariant *)

LEMMA InitInv ==
  ASSUME Sizes, Init
  PROVE  IInv
<1>1. Types
  <2>1. \A i \in Bufs : NBUF + 1 - i \in Bufs
    BY DEF Bufs, Sizes
  <2>2. lru \in [Bufs -> Bufs]
    BY <2>1 DEF Init
  <2>3. ASSUME NEW c \in Bufs PROVE \E i \in Bufs : lru[i] = c
    <3>1. NBUF + 1 - (NBUF + 1 - c) = c
      BY DEF Bufs, Sizes
    <3>2. QED
      BY <2>1, <3>1 DEF Init
  <2>4. /\ blk \in [Bufs -> Blocks \cup {NoBlock}] /\ owner \in [Bufs -> Procs \cup {NoProc}]
        /\ valid \in [Bufs -> BOOLEAN] /\ dirty \in [Bufs -> BOOLEAN]
        /\ refcnt \in [Bufs -> Nat] /\ data \in [Bufs -> Values]
    BY DEF Init, Sizes
  <2>5. /\ idequeue \in Seq(Bufs) /\ disk \in [Blocks -> Values]
        /\ bpc \in [Procs -> BPcs] /\ mine \in [Procs -> Bufs \cup {NoBuf}]
        /\ DOMAIN job = Procs /\ DOMAIN got = Procs
        /\ pinned \subseteq Blocks /\ failed \subseteq Blocks /\ nfail \in 0..MaxFail
    BY DEF Init, Sizes, BPcs
  <2>6. QED
    BY <2>2, <2>3, <2>4, <2>5 DEF Types
<1>2. UseInv
  <2>1. \A c \in Bufs : Users(c) = {}
    BY DEF Init, Users, Sizes
  <2>2. QED
    BY <2>1, FS_EmptySet DEF Init, UseInv, Locking
<1>3. QueueInv
  BY DEF Init, QueueInv
<1>4. DevInv
  BY DEF Init, DevInv, Off
<1>5. DataInv
  BY DEF Init, DataInv
<1>6. QED
  BY <1>1, <1>2, <1>3, <1>4, <1>5 DEF IInv

LEMMA NextInv ==
  Sizes /\ IInv /\ [Next]_dvars => IInv'
BY TypesStep, UseStep, QueueStep, DevStep, DataStep DEF IInv

\* The invariant holds in every state that is reached.
THEOREM Inductive ==
  ASSUME Sizes
  PROVE  Spec => []IInv
BY InitInv, NextInv, PTL DEF Spec

-----------------------------------------------------------------------------
(* What the invariant implies *)

LEMMA BuffersTyped ==
  ASSUME Sizes, IInv
  PROVE  TypeOK
<1>0. Types /\ UseInv
  BY DEF IInv
<1>1. \A c \in Bufs : Cardinality(Users(c)) \in 0..Cardinality(Procs)
  <2>1. TAKE c \in Bufs
  <2>2. /\ IsFiniteSet(Procs) /\ Users(c) \subseteq Procs
    BY DEF Users, Sizes
  <2>3. IsFiniteSet(Users(c)) /\ Cardinality(Users(c)) <= Cardinality(Procs)
    BY <2>2, FS_Subset
  <2>4. Cardinality(Users(c)) \in Nat /\ Cardinality(Procs) \in Nat
    BY <2>2, <2>3, FS_CardinalityType
  <2>5. QED
    BY <2>3, <2>4
<1>2. refcnt \in [Bufs -> 0..Cardinality(Procs)]
  BY <1>0, <1>1 DEF Types, UseInv
<1>3. Len(lru) = NBUF /\ Range(lru) = Bufs
  <2>1. lru \in [1..NBUF -> Bufs] /\ NBUF \in Nat
    BY <1>0 DEF Types, Bufs, Sizes
  <2>2. lru \in Seq(Bufs) /\ Len(lru) = NBUF
    BY <2>1
  <2>3. QED
    BY <1>0, <2>1, <2>2 DEF Range, Types, Bufs
<1>4. Range(idequeue) \subseteq Bufs
  BY <1>0 DEF Range, Types
<1>5. QED
  BY <1>0, <1>2, <1>3, <1>4 DEF Types, TypeOK

LEMMA BufferFound ==
  ASSUME Sizes, IInv
  PROVE  BufferWhenRoom
<1>0. Types /\ UseInv /\ QueueInv /\ DataInv
  BY DEF IInv
<1>1. ASSUME NEW c \in Bufs, ~Unused(c)
      PROVE  blk[c] \in pinned \/ \E p \in Procs : mine[p] = c
  <2>1. CASE refcnt[c] # 0
    <3>1. Users(c) # {}
      BY <1>0, <2>1, FS_EmptySet DEF UseInv
    <3>2. QED
      BY <3>1 DEF Users
  <2>2. CASE dirty[c]
    BY <1>0, <2>2, InQueue DEF DataInv
  <2>3. QED
    BY <1>1, <2>1, <2>2 DEF Unused
<1>2. QED
  BY <1>1 DEF BufferWhenRoom

LEMMA OneBuffer ==
  ASSUME Sizes, IInv
  PROVE  OneBufferPerBlock
<1>0. UseInv
  BY DEF IInv
<1>1. ASSUME NEW b \in Blocks PROVE Cardinality(Cached(b)) <= 1
  <2>1. CASE Cached(b) = {}
    BY <2>1, FS_EmptySet
  <2>2. CASE Cached(b) # {}
    <3>1. PICK c \in Cached(b) : TRUE
      BY <2>2
    <3>2. b # NoBlock
      BY DEF Sizes
    <3>3. Cached(b) = {c}
      BY <1>0, <3>1, <3>2 DEF Cached, UseInv
    <3>4. Cardinality(Cached(b)) = 1
      BY <3>3, FS_Singleton
    <3>5. QED
      BY <3>4
  <2>3. QED
    BY <2>1, <2>2
<1>2. \A c \in Bufs : refcnt[c] = Cardinality({p \in Procs : mine[p] = c})
  BY <1>0 DEF UseInv, Users
<1>3. QED
  BY <1>1, <1>2 DEF OneBufferPerBlock

LEMMA QueueRight ==
  ASSUME Sizes, IInv
  PROVE  QueueInOrder /\ SleepersQueued
<1>0. Types /\ UseInv /\ QueueInv /\ DevInv
  BY DEF IInv
<1>1. ASSUME NEW i \in DOMAIN idequeue
      PROVE  \E p \in Procs :
               /\ mine[p] = idequeue[i] /\ owner[mine[p]] = p /\ bpc[p] \in {"io", "asleep"}
               /\ \A j \in DOMAIN idequeue : idequeue[j] = idequeue[i] => j = i
  <2>1. idequeue[i] \in Queued
    BY DEF Queued, Range
  <2>2. PICK p \in Procs : p = owner[idequeue[i]] /\ mine[p] = idequeue[i] /\ bpc[p] \in {"io", "asleep"}
    BY <1>0, <2>1, InQueue
  <2>3. \A j \in DOMAIN idequeue : idequeue[j] = idequeue[i] => j = i
    BY <1>0 DEF QueueInv
  <2>4. QED
    BY <2>2, <2>3
<1>2. QueueInOrder
  BY <1>0, <1>1 DEF QueueInOrder, DevInv
<1>3. ASSUME NEW p \in Procs, bpc[p] = "asleep"
      PROVE  mine[p] \in Range(idequeue) /\ dev.state # "off"
  <2>1. mine[p] \in Range(idequeue)
    BY <1>0, <1>3 DEF QueueInv, Queued
  <2>2. idequeue # <<>>
    BY <2>1 DEF Range
  <2>3. QED
    BY <1>0, <2>1, <2>2 DEF DevInv
<1>4. QED
  BY <1>2, <1>3 DEF SleepersQueued

\* In every state: the buffers are what bio.c takes them for, one per block, each with a
\* count of its users; bget finds no buffer only when all are in use or pinned; the
\* device works on the head of the queue, and every sleeper of iderw waits for a request
\* that is in it.
THEOREM Safety ==
  ASSUME Sizes
  PROVE  Spec => [](TypeOK /\ BufferWhenRoom /\ OneBufferPerBlock /\ QueueInOrder /\ SleepersQueued)
<1>1. Sizes /\ IInv => TypeOK /\ BufferWhenRoom /\ OneBufferPerBlock /\ QueueInOrder /\ SleepersQueued
  BY BuffersTyped, BufferFound, OneBuffer, QueueRight
<1>2. QED
  BY <1>1, Inductive, PTL

-----------------------------------------------------------------------------
(* The store of blocks *)

\* a block reads as its buffer once that is filled or changed, else as the disk
ContentShown ==
  /\ DOMAIN Content = Blocks
  /\ \A b \in Blocks : b \in failed => Content[b] = 0
  /\ \A c \in Bufs : blk[c] \in Blocks \ failed /\ (valid[c] \/ dirty[c]) => Content[blk[c]] = data[c]
  /\ \A b \in Blocks \ failed :
       (\A c \in Bufs : blk[c] = b => ~valid[c] /\ ~dirty[c]) => Content[b] = disk[b]

LEMMA ContentIs ==
  Sizes /\ Types /\ UseInv => ContentShown
<1> SUFFICES ASSUME Sizes, Types, UseInv PROVE ContentShown
  OBVIOUS
<1>1. ASSUME NEW c \in Bufs, blk[c] \in Blocks \ failed, valid[c] \/ dirty[c]
      PROVE  Content[blk[c]] = data[c]
  <2>1. Held(blk[c]) = {c}
    BY <1>1 DEF Held, Cached, UseInv, Sizes
  <2>2. QED
    BY <1>1, <2>1 DEF Content
<1>2. ASSUME NEW b \in Blocks \ failed, \A c \in Bufs : blk[c] = b => ~valid[c] /\ ~dirty[c]
      PROVE  Content[b] = disk[b]
  <2>1. Held(b) = {}
    BY <1>2 DEF Held, Cached
  <2>2. QED
    BY <1>2, <2>1 DEF Content
<1>3. DOMAIN Content = Blocks /\ \A b \in Blocks : b \in failed => Content[b] = 0
  BY DEF Content
<1>4. QED
  BY <1>1, <1>2, <1>3 DEF ContentShown

\* a block whose buffer, sector and mark stay keeps its content
LEMMA ContentKept ==
  ASSUME ContentShown, ContentShown', NEW b \in Blocks, disk'[b] = disk[b],
         b \in failed' <=> b \in failed,
         \A c \in Bufs : blk'[c] = b <=> blk[c] = b,
         \A c \in Bufs : blk[c] = b => valid'[c] = valid[c] /\ dirty'[c] = dirty[c] /\ data'[c] = data[c]
  PROVE  Content'[b] = Content[b]
<1>1. CASE b \in failed
  BY <1>1 DEF ContentShown
<1>2. CASE b \notin failed /\ \E c \in Bufs : blk[c] = b /\ (valid[c] \/ dirty[c])
  <2>1. PICK c \in Bufs : blk[c] = b /\ (valid[c] \/ dirty[c])
    BY <1>2
  <2>2. Content[b] = data[c]
    BY <1>2, <2>1 DEF ContentShown
  <2>3. Content'[b] = data'[c]
    BY <1>2, <2>1 DEF ContentShown
  <2>4. QED
    BY <2>1, <2>2, <2>3
<1>3. CASE b \notin failed /\ \A c \in Bufs : blk[c] = b => ~valid[c] /\ ~dirty[c]
  BY <1>3 DEF ContentShown
<1>4. QED
  BY <1>1, <1>2, <1>3

LEMMA StoreInit ==
  ASSUME Sizes, Init
  PROVE  Store!Init
<1>1. ContentShown
  BY InitInv, ContentIs DEF IInv
<1>2. \A b \in Blocks : Content[b] = 0
  BY <1>1 DEF Init, ContentShown
<1>3. Content \in [Blocks -> Values]
  BY <1>2 DEF Content, Sizes
<1>4. QED
  BY <1>3 DEF Store!Init, Init

\* a transfer changes the content of no other block, nor that of its own but to what a write sends
LEMMA TransferContent ==
  ASSUME Sizes, IInv, IInv', ContentShown, ContentShown',
         NEW p \in Procs, NEW write \in BOOLEAN, NEW d \in Values, NEW next \in {"held", "done"},
         Transfer(p, write, d, next)
  PROVE  /\ \A b \in Blocks \ {blk[mine[p]]} : Content'[b] = Content[b]
         /\ write /\ blk[mine[p]] \notin failed' => Content'[blk[mine[p]]] = d
         /\ ~write /\ failed' = failed => Content'[blk[mine[p]]] = Content[blk[mine[p]]]
<1>0. Types /\ UseInv /\ QueueInv /\ DataInv
  BY DEF IInv
<1>1. PICK c \in Bufs : c = mine[p] /\ bpc[p] = "held"
  BY <1>0, Locked DEF Transfer, Locking
<1>2. /\ blk' = blk /\ blk[c] \in Blocks /\ blk[c] # NoBlock
      /\ \A x \in Bufs \ {c} : valid'[x] = valid[x] /\ dirty'[x] = dirty[x] /\ data'[x] = data[x]
  BY <1>0, <1>1, TransferEffect DEF Sizes
<1>3. \/ /\ ~MemDisk /\ disk' = disk /\ valid' = valid /\ dirty'[c] = write /\ data'[c] = d
      \/ /\ MemDisk /\ disk' = IF write THEN [disk EXCEPT ![blk[c]] = d] ELSE disk
         /\ ~dirty'[c] /\ valid'[c] /\ data'[c] = IF write THEN d ELSE disk[blk[c]]
  BY <1>0, <1>1, TransferEffect
<1>4. /\ ~write => ~valid[c] /\ d = data[c]
      /\ failed' \subseteq failed /\ failed \ {blk[c]} \subseteq failed'
  BY <1>1 DEF Transfer
<1>5. ASSUME NEW b \in Blocks \ {blk[c]} PROVE Content'[b] = Content[b]
  <2>1. disk'[b] = disk[b]
    BY <1>0, <1>3 DEF Types
  <2>2. b \in failed' <=> b \in failed
    BY <1>4
  <2>3. \A x \in Bufs : blk[x] = b => valid'[x] = valid[x] /\ dirty'[x] = dirty[x] /\ data'[x] = data[x]
    BY <1>2
  <2>4. QED
    BY <1>2, <2>1, <2>2, <2>3, ContentKept
<1>6. ASSUME write, blk[c] \notin failed' PROVE Content'[blk[c]] = d
  <2>1. (valid'[c] \/ dirty'[c]) /\ data'[c] = d
    BY <1>3, <1>6
  <2>2. QED
    BY <1>2, <1>6, <2>1 DEF ContentShown
<1>7. ASSUME ~write, failed' = failed PROVE Content'[blk[c]] = Content[blk[c]]
  <2>1. CASE blk[c] \in failed
    BY <1>2, <1>7, <2>1 DEF ContentShown
  <2>2. CASE blk[c] \notin failed
    <3>1. c \notin Queued
      BY <1>0, <1>1, InQueue DEF Locking
    <3>2. ~valid[c] /\ ~dirty[c]
      BY <1>0, <1>4, <1>7, <3>1 DEF DataInv
    <3>3. \A x \in Bufs : blk[x] = blk[c] => x = c
      BY <1>0, <1>2 DEF UseInv
    <3>4. Content[blk[c]] = disk[blk[c]]
      BY <1>2, <2>2, <3>2, <3>3 DEF ContentShown
    <3>5. CASE MemDisk
      BY <1>2, <1>3, <1>7, <2>2, <3>4, <3>5 DEF ContentShown
    <3>6. CASE ~MemDisk
      <4>1. ~valid'[c] /\ ~dirty'[c] /\ disk' = disk
        BY <1>3, <1>7, <3>2, <3>6
      <4>2. Content'[blk[c]] = disk'[blk[c]]
        BY <1>2, <1>7, <2>2, <3>3, <4>1 DEF ContentShown
      <4>3. QED
        BY <3>4, <4>1, <4>2
    <3>7. QED
      BY <3>5, <3>6
  <2>3. QED
    BY <2>1, <2>2
<1>8. QED
  BY <1>1, <1>5, <1>6, <1>7

LEMMA ContentsEqual ==
  ASSUME ContentShown, ContentShown', \A b \in Blocks : Content'[b] = Content[b]
  PROVE  Content' = Content
<1>1. /\ Content = [b \in Blocks |-> Content[b]]
      /\ Content' = [b \in Blocks |-> Content'[b]]
  BY DEF Content
<1>2. QED
  BY <1>1

\* a write of block b, as the store takes it
LEMMA StoreWrites ==
  ASSUME ContentShown, ContentShown', NEW p \in Procs, NEW b \in Blocks, NEW v \in Values,
         Content'[b] = v, \A x \in Blocks \ {b} : Content'[x] = Content[x],
         got' = [got EXCEPT ![p] = <<b, v>>], failed' = failed \ {b}
  PROVE  Store!Next
<1>1. Content' = [Content EXCEPT ![b] = v]
  <2>1. /\ Content = [x \in Blocks |-> Content[x]]
        /\ Content' = [x \in Blocks |-> Content'[x]]
    BY DEF Content
  <2>2. QED
    BY <2>1
<1>2. Store!Write(p, b, v)
  BY <1>1 DEF Store!Write
<1>3. QED
  BY <1>2 DEF Store!Next

LEMMA QuietStore ==
  ASSUME Sizes, IInv, ContentShown, ContentShown', NEW p \in Procs, Quiet(p)
  PROVE  Store!Next \/ UNCHANGED Store!vars
<1>0. Types /\ UseInv /\ DataInv
  BY DEF IInv
<1>1. UNCHANGED <<disk, blk, valid, dirty, data, failed>>
  BY DEF Quiet, AcquireBuf, KillSleeper, IoWait, IoDone, Look, ReleaseBuf, Brelse, Hit, NoBuffers,
         cache, ide, bufs, faults
<1>2. \A b \in Blocks : Content'[b] = Content[b]
  BY <1>1, ContentKept
<1>3. Content' = Content
  BY <1>2, ContentsEqual
<1>4. CASE \/ AcquireBuf(p) \/ KillSleeper(p) \/ IoWait(p) \/ IoDone(p) \/ ReleaseBuf(p)
           \/ \E o \in Ops, b \in Blocks : NoBuffers(p, o, b)
  <2>1. got' = got
    BY <1>4 DEF AcquireBuf, KillSleeper, IoWait, IoDone, ReleaseBuf, NoBuffers
  <2>2. QED
    BY <1>1, <1>3, <2>1 DEF Store!vars
<1>5. CASE Brelse(p) \/ \E o \in Ops, b \in Blocks : Hit(p, o, b)
  <2>1. got' = [got EXCEPT ![p] = NoValue]
    BY <1>5 DEF Brelse, Hit
  <2>2. Store!Forget(p)
    BY <1>1, <1>3, <2>1 DEF Store!Forget
  <2>3. QED
    BY <2>2 DEF Store!Next
<1>6. CASE Look(p)
  <2>1. PICK c \in Bufs : c = mine[p] /\ blk[c] \in Blocks /\ blk[c] = job[p][2]
    BY <1>0, <1>6, Locked DEF Look
  <2>2. PICK v \in Values : v = data[c]
    BY <1>0 DEF Types
  <2>3. valid[c] /\ got' = [got EXCEPT ![p] = <<blk[c], v>>]
    BY <1>6, <2>1, <2>2 DEF Look, Fetched
  <2>4. blk[c] \in failed \/ v = Content[blk[c]]
    BY <2>1, <2>2, <2>3 DEF ContentShown
  <2>5. Store!Read(p, blk[c])
    BY <1>1, <1>3, <2>3, <2>4 DEF Store!Read
  <2>6. QED
    BY <2>1, <2>5 DEF Store!Next
<1>7. QED
  BY <1>4, <1>5, <1>6 DEF Quiet

LEMMA RecycleStore ==
  ASSUME Sizes, IInv, ContentShown, ContentShown', NEW p \in Procs, NEW o \in Ops, NEW b \in Blocks,
         Recycle(p, o, b)
  PROVE  Store!Next
<1>0. Types /\ UseInv /\ DataInv
  BY DEF IInv
<1>1. PICK c \in Bufs :
        /\ ~dirty[c] /\ blk' = [blk EXCEPT ![c] = b]
        /\ valid' = [valid EXCEPT ![c] = FALSE] /\ dirty' = [dirty EXCEPT ![c] = FALSE]
  BY DEF Recycle, Recycled, Unused
<1>2. /\ UNCHANGED <<disk, data, failed>> /\ got' = [got EXCEPT ![p] = NoValue]
      /\ \A x \in Bufs : blk[x] # b
  BY DEF Recycle, ide, faults, Cached
<1>3. /\ blk'[c] = b /\ ~valid'[c] /\ ~dirty'[c]
      /\ \A x \in Bufs \ {c} : blk'[x] = blk[x] /\ valid'[x] = valid[x] /\ dirty'[x] = dirty[x]
  BY <1>0, <1>1 DEF Types
<1>4. ASSUME NEW x \in Blocks PROVE Content'[x] = Content[x]
  <2>1. CASE x \in failed
    BY <1>2, <2>1 DEF ContentShown
  <2>2. CASE x \notin failed /\ x = b
    <3>1. Content[b] = disk[b]
      BY <1>2, <2>2 DEF ContentShown
    <3>2. Content'[b] = disk'[b]
      BY <1>2, <1>3, <2>2 DEF ContentShown
    <3>3. QED
      BY <1>2, <2>2, <3>1, <3>2
  <2>3. CASE x \notin failed /\ x # b /\ x = blk[c]
    <3>1. Content[x] = disk[x]
      <4>1. CASE valid[c]
        BY <1>0, <1>1, <2>3, <4>1 DEF ContentShown, DataInv
      <4>2. CASE ~valid[c]
        <5>1. \A y \in Bufs : blk[y] = x => y = c
          BY <1>0, <2>3 DEF UseInv, Sizes
        <5>2. QED
          BY <1>1, <2>3, <4>2, <5>1 DEF ContentShown
      <4>3. QED
        BY <4>1, <4>2
    <3>2. \A y \in Bufs : blk'[y] # x
      BY <1>0, <1>3, <2>3 DEF UseInv, Sizes
    <3>3. Content'[x] = disk'[x]
      BY <1>2, <2>3, <3>2 DEF ContentShown
    <3>4. QED
      BY <1>2, <3>1, <3>3
  <2>4. CASE x # b /\ x # blk[c]
    <3>1. \A y \in Bufs : blk'[y] = x <=> blk[y] = x
      BY <1>3, <2>4
    <3>2. \A y \in Bufs : blk[y] = x => valid'[y] = valid[y] /\ dirty'[y] = dirty[y] /\ data'[y] = data[y]
      BY <1>2, <1>3, <2>4
    <3>3. QED
      BY <1>2, <3>1, <3>2, ContentKept
  <2>5. QED
    BY <2>1, <2>2, <2>3, <2>4
<1>5. Store!Forget(p)
  BY <1>2, <1>4, ContentsEqual DEF Store!Forget
<1>6. QED
  BY <1>5 DEF Store!Next

\* bread's fetch and the commit's bwrite change nothing the store shows
LEMMA FetchStore ==
  ASSUME Sizes, IInv, IInv', ContentShown, ContentShown', NEW p \in Procs, Fetch(p) \/ Install(p)
  PROVE  UNCHANGED Store!vars
<1>0. Types /\ UseInv
  BY DEF IInv
<1>1. PICK c \in Bufs : c = mine[p] /\ blk[c] \in Blocks
  BY <1>0, Locked DEF Fetch, Install
<1>2. data[c] \in Values
  BY <1>0 DEF Types
<1>3. UNCHANGED <<got, failed>>
  BY DEF Fetch, Install
<1>4. \A b \in Blocks : Content'[b] = Content[b]
  <2>1. CASE Fetch(p)
    <3>1. Transfer(p, FALSE, data[c], "held")
      BY <1>0, <1>1, <1>2, <2>1 DEF Transfer, Fetch, Fetched, Types
    <3>2. QED
      BY <1>0, <1>1, <1>2, <1>3, <3>1, TransferContent
  <2>2. CASE Install(p)
    <3>1. Transfer(p, TRUE, data[c], "done")
      BY <1>0, <1>1, <1>2, <2>2 DEF Transfer, Install, Types
    <3>2. /\ \A b \in Blocks \ {blk[c]} : Content'[b] = Content[b]
          /\ blk[c] \notin failed' => Content'[blk[c]] = data[c]
      BY <1>1, <1>2, <3>1, TransferContent
    <3>3. valid[c]
      BY <1>1, <2>2 DEF Install, Fetched
    <3>4. Content'[blk[c]] = Content[blk[c]]
      BY <1>1, <1>3, <3>2, <3>3 DEF ContentShown
    <3>5. QED
      BY <3>2, <3>4
  <2>3. QED
    BY <2>1, <2>2
<1>5. QED
  BY <1>3, <1>4, ContentsEqual DEF Store!vars

LEMMA WriteStore ==
  ASSUME Sizes, IInv, IInv', ContentShown, ContentShown', NEW p \in Procs, NEW v \in Values,
         Write(p, v) \/ Change(p, v)
  PROVE  Store!Next
<1>0. Types /\ UseInv
  BY DEF IInv
<1>1. PICK c \in Bufs : c = mine[p] /\ blk[c] \in Blocks /\ blk[c] = job[p][2]
  BY <1>0, Locked DEF Write, Change
<1>2. failed' = failed \ {blk[c]} /\ got' = [got EXCEPT ![p] = <<blk[c], v>>]
  BY <1>1 DEF Write, Change
<1>3. Content'[blk[c]] = v /\ \A b \in Blocks \ {blk[c]} : Content'[b] = Content[b]
  <2>1. CASE Write(p, v)
    <3>1. DOMAIN got' = Procs
      BY <1>0, <1>2 DEF Types
    <3>2. Transfer(p, TRUE, v, "done")
      BY <2>1, <3>1 DEF Transfer, Write
    <3>3. QED
      BY <1>1, <1>2, <3>2, TransferContent
  <2>2. CASE Change(p, v)
    <3>1. /\ UNCHANGED <<blk, disk, valid>> /\ dirty' = [dirty EXCEPT ![c] = TRUE]
          /\ data' = [data EXCEPT ![c] = v]
      BY <1>1, <2>2 DEF Change, cache, ide
    <3>2. /\ dirty'[c] /\ data'[c] = v
          /\ \A x \in Bufs \ {c} : dirty'[x] = dirty[x] /\ data'[x] = data[x]
      BY <1>0, <3>1 DEF Types
    <3>3. Content'[blk[c]] = v
      BY <1>1, <1>2, <3>1, <3>2 DEF ContentShown
    <3>4. ASSUME NEW b \in Blocks \ {blk[c]} PROVE Content'[b] = Content[b]
      <4>1. \A x \in Bufs : blk[x] = b => valid'[x] = valid[x] /\ dirty'[x] = dirty[x] /\ data'[x] = data[x]
        BY <3>1, <3>2
      <4>2. b \in failed' <=> b \in failed
        BY <1>2
      <4>3. QED
        BY <3>1, <4>1, <4>2, ContentKept
    <3>5. QED
      BY <3>3, <3>4
  <2>3. QED
    BY <2>1, <2>2
<1>4. QED
  BY <1>1, <1>2, <1>3, StoreWrites

LEMMA DeviceStore ==
  ASSUME Sizes, IInv, ContentShown, ContentShown', DeviceDone
  PROVE  UNCHANGED Store!vars
<1>0. Types /\ UseInv /\ QueueInv /\ DevInv
  BY DEF IInv
<1>1. /\ dev.state = "busy" /\ UNCHANGED <<blk, valid, dirty, data, failed, got>>
      /\ disk' = IF dev.write THEN [disk EXCEPT ![dev.block] = dev.data] ELSE disk
  BY DEF DeviceDone, cache, bufs
<1>2. idequeue # <<>>
  BY <1>0, <1>1 DEF DevInv
<1>3. PICK c \in Bufs : c = dev.buf /\ dev.block = blk[c] /\ dev.write = dirty[c] /\ blk[c] \in Blocks
  BY <1>0, <1>2, InQueue DEF DevInv
<1>4. ASSUME NEW b \in Blocks PROVE Content'[b] = Content[b]
  <2>1. CASE disk'[b] = disk[b]
    BY <1>1, <2>1, ContentKept
  <2>2. CASE disk'[b] # disk[b]
    <3>1. dev.write
      BY <1>1, <2>2
    <3>2. b = blk[c]
      BY <1>0, <1>1, <1>3, <2>2 DEF Types
    <3>3. dirty[c] /\ dirty'[c] /\ data'[c] = data[c] /\ blk'[c] = blk[c]
      BY <1>1, <1>3, <3>1
    <3>4. CASE b \in failed
      BY <1>1, <3>4 DEF ContentShown
    <3>5. CASE b \notin failed
      <4>1. Content[b] = data[c]
        BY <3>2, <3>3, <3>5 DEF ContentShown
      <4>2. Content'[b] = data'[c]
        BY <1>1, <3>2, <3>3, <3>5 DEF ContentShown
      <4>3. QED
        BY <3>3, <4>1, <4>2
    <3>6. QED
      BY <3>4, <3>5
  <2>3. QED
    BY <2>1, <2>2
<1>5. QED
  BY <1>1, <1>4, ContentsEqual DEF Store!vars

LEMMA IdeintrStore ==
  ASSUME Sizes, IInv, IInv', ContentShown, ContentShown', Ideintr
  PROVE  Store!Next \/ UNCHANGED Store!vars
<1>0. Types /\ UseInv /\ QueueInv /\ DevInv /\ DataInv /\ DataInv'
  BY DEF IInv
<1>1. PICK c \in Bufs : c = Head(idequeue) /\ blk[c] \in Blocks /\ c \in Queued
  BY <1>0, InQueue DEF Ideintr
<1>2. /\ idequeue # <<>> /\ dev.state \in {"done", "error"} /\ UNCHANGED <<blk, disk, got>>
      /\ data' = IF ~dirty[c] /\ dev.state = "done" THEN [data EXCEPT ![c] = dev.data] ELSE data
      /\ failed' = IF ~dirty[c] /\ dev.state = "error" THEN failed \cup {blk[c]} ELSE failed
      /\ valid' = [valid EXCEPT ![c] = TRUE] /\ dirty' = [dirty EXCEPT ![c] = FALSE]
  BY <1>1 DEF Ideintr, cache
<1>3. /\ valid'[c] /\ ~dirty'[c]
      /\ \A x \in Bufs \ {c} : valid'[x] = valid[x] /\ dirty'[x] = dirty[x] /\ data'[x] = data[x]
  BY <1>0, <1>2 DEF Types
<1>4. \A x \in Bufs : blk[x] = blk[c] => x = c
  BY <1>0, <1>1 DEF UseInv, Sizes
<1>5. dev.write = dirty[c] /\ (dev.write => dev.state # "error")
  BY <1>0, <1>1, <1>2 DEF DevInv
<1>6. ASSUME NEW b \in Blocks \ {blk[c]} PROVE Content'[b] = Content[b]
  <2>1. b \in failed' <=> b \in failed
    BY <1>2
  <2>2. \A x \in Bufs : blk[x] = b => valid'[x] = valid[x] /\ dirty'[x] = dirty[x] /\ data'[x] = data[x]
    BY <1>3
  <2>3. QED
    BY <1>2, <2>1, <2>2, ContentKept
<1>7. CASE dirty[c] \/ dev.state = "done"
  <2>1. failed' = failed
    BY <1>2, <1>5, <1>7
  <2>2. Content'[blk[c]] = Content[blk[c]]
    <3>1. CASE blk[c] \in failed
      BY <1>1, <2>1, <3>1 DEF ContentShown
    <3>2. CASE blk[c] \notin failed /\ dirty[c]
      <4>1. data' = data
        BY <1>2, <3>2
      <4>2. Content[blk[c]] = data[c]
        BY <1>1, <3>2 DEF ContentShown
      <4>3. Content'[blk[c]] = data'[c]
        BY <1>1, <1>2, <1>3, <2>1, <3>2 DEF ContentShown
      <4>4. QED
        BY <4>1, <4>2, <4>3
    <3>3. CASE blk[c] \notin failed /\ ~dirty[c]
      <4>1. ~valid[c]
        BY <1>0, <1>1, <3>3, InQueue DEF Synced
      <4>2. Content[blk[c]] = disk[blk[c]]
        BY <1>1, <1>4, <3>3, <4>1 DEF ContentShown
      <4>3. Content'[blk[c]] = data'[c]
        BY <1>1, <1>2, <1>3, <2>1, <3>3 DEF ContentShown
      <4>4. data'[c] = disk'[blk[c]]
        BY <1>0, <1>2, <1>3, <2>1, <3>3 DEF DataInv
      <4>5. QED
        BY <1>2, <4>2, <4>3, <4>4
    <3>4. QED
      BY <3>1, <3>2, <3>3
  <2>3. Content' = Content
    BY <1>6, <2>2, ContentsEqual
  <2>4. QED
    BY <1>2, <2>1, <2>3 DEF Store!vars
<1>8. CASE ~dirty[c] /\ dev.state = "error"
  <2>1. failed' = failed \cup {blk[c]}
    BY <1>2, <1>8
  <2>2. Content'[blk[c]] = 0
    BY <1>1, <2>1 DEF ContentShown
  <2>3. Content' = [Content EXCEPT ![blk[c]] = 0]
    <3>1. /\ Content = [x \in Blocks |-> Content[x]]
          /\ Content' = [x \in Blocks |-> Content'[x]]
      BY DEF Content
    <3>2. QED
      BY <1>6, <2>2, <3>1
  <2>4. Store!Fail(blk[c])
    BY <1>2, <2>1, <2>3 DEF Store!Fail
  <2>5. QED
    BY <1>1, <2>4 DEF Store!Next
<1>9. QED
  BY <1>2, <1>7, <1>8

LEMMA StoreStep ==
  Sizes /\ IInv /\ IInv' /\ ContentShown /\ ContentShown' /\ [Next]_dvars => [Store!Next]_(Store!vars)
<1> SUFFICES ASSUME Sizes, IInv, IInv', ContentShown, ContentShown', [Next]_dvars
             PROVE  Store!Next \/ UNCHANGED Store!vars
  OBVIOUS
<1>1. ASSUME NEW p \in Procs, Bget(p) PROVE Store!Next \/ UNCHANGED Store!vars
  <2>1. PICK j \in Jobs[p] : Hit(p, j[1], j[2]) \/ Recycle(p, j[1], j[2]) \/ NoBuffers(p, j[1], j[2])
    BY <1>1 DEF Bget
  <2>2. j[1] \in Ops /\ j[2] \in Blocks
    BY <2>1 DEF Sizes
  <2>3. PICK o \in Ops, b \in Blocks : Hit(p, o, b) \/ Recycle(p, o, b) \/ NoBuffers(p, o, b)
    BY <2>1, <2>2
  <2>4. QED
    BY <2>3, QuietStore, RecycleStore DEF Quiet
<1>2. ASSUME NEW p \in Procs, Exec(p) PROVE Store!Next \/ UNCHANGED Store!vars
  <2>1. CASE Fetch(p) \/ Install(p)
    BY <2>1, FetchStore
  <2>2. CASE \E v \in Values : Write(p, v) \/ Change(p, v)
    BY <2>2, WriteStore
  <2>3. CASE Look(p) \/ IoWait(p) \/ IoDone(p) \/ ReleaseBuf(p) \/ Brelse(p)
    BY <2>3, QuietStore DEF Quiet
  <2>4. QED
    BY <1>2, <2>1, <2>2, <2>3 DEF Exec, Go
<1>3. ASSUME NEW p \in Procs, AcquireBuf(p) \/ KillSleeper(p)
      PROVE  Store!Next \/ UNCHANGED Store!vars
  BY <1>3, QuietStore DEF Quiet
<1>4. CASE DeviceStep \/ IdeintrStep
  BY <1>4, DeviceStore, IdeintrStore DEF DeviceStep, IdeintrStep
<1>5. CASE UNCHANGED dvars
  <2>1. UNCHANGED <<disk, blk, valid, dirty, data, failed, got>>
    BY <1>5 DEF dvars, cache, ide, bufs, faults
  <2>2. \A b \in Blocks : Content'[b] = Content[b]
    BY <2>1, ContentKept
  <2>3. QED
    BY <2>1, <2>2, ContentsEqual DEF Store!vars
<1>6. QED
  BY <1>1, <1>2, <1>3, <1>4, <1>5 DEF Next

\* The cache and the driver, with write-back, pinning, the queue, kills and failing reads,
\* behave like a store of blocks that are read and written whole (module BlockStore).
THEOREM Refinement ==
  ASSUME Sizes
  PROVE  Spec => ImplementsStore
<1>1. Sizes /\ IInv => ContentShown
  BY ContentIs DEF IInv
<1>2. Sizes /\ Init => Store!Init
  BY StoreInit
<1>3. QED
  BY <1>1, <1>2, StoreStep, Inductive, PTL DEF Spec, ImplementsStore, Store!Spec
-----------------------------------------------------------------------------
(* Natural numbers, for the proofs that use this module *)

LEMMA Least ==
  ASSUME NEW S \in SUBSET Nat, S # {}
  PROVE  \E m \in S : \A n \in S : m <= n
<1>1. PICK R : R = OpToRel(<, Nat)
  OBVIOUS
<1>2. IsWellFoundedOn(R, Nat)
  BY <1>1, NatLessThanWellFounded
<1>3. PICK m \in S : \A y \in S : ~(<<y, m>> \in R)
  BY <1>2, WFMin
<1>4. ASSUME NEW n \in S PROVE m <= n
  <2>1. m \in Nat /\ n \in Nat
    OBVIOUS
  <2>2. ~(<<n, m>> \in OpToRel(<, Nat))
    BY <1>1, <1>3
  <2>3. ~(n < m)
    BY <2>1, <2>2 DEF OpToRel
  <2>4. QED
    BY <2>1, <2>3
<1>5. QED
  BY <1>4

\* Bounded sets of natural numbers have a greatest element.
LEMMA Greatest ==
  ASSUME NEW S \in SUBSET Nat, S # {}, NEW N \in Nat, \A n \in S : n <= N
  PROVE  \E m \in S : \A n \in S : n <= m
<1> DEFINE T == {N - n : n \in S}
<1>1. T \in SUBSET Nat /\ T # {}
  <2>1. \A n \in S : n \in Nat /\ n <= N
    OBVIOUS
  <2>2. \A n \in S : N - n \in Nat
    BY <2>1
  <2>3. QED
    BY <2>2
<1>2. PICK d \in T : \A e \in T : d <= e
  BY <1>1, Least
<1>3. PICK m \in S : d = N - m
  BY <1>2
<1>4. ASSUME NEW n \in S PROVE n <= m
  <2>1. N - n \in T
    OBVIOUS
  <2>2. d <= N - n /\ m \in Nat /\ n \in Nat
    BY <2>1, <1>2
  <2>3. QED
    BY <2>2, <1>3
<1>5. QED
  BY <1>4

LEMMA Times ==
  ASSUME NEW a \in Nat, NEW b \in Nat
  PROVE  (a + 1) * b = a * b + b /\ 0 * b = 0 /\ a * b \in Nat
  OBVIOUS

\* What remains of a number when it is divided by N.
LEMMA ModPos == ASSUME NEW N \in Nat \ {0}, NEW e \in 0..N-1 PROVE e % N = e
  OBVIOUS
LEMMA ModNeg == ASSUME NEW N \in Nat \ {0}, NEW e \in 0..N-1 PROVE (e - N) % N = e
  OBVIOUS
LEMMA ModRange == ASSUME NEW N \in Nat \ {0}, NEW e \in Int PROVE e % N \in 0..N-1
  OBVIOUS
LEMMA ModW == ASSUME NEW N \in Nat \ {0} PROVE N % N = 0
  OBVIOUS
=============================================================================
