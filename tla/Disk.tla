-------------------------------- MODULE Disk --------------------------------
(***************************************************************************)
(* The buffer cache (Part_B/bio.c) on the IDE driver (ide.c), or on the    *)
(* memory disk (memide.c) when MemDisk.                                    *)
(*                                                                         *)
(* What runs under bcache.lock is one step, and so is what runs under      *)
(* idelock; the sleep lock of a buffer is its owner (module SleepLock).    *)
(* Processes use the cache in the four ways the kernel does:               *)
(*   read     bread, look, brelse (readi, read_page_from_disk)             *)
(*   write    bget, overwrite, bwrite, brelse (write_page_to_disk)         *)
(*   change   bread, overwrite, log_write (B_DIRTY), brelse                *)
(*   install  bread, bwrite, brelse of a changed block (the commit)        *)
(***************************************************************************)
EXTENDS Naturals, Sequences, FiniteSets, Functions

CONSTANTS
  Procs, NBUF, Blocks, Values,
  NoProc, NoBlock, NoBuf, NoValue,   \* no process, block, buffer, value
  MemDisk,        \* the driver: memide.c or ide.c
  MaxPinned,      \* bound: blocks the log pins with B_DIRTY
  MaxFail,        \* bound: reads the disk fails to do
  Jobs,           \* bound: the uses <<op, block>> each process makes of the cache
  MaxCalls        \* bound: calls of bget

Bufs == 1..NBUF
Ops  == {"read", "write", "change", "install"}

\* idle    bwait    bget is in acquiresleep    held   the buffer is locked
\* io      iderw: while(...)      asleep  sleep(b, &idelock)
\* done    a bwrite has returned  unref   brelse: after releasesleep, before bcache.lock
\* nobuf   panic("bget: no buffers")
BPcs == {"idle", "bwait", "held", "io", "asleep", "done", "unref", "nobuf"}

VARIABLES
  blk, valid, dirty, refcnt, owner, data,   \* of each struct buf; flags is valid, dirty
  lru,                                      \* the buffers from bcache.head.next on
  idequeue,
  disk, dev,                                \* the sectors; the request the device works on
  bpc, job, mine, got,                       \* of each process: its step, use and block, buffer
  pinned,                                   \* blocks handed to the log
  failed, nfail,                            \* blocks a fetch has failed for since they were written; how many did
  calls

cache  == <<blk, refcnt, lru>>
ide    == <<idequeue, disk, dev>>
bufs   == <<valid, dirty, data>>
faults == <<pinned, failed, nfail>>
dvars  == <<cache, ide, bufs, owner, bpc, job, mine, got, faults, calls>>

Off == [state |-> "off", buf |-> NoBuf, block |-> NoBlock, write |-> FALSE, data |-> NoValue]

Init ==
  /\ blk = [c \in Bufs |-> NoBlock] /\ owner = [c \in Bufs |-> NoProc]
  /\ valid = [c \in Bufs |-> FALSE] /\ dirty = valid
  /\ refcnt = [c \in Bufs |-> 0] /\ data = refcnt
  /\ lru = [i \in Bufs |-> NBUF + 1 - i]                              \* binit
  /\ idequeue = <<>> /\ dev = Off /\ disk = [b \in Blocks |-> 0]
  /\ bpc = [p \in Procs |-> "idle"] /\ job = [p \in Procs |-> <<>>]
  /\ mine = [p \in Procs |-> NoBuf]
  /\ got = [p \in Procs |-> NoValue]
  /\ pinned = {} /\ failed = {} /\ nfail = 0 /\ calls = 0

op(p) == job[p][1]

Goto(p, l) == bpc' = [bpc EXCEPT ![p] = l]

-----------------------------------------------------------------------------
(* bget *)

Cached(b) == {c \in Bufs : blk[c] = b}

\* (mutant: a buffer the log has changed is taken for unused)
BadUnused(c) == refcnt[c] = 0
Unused(c) == refcnt[c] = 0 /\ ~dirty[c]

\* the least recently used of the unused buffers
Recycled(c) ==
  \E i \in Bufs : lru[i] = c /\ Unused(c) /\ \A j \in i+1..NBUF : ~Unused(lru[j])

\* who may use the cache how: begin_op has kept room for every change, and one
\* commit at a time installs what the log pins
Changing == {q \in Procs : mine[q] # NoBuf /\ op(q) = "change"}
May(o, b) ==
  CASE o = "change"  -> Cardinality(pinned \cup {blk[mine[q]] : q \in Changing} \cup {b}) <= MaxPinned
    [] o = "install" -> b \in pinned /\ \A q \in Procs : bpc[q] # "idle" => op(q) # "install"
    [] OTHER         -> TRUE

Hit(p, o, b) ==
  /\ bpc[p] = "idle" /\ May(o, b)
  /\ \E c \in Cached(b) :
       /\ refcnt' = [refcnt EXCEPT ![c] = @ + 1]
       /\ mine' = [mine EXCEPT ![p] = c]
  /\ job' = [job EXCEPT ![p] = <<o, b>>] /\ got' = [got EXCEPT ![p] = NoValue]
  /\ Goto(p, "bwait")
  /\ UNCHANGED <<blk, lru, ide, bufs, owner, faults>>

\* B_VALID and B_DIRTY are cleared; the data of the old block stays
Recycle(p, o, b) ==
  /\ bpc[p] = "idle" /\ May(o, b) /\ Cached(b) = {}
  /\ \E c \in Bufs :
       /\ Recycled(c)
       /\ blk' = [blk EXCEPT ![c] = b]
       /\ valid' = [valid EXCEPT ![c] = FALSE] /\ dirty' = [dirty EXCEPT ![c] = FALSE]
       /\ refcnt' = [refcnt EXCEPT ![c] = 1]
       /\ mine' = [mine EXCEPT ![p] = c]
  /\ job' = [job EXCEPT ![p] = <<o, b>>] /\ got' = [got EXCEPT ![p] = NoValue]
  /\ Goto(p, "bwait")
  /\ UNCHANGED <<lru, ide, data, owner, faults>>

\* panic("bget: no buffers")
NoBuffers(p, o, b) ==
  /\ bpc[p] = "idle" /\ May(o, b) /\ Cached(b) = {}
  /\ \A c \in Bufs : ~Unused(c)
  /\ Goto(p, "nobuf")
  /\ UNCHANGED <<cache, ide, bufs, owner, job, mine, got, faults>>

\* (mutant: the caller does not wait for the buffer)
BadFree(c) == TRUE
Free(c) == owner[c] = NoProc

AcquireBuf(p) ==
  /\ bpc[p] = "bwait" /\ Free(mine[p])
  /\ owner' = [owner EXCEPT ![mine[p]] = p]
  /\ Goto(p, "held")
  /\ UNCHANGED <<cache, ide, bufs, job, mine, got, faults>>

-----------------------------------------------------------------------------
(* iderw and ideintr *)

\* idestart(c): a write sends its data along
Request(c, write, d) ==
  [state |-> "busy", buf |-> c, block |-> blk[c], write |-> write, data |-> d]

\* (mutant: the device is started for every request)
BadAtHead(q) == TRUE
AtHead(q) == Len(q) = 1

\* ide.c: append, and start the disk when b is the first
IdeAppend(p, write, d) ==
  /\ ~MemDisk
  /\ idequeue' = Append(idequeue, mine[p])
  /\ dev' = IF AtHead(idequeue') THEN Request(mine[p], write, d) ELSE dev
  /\ dirty' = [dirty EXCEPT ![mine[p]] = write]
  /\ data' = [data EXCEPT ![mine[p]] = d]
  /\ Goto(p, "io")
  /\ UNCHANGED <<valid, disk>>

\* memide.c: the whole transfer
MemTransfer(p, write, d, next) ==
  LET c == mine[p] IN
  /\ MemDisk
  /\ disk' = IF write THEN [disk EXCEPT ![blk[c]] = d] ELSE disk
  /\ data' = [data EXCEPT ![c] = IF write THEN d ELSE disk[blk[c]]]
  /\ dirty' = [dirty EXCEPT ![c] = FALSE] /\ valid' = [valid EXCEPT ![c] = TRUE]
  /\ Goto(p, next)
  /\ UNCHANGED <<idequeue, dev>>

Writes(p) == op(p) \in {"write", "install"}

Iderw(p, write, d, next) ==
  /\ IdeAppend(p, write, d) \/ MemTransfer(p, write, d, next)
  /\ UNCHANGED <<cache, owner, job, mine, nfail>>

\* (mutant: one look is enough)
BadSynced(c) == TRUE
Synced(c) == valid[c] /\ ~dirty[c]

IoWait(p) ==
  /\ bpc[p] = "io" /\ ~Synced(mine[p])
  /\ Goto(p, "asleep")
  /\ UNCHANGED <<cache, ide, bufs, owner, job, mine, got, faults>>

\* iderw returns: an install that had to read its block comes to bwrite now
IoDone(p) ==
  /\ bpc[p] = "io" /\ Synced(mine[p])
  /\ Goto(p, IF Writes(p) /\ (op(p) = "install" => blk[mine[p]] \notin pinned)
             THEN "done" ELSE "held")
  /\ UNCHANGED <<cache, ide, bufs, owner, job, mine, got, faults>>

\* kill of a process that sleeps in iderw
KillSleeper(p) ==
  /\ bpc[p] = "asleep" /\ Goto(p, "io")
  /\ UNCHANGED <<cache, ide, bufs, owner, job, mine, got, faults>>

\* the device does what it was asked to and raises its interrupt; a read may fail
DeviceDone ==
  /\ dev.state = "busy"
  /\ disk' = IF dev.write THEN [disk EXCEPT ![dev.block] = dev.data] ELSE disk
  /\ \/ dev' = [dev EXCEPT !.state = "done", !.data = IF dev.write THEN @ ELSE disk[dev.block]]
        /\ UNCHANGED nfail
     \/ dev' = [dev EXCEPT !.state = "error"]
        /\ ~dev.write /\ nfail < MaxFail /\ nfail' = nfail + 1
  /\ UNCHANGED <<cache, idequeue, bufs, owner, bpc, job, mine, got, pinned, failed>>

\* (mutant: the interrupt wakes nobody)
BadWakeup(c) == bpc
Wakeup(c) == [p \in Procs |-> IF bpc[p] = "asleep" /\ mine[p] = c THEN "io" ELSE bpc[p]]

\* the next request (mutant: the driver forgets to start it)
BadNextRequest == Off
NextRequest == IF Len(idequeue) > 1
               THEN LET c == idequeue[2] IN Request(c, dirty[c], data[c]) ELSE Off

\* a read whose data did not come leaves the old data in the buffer, and sets
\* B_VALID all the same
Ideintr ==
  LET c == Head(idequeue) IN
  /\ dev.state \in {"done", "error"} /\ idequeue # <<>>
  /\ data' = IF ~dirty[c] /\ dev.state = "done" THEN [data EXCEPT ![c] = dev.data] ELSE data
  /\ failed' = IF ~dirty[c] /\ dev.state = "error" THEN failed \cup {blk[c]} ELSE failed
  /\ valid' = [valid EXCEPT ![c] = TRUE] /\ dirty' = [dirty EXCEPT ![c] = FALSE]
  /\ idequeue' = Tail(idequeue)
  /\ dev' = NextRequest
  /\ bpc' = Wakeup(c)
  /\ UNCHANGED <<cache, disk, owner, job, mine, got, pinned, nfail>>

-----------------------------------------------------------------------------
(* bread, bwrite, log_write on the buffer p has locked *)

\* bread's test (mutant: a buffer another process knows is taken for valid)
BadFetched(c) == valid[c] \/ refcnt[c] > 1
Fetched(c) == valid[c]

Fetch(p) ==
  /\ bpc[p] = "held" /\ op(p) # "write" /\ ~Fetched(mine[p])
  /\ Iderw(p, FALSE, data[mine[p]], "held")
  /\ UNCHANGED <<got, pinned, failed>>

\* write_page_to_disk: memmove, bwrite
Write(p, v) ==
  /\ bpc[p] = "held" /\ op(p) = "write"
  /\ Iderw(p, TRUE, v, "done")
  /\ failed' = failed \ {blk[mine[p]]}
  /\ got' = [got EXCEPT ![p] = <<job[p][2], v>>]
  /\ UNCHANGED pinned

\* install_trans: bwrite
Install(p) ==
  /\ bpc[p] = "held" /\ op(p) = "install" /\ Fetched(mine[p])
  /\ Iderw(p, TRUE, data[mine[p]], "done")
  /\ pinned' = pinned \ {blk[mine[p]]}
  /\ UNCHANGED <<got, failed>>

\* the caller changes the block: memmove, log_write
Change(p, v) ==
  LET c == mine[p] IN
  /\ bpc[p] = "held" /\ op(p) = "change" /\ Fetched(c)
  /\ data' = [data EXCEPT ![c] = v]
  /\ dirty' = [dirty EXCEPT ![c] = TRUE]
  /\ pinned' = pinned \cup {blk[c]} /\ failed' = failed \ {blk[c]}
  /\ got' = [got EXCEPT ![p] = <<job[p][2], v>>]
  /\ Goto(p, "done")
  /\ UNCHANGED <<cache, ide, valid, owner, job, mine, nfail>>

\* the caller looks at the block
Look(p) ==
  /\ bpc[p] = "held" /\ op(p) = "read" /\ Fetched(mine[p])
  /\ got' = [got EXCEPT ![p] = <<job[p][2], data[mine[p]]>>]
  /\ Goto(p, "done")
  /\ UNCHANGED <<cache, ide, bufs, owner, job, mine, faults>>

-----------------------------------------------------------------------------
(* brelse *)

\* releasesleep(&b->lock)
ReleaseBuf(p) ==
  /\ bpc[p] = "done"
  /\ owner' = [owner EXCEPT ![mine[p]] = NoProc]
  /\ Goto(p, "unref")
  /\ UNCHANGED <<cache, ide, bufs, job, mine, got, faults>>

\* (mutant: a reference is kept)
BadUnref(c) == IF dirty[c] THEN refcnt[c] ELSE refcnt[c] - 1
Unref(c) == refcnt[c] - 1

\* the list with c moved to its front
MovedToFront(c) ==
  LET k == CHOOSE i \in Bufs : lru[i] = c
  IN  [i \in Bufs |-> IF i = 1 THEN c ELSE IF i <= k THEN lru[i - 1] ELSE lru[i]]

\* under bcache.lock: the last user moves the buffer to the front of the list
Brelse(p) ==
  LET c == mine[p] IN
  /\ bpc[p] = "unref"
  /\ refcnt' = [refcnt EXCEPT ![c] = Unref(c)]
  /\ lru' = IF refcnt[c] = 1 THEN MovedToFront(c) ELSE lru
  /\ mine' = [mine EXCEPT ![p] = NoBuf]
  /\ got' = [got EXCEPT ![p] = NoValue]
  /\ Goto(p, "idle")
  /\ UNCHANGED <<blk, ide, bufs, owner, job, faults>>

-----------------------------------------------------------------------------
Bget(p) ==
  /\ calls < MaxCalls /\ calls' = calls + 1
  /\ \E j \in Jobs[p] : Hit(p, j[1], j[2]) \/ Recycle(p, j[1], j[2]) \/ NoBuffers(p, j[1], j[2])

Go(p) ==
  \/ Fetch(p) \/ Install(p) \/ Look(p) \/ IoWait(p) \/ IoDone(p) \/ ReleaseBuf(p) \/ Brelse(p)
  \/ \E v \in Values : Write(p, v) \/ Change(p, v)

Exec(p)     == Go(p) /\ UNCHANGED calls
DeviceStep  == DeviceDone /\ UNCHANGED calls
IdeintrStep == Ideintr /\ UNCHANGED calls

Next ==
  \/ \E p \in Procs : Bget(p) \/ Exec(p)
  \/ \E p \in Procs : (AcquireBuf(p) \/ KillSleeper(p)) /\ UNCHANGED calls
  \/ DeviceStep \/ IdeintrStep

Spec == Init /\ [][Next]_dvars

-----------------------------------------------------------------------------
(* Properties *)

\* Buffers, queue, device and processes are in states they can be in.
TypeOK ==
  /\ blk \in [Bufs -> Blocks \cup {NoBlock}] /\ owner \in [Bufs -> Procs \cup {NoProc}]
  /\ valid \in [Bufs -> BOOLEAN] /\ dirty \in [Bufs -> BOOLEAN]
  /\ refcnt \in [Bufs -> 0..Cardinality(Procs)] /\ data \in [Bufs -> Values]
  /\ Len(lru) = NBUF /\ Range(lru) = Bufs
  /\ Range(idequeue) \subseteq Bufs /\ disk \in [Blocks -> Values]
  /\ bpc \in [Procs -> BPcs] /\ mine \in [Procs -> Bufs \cup {NoBuf}]
  /\ pinned \subseteq Blocks /\ failed \subseteq Blocks /\ nfail \in 0..MaxFail

\* bget: "no buffers" is said only when every buffer is in use by a running call
\* or pinned by the log: no sequence of calls loses a buffer.
BufferWhenRoom ==
  (\A c \in Bufs : ~Unused(c)) =>
    \A c \in Bufs : blk[c] \in pinned \/ \E p \in Procs : mine[p] = c

\* bget: one buffer per block, however many look for it at once, and a buffer in
\* use keeps its block.
OneBufferPerBlock ==
  /\ \A b \in Blocks : Cardinality(Cached(b)) <= 1
  /\ \A c \in Bufs : refcnt[c] = Cardinality({p \in Procs : mine[p] = c})

\* idequeue: the device works on the first buffer of the queue and stands still
\* only when the queue is empty; each waiting buffer is in the queue once and is
\* locked by the process that waits for it.
QueueInOrder ==
  /\ dev.state = "off" <=> idequeue = <<>>
  /\ idequeue # <<>> => /\ dev.buf = Head(idequeue) /\ dev.block = blk[dev.buf]
                        /\ dev.write = dirty[dev.buf]
  /\ \A i \in DOMAIN idequeue : \E p \in Procs :
       /\ mine[p] = idequeue[i] /\ owner[mine[p]] = p /\ bpc[p] \in {"io", "asleep"}
       /\ \A j \in DOMAIN idequeue : idequeue[j] = idequeue[i] => j = i

\* The cache and the driver together are a store of blocks: a block's content is
\* its buffer once the buffer has it, else what is on the disk.
Held(b)  == {c \in Cached(b) : valid[c] \/ dirty[c]}
Content  == [b \in Blocks |-> IF b \in failed THEN 0
                              ELSE IF Held(b) # {} THEN data[CHOOSE c \in Held(b) : TRUE]
                              ELSE disk[b]]
Store == INSTANCE BlockStore WITH content <- Content

\* Cache, write-back, pinning and the queue of the driver together behave like the store.
ImplementsStore == Store!Spec

\* No sleep of iderw is forgotten: whoever sleeps there has its buffer in the queue, whose
\* first request the device is working on, also when the process was killed and came back.
SleepersQueued == \A p \in Procs : bpc[p] = "asleep" => mine[p] \in Range(idequeue) /\ dev.state # "off"
=============================================================================
