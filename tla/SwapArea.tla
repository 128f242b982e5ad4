------------------------------ MODULE SwapArea ------------------------------
(***************************************************************************)
(* The free map of the disk (balloc, bfree, balloc_page, bfree_page of     *)
(* Part_B/fs.c) used by file operations and by the swap code at the same   *)
(* time, with the log it goes through and goes past.                       *)
(*                                                                         *)
(* balloc calls begin_op with the buffer of the free map locked, inside    *)
(* the transaction of its caller when a file grows (bmap) and outside any  *)
(* when a page is swapped out; bfree and write_page_to_disk write with     *)
(* bwrite, past the log.  The commit needs the buffers of the blocks in    *)
(* the log, the free map among them.                                       *)
(***************************************************************************)
EXTENDS Naturals, Sequences, FiniteSets, SequencesExt

CONSTANTS
  Filers,           \* processes that append a block to a file
  Swappers,         \* processes that swap a page out and in again
  NoProc,
  NBLOCKS,          \* data blocks, one free-map block for all of them
  RUN,              \* consecutive blocks of a page (8)
  LOGSIZE, MAXOPBLOCKS,
  MaxCalls          \* bound: calls of a process

Procs  == Filers \cup Swappers
Blocks == 1..NBLOCKS
MAP    == 0         \* the free-map block

\* idle   open  a file operation between begin_op and end_op
\* scan   balloc looks for a free block     bwait  balloc in begin_op
\* mark   balloc has begun its transaction  zero   bzero       endop  its end_op
\* wlog, install   the commit, by the last end_op          trim  balloc_page frees the extra blocks
\* pwrite write_page_to_disk     out   the page is on the disk     pfree  bfree_page
\* full   panic("balloc: out of blocks")
APcs == {"idle", "open", "scan", "bwait", "mark", "zero", "endop", "wlog", "install",
         "trim", "pwrite", "out", "pfree", "full"}

VARIABLES
  used, mem,                  \* the free map and the data blocks, as bread returns them
  mapLog, dataLog,            \* their copies in the log
  mapOwner,                   \* who has the buffer of the free map locked
  lh, outstanding, committing,
  apc, got,                   \* of each process: its step, allocatedBlocks of balloc_page
  nested,                     \* the balloc is inside a transaction of its caller
  raced,                      \* blocks written past the log while their old copy was in a commit
  ncalls

alog  == <<mapLog, dataLog, lh, outstanding, committing>>
avars == <<used, mem, alog, mapOwner, apc, got, nested, raced, ncalls>>

Init ==
  /\ used = {} /\ mem = [b \in Blocks |-> "old"]
  /\ mapLog = {} /\ dataLog = mem
  /\ mapOwner = NoProc
  /\ lh = {} /\ outstanding = 0 /\ committing = FALSE
  /\ apc = [p \in Procs |-> "idle"] /\ got = [p \in Procs |-> <<>>]
  /\ nested = [p \in Procs |-> FALSE]
  /\ raced = {} /\ ncalls = [p \in Procs |-> 0]

Goto(p, l) == apc' = [apc EXCEPT ![p] = l]

-----------------------------------------------------------------------------
(* the log, as far as balloc meets it *)

MustWait == committing \/ Cardinality(lh) + (outstanding + 1) * MAXOPBLOCKS > LOGSIZE

\* filewrite: begin_op of the file operation
Open(p) ==
  /\ apc[p] = "idle" /\ p \in Filers /\ ncalls[p] < MaxCalls /\ ~MustWait
  /\ outstanding' = outstanding + 1
  /\ nested' = [nested EXCEPT ![p] = TRUE]
  /\ ncalls' = [ncalls EXCEPT ![p] = @ + 1]
  /\ Goto(p, "scan")
  /\ UNCHANGED <<used, mem, mapLog, dataLog, lh, committing, mapOwner, got, raced>>

\* where a process goes when an end_op is over
AfterEnd(p) ==
  IF p \in Filers THEN IF nested[p] THEN "open" ELSE "idle"
  ELSE IF Len(got[p]) >= RUN /\ \A i \in 1..RUN-1 :
            got[p][Len(got[p]) - i + 1] = got[p][Len(got[p]) - i] + 1
       THEN "trim" ELSE "scan"

EndOp(p) ==
  /\ apc[p] = "endop" \/ apc[p] = "open"
  /\ outstanding' = outstanding - 1
  /\ nested' = IF apc[p] = "open" THEN [nested EXCEPT ![p] = FALSE] ELSE nested
  /\ IF outstanding = 1 /\ lh # {}
     THEN committing' = TRUE /\ Goto(p, "wlog")
     ELSE UNCHANGED committing /\ Goto(p, IF apc[p] = "open" THEN "idle" ELSE AfterEnd(p))
  /\ UNCHANGED <<used, mem, mapLog, dataLog, lh, mapOwner, got, raced, ncalls>>

\* bread of the free map waits for its buffer
MapReady == MAP \in lh => mapOwner = NoProc

\* write_log and write_head
WriteLog(p) ==
  /\ apc[p] = "wlog" /\ MapReady
  /\ mapLog' = used
  /\ dataLog' = [b \in Blocks |-> IF b \in lh THEN mem[b] ELSE dataLog[b]]
  /\ Goto(p, "install")
  /\ UNCHANGED <<used, mem, lh, outstanding, committing, mapOwner, got, nested, raced, ncalls>>

\* install_trans copies the log over the blocks, and the transaction is erased
Install(p) ==
  /\ apc[p] = "install" /\ MapReady
  /\ used' = IF MAP \in lh THEN mapLog ELSE used
  /\ mem'  = [b \in Blocks |-> IF b \in lh THEN dataLog[b] ELSE mem[b]]
  /\ lh' = {} /\ committing' = FALSE
  /\ Goto(p, AfterEnd(p))
  /\ UNCHANGED <<mapLog, dataLog, outstanding, mapOwner, got, nested, raced, ncalls>>

\* a write past the log loses to a commit that has its copy already
Passing(bs) == IF \E q \in Procs : apc[q] = "install" THEN bs \cap lh ELSE {}

-----------------------------------------------------------------------------
(* balloc *)

\* (mutant: the scan starts one bit too early)
BadFreeBlocks == (0..NBLOCKS-1) \ used
FreeBlocks == Blocks \ used

\* bread of the free map and the first free block in it
Scan(p) ==
  /\ apc[p] = "scan" /\ mapOwner = NoProc /\ FreeBlocks # {}
  /\ mapOwner' = p
  /\ \E b \in FreeBlocks :
       /\ \A c \in FreeBlocks : b <= c
       /\ got' = [got EXCEPT ![p] = Append(@, b)]
  /\ Goto(p, "bwait")
  /\ UNCHANGED <<used, mem, alog, nested, raced, ncalls>>

\* panic("balloc: out of blocks")
OutOfBlocks(p) ==
  /\ apc[p] = "scan" /\ mapOwner = NoProc /\ FreeBlocks = {}
  /\ Goto(p, "full")
  /\ UNCHANGED <<used, mem, alog, mapOwner, got, nested, raced, ncalls>>

\* begin_op, with the free map still locked
BallocBegin(p) ==
  /\ apc[p] = "bwait" /\ ~MustWait
  /\ outstanding' = outstanding + 1
  /\ Goto(p, "mark")
  /\ UNCHANGED <<used, mem, mapLog, dataLog, lh, committing, mapOwner, got, nested, raced, ncalls>>

\* brelse of the free map (mutant: forgotten when the log is filling)
BadReleaseMap(p) == IF Cardinality(lh) > 2 THEN p ELSE NoProc
ReleaseMap(p) == NoProc

\* the bit, log_write, brelse (mutant: the bit is not set)
BadMarked(b) == used
Marked(b) == used \cup {b}

Mark(p) ==
  /\ apc[p] = "mark"
  /\ used' = Marked(Last(got[p]))
  /\ lh' = lh \cup {MAP}
  /\ mapOwner' = ReleaseMap(p)
  /\ Goto(p, "zero")
  /\ UNCHANGED <<mem, mapLog, dataLog, outstanding, committing, got, nested, raced, ncalls>>

Bzero(p) ==
  /\ apc[p] = "zero"
  /\ mem' = [mem EXCEPT ![Last(got[p])] = "zero"]
  /\ lh' = lh \cup {Last(got[p])}
  /\ Goto(p, "endop")
  /\ UNCHANGED <<used, mapLog, dataLog, outstanding, committing, mapOwner, got, nested, raced, ncalls>>

-----------------------------------------------------------------------------
(* the swap code *)

SwapOut(p) ==
  /\ apc[p] = "idle" /\ p \in Swappers /\ ncalls[p] < MaxCalls
  /\ ncalls' = [ncalls EXCEPT ![p] = @ + 1]
  /\ Goto(p, "scan")
  /\ UNCHANGED <<used, mem, alog, mapOwner, got, nested, raced>>

\* (mutant: the wrong bit is cleared)
BadCleared(b) == used \ {b + 1}
Cleared(b) == used \ {b}

\* one bfree: read, clear the bit, bwrite
Bfree(p, b) ==
  /\ mapOwner = NoProc
  /\ used' = Cleared(b)
  /\ raced' = raced \cup (IF Passing({MAP}) # {} THEN {b} ELSE {})

\* balloc_page frees what it allocated before its run of blocks
\* (mutant: one block too many)
BadExtra(s) == Len(s) - RUN + 1
Extra(s) == Len(s) - RUN

Trim(p) ==
  /\ apc[p] = "trim"
  /\ IF Extra(got[p]) > 0
     THEN /\ Bfree(p, Head(got[p]))
          /\ got' = [got EXCEPT ![p] = Tail(@)] /\ UNCHANGED apc
     ELSE Goto(p, "pwrite") /\ UNCHANGED <<used, got, raced>>
  /\ UNCHANGED <<mem, alog, mapOwner, nested, ncalls>>

\* write_page_to_disk, all RUN blocks
PageWrite(p) ==
  /\ apc[p] = "pwrite"
  /\ mem' = [b \in Blocks |-> IF b \in ToSet(got[p]) THEN "page" ELSE mem[b]]
  /\ raced' = raced \cup Passing(ToSet(got[p]))
  /\ Goto(p, "out")
  /\ UNCHANGED <<used, alog, mapOwner, got, nested, ncalls>>

\* map_address: read_page_from_disk, then bfree_page, block by block
SwapIn(p) ==
  /\ apc[p] = "out" /\ Goto(p, "pfree")
  /\ UNCHANGED <<used, mem, alog, mapOwner, got, nested, raced, ncalls>>

BfreePage(p) ==
  /\ apc[p] = "pfree"
  /\ IF got[p] # <<>>
     THEN /\ Bfree(p, Head(got[p]))
          /\ got' = [got EXCEPT ![p] = Tail(@)] /\ UNCHANGED apc
     ELSE Goto(p, "idle") /\ UNCHANGED <<used, got, raced>>
  /\ UNCHANGED <<mem, alog, mapOwner, nested, ncalls>>

-----------------------------------------------------------------------------
Balloc(p) == Scan(p) \/ OutOfBlocks(p) \/ BallocBegin(p) \/ Mark(p) \/ Bzero(p)
Commit(p) == WriteLog(p) \/ Install(p)
Swap(p)   == SwapOut(p) \/ Trim(p) \/ PageWrite(p) \/ SwapIn(p) \/ BfreePage(p)

Step(p) == Open(p) \/ EndOp(p) \/ Balloc(p) \/ Commit(p) \/ Swap(p)

Next == \E p \in Procs : Step(p)

Spec == Init /\ [][Next]_avars

-----------------------------------------------------------------------------
(* Properties *)

\* The map, the log and the processes are in states they can be in.
TypeOK ==
  /\ used \subseteq Blocks /\ mapLog \subseteq Blocks
  /\ mem \in [Blocks -> {"old", "zero", "page"}] /\ dataLog \in [Blocks -> {"old", "zero", "page"}]
  /\ mapOwner \in Procs \cup {NoProc}
  /\ lh \subseteq Blocks \cup {MAP} /\ outstanding \in 0..2 * Cardinality(Procs)
  /\ committing \in BOOLEAN /\ apc \in [Procs -> APcs]
  /\ \A p \in Procs : ToSet(got[p]) \subseteq Blocks

\* the blocks a process has been given and not given back
Owned(p) == ToSet(IF apc[p] \in {"bwait", "mark"} THEN Front(got[p]) ELSE got[p])

\* balloc: a block belongs to one owner, and the free map says so, whatever the
\* interleaving of transactions, commits and direct writes of the map.
OneOwner ==
  \A p \in Procs : /\ Owned(p) \subseteq used
                   /\ \A q \in Procs \ {p} : Owned(p) \cap Owned(q) = {}

\* bfree: a block nobody owns is free, but for those whose bfree wrote the map
\* between write_log and install_trans of a commit: these are lost for good.
LostOnlyByRace ==
  (\A p \in Procs : apc[p] # "wlog") => used \ UNION {Owned(p) : p \in Procs} \subseteq raced

\* swap_page_from_pte: the page is kept in RUN blocks in a row, except by the same race,
\* in which install_trans puts the zeros of bzero back over it.
PageKept ==
  \A p \in Swappers : apc[p] = "out" =>
    /\ got[p] = [i \in 1..RUN |-> Head(got[p]) + i - 1]
    /\ \A b \in ToSet(got[p]) \ raced : mem[b] = "page"

\* When nothing can move any more somebody waits in balloc's begin_op with the
\* free map locked, either for a commit that wants the map or for callers that
\* are inside a transaction themselves; nothing else blocks the system.
StuckInBalloc ==
  (~ENABLED Next /\ \E p \in Procs : apc[p] \notin {"idle", "full"}) =>
    \E p \in Procs :
      /\ apc[p] = "bwait" /\ mapOwner = p
      /\ committing \/ \E q \in Filers : nested[q]
=============================================================================
