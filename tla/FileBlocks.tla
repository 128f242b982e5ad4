----------------------------- MODULE FileBlocks -----------------------------
(***************************************************************************)
(* The blocks of a file: mkfs.c, which lays out the first image with a     *)
(* counter, and bmap, readi, writei, itrunc and balloc of fs.c, which go   *)
(* on with it by the bitmap.  A file is checked against the sequence of    *)
(* bytes that was written to it.                                           *)
(*                                                                         *)
(* Blocks have BSIZE bytes and are numbered up to FSSIZE - 1; those below  *)
(* NMETA are not for data; an inode has NDIRECT addresses and one of a     *)
(* block of NINDIRECT more.  Root is the root directory.  Each call is one *)
(* action: inode locks and the log let no other see a part of it.          *)
(***************************************************************************)
EXTENDS Naturals, Sequences, FiniteSets, SequencesExt, FiniteSetsExt

CONSTANTS Files, Root, BSIZE, FSSIZE, NMETA, BPB, NDIRECT, NINDIRECT, Amounts, Values, MaxCalls

VARIABLES
  phase,                  \* "mkfs", then "kernel"; "failed" by an assert of mkfs
  marked, freeblock,      \* the bitmap; mkfs's counter
  bytes, indirect,        \* the blocks, as bytes and as addresses
  addrs, fsize,           \* inodes
  written, fbcalls        \* what the files should hold; calls so far

bvars == <<phase, marked, freeblock, bytes, indirect, addrs, fsize, written, fbcalls>>

Blocks  == 0..FSSIZE - 1
MAXFILE == NDIRECT + NINDIRECT
Zeros   == [i \in 0..BSIZE - 1 |-> 0]
NoAddrs == [i \in 0..NINDIRECT - 1 |-> 0]

Init ==
  /\ phase = "mkfs" /\ marked = {} /\ freeblock = NMETA
  /\ bytes = [b \in Blocks |-> Zeros] /\ indirect = [b \in Blocks |-> NoAddrs]
  /\ addrs = [f \in Files |-> [i \in 0..NDIRECT |-> 0]] /\ fsize = [f \in Files |-> 0]
  /\ written = [f \in Files |-> <<>>] /\ fbcalls = 0

-----------------------------------------------------------------------------

Disk == [marked |-> marked, freeblock |-> freeblock, bytes |-> bytes, indirect |-> indirect,
         addrs |-> addrs]

\* freeblock++ of mkfs, on an image of zeros
Next1(d) == d.freeblock
Counted(d) == [d EXCEPT !.freeblock = @ + 1]

\* balloc: the first free block, zeroed
Free(d) == Min(Blocks \ d.marked)
Balloc(d) == [d EXCEPT !.marked = @ \union {Free(d)},
                       !.bytes[Free(d)] = Zeros, !.indirect[Free(d)] = NoAddrs]

\* which block the next one is, and the disk when it is taken
Fresh(d) == IF phase = "mkfs" THEN Next1(d) ELSE Free(d)
Taken(d) == IF phase = "mkfs" THEN Counted(d) ELSE Balloc(d)

\* bmap, and the same in iappend: the disk with a block at bn
Mapped(d, f, bn) ==
  LET top == IF bn >= NDIRECT /\ d.addrs[f][NDIRECT] = 0
             THEN [Taken(d) EXCEPT !.addrs[f][NDIRECT] = Fresh(d)] ELSE d
      ind == top.addrs[f][NDIRECT]
  IN IF bn < NDIRECT
     THEN IF d.addrs[f][bn] # 0 THEN d
          ELSE [Taken(d) EXCEPT !.addrs[f][bn] = Fresh(d)]
     ELSE IF top.indirect[ind][bn - NDIRECT] # 0 THEN top
          ELSE [Taken(top) EXCEPT !.indirect[ind][bn - NDIRECT] = Fresh(top)]

BlockOf(d, f, bn) ==
  IF bn < NDIRECT THEN d.addrs[f][bn]
  ELSE IF d.addrs[f][NDIRECT] = 0 THEN 0
  ELSE d.indirect[d.addrs[f][NDIRECT]][bn - NDIRECT]

\* the blocks that bytes off to off + n - 1 lie in, mapped one after the
\* other (mutant: the first only)
BadTouched(off, n) == IF n = 0 THEN {} ELSE {off \div BSIZE}
Touched(off, n) == IF n = 0 THEN {} ELSE off \div BSIZE..(off + n - 1) \div BSIZE
MapAll(d, f, off, n) ==
  FoldLeft(LAMBDA s, bn : Mapped(s, f, bn), d, SetToSortSeq(Touched(off, n), <))

\* memmove to each block at off % BSIZE
Filled(d, f, off, n, v) ==
  [d EXCEPT !.bytes = [b \in Blocks |-> [o \in 0..BSIZE - 1 |->
     IF \E i \in off..off + n - 1 : BlockOf(d, f, i \div BSIZE) = b /\ i % BSIZE = o
     THEN v ELSE d.bytes[b][o]]]]

Overwritten(s, off, n, v) ==
  [i \in 1..Max({Len(s), off + n}) |-> IF i - 1 \in off..off + n - 1 THEN v ELSE s[i]]

Set(d) == marked' = d.marked /\ freeblock' = d.freeblock /\ bytes' = d.bytes
          /\ indirect' = d.indirect /\ addrs' = d.addrs
Call == fbcalls < MaxCalls /\ fbcalls' = fbcalls + 1

-----------------------------------------------------------------------------
(* mkfs.                                                                   *)

Iappend(f, n, v) ==
  /\ phase = "mkfs" /\ Call
  /\ LET d == MapAll(Disk, f, fsize[f], n) IN
     IF fsize[f] + n > MAXFILE * BSIZE \/ d.freeblock > FSSIZE
     THEN phase' = "failed" /\ UNCHANGED <<marked, freeblock, bytes, indirect, addrs, fsize, written>>
     ELSE /\ Set(Filled(d, f, fsize[f], n, v))
          /\ fsize' = [fsize EXCEPT ![f] = @ + n]
          /\ written' = [written EXCEPT ![f] = Overwritten(@, fsize[f], n, v)]
          /\ UNCHANGED phase

\* balloc of mkfs: the first `used` bits of the one bitmap block it writes (mutant: one
\* too few)
BadBitmap(used) == 0..used - 2
Bitmap(used) == 0..used - 1

\* the end of main: the size of the root directory is rounded, to one block more when it
\* is full, and the bitmap written.  (There are fewer inodes than entries in the largest
\* directory.)
Finish ==
  /\ phase = "mkfs" /\ fsize[Root] \in 1..MAXFILE * BSIZE - 1
  /\ IF freeblock >= BPB
     THEN phase' = "failed" /\ UNCHANGED <<marked, fsize, written>>
     ELSE LET off == (fsize[Root] \div BSIZE + 1) * BSIZE IN
          /\ phase' = "kernel" /\ marked' = Bitmap(freeblock)
          /\ fsize' = [fsize EXCEPT ![Root] = off]
          /\ written' = [written EXCEPT ![Root] =
                           [i \in 1..off |-> IF i <= Len(@) THEN @[i] ELSE 0]]
  /\ UNCHANGED <<freeblock, bytes, indirect, addrs, fbcalls>>

-----------------------------------------------------------------------------
(* fs.c.                                                                   *)

Enough(d) == Cardinality(Blocks \ d.marked) >= 3      \* else panic "balloc: out of blocks"

Writei(f, off, n, v) ==
  /\ phase = "kernel" /\ off <= fsize[f] /\ off + n <= MAXFILE * BSIZE   \* else -1
  /\ Enough(Disk) /\ Call
  /\ Set(Filled(MapAll(Disk, f, off, n), f, off, n, v))
  /\ fsize' = [fsize EXCEPT ![f] = Max({@, off + n})]
  /\ written' = [written EXCEPT ![f] = Overwritten(@, off, n, v)]
  /\ UNCHANGED phase

\* readi: n is cut at the end of the file; a block that is not there is allocated
Readi(f, off, n) ==
  /\ phase = "kernel" /\ off <= fsize[f] /\ Enough(Disk) /\ Call
  /\ Set(MapAll(Disk, f, off, Min({n, fsize[f] - off})))
  /\ UNCHANGED <<phase, fsize, written>>

\* the blocks of a file (mutant: without the indirect block itself)
BadOwned(d, f) ==
  ({d.addrs[f][i] : i \in 0..NDIRECT - 1} \union
   IF d.addrs[f][NDIRECT] = 0 THEN {} ELSE Range(d.indirect[d.addrs[f][NDIRECT]])) \ {0}
Owned(d, f) ==
  ({d.addrs[f][i] : i \in 0..NDIRECT} \union
   IF d.addrs[f][NDIRECT] = 0 THEN {} ELSE Range(d.indirect[d.addrs[f][NDIRECT]])) \ {0}

\* itrunc; bfree panics when the block is free already
Itrunc(f) ==
  /\ phase = "kernel" /\ Owned(Disk, f) \subseteq marked /\ fbcalls < MaxCalls /\ fbcalls' = fbcalls + 1
  /\ marked' = marked \ Owned(Disk, f)
  /\ addrs' = [addrs EXCEPT ![f] = [i \in 0..NDIRECT |-> 0]]
  /\ fsize' = [fsize EXCEPT ![f] = 0] /\ written' = [written EXCEPT ![f] = <<>>]
  /\ UNCHANGED <<phase, freeblock, bytes, indirect>>

Next ==
  \/ \E f \in Files, n \in Amounts, v \in Values : Iappend(f, n, v)
  \/ Finish
  \/ \E f \in Files, n \in Amounts : \E off \in 0..fsize[f] :
       Readi(f, off, n) \/ \E v \in Values : Writei(f, off, n, v)
  \/ \E f \in Files \ {Root} : Itrunc(f)

Spec == Init /\ [][Next]_bvars

-----------------------------------------------------------------------------

InUse(f) == {BlockOf(Disk, f, bn) : bn \in 0..MAXFILE - 1} \ {0}

\* Reading a file gives what was last written to each of its bytes, whether mkfs or the
\* kernel wrote it, also where it goes over from direct to indirect blocks and in blocks
\* that belonged to another file before.
ReadBack ==
  \A f \in Files : \A i \in 0..fsize[f] - 1 :
    LET b == BlockOf(Disk, f, i \div BSIZE) IN
    written[f][i + 1] = IF b = 0 THEN 0 ELSE bytes[b][i % BSIZE]

\* No block is in two files, or twice in one, and none holds both addresses and bytes.
BlocksOnce ==
  /\ \A f, g \in Files : f # g => InUse(f) \intersect InUse(g) = {}
  /\ \A f \in Files :
       /\ addrs[f][NDIRECT] = 0 \/ addrs[f][NDIRECT] \notin InUse(f)
       /\ \A i, j \in 0..MAXFILE - 1 :
            i # j /\ BlockOf(Disk, f, i) # 0 => BlockOf(Disk, f, i) # BlockOf(Disk, f, j)

\* The bitmap marks the blocks of the files and of the file system itself, and no other:
\* mkfs and the kernel lose no block and give none away that is used, so bfree never meets
\* a free block.
BitmapExact ==
  phase = "kernel" =>
    marked = (0..NMETA - 1) \union
             UNION {InUse(f) \union ({addrs[f][NDIRECT]} \ {0}) : f \in Files}
=============================================================================
