---------------------------- MODULE KernelProofs ----------------------------
(***************************************************************************)
(* Proofs about the parts of module KernelParts, for any sizes: the disk   *)
(* with either driver, by the lemmas of DiskProofs; the swap area; and     *)
(* malloc.  SchedProofs has the schedulers, sleep and the arguments of     *)
(* system calls, ConsoleProofs the console and printing.                   *)
(*                                                                         *)
(* For each part: what is asked of its constants (...Sizes), its inductive *)
(* invariant (...Inv), a lemma for each action, and the theorem that the   *)
(* property checked in MCKernel holds of every behaviour.                  *)
(***************************************************************************)
EXTENDS KernelParts, FiniteSetTheorems, SequenceTheorems, TLAPS

(* Disk, with either driver, by the lemmas of DiskProofs *)

\* What DiskProofs asks of the constants, for both drivers.
DiskSizes == D!Sizes /\ Dm!Sizes

\* The invariant of DiskProofs for the driver that is there.
DiskInv ==
  /\ part = "disk" => D!IInv
  /\ part = "memdisk" => Dm!IInv

LEMMA DiskMoves ==
  ASSUME [PartsNext]_<<part, partsvars>>
  PROVE  /\ part' = part
         /\ part = "disk" => [D!Next]_(D!dvars)
         /\ part = "memdisk" => [Dm!Next]_(Dm!dvars)
         /\ part \notin {"disk", "memdisk"} => UNCHANGED diskvars
<1>1. UNCHANGED diskvars => UNCHANGED D!dvars /\ UNCHANGED Dm!dvars
  BY DEF diskvars, D!dvars, D!cache, D!ide, D!bufs, D!faults, Dm!dvars, Dm!cache, Dm!ide, Dm!bufs, Dm!faults
<1>2. QED
  BY <1>1 DEF PartsNext, partsvars

LEMMA DiskInvInit == ASSUME DiskSizes, PartsInit PROVE DiskInv
<1>1. D!Init /\ (D!Init => Dm!Init)
  BY DEF PartsInit, D!Init, Dm!Init, D!Bufs, Dm!Bufs, D!Off, Dm!Off
<1>2. QED
  BY <1>1, D!InitInv, Dm!InitInv DEF DiskSizes, DiskInv

LEMMA DiskInvNext == ASSUME DiskSizes PROVE DiskInv /\ [PartsNext]_<<part, partsvars>> => DiskInv'
<1> SUFFICES ASSUME DiskInv, [PartsNext]_<<part, partsvars>> PROVE DiskInv'
  OBVIOUS
<1>1. CASE part = "disk"
  <2>1. D!Sizes /\ D!IInv /\ [D!Next]_(D!dvars) /\ part' = "disk"
    BY <1>1, DiskMoves DEF DiskInv, DiskSizes
  <2>2. D!IInv'
    BY <2>1, D!NextInv
  <2>3. QED
    BY <2>1, <2>2 DEF DiskInv
<1>2. CASE part = "memdisk"
  <2>1. Dm!Sizes /\ Dm!IInv /\ [Dm!Next]_(Dm!dvars) /\ part' = "memdisk"
    BY <1>2, DiskMoves DEF DiskInv, DiskSizes
  <2>2. Dm!IInv'
    BY <2>1, Dm!NextInv
  <2>3. QED
    BY <2>1, <2>2 DEF DiskInv
<1>3. CASE part \notin {"disk", "memdisk"}
  BY <1>3, DiskMoves DEF DiskInv
<1>4. QED
  BY <1>1, <1>2, <1>3

\* What the invariant says does not depend on the driver.
LEMMA DiskMeans == ASSUME DiskSizes PROVE DiskInv => DiskConsistent
<1> SUFFICES ASSUME DiskInv PROVE DiskConsistent
  OBVIOUS
<1>1. CASE part = "disk"
  <2>1. D!Sizes /\ D!IInv
    BY <1>1 DEF DiskInv, DiskSizes
  <2>2. QED
    BY <2>1, D!BuffersTyped, D!BufferFound, D!OneBuffer, D!QueueRight DEF DiskConsistent
<1>2. CASE part = "memdisk"
  <2>1. Dm!Sizes /\ Dm!IInv
    BY <1>2 DEF DiskInv, DiskSizes
  <2>2. Dm!TypeOK /\ Dm!BufferWhenRoom /\ Dm!OneBufferPerBlock /\ Dm!QueueInOrder /\ Dm!SleepersQueued
    BY <2>1, Dm!BuffersTyped, Dm!BufferFound, Dm!OneBuffer, Dm!QueueRight
  <2>3. D!TypeOK
    BY <2>2 DEF D!TypeOK, Dm!TypeOK, D!Bufs, Dm!Bufs, D!BPcs, Dm!BPcs, D!Range, Dm!Range,
                D!Cardinality, Dm!Cardinality
  <2>4. D!BufferWhenRoom
    BY <2>2 DEF D!BufferWhenRoom, Dm!BufferWhenRoom, D!Unused, Dm!Unused, D!Bufs, Dm!Bufs
  <2>5. D!OneBufferPerBlock
    BY <2>2 DEF D!OneBufferPerBlock, Dm!OneBufferPerBlock, D!Cached, Dm!Cached, D!Bufs, Dm!Bufs,
                D!Cardinality, Dm!Cardinality
  <2>6. D!QueueInOrder /\ D!SleepersQueued
    BY <2>2 DEF D!QueueInOrder, Dm!QueueInOrder, D!SleepersQueued, Dm!SleepersQueued, D!Range, Dm!Range
  <2>7. QED
    BY <2>3, <2>4, <2>5, <2>6 DEF DiskConsistent
<1>3. CASE part \notin {"disk", "memdisk"}
  BY <1>3 DEF DiskConsistent
<1>4. QED
  BY <1>1, <1>2, <1>3

\* With either driver every buffer has its block and is counted, the driver's queue is in
\* order, and no sleeper of iderw is forgotten.
THEOREM DiskSafe ==
  ASSUME DiskSizes
  PROVE  PartsSpec => []DiskConsistent
<1>1. PartsInit => DiskInv
  BY DiskInvInit
<1>2. QED
  BY <1>1, DiskInvNext, DiskMeans, PTL DEF PartsSpec

\* what the store shows, for the driver that is there
DiskShown ==
  /\ part = "disk" => D!ContentShown
  /\ part = "memdisk" => Dm!ContentShown

LEMMA DiskShows == ASSUME DiskSizes PROVE DiskInv => DiskShown
BY D!ContentIs, Dm!ContentIs DEF DiskInv, DiskShown, DiskSizes, D!IInv, Dm!IInv

\* a step of the parts is one of the store, or none
LEMMA DiskStores ==
  ASSUME DiskSizes
  PROVE  DiskInv /\ DiskInv' /\ DiskShown /\ DiskShown' /\ [PartsNext]_<<part, partsvars>> =>
           [(part \in {"disk", "memdisk"} => D!Store!Next)]_<<D!Content, diskGot, diskFailed>>
<1> SUFFICES ASSUME DiskInv, DiskInv', DiskShown, DiskShown', [PartsNext]_<<part, partsvars>>
             PROVE  [(part \in {"disk", "memdisk"} => D!Store!Next)]_<<D!Content, diskGot, diskFailed>>
  OBVIOUS
<1>1. CASE part = "disk"
  <2>1. D!Sizes /\ D!IInv /\ D!IInv' /\ [D!Next]_(D!dvars)
    BY <1>1, DiskMoves DEF DiskInv, DiskSizes
  <2>2. D!ContentShown /\ D!ContentShown'
    BY <1>1, DiskMoves DEF DiskShown
  <2>3. [D!Store!Next]_(D!Store!vars)
    BY <2>1, <2>2, D!StoreStep
  <2>4. QED
    BY <2>3 DEF D!Store!vars
<1>2. CASE part = "memdisk"
  <2>1. Dm!Sizes /\ Dm!IInv /\ Dm!IInv' /\ [Dm!Next]_(Dm!dvars)
    BY <1>2, DiskMoves DEF DiskInv, DiskSizes
  <2>2. Dm!ContentShown /\ Dm!ContentShown'
    BY <1>2, DiskMoves DEF DiskShown
  <2>3. [Dm!Store!Next]_(Dm!Store!vars)
    BY <2>1, <2>2, Dm!StoreStep
  <2>4. Dm!Content = D!Content /\ Dm!Content' = D!Content'
    BY DEF D!Content, Dm!Content, D!Held, Dm!Held, D!Cached, Dm!Cached, D!Bufs, Dm!Bufs
  <2>5. Dm!Store!Next => D!Store!Next
    BY <2>4 DEF D!Store!Next, Dm!Store!Next, D!Store!Read, Dm!Store!Read, D!Store!Write, Dm!Store!Write,
                D!Store!Forget, Dm!Store!Forget, D!Store!Fail, Dm!Store!Fail
  <2>6. QED
    BY <2>3, <2>4, <2>5 DEF Dm!Store!vars
<1>3. CASE part \notin {"disk", "memdisk"}
  <2>1. UNCHANGED diskvars
    BY <1>3, DiskMoves
  <2>2. D!Content' = D!Content
    BY <2>1 DEF diskvars, D!Content, D!Held, D!Cached, D!Bufs
  <2>3. QED
    BY <2>1, <2>2 DEF diskvars
<1>4. QED
  BY <1>1, <1>2, <1>3

\* The cache on either driver is a store of blocks.
THEOREM DiskRefines ==
  ASSUME DiskSizes
  PROVE  PartsSpec => DiskImplementsStore
<1>1. PartsInit => DiskInv
  BY DiskInvInit
<1>2. PartsInit => D!Store!Init
  BY D!StoreInit DEF PartsInit, DiskSizes
<1>3. QED
  BY <1>1, <1>2, DiskInvNext, DiskShows, DiskStores, PTL DEF PartsSpec, DiskImplementsStore


LEMMA Induct ==
  ASSUME NEW S, 0 \in S, \A n \in Nat : n \in S => n + 1 \in S
  PROVE  Nat \subseteq S
<1> SUFFICES ASSUME Nat \ S # {} PROVE FALSE
  OBVIOUS
<1>1. PICK m \in Nat \ S : \A n \in Nat \ S : m <= n
  BY D!Least
<1>2. m # 0 /\ m - 1 \in Nat /\ ~(m <= m - 1) /\ (m - 1) + 1 = m
  BY <1>1
<1>3. m - 1 \in S
  BY <1>1, <1>2
<1>4. QED
  BY <1>1, <1>2, <1>3

Distinct(s) == \A i, j \in 1..Len(s) : s[i] = s[j] => i = j

LEMMA ToSetAppend ==
  ASSUME NEW X, NEW s \in Seq(X), NEW x \in X
  PROVE  /\ Append(s, x) \in Seq(X) /\ W!Front(Append(s, x)) = s /\ W!Last(Append(s, x)) = x
         /\ Append(s, x) # <<>> /\ W!ToSet(Append(s, x)) = W!ToSet(s) \cup {x}
         /\ Distinct(s) /\ x \notin W!ToSet(s) => Distinct(Append(s, x))
<1>1. Append(s, x) \in Seq(X) /\ Append(s, x) # <<>>
  <2>1. Append(s, x) \in Seq(X) /\ Len(Append(s, x)) = Len(s) + 1 /\ Len(s) \in Nat
    OBVIOUS
  <2>2. Len(Append(s, x)) # 0
    BY <2>1
  <2>3. QED
    BY <2>1, <2>2
<1>2. PICK n : n = Len(s)
  OBVIOUS
<1>3. /\ n \in Nat /\ Len(Append(s, x)) = n + 1 /\ DOMAIN s = 1..n /\ DOMAIN Append(s, x) = 1..n + 1
      /\ \A i \in 1..n : Append(s, x)[i] = s[i]
      /\ Append(s, x)[n + 1] = x
  BY <1>2
<1>4. W!Last(Append(s, x)) = x
  BY <1>3 DEF W!Last
<1>5. W!Front(Append(s, x)) = s
  BY <1>1, <1>2, <1>3 DEF W!Front
<1>6. W!ToSet(Append(s, x)) = W!ToSet(s) \cup {x}
  BY <1>3 DEF W!ToSet
<1>7. ASSUME Distinct(s), x \notin W!ToSet(s) PROVE Distinct(Append(s, x))
  BY <1>2, <1>3, <1>7 DEF Distinct, W!ToSet
<1>8. QED
  BY <1>1, <1>4, <1>5, <1>6, <1>7

LEMMA ToSetTail ==
  ASSUME NEW X, NEW s \in Seq(X), s # <<>>
  PROVE  /\ Tail(s) \in Seq(X) /\ Head(s) \in X /\ W!ToSet(s) = W!ToSet(Tail(s)) \cup {Head(s)}
         /\ Len(Tail(s)) = Len(s) - 1 /\ \A i \in 1..Len(s) - 1 : Tail(s)[i] = s[i + 1]
         /\ Distinct(s) => Distinct(Tail(s)) /\ Head(s) \notin W!ToSet(Tail(s))
<1>1. Tail(s) \in Seq(X) /\ Head(s) \in X
  OBVIOUS
<1>2. PICK n : n = Len(s)
  OBVIOUS
<1>3. /\ n \in Nat /\ n > 0 /\ Len(Tail(s)) = n - 1 /\ DOMAIN s = 1..n /\ DOMAIN Tail(s) = 1..n - 1
      /\ \A i \in 1..n - 1 : Tail(s)[i] = s[i + 1]
      /\ Head(s) = s[1]
  BY <1>2
<1>4. W!ToSet(s) = W!ToSet(Tail(s)) \cup {Head(s)}
  <2>1. ASSUME NEW i \in 1..n PROVE s[i] = Head(s) \/ s[i] \in W!ToSet(Tail(s))
    <3>1. CASE i = 1
      BY <1>3, <3>1
    <3>2. CASE i # 1
      <4>1. i - 1 \in 1..n - 1 /\ (i - 1) + 1 = i
        BY <1>3, <3>2
      <4>2. QED
        BY <1>3, <4>1 DEF W!ToSet
    <3>3. QED
      BY <3>1, <3>2
  <2>2. \A i \in 1..n - 1 : i + 1 \in 1..n
    BY <1>3
  <2>3. QED
    BY <1>3, <2>1, <2>2 DEF W!ToSet
<1>5. ASSUME Distinct(s) PROVE Distinct(Tail(s)) /\ Head(s) \notin W!ToSet(Tail(s))
  <2>1. \A i \in 1..n - 1 : i + 1 \in 1..n /\ i + 1 # 1
    BY <1>3
  <2>2. \A i, j \in 1..n - 1 : i + 1 = j + 1 => i = j
    BY <1>3
  <2>3. Distinct(Tail(s))
    BY <1>2, <1>3, <1>5, <2>1, <2>2 DEF Distinct
  <2>4. 1 \in 1..n
    BY <1>3
  <2>5. Head(s) \notin W!ToSet(Tail(s))
    BY <1>2, <1>3, <1>5, <2>1, <2>4 DEF Distinct, W!ToSet
  <2>6. QED
    BY <2>3, <2>5
<1>6. QED
  BY <1>1, <1>2, <1>3, <1>4, <1>5

LEMMA ToSetLast ==
  ASSUME NEW X, NEW s \in Seq(X), s # <<>>
  PROVE  /\ W!Last(s) \in X /\ W!ToSet(s) = W!ToSet(W!Front(s)) \cup {W!Last(s)}
         /\ Distinct(s) => W!Last(s) \notin W!ToSet(W!Front(s))
<1>2. PICK n : n = Len(s)
  OBVIOUS
<1>3. /\ n \in Nat /\ n > 0 /\ DOMAIN s = 1..n /\ W!Last(s) = s[n] /\ W!Last(s) \in X
  BY <1>2 DEF W!Last
<1>4. DOMAIN W!Front(s) = 1..n - 1 /\ \A i \in 1..n - 1 : W!Front(s)[i] = s[i]
  <2>1. n - 1 \in Nat
    BY <1>3
  <2>2. QED
    BY <1>2, <1>3, <2>1 DEF W!Front
<1>5. \A i \in 1..n : i = n \/ i \in 1..n - 1
  BY <1>3
<1>6. \A i \in 1..n - 1 : i \in 1..n /\ i # n
  BY <1>3
<1>7. n \in 1..n
  BY <1>3
<1>8. W!ToSet(s) = W!ToSet(W!Front(s)) \cup {W!Last(s)}
  BY <1>3, <1>4, <1>5, <1>6, <1>7 DEF W!ToSet
<1>9. ASSUME Distinct(s) PROVE W!Last(s) \notin W!ToSet(W!Front(s))
  BY <1>2, <1>3, <1>4, <1>6, <1>7, <1>9 DEF W!ToSet, Distinct
<1>10. QED
  BY <1>3, <1>8, <1>9

-----------------------------------------------------------------------------
SwapSizes ==
  /\ IsFiniteSet(Filers) /\ IsFiniteSet(Swappers) /\ Filers \cap Swappers = {}
  /\ NoProc \notin Filers \cup Swappers
  /\ NBLOCKS \in Nat /\ RUN \in Nat \ {0}

Transacting == {"mark", "zero", "endop"}
Contents == {"old", "zero", "page"}

SwapTypes ==
  /\ swapUsed \subseteq W!Blocks /\ mapLog \subseteq W!Blocks
  /\ swapMem \in [W!Blocks -> Contents] /\ dataLog \in [W!Blocks -> Contents]
  /\ mapOwner \in W!Procs \cup {NoProc} /\ lh \subseteq W!Blocks \cup {W!MAP}
  /\ committing \in BOOLEAN /\ apc \in [W!Procs -> W!APcs]
  /\ swapGot \in [W!Procs -> Seq(W!Blocks)] /\ nested \in [W!Procs -> BOOLEAN]

\* Where filers and swappers can be; a filer has a transaction open from begin_op to end_op.
Places ==
  /\ \A p \in Filers : /\ apc[p] \notin {"trim", "pwrite", "out", "pfree"}
                       /\ nested[p] <=> apc[p] \notin {"idle", "wlog", "install"}
  /\ \A p \in Swappers : apc[p] # "open" /\ ~nested[p]

MapHeld == \A p \in W!Procs : mapOwner = p <=> apc[p] \in {"bwait", "mark"}

\* outstanding counts the transactions of callers and those of balloc.
InCall    == {p \in W!Procs : nested[p]}
InBalloc  == {p \in W!Procs : apc[p] \in Transacting}
Counting  == outstanding = Cardinality(InCall) + Cardinality(InBalloc)

\* There is one commit, and nobody in a transaction while it lasts.
Commits ==
  /\ committing => outstanding = 0
  /\ \A p \in W!Procs : apc[p] \in {"wlog", "install"} => committing
  /\ \A p, q \in W!Procs : apc[p] \in {"wlog", "install"} /\ apc[q] \in {"wlog", "install"} => p = q

\* What install_trans will copy is what is there, but for what was written past the log.
InLog ==
  \A q \in W!Procs : apc[q] = "install" =>
    /\ W!MAP \in lh => swapUsed \subseteq mapLog /\ mapLog \ swapUsed \subseteq swapRaced
    /\ \A b \in W!Blocks : b \in lh => b \in swapRaced \/ dataLog[b] = swapMem[b]

\* A block that balloc has found is still free until it is marked, for balloc has the map.
Found ==
  \A p \in W!Procs :
    /\ Distinct(swapGot[p])
    /\ apc[p] \in {"bwait", "mark", "zero"} => swapGot[p] # <<>>
    /\ apc[p] \in {"bwait", "mark"} => W!Last(swapGot[p]) \notin swapUsed

Lost == swapUsed \ UNION {W!Owned(p) : p \in W!Procs} \subseteq swapRaced

\* balloc_page ends with a run of blocks, and the page is written to it.
RunFound(p) ==
  /\ Len(swapGot[p]) >= RUN
  /\ \A i \in 1..RUN - 1 :
       swapGot[p][Len(swapGot[p]) - i + 1] = swapGot[p][Len(swapGot[p]) - i] + 1

Runs ==
  \A p \in Swappers :
    /\ apc[p] = "trim" => RunFound(p)
    /\ apc[p] \in {"pwrite", "out"} =>
         Len(swapGot[p]) = RUN /\ \A i \in 1..RUN - 1 : swapGot[p][i + 1] = swapGot[p][i] + 1
    /\ apc[p] = "out" => \A b \in W!ToSet(swapGot[p]) \ swapRaced : swapMem[b] = "page"

SwapInv ==
  SwapTypes /\ Places /\ MapHeld /\ Counting /\ Commits /\ InLog /\ Found /\ W!OneOwner /\ Lost /\ Runs

LEMMA ProcsFinite ==
  ASSUME SwapSizes
  PROVE  IsFiniteSet(W!Procs) /\ NoProc \notin W!Procs /\ W!MAP \notin W!Blocks /\ W!Blocks \subseteq Nat
<1>1. IsFiniteSet(W!Procs)
  BY FS_Union DEF SwapSizes, W!Procs
<1>2. NoProc \notin W!Procs /\ W!MAP \notin W!Blocks /\ W!Blocks \subseteq Nat
  BY DEF SwapSizes, W!Procs, W!MAP, W!Blocks
<1>3. QED
  BY <1>1, <1>2

LEMMA Counts ==
  ASSUME SwapSizes
  PROVE  /\ IsFiniteSet(InCall) /\ Cardinality(InCall) \in Nat
         /\ IsFiniteSet(InBalloc) /\ Cardinality(InBalloc) \in Nat
<1>1. IsFiniteSet(W!Procs)
  BY ProcsFinite
<1>2. InCall \subseteq W!Procs /\ InBalloc \subseteq W!Procs
  BY DEF InCall, InBalloc
<1>3. IsFiniteSet(InCall) /\ IsFiniteSet(InBalloc)
  BY <1>1, <1>2, FS_Subset
<1>4. QED
  BY <1>3, FS_CardinalityType

LEMMA CommitAlone ==
  ASSUME SwapSizes, SwapInv, committing
  PROVE  \A p \in W!Procs : ~nested[p] /\ apc[p] \notin Transacting
<1>1. outstanding = 0 /\ outstanding = Cardinality(InCall) + Cardinality(InBalloc)
  BY DEF SwapInv, Commits, Counting
<1>2. Cardinality(InCall) = 0 /\ Cardinality(InBalloc) = 0
  BY <1>1, Counts
<1>3. InCall = {} /\ InBalloc = {}
  BY <1>2, Counts, FS_EmptySet
<1>4. QED
  BY <1>3 DEF InCall, InBalloc

\* As long as a process keeps its blocks and is not about to mark one, it owns the same.
LEMMA OwnedSame ==
  ASSUME NEW p \in W!Procs, swapGot'[p] = swapGot[p],
         apc'[p] \in {"bwait", "mark"} <=> apc[p] \in {"bwait", "mark"}
  PROVE  W!Owned(p)' = W!Owned(p)
<1>1. CASE apc[p] \in {"bwait", "mark"}
  <2>1. apc'[p] \in {"bwait", "mark"}
    BY <1>1
  <2>2. QED
    BY <1>1, <2>1 DEF W!Owned
<1>2. CASE apc[p] \notin {"bwait", "mark"}
  <2>1. apc'[p] \notin {"bwait", "mark"}
    BY <1>2
  <2>2. QED
    BY <1>2, <2>1 DEF W!Owned
<1>3. QED
  BY <1>1, <1>2

LEMMA CountSame ==
  ASSUME SwapInv, UNCHANGED <<outstanding, nested>>,
         \A p \in W!Procs : apc'[p] \in Transacting <=> apc[p] \in Transacting
  PROVE  Counting'
<1>1. InCall' = InCall /\ InBalloc' = InBalloc
  BY DEF InCall, InBalloc
<1>2. QED
  BY <1>1 DEF SwapInv, Counting

\* A step of p that leaves map, blocks and logs alone and goes on to l.
LEMMA Walks ==
  ASSUME SwapSizes, SwapInv, NEW p \in W!Procs, NEW l \in W!APcs, apc' = [apc EXCEPT ![p] = l],
         UNCHANGED <<swapUsed, swapMem, mapLog, dataLog, mapOwner, lh, swapGot, swapRaced>>,
         apc[p] \in {"bwait", "mark"} <=> l \in {"bwait", "mark"},
         l \notin {"install", "zero", "pwrite", "out"}, l = "trim" => RunFound(p)
  PROVE  /\ apc'[p] = l /\ \A q \in W!Procs \ {p} : apc'[q] = apc[q]
         /\ apc' \in [W!Procs -> W!APcs]
         /\ MapHeld' /\ InLog' /\ Found' /\ W!OneOwner' /\ Lost' /\ Runs'
<1>1. /\ apc'[p] = l /\ \A q \in W!Procs \ {p} : apc'[q] = apc[q]
      /\ apc' \in [W!Procs -> W!APcs]
  BY DEF SwapInv, SwapTypes
<1>2. MapHeld'
  BY <1>1 DEF SwapInv, MapHeld
<1>3. InLog'
  BY <1>1 DEF SwapInv, InLog
<1>4. Found'
  BY <1>1 DEF SwapInv, Found
<1>5. \A q \in W!Procs : W!Owned(q)' = W!Owned(q)
  BY <1>1, OwnedSame
<1>6. W!OneOwner'
  BY <1>5 DEF SwapInv, W!OneOwner
<1>7. Lost'
  BY <1>5 DEF SwapInv, Lost
<1>8. Runs'
  BY <1>1 DEF SwapInv, Runs, RunFound, W!Procs
<1>9. QED
  BY <1>1, <1>2, <1>3, <1>4, <1>6, <1>7, <1>8

LEMMA SwapInit == ASSUME SwapSizes, W!Init PROVE SwapInv
<1>1. SwapTypes
  <2>1. /\ swapUsed = {} /\ mapLog = {} /\ swapMem = [b \in W!Blocks |-> "old"] /\ dataLog = swapMem
        /\ mapOwner = NoProc /\ lh = {} /\ committing = FALSE
        /\ apc = [p \in W!Procs |-> "idle"] /\ swapGot = [p \in W!Procs |-> <<>>]
        /\ nested = [p \in W!Procs |-> FALSE]
    BY DEF W!Init
  <2>2. swapMem \in [W!Blocks -> Contents] /\ dataLog \in [W!Blocks -> Contents]
    BY <2>1 DEF Contents
  <2>3. apc \in [W!Procs -> W!APcs]
    BY <2>1 DEF W!APcs
  <2>4. swapGot \in [W!Procs -> Seq(W!Blocks)]
    BY <2>1
  <2>5. nested \in [W!Procs -> BOOLEAN]
    BY <2>1
  <2>6. QED
    BY <2>1, <2>2, <2>3, <2>4, <2>5 DEF SwapTypes
<1>15. MapHeld
  BY ProcsFinite DEF W!Init, MapHeld
<1>2. Places /\ Commits /\ InLog
  BY DEF W!Init, Places, Commits, InLog, W!Procs
<1>3. Counting
  <2>1. InCall = {} /\ InBalloc = {}
    BY DEF W!Init, InCall, InBalloc, Transacting
  <2>2. QED
    BY <2>1, FS_EmptySet DEF W!Init, Counting
<1>4. \A p \in W!Procs : swapGot[p] = <<>> /\ apc[p] = "idle"
  BY DEF W!Init
<1>5. Found
  <2>1. Distinct(<<>>)
    BY DEF Distinct
  <2>2. QED
    BY <1>4, <2>1 DEF Found
<1>6. W!OneOwner
  <2>1. W!ToSet(<<>>) = {}
    BY DEF W!ToSet
  <2>2. \A p \in W!Procs : W!Owned(p) = {}
    BY <1>4, <2>1 DEF W!Owned
  <2>3. QED
    BY <2>2 DEF W!OneOwner
<1>7. Lost /\ Runs
  BY <1>4 DEF W!Init, Lost, Runs, W!Procs
<1>8. QED
  BY <1>1, <1>15, <1>2, <1>3, <1>5, <1>6, <1>7 DEF SwapInv

\* Where a process goes after an end_op.
LEMMA AfterEndIs ==
  ASSUME SwapSizes, NEW p \in W!Procs
  PROVE  /\ p \in Filers => W!AfterEnd(p) = IF nested[p] THEN "open" ELSE "idle"
         /\ p \notin Filers => W!AfterEnd(p) \in {"trim", "scan"}
         /\ W!AfterEnd(p) = "trim" => RunFound(p)
BY DEF W!AfterEnd, RunFound

LEMMA SwapOpen ==
  ASSUME SwapSizes, SwapInv, NEW p \in W!Procs, W!Open(p) PROVE SwapInv'
<1>1. /\ apc[p] = "idle" /\ p \in Filers /\ ~committing /\ apc' = [apc EXCEPT ![p] = "scan"]
      /\ outstanding' = outstanding + 1 /\ nested' = [nested EXCEPT ![p] = TRUE]
      /\ UNCHANGED <<swapUsed, swapMem, mapLog, dataLog, lh, committing, mapOwner, swapGot, swapRaced>>
  BY DEF W!Open, W!MustWait, W!Goto
<1>2. /\ apc'[p] = "scan" /\ \A q \in W!Procs \ {p} : apc'[q] = apc[q]
      /\ apc' \in [W!Procs -> W!APcs]
      /\ MapHeld' /\ InLog' /\ Found' /\ W!OneOwner' /\ Lost' /\ Runs'
  <2>1. "scan" \in W!APcs
    BY DEF W!APcs
  <2>2. QED
    BY <1>1, <2>1, Walks
<1>3. nested'[p] = TRUE /\ ~nested[p] /\ \A q \in W!Procs \ {p} : nested'[q] = nested[q]
  BY <1>1 DEF SwapInv, SwapTypes, Places
<1>4. SwapTypes'
  BY <1>1, <1>2 DEF SwapInv, SwapTypes
<1>5. Places'
  BY <1>1, <1>2, <1>3 DEF SwapInv, Places, W!Procs, SwapSizes
<1>6. Counting'
  <2>1. InCall' = InCall \cup {p} /\ p \notin InCall
    BY <1>3 DEF InCall
  <2>2. InBalloc' = InBalloc
    BY <1>1, <1>2 DEF InBalloc, Transacting
  <2>3. Cardinality(InCall') = Cardinality(InCall) + 1
    BY <2>1, Counts, FS_AddElement
  <2>4. QED
    BY <1>1, <2>2, <2>3, Counts DEF SwapInv, Counting
<1>7. Commits'
  BY <1>1, <1>2 DEF SwapInv, Commits
<1>8. QED
  BY <1>2, <1>4, <1>5, <1>6, <1>7 DEF SwapInv

LEMMA SwapEndOp ==
  ASSUME SwapSizes, SwapInv, NEW p \in W!Procs, W!EndOp(p) PROVE SwapInv'
<1>1. /\ apc[p] \in {"endop", "open"} /\ outstanding' = outstanding - 1
      /\ nested' = (IF apc[p] = "open" THEN [nested EXCEPT ![p] = FALSE] ELSE nested)
      /\ UNCHANGED <<swapUsed, swapMem, mapLog, dataLog, lh, mapOwner, swapGot, swapRaced>>
  BY DEF W!EndOp
<1>2. /\ apc[p] = "open" => p \in Filers
      /\ p \in Filers => nested[p] /\ p \in InCall
      /\ apc[p] = "endop" => p \in InBalloc
  BY <1>1 DEF SwapInv, Places, InCall, InBalloc, Transacting, W!Procs
<1>3. ~committing
  BY <1>1, <1>2, CommitAlone DEF Transacting
<1>4. PICK l : /\ apc' = [apc EXCEPT ![p] = l]
               /\ \/ outstanding = 1 /\ committing' = TRUE /\ l = "wlog"
                  \/ committing' = committing /\ l = (IF apc[p] = "open" THEN "idle" ELSE W!AfterEnd(p))
  BY DEF W!EndOp, W!Goto
<1>5. /\ l \in {"wlog", "idle", "open", "trim", "scan"} /\ (l = "trim" => RunFound(p))
      /\ p \in Filers /\ l # "wlog" => l = IF apc[p] = "open" THEN "idle" ELSE "open"
      /\ p \notin Filers => l \in {"wlog", "trim", "scan"}
  BY <1>1, <1>2, <1>4, AfterEndIs
<1>6. /\ apc'[p] = l /\ \A q \in W!Procs \ {p} : apc'[q] = apc[q]
      /\ apc' \in [W!Procs -> W!APcs]
      /\ MapHeld' /\ InLog' /\ Found' /\ W!OneOwner' /\ Lost' /\ Runs'
  <2>1. /\ l \in W!APcs /\ l \notin {"install", "zero", "pwrite", "out"}
        /\ (apc[p] \in {"bwait", "mark"} <=> l \in {"bwait", "mark"})
    BY <1>1, <1>5 DEF W!APcs
  <2>2. QED
    BY <1>1, <1>4, <1>5, <2>1, Walks
<1>7. SwapTypes'
  <2>1. nested' \in [W!Procs -> BOOLEAN]
    BY <1>1 DEF SwapInv, SwapTypes
  <2>2. committing' \in BOOLEAN
    <3>1. CASE committing' = TRUE
      BY <3>1
    <3>2. CASE committing' = committing
      BY <3>2 DEF SwapInv, SwapTypes
    <3>3. QED
      BY <1>4, <3>1, <3>2
  <2>3. QED
    BY <1>1, <1>6, <2>1, <2>2 DEF SwapInv, SwapTypes
<1>8. /\ \A q \in W!Procs \ {p} : nested'[q] = nested[q]
      /\ nested'[p] = IF apc[p] = "open" THEN FALSE ELSE nested[p]
  BY <1>1 DEF SwapInv, SwapTypes
<1>9. p \in Filers /\ apc[p] = "endop" => l # "wlog"
  <2> SUFFICES ASSUME p \in Filers, apc[p] = "endop", l = "wlog" PROVE FALSE
    OBVIOUS
  <2>1. outstanding = 1
    BY <1>2, <1>4, AfterEndIs
  <2>2. Cardinality(InCall) # 0 /\ Cardinality(InBalloc) # 0
    BY <1>2, Counts, FS_EmptySet
  <2>3. QED
    BY <2>1, <2>2, Counts DEF SwapInv, Counting
<1>10. Places'
  <2>1. ASSUME NEW q \in W!Procs, q # p
        PROVE  (apc'[q] = apc[q]) /\ (nested'[q] = nested[q])
    BY <1>6, <1>8, <2>1
  <2>2. CASE p \in Filers
    <3>1. apc[p] = "open" => l \in {"idle", "wlog"} /\ ~nested'[p]
      BY <1>5, <1>8, <2>2
    <3>2. apc[p] = "endop" => l = "open" /\ nested'[p]
      BY <1>2, <1>5, <1>8, <1>9, <2>2
    <3>3. QED
      BY <1>1, <1>6, <2>1, <2>2, <3>1, <3>2 DEF SwapInv, Places, W!Procs, SwapSizes
  <2>3. CASE p \notin Filers
    <3>1. l \in {"wlog", "trim", "scan"} /\ nested'[p] = nested[p]
      BY <1>2, <1>5, <1>8, <2>3
    <3>2. QED
      BY <1>6, <2>1, <2>3, <3>1 DEF SwapInv, Places, W!Procs, SwapSizes
  <2>4. QED
    BY <2>2, <2>3
<1>11. Counting'
  <2>1. CASE apc[p] = "open"
    <3>1. InCall' = InCall \ {p} /\ p \in InCall
      BY <1>2, <1>8, <2>1 DEF InCall
    <3>2. InBalloc' = InBalloc
      BY <1>5, <1>6, <2>1 DEF InBalloc, Transacting
    <3>3. Cardinality(InCall') = Cardinality(InCall) - 1
      BY <3>1, Counts, FS_RemoveElement
    <3>4. QED
      BY <1>1, <3>2, <3>3, Counts DEF SwapInv, Counting
  <2>2. CASE apc[p] = "endop"
    <3>1. InBalloc' = InBalloc \ {p} /\ p \in InBalloc
      BY <1>2, <1>5, <1>6, <2>2 DEF InBalloc, Transacting
    <3>2. InCall' = InCall
      BY <1>1, <2>2 DEF InCall
    <3>3. Cardinality(InBalloc') = Cardinality(InBalloc) - 1
      BY <3>1, Counts, FS_RemoveElement
    <3>4. QED
      BY <1>1, <3>2, <3>3, Counts DEF SwapInv, Counting
  <2>3. QED
    BY <1>1, <2>1, <2>2
<1>12. Commits'
  <2>1. \A q \in W!Procs : apc[q] \notin {"wlog", "install"}
    BY <1>3 DEF SwapInv, Commits
  <2>2. CASE outstanding = 1 /\ committing' = TRUE /\ l = "wlog"
    BY <1>1, <1>6, <2>1, <2>2 DEF Commits
  <2>3. CASE committing' = committing /\ l = (IF apc[p] = "open" THEN "idle" ELSE W!AfterEnd(p))
    <3>1. l # "wlog"
      BY <2>3, AfterEndIs
    <3>2. QED
      BY <1>3, <1>5, <1>6, <2>1, <2>3, <3>1 DEF Commits
  <2>4. QED
    BY <1>4, <2>2, <2>3
<1>13. QED
  BY <1>6, <1>7, <1>10, <1>11, <1>12 DEF SwapInv

LEMMA SwapWalks ==
  ASSUME SwapSizes, SwapInv, NEW p \in W!Procs,
         W!OutOfBlocks(p) \/ W!BallocBegin(p) \/ W!SwapOut(p) \/ W!SwapIn(p)
  PROVE  SwapInv'
<1>1. PICK l : /\ apc' = [apc EXCEPT ![p] = l]
               /\ \/ apc[p] = "scan" /\ l = "full" /\ outstanding' = outstanding
                  \/ apc[p] = "bwait" /\ l = "mark" /\ outstanding' = outstanding + 1 /\ ~committing
                  \/ apc[p] = "idle" /\ p \in Swappers /\ l = "scan" /\ outstanding' = outstanding
                  \/ apc[p] = "out" /\ l = "pfree" /\ outstanding' = outstanding
               /\ UNCHANGED <<swapUsed, swapMem, mapLog, dataLog, lh, mapOwner, swapGot, swapRaced, nested, committing>>
  BY DEF W!OutOfBlocks, W!BallocBegin, W!SwapOut, W!SwapIn, W!Goto, W!MustWait, W!alog
<1>2. /\ apc'[p] = l /\ \A q \in W!Procs \ {p} : apc'[q] = apc[q]
      /\ apc' \in [W!Procs -> W!APcs]
      /\ MapHeld' /\ InLog' /\ Found' /\ W!OneOwner' /\ Lost' /\ Runs'
  <2>1. /\ l \in W!APcs /\ l \notin {"install", "zero", "pwrite", "out", "trim"}
        /\ (apc[p] \in {"bwait", "mark"} <=> l \in {"bwait", "mark"})
    BY <1>1 DEF W!APcs
  <2>2. QED
    BY <1>1, <2>1, Walks
<1>3. SwapTypes'
  BY <1>1, <1>2 DEF SwapInv, SwapTypes
<1>4. Places'
  BY <1>1, <1>2 DEF SwapInv, Places, W!Procs, SwapSizes
<1>5. Commits'
  BY <1>1, <1>2 DEF SwapInv, Commits
<1>6. Counting'
  <2>1. CASE l # "mark"
    BY <1>1, <1>2, <2>1, CountSame DEF Transacting
  <2>2. CASE l = "mark"
    <3>1. InCall' = InCall
      BY <1>1 DEF InCall
    <3>2. InBalloc' = InBalloc \cup {p} /\ p \notin InBalloc
      BY <1>1, <1>2, <2>2 DEF InBalloc, Transacting
    <3>3. Cardinality(InBalloc') = Cardinality(InBalloc) + 1
      BY <3>2, Counts, FS_AddElement
    <3>4. QED
      BY <1>1, <2>2, <3>1, <3>3, Counts DEF SwapInv, Counting
  <2>3. QED
    BY <2>1, <2>2
<1>7. QED
  BY <1>2, <1>3, <1>4, <1>5, <1>6 DEF SwapInv
LEMMA SwapWriteLog ==
  ASSUME SwapSizes, SwapInv, NEW p \in W!Procs, W!WriteLog(p) PROVE SwapInv'
<1>1. /\ apc[p] = "wlog" /\ apc' = [apc EXCEPT ![p] = "install"] /\ mapLog' = swapUsed
      /\ dataLog' = [b \in W!Blocks |-> IF b \in lh THEN swapMem[b] ELSE dataLog[b]]
      /\ UNCHANGED <<swapUsed, swapMem, lh, outstanding, committing, mapOwner, swapGot, nested, swapRaced>>
  BY DEF W!WriteLog, W!Goto
<1>2. committing /\ \A q \in W!Procs : apc[q] \in {"wlog", "install"} => q = p
  BY <1>1 DEF SwapInv, Commits
<1>3. apc'[p] = "install" /\ \A q \in W!Procs \ {p} : apc'[q] = apc[q]
  BY <1>1 DEF SwapInv, SwapTypes
<1>4. SwapTypes'
  <2>1. apc' \in [W!Procs -> W!APcs]
    BY <1>1 DEF SwapInv, SwapTypes, W!APcs
  <2>2. dataLog' \in [W!Blocks -> Contents]
    BY <1>1 DEF SwapInv, SwapTypes
  <2>3. QED
    BY <1>1, <2>1, <2>2 DEF SwapInv, SwapTypes
<1>5. Places'
  BY <1>1, <1>3 DEF SwapInv, Places, W!Procs, SwapSizes
<1>6. MapHeld'
  BY <1>1, <1>3 DEF SwapInv, MapHeld
<1>7. Counting'
  BY <1>1, <1>3, CountSame DEF Transacting
<1>8. Commits'
  BY <1>1, <1>2, <1>3 DEF SwapInv, Commits
<1>9. InLog'
  BY <1>1 DEF SwapInv, InLog
<1>10. \A q \in W!Procs : W!Owned(q)' = W!Owned(q)
  BY <1>1, <1>3, OwnedSame
<1>11. W!OneOwner' /\ Lost'
  BY <1>1, <1>10 DEF SwapInv, W!OneOwner, Lost
<1>12. Found'
  BY <1>1, <1>3 DEF SwapInv, Found
<1>13. Runs'
  BY <1>1, <1>3 DEF SwapInv, Runs, RunFound, W!Procs
<1>14. QED
  BY <1>4, <1>5, <1>6, <1>7, <1>8, <1>9, <1>11, <1>12, <1>13 DEF SwapInv

LEMMA SwapInstall ==
  ASSUME SwapSizes, SwapInv, NEW p \in W!Procs, W!Install(p) PROVE SwapInv'
<1>1. /\ apc[p] = "install" /\ (W!MAP \in lh => mapOwner = NoProc)
      /\ swapUsed' = (IF W!MAP \in lh THEN mapLog ELSE swapUsed)
      /\ swapMem' = [b \in W!Blocks |-> IF b \in lh THEN dataLog[b] ELSE swapMem[b]]
      /\ lh' = {} /\ committing' = FALSE
      /\ UNCHANGED <<mapLog, dataLog, outstanding, mapOwner, swapGot, nested, swapRaced>>
  BY DEF W!Install, W!MapReady
<1>2. PICK l : l = W!AfterEnd(p) /\ apc' = [apc EXCEPT ![p] = l]
  BY DEF W!Install, W!Goto
<1>3. /\ \A q \in W!Procs : apc[q] \in {"wlog", "install"} => q = p
      /\ \A q \in W!Procs : ~nested[q] /\ apc[q] \notin Transacting
  <2>1. committing
    BY <1>1 DEF SwapInv, Commits
  <2>2. QED
    BY <1>1, <2>1, CommitAlone DEF SwapInv, Commits
<1>4. /\ l \in {"idle", "trim", "scan"} /\ (l = "trim" => RunFound(p))
      /\ p \in Filers => l = "idle"
      /\ p \notin Filers => l # "idle"
  BY <1>2, <1>3, AfterEndIs
<1>5. /\ apc'[p] = l /\ \A q \in W!Procs \ {p} : apc'[q] = apc[q]
      /\ apc' \in [W!Procs -> W!APcs]
  BY <1>2, <1>4 DEF SwapInv, SwapTypes, W!APcs
<1>6. /\ swapUsed \subseteq swapUsed' /\ swapUsed' \ swapUsed \subseteq swapRaced
      /\ swapUsed' \subseteq W!Blocks
  BY <1>1 DEF SwapInv, InLog, SwapTypes
<1>7. SwapTypes'
  <2>1. swapMem' \in [W!Blocks -> Contents]
    BY <1>1 DEF SwapInv, SwapTypes
  <2>2. QED
    BY <1>1, <1>5, <1>6, <2>1 DEF SwapInv, SwapTypes
<1>8. Places'
  <2>1. ASSUME NEW q \in W!Procs, q # p PROVE apc'[q] = apc[q]
    BY <1>5, <2>1
  <2>2. CASE p \in Filers
    BY <1>1, <1>3, <1>4, <1>5, <2>1, <2>2 DEF SwapInv, Places, W!Procs, SwapSizes
  <2>3. CASE p \notin Filers
    BY <1>1, <1>3, <1>4, <1>5, <2>1, <2>3 DEF SwapInv, Places, W!Procs, SwapSizes
  <2>4. QED
    BY <2>2, <2>3
<1>9. MapHeld'
  BY <1>1, <1>4, <1>5 DEF SwapInv, MapHeld
<1>10. Counting'
  BY <1>1, <1>4, <1>5, CountSame DEF Transacting
<1>11. Commits'
  BY <1>1, <1>3, <1>4, <1>5 DEF SwapInv, Commits
<1>12. InLog'
  BY <1>3, <1>4, <1>5 DEF InLog
<1>13. \A q \in W!Procs : W!Owned(q)' = W!Owned(q)
  BY <1>1, <1>4, <1>5, OwnedSame
<1>14. W!OneOwner'
  BY <1>6, <1>13 DEF SwapInv, W!OneOwner
<1>15. Lost'
  BY <1>1, <1>6, <1>13 DEF SwapInv, Lost
<1>16. Found'
  <2>1. CASE W!MAP \in lh
    \* nobody has the map
    <3>1. \A q \in W!Procs : apc[q] \notin {"bwait", "mark"}
      BY <1>1, <2>1, ProcsFinite DEF SwapInv, MapHeld
    <3>2. \A q \in W!Procs : apc'[q] \notin {"bwait", "mark", "zero"}
      BY <1>3, <1>4, <1>5, <3>1 DEF Transacting
    <3>3. QED
      BY <1>1, <3>2 DEF SwapInv, Found
  <2>2. CASE W!MAP \notin lh
    BY <1>1, <1>4, <1>5, <2>2 DEF SwapInv, Found
  <2>3. QED
    BY <2>1, <2>2
<1>17. \A b \in W!Blocks \ swapRaced : swapMem'[b] = swapMem[b]
  BY <1>1 DEF SwapInv, InLog
<1>18. Runs'
  <2>1. ASSUME NEW q \in Swappers PROVE q \in W!Procs
    BY DEF W!Procs
  <2>2. ASSUME NEW q \in Swappers, apc'[q] \in {"trim", "pwrite", "out"}, q # p
        PROVE  apc[q] = apc'[q]
    BY <1>5, <2>1, <2>2
  <2>3. ASSUME NEW q \in Swappers PROVE W!ToSet(swapGot[q]) \subseteq W!Blocks
    BY <2>1 DEF SwapInv, SwapTypes, W!ToSet
  <2>4. ASSUME NEW q \in Swappers, apc'[q] = "out", NEW b \in W!ToSet(swapGot[q]) \ swapRaced
        PROVE  swapMem'[b] = "page"
    <3>1. apc[q] = "out" /\ b \in W!Blocks \ swapRaced
      BY <1>4, <1>5, <2>2, <2>3, <2>4
    <3>2. QED
      BY <1>17, <2>4, <3>1 DEF SwapInv, Runs
  <2>5. ASSUME NEW q \in Swappers, apc'[q] = "trim" PROVE RunFound(q)
    BY <1>4, <1>5, <2>2, <2>5 DEF SwapInv, Runs
  <2>6. ASSUME NEW q \in Swappers, apc'[q] \in {"pwrite", "out"} PROVE apc[q] \in {"pwrite", "out"}
    BY <1>4, <1>5, <2>2, <2>6
  <2>7. QED
    BY <1>1, <2>4, <2>5, <2>6 DEF SwapInv, Runs, RunFound
<1>19. QED
  BY <1>7, <1>8, <1>9, <1>10, <1>11, <1>12, <1>14, <1>15, <1>16, <1>18 DEF SwapInv

\* The first free block goes to the end of what p has; it is nobody's.
LEMMA SwapScan ==
  ASSUME SwapSizes, SwapInv, NEW p \in W!Procs, W!Scan(p) PROVE SwapInv'
<1>1. /\ apc[p] = "scan" /\ mapOwner = NoProc /\ mapOwner' = p /\ apc' = [apc EXCEPT ![p] = "bwait"]
      /\ UNCHANGED <<swapUsed, swapMem, mapLog, dataLog, lh, outstanding, committing, nested, swapRaced>>
  BY DEF W!Scan, W!Goto, W!alog
<1>2. PICK b \in W!Blocks \ swapUsed : swapGot' = [swapGot EXCEPT ![p] = Append(@, b)]
  BY DEF W!Scan, W!FreeBlocks
<1>3. /\ apc'[p] = "bwait" /\ \A q \in W!Procs \ {p} : apc'[q] = apc[q]
      /\ apc' \in [W!Procs -> W!APcs]
  BY <1>1 DEF SwapInv, SwapTypes, W!APcs
<1>4. PICK s : s = swapGot[p] /\ s \in Seq(W!Blocks)
  BY DEF SwapInv, SwapTypes
<1>5. swapGot'[p] = Append(s, b) /\ \A q \in W!Procs \ {p} : swapGot'[q] = swapGot[q]
  BY <1>2, <1>4 DEF SwapInv, SwapTypes
<1>6. /\ Append(s, b) \in Seq(W!Blocks) /\ W!Front(Append(s, b)) = s /\ W!Last(Append(s, b)) = b
      /\ Append(s, b) # <<>>
      /\ Distinct(s) /\ b \notin W!ToSet(s) => Distinct(Append(s, b))
  BY <1>2, <1>4, ToSetAppend
<1>7. W!Owned(p) = W!ToSet(s)
  BY <1>1, <1>4 DEF W!Owned
<1>8. W!Owned(p)' = W!ToSet(s)
  BY <1>3, <1>5, <1>6 DEF W!Owned
<1>9. \A q \in W!Procs : W!Owned(q)' = W!Owned(q)
  <2>1. ASSUME NEW q \in W!Procs, q # p PROVE W!Owned(q)' = W!Owned(q)
    <3>1. swapGot'[q] = swapGot[q] /\ apc'[q] = apc[q]
      BY <1>3, <1>5, <2>1
    <3>2. QED
      BY <3>1, OwnedSame
  <2>2. QED
    BY <1>7, <1>8, <2>1
<1>10. SwapTypes'
  <2>1. swapGot' \in [W!Procs -> Seq(W!Blocks)]
    BY <1>2, <1>4, <1>6 DEF SwapInv, SwapTypes
  <2>2. QED
    BY <1>1, <1>3, <2>1 DEF SwapInv, SwapTypes
<1>11. Places'
  BY <1>1, <1>3 DEF SwapInv, Places, W!Procs, SwapSizes
<1>12. MapHeld'
  <2>1. \A q \in W!Procs : apc[q] \notin {"bwait", "mark"}
    BY <1>1, ProcsFinite DEF SwapInv, MapHeld
  <2>2. QED
    BY <1>1, <1>3, <2>1 DEF MapHeld
<1>13. Counting'
  BY <1>1, <1>3, CountSame DEF Transacting
<1>14. Commits'
  BY <1>1, <1>3 DEF SwapInv, Commits
<1>15. InLog'
  BY <1>1, <1>3 DEF SwapInv, InLog
<1>16. W!OneOwner' /\ Lost'
  BY <1>1, <1>9 DEF SwapInv, W!OneOwner, Lost
<1>17. Found'
  <2>1. b \notin W!ToSet(s)
    BY <1>2, <1>7 DEF SwapInv, W!OneOwner
  <2>2. Distinct(swapGot'[p]) /\ swapGot'[p] # <<>> /\ W!Last(swapGot'[p]) \notin swapUsed'
    BY <1>1, <1>2, <1>4, <1>5, <1>6, <2>1 DEF SwapInv, Found
  <2>3. ASSUME NEW q \in W!Procs, q # p PROVE swapGot'[q] = swapGot[q] /\ apc'[q] = apc[q]
    BY <1>3, <1>5, <2>3
  <2>4. QED
    BY <1>1, <2>2, <2>3 DEF SwapInv, Found
<1>18. Runs'
  <2>1. ASSUME NEW q \in Swappers, q # p PROVE swapGot'[q] = swapGot[q] /\ apc'[q] = apc[q]
    BY <1>3, <1>5, <2>1 DEF W!Procs
  <2>2. QED
    BY <1>1, <1>3, <2>1 DEF SwapInv, Runs, RunFound
<1>19. QED
  BY <1>10, <1>11, <1>12, <1>13, <1>14, <1>15, <1>16, <1>17, <1>18 DEF SwapInv

LEMMA SwapMark ==
  ASSUME SwapSizes, SwapInv, NEW p \in W!Procs, W!Mark(p) PROVE SwapInv'
<1>1. /\ apc[p] = "mark" /\ apc' = [apc EXCEPT ![p] = "zero"]
      /\ swapUsed' = swapUsed \cup {W!Last(swapGot[p])} /\ lh' = lh \cup {W!MAP} /\ mapOwner' = NoProc
      /\ UNCHANGED <<swapMem, mapLog, dataLog, outstanding, committing, swapGot, nested, swapRaced>>
  BY DEF W!Mark, W!Marked, W!ReleaseMap, W!Goto
<1>2. /\ apc'[p] = "zero" /\ \A q \in W!Procs \ {p} : apc'[q] = apc[q]
      /\ apc' \in [W!Procs -> W!APcs]
  BY <1>1 DEF SwapInv, SwapTypes, W!APcs
<1>3. PICK s, b : s = swapGot[p] /\ b = W!Last(s)
  OBVIOUS
<1>4. s \in Seq(W!Blocks) /\ s # <<>> /\ b \notin swapUsed
  BY <1>1, <1>3 DEF SwapInv, SwapTypes, Found
<1>5. b \in W!Blocks /\ W!ToSet(s) = W!ToSet(W!Front(s)) \cup {b}
  BY <1>3, <1>4, ToSetLast
<1>6. W!Owned(p) = W!ToSet(W!Front(s)) /\ W!Owned(p)' = W!ToSet(s)
  BY <1>1, <1>2, <1>3 DEF W!Owned
<1>7. \A q \in W!Procs \ {p} : W!Owned(q)' = W!Owned(q)
  BY <1>1, <1>2, OwnedSame
<1>8. ~committing
  BY <1>1, CommitAlone DEF Transacting
<1>9. SwapTypes'
  BY <1>1, <1>2, <1>3, <1>5 DEF SwapInv, SwapTypes
<1>10. Places'
  BY <1>1, <1>2 DEF SwapInv, Places, W!Procs, SwapSizes
<1>11. MapHeld'
  <2>1. \A q \in W!Procs : apc[q] \in {"bwait", "mark"} => q = p
    BY <1>1 DEF SwapInv, MapHeld
  <2>2. QED
    BY <1>1, <1>2, <2>1, ProcsFinite DEF MapHeld
<1>12. Counting'
  BY <1>1, <1>2, CountSame DEF Transacting
<1>13. Commits'
  BY <1>1, <1>2, <1>8 DEF SwapInv, Commits
<1>14. InLog'
  BY <1>2, <1>8 DEF SwapInv, Commits, InLog
<1>15. W!OneOwner'
  <2>1. W!Owned(p)' \subseteq swapUsed' /\ \A q \in W!Procs \ {p} : W!Owned(q)' \subseteq swapUsed'
    BY <1>1, <1>3, <1>5, <1>6, <1>7 DEF SwapInv, W!OneOwner
  <2>2. \A q \in W!Procs \ {p} : b \notin W!Owned(q)
    BY <1>4 DEF SwapInv, W!OneOwner
  <2>3. ASSUME NEW q \in W!Procs, NEW r \in W!Procs \ {q} PROVE W!Owned(q)' \cap W!Owned(r)' = {}
    <3>1. CASE q = p
      BY <1>5, <1>6, <1>7, <2>2, <3>1 DEF SwapInv, W!OneOwner
    <3>2. CASE r = p
      BY <1>5, <1>6, <1>7, <2>2, <3>2 DEF SwapInv, W!OneOwner
    <3>3. CASE q # p /\ r # p
      BY <1>7, <3>3 DEF SwapInv, W!OneOwner
    <3>4. QED
      BY <3>1, <3>2, <3>3
  <2>4. QED
    BY <2>1, <2>3 DEF W!OneOwner
<1>16. Lost'
  <2>1. \A q \in W!Procs : W!Owned(q) \subseteq W!Owned(q)'
    BY <1>5, <1>6, <1>7
  <2>2. b \in W!Owned(p)'
    BY <1>5, <1>6
  <2>3. ASSUME NEW c \in swapUsed', \A q \in W!Procs : c \notin W!Owned(q)' PROVE c \in swapRaced'
    <3>1. c \in swapUsed /\ \A q \in W!Procs : c \notin W!Owned(q)
      BY <1>1, <1>3, <2>1, <2>2, <2>3
    <3>2. QED
      BY <1>1, <3>1 DEF SwapInv, Lost
  <2>4. QED
    BY <2>3 DEF Lost
<1>17. Found'
  <2>1. \A q \in W!Procs : apc'[q] \notin {"bwait", "mark"}
    BY <1>1, <1>2 DEF SwapInv, MapHeld
  <2>2. QED
    BY <1>1, <1>2, <1>3, <1>4, <2>1 DEF SwapInv, Found
<1>18. Runs'
  BY <1>1, <1>2 DEF SwapInv, Runs, RunFound, W!Procs
<1>19. QED
  BY <1>9, <1>10, <1>11, <1>12, <1>13, <1>14, <1>15, <1>16, <1>17, <1>18 DEF SwapInv

LEMMA SwapBzero ==
  ASSUME SwapSizes, SwapInv, NEW p \in W!Procs, W!Bzero(p) PROVE SwapInv'
<1>1. /\ apc[p] = "zero" /\ apc' = [apc EXCEPT ![p] = "endop"]
      /\ swapMem' = [swapMem EXCEPT ![W!Last(swapGot[p])] = "zero"]
      /\ lh' = lh \cup {W!Last(swapGot[p])}
      /\ UNCHANGED <<swapUsed, mapLog, dataLog, outstanding, committing, mapOwner, swapGot, nested, swapRaced>>
  BY DEF W!Bzero, W!Goto
<1>2. /\ apc'[p] = "endop" /\ \A q \in W!Procs \ {p} : apc'[q] = apc[q]
      /\ apc' \in [W!Procs -> W!APcs]
  BY <1>1 DEF SwapInv, SwapTypes, W!APcs
<1>3. PICK s, b : s = swapGot[p] /\ b = W!Last(s)
  OBVIOUS
<1>4. s \in Seq(W!Blocks) /\ s # <<>>
  BY <1>1, <1>3 DEF SwapInv, SwapTypes, Found
<1>5. b \in W!Blocks /\ b \in W!Owned(p)
  BY <1>1, <1>3, <1>4, ToSetLast DEF W!Owned
<1>6. \A q \in W!Procs : W!Owned(q)' = W!Owned(q)
  BY <1>1, <1>2, OwnedSame
<1>7. ~committing
  BY <1>1, CommitAlone DEF Transacting
<1>8. SwapTypes'
  <2>1. swapMem' \in [W!Blocks -> Contents]
    BY <1>1 DEF SwapInv, SwapTypes, Contents
  <2>2. QED
    BY <1>1, <1>2, <1>3, <1>5, <2>1 DEF SwapInv, SwapTypes
<1>9. Places'
  BY <1>1, <1>2 DEF SwapInv, Places, W!Procs, SwapSizes
<1>10. MapHeld'
  BY <1>1, <1>2 DEF SwapInv, MapHeld
<1>11. Counting'
  BY <1>1, <1>2, CountSame DEF Transacting
<1>12. Commits'
  BY <1>1, <1>2, <1>7 DEF SwapInv, Commits
<1>13. InLog'
  BY <1>2, <1>7 DEF SwapInv, Commits, InLog
<1>14. W!OneOwner' /\ Lost'
  BY <1>1, <1>6 DEF SwapInv, W!OneOwner, Lost
<1>15. Found'
  BY <1>1, <1>2 DEF SwapInv, Found
<1>16. Runs'
  <2>1. ASSUME NEW q \in Swappers, apc'[q] = "out", NEW c \in W!ToSet(swapGot[q]) \ swapRaced
        PROVE  swapMem'[c] = "page"
    <3>1. q \in W!Procs /\ q # p
      BY <1>2, <2>1 DEF W!Procs
    <3>2. apc[q] = "out" /\ c \in W!Owned(q)
      BY <1>2, <2>1, <3>1 DEF W!Owned
    <3>3. c # b
      BY <1>5, <3>1, <3>2 DEF SwapInv, W!OneOwner
    <3>4. c \in W!Blocks
      BY <2>1, <3>1 DEF SwapInv, SwapTypes, W!ToSet
    <3>5. swapMem[c] = "page"
      BY <2>1, <3>2 DEF SwapInv, Runs
    <3>6. QED
      BY <1>1, <1>3, <3>3, <3>4, <3>5 DEF SwapInv, SwapTypes
  <2>2. ASSUME NEW q \in Swappers PROVE q \in W!Procs
    BY DEF W!Procs
  <2>3. QED
    BY <1>1, <1>2, <2>1, <2>2 DEF SwapInv, Runs, RunFound
<1>17. QED
  BY <1>8, <1>9, <1>10, <1>11, <1>12, <1>13, <1>14, <1>15, <1>16 DEF SwapInv

\* bfree of p's first block: what is freed is nobody else's, and a commit that has an old
\* copy of the map brings the block back as a lost one.
LEMMA SwapFree ==
  ASSUME SwapSizes, SwapInv, NEW p \in W!Procs, p \notin Filers,
         apc[p] \in {"trim", "pfree"}, apc' = apc, swapGot[p] # <<>>,
         W!Bfree(p, Head(swapGot[p])), swapGot' = [swapGot EXCEPT ![p] = Tail(@)],
         apc[p] = "trim" => RunFound(p) /\ Len(swapGot[p]) - RUN > 0,
         UNCHANGED <<swapMem, mapLog, dataLog, lh, outstanding, committing, mapOwner, nested>>
  PROVE  SwapInv'
<1>1. PICK s, b : s = swapGot[p] /\ b = Head(s)
  OBVIOUS
<1>2. s \in Seq(W!Blocks) /\ s # <<>> /\ Distinct(s)
  BY <1>1 DEF SwapInv, SwapTypes, Found
<1>3. /\ Tail(s) \in Seq(W!Blocks) /\ b \in W!Blocks /\ W!ToSet(s) = W!ToSet(Tail(s)) \cup {b}
      /\ Len(Tail(s)) = Len(s) - 1 /\ \A i \in 1..Len(s) - 1 : Tail(s)[i] = s[i + 1]
      /\ Distinct(Tail(s)) /\ b \notin W!ToSet(Tail(s))
  BY <1>1, <1>2, ToSetTail
<1>4. swapGot'[p] = Tail(s) /\ \A q \in W!Procs \ {p} : swapGot'[q] = swapGot[q]
  BY <1>1 DEF SwapInv, SwapTypes
<1>5. mapOwner = NoProc /\ swapUsed' = swapUsed \ {b} /\ swapRaced \subseteq swapRaced'
  BY <1>1 DEF W!Bfree, W!Cleared
<1>6. ASSUME NEW q \in W!Procs, apc[q] = "install", W!MAP \in lh PROVE b \in swapRaced'
  <2>1. W!Passing({W!MAP}) # {}
    BY <1>6 DEF W!Passing
  <2>2. QED
    BY <1>1, <2>1 DEF W!Bfree
<1>7. W!Owned(p) = W!ToSet(s) /\ W!Owned(p)' = W!ToSet(Tail(s))
  BY <1>1, <1>4 DEF W!Owned
<1>8. \A q \in W!Procs \ {p} : W!Owned(q)' = W!Owned(q)
  BY <1>4, OwnedSame
<1>9. \A q \in W!Procs \ {p} : b \notin W!Owned(q)
  BY <1>3, <1>7 DEF SwapInv, W!OneOwner
<1>10. \A q \in W!Procs : apc[q] \notin {"bwait", "mark"}
  BY <1>5, ProcsFinite DEF SwapInv, MapHeld
<1>11. SwapTypes'
  <2>1. swapGot' \in [W!Procs -> Seq(W!Blocks)]
    BY <1>1, <1>3 DEF SwapInv, SwapTypes
  <2>2. QED
    BY <1>5, <2>1 DEF SwapInv, SwapTypes
<1>12. Places' /\ MapHeld' /\ Commits'
  BY DEF SwapInv, Places, MapHeld, Commits
<1>13. Counting'
  BY CountSame
<1>14. InLog'
  BY <1>5, <1>6 DEF SwapInv, InLog
<1>15. W!OneOwner'
  <2>1. \A q \in W!Procs : W!Owned(q)' \subseteq W!Owned(q)
    BY <1>3, <1>7, <1>8
  <2>2. \A q \in W!Procs : b \notin W!Owned(q)'
    BY <1>3, <1>7, <1>8, <1>9
  <2>3. QED
    BY <1>5, <2>1, <2>2 DEF SwapInv, W!OneOwner
<1>16. Lost'
  <2>1. ASSUME NEW c \in swapUsed', \A q \in W!Procs : c \notin W!Owned(q)' PROVE c \in swapRaced'
    <3>1. c \in swapUsed /\ c # b
      BY <1>5, <2>1
    <3>2. \A q \in W!Procs : c \notin W!Owned(q)
      BY <1>3, <1>7, <1>8, <2>1, <3>1
    <3>3. QED
      BY <1>5, <3>1, <3>2 DEF SwapInv, Lost
  <2>2. QED
    BY <2>1 DEF Lost
<1>17. Found'
  <2>1. apc[p] # "zero"
    OBVIOUS
  <2>2. \A q \in W!Procs : Distinct(swapGot'[q])
    BY <1>3, <1>4 DEF SwapInv, Found
  <2>3. \A q \in W!Procs : apc[q] = "zero" => swapGot'[q] # <<>>
    BY <1>4, <2>1 DEF SwapInv, Found
  <2>4. QED
    BY <1>10, <2>2, <2>3 DEF Found
<1>18. Runs'
  <2>1. ASSUME NEW q \in Swappers, q # p PROVE swapGot'[q] = swapGot[q]
    BY <1>4, <2>1 DEF W!Procs
  <2>2. CASE apc[p] = "trim"
    <3>1. PICK n : n = Len(s) /\ n \in Nat
      BY <1>2
    <3>2. n > RUN /\ RUN \in Nat \ {0} /\ Len(Tail(s)) = n - 1
      BY <1>1, <1>3, <2>2, <3>1 DEF SwapSizes
    <3>3. \A i \in 1..RUN - 1 : s[n - i + 1] = s[n - i] + 1
      BY <1>1, <2>2, <3>1 DEF RunFound
    <3>4. ASSUME NEW i \in 1..RUN - 1
          PROVE  Tail(s)[(n - 1) - i + 1] = Tail(s)[(n - 1) - i] + 1
      <4>1. (n - 1) - i + 1 \in 1..n - 1 /\ (n - 1) - i \in 1..n - 1
        BY <3>1, <3>2
      <4>2. Tail(s)[(n - 1) - i + 1] = s[((n - 1) - i + 1) + 1] /\ Tail(s)[(n - 1) - i] = s[((n - 1) - i) + 1]
        BY <1>3, <3>1, <4>1
      <4>3. ((n - 1) - i + 1) + 1 = n - i + 1 /\ ((n - 1) - i) + 1 = n - i
        BY <3>1, <3>2
      <4>4. QED
        BY <3>3, <4>2, <4>3
    <3>5. Len(swapGot'[p]) = n - 1 /\ n - 1 >= RUN
      BY <1>4, <3>1, <3>2
    <3>6. RunFound(p)'
      BY <1>4, <3>4, <3>5 DEF RunFound
    <3>7. \A q \in Swappers : apc'[q] = "trim" => RunFound(q)'
      BY <2>1, <3>6 DEF SwapInv, Runs, RunFound
    <3>8. ASSUME NEW q \in Swappers, apc'[q] \in {"pwrite", "out"} PROVE q # p /\ swapGot'[q] = swapGot[q]
      BY <2>1, <2>2, <3>8
    <3>9. QED
      BY <1>5, <3>7, <3>8 DEF SwapInv, Runs
  <2>3. CASE apc[p] = "pfree"
    BY <1>5, <2>1, <2>3 DEF SwapInv, Runs, RunFound
  <2>4. QED
    BY <2>2, <2>3
<1>19. QED
  BY <1>11, <1>12, <1>13, <1>14, <1>15, <1>16, <1>17, <1>18 DEF SwapInv

LEMMA SwapTrim ==
  ASSUME SwapSizes, SwapInv, NEW p \in W!Procs, W!Trim(p) PROVE SwapInv'
<1>1. /\ apc[p] = "trim" /\ p \notin Filers /\ p \in Swappers /\ RunFound(p)
      /\ UNCHANGED <<swapMem, mapLog, dataLog, lh, outstanding, committing, mapOwner, nested>>
  BY DEF W!Trim, W!alog, SwapInv, Places, Runs, W!Procs
<1>2. swapGot[p] \in Seq(W!Blocks)
  BY DEF SwapInv, SwapTypes
<1>3. CASE Len(swapGot[p]) - RUN > 0
  <2>1. W!Bfree(p, Head(swapGot[p])) /\ swapGot' = [swapGot EXCEPT ![p] = Tail(@)] /\ apc' = apc
    BY <1>3 DEF W!Trim, W!Extra
  <2>2. swapGot[p] # <<>>
    BY <1>2, <1>3 DEF SwapSizes
  <2>3. QED
    BY <1>1, <1>3, <2>1, <2>2, SwapFree
<1>4. CASE ~(Len(swapGot[p]) - RUN > 0)
  <2>1. apc' = [apc EXCEPT ![p] = "pwrite"] /\ UNCHANGED <<swapUsed, swapGot, swapRaced>>
    BY <1>4 DEF W!Trim, W!Extra, W!Goto
  <2>2. /\ apc'[p] = "pwrite" /\ \A q \in W!Procs \ {p} : apc'[q] = apc[q]
        /\ apc' \in [W!Procs -> W!APcs]
    BY <2>1 DEF SwapInv, SwapTypes, W!APcs
  <2>3. Len(swapGot[p]) = RUN /\ \A i \in 1..RUN - 1 : swapGot[p][i + 1] = swapGot[p][i] + 1
    <3>1. Len(swapGot[p]) = RUN
      BY <1>1, <1>2, <1>4 DEF RunFound, SwapSizes
    <3>2. ASSUME NEW i \in 1..RUN - 1 PROVE swapGot[p][i + 1] = swapGot[p][i] + 1
      <4>1. RUN - i \in 1..RUN - 1 /\ RUN - (RUN - i) + 1 = i + 1 /\ RUN - (RUN - i) = i
        BY DEF SwapSizes
      <4>2. QED
        BY <1>1, <3>1, <4>1 DEF RunFound
    <3>3. QED
      BY <3>1, <3>2
  <2>4. \A q \in W!Procs : W!Owned(q)' = W!Owned(q)
    BY <1>1, <2>1, <2>2, OwnedSame
  <2>5. SwapTypes' /\ Places' /\ MapHeld' /\ Commits'
    BY <1>1, <2>1, <2>2 DEF SwapInv, SwapTypes, Places, MapHeld, Commits, W!Procs, SwapSizes
  <2>6. Counting'
    BY <1>1, <2>2, CountSame DEF Transacting
  <2>7. InLog' /\ Found'
    BY <1>1, <2>1, <2>2 DEF SwapInv, InLog, Found
  <2>8. W!OneOwner' /\ Lost'
    BY <2>1, <2>4 DEF SwapInv, W!OneOwner, Lost
  <2>9. Runs'
    BY <1>1, <2>1, <2>2, <2>3 DEF SwapInv, Runs, RunFound, W!Procs
  <2>10. QED
    BY <2>5, <2>6, <2>7, <2>8, <2>9 DEF SwapInv
<1>5. QED
  BY <1>3, <1>4

LEMMA SwapPageWrite ==
  ASSUME SwapSizes, SwapInv, NEW p \in W!Procs, W!PageWrite(p) PROVE SwapInv'
<1>1. /\ apc[p] = "pwrite" /\ apc' = [apc EXCEPT ![p] = "out"] /\ p \in Swappers /\ p \notin Filers
      /\ swapMem' = [b \in W!Blocks |-> IF b \in W!ToSet(swapGot[p]) THEN "page" ELSE swapMem[b]]
      /\ swapRaced' = swapRaced \cup W!Passing(W!ToSet(swapGot[p]))
      /\ UNCHANGED <<swapUsed, mapLog, dataLog, lh, outstanding, committing, mapOwner, swapGot, nested>>
  BY DEF W!PageWrite, W!alog, W!Goto, SwapInv, Places, W!Procs
<1>2. /\ apc'[p] = "out" /\ \A q \in W!Procs \ {p} : apc'[q] = apc[q]
      /\ apc' \in [W!Procs -> W!APcs]
  BY <1>1 DEF SwapInv, SwapTypes, W!APcs
<1>3. swapRaced \subseteq swapRaced'
  BY <1>1
<1>4. W!ToSet(swapGot[p]) \subseteq W!Blocks
  BY DEF SwapInv, SwapTypes, W!ToSet
<1>5. \A q \in W!Procs : W!Owned(q)' = W!Owned(q)
  BY <1>1, <1>2, OwnedSame
<1>6. SwapTypes'
  <2>1. swapMem' \in [W!Blocks -> Contents]
    BY <1>1 DEF SwapInv, SwapTypes, Contents
  <2>2. QED
    BY <1>1, <1>2, <2>1 DEF SwapInv, SwapTypes
<1>7. Places' /\ MapHeld' /\ Commits'
  BY <1>1, <1>2 DEF SwapInv, Places, MapHeld, Commits, W!Procs, SwapSizes
<1>8. Counting'
  BY <1>1, <1>2, CountSame DEF Transacting
<1>9. InLog'
  <2>1. ASSUME NEW q \in W!Procs, apc[q] = "install", NEW b \in W!Blocks, b \in lh, b \notin swapRaced'
        PROVE  dataLog[b] = swapMem'[b]
    <3>1. W!Passing(W!ToSet(swapGot[p])) = W!ToSet(swapGot[p]) \cap lh
      BY <2>1 DEF W!Passing
    <3>2. b \notin W!ToSet(swapGot[p]) /\ b \notin swapRaced
      BY <1>1, <2>1, <3>1
    <3>3. QED
      BY <1>1, <2>1, <3>2 DEF SwapInv, InLog
  <2>2. \A q \in W!Procs : apc'[q] = "install" => apc[q] = "install"
    BY <1>2
  <2>3. QED
    BY <1>1, <1>3, <2>1, <2>2 DEF SwapInv, InLog
<1>10. Found'
  BY <1>1, <1>2 DEF SwapInv, Found
<1>11. W!OneOwner' /\ Lost'
  BY <1>1, <1>3, <1>5 DEF SwapInv, W!OneOwner, Lost
<1>12. Runs'
  <2>1. ASSUME NEW q \in Swappers, q # p PROVE apc'[q] = apc[q] /\ W!ToSet(swapGot[q]) \subseteq W!Blocks
    BY <1>2, <2>1 DEF W!Procs, SwapInv, SwapTypes, W!ToSet
  <2>2. ASSUME NEW q \in Swappers, apc'[q] = "out", NEW b \in W!ToSet(swapGot[q]) \ swapRaced'
        PROVE  swapMem'[b] = "page"
    <3>1. CASE q = p
      BY <1>1, <1>4, <2>2, <3>1
    <3>2. CASE q # p
      BY <1>1, <1>3, <2>1, <2>2, <3>2 DEF SwapInv, Runs
    <3>3. QED
      BY <3>1, <3>2
  <2>3. \A q \in Swappers : apc'[q] = "trim" => RunFound(q)
    BY <1>2, <2>1 DEF SwapInv, Runs
  <2>4. \A q \in Swappers : apc'[q] \in {"pwrite", "out"} => apc[q] \in {"pwrite", "out"}
    BY <1>1, <2>1
  <2>5. QED
    BY <1>1, <2>2, <2>3, <2>4 DEF SwapInv, Runs, RunFound
<1>13. QED
  BY <1>6, <1>7, <1>8, <1>9, <1>10, <1>11, <1>12 DEF SwapInv

LEMMA SwapBfreePage ==
  ASSUME SwapSizes, SwapInv, NEW p \in W!Procs, W!BfreePage(p) PROVE SwapInv'
<1>1. /\ apc[p] = "pfree" /\ p \notin Filers /\ p \in Swappers
      /\ UNCHANGED <<swapMem, mapLog, dataLog, lh, outstanding, committing, mapOwner, nested>>
  BY DEF W!BfreePage, W!alog, SwapInv, Places, W!Procs
<1>2. CASE swapGot[p] # <<>>
  <2>1. W!Bfree(p, Head(swapGot[p])) /\ swapGot' = [swapGot EXCEPT ![p] = Tail(@)] /\ apc' = apc
    BY <1>2 DEF W!BfreePage
  <2>2. QED
    BY <1>1, <1>2, <2>1, SwapFree
<1>3. CASE swapGot[p] = <<>>
  <2>1. apc' = [apc EXCEPT ![p] = "idle"] /\ UNCHANGED <<swapUsed, swapGot, swapRaced>>
    BY <1>3 DEF W!BfreePage, W!Goto
  <2>2. /\ apc'[p] = "idle" /\ \A q \in W!Procs \ {p} : apc'[q] = apc[q]
        /\ apc' \in [W!Procs -> W!APcs]
        /\ MapHeld' /\ InLog' /\ Found' /\ W!OneOwner' /\ Lost' /\ Runs'
    <3>1. "idle" \in W!APcs
      BY DEF W!APcs
    <3>2. QED
      BY <1>1, <2>1, <3>1, Walks
  <2>3. SwapTypes' /\ Places' /\ Commits'
    BY <1>1, <2>1, <2>2 DEF SwapInv, SwapTypes, Places, Commits, W!Procs, SwapSizes
  <2>4. Counting'
    BY <1>1, <2>2, CountSame DEF Transacting
  <2>5. QED
    BY <2>2, <2>3, <2>4 DEF SwapInv
<1>4. QED
  BY <1>2, <1>3

LEMMA SwapNext ==
  ASSUME SwapSizes PROVE SwapInv /\ [W!Next]_W!avars => SwapInv'
<1> SUFFICES ASSUME SwapInv, [W!Next]_W!avars PROVE SwapInv'
  OBVIOUS
<1>1. ASSUME NEW p \in W!Procs, W!Step(p) PROVE SwapInv'
  <2>1. CASE W!Open(p)
    BY <2>1, SwapOpen
  <2>2. CASE W!EndOp(p)
    BY <2>2, SwapEndOp
  <2>3. CASE W!OutOfBlocks(p) \/ W!BallocBegin(p) \/ W!SwapOut(p) \/ W!SwapIn(p)
    BY <2>3, SwapWalks
  <2>4. CASE W!WriteLog(p)
    BY <2>4, SwapWriteLog
  <2>5. CASE W!Install(p)
    BY <2>5, SwapInstall
  <2>6. CASE W!Scan(p)
    BY <2>6, SwapScan
  <2>7. CASE W!Mark(p)
    BY <2>7, SwapMark
  <2>8. CASE W!Bzero(p)
    BY <2>8, SwapBzero
  <2>9. CASE W!Trim(p)
    BY <2>9, SwapTrim
  <2>10. CASE W!PageWrite(p)
    BY <2>10, SwapPageWrite
  <2>11. CASE W!BfreePage(p)
    BY <2>11, SwapBfreePage
  <2>12. QED
    BY <1>1, <2>1, <2>2, <2>3, <2>4, <2>5, <2>6, <2>7, <2>8, <2>9, <2>10, <2>11
    DEF W!Step, W!Balloc, W!Commit, W!Swap
<1>2. CASE UNCHANGED W!avars
  <2>1. UNCHANGED <<swapUsed, swapMem, mapLog, dataLog, lh, outstanding, committing, mapOwner, apc,
                    swapGot, nested, swapRaced>>
    BY <1>2 DEF W!avars, W!alog
  <2>2. SwapTypes' /\ Places' /\ MapHeld' /\ Commits' /\ InLog' /\ Found'
    BY <2>1 DEF SwapInv, SwapTypes, Places, MapHeld, Commits, InLog, Found
  <2>3. Counting'
    BY <2>1, CountSame
  <2>4. \A q \in W!Procs : W!Owned(q)' = W!Owned(q)
    BY <2>1, OwnedSame
  <2>5. W!OneOwner' /\ Lost'
    BY <2>1, <2>4 DEF SwapInv, W!OneOwner, Lost
  <2>6. Runs'
    BY <2>1 DEF SwapInv, Runs, RunFound
  <2>7. QED
    BY <2>2, <2>3, <2>5, <2>6 DEF SwapInv
<1>3. QED
  BY <1>1, <1>2 DEF W!Next

\* A run of blocks is determined by its first one.
LEMMA InARow ==
  ASSUME NEW n \in Nat \ {0}, NEW s \in Seq(Nat), Len(s) = n,
         \A i \in 1..n - 1 : s[i + 1] = s[i] + 1
  PROVE  s = [i \in 1..n |-> Head(s) + i - 1]
<1>1. PICK S : S = {k \in Nat : k < n => s[k + 1] = s[1] + k}
  OBVIOUS
<1>2. 0 \in S
  BY <1>1
<1>3. ASSUME NEW k \in Nat, k \in S PROVE k + 1 \in S
  <2>1. CASE k + 1 < n
    <3>1. k + 1 \in 1..n - 1 /\ k < n /\ k + 1 \in 1..n
      BY <2>1
    <3>2. s[k + 1] = s[1] + k /\ s[(k + 1) + 1] = s[k + 1] + 1 /\ s[1] \in Nat
      BY <1>1, <1>3, <3>1
    <3>3. s[(k + 1) + 1] = s[1] + (k + 1)
      BY <3>2
    <3>4. QED
      BY <1>1, <3>3
  <2>2. CASE ~(k + 1 < n)
    BY <1>1, <2>2
  <2>3. QED
    BY <2>1, <2>2
<1>4. Nat \subseteq S
  BY <1>2, <1>3, Induct
<1>5. ASSUME NEW i \in 1..n PROVE s[i] = Head(s) + i - 1
  <2>1. i - 1 \in Nat /\ i - 1 < n /\ (i - 1) + 1 = i /\ Head(s) = s[1] /\ s[1] \in Nat
    OBVIOUS
  <2>2. s[(i - 1) + 1] = s[1] + (i - 1)
    BY <1>1, <1>4, <2>1
  <2>3. QED
    BY <2>1, <2>2
<1>6. s = [i \in 1..n |-> s[i]]
  OBVIOUS
<1>7. QED
  BY <1>5, <1>6

LEMMA SwapMeans ==
  ASSUME SwapSizes PROVE SwapInv => W!TypeOK /\ W!OneOwner /\ W!LostOnlyByRace /\ W!PageKept
<1> SUFFICES ASSUME SwapInv PROVE W!TypeOK /\ W!OneOwner /\ W!LostOnlyByRace /\ W!PageKept
  OBVIOUS
<1>1. W!OneOwner /\ W!LostOnlyByRace
  BY DEF SwapInv, Lost, W!LostOnlyByRace
<1>2. W!TypeOK
  <2>1. outstanding \in 0..2 * W!Cardinality(W!Procs)
    <3>1. W!Cardinality(W!Procs) = Cardinality(W!Procs)
      BY DEF W!Cardinality, Cardinality
    <3>2. /\ InCall \subseteq W!Procs /\ InBalloc \subseteq W!Procs
          /\ IsFiniteSet(W!Procs) /\ Cardinality(W!Procs) \in Nat
      BY ProcsFinite, FS_CardinalityType DEF InCall, InBalloc
    <3>3. Cardinality(InCall) <= Cardinality(W!Procs) /\ Cardinality(InBalloc) <= Cardinality(W!Procs)
      BY <3>2, FS_Subset
    <3>4. QED
      BY <3>1, <3>2, <3>3, Counts DEF SwapInv, Counting
  <2>2. \A p \in W!Procs : W!ToSet(swapGot[p]) \subseteq W!Blocks
    BY DEF SwapInv, SwapTypes, W!ToSet
  <2>3. QED
    BY <2>1, <2>2 DEF SwapInv, SwapTypes, Contents, W!TypeOK
<1>3. W!PageKept
  <2>1. ASSUME NEW p \in Swappers, apc[p] = "out"
        PROVE  /\ swapGot[p] = [i \in 1..RUN |-> Head(swapGot[p]) + i - 1]
               /\ \A b \in W!ToSet(swapGot[p]) \ swapRaced : swapMem[b] = "page"
    <3>1. swapGot[p] \in Seq(W!Blocks) /\ W!Blocks \subseteq Nat
      BY ProcsFinite DEF SwapInv, SwapTypes, W!Procs
    <3>2. swapGot[p] \in Seq(Nat)
      <4>1. PICK s : s = swapGot[p]
        OBVIOUS
      <4>2. s \in Seq(W!Blocks)
        BY <3>1, <4>1
      <4>3. \A i \in 1..Len(s) : s[i] \in W!Blocks
        BY <4>2
      <4>4. \A i \in 1..Len(s) : s[i] \in Nat
        BY <3>1, <4>3
      <4>5. s \in Seq(Nat)
        BY <4>2, <4>4, SeqDef
      <4>6. QED
        BY <4>1, <4>5
    <3>3. QED
      BY <2>1, <3>2, InARow DEF SwapInv, Runs, SwapSizes
  <2>2. QED
    BY <2>1 DEF W!PageKept
<1>4. QED
  BY <1>1, <1>2, <1>3

THEOREM Swapping ==
  ASSUME SwapSizes
  PROVE  W!Spec => [](W!TypeOK /\ W!OneOwner /\ W!LostOnlyByRace /\ W!PageKept)
<1>1. W!Init => SwapInv
  BY SwapInit
<1>2. SwapInv /\ [W!Next]_W!avars => SwapInv'
  BY SwapNext
<1>3. SwapInv => W!TypeOK /\ W!OneOwner /\ W!LostOnlyByRace /\ W!PageKept
  BY SwapMeans
<1>4. QED
  BY <1>1, <1>2, <1>3, PTL DEF W!Spec

\* Map, log and pages of the swap area, whatever balloc, bfree, commits and writes past the log
\* come between each other.
THEOREM SwapSafe ==
  ASSUME SwapSizes
  PROVE  PartsSpec => []SwapConsistent
<1>1. PartsInit => W!Init
  BY DEF PartsInit
<1>2. [PartsNext]_<<part, partsvars>> => [W!Next]_(W!avars)
  BY DEF PartsNext, partsvars, swapvars, W!avars, W!alog
<1>3. W!TypeOK /\ W!OneOwner /\ W!LostOnlyByRace /\ W!PageKept => SwapConsistent
  BY DEF SwapConsistent
<1>4. QED
  BY <1>1, <1>2, <1>3, Swapping, PTL DEF PartsSpec, W!Spec

-----------------------------------------------------------------------------
(* Umalloc: a heap that is a circular list of free pieces and the pieces     *)
(* given out.                                                                *)

\* The heap is above base and its limit above that; every call of malloc asks for something.
HeapBounds ==
  /\ HEAP \in Nat \ {0} /\ LIMIT \in Nat /\ HEAP <= LIMIT /\ CORE \in Nat
  /\ MallocSizes \subseteq Nat \ {0}

\* Q leads from each free piece to the next higher one, and from the last to base
Follows(X, a, q) == q \in X /\ \A b \in X : IF a < q THEN b <= a \/ q <= b ELSE q = 0 /\ b <= a
Circular(Q) ==
  /\ DOMAIN Q \in SUBSET (0..LIMIT) /\ 0 \in DOMAIN Q
  /\ \A a \in DOMAIN Q : Follows(DOMAIN Q, a, Q[a])

\* pieces of sizes S: free ones in Q, live ones in L, which together are the units of mem,
\* each once; and no two free ones touch
Sized(Q, S, L) ==
  /\ L \in SUBSET (0..LIMIT) /\ L \cap DOMAIN Q = {} /\ DOMAIN S = DOMAIN Q \cup L
  /\ \A a \in DOMAIN S : S[a] \in Nat /\ (S[a] = 0 <=> a = 0)
Apart(S) == \A a, b \in DOMAIN S : a < b => a + S[a] <= b
Covers(S, mem) ==
  /\ mem \in SUBSET (0..LIMIT - 1)
  /\ \A u \in Nat : u \in mem <=> \E a \in DOMAIN S : a <= u /\ u < a + S[a]
Joined(Q, S) == \A a, b \in DOMAIN Q : a # b => a + S[a] # b
HeapOK(Q, S, F, L, mem) ==
  /\ Circular(Q) /\ F \in DOMAIN Q /\ Sized(Q, S, L) /\ Apart(S) /\ Covers(S, mem) /\ Joined(Q, S)

Given == (HEAP..top - 1) \ foreign

\* The inductive invariant: before the first malloc there is nothing, and afterwards a heap.
HeapInv ==
  /\ top \in Nat /\ HEAP <= top /\ top <= LIMIT /\ foreign \in SUBSET (HEAP..top - 1)
  /\ heapFailed \in Nat
  /\ freep = U!Null => /\ ptr = [a \in {} |-> 0] /\ heapSize = [a \in {} |-> 0] /\ heapLive = {}
                       /\ foreign = HEAP..top - 1 /\ heapFailed = 0
  /\ freep # U!Null => HeapOK(ptr, heapSize, freep, heapLive, Given)
  /\ U!FailsOnlyWithoutMemory

\* what the list's functions do
\* f with a left out and v at c
Replaces(g, f, a, c, v) ==
  DOMAIN g = (DOMAIN f \ {a}) \cup {c} /\ g[c] = v /\ \A x \in DOMAIN g : x # c => g[x] = f[x]

LEMMA Replaced ==
  ASSUME NEW f, NEW a, NEW c, a # c, NEW v
  PROVE  Replaces(U!With(U!Without(f, a), c, v), f, a, c, v)
<1>1. PICK g : g = U!Without(f, a)
  OBVIOUS
<1>2. DOMAIN g = DOMAIN f \ {a} /\ \A x \in DOMAIN g : g[x] = f[x]
  BY <1>1 DEF U!Without
<1>3. PICK k : k = U!With(g, c, v)
  OBVIOUS
<1>4. DOMAIN k = DOMAIN g \cup {c} /\ k[c] = v /\ \A x \in DOMAIN k : x # c => k[x] = g[x]
  BY <1>3 DEF U!With
<1>5. Replaces(k, f, a, c, v)
  BY <1>2, <1>4 DEF Replaces
<1>6. QED
  BY <1>1, <1>3, <1>5

LEMMA Greatest ==
  ASSUME NEW N \in Nat, NEW S \in SUBSET (0..N), S # {}
  PROVE  \E m \in S : \A n \in S : n <= m
<1> DEFINE R == {N - x : x \in S}
<1>1. R \in SUBSET Nat /\ R # {}
  <2>1. \A x \in S : N - x \in Nat
    OBVIOUS
  <2>2. QED
    BY <2>1
<1>2. PICK r \in R : \A n \in R : r <= n
  BY <1>1, D!Least
<1>3. PICK m \in S : r = N - m
  OBVIOUS
<1>4. ASSUME NEW n \in S PROVE n <= m
  <2>1. N - n \in R
    OBVIOUS
  <2>2. r <= N - n
    BY <1>2, <2>1
  <2>3. n \in Int /\ m \in Int
    OBVIOUS
  <2>4. QED
    BY <1>3, <2>2, <2>3
<1>5. QED
  BY <1>4

\* the piece below an address
LEMMA Below ==
  ASSUME LIMIT \in Nat, NEW Q, Circular(Q), NEW x \in Nat, x > 0
  PROVE  \E p \in DOMAIN Q : p < x /\ \A b \in DOMAIN Q : b <= p \/ x <= b
<1> DEFINE S == {a \in DOMAIN Q : a < x}
<1>1. S \in SUBSET (0..LIMIT) /\ S # {}
  BY DEF Circular
<1>2. PICK m \in S : \A n \in S : n <= m
  BY <1>1, Greatest
<1>3. \A b \in DOMAIN Q : b \in Nat
  BY DEF Circular
<1>4. QED
  BY <1>2, <1>3

\* a set of pieces that holds the successor of each is all of them
LEMMA ClosedIsAll ==
  ASSUME LIMIT \in Nat, NEW Q, Circular(Q), NEW O \in SUBSET DOMAIN Q, O # {}, \A x \in O : Q[x] \in O
  PROVE  O = DOMAIN Q
<1>0. DOMAIN Q \in SUBSET (0..LIMIT) /\ DOMAIN Q \in SUBSET Nat /\ 0 \in DOMAIN Q
  BY DEF Circular
<1>1. 0 \in O
  <2>1. PICK m \in O : \A n \in O : n <= m
    BY <1>0, Greatest
  <2>2. Q[m] \in O /\ ~(m < Q[m])
    BY <2>1, <1>0
  <2>3. Q[m] = 0
    BY <2>1, <2>2 DEF Circular, Follows
  <2>4. QED
    BY <2>2, <2>3
<1>2. SUFFICES ASSUME DOMAIN Q \ O # {} PROVE FALSE
  OBVIOUS
<1>3. PICK m \in DOMAIN Q \ O : \A n \in DOMAIN Q \ O : m <= n
  BY <1>0, <1>2, D!Least
<1>4. m # 0 /\ m \in Nat /\ m > 0
  BY <1>0, <1>1, <1>3
<1>5. PICK p \in DOMAIN Q : p < m /\ \A b \in DOMAIN Q : b <= p \/ m <= b
  BY <1>4, Below
<1>6. Q[p] = m
  BY <1>0, <1>3, <1>4, <1>5 DEF Circular, Follows
<1>7. p \in O
  BY <1>0, <1>3, <1>5
<1>8. QED
  BY <1>3, <1>6, <1>7

LEMMA FiniteTo == ASSUME NEW N \in Nat, NEW S \in SUBSET (0..N) PROVE IsFiniteSet(S)
<1>1. IsFiniteSet(0..N)
  BY FS_Interval
<1>2. QED
  BY <1>1, FS_Subset

\* The n-th piece after freep: a piece, the next one of its predecessor; and every piece is found.
IsNth(Q, F, N) ==
  /\ N \in [0..Cardinality(DOMAIN Q) -> DOMAIN Q]
  /\ N[0] = F /\ \A i \in 1..Cardinality(DOMAIN Q) : N[i] = Q[N[i - 1]]

LEMMA HeapCardinality == \A T : U!Cardinality(T) = Cardinality(T)
BY DEF U!Cardinality, Cardinality

LEMMA NthIs ==
  ASSUME LIMIT \in Nat, NEW Q, Circular(Q), NEW S, NEW F \in DOMAIN Q
  PROVE  /\ Cardinality(DOMAIN Q) \in Nat
         /\ IsNth(Q, F, U!Nth([ptr |-> Q, size |-> S, freep |-> F]))
<1> DEFINE K == Cardinality(DOMAIN Q)
           Step(n) == {f \in [0..n -> DOMAIN Q] : f[0] = F /\ \A i \in 1..n : f[i] = Q[f[i - 1]]}
           Good == {n \in Nat : Step(n) # {}}
<1>0. \A x \in DOMAIN Q : Q[x] \in DOMAIN Q
  BY DEF Circular, Follows
<1>1. K \in Nat
  <2>1. IsFiniteSet(DOMAIN Q)
    BY FiniteTo DEF Circular
  <2>2. QED
    BY <2>1, FS_CardinalityType
<1>2. Nat \subseteq Good
  <2>1. 0 \in Good
    <3>1. [i \in 0..0 |-> F] \in Step(0)
      OBVIOUS
    <3>2. QED
      BY <3>1
  <2>2. ASSUME NEW n \in Nat, n \in Good PROVE n + 1 \in Good
    <3>1. PICK f \in Step(n) : TRUE
      BY <2>2
    <3> DEFINE g == [i \in 0..n + 1 |-> IF i = n + 1 THEN Q[f[n]] ELSE f[i]]
    <3>2. f[n] \in DOMAIN Q /\ \A i \in 0..n : f[i] \in DOMAIN Q
      BY <3>1
    <3>3. g \in [0..n + 1 -> DOMAIN Q]
      BY <3>2, <1>0
    <3>4. g[0] = F
      BY <3>1
    <3>5. ASSUME NEW i \in 1..n + 1 PROVE g[i] = Q[g[i - 1]]
      <4>1. CASE i = n + 1
        BY <4>1
      <4>2. CASE i # n + 1
        <5>1. i \in 1..n /\ g[i] = f[i] /\ g[i - 1] = f[i - 1]
          BY <4>2
        <5>2. QED
          BY <5>1, <3>1
      <4>3. QED
        BY <4>1, <4>2
    <3>6. g \in Step(n + 1)
      BY <3>3, <3>4, <3>5
    <3>7. QED
      BY <3>6
  <2> HIDE DEF Good
  <2>3. QED
    BY <2>1, <2>2, Induct
<1>3. PICK f \in Step(K) : TRUE
  BY <1>1, <1>2
<1> DEFINE h == [ptr |-> Q, size |-> S, freep |-> F]
           Body(g) == [n \in 0..K |-> IF n = 0 THEN F ELSE Q[g[n - 1]]]
<1>4. f = Body(f)
  <2>1. f \in [0..K -> DOMAIN Q] /\ f[0] = F /\ \A i \in 1..K : f[i] = Q[f[i - 1]]
    BY <1>3
  <2>2. \A n \in 0..K : f[n] = Body(f)[n]
    <3> SUFFICES ASSUME NEW n \in 0..K PROVE f[n] = IF n = 0 THEN F ELSE Q[f[n - 1]]
      OBVIOUS
    <3>1. n # 0 => n \in 1..K
      BY <1>1
    <3>2. QED
      BY <2>1, <3>1
  <2>3. QED
    BY <2>1, <2>2
<1> DEFINE Coded(g) == [n \in 0..U!Cardinality(DOMAIN h.ptr) |-> IF n = 0 THEN h.freep ELSE (h.ptr)[g[n - 1]]]
<1>5. \A g : Coded(g) = Body(g)
  BY HeapCardinality
<1>6. PICK N : N = U!Nth(h)
  OBVIOUS
<1>7. N = Body(N)
  <2>1. U!Nth(h) = CHOOSE g : g = Coded(g)
    BY DEF U!Nth
  <2>2. f = Coded(f)
    BY <1>4, <1>5
  <2> HIDE DEF Coded
  <2>3. N = Coded(N)
    BY <2>1, <2>2, <1>6
  <2>4. QED
    BY <2>3, <1>5
<1>8. N[0] = F /\ \A i \in 1..K : N[i] = Q[N[i - 1]]
  <2>1. ASSUME NEW i \in 0..K PROVE N[i] = IF i = 0 THEN F ELSE Q[N[i - 1]]
    BY <1>7
  <2>2. 0 \in 0..K /\ \A i \in 1..K : i \in 0..K /\ i # 0
    BY <1>1
  <2>3. QED
    BY <2>1, <2>2
<1>9. N \in [0..K -> DOMAIN Q]
  <2> DEFINE T == {i \in Nat : i \in 0..K => N[i] \in DOMAIN Q}
  <2>1. 0 \in T
    BY <1>8
  <2>2. ASSUME NEW n \in Nat, n \in T PROVE n + 1 \in T
    <3> SUFFICES ASSUME n + 1 \in 0..K PROVE N[n + 1] \in DOMAIN Q
      OBVIOUS
    <3>1. n \in 0..K /\ n + 1 \in 1..K /\ (n + 1) - 1 = n
      BY <1>1
    <3>2. N[n] \in DOMAIN Q
      BY <2>2, <3>1
    <3>3. N[n + 1] = Q[N[n]]
      BY <1>8, <3>1
    <3>4. QED
      BY <1>0, <3>2, <3>3
  <2>3. Nat \subseteq T
    <3> HIDE DEF T
    <3>1. QED
      BY <2>1, <2>2, Induct
  <2>4. \A i \in 0..K : N[i] \in DOMAIN Q
    BY <1>1, <2>3
  <2>5. QED
    BY <1>7, <2>4
<1>10. QED
  BY <1>1, <1>6, <1>8, <1>9 DEF IsNth

LEMMA AllFound ==
  ASSUME LIMIT \in Nat, NEW Q, Circular(Q), NEW F, NEW N, IsNth(Q, F, N)
  PROVE  \A x \in DOMAIN Q : \E i \in 1..Cardinality(DOMAIN Q) : N[i] = x
<1> DEFINE K == Cardinality(DOMAIN Q)
<1>1. K \in Nat /\ IsFiniteSet(DOMAIN Q)
  <2>1. IsFiniteSet(DOMAIN Q)
    BY FiniteTo DEF Circular
  <2>2. QED
    BY <2>1, FS_CardinalityType
<1>2. \E i, j \in 0..K : i < j /\ N[i] = N[j]
  <2>1. IsFiniteSet(0..K) /\ Cardinality(0..K) = K + 1
    BY <1>1, FS_Interval
  <2>2. N \in [0..K -> DOMAIN Q]
    BY DEF IsNth
  <2>3. K < K + 1
    BY <1>1
  <2>4. PICK i \in 0..K, j \in 0..K : i # j /\ N[i] = N[j]
    BY <1>1, <2>1, <2>2, <2>3, FS_PigeonHole
  <2>5. i < j \/ j < i
    BY <1>1, <2>4
  <2>6. QED
    BY <2>4, <2>5
<1>3. PICK i \in 0..K, j \in 0..K : i < j /\ N[i] = N[j]
  BY <1>2
<1> DEFINE O == {N[m] : m \in i + 1..j}
<1>4. i + 1..j \subseteq 1..K /\ j \in i + 1..j
  BY <1>1, <1>3
<1>5. O \in SUBSET DOMAIN Q /\ O # {}
  BY <1>1, <1>4 DEF IsNth
<1>6. ASSUME NEW m \in i + 1..j PROVE Q[N[m]] \in O
  <2>1. CASE m = j
    <3>1. i + 1 \in i + 1..j /\ i + 1 \in 1..K /\ (i + 1) - 1 = i
      BY <1>1, <1>3
    <3>2. N[i + 1] = Q[N[i]]
      BY <3>1 DEF IsNth
    <3>3. QED
      BY <1>3, <2>1, <3>1, <3>2
  <2>2. CASE m # j
    <3>1. m + 1 \in i + 1..j /\ m + 1 \in 1..K /\ (m + 1) - 1 = m
      BY <1>1, <1>3, <2>2
    <3>2. N[m + 1] = Q[N[m]]
      BY <3>1 DEF IsNth
    <3>3. QED
      BY <3>1, <3>2
  <2>3. QED
    BY <2>1, <2>2
<1>7. O = DOMAIN Q
  <2>1. \A x \in O : Q[x] \in O
    BY <1>6
  <2> HIDE DEF O
  <2>2. QED
    BY <1>5, <2>1, ClosedIsAll
<1>8. QED
  BY <1>4, <1>7


LEMMA MinIs ==
  ASSUME NEW S \in SUBSET Nat, S # {}
  PROVE  U!Min(S) \in S /\ \A y \in S : U!Min(S) <= y
BY D!Least DEF U!Min

\* the for of free() finds the piece below
LEMMA PlaceIs ==
  ASSUME LIMIT \in Nat, NEW Q, Circular(Q), NEW S, NEW F \in DOMAIN Q,
         NEW bp \in Nat, bp > 0, bp \notin DOMAIN Q, NEW h, h = [ptr |-> Q, size |-> S, freep |-> F]
  PROVE  LET p == U!Place(h, bp) IN
         p \in DOMAIN Q /\ p < bp /\ \A b \in DOMAIN Q : b <= p \/ bp < b
<1> DEFINE K == Cardinality(DOMAIN Q)
           I == {i \in 0..U!Cardinality(DOMAIN h.ptr) : U!Between(h, U!Nth(h)[i], bp)}
<1>1. PICK N : N = U!Nth(h)
  OBVIOUS
<1>2. K \in Nat /\ IsNth(Q, F, N) /\ h.ptr = Q
  BY <1>1, NthIs
<1>3. I = {i \in 0..K : U!Between(h, N[i], bp)} /\ U!Place(h, bp) = N[U!Min(I)]
  BY <1>1, <1>2, HeapCardinality DEF U!Place
<1>4. I # {}
  <2>1. PICK p \in DOMAIN Q : p < bp /\ \A b \in DOMAIN Q : b <= p \/ bp <= b
    BY Below
  <2>2. U!Between(h, p, bp)
    BY <2>1, <1>2 DEF U!Between, Circular, Follows
  <2>3. PICK i \in 1..K : N[i] = p
    BY <1>2, AllFound
  <2>4. QED
    BY <1>2, <1>3, <2>2, <2>3
<1>5. U!Min(I) \in I
  <2>1. I \in SUBSET Nat
    BY <1>2, <1>3
  <2> HIDE DEF I
  <2>2. QED
    BY <2>1, <1>4, MinIs
<1>6. PICK p : p = U!Place(h, bp)
  OBVIOUS
<1>7. p \in DOMAIN Q /\ U!Between(h, p, bp)
  BY <1>2, <1>3, <1>5, <1>6 DEF IsNth
<1>8. p < bp /\ \A b \in DOMAIN Q : b <= p \/ bp < b
  <2>1. DOMAIN Q \in SUBSET Nat /\ Follows(DOMAIN Q, p, Q[p])
    BY <1>7 DEF Circular
  <2>2. \/ bp > p /\ bp < Q[p]
        \/ p >= Q[p] /\ (bp > p \/ bp < Q[p])
    BY <1>2, <1>7 DEF U!Between
  <2>3. p < bp
    BY <2>1, <2>2, <1>7 DEF Follows
  <2>4. \A b \in DOMAIN Q : b <= p \/ bp <= b
    BY <2>1, <2>2, <2>3, <1>7 DEF Follows
  <2>5. \A b \in DOMAIN Q : b # bp
    OBVIOUS
  <2>6. QED
    BY <2>1, <2>3, <2>4, <2>5
<1>9. QED
  BY <1>6, <1>7, <1>8

\* What free makes of the list P and the sizes S, with p below bp and q above it: the piece at
\* bp, joined to q when it touches it (Up) and to p when that touches it (b = p).
Up(S, bp, q) == bp + S[bp] = q
Back(Q, S, P2, S2, p, q, bp, b) ==
  /\ DOMAIN P2 = {x \in DOMAIN Q : ~(Up(S, bp, q) /\ x = q)} \cup {b}
  /\ P2[b] = IF Up(S, bp, q) THEN Q[q] ELSE q
  /\ \A x \in DOMAIN P2 : x # b => P2[x] = IF x = p THEN bp ELSE Q[x]
  /\ DOMAIN S2 = {x \in DOMAIN S : ~(Up(S, bp, q) /\ x = q) /\ ~(x = bp /\ b = p)}
  /\ S2[b] = (IF Up(S, bp, q) THEN q + S[q] ELSE bp + S[bp]) - b
  /\ \A x \in DOMAIN S2 : x # b => S2[x] = S[x]
  /\ b = IF p + S[p] = bp THEN p ELSE bp

LEMMA FreedIs ==
  ASSUME LIMIT \in Nat, NEW Q, Circular(Q), NEW S, NEW F, NEW L, NEW mem, HeapOK(Q, S, F, L, mem), NEW bp \in L,
         NEW h, h = [ptr |-> Q, size |-> S, freep |-> F]
  PROVE  \E P2, S2, p, q, b :
           /\ U!Freed(h, bp) = [ptr |-> P2, size |-> S2, freep |-> p]
           /\ p \in DOMAIN Q /\ p < bp /\ q = Q[p]
           /\ \A x \in DOMAIN Q : x <= p \/ bp < x
           /\ Back(Q, S, P2, S2, p, q, bp, b)
<1>1. /\ bp \in Nat /\ bp > 0 /\ bp \notin DOMAIN Q /\ bp \in DOMAIN S /\ S[bp] \in Nat /\ S[bp] > 0
      /\ DOMAIN Q \in SUBSET Nat /\ DOMAIN S = DOMAIN Q \cup L
  BY DEF HeapOK, Circular, Sized
<1>2. PICK p : p = U!Place(h, bp)
  OBVIOUS
<1>3. p \in DOMAIN Q /\ p < bp /\ \A x \in DOMAIN Q : x <= p \/ bp < x
  BY <1>1, <1>2, PlaceIs DEF HeapOK
<1>4. PICK q : q = Q[p]
  OBVIOUS
<1>5. q \in DOMAIN Q /\ q # bp /\ (q = 0 \/ bp < q) /\ (Up(S, bp, q) => q # p)
  <2>1. Follows(DOMAIN Q, p, q)
    BY <1>3, <1>4 DEF HeapOK, Circular
  <2>2. q \in DOMAIN Q /\ q \in Nat /\ p \in Nat
    BY <1>1, <1>3, <2>1 DEF Follows
  <2>3. q = 0 \/ bp < q
    BY <1>3, <2>1, <2>2 DEF Follows
  <2>4. QED
    BY <1>1, <1>3, <2>2, <2>3 DEF Up
<1>6. PICK h1 : h1 = U!Upper(h, p, bp)
  OBVIOUS
<1>7. PICK P1, S1 : P1 = h1.ptr /\ S1 = h1.size
  OBVIOUS
<1>8. /\ h1 = [ptr |-> P1, size |-> S1, freep |-> F]
      /\ DOMAIN P1 = {x \in DOMAIN Q : ~(Up(S, bp, q) /\ x = q)} \cup {bp}
      /\ P1[bp] = IF Up(S, bp, q) THEN Q[q] ELSE q
      /\ \A x \in DOMAIN P1 : x # bp => P1[x] = Q[x]
      /\ DOMAIN S1 = {x \in DOMAIN S : ~(Up(S, bp, q) /\ x = q)}
      /\ S1[bp] = (IF Up(S, bp, q) THEN q + S[q] ELSE bp + S[bp]) - bp
      /\ \A x \in DOMAIN S1 : x # bp => S1[x] = S[x]
  <2>1. CASE Up(S, bp, q)
    <3>1. h1 = [ptr |-> U!With(U!Without(Q, q), bp, Q[q]), size |-> U!With(U!Without(S, q), bp, S[bp] + S[q]), freep |-> F]
      BY <2>1, <1>4, <1>6 DEF Up, U!Upper
    <3>2. /\ P1 = U!With(U!Without(Q, q), bp, Q[q])
          /\ S1 = U!With(U!Without(S, q), bp, S[bp] + S[q])
      BY <1>7, <3>1
    <3>3. Replaces(P1, Q, q, bp, Q[q]) /\ Replaces(S1, S, q, bp, S[bp] + S[q])
      BY <1>5, <3>2, Replaced
    <3>4. S[bp] + S[q] = (q + S[q]) - bp
      <4>1. S[q] \in Nat
        BY <1>1, <1>5 DEF HeapOK, Sized
      <4>2. QED
        BY <1>1, <1>5, <2>1, <4>1 DEF Up
    <3>5. h1 = [ptr |-> P1, size |-> S1, freep |-> F]
      BY <3>1, <3>2
    <3>6. DOMAIN P1 = {x \in DOMAIN Q : x # q} \cup {bp} /\ DOMAIN S1 = {x \in DOMAIN S : x # q}
      BY <3>3, <1>1, <1>5 DEF Replaces
    <3>7. P1[bp] = Q[q] /\ S1[bp] = (q + S[q]) - bp
      BY <3>3, <3>4 DEF Replaces
    <3>8. (\A x \in DOMAIN P1 : x # bp => P1[x] = Q[x]) /\ (\A x \in DOMAIN S1 : x # bp => S1[x] = S[x])
      BY <3>3 DEF Replaces
    <3>9. QED
      BY <2>1, <3>5, <3>6, <3>7, <3>8
  <2>2. CASE ~Up(S, bp, q)
    <3>1. h1 = [ptr |-> U!With(Q, bp, q), size |-> S, freep |-> F]
      BY <2>2, <1>4, <1>6 DEF Up, U!Upper
    <3>2. P1 = U!With(Q, bp, q) /\ S1 = S
      BY <1>7, <3>1
    <3>3. DOMAIN P1 = DOMAIN Q \cup {bp} /\ P1[bp] = q /\ \A x \in DOMAIN P1 : x # bp => P1[x] = Q[x]
      BY <3>2 DEF U!With
    <3>4. S[bp] = (bp + S[bp]) - bp
      BY <1>1
    <3>5. QED
      BY <2>2, <3>1, <3>2, <3>3, <3>4, <1>1
  <2>3. QED
    BY <2>1, <2>2
<1>9. p \in DOMAIN P1 /\ p # bp /\ p \in DOMAIN S1 /\ S1[p] = S[p] /\ S[p] \in Nat /\ bp \in DOMAIN S1
  BY <1>1, <1>3, <1>5, <1>8 DEF HeapOK, Sized
<1>10. PICK P2, S2 : /\ U!Lower(h1, p, bp) = [ptr |-> P2, size |-> S2, freep |-> F]
                    /\ Back(Q, S, P2, S2, p, q, bp, IF p + S[p] = bp THEN p ELSE bp)
  <2>1. CASE p + S[p] = bp
    <3>1. PICK Qn, Sn : /\ Qn = U!With(U!Without(P1, bp), p, P1[bp])
                        /\ Sn = U!With(U!Without(S1, bp), p, S1[p] + S1[bp])
      OBVIOUS
    <3>2. Replaces(Qn, P1, bp, p, P1[bp]) /\ Replaces(Sn, S1, bp, p, S1[p] + S1[bp])
      BY <1>9, <3>1, Replaced
    <3>3. U!Lower(h1, p, bp) = [ptr |-> Qn, size |-> Sn, freep |-> F]
      BY <2>1, <1>8, <1>9, <3>1 DEF U!Lower
    <3>4. DOMAIN Qn = {x \in DOMAIN Q : ~(Up(S, bp, q) /\ x = q)} \cup {p}
      BY <3>2, <1>1, <1>3, <1>5, <1>8 DEF Replaces
    <3>5. DOMAIN Sn = {x \in DOMAIN S : ~(Up(S, bp, q) /\ x = q) /\ ~(x = bp /\ p = p)}
      BY <3>2, <1>1, <1>3, <1>5, <1>8, <1>9 DEF Replaces
    <3>6. Sn[p] = (IF Up(S, bp, q) THEN q + S[q] ELSE bp + S[bp]) - p
      <4>1. S[q] \in Nat /\ q \in Nat /\ p \in Nat
        BY <1>1, <1>3, <1>5 DEF HeapOK, Sized
      <4>2. CASE Up(S, bp, q)
        BY <4>1, <4>2, <3>2, <1>1, <1>8, <1>9, <2>1 DEF Replaces
      <4>3. CASE ~Up(S, bp, q)
        BY <4>1, <4>3, <3>2, <1>1, <1>8, <1>9, <2>1 DEF Replaces
      <4>4. QED
        BY <4>2, <4>3
    <3>7. \A x \in DOMAIN Qn : x # p => x # bp /\ Qn[x] = Q[x]
      BY <3>2, <1>8 DEF Replaces
    <3>8. \A x \in DOMAIN Sn : x # p => Sn[x] = S[x]
      BY <3>2, <1>8 DEF Replaces
    <3>9. Back(Q, S, Qn, Sn, p, q, bp, p)
      BY <2>1, <3>2, <3>4, <3>5, <3>6, <3>7, <3>8, <1>8 DEF Back, Replaces
    <3>10. QED
      BY <2>1, <3>3, <3>9
  <2>2. CASE p + S[p] # bp
    <3> DEFINE Qn == [P1 EXCEPT ![p] = bp]
    <3>1. U!Lower(h1, p, bp) = [ptr |-> Qn, size |-> S1, freep |-> F]
      BY <2>2, <1>8, <1>9 DEF U!Lower
    <3>2. DOMAIN Qn = DOMAIN P1 /\ Qn[p] = bp /\ \A x \in DOMAIN Qn : x # p => Qn[x] = P1[x]
      BY <1>9
    <3> HIDE DEF Qn
    <3>3. \A x \in DOMAIN Qn : x # bp => Qn[x] = IF x = p THEN bp ELSE Q[x]
      BY <3>2, <1>8, <1>9
    <3>4. DOMAIN S1 = {x \in DOMAIN S : ~(Up(S, bp, q) /\ x = q) /\ ~(x = bp /\ bp = p)}
      BY <1>8, <1>9
    <3>5. Qn[bp] = IF Up(S, bp, q) THEN Q[q] ELSE q
      BY <3>2, <1>8, <1>9
    <3>6. Back(Q, S, Qn, S1, p, q, bp, bp)
      BY <2>2, <3>2, <3>3, <3>4, <3>5, <1>8 DEF Back
    <3>7. QED
      BY <2>2, <3>1, <3>6
  <2>3. QED
    BY <2>1, <2>2
<1>11. U!Freed(h, bp) = [ptr |-> P2, size |-> S2, freep |-> p]
  BY <1>2, <1>6, <1>10 DEF U!Freed
<1>12. QED
  BY <1>3, <1>4, <1>10, <1>11


\* what free leaves is a heap again, with the units of the piece in it
LEMMA FreeKeeps ==
  ASSUME LIMIT \in Nat, NEW Q, NEW S, NEW F, NEW L, NEW mem, HeapOK(Q, S, F, L, mem), NEW bp \in L,
         NEW P2, NEW S2, NEW p \in DOMAIN Q, NEW q, NEW b, p < bp, q = Q[p],
         \A x \in DOMAIN Q : x <= p \/ bp < x, Back(Q, S, P2, S2, p, q, bp, b)
  PROVE  HeapOK(P2, S2, p, L \ {bp}, mem) /\ \E x \in DOMAIN P2 : S2[x] >= S[bp]
<1>1. /\ bp \in Nat /\ bp > 0 /\ bp \notin DOMAIN Q /\ bp \in DOMAIN S /\ S[bp] \in Nat /\ S[bp] > 0 /\ bp <= LIMIT
      /\ DOMAIN Q \in SUBSET Nat /\ DOMAIN Q \in SUBSET (0..LIMIT) /\ DOMAIN S = DOMAIN Q \cup L /\ DOMAIN S \in SUBSET Nat
      /\ p \in Nat /\ p \in DOMAIN S /\ S[p] \in Nat /\ L \in SUBSET (0..LIMIT) /\ 0 \in DOMAIN Q /\ L \cap DOMAIN Q = {}
      /\ \A a \in DOMAIN S : S[a] \in Nat /\ (S[a] = 0 <=> a = 0)
  <2>1. /\ DOMAIN Q \in SUBSET (0..LIMIT) /\ 0 \in DOMAIN Q /\ L \in SUBSET (0..LIMIT) /\ L \cap DOMAIN Q = {}
        /\ DOMAIN S = DOMAIN Q \cup L /\ \A a \in DOMAIN S : S[a] \in Nat /\ (S[a] = 0 <=> a = 0)
    BY DEF HeapOK, Circular, Sized
  <2>2. DOMAIN Q \in SUBSET Nat /\ DOMAIN S \in SUBSET Nat
    <3>1. \A x \in 0..LIMIT : x \in Nat
      OBVIOUS
    <3>2. QED
      BY <2>1, <3>1
  <2>3. bp \in Nat /\ bp <= LIMIT /\ bp \notin DOMAIN Q /\ bp \in DOMAIN S /\ bp # 0 /\ S[bp] \in Nat /\ S[bp] # 0
    BY <2>1
  <2>4. bp > 0 /\ S[bp] > 0
    BY <2>3
  <2>5. p \in Nat /\ p \in DOMAIN S /\ S[p] \in Nat
    BY <2>1, <2>2
  <2>6. QED
    BY <2>1, <2>2, <2>3, <2>4, <2>5
<1>2. q \in DOMAIN Q /\ q \in Nat /\ S[q] \in Nat /\ Follows(DOMAIN Q, p, q)
  BY <1>1 DEF HeapOK, Circular, Follows
<1>3. \/ bp < q /\ \A x \in DOMAIN Q : x <= p \/ q <= x
      \/ q = 0 /\ \A x \in DOMAIN Q : x <= p
  <2>1. CASE p < q
    BY <1>1, <1>2, <2>1 DEF Follows
  <2>2. CASE ~(p < q)
    BY <1>1, <1>2, <2>2 DEF Follows
  <2>3. QED
    BY <2>1, <2>2
<1>4. \A x, y \in DOMAIN S : x < y => x + S[x] <= y
  BY DEF HeapOK, Apart
<1>5. p + S[p] <= bp /\ (bp < q => bp + S[bp] <= q) /\ (Up(S, bp, q) => bp < q)
  BY <1>1, <1>2, <1>4 DEF Up
<1>6. b \in {p, bp} /\ b \in Nat /\ (b = p <=> p + S[p] = bp)
  BY <1>1 DEF Back
<1>7. DOMAIN S2 = DOMAIN P2 \cup (L \ {bp}) /\ L \cap DOMAIN P2 \subseteq {bp}
  <2>1. CASE b = p
    BY <2>1, <1>1, <1>2, <1>5 DEF Back
  <2>2. CASE b = bp
    BY <2>2, <1>1, <1>2, <1>5 DEF Back
  <2>3. QED
    BY <2>1, <2>2, <1>6
<1>e. PICK e : e = IF Up(S, bp, q) THEN q + S[q] ELSE bp + S[bp]
  OBVIOUS
<1>8. e \in Nat /\ S2[b] = e - b /\ b < e /\ bp + S[bp] <= e /\ b <= bp /\ b \in DOMAIN S2 /\ b \in DOMAIN P2
  <2>1. e \in Nat /\ bp + S[bp] <= e
    BY <1>1, <1>2, <1>e DEF Up
  <2>2. S2[b] = e - b
    BY <1>e DEF Back
  <2>3. QED
    BY <2>1, <2>2, <1>1, <1>6, <1>7 DEF Back
\* every other piece is below the new one or above it
<1>o. \A x \in DOMAIN S2 : x # b => x \in DOMAIN S /\ x \in Nat /\ S2[x] = S[x] /\ S[x] \in Nat /\ (x + S[x] <= b \/ e <= x)
  <2> SUFFICES ASSUME NEW x \in DOMAIN S2, x # b PROVE x + S[x] <= b \/ e <= x
    BY <1>1 DEF Back
  <2>1. x \in DOMAIN S /\ x # bp /\ (Up(S, bp, q) => x # q) /\ x \in Nat /\ S[x] \in Nat
    BY <1>1, <1>6 DEF Back
  <2>2. CASE x < bp
    <3>1. x + S[x] <= bp
      BY <2>1, <2>2, <1>1, <1>4
    <3>2. CASE b = bp
      BY <3>1, <3>2
    <3>3. CASE b = p
      <4>1. ~(p < x)
        BY <2>1, <2>2, <3>3, <1>1, <1>4, <1>6
      <4>2. x < p
        BY <2>1, <3>3, <4>1, <1>1
      <4>3. QED
        BY <2>1, <3>3, <4>2, <1>1, <1>4
    <3>4. QED
      BY <3>2, <3>3, <1>6
  <2>3. CASE bp < x
    <3>1. bp + S[bp] <= x
      BY <2>1, <2>3, <1>1, <1>4
    <3>2. CASE Up(S, bp, q)
      <4>1. q < x
        BY <2>1, <3>1, <3>2, <1>2 DEF Up
      <4>2. q + S[q] <= x
        BY <2>1, <4>1, <1>1, <1>2, <1>4
      <4>3. QED
        BY <4>2, <3>2, <1>e
    <3>3. CASE ~Up(S, bp, q)
      BY <3>1, <3>3, <1>e
    <3>4. QED
      BY <3>2, <3>3
  <2>4. QED
    BY <2>1, <2>2, <2>3, <1>1
<1>u. \A x \in DOMAIN P2 : x \in Nat /\ (x = b \/ (x \in DOMAIN Q /\ x # bp /\ (Up(S, bp, q) => x # q) /\ x \in DOMAIN S2))
  BY <1>1, <1>6, <1>7 DEF Back
<1>v. \A x \in DOMAIN Q : ~(Up(S, bp, q) /\ x = q) => x \in DOMAIN P2
  BY DEF Back
<1>9. Circular(P2)
  <2>1. DOMAIN P2 \in SUBSET (0..LIMIT) /\ 0 \in DOMAIN P2
    BY <1>1, <1>2, <1>5, <1>6 DEF Back
  <2>2. ASSUME NEW a \in DOMAIN P2 PROVE Follows(DOMAIN P2, a, P2[a])
    <3>1. CASE a = b /\ Up(S, bp, q)
      <4>1. P2[a] = Q[q] /\ Follows(DOMAIN Q, q, Q[q]) /\ Q[q] \in DOMAIN Q /\ Q[q] \in Nat
        BY <3>1, <1>1, <1>2 DEF Back, HeapOK, Circular, Follows
      <4>2. bp < q /\ \A x \in DOMAIN Q : x <= p \/ q <= x
        BY <3>1, <1>1, <1>3, <1>5
      <4>3. CASE q < Q[q]
        <5>1. Q[q] \in DOMAIN P2 /\ b < Q[q]
          BY <4>1, <4>2, <4>3, <1>1, <1>2, <1>6, <1>v
        <5>2. \A x \in DOMAIN P2 : x <= b \/ Q[q] <= x
          <6> SUFFICES ASSUME NEW x \in DOMAIN P2, x # b PROVE x <= b \/ Q[q] <= x
            BY <1>6
          <6>1. x \in DOMAIN Q /\ x # q /\ x \in Nat
            BY <1>u, <3>1
          <6>2. x <= q \/ Q[q] <= x
            BY <4>1, <4>3, <6>1 DEF Follows
          <6>3. x <= p \/ q <= x
            BY <4>2, <6>1
          <6>4. QED
            BY <6>1, <6>2, <6>3, <1>1, <1>2, <1>6
        <5>3. QED
          BY <3>1, <4>1, <5>1, <5>2 DEF Follows
      <4>4. CASE ~(q < Q[q])
        <5>1. Q[q] = 0 /\ \A x \in DOMAIN Q : x <= q
          BY <4>1, <4>4, <1>1 DEF Follows
        <5>2. 0 \in DOMAIN P2 /\ ~(b < 0)
          BY <1>1, <1>6, <4>2, <1>v
        <5>3. \A x \in DOMAIN P2 : x <= b
          <6> SUFFICES ASSUME NEW x \in DOMAIN P2, x # b PROVE x <= b
            BY <1>6
          <6>1. x \in DOMAIN Q /\ x # q /\ x \in Nat
            BY <1>u, <3>1
          <6>2. QED
            BY <6>1, <4>2, <5>1, <1>1, <1>2, <1>6
        <5>4. QED
          BY <3>1, <4>1, <5>1, <5>2, <5>3 DEF Follows
      <4>5. QED
        BY <4>3, <4>4
    <3>2. CASE a = b /\ ~Up(S, bp, q)
      <4>1. P2[a] = q /\ q \in DOMAIN P2
        BY <3>2, <1>2, <1>v DEF Back
      <4>2. \A x \in DOMAIN P2 : x = b \/ x \in DOMAIN Q
        BY <1>u
      <4>3. QED
        BY <3>2, <4>1, <4>2, <1>1, <1>2, <1>3, <1>6 DEF Follows
    <3>3. CASE a # b /\ a = p
      <4>1. P2[a] = bp /\ b = bp
        BY <3>3, <1>6 DEF Back
      <4>2. \A x \in DOMAIN P2 : x = bp \/ x \in DOMAIN Q
        BY <4>1, <1>u
      <4>3. \A x \in DOMAIN P2 : x <= p \/ bp <= x
        BY <4>2, <1>1
      <4>4. QED
        BY <3>3, <4>1, <4>3, <1>8 DEF Follows
    <3>4. CASE a # b /\ a # p
      <4>1. a \in DOMAIN Q /\ a \in Nat /\ a # bp /\ (Up(S, bp, q) => a # q) /\ P2[a] = Q[a]
        BY <3>4, <1>u DEF Back
      <4>2. Follows(DOMAIN Q, a, Q[a]) /\ Q[a] \in DOMAIN Q /\ Q[a] \in Nat
        BY <4>1, <1>1 DEF HeapOK, Circular, Follows
      <4>3. Q[a] \in DOMAIN P2
        <5> SUFFICES ASSUME Up(S, bp, q), Q[a] = q PROVE FALSE
          BY <4>2, <1>v
        <5>1. bp < q
          BY <1>5
        <5>2. a < q
          BY <4>1, <4>2, <5>1, <1>1 DEF Follows
        <5>3. p <= a
          BY <4>1, <4>2, <5>1, <5>2, <1>1, <1>2 DEF Follows
        <5>4. a <= p
          BY <4>1, <5>1, <5>2, <1>1, <1>2, <1>3
        <5>5. QED
          BY <3>4, <4>1, <5>3, <5>4, <1>1
      <4>4. a < p \/ bp < a
        BY <3>4, <4>1, <1>1
      <4>5. ASSUME NEW x \in DOMAIN P2
            PROVE  IF a < Q[a] THEN x <= a \/ Q[a] <= x ELSE Q[a] = 0 /\ x <= a
        <5>1. CASE x \in DOMAIN Q
          BY <5>1, <4>2 DEF Follows
        <5>2. CASE x = bp
          <6>1. IF a < Q[a] THEN p <= a \/ Q[a] <= p ELSE Q[a] = 0 /\ p <= a
            BY <4>2 DEF Follows
          <6>2. QED
            BY <5>2, <6>1, <4>1, <4>2, <4>4, <1>1
        <5>3. QED
          BY <5>1, <5>2, <1>u, <1>6
      <4>6. QED
        BY <4>1, <4>3, <4>5 DEF Follows
    <3>5. QED
      BY <3>1, <3>2, <3>3, <3>4
  <2>3. QED
    BY <2>1, <2>2 DEF Circular
<1>10. p \in DOMAIN P2
  BY <1>1, <1>5, <1>6 DEF Back
<1>11. Sized(P2, S2, L \ {bp})
  <2>1. ASSUME NEW a \in DOMAIN S2 PROVE S2[a] \in Nat /\ (S2[a] = 0 <=> a = 0)
    <3>1. CASE a = b
      BY <3>1, <1>1, <1>6, <1>8
    <3>2. CASE a # b
      BY <3>2, <1>1 DEF Back
    <3>3. QED
      BY <3>1, <3>2
  <2>2. QED
    BY <2>1, <1>1, <1>7 DEF Sized
<1>12. Apart(S2)
  <2> SUFFICES ASSUME NEW x \in DOMAIN S2, NEW y \in DOMAIN S2, x < y PROVE x + S2[x] <= y
    BY DEF Apart
  <2>1. CASE x = b
    BY <2>1, <1>6, <1>8, <1>o
  <2>2. CASE y = b /\ x # b
    BY <2>2, <1>6, <1>8, <1>o
  <2>3. CASE x # b /\ y # b
    BY <2>3, <1>4, <1>o
  <2>4. QED
    BY <2>1, <2>2, <2>3
<1>13. Covers(S2, mem)
  <2>1. mem \in SUBSET (0..LIMIT - 1) /\ \A u \in Nat : u \in mem <=> \E a \in DOMAIN S : a <= u /\ u < a + S[a]
    BY DEF HeapOK, Covers
  <2>2. ASSUME NEW u \in Nat, u \in mem PROVE \E a \in DOMAIN S2 : a <= u /\ u < a + S2[a]
    <3>1. PICK a \in DOMAIN S : a <= u /\ u < a + S[a]
      BY <2>1, <2>2
    <3>2. CASE a \in DOMAIN S2 /\ a # b
      BY <3>1, <3>2, <1>o
    <3>3. CASE a \notin DOMAIN S2 \/ a = b
      <4>1. a \in Nat /\ S[a] \in Nat /\ (a \in {p, bp} \/ (Up(S, bp, q) /\ a = q))
        BY <3>3, <1>1, <1>6 DEF Back
      <4>2. b <= a
        BY <4>1, <3>3, <1>1, <1>5, <1>6, <1>7, <1>10
      <4>3. a + S[a] <= e
        BY <4>1, <1>1, <1>2, <1>5, <1>8, <1>e
      <4>4. b <= u /\ u < b + S2[b]
        BY <3>1, <4>1, <4>2, <4>3, <1>6, <1>8
      <4>5. QED
        BY <4>4, <1>8
    <3>4. QED
      BY <3>2, <3>3
  <2>3. ASSUME NEW u \in Nat, NEW a \in DOMAIN S2, a <= u, u < a + S2[a] PROVE u \in mem
    <3>1. CASE a # b
      BY <2>1, <2>3, <3>1, <1>o
    <3>2. CASE a = b
      <4>1. b <= u /\ u < e
        BY <2>3, <3>2, <1>6, <1>8
      <4>2. CASE u < bp
        <5>1. b = p /\ p + S[p] = bp
          BY <4>1, <4>2, <1>1, <1>6
        <5>2. QED
          BY <2>1, <4>1, <4>2, <5>1, <1>1
      <4>3. CASE bp <= u /\ u < bp + S[bp]
        BY <2>1, <4>3, <1>1
      <4>4. CASE bp + S[bp] <= u
        <5>1. Up(S, bp, q) /\ e = q + S[q]
          BY <4>1, <4>4, <1>1, <1>e
        <5>2. q <= u /\ u < q + S[q] /\ q \in DOMAIN S
          BY <4>1, <4>4, <5>1, <1>1, <1>2 DEF Up
        <5>3. QED
          BY <2>1, <5>2
      <4>5. QED
        BY <4>2, <4>3, <4>4, <1>1
    <3>3. QED
      BY <3>1, <3>2
  <2>4. QED
    BY <2>1, <2>2, <2>3 DEF Covers
<1>14. Joined(P2, S2)
  <2> SUFFICES ASSUME NEW x \in DOMAIN P2, NEW y \in DOMAIN P2, x # y PROVE x + S2[x] # y
    BY DEF Joined
  <2>0. \A x1, y1 \in DOMAIN Q : x1 # y1 => x1 + S[x1] # y1
    BY DEF HeapOK, Joined
  <2>1. CASE x = b
    <3>1. y \in DOMAIN Q /\ y # bp /\ (Up(S, bp, q) => y # q) /\ y \in Nat
      BY <2>1, <1>u
    <3>2. x + S2[x] = e
      BY <2>1, <1>6, <1>8
    <3>3. CASE Up(S, bp, q)
      BY <3>1, <3>2, <3>3, <2>0, <1>2, <1>e
    <3>4. CASE ~Up(S, bp, q)
      <4> SUFFICES ASSUME bp + S[bp] = y PROVE FALSE
        BY <3>2, <3>4, <1>e
      <4>1. bp < y
        BY <1>1
      <4>2. bp < q /\ q <= y
        BY <4>1, <3>1, <1>1, <1>3
      <4>3. QED
        BY <4>2, <3>1, <3>4, <1>1, <1>2, <1>5 DEF Up
    <3>5. QED
      BY <3>3, <3>4
  <2>2. CASE y = b /\ x # b
    <3>1. x \in DOMAIN Q /\ x # bp /\ x \in Nat /\ S2[x] = S[x] /\ S[x] \in Nat /\ x \in DOMAIN S
      BY <2>2, <1>u, <1>o
    <3>2. CASE b = p
      BY <2>0, <2>2, <3>1, <3>2, <1>1
    <3>3. CASE b = bp
      <4> SUFFICES ASSUME x + S[x] = bp PROVE FALSE
        BY <2>2, <3>1, <3>3
      <4>1. x < bp /\ x <= p
        BY <3>1, <1>1
      <4>2. x # p
        BY <3>3, <1>1, <1>6
      <4>3. x + S[x] <= p
        BY <4>1, <4>2, <3>1, <1>1, <1>4
      <4>4. QED
        BY <4>3, <3>1, <1>1
    <3>4. QED
      BY <3>2, <3>3, <1>6
  <2>3. CASE x # b /\ y # b
    <3>1. x \in DOMAIN Q /\ y \in DOMAIN Q /\ S2[x] = S[x]
      BY <2>3, <1>u, <1>o
    <3>2. QED
      BY <2>0, <3>1
  <2>4. QED
    BY <2>1, <2>2, <2>3
<1>15. S2[b] >= S[bp]
  BY <1>1, <1>6, <1>8
<1>16. QED
  BY <1>8, <1>9, <1>10, <1>11, <1>12, <1>13, <1>14, <1>15 DEF HeapOK


\* the loop of malloc looks at every free piece
LEMMA FoundIs ==
  ASSUME LIMIT \in Nat, NEW Q, Circular(Q), NEW S, NEW F \in DOMAIN Q, NEW n,
         NEW h, h = [ptr |-> Q, size |-> S, freep |-> F]
  PROVE  U!Found(h, n) <=> \E x \in DOMAIN Q : S[x] >= n
<1> DEFINE K == Cardinality(DOMAIN Q)
<1>1. PICK N : N = U!Nth(h)
  OBVIOUS
<1>2. K \in Nat /\ IsNth(Q, F, N) /\ h.ptr = Q /\ h.size = S
  BY <1>1, NthIs
<1>3. U!Fitting(h, n) = {i \in 1..K : S[N[i]] >= n}
  BY <1>1, <1>2, HeapCardinality DEF U!Fitting
<1>4. \A i \in 1..K : N[i] \in DOMAIN Q
  BY <1>2 DEF IsNth
<1>5. \A x \in DOMAIN Q : \E i \in 1..K : N[i] = x
  BY <1>2, AllFound
<1>6. QED
  BY <1>3, <1>4, <1>5 DEF U!Found

\* what malloc cuts off a free piece is a live one, and the rest a heap as before
LEMMA TakeKeeps ==
  ASSUME LIMIT \in Nat, NEW Q, NEW S, NEW F, NEW L, NEW mem, HeapOK(Q, S, F, L, mem), NEW n \in Nat, n > 0,
         NEW h, h = [ptr |-> Q, size |-> S, freep |-> F], U!Found(h, n)
  PROVE  LET t == U!Take(h, n)
         IN  HeapOK(t.heap.ptr, t.heap.size, t.heap.freep, L \cup {t.at}, mem)
<1> DEFINE K == Cardinality(DOMAIN Q)
<1>0. Circular(Q) /\ F \in DOMAIN Q
  BY DEF HeapOK
<1>1. PICK N : N = U!Nth(h)
  OBVIOUS
<1>2. K \in Nat /\ IsNth(Q, F, N) /\ h.ptr = Q /\ h.size = S
  BY <1>0, <1>1, NthIs
<1>3. U!Fitting(h, n) = {i \in 1..K : S[N[i]] >= n} /\ U!Fitting(h, n) # {}
  BY <1>1, <1>2, HeapCardinality DEF U!Fitting, U!Found
<1>4. PICK i : i = U!Min(U!Fitting(h, n)) /\ i \in U!Fitting(h, n)
  <2>1. U!Fitting(h, n) \in SUBSET Nat
    BY <1>2, <1>3
  <2>2. QED
    BY <2>1, <1>3, MinIs
<1>5. PICK prev, p : prev = N[i - 1] /\ p = N[i]
  OBVIOUS
<1>6. prev \in DOMAIN Q /\ p \in DOMAIN Q /\ p = Q[prev] /\ S[p] >= n
  <2>1. i \in 1..K /\ i \in 0..K /\ i - 1 \in 0..K /\ S[N[i]] >= n
    BY <1>2, <1>3, <1>4
  <2>2. QED
    BY <2>1, <1>2, <1>5 DEF IsNth
<1>7. U!Take(h, n) = U!Cut(h, prev, p, n)
  BY <1>1, <1>4, <1>5 DEF U!Take
<1>8. /\ DOMAIN Q \in SUBSET (0..LIMIT) /\ DOMAIN Q \in SUBSET Nat /\ 0 \in DOMAIN Q
      /\ DOMAIN S = DOMAIN Q \cup L /\ DOMAIN S \in SUBSET Nat /\ L \in SUBSET (0..LIMIT) /\ L \cap DOMAIN Q = {}
      /\ \A a \in DOMAIN S : S[a] \in Nat /\ (S[a] = 0 <=> a = 0)
  <2>1. /\ DOMAIN Q \in SUBSET (0..LIMIT) /\ 0 \in DOMAIN Q /\ L \in SUBSET (0..LIMIT) /\ L \cap DOMAIN Q = {}
        /\ DOMAIN S = DOMAIN Q \cup L /\ \A a \in DOMAIN S : S[a] \in Nat /\ (S[a] = 0 <=> a = 0)
    BY DEF HeapOK, Circular, Sized
  <2>2. \A x \in 0..LIMIT : x \in Nat
    OBVIOUS
  <2>3. QED
    BY <2>1, <2>2
<1>9. p \in Nat /\ prev \in Nat /\ S[p] \in Nat /\ p # 0 /\ p \in DOMAIN S
  BY <1>6, <1>8
<1>10. prev # p /\ Follows(DOMAIN Q, prev, p) /\ Follows(DOMAIN Q, p, Q[p]) /\ Q[p] \in DOMAIN Q /\ Q[p] \in Nat
  <2>1. Follows(DOMAIN Q, prev, p) /\ Follows(DOMAIN Q, p, Q[p])
    BY <1>0, <1>6 DEF Circular
  <2>2. QED
    BY <2>1, <1>8, <1>9 DEF Follows
<1>11. \A x, y \in DOMAIN S : x < y => x + S[x] <= y
  BY DEF HeapOK, Apart
<1>12. CASE S[p] = n
  <2>1. PICK P2 : P2 = [U!Without(Q, p) EXCEPT ![prev] = Q[p]]
    OBVIOUS
  <2>2. DOMAIN P2 = DOMAIN Q \ {p} /\ P2[prev] = Q[p] /\ \A x \in DOMAIN P2 : x # prev => P2[x] = Q[x]
    BY <2>1, <1>6, <1>10 DEF U!Without
  <2>3. U!Take(h, n) = [heap |-> [ptr |-> P2, size |-> S, freep |-> prev], at |-> p]
    BY <2>1, <1>6, <1>7, <1>12 DEF U!Cut
  <2>4. Circular(P2)
    <3>1. DOMAIN P2 \in SUBSET (0..LIMIT) /\ 0 \in DOMAIN P2
      BY <2>2, <1>8, <1>9
    <3>2. ASSUME NEW a \in DOMAIN P2 PROVE Follows(DOMAIN P2, a, P2[a])
      <4>0. a \in DOMAIN Q /\ a # p /\ a \in Nat /\ Follows(DOMAIN Q, a, Q[a]) /\ Q[a] \in DOMAIN Q /\ Q[a] \in Nat
        BY <2>2, <1>0, <1>8 DEF Circular, Follows
      <4>1. CASE a = prev
        <5>1. P2[a] = Q[p] /\ Q[p] # p
          BY <4>1, <2>2, <1>8, <1>9, <1>10 DEF Follows
        <5>2. CASE p < Q[p]
          <6>1. prev < Q[p]
            BY <5>2, <1>8, <1>9, <1>10, <1>6 DEF Follows
          <6>2. \A x \in DOMAIN P2 : x <= prev \/ Q[p] <= x
            <7> SUFFICES ASSUME NEW x \in DOMAIN P2 PROVE x <= prev \/ Q[p] <= x
              OBVIOUS
            <7>1. x \in DOMAIN Q /\ x # p /\ x \in Nat
              BY <2>2, <1>8
            <7>2. x <= p \/ Q[p] <= x
              BY <5>2, <7>1, <1>10 DEF Follows
            <7>3. IF prev < p THEN x <= prev \/ p <= x ELSE x <= prev
              BY <7>1, <1>10 DEF Follows
            <7>4. QED
              BY <7>1, <7>2, <7>3, <1>9, <1>10
          <6>3. QED
            BY <4>1, <5>1, <6>1, <6>2, <2>2, <1>10 DEF Follows
        <5>3. CASE ~(p < Q[p])
          <6>1. Q[p] = 0 /\ \A x \in DOMAIN Q : x <= p
            BY <5>3, <1>10 DEF Follows
          <6>2. \A x \in DOMAIN P2 : x <= prev
            <7> SUFFICES ASSUME NEW x \in DOMAIN P2 PROVE x <= prev
              OBVIOUS
            <7>1. x \in DOMAIN Q /\ x # p /\ x \in Nat
              BY <2>2, <1>8
            <7>2. IF prev < p THEN x <= prev \/ p <= x ELSE x <= prev
              BY <7>1, <1>10 DEF Follows
            <7>3. QED
              BY <6>1, <7>1, <7>2, <1>9
          <6>3. ~(prev < 0)
            BY <1>9
          <6>4. QED
            BY <4>1, <5>1, <6>1, <6>2, <6>3, <3>1 DEF Follows
        <5>4. QED
          BY <5>2, <5>3
      <4>2. CASE a # prev
        <5>1. P2[a] = Q[a]
          BY <4>2, <2>2
        <5>2. Q[a] # p
          <6> SUFFICES ASSUME Q[a] = p PROVE FALSE
            OBVIOUS
          <6>1. a < p /\ prev < p
            BY <4>0, <1>9, <1>10 DEF Follows
          <6>2. (prev <= a \/ p <= prev) /\ (a <= prev \/ p <= a)
            BY <6>1, <4>0, <1>6, <1>10 DEF Follows
          <6>3. QED
            BY <6>1, <6>2, <4>0, <4>2, <1>9
        <5>3. Q[a] \in DOMAIN P2
          BY <5>2, <4>0, <2>2
        <5>4. QED
          BY <5>1, <5>3, <4>0, <2>2 DEF Follows
      <4>3. QED
        BY <4>1, <4>2
    <3>3. QED
      BY <3>1, <3>2 DEF Circular
  <2>5. Sized(P2, S, L \cup {p})
    BY <2>2, <1>6, <1>8 DEF Sized
  <2>6. Joined(P2, S)
    BY <2>2 DEF HeapOK, Joined
  <2>7. prev \in DOMAIN P2
    BY <2>2, <1>6, <1>10
  <2>8. HeapOK(P2, S, prev, L \cup {p}, mem)
    BY <2>4, <2>5, <2>6, <2>7 DEF HeapOK
  <2>9. QED
    BY <2>3, <2>8
<1>13. CASE S[p] # n
  <2>1. PICK at : at = p + S[p] - n
    OBVIOUS
  <2>2. at \in Nat /\ p < at /\ at + n = p + S[p] /\ S[p] - n \in Nat /\ S[p] - n > 0 /\ p + (S[p] - n) = at
    BY <2>1, <1>6, <1>9, <1>13
  <2>3. at \notin DOMAIN S
    BY <2>2, <1>9, <1>11
  <2>4. at \in 0..LIMIT
    <3>1. \E a \in DOMAIN S : a <= at /\ at < a + S[a]
      BY <2>2, <1>9
    <3>2. at \in 0..LIMIT - 1
      BY <2>2, <3>1 DEF HeapOK, Covers
    <3>3. QED
      BY <3>2
  <2>5. PICK S2 : S2 = U!With([S EXCEPT ![p] = @ - n], at, n)
    OBVIOUS
  <2>6. DOMAIN S2 = DOMAIN S \cup {at} /\ S2[at] = n /\ S2[p] = S[p] - n /\ \A x \in DOMAIN S2 : x # at /\ x # p => S2[x] = S[x]
    BY <2>2, <2>3, <2>5, <1>9 DEF U!With
  <2>7. U!Take(h, n) = [heap |-> [ptr |-> Q, size |-> S2, freep |-> prev], at |-> at]
    BY <2>1, <2>5, <1>2, <1>7, <1>13 DEF U!Cut
  <2>8. Sized(Q, S2, L \cup {at})
    <3>1. ASSUME NEW a \in DOMAIN S2 PROVE S2[a] \in Nat /\ (S2[a] = 0 <=> a = 0)
      BY <2>2, <2>6, <1>8, <1>9
    <3>2. QED
      BY <2>3, <2>4, <2>6, <3>1, <1>8 DEF Sized
  <2>9. Apart(S2)
    <3> SUFFICES ASSUME NEW x \in DOMAIN S2, NEW y \in DOMAIN S2, x < y PROVE x + S2[x] <= y
      BY DEF Apart
    <3>0. (x # at => x \in DOMAIN S /\ x \in Nat /\ S[x] \in Nat) /\ (y # at => y \in DOMAIN S /\ y \in Nat)
      BY <2>6, <1>8
    <3>1. CASE x = at
      <4>1. p < y /\ y # at
        BY <3>0, <3>1, <2>2, <1>9
      <4>2. p + S[p] <= y
        BY <4>1, <3>0, <1>9, <1>11
      <4>3. QED
        BY <3>1, <4>2, <2>2, <2>6
    <3>2. CASE x = p
      <4>1. CASE y = at
        BY <3>2, <4>1, <2>2, <2>6
      <4>2. CASE y # at
        <5>1. p + S[p] <= y
          BY <3>0, <3>2, <4>2, <1>9, <1>11
        <5>2. QED
          BY <5>1, <3>0, <3>2, <4>2, <2>2, <2>6, <1>9
      <4>3. QED
        BY <4>1, <4>2
    <3>3. CASE x # at /\ x # p
      <4>1. S2[x] = S[x]
        BY <3>3, <2>6
      <4>2. CASE y = at
        <5>1. x < p
          <6> SUFFICES ASSUME p < x PROVE FALSE
            BY <3>0, <3>3, <1>9
          <6>1. p + S[p] <= x
            BY <3>0, <3>3, <1>9, <1>11
          <6>2. QED
            BY <6>1, <4>2, <3>0, <3>3, <2>2, <1>9
        <5>2. x + S[x] <= p
          BY <5>1, <3>0, <3>3, <1>9, <1>11
        <5>3. QED
          BY <5>2, <4>1, <4>2, <3>0, <3>3, <2>2, <1>9
      <4>3. CASE y # at
        BY <4>1, <4>3, <3>0, <3>3, <1>11
      <4>4. QED
        BY <4>2, <4>3
    <3>4. QED
      BY <3>1, <3>2, <3>3
  <2>10. Covers(S2, mem)
    <3>1. mem \in SUBSET (0..LIMIT - 1) /\ \A u \in Nat : u \in mem <=> \E a \in DOMAIN S : a <= u /\ u < a + S[a]
      BY DEF HeapOK, Covers
    <3>2. ASSUME NEW u \in Nat, NEW a \in DOMAIN S, a <= u, u < a + S[a]
          PROVE  \E x \in DOMAIN S2 : x <= u /\ u < x + S2[x]
      <4>1. CASE a # p
        BY <4>1, <3>2, <2>3, <2>6
      <4>2. CASE a = p /\ u < at
        BY <4>2, <3>2, <2>2, <2>6, <1>9
      <4>3. CASE a = p /\ at <= u
        BY <4>3, <3>2, <2>2, <2>6, <1>9
      <4>4. QED
        BY <4>1, <4>2, <4>3, <2>2
    <3>3. ASSUME NEW u \in Nat, NEW x \in DOMAIN S2, x <= u, u < x + S2[x]
          PROVE  \E a \in DOMAIN S : a <= u /\ u < a + S[a]
      <4>1. CASE x \in {p, at}
        <5>1. p <= u /\ u < p + S[p]
          BY <4>1, <3>3, <2>2, <2>6, <1>9
        <5>2. QED
          BY <5>1, <1>9
      <4>2. CASE x \notin {p, at}
        BY <4>2, <3>3, <2>6
      <4>3. QED
        BY <4>1, <4>2
    <3>4. QED
      BY <3>1, <3>2, <3>3 DEF Covers
  <2>11. Joined(Q, S2)
    <3> SUFFICES ASSUME NEW x \in DOMAIN Q, NEW y \in DOMAIN Q, x # y PROVE x + S2[x] # y
      BY DEF Joined
    <3>1. x \in DOMAIN S /\ y \in DOMAIN S /\ x + S[x] # y
      BY <1>8 DEF HeapOK, Joined
    <3>2. CASE x = p
      BY <3>1, <3>2, <2>2, <2>3, <2>6
    <3>3. CASE x # p
      BY <3>1, <3>3, <2>3, <2>6
    <3>4. QED
      BY <3>2, <3>3
  <2>12. HeapOK(Q, S2, prev, L \cup {at}, mem)
    BY <2>8, <2>9, <2>10, <2>11, <1>6 DEF HeapOK
  <2>13. QED
    BY <2>7, <2>12
<1>14. QED
  BY <1>12, <1>13


\* the heap malloc begins with, of base alone at first
LEMMA BasedIs ==
  ASSUME HeapBounds, HeapInv
  PROVE  \E Q, S, F : U!Based = [ptr |-> Q, size |-> S, freep |-> F] /\ HeapOK(Q, S, F, heapLive, Given)
<1>1. CASE freep = U!Null
  <2>1. PICK Q, S : Q = [a \in {0} |-> 0] /\ S = [a \in {0} |-> 0]
    OBVIOUS
  <2>2. U!Based = [ptr |-> Q, size |-> S, freep |-> 0]
    BY <1>1, <2>1 DEF U!Based, U!Base
  <2>3. heapLive = {} /\ Given = {}
    BY <1>1 DEF HeapInv, Given
  <2>4. DOMAIN Q = {0} /\ DOMAIN S = {0} /\ Q[0] = 0 /\ S[0] = 0
    BY <2>1
  <2>5. Circular(Q)
    BY <2>4 DEF Circular, Follows, HeapBounds
  <2>6. Sized(Q, S, {}) /\ Apart(S) /\ Joined(Q, S)
    BY <2>4 DEF Sized, Apart, Joined
  <2>7. Covers(S, {})
    BY <2>4 DEF Covers
  <2>8. HeapOK(Q, S, 0, heapLive, Given)
    BY <2>3, <2>4, <2>5, <2>6, <2>7 DEF HeapOK
  <2>9. QED
    BY <2>2, <2>8
<1>2. CASE freep # U!Null
  <2>1. U!Based = [ptr |-> ptr, size |-> heapSize, freep |-> freep]
    BY <1>2 DEF U!Based, U!Heap
  <2>2. QED
    BY <1>2, <2>1 DEF HeapInv
<1>3. QED
  BY <1>1, <1>2

\* every piece lies below the end of the units
LEMMA PiecesBelow ==
  ASSUME NEW Q, NEW S, NEW F, NEW L, NEW mem, HeapOK(Q, S, F, L, mem), NEW e \in Nat, e > 0,
         \A u \in mem : u < e
  PROVE  \A a \in DOMAIN S : a < e /\ a + S[a] <= e
<1> SUFFICES ASSUME NEW a \in DOMAIN S PROVE a < e /\ a + S[a] <= e
  OBVIOUS
<1>1. a \in Nat /\ S[a] \in Nat /\ (S[a] = 0 <=> a = 0)
  <2>1. a \in 0..LIMIT /\ S[a] \in Nat /\ (S[a] = 0 <=> a = 0)
    BY DEF HeapOK, Sized, Circular
  <2>2. QED
    BY <2>1
<1>2. CASE a = 0
  BY <1>1, <1>2
<1>3. CASE a # 0
  <2>1. a + S[a] - 1 \in Nat /\ a <= a + S[a] - 1 /\ a + S[a] - 1 < a + S[a]
    BY <1>1, <1>3
  <2>2. a + S[a] - 1 \in mem
    BY <2>1 DEF HeapOK, Covers
  <2>3. QED
    BY <1>1, <2>1, <2>2
<1>4. QED
  BY <1>2, <1>3

\* a heap in one record, as the operators of Umalloc take it
IsHeap(h, L, mem) ==
  h = [ptr |-> h.ptr, size |-> h.size, freep |-> h.freep] /\ HeapOK(h.ptr, h.size, h.freep, L, mem)

\* what morecore adds to the heap joins it
LEMMA MorecoreKeeps ==
  ASSUME HeapBounds, NEW h, NEW L, IsHeap(h, L, Given), foreign \in SUBSET (HEAP..top - 1),
         top \in Nat, HEAP <= top, NEW n \in Nat, n > 0, U!Grows(n)
  PROVE  /\ IsHeap(U!Morecore(h, n), L, (HEAP..top + U!Core(n) - 1) \ foreign)
         /\ U!Found(U!Morecore(h, n), n)
<1> PICK Q, S, F : HeapOK(Q, S, F, L, Given) /\ h = [ptr |-> Q, size |-> S, freep |-> F]
  BY DEF IsHeap
<1> PICK k : k = U!Morecore(h, n)
  OBVIOUS
<1>0. HEAP \in Nat /\ HEAP > 0 /\ LIMIT \in Nat /\ CORE \in Nat
  BY DEF HeapBounds
<1>1. PICK c : c = U!Core(n)
  OBVIOUS
<1>2. c \in Nat /\ c > 0 /\ n <= c /\ top + c <= LIMIT
  BY <1>0, <1>1 DEF U!Core, U!Grows
<1>3. PICK S1 : S1 = U!With(S, top, c)
  OBVIOUS
<1>4. \A a \in DOMAIN S : a < top /\ a + S[a] <= top
  <2>1. \A u \in Given : u < top
    BY <1>0 DEF Given
  <2>2. top > 0
    BY <1>0
  <2>3. QED
    BY <2>1, <2>2, PiecesBelow
<1>5. DOMAIN S1 = DOMAIN S \cup {top} /\ S1[top] = c /\ top \notin DOMAIN S /\ \A x \in DOMAIN S : S1[x] = S[x]
  BY <1>3, <1>4 DEF U!With
<1>6. /\ L \in SUBSET (0..LIMIT) /\ L \cap DOMAIN Q = {} /\ DOMAIN S = DOMAIN Q \cup L
      /\ DOMAIN Q \in SUBSET (0..LIMIT) /\ \A a \in DOMAIN S : a \in Nat /\ S[a] \in Nat /\ (S[a] = 0 <=> a = 0)
  <2>1. /\ L \in SUBSET (0..LIMIT) /\ L \cap DOMAIN Q = {} /\ DOMAIN S = DOMAIN Q \cup L
        /\ DOMAIN Q \in SUBSET (0..LIMIT) /\ \A a \in DOMAIN S : S[a] \in Nat /\ (S[a] = 0 <=> a = 0)
    BY DEF HeapOK, Sized, Circular
  <2>2. \A x \in 0..LIMIT : x \in Nat
    OBVIOUS
  <2>3. QED
    BY <2>1, <2>2
<1>7. Sized(Q, S1, L \cup {top})
  <2>1. ASSUME NEW a \in DOMAIN S1 PROVE S1[a] \in Nat /\ (S1[a] = 0 <=> a = 0)
    BY <1>0, <1>2, <1>5, <1>6
  <2>2. top \in 0..LIMIT
    BY <1>0, <1>2
  <2>3. QED
    BY <2>1, <2>2, <1>5, <1>6 DEF Sized
<1>8. Apart(S1)
  <2> SUFFICES ASSUME NEW x \in DOMAIN S1, NEW y \in DOMAIN S1, x < y PROVE x + S1[x] <= y
    BY DEF Apart
  <2>1. x # top
    BY <1>4, <1>5, <1>6
  <2>2. CASE y = top
    BY <2>1, <2>2, <1>4, <1>5
  <2>3. CASE y # top
    <3>1. x \in DOMAIN S /\ y \in DOMAIN S /\ S1[x] = S[x]
      BY <2>1, <2>3, <1>5
    <3>2. QED
      BY <3>1 DEF HeapOK, Apart
  <2>4. QED
    BY <2>2, <2>3
<1> DEFINE mem == (HEAP..top + c - 1) \ foreign
<1>9. Covers(S1, mem)
  <2>1. mem \in SUBSET (0..LIMIT - 1)
    BY <1>0, <1>2
  <2>2. ASSUME NEW u \in Nat PROVE u \in mem <=> \E a \in DOMAIN S1 : a <= u /\ u < a + S1[a]
    <3>1. u \in Given <=> \E a \in DOMAIN S : a <= u /\ u < a + S[a]
      BY DEF HeapOK, Covers
    <3>2. u \in mem <=> u \in Given \/ (top <= u /\ u < top + c)
      BY <1>0, <1>2 DEF Given
    <3>3. (\E a \in DOMAIN S1 : a <= u /\ u < a + S1[a]) <=>
            (\E a \in DOMAIN S : a <= u /\ u < a + S[a]) \/ (top <= u /\ u < top + c)
      BY <1>5
    <3>4. QED
      BY <3>1, <3>2, <3>3
  <2>3. QED
    BY <2>1, <2>2 DEF Covers
<1>10. Joined(Q, S1)
  BY <1>5, <1>6 DEF HeapOK, Joined
<1>11. HeapOK(Q, S1, F, L \cup {top}, mem)
  BY <1>7, <1>8, <1>9, <1>10 DEF HeapOK
<1>12. PICK h1 : h1 = [ptr |-> Q, size |-> S1, freep |-> F]
  OBVIOUS
<1>13. U!Morecore(h, n) = U!Freed(h1, top)
  BY <1>1, <1>3, <1>12 DEF U!Morecore
<1>14. PICK P2, S2, p, q, b :
         /\ U!Freed(h1, top) = [ptr |-> P2, size |-> S2, freep |-> p]
         /\ p \in DOMAIN Q /\ p < top /\ q = Q[p]
         /\ \A x \in DOMAIN Q : x <= p \/ top < x
         /\ Back(Q, S1, P2, S2, p, q, top, b)
  <2>1. PICK M, Z, t : M = L \cup {top} /\ Z = mem /\ t = top
    OBVIOUS
  <2>2. Circular(Q) /\ HeapOK(Q, S1, F, M, Z) /\ t \in M /\ LIMIT \in Nat
    BY <1>0, <1>11, <2>1 DEF HeapOK
  <2> HIDE DEF mem
  <2>3. QED
    BY <1>12, <2>1, <2>2, FreedIs
<1>15. HeapOK(P2, S2, p, (L \cup {top}) \ {top}, mem) /\ \E x \in DOMAIN P2 : S2[x] >= S1[top]
  <2>1. PICK M, Z, t : M = L \cup {top} /\ Z = mem /\ t = top
    OBVIOUS
  <2>2. HeapOK(Q, S1, F, M, Z) /\ t \in M /\ LIMIT \in Nat
    BY <1>0, <1>11, <2>1
  <2> HIDE DEF mem
  <2>3. HeapOK(P2, S2, p, M \ {t}, Z) /\ \E x \in DOMAIN P2 : S2[x] >= S1[t]
    BY <1>14, <2>1, <2>2, FreeKeeps
  <2>4. QED
    BY <2>1, <2>3
<1>16. (L \cup {top}) \ {top} = L
  BY <1>5, <1>6
<1>17. U!Found([ptr |-> P2, size |-> S2, freep |-> p], n)
  <2>1. PICK x \in DOMAIN P2 : S2[x] >= S1[top]
    BY <1>15
  <2>2. S2[x] \in Nat
    BY <1>15, <2>1 DEF HeapOK, Sized
  <2>3. S2[x] >= n
    BY <2>1, <2>2, <1>2, <1>5
  <2>4. Circular(P2) /\ p \in DOMAIN P2
    BY <1>15 DEF HeapOK
  <2>5. QED
    BY <1>0, <2>3, <2>4, FoundIs
<1>18. k = [ptr |-> P2, size |-> S2, freep |-> p]
  BY <1>13, <1>14
<1>19. k.ptr = P2 /\ k.size = S2 /\ k.freep = p
  BY <1>18
<1>20. U!Found(k, n)
  BY <1>17, <1>18
<1>21. QED
  BY <1>1, <1>15, <1>16, <1>18, <1>19, <1>20 DEF IsHeap

LEMMA FreepInside ==
  ASSUME HeapBounds, NEW Q, NEW S, NEW F, NEW L, NEW mem, HeapOK(Q, S, F, L, mem) PROVE F # U!Null
<1>1. F \in 0..LIMIT /\ LIMIT \in Nat
  BY DEF HeapOK, Circular, HeapBounds
<1>2. QED
  BY <1>1 DEF U!Null

LEMMA HeapInvInit == ASSUME HeapBounds, U!Init PROVE HeapInv
BY DEF HeapBounds, U!Init, HeapInv, U!Null, U!FailsOnlyWithoutMemory

LEMMA MallocKeeps == ASSUME HeapBounds, HeapInv, NEW n \in MallocSizes, U!Malloc(n) PROVE HeapInv'
<1>0. /\ n \in Nat /\ n > 0 /\ HEAP \in Nat /\ HEAP > 0 /\ LIMIT \in Nat /\ CORE \in Nat
      /\ top \in Nat /\ HEAP <= top /\ top <= LIMIT /\ foreign \in SUBSET (HEAP..top - 1) /\ foreign' = foreign
  BY DEF HeapBounds, HeapInv, U!Malloc
<1>1. PICK Q, S, F : U!Based = [ptr |-> Q, size |-> S, freep |-> F] /\ HeapOK(Q, S, F, heapLive, Given)
  BY BasedIs
<1>2. Circular(Q) /\ F \in DOMAIN Q
  BY <1>1 DEF HeapOK
<1>3. CASE ~U!Found(U!Based, n) /\ ~U!Grows(n)
  <2>1. ptr' = Q /\ heapSize' = S /\ freep' = F /\ heapFailed' = n /\ top' = top /\ heapLive' = heapLive
    BY <1>1, <1>3 DEF U!Malloc, U!SetHeap
  <2>2. \A x \in DOMAIN Q : ~(S[x] >= n)
    BY <1>0, <1>1, <1>2, <1>3, FoundIs
  <2>3. \A x \in DOMAIN Q : S[x] \in Nat
    BY <1>1 DEF HeapOK, Sized
  <2>4. U!FailsOnlyWithoutMemory'
    <3>1. ~U!Grows(n)'
      BY <1>3, <2>1 DEF U!Grows
    <3>2. \A x \in DOMAIN Q : S[x] < n
      BY <2>2, <2>3, <1>0
    <3>3. QED
      BY <2>1, <3>1, <3>2 DEF U!FailsOnlyWithoutMemory, U!FreePieces, U!Heap, U!Grows
  <2>5. Given' = Given
    BY <1>0, <2>1 DEF Given
  <2>6. freep' # U!Null /\ U!Null' = U!Null
    BY <1>1, <2>1, FreepInside DEF U!Null
  <2>7. QED
    BY <1>0, <1>1, <2>1, <2>4, <2>5, <2>6 DEF HeapInv
<1>4. CASE U!Found(U!Based, n) \/ U!Grows(n)
  <2>1. PICK h : h = IF U!Found(U!Based, n) THEN U!Based ELSE U!Morecore(U!Based, n)
    OBVIOUS
  <2>2. /\ U!SetHeap(U!Take(h, n).heap) /\ heapLive' = heapLive \cup {U!Take(h, n).at} /\ heapFailed' = 0
        /\ top' = IF ~U!Found(U!Based, n) THEN top + U!Core(n) ELSE top
    BY <1>4, <2>1 DEF U!Malloc
  <2>3. top' \in Nat /\ HEAP <= top' /\ top' <= LIMIT /\ foreign' \in SUBSET (HEAP..top' - 1)
    BY <1>0, <1>4, <2>2 DEF U!Core, U!Grows
  <2>4. PICK P1, S1, F1 : /\ h = [ptr |-> P1, size |-> S1, freep |-> F1]
                          /\ HeapOK(P1, S1, F1, heapLive, (HEAP..top' - 1) \ foreign)
                          /\ U!Found(h, n)
    <3>1. CASE U!Found(U!Based, n)
      BY <1>1, <2>1, <2>2, <3>1 DEF Given
    <3>2. CASE ~U!Found(U!Based, n)
      <4>1. IsHeap(h, heapLive, (HEAP..top + U!Core(n) - 1) \ foreign) /\ U!Found(h, n)
        <5>1. PICK g, L : g = U!Based /\ L = heapLive
          OBVIOUS
        <5>2. U!Grows(n) /\ IsHeap(g, L, Given) /\ h = U!Morecore(g, n)
          BY <1>1, <1>4, <2>1, <3>2, <5>1 DEF IsHeap
        <5>3. IsHeap(h, L, (HEAP..top + U!Core(n) - 1) \ foreign) /\ U!Found(h, n)
          BY <1>0, <5>2, MorecoreKeeps
        <5>4. QED
          BY <5>1, <5>3
      <4>2. top' - 1 = top + U!Core(n) - 1
        BY <1>0, <2>2, <3>2 DEF U!Core
      <4>3. QED
        BY <4>1, <4>2 DEF IsHeap
    <3>3. QED
      BY <3>1, <3>2
  <2>5. PICK t : t = U!Take(h, n)
    OBVIOUS
  <2>6. HeapOK(ptr', heapSize', freep', heapLive', (HEAP..top' - 1) \ foreign)
    <3>1. PICK Z, L : Z = (HEAP..top' - 1) \ foreign /\ L = heapLive
      OBVIOUS
    <3>2. /\ HeapOK(P1, S1, F1, L, Z) /\ h = [ptr |-> P1, size |-> S1, freep |-> F1] /\ U!Found(h, n)
          /\ LIMIT \in Nat /\ n \in Nat /\ n > 0
      BY <1>0, <2>4, <3>1
    <3>3. HeapOK(t.heap.ptr, t.heap.size, t.heap.freep, L \cup {t.at}, Z)
      BY <2>5, <3>2, TakeKeeps
    <3>4. QED
      BY <2>2, <2>5, <3>1, <3>3 DEF U!SetHeap
  <2>7. Given' = (HEAP..top' - 1) \ foreign
    BY <1>0 DEF Given
  <2>8. freep' # U!Null /\ U!Null' = U!Null
    <3>1. PICK P2, S2, F2, L, Z : P2 = ptr' /\ S2 = heapSize' /\ F2 = freep' /\ L = heapLive' /\ Z = (HEAP..top' - 1) \ foreign
      OBVIOUS
    <3>2. F2 # U!Null
      BY <2>6, <3>1, FreepInside
    <3>3. QED
      BY <3>1, <3>2 DEF U!Null
  <2>9. U!FailsOnlyWithoutMemory'
    BY <2>2 DEF U!FailsOnlyWithoutMemory
  <2>10. QED
    BY <2>2, <2>3, <2>6, <2>7, <2>8, <2>9 DEF HeapInv
<1>5. QED
  BY <1>3, <1>4

LEMMA FreeKeepsInv == ASSUME HeapBounds, HeapInv, NEW a \in heapLive, U!Free(a) PROVE HeapInv'
<1>0. /\ LIMIT \in Nat /\ top' = top /\ foreign' = foreign /\ heapFailed' = 0 /\ heapLive' = heapLive \ {a}
      /\ U!SetHeap(U!Freed(U!Heap, a))
  BY DEF HeapBounds, U!Free
<1>1. freep # U!Null
  BY DEF HeapInv
<1>2. HeapOK(ptr, heapSize, freep, heapLive, Given)
  BY <1>1 DEF HeapInv
<1>3. PICK h : h = [ptr |-> ptr, size |-> heapSize, freep |-> freep] /\ h = U!Heap
  BY DEF U!Heap
<1>4. PICK Q, S, F, L, mem : Q = ptr /\ S = heapSize /\ F = freep /\ L = heapLive /\ mem = Given
  OBVIOUS
<1>5. PICK P2, S2, p, q, b :
        /\ U!Freed(h, a) = [ptr |-> P2, size |-> S2, freep |-> p]
        /\ p \in DOMAIN Q /\ p < a /\ q = Q[p]
        /\ \A x \in DOMAIN Q : x <= p \/ a < x
        /\ Back(Q, S, P2, S2, p, q, a, b)
  <2>1. Circular(Q) /\ HeapOK(Q, S, F, L, mem) /\ a \in L /\ h = [ptr |-> Q, size |-> S, freep |-> F]
    BY <1>2, <1>3, <1>4 DEF HeapOK
  <2>2. QED
    BY <1>0, <2>1, FreedIs
<1>6. HeapOK(P2, S2, p, L \ {a}, mem)
  <2>1. HeapOK(Q, S, F, L, mem) /\ a \in L
    BY <1>2, <1>4
  <2>2. QED
    BY <1>0, <1>5, <2>1, FreeKeeps
<1>7. ptr' = P2 /\ heapSize' = S2 /\ freep' = p
  BY <1>0, <1>3, <1>5 DEF U!SetHeap
<1>8. Given' = Given /\ U!FailsOnlyWithoutMemory'
  BY <1>0 DEF Given, U!FailsOnlyWithoutMemory
<1>9. freep' # U!Null /\ U!Null' = U!Null
  BY <1>6, <1>7, FreepInside DEF U!Null
<1>10. QED
  BY <1>0, <1>4, <1>6, <1>7, <1>8, <1>9 DEF HeapInv

LEMMA SbrkKeeps == ASSUME HeapBounds, HeapInv, U!Sbrk PROVE HeapInv'
<1>1. /\ HEAP \in Nat /\ LIMIT \in Nat /\ top \in Nat /\ HEAP <= top /\ top < LIMIT /\ foreign \in SUBSET (HEAP..top - 1)
      /\ top' = top + 1 /\ foreign' = foreign \cup {top} /\ heapFailed' = 0
      /\ UNCHANGED <<ptr, heapSize, freep, heapLive>>
  BY DEF HeapBounds, HeapInv, U!Sbrk
<1>2. Given' = Given
  BY <1>1 DEF Given
<1>3. foreign' \in SUBSET (HEAP..top' - 1) /\ (foreign = HEAP..top - 1 => foreign' = HEAP..top' - 1)
  BY <1>1
<1>4. U!FailsOnlyWithoutMemory'
  BY <1>1 DEF U!FailsOnlyWithoutMemory
<1>5. top' \in Nat /\ HEAP <= top' /\ top' <= LIMIT
  BY <1>1
<1>6. U!Null' = U!Null
  BY DEF U!Null
<1>7. CASE freep = U!Null
  BY <1>1, <1>3, <1>4, <1>5, <1>6, <1>7 DEF HeapInv
<1>8. CASE freep # U!Null
  BY <1>1, <1>2, <1>3, <1>4, <1>5, <1>6, <1>8 DEF HeapInv
<1>9. QED
  BY <1>7, <1>8

LEMMA HeapStill == HeapInv /\ UNCHANGED heapvars => HeapInv'
BY DEF heapvars, HeapInv, Given, U!Null, U!FailsOnlyWithoutMemory, U!FreePieces, U!Heap, U!Grows

LEMMA HeapMeans == ASSUME HeapBounds, HeapInv PROVE MallocConsistent
<1>0. HEAP \in Nat /\ HEAP > 0 /\ top \in Nat /\ HEAP <= top
  BY DEF HeapBounds, HeapInv
<1>1. U!FailsOnlyWithoutMemory
  BY DEF HeapInv
<1>2. CASE freep = U!Null
  BY <1>1, <1>2 DEF HeapInv, MallocConsistent, U!TypeOK, U!EveryUnitOnce, U!Merged, U!FreePieces, U!Heap
<1>3. CASE freep # U!Null
  <2>0. HeapOK(ptr, heapSize, freep, heapLive, Given)
    BY <1>3 DEF HeapInv
  <2>1. /\ DOMAIN ptr \in SUBSET Nat /\ 0 \in DOMAIN ptr /\ freep \in DOMAIN ptr /\ DOMAIN heapSize = DOMAIN ptr \cup heapLive
        /\ \A a \in DOMAIN heapSize : a \in Nat /\ heapSize[a] \in Nat /\ (heapSize[a] = 0 <=> a = 0)
    <3>1. /\ DOMAIN ptr \in SUBSET (0..LIMIT) /\ 0 \in DOMAIN ptr /\ freep \in DOMAIN ptr
          /\ DOMAIN heapSize = DOMAIN ptr \cup heapLive /\ heapLive \in SUBSET (0..LIMIT)
          /\ \A a \in DOMAIN heapSize : heapSize[a] \in Nat /\ (heapSize[a] = 0 <=> a = 0)
      BY <2>0 DEF HeapOK, Circular, Sized
    <3>2. \A x \in 0..LIMIT : x \in Nat
      OBVIOUS
    <3>3. QED
      BY <3>1, <3>2
  <2>2. U!TypeOK
    <3> SUFFICES ASSUME NEW a \in DOMAIN ptr
                 PROVE  ptr[a] = LET above == {b \in DOMAIN ptr : b > a}
                                 IN IF above = {} THEN U!Base ELSE U!Min(above)
      BY <2>1 DEF U!TypeOK
    <3> DEFINE above == {b \in DOMAIN ptr : b > a}
    <3>1. Follows(DOMAIN ptr, a, ptr[a]) /\ a \in Nat /\ ptr[a] \in DOMAIN ptr /\ ptr[a] \in Nat
      BY <2>0, <2>1 DEF HeapOK, Circular, Follows
    <3>2. CASE a < ptr[a]
      <4>1. ptr[a] \in above /\ above \in SUBSET Nat
        BY <2>1, <3>1, <3>2
      <4>2. \A b \in above : ptr[a] <= b
        BY <2>1, <3>1, <3>2 DEF Follows
      <4> HIDE DEF above
      <4>3. U!Min(above) \in above /\ \A y \in above : U!Min(above) <= y
        BY <4>1, MinIs
      <4>4. U!Min(above) <= ptr[a] /\ ptr[a] <= U!Min(above) /\ U!Min(above) \in Nat
        BY <4>1, <4>2, <4>3
      <4>5. ptr[a] = U!Min(above) /\ above # {}
        BY <3>1, <4>1, <4>4
      <4>6. QED
        BY <4>5 DEF above
    <3>3. CASE ~(a < ptr[a])
      <4>1. ptr[a] = 0 /\ \A b \in DOMAIN ptr : b <= a
        BY <3>1, <3>3 DEF Follows
      <4>2. above = {}
        BY <2>1, <3>1, <4>1
      <4>3. QED
        BY <4>1, <4>2 DEF U!Base
    <3>4. QED
      BY <3>2, <3>3
  <2>3. U!Pieces = DOMAIN heapSize \ {0}
    <3>1. 0 \notin heapLive
      BY <2>0, <2>1 DEF HeapOK, Sized
    <3>2. QED
      BY <2>1, <3>1 DEF U!Pieces, U!FreePieces, U!Heap, U!Base
  <2>4. \A a \in U!Pieces, u \in Int : u \in U!Units(a) <=> a <= u /\ u < a + heapSize[a]
    <3> SUFFICES ASSUME NEW a \in U!Pieces, NEW u \in Int PROVE u \in U!Units(a) <=> a <= u /\ u < a + heapSize[a]
      OBVIOUS
    <3>1. a \in Nat /\ heapSize[a] \in Nat
      BY <2>1, <2>3
    <3>2. QED
      BY <3>1 DEF U!Units
  <2>5. UNION {U!Units(a) : a \in U!Pieces} = (HEAP..top - 1) \ foreign
    <3>1. \A u : u \in UNION {U!Units(a) : a \in U!Pieces} => u \in Nat /\ u \in Given
      <4> SUFFICES ASSUME NEW a \in U!Pieces, NEW u \in U!Units(a) PROVE u \in Nat /\ u \in Given
        OBVIOUS
      <4>1. a \in Nat /\ heapSize[a] \in Nat /\ a \in DOMAIN heapSize
        BY <2>1, <2>3
      <4>2. u \in Nat /\ a <= u /\ u < a + heapSize[a]
        BY <4>1 DEF U!Units
      <4>3. QED
        BY <2>0, <4>1, <4>2 DEF HeapOK, Covers
    <3>2. \A u : u \in Given => u \in UNION {U!Units(a) : a \in U!Pieces}
      <4> SUFFICES ASSUME NEW u \in Given PROVE \E a \in U!Pieces : u \in U!Units(a)
        OBVIOUS
      <4>1. u \in Nat
        BY <1>0 DEF Given
      <4>2. PICK a \in DOMAIN heapSize : a <= u /\ u < a + heapSize[a]
        BY <2>0, <4>1 DEF HeapOK, Covers
      <4>3. a # 0
        BY <2>1, <4>1, <4>2
      <4>4. QED
        BY <2>3, <2>4, <4>1, <4>2, <4>3
    <3>3. QED
      BY <3>1, <3>2 DEF Given
  <2>6. ASSUME NEW a \in U!Pieces, NEW b \in U!Pieces, a # b PROVE U!Units(a) \cap U!Units(b) = {}
    <3>1. /\ a \in Nat /\ b \in Nat /\ heapSize[a] \in Nat /\ heapSize[b] \in Nat
          /\ a \in DOMAIN heapSize /\ b \in DOMAIN heapSize
      BY <2>1, <2>3
    <3>2. a + heapSize[a] <= b \/ b + heapSize[b] <= a
      <4>1. a < b \/ b < a
        BY <2>6, <3>1
      <4>2. QED
        BY <2>0, <3>1, <4>1 DEF HeapOK, Apart
    <3>3. QED
      BY <3>1, <3>2 DEF U!Units
  <2>7. U!EveryUnitOnce
    BY <2>5, <2>6 DEF U!EveryUnitOnce
  <2>8. U!Merged
    <3> SUFFICES ASSUME NEW a \in DOMAIN ptr \ {0}, NEW b \in DOMAIN ptr \ {0} PROVE a + heapSize[a] # b
      BY DEF U!Merged, U!FreePieces, U!Heap, U!Base
    <3>1. CASE a = b
      BY <2>1, <3>1
    <3>2. CASE a # b
      BY <2>0, <3>2 DEF HeapOK, Joined
    <3>3. QED
      BY <3>1, <3>2
  <2>9. QED
    BY <1>1, <2>2, <2>7, <2>8 DEF MallocConsistent
<1>4. QED
  BY <1>2, <1>3

LEMMA HeapMoves ==
  ASSUME [PartsNext]_<<part, partsvars>>
  PROVE  (part = "malloc" /\ part' = part /\ U!Next) \/ UNCHANGED heapvars
BY DEF PartsNext, partsvars

LEMMA HeapInvNext == ASSUME HeapBounds PROVE HeapInv /\ [PartsNext]_<<part, partsvars>> => HeapInv'
<1> SUFFICES ASSUME HeapInv, [PartsNext]_<<part, partsvars>> PROVE HeapInv'
  OBVIOUS
<1>1. CASE U!Next
  BY <1>1, MallocKeeps, FreeKeepsInv, SbrkKeeps DEF U!Next
<1>2. CASE UNCHANGED heapvars
  BY <1>2, HeapStill
<1>3. QED
  BY <1>1, <1>2, HeapMoves

\* However a program mixes malloc, free and its own sbrk, the list of free pieces runs once through
\* all of them, every unit is in one piece, pieces that touch have been merged, and malloc fails
\* only when the process cannot grow and no free piece is large enough.
THEOREM HeapSafe ==
  ASSUME HeapBounds
  PROVE  PartsSpec => []MallocConsistent
<1>1. PartsInit => HeapInv
  BY HeapInvInit DEF PartsInit
<1>2. HeapInv => MallocConsistent
  BY HeapMeans
<1>3. QED
  BY <1>1, <1>2, HeapInvNext, PTL DEF PartsSpec
=============================================================================
