------------------------------ MODULE Umalloc -------------------------------
(***************************************************************************)
(* umalloc.c, the allocator of user programs: a circular list of the free  *)
(* pieces in the order of their addresses, which malloc searches from      *)
(* where the last call left off, cutting from the tail of the first piece  *)
(* that is large enough, and into which free merges what it gets back.     *)
(*                                                                         *)
(* Memory is counted in units of one header.  The header base, of size 0,  *)
(* is at address 0, below the heap, which begins at HEAP and which sbrk    *)
(* lets grow up to LIMIT; morecore asks for at least CORE units (4096).    *)
(***************************************************************************)
EXTENDS Naturals, FiniteSets, FiniteSetsExt

CONSTANTS HEAP, LIMIT, CORE, Sizes, MaxForeign

VARIABLES
  ptr, size, freep,    \* the headers of free pieces, and of live ones their size
  top,                 \* the end of the process
  live, foreign,       \* pieces malloc has returned; units the program took with sbrk itself
  failed               \* the units of a malloc that has just returned 0

uvars == <<ptr, size, freep, top, live, foreign, failed>>

Base == 0
Null == LIMIT + 1

Init ==
  /\ ptr = [a \in {} |-> 0] /\ size = [a \in {} |-> 0] /\ freep = Null
  /\ top = HEAP /\ live = {} /\ foreign = {} /\ failed = 0

-----------------------------------------------------------------------------

FreePieces(h) == DOMAIN h.ptr \ {Base}
Without(f, a) == [x \in DOMAIN f \ {a} |-> f[x]]
With(f, a, v) == [x \in DOMAIN f \union {a} |-> IF x = a THEN v ELSE f[x]]

\* the for of free(): the free piece after which bp belongs (mutant: the end of the list
\* is not recognised by its lower successor)
BadBetween(h, p, bp) == bp > p
Between(h, p, bp) ==
  \/ bp > p /\ bp < h.ptr[p]
  \/ p >= h.ptr[p] /\ (bp > p \/ bp < h.ptr[p])

\* the n-th piece after freep
Nth(h) == LET nth[n \in 0..Cardinality(DOMAIN h.ptr)] ==
                IF n = 0 THEN h.freep ELSE h.ptr[nth[n - 1]]
          IN nth

Place(h, bp) ==
  LET n == Min({i \in 0..Cardinality(DOMAIN h.ptr) : Between(h, Nth(h)[i], bp)})
  IN Nth(h)[n]

\* merge with the piece above (mutant: never), and then with the one below
BadUpper(h, p, bp) == [h EXCEPT !.ptr = With(@, bp, h.ptr[p])]
Upper(h, p, bp) ==
  LET q == h.ptr[p] IN
  IF bp + h.size[bp] = q
  THEN [h EXCEPT !.size = With(Without(@, q), bp, h.size[bp] + h.size[q]),
                 !.ptr = With(Without(@, q), bp, h.ptr[q])]
  ELSE [h EXCEPT !.ptr = With(@, bp, q)]

Lower(h, p, bp) ==
  IF p + h.size[p] = bp
  THEN [h EXCEPT !.size = With(Without(@, bp), p, h.size[p] + h.size[bp]),
                 !.ptr = With(Without(@, bp), p, h.ptr[bp])]
  ELSE [h EXCEPT !.ptr[p] = bp]

\* when the piece above is base itself (bp + size = 0) nothing merges: base is below the heap
Freed(h, bp) ==
  LET p == Place(h, bp) IN [Lower(Upper(h, p, bp), p, bp) EXCEPT !.freep = p]

\* sbrk gives nu units at the end of the process, or fails
Core(n) == IF n < CORE THEN CORE ELSE n
Grows(n) == top + Core(n) <= LIMIT
Morecore(h, n) == Freed([h EXCEPT !.size = With(@, top, Core(n))], top)

\* the loop of malloc: the first piece that is large enough, from the one after freep on;
\* freep itself comes last
Fitting(h, n) == {i \in 1..Cardinality(DOMAIN h.ptr) : h.size[Nth(h)[i]] >= n}

\* whether the search ends before it is back at freep (mutant: freep itself is not looked at)
BadFound(h, n) == \E i \in Fitting(h, n) : i < Cardinality(DOMAIN h.ptr)
Found(h, n) == Fitting(h, n) # {}

\* take p, which follows prev: all of it, or its tail (mutant: its head)
BadCut(h, prev, p, n) == [heap |-> [h EXCEPT !.size = With(With(@, p, h.size[p] - n), p, n),
                                             !.freep = prev], at |-> p]
Cut(h, prev, p, n) ==
  IF h.size[p] = n
  THEN [heap |-> [h EXCEPT !.ptr = [Without(@, p) EXCEPT ![prev] = h.ptr[p]], !.freep = prev],
        at |-> p]
  ELSE [heap |-> [ptr |-> h.ptr, freep |-> prev,
                  size |-> With([h.size EXCEPT ![p] = @ - n], p + h.size[p] - n, n)],
        at |-> p + h.size[p] - n]

Take(h, n) == LET i == Min(Fitting(h, n)) IN Cut(h, Nth(h)[i - 1], Nth(h)[i], n)

Heap == [ptr |-> ptr, size |-> size, freep |-> freep]
Based == IF freep = Null
         THEN [ptr |-> [a \in {Base} |-> Base], size |-> [a \in {Base} |-> 0], freep |-> Base]
         ELSE Heap

SetHeap(h) == ptr' = h.ptr /\ size' = h.size /\ freep' = h.freep

Malloc(n) ==
  /\ LET h == IF Found(Based, n) THEN Based ELSE Morecore(Based, n) IN
     IF ~Found(Based, n) /\ ~Grows(n)
     THEN SetHeap(Based) /\ failed' = n /\ UNCHANGED <<top, live>>
     ELSE /\ SetHeap(Take(h, n).heap) /\ live' = live \union {Take(h, n).at}
          /\ top' = IF ~Found(Based, n) THEN top + Core(n) ELSE top
          /\ failed' = 0
  /\ UNCHANGED foreign

Free(a) ==
  /\ a \in live /\ live' = live \ {a}
  /\ SetHeap(Freed(Heap, a)) /\ failed' = 0
  /\ UNCHANGED <<top, foreign>>

\* the program calls sbrk itself
Sbrk ==
  /\ Cardinality(foreign) < MaxForeign /\ top < LIMIT
  /\ foreign' = foreign \union {top} /\ top' = top + 1 /\ failed' = 0
  /\ UNCHANGED <<ptr, size, freep, live>>

Next ==
  \/ \E n \in Sizes : Malloc(n)
  \/ \E a \in live : Free(a)
  \/ Sbrk

Spec == Init /\ [][Next]_uvars

-----------------------------------------------------------------------------

Units(a) == a..a + size[a] - 1
Pieces   == live \union FreePieces(Heap)

\* The list runs once through base and every free piece in the order of their addresses.
TypeOK ==
  freep # Null =>
    /\ freep \in DOMAIN ptr /\ DOMAIN size = DOMAIN ptr \union live
    /\ \A a \in DOMAIN ptr :
         ptr[a] = LET above == {b \in DOMAIN ptr : b > a}
                  IN IF above = {} THEN Base ELSE Min(above)

\* Every unit that sbrk gave the allocator is in exactly one piece, live or free: malloc
\* never hands out the same memory twice and none is lost.
EveryUnitOnce ==
  freep # Null =>
    /\ UNION {Units(a) : a \in Pieces} = (HEAP..top - 1) \ foreign
    /\ \A a, b \in Pieces : a # b => Units(a) \intersect Units(b) = {}

\* Free pieces that touch have become one: memory is never in two halves because of the
\* order in which it was freed.
Merged == \A a, b \in FreePieces(Heap) : a + size[a] # b

\* malloc fails only when sbrk does, and not while a free piece is large enough.
FailsOnlyWithoutMemory ==
  failed # 0 => ~Grows(failed) /\ \A a \in FreePieces(Heap) : size[a] < failed
=============================================================================
